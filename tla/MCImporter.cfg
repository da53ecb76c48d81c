CONSTANTS
  k1 = k1
  k2 = k2
  Keys <- KeysDef
  Questions <- QuestionsDef
  Fields = {f1, f2, f3}
  Nothing = Nothing
  Old = Old
  MaxOthers = 2
  Conns = {c1, c2}
  NoConn = NoConn
SPECIFICATION ImportSpec
CHECK_DEADLOCK FALSE
INVARIANTS ImportedInOrder StopsOnlyIfCut
PROPERTIES EndsOrAsksForEver
