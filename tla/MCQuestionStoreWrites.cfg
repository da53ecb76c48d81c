CONSTANTS
  Keys <- OneKey
  Numbers = {1, 2}
  Contents = {a, b}
  Absent = Absent
  Threads = {t1, t2}
  Replicas = {r1}
  Ops = {"insert", "delete"}
  MaxLag = 1
  MaxLost = 1
SPECIFICATION FairSpec
INVARIANTS AnswersAccount
PROPERTIES NoSilentLoss LoopsOnlyIfStored
