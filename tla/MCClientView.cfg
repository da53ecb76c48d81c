CONSTANTS
  Roles = {"student", "teacher"}
  Fields = {1, 2, 3, 4}
  DegreeOf <- MCDegreeOf
  TableOf <- MCTableOf
  Contents = {a, b}
  Absent = Absent
  Draws = 2
  Faults = TRUE
SPECIFICATION Spec
SYMMETRY Symmetry
INVARIANTS StaleOnlyIfTouched FiveOfTheDegree OneIsLeft
PROPERTIES DeletesWhatWasShown
