CONSTANTS
  Keys <- TwoKeys
  Numbers = {1}
  Contents = {a}
  Absent = Absent
  Threads = {t1, t2}
  Replicas = {r1, r2}
  Ops = {"insert", "delete", "getall"}
  MaxLag = 2
  MaxLost = 1
SPECIFICATION Spec
SYMMETRY Symmetry
INVARIANTS ListingSound
