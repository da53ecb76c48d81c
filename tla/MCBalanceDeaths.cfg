CONSTANTS
  Servers = {s1, s2}
  Ports = {1, 2, 3}
  FDs = {1, 2}
  Hashes <- MCHashes
  VNodes = 1
  HashOf <- MCHashOf
  Threads = {t1}
  Clients = {c1}
  None = None
  Garbage = Garbage
  MaxDeaths = 2
SPECIFICATION FairSpec
INVARIANTS TypeOK RingAgrees
PROPERTIES FirstDeathNoticed DeletedFoundOnlyInRemoval
CHECK_DEADLOCK FALSE
