CONSTANTS
  Servers = {s1, s2, s3}
  Ports = {1, 2, 3}
  FDs = {1, 2, 3}
  Hashes <- MCHashes
  VNodes = 2
  HashOf <- MCHashOf
  Threads = {}
  Clients = {}
  None = None
  Garbage = Garbage
  MaxDeaths = 2
SPECIFICATION Spec
SYMMETRY Symmetry
INVARIANTS EveryEntryListed
CHECK_DEADLOCK FALSE
