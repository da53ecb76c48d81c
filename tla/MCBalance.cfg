CONSTANTS
  Servers = {s1, s2}
  Ports = {1, 2}
  FDs = {1, 2}
  Hashes <- MCHashes
  VNodes = 2
  HashOf <- MCHashOf
  Threads = {t1, t2}
  Clients = {c1, c2}
  None = None
  Garbage = Garbage
  MaxDeaths = 0
SPECIFICATION FairSpec
PROPERTIES EveryServerPinged EveryClientServed
CHECK_DEADLOCK FALSE
