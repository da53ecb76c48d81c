CONSTANTS
  Clients = {c1, c2}
  FDs = {1, 2}
  NoFd = NoFd
  Listen = Listen
  None = None
  Workers = {w1, w2}
  Idle = Idle
  Phantom = Phantom
  MaxCalls = 2
  Buffer = 2
  Kinds = {"answered"}
  Faults = {"spurious"}
SPECIFICATION FairSpec
INVARIANTS CallInOnePlace KeptOpen
PROPERTIES ImplementsRpc
