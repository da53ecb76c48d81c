CONSTANTS
  Clients = {c1, c2}
  FDs = {1, 2}
  NoFd = NoFd
  Listen = Listen
  None = None
  Workers = {w1, w2}
  Idle = Idle
  Phantom = Phantom
  MaxCalls = 1
  Buffer = 1
  Kinds = {"answered", "silent"}
  Faults = {"abandon", "fragment", "stall", "garbage"}
SPECIFICATION Spec
SYMMETRY Symmetry
INVARIANTS TypeOK MisdeliveredOnlyAfterRelease AnsweredOnce
PROPERTIES StaleOnlyByInsert
CHECK_DEADLOCK FALSE
