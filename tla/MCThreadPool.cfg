CONSTANTS
  Workers = {w1, w2, w3}
  Requests = {r1, r2, r3}
  Idle = Idle
  Phantom = Phantom
SPECIFICATION FairSpec
INVARIANTS TypeOK FifoOrder ServedOnce NoLostWakeup
PROPERTIES EveryRequestFinishes ImplementsTaskQueue
