CONSTANTS
  r1 = r1
  x1 = x1
  Ids = {i1}
  plain = plain
  odd = odd
  Accounts <- AccountsDef
  Kept <- TextDef
  Cached <- TextDef
  NoAccount = NoAccount
  Threads = {t1, t2}
  Users = {t1, t2}
  Replicas <- ReplicasDef
  NoRequest = NoRequest
  UniqueId = FALSE
  Conns = {k1, k2}
  NoConn = NoConn
  Contexts <- ContextsDef
  Serves <- ServesDef
  Writer = Writer
SPECIFICATION ServiceSpec
SYMMETRY Symmetry
INVARIANTS CacheAgrees Exclusive Conserved RefusedOnlyWhenShort
PROPERTIES ImplementsDirectory
