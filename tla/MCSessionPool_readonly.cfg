SPECIFICATION Spec
CONSTANTS
  Conns = {c1, c2}
  Calls = {k1, k2, k3}
  EnableWriteQueries = FALSE
  HasTimeout = FALSE
SYMMETRY PoolSymmetry
INVARIANTS
  TypeOK
  StatementsStartFresh
  OneCallPerConnection
  NoLeakedConnection
  CloseWaits
PROPERTIES
  KeepsPromise
