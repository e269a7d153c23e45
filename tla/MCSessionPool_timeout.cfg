SPECIFICATION FairSpec
CONSTANTS
  Conns = {c1, c2}
  Calls = {k1, k2, k3}
  EnableWriteQueries = TRUE
  HasTimeout = TRUE
INVARIANTS
  StatementsStartFresh
PROPERTIES
  CallsReturn
  CloseReturnsEventually
