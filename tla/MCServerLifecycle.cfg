SPECIFICATION FairSpec
CONSTANTS
  Requests = {r1, r2, r3}
  MaxQueries = 1
  HasTimeout = TRUE
INVARIANTS
  TypeOK
  ExitsClean
  PoolOutlivesHandlers
  TelemetryOutlivesStatements
  LostOnlyAfterTimeout
  ReportedOnce
PROPERTIES
  ShutdownCompletes
