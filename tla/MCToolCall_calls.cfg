SPECIFICATION FairSpec
CONSTANTS
  Requests = {"r1", "r2"}
  Workloads <- MCWorkloads
  MaxConns = 1
INVARIANTS
  TypeOK
  NothingLeftOpen
  AnswersMatchDatabase
  WriteAppliedOnce
  RecordsAgree
  DetailStaysInside
  RecordsExported
PROPERTIES
  CallsAnswered
