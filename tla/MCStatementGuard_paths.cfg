SPECIFICATION Spec
CONSTANTS
  MaxDepth = 4
  Visited = {"clause", "row"}
INVARIANTS
  TypeOK
  ReadToolsNeverWrite
  WriteToolsRunTheirOwn
  ReadsAreFine
CHECK_DEADLOCK FALSE
