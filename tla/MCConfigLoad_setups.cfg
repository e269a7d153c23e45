SPECIFICATION Spec
CONSTANTS
  MaxAllowedConns = 100
  ConnCounts <- MCConnCounts
INVARIANTS
  OptInsRespected
  TokenGuardsTools
  InsecureDBWarned
