SPECIFICATION Spec
CONSTANTS
  MaxAllowedConns = 100
  ConnCounts <- MCConnCounts
INVARIANTS
  SSLModeRequirement
