SPECIFICATION Spec
CONSTANTS
  MaxLength = 5
  IndexCap = 10
  ArgLists <- MCArgLists
INVARIANTS
  EachPlaceholderPreceded
