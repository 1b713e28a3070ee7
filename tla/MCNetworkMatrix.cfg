CONSTANTS
  NULL = NULL
  NRules = 5
  NLinks = 4
  Threshold = 2
  Products = 3
  Bits <- MCBits
  Nets <- MCNets
SPECIFICATION Spec
INVARIANTS
  PathsExact
  RefsExact
CHECK_DEADLOCK FALSE
