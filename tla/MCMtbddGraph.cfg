SPECIFICATION GSpec
CONSTANTS
  Headers <- MCHeaders
  Bit <- MCBit
  VarNum = 3
  InitSize = 110
  MaxSize = 110
  Growth = 1
  MaxRef = 1023
  Rules <- MCRules
  NULL = NULL
  GivenRules <- MCGivenRules
  MaxValues = 6
  CacheSizes <- MCCacheSizes
  MaxTag = 2
INVARIANTS RefsEnough OnePerPair
PROPERTY ImplementsTable
CHECK_DEADLOCK FALSE
