SPECIFICATION GSpec
CONSTANTS
  Headers <- MCHeaders
  Bit <- MCBit
  VarNum = 3
  InitSize = 26
  MaxSize = 60
  Growth = 8
  MaxRef = 1023
  Rules <- MCRules
  NULL = NULL
  GivenRules <- MCFullGivenRules
  MaxValues = 10
  CacheSizes <- MCCacheSizes
  MaxTag = 2
INVARIANT MtbddsKept
CHECK_DEADLOCK FALSE
