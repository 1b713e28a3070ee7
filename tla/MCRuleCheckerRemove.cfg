CONSTANTS
  NULL = NULL
  Headers <- MCHeaders
  Rules <- MCRules
  NRules <- MCNRules
SPECIFICATION DSpec
INVARIANTS
  RemoveComplete
