CONSTANTS
  NULL = NULL
  Headers <- MCHeaders
  Rules <- MCRules
  NRules <- MCNRules
SPECIFICATION Spec
INVARIANTS
  PairExact
  SelfExact
  RestComplete
  SameTests
  SameNumbers
PROPERTIES
  Terminates
