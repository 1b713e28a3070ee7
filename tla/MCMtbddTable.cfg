CONSTANTS
  NULL = NULL
  Headers <- MCHeaders
  Rules <- MCRules
SPECIFICATION Spec
INVARIANTS
  TypeOK
  TopCorrect
  TopLive
  CoverComplete
  CoverDescends
  RemovalNeverReports
  SelfWithin
PROPERTIES
  Implements
