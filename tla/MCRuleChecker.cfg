CONSTANTS
  NULL = NULL
  Headers <- MCHeaders
  Rules <- MCRules
SPECIFICATION Spec
INVARIANTS
  TypeOK
  HitExact
  ProbesSound
