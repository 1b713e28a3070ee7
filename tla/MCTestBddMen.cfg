CONSTANTS
  Links <- MCLinks
  NULL = NULL
  Headers <- MCHeaders
  Rewrites <- MCRewrites
  GivenRules <- MCGivenRules
SPECIFICATION Spec
INVARIANTS
  NoconfExact
  MergedExact
  RulesKept
  CutClosed
  AttachedExact
  BoundingClosed
PROPERTIES
  Terminates
