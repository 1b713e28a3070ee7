CONSTANTS
  Links <- MCLinks
  NULL = NULL
  Headers <- MCHeaders
  Rewrites <- MCRewrites
  GivenRules <- MCGivenRules
SPECIFICATION Spec
INVARIANTS
  MergeKeepsDecisions
