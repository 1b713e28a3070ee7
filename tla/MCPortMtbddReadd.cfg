CONSTANTS
  NULL = NULL
  Headers <- MCHeaders
  Rules <- MCRules
  NRules <- MCNRules
  Actions <- MCActions
  MatchSets <- MCMatchSets
  Ports <- MCPorts
  PortSets <- MCPortSets
SPECIFICATION MCSpec
INVARIANTS
  RightDominant
