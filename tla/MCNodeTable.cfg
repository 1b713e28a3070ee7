CONSTANTS
  Headers <- MCHeaders
  Bit <- MCBit
  VarNum = 3
  InitSize = 11
  MaxSize = 13
  Growth = 1
  MaxRef = 2
  MaxOps = 3
  Roots = {x1, x2}
SPECIFICATION Spec
SYMMETRY Symmetry
CHECK_DEADLOCK FALSE
INVARIANTS
  HeldIntact
  Canonical
  CacheSound
  FreeExact
