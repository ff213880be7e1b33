SPECIFICATION Spec
CONSTANTS
  Node = {n1, n2}
  PhysMod = 32
  Sub = 2
  Spread = 1
  MaxTime = 8
  LogicalCap = 2
  MaxLife = 0
INVARIANT NeverAhead
CHECK_DEADLOCK FALSE
