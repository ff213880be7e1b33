SPECIFICATION Spec
CONSTANTS
  Node = {n1, n2}
  PhysMod = 32
  Sub = 2
  Spread = 1
  MaxTime = 5
  LogicalCap = 2
  MaxLife = 1
SYMMETRY Symmetric
INVARIANTS TypeOK NoInventedSecond
PROPERTY CausalIssue
CHECK_DEADLOCK FALSE
