SPECIFICATION Spec
CONSTANTS
  g = g
  m = m
  far = far
  main = main
  observer = observer
  report = report
  None = None
  Node = {g, m}
  Key = {report}
  Owner <- OwnerOf
  Thread = {main, observer}
  Writers <- GateWrites
  Link <- GateToMate
  Met <- NobodyMet
  Private = {}
  MaxSeq = 2
  MaxStamp = 3
  MaxLife <- OnlyGate
  MaxFaults <- OneEach
SYMMETRY GateThreads
INVARIANTS TypeOK TornStaysLocal UniqueInLife SeenIsHeld
PROPERTY Replicates
CHECK_DEADLOCK FALSE
