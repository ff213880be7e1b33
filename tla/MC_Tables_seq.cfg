SPECIFICATION Spec
CONSTANTS
  g = g
  m = m
  far = far
  main = main
  observer = observer
  report = report
  None = None
  Node = {g, m}
  Key = {report}
  Owner <- OwnerOf
  Thread = {main, observer}
  Writers <- GateWrites
  Link <- AllInRange
  Met <- NobodyMet
  Private = {}
  MaxSeq = 2
  MaxStamp = 3
  MaxLife <- OnlyGate
  MaxFaults <- Neither
INVARIANT UniquePerWriter
CHECK_DEADLOCK FALSE
