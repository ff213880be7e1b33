SPECIFICATION Spec
CONSTANTS
  NoId = NoId
  me = me
  gate = gate
  Self = me
  SignatureLen = 77
  InlineMax = 1
  Uint8Max = 4
  Uint16Max = 5
  Uint32Max = 6
  RecordBuffer = 128
  IdBuffer = 256
  SampleIds = {me, gate}
  OwnIdentity <- MC_OwnIdentity
  Puts <- MC_Puts
  QueryMem = {q1, q2}
  TxQueueSize = 1
  MaxLog = 3
  MaxEvents = 1
INVARIANT StoppedWhenDone
CHECK_DEADLOCK FALSE
