SPECIFICATION Spec
CONSTANTS
  NoId = NoId
  me = me
  other = other
  Self = me
  SignatureLen = 77
  InlineMax = 1
  Uint8Max = 4
  Uint16Max = 5
  Uint32Max = 6
  RecordBuffer = 128
  IdBuffer = 256
  SampleIds = {me, other}
  Writers = {main, observer}
  Puts <- MC_Puts
  Downlinks <- MC_Downlinks
  QueryMem = {q1, q2}
  PacketMem = {p1}
  QUEUE_SIZE = 1
  MaxLog = 3
PROPERTY DownlinkMerged
