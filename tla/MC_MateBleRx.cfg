SPECIFICATION Spec
CONSTANTS
  NoId = NoId
  me = me
  gate = gate
  pal = pal
  kMe = kMe
  kGate = kGate
  kMate = kMate
  kRoot = kRoot
  kForeign = kForeign
  RootKid = RootKid
  Gates = {gate}
  Mates = {pal}
  SignatureLen = 77
  InlineMax = 1
  Uint8Max = 4
  Uint16Max = 5
  Uint32Max = 6
  RecordBuffer = 128
  IdBuffer = 256
  MAX_IDENTITY_SIZE = 200
  SampleIds = {me, gate}
  Provisionings <- MC_Provisionings
  Incoming <- MC_Incoming
  Commands = {"delete"}
  Descriptor = {d1, d2}
  RxQueueSize = 1
INVARIANTS TypeOK OnlyCertified FiledIsKnown StoredIsSigned
PROPERTIES RecordsFreed FilesStayWhole HostReturns
CHECK_DEADLOCK FALSE
