CONSTANTS
  Closers = {"connect"}
  SeqSpace = 8
  FirstSeq = 7
  MaxPayload = 1
  RecvWindow = 2
  MinCwnd = 2
  DupAcks = 2
  MaxRetransmits = 2
  SendLimit = 1
  MaxFaults = 1
  MaxBytes <- OneWay
SPECIFICATION Spec
INVARIANTS
  TypeOK
  BufferIsBounded
  AckedIsReceived
PROPERTIES
  DirectionsArePipes
  WrittenIsRead
CHECK_DEADLOCK FALSE
