CONSTANTS
  Closers = {"connect"}
  SeqSpace = 8
  FirstSeq = 7
  MaxPayload = 1
  RecvWindow = 2
  MinCwnd = 2
  DupAcks = 2
  MaxRetransmits = 2
  SendLimit = 2
  MaxFaults = 1
  MaxBytes <- BothWays
SPECIFICATION Spec
INVARIANTS
  AckedIsReceived
CHECK_DEADLOCK FALSE
