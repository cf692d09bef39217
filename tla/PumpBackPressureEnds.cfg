SPECIFICATION Spec
CONSTANTS
  k1 = k1
  k2 = k2
  Clients = {k1}
  Traffic <- OneTunnel
  Cap = 2
  Room = 1
PROPERTY BackPressureEnds
CHECK_DEADLOCK FALSE
