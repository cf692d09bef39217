SPECIFICATION Spec
CONSTANTS
  k1 = k1
  k2 = k2
  Clients = {k1, k2}
  Traffic <- TwoClients
  Cap = 1
  Room = 1
INVARIANT TypeOK
PROPERTY ReadersReturn
CHECK_DEADLOCK FALSE
