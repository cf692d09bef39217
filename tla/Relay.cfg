SPECIFICATION Spec
CONSTANTS
  c1 = c1
  c2 = c2
  c3 = c3
  Conns = {c1, c2, c3}
  Uuids = {u}
  Items <- Writes3
  Room = 1
  none = none
INVARIANTS
  TypeOK
  PairsAreExact
  Relayed
PROPERTIES
  NobodyStays
CHECK_DEADLOCK FALSE
