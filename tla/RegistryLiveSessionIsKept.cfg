CONSTANTS
  Names = {n1}
  Conns = {c1, c2}
  NoConn = NoConn
  MaxKicks = 0
SPECIFICATION Spec
PROPERTIES
  LiveSessionIsKept
CHECK_DEADLOCK FALSE
