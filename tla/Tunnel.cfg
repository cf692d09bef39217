CONSTANTS
  Cids = {c1}
  Cap = 2
  InCap = 1
  BufCap = 2
  MaxData = 3
SPECIFICATION Spec
INVARIANTS
  TypeOK
PROPERTIES
  TunnelsArePipes
  NobodyHangs
  EndedTunnelIsGone
CHECK_DEADLOCK FALSE
