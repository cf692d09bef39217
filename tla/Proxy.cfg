SPECIFICATION Spec
CONSTANTS
  p1 = p1
  p2 = p2
  h1 = h1
  h2 = h2
  Ports = {p1, p2}
  Contents <- SomeContents
  Handlers = {h1, h2}
  MaxRules = 2
  MaxAsked = 3
  MaxFaults = 1
  Absent = Absent
  NoPort = NoPort
SYMMETRY HandlerSymmetry
INVARIANTS
  TypeOK
  ServedAsRulesSay
  StoredAsRulesSay
CHECK_DEADLOCK FALSE
