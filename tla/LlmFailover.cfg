CONSTANTS
  m1 = m1
  m2 = m2
  p1 = p1
  Models <- MCModels
  Providers <- MCProviders
  Provider <- MCProvider
  Chains <- MCChains
  Slots = {s1, s2}
  None = None
  Threshold = 2
  Base = 1
  MaxCool = 1
  Grace = 0
  Ttl = 1
  MaxEdits = 1
SPECIFICATION Spec
INVARIANTS
  TypeOK
  ProbeIsDue
  FreshSnapshot
PROPERTIES
  CooldownSteps
  OrphanProbeIsReclaimed
CHECK_DEADLOCK FALSE
