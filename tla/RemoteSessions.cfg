CONSTANTS
  Clients = {a, b}
  Callers = {a}
  MaxRequests = 2
  MaxTroubles = 1
SPECIFICATION Spec
INVARIANTS
  TypeOK
  ConfirmationGate
PROPERTIES
  AnswerIsFinal
  EndedStaysEnded
  PlaceholderEnds
  EndReachesPeer
CHECK_DEADLOCK FALSE
