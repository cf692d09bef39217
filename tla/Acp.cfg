SPECIFICATION Spec
CONSTANTS
  MaxMessages = 3
  RowOutcomes <- MayFail
  MaxPending = 1
  MaxSpawns = 2
  MaxFaults = 1
CHECK_DEADLOCK FALSE
INVARIANTS
  TypeOK
  OneTurnAtATime
  AtMostOnce
  QueuedIsStored
  QueueMovesOn
CONSTRAINT NotStale
PROPERTY
  CancelEndsTurn
