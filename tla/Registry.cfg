CONSTANTS
  Names = {n1, n2}
  Conns = {c1, c2}
  NoConn = NoConn
  MaxKicks = 2
SPECIFICATION Spec
INVARIANTS
  TypeOK
  EntryHasHandler
  NoticeAfterRemoval
  NoOrphanSession
PROPERTIES
  DeadEntryIsRemoved
CHECK_DEADLOCK FALSE
