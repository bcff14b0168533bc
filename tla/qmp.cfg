CONSTANTS
  Owner = owner
  Exec = {e1, e2}
  MaxSessions = 2
  MaxCancel = 1
SPECIFICATION Spec
INVARIANTS
  TypeOK
  CleanUpSound
  FlushNeverBlocks
  ReplyIsOwn
  IdleIsQuiet
PROPERTIES
  ImplementsSession
  DisconnectEnds
  ExecutionsEnd
CHECK_DEADLOCK FALSE
