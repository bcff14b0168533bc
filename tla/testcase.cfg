SPECIFICATION Spec
CONSTANTS
  Slots = 2
  MaxFiles = 3
  Sixty = 3
  MaxHour = 1
  Keys = {"k1", "k2"}
  MaxResets = 2
INVARIANTS
  TypeOK
  LogKept
  DiffExactOrNothing
  ResetHandled
PROPERTY
  PortsComeBack
CHECK_DEADLOCK FALSE
