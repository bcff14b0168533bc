SPECIFICATION Spec
CHECK_DEADLOCK FALSE
CONSTANTS
  Word = {0, 1, 2, 3}
  Page <- ThreePages
  MaxPoll = 10
  EpDeadline = 10
  GoClearsDone = TRUE
  PinMayFail = FALSE
  RerunWhenIdle = TRUE
INVARIANTS EpTargetsPinned CommandWhole FreeOnlyWhenIdle DoneIsGenuine NothingPinnedAtExit
PROPERTIES EveryGoServed
