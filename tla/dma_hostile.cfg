SPECIFICATION Spec
CHECK_DEADLOCK FALSE
CONSTANTS
  Word = {0, 1, 2}
  Page <- TwoPages
  MaxPoll = 10
  EpDeadline = 11
  GoClearsDone = FALSE
  PinMayFail = TRUE
  RerunWhenIdle = FALSE
INVARIANTS TypeOK NothingLeaksAtExit
PROPERTIES Terminates
