SPECIFICATION Spec
CHECK_DEADLOCK FALSE
CONSTANTS
  Page = {p1, p2}
  Iova = Iova
  Provisional = Provisional
  None = None
  MaxTriggers = 2
INVARIANTS DmaHitsBuffer

