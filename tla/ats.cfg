SPECIFICATION Spec
CHECK_DEADLOCK FALSE
CONSTANTS
  Page = {p1, p2}
  Iova = Iova
  Provisional = Provisional
  None = None
  MaxTriggers = 4
INVARIANTS TypeOK DmaIsTranslated DmaHitsKnownBuffer
PROPERTIES TriggerServed

