SPECIFICATION Spec
CONSTANTS
  c1 = c1
  c2 = c2
  p1 = p1
  p2 = p2
  p3 = p3
  Null = Null
  Caller = {c1, c2}
  Page = {p1, p2, p3}
  Array = {a1, a2}
  PageSize = 2
  Request <- MCRequest
  Frame <- MCFrame
INVARIANTS TypeOK RefLedger ArrayLedger BufferStaysPinned
PROPERTIES ImplementsLedger
