SPECIFICATION SpecCollected
CONSTANTS
  Proc = {p1, p2}
  Source = {x1, x2}
  MaxTree = 2
  None = None
INVARIANT
  CopiesOpen
CHECK_DEADLOCK FALSE
