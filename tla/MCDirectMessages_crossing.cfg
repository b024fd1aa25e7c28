SPECIFICATION Spec
CONSTANTS
  A = A
  B = B
  m1 = m1
  m2 = m2
  NoMsg = NoMsg
  Msg = {m1, m2}
  MaxCopies = 1
  Events = {}
  Overlap = FALSE
INVARIANT ThreadsAgree
CHECK_DEADLOCK FALSE
