SPECIFICATION FairSpec
CONSTANTS
  A = A
  B = B
  m1 = m1
  m2 = m2
  NoMsg = NoMsg
  Msg = {m1, m2}
  MaxCopies = 1
  Events = {"crash", "loss", "expiry", "io_error", "delete"}
  Overlap = FALSE
INVARIANTS
  TypeOK
  HeadIsNewest
  LinearThreadsAgree
PROPERTIES
  KeepsDeliveryContract
  OutboxDrains
CHECK_DEADLOCK FALSE
