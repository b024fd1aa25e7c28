SPECIFICATION Spec
CONSTANTS
  m = m
  d = d
  k1 = k1
  k2 = k2
  k3 = k3
  b = b
  f = f
  NoCid = NoCid
  NoTomb = NoTomb
  latest = latest
  work = work
  Latest = latest
  r1 = r1
  r2 = r2
  Cid = {d, k1, k2, k3, b}
  Name = {latest, work}
  Keep = 1
  Request = {r1}
  Collector = {r1}
  Foreign = {}
  Links <- MCLinks
  Parent <- MCParent
  Checkpoint <- MCCheckpoint
  Decision <- MCDecision
INVARIANTS
  TypeOK
  EveryDeathHasReceipt
  SupersededByDescendant
  SweepIsSafe
PROPERTIES
  KeepsContract
