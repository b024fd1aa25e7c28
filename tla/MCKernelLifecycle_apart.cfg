SPECIFICATION FairSpec
CONSTANTS
  d1 = d1
  d2 = d2
  d3 = d3
  d4 = d4
  s1 = s1
  s2 = s2
  First = d1
  NoDaemon = NoDaemon
  Supervisor = {s1, s2}
  Daemon = {d1, d2, d3}
  Starts = {"none", "old"}
  Faults = {"crash", "lock_fails", "spawn_fails"}
INVARIANTS
  AtMostOneKernel
  ServingKernelIsFound
  UpgradedMeansCurrent
PROPERTIES
  RequestEnds
CHECK_DEADLOCK FALSE
