SPECIFICATION Spec
CONSTANTS
  d1 = d1
  d2 = d2
  d3 = d3
  d4 = d4
  s1 = s1
  s2 = s2
  First = d1
  NoDaemon = NoDaemon
  Supervisor = {s1, s2}
  Daemon = {d1, d2, d3}
  Starts = {"stale"}
  Faults = {"takeover"}
INVARIANTS
  AtMostOneKernel
CHECK_DEADLOCK FALSE
