SPECIFICATION Spec
CONSTANTS
  Keep = 1
  EveryTurns = 1
  OnExit = TRUE
  MaxBlocks = 7
  Events = {"gc_during_call", "io_error"}
INVARIANTS
  SoundWhenCalm
  ChainFollowsHistory
PROPERTIES
  TrimFreesOnlyCheckpoints
