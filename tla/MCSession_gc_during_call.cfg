SPECIFICATION Spec
CONSTANTS
  Keep = 1
  EveryTurns = 1
  OnExit = TRUE
  MaxBlocks = 8
  Events = {"gc_during_call"}
INVARIANTS
  NamedCheckpointsResumable
