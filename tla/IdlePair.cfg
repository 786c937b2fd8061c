SPECIFICATION Spec
CONSTANTS
  Idle = 3
INVARIANTS
  IdleCutJustified
  SteadyDirectionKeepsBoth
  SilentConnectionEnds
CHECK_DEADLOCK FALSE
