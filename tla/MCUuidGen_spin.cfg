\* One uuid beyond those that fit into a tick.
CONSTANTS
  Tick = 3
  MaxAdjust = 2
  SeqSpan = 4
  MaxTicks = 2
  MaxBacks = 0
  MaxCalls = 4
SPECIFICATION Spec
PROPERTY TickEndsWait
CHECK_DEADLOCK FALSE
