SPECIFICATION Spec
CONSTANTS
  WatchesCtx = TRUE
  MaxStream = 1
  MaxHello = 1
  MaxPush = 1
  Window = 1
INVARIANT ClientKeepsRestarting
CHECK_DEADLOCK FALSE
