SPECIFICATION Spec
CONSTANTS
  WatchesCtx = TRUE
  MaxStream = 1
  MaxHello = 4
  MaxPush = 2
  Window = 1
INVARIANT HelloPipeline
INVARIANT AckPipeline
INVARIANT ErrChNeverBlocks
INVARIANT NilEndsDeadStreams
INVARIANT DeadlockNeedsFullWindows
CHECK_DEADLOCK FALSE
