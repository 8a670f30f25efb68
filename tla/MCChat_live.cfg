SPECIFICATION FairSpec
CONSTANTS
  WatchesCtx = FALSE
  MaxStream = 1
  MaxHello = 2
  MaxPush = 1
  Window = 4
INVARIANT ClientKeepsRestarting
INVARIANT LeavesOnlyDeadStreams
PROPERTY ImplementsEchoService
PROPERTY LossEndsStream
CHECK_DEADLOCK FALSE
