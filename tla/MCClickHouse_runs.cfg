SPECIFICATION Spec
CONSTANTS
  c1 = c1
  c2 = c2
  NoTable = NoTable
  Clients <- TwoTerminals
  MaxRuns = 2
CHECK_DEADLOCK FALSE
INVARIANT AloneReadsItsWrites
INVARIANT AloneRunsThrough
INVARIANT OthersAreToBlame
