SPECIFICATION FairSpec
CONSTANTS
  N = 2
  MaxCreates = 2
  MaxFaults = 2
INVARIANT TypeOK
INVARIANT RefusedOnlyForVMs
INVARIANT LeavesOnlyNets
INVARIANT CreateAgainKeepsFirst
PROPERTY DeleteConverges
