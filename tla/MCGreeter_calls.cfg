SPECIFICATION FairSpec
CONSTANTS
  MaxCall = 2
  Counts <- MixedCounts
  Default = 2
  MaxInt = 3
  Window = 1
INVARIANT GreatestCountNeverEnds
PROPERTY ImplementsNumberedStream
PROPERTY HonorsCancellation
PROPERTY ClientDialsAgain
