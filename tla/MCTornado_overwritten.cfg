CONSTANTS
  r1 = r1
  r2 = r2
  r3 = r3
  b1 = b1
  b2 = b2
  None = None
  Requests <- ThreeRequests
  Buckets <- TwoBuckets
  MaxTicks = 6
SPECIFICATION FairSpec
PROPERTY EveryRequestIsAnswered
