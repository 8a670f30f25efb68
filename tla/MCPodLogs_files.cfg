CONSTANTS
  None = None
  Labels <- TwoLabels
  Label <- LabelOf
  Targets <- MixedTargets
SPECIFICATION FairSpec
INVARIANT LostOnlyToTwins
INVARIANT RaisesOnlyForTwins
PROPERTY JoinReturns
CHECK_DEADLOCK FALSE
