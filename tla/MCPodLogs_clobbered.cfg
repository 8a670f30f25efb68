CONSTANTS
  None = None
  Labels <- TwoLabels
  Label <- LabelOf
  Targets <- MixedTargets
SPECIFICATION Spec
INVARIANT AllCollected
CHECK_DEADLOCK FALSE
