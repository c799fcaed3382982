CONSTANTS
  Counts <- HugeCounts
  SourceLens <- InRangeLens
  MaxCalls = 4
SPECIFICATION Spec
CHECK_DEADLOCK FALSE
INVARIANT
  SpaceAsPromised
