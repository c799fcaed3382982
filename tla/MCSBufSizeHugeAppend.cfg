CONSTANTS
  Counts <- InRangeCounts
  SourceLens <- HugeLens
  MaxCalls = 4
SPECIFICATION Spec
CHECK_DEADLOCK FALSE
INVARIANT
  SizesWithinMaxSize
