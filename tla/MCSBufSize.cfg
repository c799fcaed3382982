CONSTANTS
  Counts <- InRangeCounts
  SourceLens <- InRangeLens
  MaxCalls = 4
SPECIFICATION Spec
CHECK_DEADLOCK FALSE
INVARIANTS
  SizesWithinMaxSize
  NoSumWraps
  SpaceAsPromised
