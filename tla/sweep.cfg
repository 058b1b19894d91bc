CONSTANTS
  DimensionOrder <- MCDimensionOrder
  PairOrder <- MCPairOrder
  Cells <- MCCells
  Scenario <- MCScenario
  Traffic <- MCTraffic
  Window = 4
  Trailing = 6
  NPaymentsMin = 30
  ShrinkagePrior = 50
  VolumeBaselineMin = 60
  EpisodeGap = 6
  Lookback = 12
  MaxBuckets = 18
  MaxChanges = 3
  MaxUnswept = 1
SPECIFICATION Spec
CHECK_DEADLOCK FALSE
INVARIANTS NoInnocentReading WatchesSpareFormedTraffic QuietBoard FirstFaultIsNoRecurrence
PROPERTIES OnsetHeld
