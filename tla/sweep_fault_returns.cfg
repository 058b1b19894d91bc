CONSTANTS
  DimensionOrder <- MCDimensionOrder
  PairOrder <- MCPairOrder
  Cells <- MCCells
  Scenario <- Demo
  Traffic <- MCTraffic
  Window = 4
  Trailing = 6
  NPaymentsMin = 30
  ShrinkagePrior = 50
  VolumeBaselineMin = 60
  EpisodeGap = 6
  Lookback = 12
  MaxBuckets = 18
  MaxChanges = 3
  MaxUnswept = 1
SPECIFICATION Spec
CHECK_DEADLOCK FALSE
INVARIANT ReturnIsAnIncident
