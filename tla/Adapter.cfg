CONSTANTS
  BlockSizes = {1, 2, 3, 4}
  Capacities = {8}
  HostBlocks = {0, 1, 2, 3, 4, 6}
SPECIFICATION HistorySpec
INVARIANTS SteadyLatencyExact NoUnderrun DelayBounded
PROPERTIES ReserveIsMinimal Recovers
