CONSTANTS
  BlockSizes = {2}
  Capacities = {4}
  HostBlocks = {0, 1, 2, 3}
SPECIFICATION HistorySpec
INVARIANT FlushReturnsEverything
