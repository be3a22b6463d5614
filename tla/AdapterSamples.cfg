CONSTANTS
  BlockSizes = {1, 2}
  Capacities = {4}
  HostBlocks = {0, 1, 2, 3}
  MaxSamples = 9
SPECIFICATION Spec
INVARIANT StreamIntact
PROPERTY ImplementsAdapter
