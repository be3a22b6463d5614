CONSTANTS
  MaxNodes = 3
  Latencies = {0, 3}
  MaxBlocks = {1, 2, 3}
  BlockLens = {1, 3}
  Inputs = {1, 5}
  WordMax = 6
SPECIFICATION Spec
INVARIANTS OrderRespectsEdges CycleFoundExactly LatencyIsLongestPath BlockSolvesGraph
CHECK_DEADLOCK FALSE
