CONSTANTS
  N = 2
  M = 2
  NodeIds = {1, 2}
  MaxDepth = 3
  CounterModulus = 4
SPECIFICATION Spec
INVARIANTS DepthBalanced OneMeasurement RecordsAccounted
CHECK_DEADLOCK FALSE
