CONSTANTS
  N = 4
  RESERVED_SLOTS = 2
  Events = {"PerformanceProbeOverload", "AudioThreadStopped", "SpscOverflow"}
  CounterModulus = 4
SPECIFICATION FairSpec
INVARIANTS ReservedForFatal NothingUnaccounted
PROPERTIES FatalLostOnlyBehindFatal QueuedIsDelivered
CHECK_DEADLOCK FALSE
