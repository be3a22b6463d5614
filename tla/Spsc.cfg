CONSTANTS
  N = 2
  W = 4
  M = 2
  Values = {a, b}
  Uninit = Uninit
  Callers = {"producer", "consumer", "monitor"}
SPECIFICATION LenSpec
INVARIANTS NoDataRace WindowInitialised RoomSeenByProducerIsThere
PROPERTIES ImplementsQueue WaitFree
CHECK_DEADLOCK FALSE
