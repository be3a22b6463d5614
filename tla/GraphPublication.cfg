CONSTANTS
  Graphs = {g1, g2, g3}
  Null = Null
  Readers = {r1, r2}
  Writers = {w1, w2}
  VersionModulus = 3
SPECIFICATION FairSpec
INVARIANTS NoUseAfterFree OneLiveGuard VersionNeverAhead
PROPERTIES ImplementsCell PinCompletes RetiredIsReclaimed
CHECK_DEADLOCK FALSE
