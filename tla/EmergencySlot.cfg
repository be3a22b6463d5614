CONSTANTS
  Objects = {o1, o2, o3}
  Types = {t1, t2}
  Null = Null
  Uninit = Uninit
  CounterModulus = 4
SPECIFICATION FairSpec
INVARIANTS DrainedPairMatches NoVtableRace ReclaimedOnce
PROPERTY PushedIsFreed
