CONSTANTS
  Ticks = {k1, k2, k3}
  Max = 2
  MaxJobs = 5
  MaxKicks = 3
  MaxFaults = 1
SPECIFICATION FairSpec
INVARIANTS TypeOK OverlapBound PollLoopAlive
PROPERTIES ReadyIsClaimed
CHECK_DEADLOCK FALSE
