CONSTANTS
  t1 = t1
  t2 = t2
  Tasks <- TwoTasks
  Kinds <- AnyOther
  Bodies <- EitherOn
  Saved <- Silent
  Nothing = Nothing
  PerTick = 1
  Rounds <- TwiceAndOnce
  MaxRounds = 2
  MaxPatches = 1
  MaxFaults = 1
SPECIFICATION FairSpec
INVARIANTS TypeOK UnwantedMailIsNotSent
PROPERTIES OwedMailIsSent
CHECK_DEADLOCK FALSE
