CONSTANTS
  MaxBatch = 2
  MaxRounds = 2
  Rosters <- MCRosters
SPECIFICATION FairSpec
INVARIANTS TypeOK TidyCallsAreAnswered
PROPERTIES KeepsPromise TurnEnds
CHECK_DEADLOCK FALSE
