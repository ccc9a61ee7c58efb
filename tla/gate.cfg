CONSTANTS
  Requests = {q1, q2}
  Watchers = {v1}
  MaxDrafts = 2
  MaxRequests = 3
  MaxFaults = 1
SPECIFICATION FairSpec
INVARIANTS TypeOK SpawnOncePerPlan ToolOnceUndisturbed NotifiedOncePerDraft
PROPERTIES WaitingIsNotified
CHECK_DEADLOCK FALSE
