CONSTANTS
  Tasks = {t1, t2}
  Workers = {w1, w2}
  Runs = {r1}
  Requests = {q1}
  Nobody = Nobody
  NoTask = NoTask
  MayCrash = {w1, w2}
  MaxStalls = 0
  MaxFaults = 1
  MaxRequests = 1
SPECIFICATION FairSpec
PROPERTIES TodoIsServed ClaimedComesToRest
CHECK_DEADLOCK FALSE
