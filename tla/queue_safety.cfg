CONSTANTS
  Tasks = {t1}
  Workers = {w1, w2}
  Runs = {r1, r2}
  Requests = {q1, q2}
  Nobody = Nobody
  NoTask = NoTask
  MayCrash = {w1, w2}
  MaxStalls = 1
  MaxFaults = 1
  MaxRequests = 3
SPECIFICATION Spec
SYMMETRY Symmetry
INVARIANTS TypeOK OneRunPerTask NoLeakedLock
PROPERTIES StaleWorkerNeverWrites DoneSettles KeepsLifecycle
CHECK_DEADLOCK FALSE
