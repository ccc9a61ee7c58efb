CONSTANTS
  Requests = {q1, q2, q3}
  Nobody = nobody
  MaxTurns = 3
  MaxFaults = 1
SPECIFICATION Spec
SYMMETRY Symmetry
INVARIANTS TypeOK AnswersNameOneTask TurnsAreKept BriefHasHeardTheTalk
PROPERTIES ActsAtOnce
CHECK_DEADLOCK FALSE
