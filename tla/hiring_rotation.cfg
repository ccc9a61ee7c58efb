CONSTANTS
  Requests = {q1, q2}
  Runs = {r1}
  Labels = {"shop"}
  Blank = ""
  Omitted = "omitted"
  MaxSecrets = 3
  MaxChanges = 3
SPECIFICATION Spec
INVARIANT RotationTakesHold
CHECK_DEADLOCK FALSE
