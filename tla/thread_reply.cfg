CONSTANTS
  Agents = {"writer", "interviewer"}
  Interviewers = {"interviewer"}
  Requests = {q1}
  Replies = {"reply"}
  Brief = "brief"
  Synthesized = "synthesized"
  Nobody = "nobody"
  RecursionLimit = 25
  MaxReplies = 1
  MaxRuns = 2
  MaxFaults = 0
SPECIFICATION Spec
INVARIANT ReplyIsTakenUp
CHECK_DEADLOCK FALSE
