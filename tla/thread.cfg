CONSTANTS
  Agents = {"writer", "interviewer"}
  Interviewers = {"interviewer"}
  Requests = {q1, q2}
  Replies = {"reply"}
  Brief = "brief"
  Synthesized = "synthesized"
  Nobody = "nobody"
  RecursionLimit = 6
  MaxReplies = 2
  MaxRuns = 3
  MaxFaults = 1
SPECIFICATION FairSpec
INVARIANTS TypeOK AgentHasReadTheUser FeedbackIsHeard FeedbackReturnsToAuthor ReportTellsOfOutput
PROPERTIES DraftStopsAtGate RunComesToRest
CHECK_DEADLOCK FALSE
