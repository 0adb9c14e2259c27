CONSTANTS
  p1 = p1
  p2 = p2
  s1 = s1
  q1 = q1
  None = None
  Prompts = {p1}
  Structured = {s1}
  Statuses = {}
  Mode = "native"
  MaxTurns = 2
  MaxCharacters = 5
  Retries = 1
  MaxResets = 0
  ContentSize <- MCContentSize
  ReplySizes <- MCReplySizes
  Seed <- MCSeed
  Restores <- MCRestores
SPECIFICATION Spec
CHECK_DEADLOCK FALSE
INVARIANT
  CancelledTurnsNotCommitted
