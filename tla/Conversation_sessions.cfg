CONSTANTS
  p1 = p1
  p2 = p2
  s1 = s1
  q1 = q1
  None = None
  Prompts = {p1}
  Structured = {s1}
  Statuses = {q1}
  Mode = "native"
  MaxTurns = 2
  MaxCharacters = 4
  Retries = 0
  MaxResets = 1
  ContentSize <- MCContentSize
  ReplySizes <- MCReplySizes
  Seed <- MCSeed
  Restores <- MCRestores
SPECIFICATION Spec
CHECK_DEADLOCK FALSE
INVARIANTS
  JobsTakeTurns
  KeptSessionIsUsable
  NoSessionLeaks
PROPERTY
  PromptsStayInGeneration
