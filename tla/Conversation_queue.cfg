CONSTANTS
  p1 = p1
  p2 = p2
  s1 = s1
  q1 = q1
  None = None
  Prompts = {p1, p2}
  Structured = {s1}
  Statuses = {}
  Mode = "replay"
  MaxTurns = 2
  MaxCharacters = 4
  Retries = 0
  MaxResets = 0
  ContentSize <- MCContentSize
  ReplySizes <- MCReplySizes
  Seed <- MCSeed
  Restores <- MCRestores
SPECIFICATION Spec
CHECK_DEADLOCK FALSE
INVARIANTS
  ReservationsBalance
  TranscriptWithinLimits
  ValueMeansCommitted
PROPERTY
  ImplementsTranscript
