CONSTANTS
  Prompts = {p1, p2}
  Probes = {b1}
  MaxCalls = 2
  None = None
  Requests = {r1, r2}
  MaxAttempts = 2
  Base = Base
  NameProbe = NameProbe
  Call = call
  Users = {call}
  MaxBridges = 1
  Entries = 3
  Clients = {k1, k2, k3}
  Streams = {c1}
  Deltas <- SomeDeltas
  MaxDeltas = 3
  Schedules = {q1, q2, q3}
  AvailabilityCalls = {a1, a2, a3}
  CreateCalls = {n1, n2}
SPECIFICATION LibrarySpec
CHECK_DEADLOCK FALSE
INVARIANTS
  PendingIsAwaited
  RepliesMatchPrompts
  ChildrenAreOwned
  SessionsMatchOwners
  LinesFollowManifest
  ChromeFollowsCommand
  ReplyIsWhole
  RequestsAreOwned
  HelpersKeepOne
PROPERTIES
  LibraryWorkEnds
