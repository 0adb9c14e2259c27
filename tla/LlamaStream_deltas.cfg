CONSTANTS
  Streams = {c1}
  Deltas <- SomeDeltas
  MaxDeltas = 2
SPECIFICATION StreamsSpec
CHECK_DEADLOCK FALSE
INVARIANT
  DeltasAreKept
