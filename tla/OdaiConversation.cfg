CONSTANTS
  Users = {c1, c2, c3}
  MaxBridges = 3
SPECIFICATION FairSpec
CHECK_DEADLOCK FALSE
INVARIANTS
  ChromesAreKept
PROPERTY
  CreationsAndOwnersEnd
