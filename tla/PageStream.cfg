CONSTANTS
  None = None
  MaxReaders = 3
  MaxChunks = 2
SPECIFICATION DeliverySpec
CHECK_DEADLOCK FALSE
INVARIANTS
  ReadersFollowStream
  NobodyIsStranded
PROPERTIES
  ImplementsChunkReaders
  StreamWorkEnds
