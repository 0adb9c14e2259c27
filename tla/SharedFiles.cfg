CONSTANTS
  Files = {weights, config}
  DirectoryOf <- OwnDirectories
  ManifestModel = {config}
  PromptConfigs = {config}
  MaxFile = 2
  Pushers = {u1, u2}
  Trees = {t1, t2, t3}
  Listed = t1
  Broken = t2
  ListingOf <- TwoListings
  MaxEdits = 2
  Retries = 2
  Polls = 2
  Seeders = {s1, s2}
  Builders = {e1, e2, e3}
  Apart = e3
  ProcessOf <- TwoProcesses
SPECIFICATION FilesSpec
CHECK_DEADLOCK FALSE
INVARIANTS
  VerifiedIsOneMoment
  ProbeLeavesNoBrowser
  TurnsAreKept
  PassFitsTree
  ScanLeavesOnlyTruth
  HalfModelNeedsFault
  SeededGemmaStays
  BinaryIsWhole
PROPERTIES
  FilesWorkEnds
