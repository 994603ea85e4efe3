\* The odm profile, resumed: a work-stealing queue, two workers, pauses and cancels.
CONSTANTS
  c1 = c1  c2 = c2  c3 = c3
  w1 = w1  w2 = w2  w3 = w3
  NoChunk = NoChunk
  NoOne = NoOne
  Layout <- OneEngine
  Resumed = {c3}
  Stealing = {1}
  Workers = {w1, w2}
  Launched <- TwoWorkers
  Retry = 1
  CheckpointInterval = 2
  SaveFails = FALSE
  Rpc = {"pause", "cancel"}
  Adjusters = {}
  Targets = {}
SPECIFICATION FairSpec
INVARIANTS
  DisjointWrites
  NothingLost
  CompletedIsWhole
  ControlTruth
  CheckpointLag
  BytesHonest
PROPERTIES
  ImplementsDownload
  CancelStops
  UnpausedReturns
