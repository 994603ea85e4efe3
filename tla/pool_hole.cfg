\* Connections lowered while a worker leaves and another requeues.
CONSTANTS
  c1 = c1  c2 = c2  c3 = c3
  w1 = w1  w2 = w2  w3 = w3
  NoChunk = NoChunk
  NoOne = NoOne
  Layout <- OneChunk
  Resumed = {}
  Stealing = {1}
  Workers = {w1, w2}
  Launched <- TwoWorkers
  Retry = 1
  CheckpointInterval = 2
  SaveFails = FALSE
  Rpc = {}
  Adjusters = {a1}
  Targets = {1}
SPECIFICATION Spec
INVARIANTS
  CompletedIsWhole
