\* The aria2c profile, resumed: a static queue, connections raised and lowered, a control file whose writes may fail.
CONSTANTS
  c1 = c1  c2 = c2  c3 = c3
  w1 = w1  w2 = w2  w3 = w3
  NoChunk = NoChunk
  NoOne = NoOne
  Layout <- OneEngine
  Resumed = {c3}
  Stealing = {}
  Workers = {w1, w2, w3}
  Launched <- TwoWorkers
  Retry = 1
  CheckpointInterval = 2
  SaveFails = TRUE
  Rpc = {"cancel"}
  Adjusters = {a1}
  Targets = {1, 3}
SYMMETRY LaunchedOnly
SPECIFICATION Spec
INVARIANTS
  TypeOK
  DrainSafe
