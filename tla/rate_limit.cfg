\* Two downloading workers and a client that changes the limit twice.
CONSTANTS
  Workers = {w1, w2}
  Clients = {c1}
  Rates = {0, 1, 8}
  Floor = 2
  Cooldown = 1
  MaxSignals = 2
  MaxSets = 2
SPECIFICATION FairSpec
INVARIANTS
  BackOffsAreSound
PROPERTIES
  OffStaysOff
  Restored
CHECK_DEADLOCK FALSE
