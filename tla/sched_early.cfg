\* Split-file mode: the remainder goes to a task that is being started.
CONSTANTS
  a = a  b = b  p = p  q = q
  r1 = r1  r2 = r2  r3 = r3
  Loop = Loop
  NoTask = NoTask
  Daemon = FALSE
  Slots = 2
  Parallel <- Pair
  Queued <- Rest
  Requests = {}
  PlannedConns <- SplitFour
  Budget = 5
  Rebalances = TRUE
  SingleStream = {}
  MaxPending = 2
  MaxStopped = 2
SPECIFICATION Spec
PROPERTIES
  SpawnsOnlyAfterStart
CHECK_DEADLOCK FALSE
