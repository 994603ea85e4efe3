\* A one-shot run in split-file mode: two files at once, one waiting, one without Range.
CONSTANTS
  a = a  b = b  p = p  q = q
  r1 = r1  r2 = r2  r3 = r3
  Loop = Loop
  NoTask = NoTask
  Daemon = FALSE
  Slots = 2
  Parallel <- Pair
  Queued <- One
  Requests = {}
  PlannedConns <- SplitThree
  Budget = 4
  Rebalances = TRUE
  SingleStream = {a}
  MaxPending = 2
  MaxStopped = 2
SPECIFICATION FairSpec
INVARIANTS
  AllotmentsWithinBudget
PROPERTIES
  RunReturns
CHECK_DEADLOCK FALSE
