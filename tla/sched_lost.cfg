\* One slot, one task waiting.
CONSTANTS
  a = a  b = b  p = p  q = q
  r1 = r1  r2 = r2  r3 = r3
  Loop = Loop
  NoTask = NoTask
  Daemon = FALSE
  Slots = 1
  Parallel <- First
  Queued <- One
  Requests = {}
  PlannedConns <- OneEach
  Budget = 1
  Rebalances = FALSE
  SingleStream = {}
  MaxPending = 2
  MaxStopped = 2
SPECIFICATION Spec
INVARIANTS
  RunFinishesAll
CHECK_DEADLOCK FALSE
