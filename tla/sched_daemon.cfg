\* A daemon with one slot, three clients, a queue of one and a shutdown at any point.
CONSTANTS
  a = a  b = b  p = p  q = q
  r1 = r1  r2 = r2  r3 = r3
  Loop = Loop
  NoTask = NoTask
  Daemon = TRUE
  Slots = 1
  Parallel <- None
  Queued <- None
  Requests = {r1, r2, r3}
  PlannedConns <- OneEach
  Budget = 1
  Rebalances = FALSE
  SingleStream = {}
  MaxPending = 1
  MaxStopped = 2
SPECIFICATION FairSpec
INVARIANTS
  EveryTaskInOnePlace
  WaitGroupExact
  DaemonStaysUp
  BoundedAndTallied
  CancelledRunIsTallied
PROPERTIES
  ImplementsSlotPool
  AcceptedFinishes
  CancelStopsRun
CHECK_DEADLOCK FALSE
