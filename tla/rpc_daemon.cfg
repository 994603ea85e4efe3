\* One request that adds a task and one of any other kind, a client, one slot,
\* a queue of one, a registry of one, a channel of one event.
CONSTANTS
  r1 = r1
  r2 = r2
  Requests = {r1, r2}
  Subscribers = {s1}
  Methods <- MCMethods
  Slots = 1
  MaxPending = 1
  MaxTracked = 1
  Capacity = 1
SPECIFICATION FairSpec
INVARIANTS
  ActionableFound
  ShutdownIsClean
  EventsHonest
PROPERTIES
  StartedIsEnded
  ShutdownExits
CHECK_DEADLOCK FALSE
