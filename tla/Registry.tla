------------------------------ MODULE Registry ------------------------------
(* The Manager's task registry (download/manager.go): a map that RPC        *)
(* requests add to without a lock.  A caller loads the map, builds a copy   *)
(* with its own task and without the oldest terminal ones, and swaps the    *)
(* copy in if nobody was faster.  Ids are numbers in the order tasks were   *)
(* made, and a map is the set of its ids: every map holds the id of the     *)
(* call that built it, so equal sets are the same map.                      *)
EXTENDS Naturals, FiniteSets

CONSTANTS
  Callers,    \* requests that may be in track at once
  MaxTracked  \* maxTrackedTasks

VARIABLES
  registry,  \* the map behind m.mu
  cur,       \* the map each caller loaded
  nv         \* the copy it made

vars == <<registry, cur, nv>>

Init ==
  /\ registry = {}
  /\ cur = [c \in Callers |-> {}] /\ nv = [c \in Callers |-> {}]

Load(c) ==
  /\ cur' = [cur EXCEPT ![c] = registry]
  /\ UNCHANGED <<registry, nv>>

\* dropTerminalTasks: up to n terminal entries go, the oldest first.
DropTerminalTasks(m, n, terminal) ==
  {t \in m : t \in terminal => Cardinality({u \in m \cap terminal : u < t}) >= n}

Build(c, id, terminal) ==
  LET m == cur[c] \cup {id} IN
  /\ nv' = [nv EXCEPT ![c] = IF Cardinality(m) > MaxTracked
                               THEN DropTerminalTasks(m, Cardinality(m) - MaxTracked, terminal)
                               ELSE m]
  /\ UNCHANGED <<registry, cur>>

\* Mutant: a plain store instead of CompareAndSwap.
CanSwapMut(c) == TRUE

CanSwap(c) == registry = cur[c]

Swap(c) ==
  /\ CanSwap(c)
  /\ registry' = nv[c]
  /\ cur' = [cur EXCEPT ![c] = {}] /\ nv' = [nv EXCEPT ![c] = {}]

\* The task a request names, or nil.
Task(id) == id \in registry
=============================================================================
