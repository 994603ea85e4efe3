------------------------------ MODULE SlotPool ------------------------------
(***************************************************************************)
(* What the scheduler promises to whoever hands it tasks: tasks start in   *)
(* the order they were handed over, never more than Slots at a time, each  *)
(* that starts finishes at most once, and none is dropped until the pool   *)
(* closes, which drops only tasks that never started.  Nothing is said of  *)
(* channels, WaitGroups, goroutines or of who admits a task.               *)
(***************************************************************************)
EXTENDS Naturals, Sequences, FiniteSets

CONSTANTS
  Tasks,
  Batch,   \* the tasks it is created with, in order
  Slots

VARIABLES waiting, running, finished, open
vars == <<waiting, running, finished, open>>

Init ==
  /\ waiting = Batch /\ running = {} /\ finished = {}
  /\ open = TRUE

\* A new task is handed over.
Submit(t) ==
  /\ open
  /\ t \notin running \cup finished /\ \A i \in DOMAIN waiting : waiting[i] # t
  /\ waiting' = Append(waiting, t)
  /\ UNCHANGED <<running, finished, open>>

\* The task that waited longest starts.
Begin ==
  /\ waiting # <<>> /\ Cardinality(running) < Slots
  /\ running' = running \cup {Head(waiting)}
  /\ waiting' = Tail(waiting)
  /\ UNCHANGED <<finished, open>>

Finish(t) ==
  /\ t \in running
  /\ running' = running \ {t} /\ finished' = finished \cup {t}
  /\ UNCHANGED <<waiting, open>>

Close ==
  /\ open /\ open' = FALSE
  /\ waiting' = <<>>
  /\ UNCHANGED <<running, finished>>

Next == Begin \/ Close \/ \E t \in Tasks : Submit(t) \/ Finish(t)

Spec == Init /\ [][Next]_vars
=============================================================================
