------------------------------ MODULE Scheduler ------------------------------
(***************************************************************************)
(* The live scheduler of ODM (scheduler/queue.go and the part of           *)
(* scheduler/rebalance.go that acts on running tasks): one goroutine runs  *)
(* the loop of Run, one waits for the WaitGroup, one per task runs         *)
(* Task.Start and reports on the channel compl, and in the daemon one per  *)
(* RPC request adds a task (AddURL, Enqueue).                              *)
(*                                                                         *)
(* An action is one critical section of s.mu, one channel operation or one *)
(* WaitGroup operation; steps that no other goroutine can tell apart are   *)
(* one action.  The progress callback (emit) reads and changes nothing.    *)
(* TaskMaker is Manager.NewTask, which never fails.                        *)
(*                                                                         *)
(* Operators whose name ends in Mut are faulty variants of the operator    *)
(* that follows them.  They are used nowhere here.                         *)
(***************************************************************************)
EXTENDS Naturals, Sequences, FiniteSets, Balancer

CONSTANTS
  Daemon,        \* NewEmptyScheduler (TRUE) or NewScheduler
  Slots,         \* s.slots
  Parallel,      \* plan.Parallel: the tasks of a one-shot run that start first
  Queued,        \* plan.Queued: those that wait
  Requests,      \* tasks that RPC clients add to a daemon
  PlannedConns,  \* the connections the plan (or the client) gives each task
  Budget,        \* plan.ConnectionBudget
  Rebalances,    \* plan.RebalanceConnections
  SingleStream,  \* the tasks whose probe found no Range support
  MaxPending,    \* maxPendingTasks
  MaxStopped,    \* maxStoppedTasks
  Loop,          \* the goroutine of Run
  NoTask

Planned == {Parallel[i] : i \in DOMAIN Parallel} \cup {Queued[i] : i \in DOMAIN Queued}
Tasks   == Planned \cup Requests
Admitters == Requests \cup {Loop}

\* The capacity of s.compl.
ComplCap == 1

ASSUME KindAssumption ==
  /\ Daemon \in BOOLEAN /\ Rebalances \in BOOLEAN
  /\ Slots \in Nat \ {0} /\ Budget \in Nat
  /\ Daemon => Parallel = <<>> /\ Queued = <<>> /\ ~Rebalances
  /\ ~Daemon => Requests = {} /\ Slots = Len(Parallel)

ASSUME TaskAssumption ==
  /\ Parallel \in Seq(Planned) /\ Queued \in Seq(Planned)
  /\ IsInjective(Parallel \o Queued)
  /\ IsFiniteSet(Requests) /\ Requests \cap Planned = {}
  /\ PlannedConns \in [Tasks -> Nat \ {0}]
  /\ SingleStream \subseteq Tasks
  /\ NoTask \notin Tasks /\ Loop \notin Tasks

\* The plan of a run that rebalances allots no more than its budget.
ASSUME PlanAssumption ==
  Rebalances => Total([i \in DOMAIN Parallel |-> PlannedConns[Parallel[i]]]) <= Budget

ASSUME BoundAssumption == MaxPending \in Nat \ {0} /\ MaxStopped \in Nat \ {0}

VARIABLES
  queued,      \* s.queued
  live,        \* the tasks in s.live
  stopped,     \* s.stopped
  counted,     \* the tasks whose scheduledTask.counted is set
  conns,       \* scheduledTask.conns
  target,      \* Task.connTarget
  param,       \* the conns argument Start was called with
  task,        \* where the goroutine of a task is
  outcome,     \* how Start left a task
  compl,       \* tasks reported: the first ComplCap buffered, the rest sending
  told,        \* how often onComplete fired for a task
  succeeded, failed,
  wg,          \* the counter of s.wg
  waiter,      \* the goroutine of wg.Wait; "closed": doneCh is closed
  run,         \* where Run is
  started,     \* how many of plan.Parallel Run has started
  client,      \* where the request that adds a task is
  held,        \* the task an admitter took from the queue and has not launched
  windingDown, isIdle,
  reserved,    \* queuedCounted: reservations the shutdown has to give back
  cancelled    \* the context is cancelled

poolVars  == <<queued, live, stopped, counted>>
connVars  == <<conns, target, param>>
taskVars  == <<task, outcome, compl>>
tallyVars == <<told, succeeded, failed>>
waitVars  == <<wg, waiter>>
admitVars == <<client, held>>
shutVars  == <<windingDown, isIdle, reserved>>
vars == <<poolVars, connVars, taskVars, tallyVars, waitVars, run, started, admitVars,
          shutVars, cancelled>>

-----------------------------------------------------------------------------
(* The WaitGroup.  A counter that drops to 0 releases a parked Wait for      *)
(* good: adding afterwards does not stop it from returning.                  *)
WgSet(n) ==
  /\ wg' = n
  /\ waiter' = IF n = 0 /\ waiter = "parked" THEN "released" ELSE waiter

\* The goroutine of Run that calls wg.Wait ...
WaitBegin ==
  /\ waiter = "ready"
  /\ waiter' = IF wg = 0 THEN "released" ELSE "parked"
  /\ UNCHANGED <<poolVars, connVars, taskVars, tallyVars, wg, run, started, admitVars,
                 shutVars, cancelled>>

\* ... and closes doneCh.
WaitEnd ==
  /\ waiter = "released" /\ waiter' = "closed"
  /\ UNCHANGED <<poolVars, connVars, taskVars, tallyVars, wg, run, started, admitVars,
                 shutVars, cancelled>>

-----------------------------------------------------------------------------
(* The goroutine of a task (launch).                                         *)

\* It evaluates st.conns, without s.mu, and enters Start.
EnterStart(t) ==
  /\ task[t] = "launched"
  /\ task' = [task EXCEPT ![t] = "starting"]
  /\ param' = [param EXCEPT ![t] = conns[t]]
  /\ UNCHANGED <<poolVars, conns, target, outcome, compl, tallyVars, waitVars, run,
                 started, admitVars, shutVars, cancelled>>

\* Start keeps the larger of its argument and a target raised before.
StartTarget(t) == Most(param[t], target[t])

\* Start has probed and laid out the file and launches its workers.
StartWorkers(t) ==
  /\ task[t] = "starting"
  /\ task' = [task EXCEPT ![t] = "running"]
  /\ target' = [target EXCEPT ![t] = StartTarget(t)]
  /\ UNCHANGED <<poolVars, conns, param, outcome, compl, tallyVars, waitVars, run,
                 started, admitVars, shutVars, cancelled>>

\* Start returns, possibly before it has any worker (it failed, or the file was
\* there already), and the task is sent on compl.
Report(t) ==
  /\ task[t] \in {"starting", "running"}
  /\ task' = [task EXCEPT ![t] = "sending"]
  /\ \E o \in {"completed", "error"} : outcome' = [outcome EXCEPT ![t] = o]
  /\ compl' = Append(compl, t)
  /\ UNCHANGED <<poolVars, connVars, tallyVars, waitVars, run, started, admitVars,
                 shutVars, cancelled>>

\* The send goes through once the task is received or in the buffer.
Sent(t) == \A i \in DOMAIN compl : compl[i] = t => i <= ComplCap

\* The deferred wg.Done.
TaskDone(t) ==
  /\ task[t] = "sending" /\ Sent(t)
  /\ task' = [task EXCEPT ![t] = "gone"]
  /\ WgSet(wg - 1)
  /\ UNCHANGED <<poolVars, connVars, outcome, compl, tallyVars, run, started, admitVars,
                 shutVars, cancelled>>

TaskStep(t) == EnterStart(t) \/ StartWorkers(t) \/ Report(t) \/ TaskDone(t)

-----------------------------------------------------------------------------
(* Admission.                                                                *)

\* Mutants of FreeSlot: one too many, one too few.
FreeSlotMut    == Cardinality(live) <= Slots
FreeSlotLowMut == Cardinality(live) + 1 < Slots

FreeSlot == Cardinality(live) < Slots

\* The first critical section of admitNext, if it takes a task.
TakeNext(a) ==
  /\ queued # <<>> /\ FreeSlot
  /\ queued' = Tail(queued)
  /\ live' = live \cup {Head(queued)}
  /\ target' = [target EXCEPT ![Head(queued)] = conns[Head(queued)]]
  /\ held' = [held EXCEPT ![a] = Head(queued)]
  /\ UNCHANGED <<stopped, counted, conns, param>>

NothingToTake == queued = <<>> \/ ~FreeSlot

\* Mutant of Reservation: a task counted while it waited is counted again.
ReservationMut(t) == wg + 1

\* AddCounter for the tasks of the plan; those of a daemon are counted already.
Reservation(t) == IF t \in counted THEN wg ELSE wg + 1

(* The rest of admitNext: the reservation and the go statement of launch.    *)
(* If AddCounter refuses, the task leaves the live set again.                *)
LaunchHeld(a) ==
  LET t == held[a] IN
  /\ held' = [held EXCEPT ![a] = NoTask]
  /\ IF t \notin counted /\ windingDown
     THEN live' = live \ {t} /\ UNCHANGED <<task, waitVars>>
     ELSE /\ task' = [task EXCEPT ![t] = "launched"]
          /\ WgSet(Reservation(t))
          /\ UNCHANGED live

-----------------------------------------------------------------------------
(* An RPC request: Enqueue.                                                  *)

\* Mutant of Refuses: shutdown is not looked at.
RefusesMut == Len(queued) >= MaxPending

Refuses == windingDown \/ Len(queued) >= MaxPending

Refuse(r) ==
  /\ client[r] = "idle" /\ Refuses
  /\ client' = [client EXCEPT ![r] = "refused"]
  /\ UNCHANGED <<poolVars, connVars, taskVars, tallyVars, waitVars, run, started, held,
                 shutVars, cancelled>>

\* The reservation and the append are one critical section.
Enqueue(r) ==
  /\ client[r] = "idle" /\ ~Refuses
  /\ WgSet(wg + 1)
  /\ counted' = counted \cup {r}
  /\ queued' = Append(queued, r)
  /\ client' = [client EXCEPT ![r] = "admit"]
  /\ UNCHANGED <<live, stopped, connVars, taskVars, tallyVars, run, started, held,
                 shutVars, cancelled>>

ClientAdmits(r) ==
  /\ client[r] = "admit"
  /\ \/ TakeNext(r) /\ client' = [client EXCEPT ![r] = "launch"]
     \/ /\ NothingToTake /\ client' = [client EXCEPT ![r] = "accepted"]
        /\ UNCHANGED <<poolVars, connVars, held>>
  /\ UNCHANGED <<taskVars, tallyVars, waitVars, run, started, shutVars, cancelled>>

ClientLaunches(r) ==
  /\ client[r] = "launch"
  /\ LaunchHeld(r)
  /\ client' = [client EXCEPT ![r] = "accepted"]
  /\ UNCHANGED <<queued, stopped, counted, connVars, outcome, compl, tallyVars, run,
                 started, shutVars, cancelled>>

ClientStep(r) == Refuse(r) \/ Enqueue(r) \/ ClientAdmits(r) \/ ClientLaunches(r)

-----------------------------------------------------------------------------
(* Run.                                                                      *)

\* Start one task of plan.Parallel (AddCounter, startOne); no one can refuse yet.
StartInitial ==
  /\ run = "starting" /\ started < Len(Parallel)
  /\ started' = started + 1
  /\ LET t == Parallel[started + 1] IN
       /\ live' = live \cup {t}
       /\ target' = [target EXCEPT ![t] = conns[t]]
       /\ task' = [task EXCEPT ![t] = "launched"]
  /\ WgSet(wg + 1)
  /\ UNCHANGED <<queued, stopped, counted, conns, param, outcome, compl, tallyVars, run,
                 admitVars, shutVars, cancelled>>

\* Start the goroutine that waits, enter the loop.
EnterLoop ==
  /\ run = "starting" /\ started = Len(Parallel)
  /\ run' = "select" /\ waiter' = "ready"
  /\ UNCHANGED <<poolVars, connVars, taskVars, tallyVars, wg, started, admitVars,
                 shutVars, cancelled>>

\* Mutant of Retain: nothing is dropped.
RetainAllMut(s) == s

\* tellStopped keeps the last MaxStopped tasks.
Retain(s) == SubSeq(s, Most(1, Len(s) - MaxStopped + 1), Len(s))

\* Mutant of Retired: the slot is not given back.
RetiredMut(t) == live

Retired(t) == live \ {t}

\* Receive a report and retire its task (handleComplete).
HandleComplete ==
  LET t == Head(compl) IN
  /\ compl # <<>> /\ compl' = Tail(compl)
  /\ live' = Retired(t)
  /\ stopped' = Retain(Append(stopped, t))
  /\ IF outcome[t] = "completed"
     THEN succeeded' = succeeded + 1 /\ UNCHANGED failed
     ELSE failed' = failed + 1 /\ UNCHANGED succeeded
  /\ told' = [told EXCEPT ![t] = @ + 1]
  /\ UNCHANGED <<queued, counted, task, outcome>>

Receive ==
  /\ run = "select" /\ HandleComplete
  /\ run' = "admit"
  /\ UNCHANGED <<connVars, waitVars, started, admitVars, shutVars, cancelled>>

LoopAdmits ==
  /\ run = "admit"
  /\ \/ TakeNext(Loop) /\ run' = "launch"
     \/ NothingToTake /\ run' = "rebalance" /\ UNCHANGED <<poolVars, connVars, held>>
  /\ UNCHANGED <<taskVars, tallyVars, waitVars, started, client, shutVars, cancelled>>

LoopLaunches ==
  /\ run = "launch"
  /\ LaunchHeld(Loop)
  /\ run' = "rebalance"
  /\ UNCHANGED <<queued, stopped, counted, connVars, outcome, compl, tallyVars, started,
                 client, shutVars, cancelled>>

\* The live tasks in the order of their ids: Run makes the queued ones first.
LiveById ==
  LET byId == Queued \o Parallel
      at   == Where([i \in DOMAIN byId |-> byId[i] \in live], TRUE)
  IN [j \in DOMAIN at |-> byId[at[j]]]

LiveTargets ==
  RebalanceTargets([i \in DOMAIN LiveById |-> LiveById[i] \notin SingleStream], Budget)

NewConns(t) == LiveTargets[CHOOSE i \in DOMAIN LiveById : LiveById[i] = t]

\* Mutant of Adjusted: the tasks admitted last are not rebalanced.
AdjustedMut == IF Rebalances /\ queued # <<>> THEN live ELSE {}

\* The tasks rebalanceLive adjusts: all live ones, if the budget reaches.
Adjusted ==
  IF Rebalances /\ Budget >= 1 /\ Cardinality(live) <= Budget THEN live ELSE {}

(* rebalanceLive: AdjustConns (which swaps connTarget before anything can    *)
(* make it return false) and scheduledTask.conns, for every live task.       *)
Rebalance ==
  /\ run = "rebalance" /\ run' = "select"
  /\ conns'  = [t \in Tasks |-> IF t \in Adjusted THEN NewConns(t) ELSE conns[t]]
  /\ target' = [t \in Tasks |-> IF t \in Adjusted THEN NewConns(t) ELSE target[t]]
  /\ UNCHANGED <<poolVars, param, taskVars, tallyVars, waitVars, started, admitVars,
                 shutVars, cancelled>>

\* select takes ctx.Done: the queue is dropped, no one may add any more ...
WindDown ==
  /\ run = "select" /\ cancelled
  /\ windingDown' = TRUE
  /\ reserved' = Cardinality({i \in DOMAIN queued : queued[i] \in counted})
  /\ queued' = <<>>
  /\ run' = "release"
  /\ UNCHANGED <<live, stopped, counted, connVars, taskVars, tallyVars, waitVars,
                 started, admitVars, isIdle, cancelled>>

\* ... and what they and the idle daemon had reserved
Reservations == reserved + (IF isIdle THEN 1 ELSE 0)

\* ... is given back (releaseIdle).
Release ==
  /\ run = "release" /\ run' = "drain"
  /\ WgSet(wg - Reservations)
  /\ isIdle' = FALSE /\ reserved' = 0
  /\ UNCHANGED <<poolVars, connVars, taskVars, tallyVars, started, admitVars,
                 windingDown, cancelled>>

\* Every live task still reports.
Drain ==
  /\ run = "drain" /\ live # {} /\ HandleComplete
  /\ UNCHANGED <<connVars, waitVars, run, started, admitVars, shutVars, cancelled>>

DrainReturns ==
  /\ run = "drain" /\ live = {}
  /\ run' = "returned"
  /\ UNCHANGED <<poolVars, connVars, taskVars, tallyVars, waitVars, started, admitVars,
                 shutVars, cancelled>>

\* select takes doneCh: what is in the buffer is tallied, then Run returns.
SeeDone ==
  /\ run = "select" /\ waiter = "closed"
  /\ run' = "sweep"
  /\ UNCHANGED <<poolVars, connVars, taskVars, tallyVars, waitVars, started, admitVars,
                 shutVars, cancelled>>

Sweep ==
  /\ run = "sweep"
  /\ \/ HandleComplete /\ UNCHANGED run
     \/ compl = <<>> /\ run' = "returned" /\ UNCHANGED <<poolVars, taskVars, tallyVars>>
  /\ UNCHANGED <<connVars, waitVars, started, admitVars, shutVars, cancelled>>

RunStep ==
  \/ StartInitial \/ EnterLoop \/ Receive \/ LoopAdmits \/ LoopLaunches \/ Rebalance
  \/ WindDown \/ Release \/ Drain \/ DrainReturns \/ SeeDone \/ Sweep

\* A signal, odm.shutdown or Daemon.Stop.
Cancel ==
  /\ ~cancelled /\ cancelled' = TRUE
  /\ UNCHANGED <<poolVars, connVars, taskVars, tallyVars, waitVars, run, started,
                 admitVars, shutVars>>

-----------------------------------------------------------------------------
\* Mutants of IdleHold: a daemon has none, a one-shot run has one.
NoHoldMut   == 0
IdleHoldMut == 1

IdleHold == IF Daemon THEN 1 ELSE 0

\* Run has built its queue; a daemon holds a reservation for being idle.
Init ==
  /\ queued = Queued /\ live = {} /\ stopped = <<>> /\ counted = {}
  /\ conns = PlannedConns
  /\ target = [t \in Tasks |-> 0] /\ param = [t \in Tasks |-> 0]
  /\ task = [t \in Tasks |-> "waiting"] /\ outcome = [t \in Tasks |-> "none"]
  /\ compl = <<>>
  /\ told = [t \in Tasks |-> 0] /\ succeeded = 0 /\ failed = 0
  /\ wg = IdleHold /\ waiter = "none"
  /\ run = "starting" /\ started = 0
  /\ client = [r \in Requests |-> "idle"] /\ held = [a \in Admitters |-> NoTask]
  /\ windingDown = FALSE /\ isIdle = Daemon /\ reserved = 0
  /\ cancelled = FALSE

Next ==
  \/ \E t \in Tasks : TaskStep(t)
  \/ \E r \in Requests : ClientStep(r)
  \/ RunStep
  \/ WaitBegin \/ WaitEnd
  \/ Cancel

Spec == Init /\ [][Next]_vars

(* Scheduling is fair: the runtime runs every goroutine that can run.  That  *)
(* Start returns is assumed too: attempts time out, retries are bounded and  *)
(* nobody leaves a task paused.  Nobody has to cancel or send a request.     *)
Fairness ==
  /\ WF_vars(RunStep) /\ WF_vars(WaitBegin) /\ WF_vars(WaitEnd)
  /\ \A t \in Tasks : WF_vars(TaskStep(t))
  /\ \A r \in Requests : WF_vars(ClientAdmits(r) \/ ClientLaunches(r))

FairSpec == Spec /\ Fairness

-----------------------------------------------------------------------------
RunPcs    == {"starting", "select", "admit", "launch", "rebalance", "release", "drain",
              "sweep", "returned"}
TaskPcs   == {"waiting", "launched", "starting", "running", "sending", "gone"}
ClientPcs == {"idle", "refused", "admit", "launch", "accepted"}

PlacesTyped ==
  /\ queued \in Seq(Tasks) /\ live \subseteq Tasks /\ counted \subseteq Tasks
  /\ stopped \in Seq(Tasks) /\ compl \in Seq(Tasks)
  /\ task \in [Tasks -> TaskPcs] /\ outcome \in [Tasks -> {"none", "completed", "error"}]
  /\ told \in [Tasks -> Nat] /\ succeeded \in Nat /\ failed \in Nat
  /\ waiter \in {"none", "ready", "parked", "released", "closed"}
  /\ run \in RunPcs /\ started \in 0..Len(Parallel)
  /\ client \in [Requests -> ClientPcs] /\ held \in [Admitters -> Tasks \cup {NoTask}]
  /\ windingDown \in BOOLEAN /\ isIdle \in BOOLEAN /\ reserved \in Nat
  /\ cancelled \in BOOLEAN

ConnsTyped ==
  conns \in [Tasks -> Nat] /\ target \in [Tasks -> Nat] /\ param \in [Tasks -> Nat]

\* The types of the variables; the WaitGroup never goes below zero (in the code
\* that is a panic).
TypeOK == PlacesTyped /\ ConnsTyped /\ wg \in Nat

Waiting == Range(queued)
Launched == {t \in Tasks : task[t] # "waiting"}

\* Two admitters (the loop and a request) never overshoot the slots, and only
\* live tasks run (queue.go:401-406).
SlotsRespected ==
  /\ Cardinality(live) <= Slots
  /\ \A t \in Tasks : task[t] \in {"launched", "starting", "running"} => t \in live

\* A task the scheduler has taken on: planned, or accepted from a client.
TakenOn(t) ==
  IF t \in Requests THEN client[t] \notin {"idle", "refused"}
  ELSE run # "starting"

\* A task taken on is in exactly one place, the queue, the live set or the
\* tally, and onComplete fires once; only a shutdown drops a task, and then
\* one that never started (queue.go:179-187, 315-335, 407-418).
EveryTaskInOnePlace ==
  \A t \in Tasks :
    /\ Cardinality({i \in DOMAIN queued : queued[i] = t})
         + Cardinality({t} \cap live) + told[t] <= 1
    /\ TakenOn(t) => \/ t \in Waiting \/ t \in live \/ told[t] = 1
                     \/ windingDown /\ task[t] = "waiting"

\* The WaitGroup counts every reservation exactly once: the idle hold, queued
\* daemon tasks, tasks on their way to their goroutine, goroutines, and what a
\* shutdown has yet to give back (queue.go:177-191, 337-363, 419-421).
WaitGroupExact ==
  wg = (IF isIdle THEN 1 ELSE 0) + reserved
       + Cardinality(counted \cap Waiting)
       + Cardinality({a \in Admitters : held[a] \in counted})
       + Cardinality({t \in Tasks : task[t] \notin {"waiting", "gone"}})

\* Until it is cancelled a daemon is never taken for finished, idle or not
\* (queue.go:99-117).
DaemonStaysUp ==
  Daemon /\ ~windingDown => waiter \notin {"released", "closed"} /\ run # "returned"

\* The queue and tellStopped stay bounded, and the tally counts every task
\* that left the live set (queue.go:295-335).
BoundedAndTallied ==
  /\ Daemon => Len(queued) <= MaxPending
  /\ Len(stopped) <= MaxStopped
  /\ succeeded + failed = Cardinality({t \in Tasks : told[t] = 1})
  /\ succeeded = Cardinality({t \in Tasks : told[t] = 1 /\ outcome[t] = "completed"})

\* When a cancelled Run returns, every task that was launched has been tallied
\* and none is left behind on the channel (queue.go:192-197, 224-234).
CancelledRunIsTallied ==
  run = "returned" /\ windingDown =>
    /\ compl = <<>> /\ live = {}
    /\ \A t \in Launched : told[t] = 1

\* Between two events of the loop the connections allotted to the live tasks
\* stay within the budget of the batch (rebalance.go:52-55).
AllotmentsWithinBudget ==
  Rebalances /\ run = "select" =>
    Total([i \in DOMAIN LiveById |-> conns[LiveById[i]]]) <= Budget

\* Nothing is added to the WaitGroup once Wait has been released (queue.go:46-50).
NoAddAfterWait == [][wg' > wg => waiter \notin {"released", "closed"}]_vars

\* Every task a client was told is accepted is finished, unless a shutdown
\* intervenes (queue.go:337-343).
AcceptedFinishes ==
  \A r \in Requests : client[r] = "accepted" ~> told[r] = 1 \/ windingDown

\* A cancelled Run returns and every goroutine it started ends (queue.go:224-234).
CancelStopsRun == cancelled ~> run = "returned" /\ \A t \in Tasks : task[t] \in {"waiting", "gone"}

\* A one-shot run returns (queue.go:123-124).
RunReturns == <>(run = "returned")

\* The pool implements the abstract specification: tasks of the plan wait in
\* front of the queue until they are started, live tasks run, tallied tasks are
\* finished, and winding down closes it.
Pool == INSTANCE SlotPool WITH
  Batch    <- Parallel \o Queued,
  waiting  <- SubSeq(Parallel, started + 1, Len(Parallel)) \o queued,
  running  <- live,
  finished <- {t \in Tasks : told[t] > 0},
  open     <- ~windingDown
ImplementsSlotPool == Pool!Spec

\* queue.go:123: "Run blocks until every task (parallel + queued) finishes, or
\* ctx is cancelled."
RunFinishesAll == run = "returned" /\ ~windingDown => \A t \in Planned : told[t] = 1

\* task.go:411-414: for a task that has not started "we just can't spawn
\* goroutines for it yet".  A rebalancing that raises the target spawns them.
SpawnsOnlyAfterStart ==
  [][\A t \in Adjusted : run = "rebalance" /\ target'[t] > target[t]
       => task[t] \notin {"launched", "starting"}]_vars
=============================================================================
