-------------------------- MODULE Scheduler_proofs --------------------------
(***************************************************************************)
(* Where the tasks of the scheduler are, for any plan, any number of slots *)
(* and requests, and a cancellation at any point: each in one place, none  *)
(* tallied twice, none lost.  What it counts: its slots, and its WaitGroup,*)
(* which is exactly the reservations that are out, so that an idle daemon  *)
(* is never taken for a finished one.  What it promises: it implements the *)
(* abstract SlotPool, and its rebalancings stay within the budget.         *)
(***************************************************************************)
EXTENDS Scheduler, DataLemmas, FiniteSetTheorems

Active    == {"launched", "starting", "running"}
Reporting == {"sending", "gone"}

\* Nobody has put the task anywhere yet.
Untouched(t) == task[t] = "waiting" /\ t \notin live /\ t \notin Waiting /\ told[t] = 0

Holds(a) == held[a] # NoTask

\* The program points of the loop and of the requests say who holds a task,
\* whether the plan has been started, and whether the queue is closed.
ControlPoints ==
  /\ Holds(Loop) <=> run = "launch"
  /\ \A r \in Requests : Holds(r) <=> client[r] = "launch"
  /\ run # "starting" => started = Len(Parallel)
  /\ run # "release" => reserved = 0
  /\ run \in {"release", "drain"} => windingDown
  /\ windingDown => run \in {"release", "drain", "returned"} /\ queued = <<>>
  /\ isIdle <=> Daemon /\ (~windingDown \/ run = "release")

\* Tasks nobody has taken on are untouched, and only requests are counted ahead.
NotYet ==
  /\ \A i \in DOMAIN Parallel : i > started => Untouched(Parallel[i])
  /\ \A r \in Requests : client[r] \in {"idle", "refused"} => Untouched(r)
  /\ counted = {r \in Requests : client[r] \notin {"idle", "refused"}}

\* The queue and the channel hold a task at most once, no two admitters the same.
NoDuplicates ==
  /\ IsInjective(queued) /\ IsInjective(compl)
  /\ \A a1, a2 \in Admitters : Holds(a1) /\ held[a1] = held[a2] => a1 = a2

\* The life of a task.
LifeOf(t) ==
  /\ t \in Waiting => task[t] = "waiting" /\ t \notin live /\ told[t] = 0
  /\ task[t] \in Active => t \in live /\ told[t] = 0
  /\ t \in Range(compl) => t \in live /\ told[t] = 0 /\ task[t] \in Reporting
  /\ task[t] \in Reporting => t \in Range(compl) \/ told[t] = 1
  /\ told[t] \in {0, 1}
  /\ told[t] = 1 => t \notin live /\ task[t] \in Reporting
  /\ t \in live /\ task[t] = "waiting" => \E a \in Admitters : held[a] = t

HeldLife ==
  \A a \in Admitters :
    Holds(a) => held[a] \in live /\ held[a] \notin Waiting /\ task[held[a]] = "waiting"
                /\ told[held[a]] = 0

\* A task that waits is in a hand, in the queue, dropped, or not taken on.
Accounted(t) ==
  task[t] = "waiting" /\ t \notin Waiting /\ t \notin live =>
    \/ windingDown
    \/ \E i \in DOMAIN Parallel : i > started /\ Parallel[i] = t
    \/ t \in Requests /\ client[t] \in {"idle", "refused"}

Lives == \A t \in Tasks : LifeOf(t) /\ Accounted(t)

PlacesInv == PlacesTyped /\ ControlPoints /\ NotYet /\ NoDuplicates /\ HeldLife /\ Lives

-----------------------------------------------------------------------------
LEMMA PlanFacts ==
  /\ Parallel \in Seq(Tasks) /\ Queued \in Seq(Tasks)
  /\ IsInjective(Parallel) /\ IsInjective(Queued)
  /\ \A i \in DOMAIN Parallel, j \in DOMAIN Queued : Parallel[i] # Queued[j]
  /\ \A i \in DOMAIN Parallel : Parallel[i] \in Planned
  /\ Range(Queued) \subseteq Planned
  /\ Planned \cap Requests = {} /\ Loop \notin Requests
  /\ DOMAIN Parallel = 1..Len(Parallel) /\ Len(Parallel) \in Nat
<1> USE TaskAssumption
<1>1. Planned \subseteq Tasks
  BY DEF Tasks
<1>2. Parallel \in Seq(Tasks) /\ Queued \in Seq(Tasks)
  BY <1>1, SeqMonotonic
<1>3. /\ DOMAIN Parallel = 1..Len(Parallel) /\ Len(Parallel) \in Nat
      /\ DOMAIN Queued = 1..Len(Queued) /\ Len(Queued) \in Nat
  BY <1>2
<1>4. /\ Len(Parallel \o Queued) = Len(Parallel) + Len(Queued)
      /\ Parallel \o Queued \in Seq(Tasks)
      /\ \A i \in 1..(Len(Parallel) + Len(Queued)) :
           (Parallel \o Queued)[i] = IF i <= Len(Parallel) THEN Parallel[i]
                                     ELSE Queued[i - Len(Parallel)]
  BY <1>2, ConcatProperties
<1>5. DOMAIN (Parallel \o Queued) = 1..(Len(Parallel) + Len(Queued))
  BY <1>3, <1>4
<1>6. \A i, j \in 1..(Len(Parallel) + Len(Queued)) :
        (Parallel \o Queued)[i] = (Parallel \o Queued)[j] => i = j
  BY <1>5 DEF IsInjective
<1>7. IsInjective(Parallel)
  <2> SUFFICES ASSUME NEW i \in 1..Len(Parallel), NEW j \in 1..Len(Parallel),
                      Parallel[i] = Parallel[j]
               PROVE  i = j
    BY <1>3 DEF IsInjective
  <2> QED
    BY <1>3, <1>4, <1>6
<1>8. IsInjective(Queued)
  <2> SUFFICES ASSUME NEW i \in 1..Len(Queued), NEW j \in 1..Len(Queued),
                      Queued[i] = Queued[j]
               PROVE  i = j
    BY <1>3 DEF IsInjective
  <2>1. /\ i + Len(Parallel) \in 1..(Len(Parallel) + Len(Queued))
        /\ j + Len(Parallel) \in 1..(Len(Parallel) + Len(Queued))
    BY <1>3
  <2>2. /\ (Parallel \o Queued)[i + Len(Parallel)] = Queued[i]
        /\ (Parallel \o Queued)[j + Len(Parallel)] = Queued[j]
    BY <2>1, <1>3, <1>4
  <2>3. i + Len(Parallel) = j + Len(Parallel)
    BY <2>1, <2>2, <1>6
  <2> QED
    BY <2>3, <1>3
<1>9. ASSUME NEW i \in DOMAIN Parallel, NEW j \in DOMAIN Queued, Parallel[i] = Queued[j]
      PROVE  FALSE
  <2>1. /\ j + Len(Parallel) \in 1..(Len(Parallel) + Len(Queued))
        /\ i \in 1..(Len(Parallel) + Len(Queued)) /\ i # j + Len(Parallel)
    BY <1>3, <1>9
  <2>2. /\ (Parallel \o Queued)[j + Len(Parallel)] = Queued[j]
        /\ (Parallel \o Queued)[i] = Parallel[i]
    BY <2>1, <1>3, <1>4
  <2> QED
    BY <2>1, <2>2, <1>6, <1>9
<1>10. Range(Queued) \subseteq Planned /\ \A i \in DOMAIN Parallel : Parallel[i] \in Planned
  BY DEF Planned, Range
<1>11. Loop \notin Requests
  BY DEF Tasks
<1> QED
  BY <1>2, <1>3, <1>7, <1>8, <1>9, <1>10, <1>11

\* Which kind of scheduler has what.
LEMMA KindFacts ==
  /\ Daemon \in BOOLEAN
  /\ Daemon => Len(Parallel) = 0 /\ Planned = {}
  /\ ~Daemon => Requests = {} /\ Slots = Len(Parallel)
<1> USE KindAssumption
<1>1. Daemon => Planned = {}
  BY DEF Planned
<1> QED
  BY <1>1

-----------------------------------------------------------------------------
(* The steps that move no task: what they leave alone.                      *)

Kept == UNCHANGED <<queued, live, counted, compl, told, started, held, windingDown>>

SameClients ==
  \A r \in Requests : client'[r] \in {"idle", "refused"} <=> client[r] \in {"idle", "refused"}

SameLives ==
  \A t \in Tasks : /\ task'[t] = "waiting" <=> task[t] = "waiting"
                   /\ task'[t] \in Active <=> task[t] \in Active
                   /\ task'[t] \in Reporting <=> task[t] \in Reporting

LEMMA NobodyMoves ==
  ASSUME PlacesInv, PlacesTyped', ControlPoints', Kept, SameClients, SameLives
  PROVE  PlacesInv'
<1> USE DEF PlacesInv, Kept, SameClients, SameLives
<1>0. /\ Waiting' = Waiting /\ \A t \in Tasks : Untouched(t)' <=> Untouched(t)
      /\ \A a \in Admitters : Holds(a)' <=> Holds(a)
  BY DEF Waiting, Untouched, Holds
<1>1. NotYet'
  <2>1. \A i \in DOMAIN Parallel : Parallel[i] \in Tasks
    BY PlanFacts DEF Tasks
  <2>2. \A r \in Requests : r \in Tasks
    BY DEF Tasks
  <2> QED
    BY <1>0, <2>1, <2>2 DEF NotYet
<1>2. NoDuplicates'
  BY <1>0 DEF NoDuplicates
<1>3. HeldLife'
  BY <1>0 DEF HeldLife, PlacesTyped, Holds
<1>4. Lives'
  <2> SUFFICES ASSUME NEW t \in Tasks PROVE LifeOf(t)' /\ Accounted(t)'
    BY DEF Lives
  <2>1. LifeOf(t)'
    BY <1>0 DEF Lives, LifeOf
  <2>2. Accounted(t)'
    BY <1>0 DEF Lives, Accounted
  <2> QED
    BY <2>1, <2>2
<1> QED
  BY <1>1, <1>2, <1>3, <1>4

\* The goroutine of a task without its report, the waiter, a cancellation.
LEMMA QuietSteps ==
  ASSUME PlacesInv,
         \/ WaitBegin \/ WaitEnd \/ Cancel
         \/ \E t \in Tasks : EnterStart(t) \/ StartWorkers(t) \/ TaskDone(t)
  PROVE  PlacesInv'
<1> USE DEF poolVars, connVars, taskVars, tallyVars, waitVars, admitVars, shutVars
<1>1. CASE WaitBegin \/ WaitEnd \/ Cancel
  <2>1. /\ UNCHANGED <<queued, live, stopped, counted, task, outcome, compl, told, succeeded,
                       failed, run, started, client, held, windingDown, isIdle, reserved>>
        /\ waiter' \in {"none", "ready", "parked", "released", "closed"}
        /\ cancelled' \in BOOLEAN
    BY <1>1 DEF WaitBegin, WaitEnd, Cancel, PlacesInv, PlacesTyped
  <2>2. PlacesTyped'
    BY <2>1 DEF PlacesInv, PlacesTyped
  <2>3. ControlPoints'
    BY <2>1 DEF PlacesInv, ControlPoints, Holds
  <2> QED
    BY <2>1, <2>2, <2>3, NobodyMoves DEF Kept, SameClients, SameLives
<1>2. ASSUME NEW t \in Tasks, EnterStart(t) \/ StartWorkers(t) \/ TaskDone(t)
      PROVE  PlacesInv'
  <2>1. /\ UNCHANGED <<queued, live, stopped, counted, outcome, compl, told, succeeded,
                       failed, run, started, client, held, windingDown, isIdle, reserved,
                       cancelled>>
        /\ waiter' \in {"none", "ready", "parked", "released", "closed"}
    BY <1>2 DEF EnterStart, StartWorkers, TaskDone, WgSet, PlacesInv, PlacesTyped
  <2>2. \E x \in TaskPcs :
          /\ task' = [task EXCEPT ![t] = x]
          /\ (task[t] \in Active /\ x \in Active) \/ (task[t] \in Reporting /\ x \in Reporting)
    BY <1>2 DEF EnterStart, StartWorkers, TaskDone, TaskPcs, Active, Reporting
  <2>3. PlacesTyped'
    BY <2>1, <2>2 DEF PlacesInv, PlacesTyped
  <2>4. ControlPoints'
    BY <2>1 DEF PlacesInv, ControlPoints, Holds
  <2>5. SameLives
    BY <2>2 DEF SameLives, PlacesInv, PlacesTyped, Active, Reporting
  <2> QED
    BY <2>1, <2>3, <2>4, <2>5, NobodyMoves DEF Kept, SameClients
<1> QED
  BY <1>1, <1>2

\* The points of the loop and of a request at which no task moves.
LEMMA LoopOnly ==
  ASSUME PlacesInv,
         \/ EnterLoop \/ Rebalance \/ Release \/ DrainReturns \/ SeeDone
         \/ LoopAdmits /\ UNCHANGED held
         \/ Sweep /\ compl = <<>>
  PROVE  PlacesInv'
<1> USE DEF poolVars, connVars, taskVars, tallyVars, waitVars, admitVars, shutVars
<1>1. /\ UNCHANGED <<queued, live, stopped, counted, task, outcome, compl, told, succeeded,
                     failed, started, client, held, windingDown, cancelled>>
      /\ waiter' \in {"none", "ready", "parked", "released", "closed"}
      /\ run' \in RunPcs /\ isIdle' \in BOOLEAN /\ reserved' \in Nat
  <2>1. CASE LoopAdmits /\ UNCHANGED held
    <3>1. run = "admit" /\ held[Loop] = NoTask
      BY <2>1 DEF LoopAdmits, PlacesInv, ControlPoints, Holds
    <3>2. ~TakeNext(Loop)
      <4> SUFFICES ASSUME TakeNext(Loop) PROVE FALSE
        OBVIOUS
      <4>1. Head(queued) \in Tasks
        BY DEF TakeNext, PlacesInv, PlacesTyped
      <4> QED
        BY <2>1, <3>1, <4>1, TaskAssumption DEF TakeNext, PlacesInv, PlacesTyped, Admitters
    <3> QED
      BY <2>1, <3>2 DEF LoopAdmits, PlacesInv, PlacesTyped, RunPcs
  <2>2. CASE Sweep /\ compl = <<>>
    BY <2>2 DEF Sweep, HandleComplete, PlacesInv, PlacesTyped, RunPcs
  <2>3. CASE EnterLoop \/ Rebalance \/ DrainReturns \/ SeeDone
    BY <2>3 DEF EnterLoop, Rebalance, DrainReturns, SeeDone, PlacesInv, PlacesTyped, RunPcs
  <2>4. CASE Release
    BY <2>4 DEF Release, WgSet, PlacesInv, PlacesTyped, RunPcs
  <2> QED
    BY <2>1, <2>2, <2>3, <2>4
<1>2. PlacesTyped'
  BY <1>1 DEF PlacesInv, PlacesTyped
<1>3. ControlPoints'
  <2>1. CASE Release
    BY <2>1, <1>1 DEF Release, PlacesInv, ControlPoints, Holds
  <2>2. CASE DrainReturns
    BY <2>2, <1>1 DEF DrainReturns, PlacesInv, ControlPoints, Holds
  <2>3. CASE EnterLoop
    BY <2>3, <1>1 DEF EnterLoop, PlacesInv, ControlPoints, Holds
  <2>4. CASE Rebalance \/ SeeDone \/ (Sweep /\ compl = <<>>)
    BY <2>4, <1>1 DEF Rebalance, SeeDone, Sweep, HandleComplete, PlacesInv, ControlPoints, Holds
  <2>5. CASE LoopAdmits /\ UNCHANGED held
    <3>1. run = "admit" /\ run' \in {"launch", "rebalance"} /\ UNCHANGED <<isIdle, reserved>>
      BY <2>5 DEF LoopAdmits
    <3>2. run' # "launch"
      <4> SUFFICES ASSUME run' = "launch" PROVE FALSE
        OBVIOUS
      <4>1. TakeNext(Loop)
        BY <2>5 DEF LoopAdmits
      <4>2. Head(queued) \in Tasks
        BY <4>1 DEF TakeNext, PlacesInv, PlacesTyped
      <4>3. held[Loop] = NoTask
        BY <3>1 DEF PlacesInv, ControlPoints, Holds
      <4> QED
        BY <2>5, <4>1, <4>2, <4>3, TaskAssumption
        DEF TakeNext, PlacesInv, PlacesTyped, Admitters
    <3> QED
      BY <3>1, <3>2, <1>1 DEF PlacesInv, ControlPoints, Holds
  <2> QED
    BY <2>1, <2>2, <2>3, <2>4, <2>5
<1> QED
  BY <1>1, <1>2, <1>3, NobodyMoves DEF Kept, SameClients, SameLives

-----------------------------------------------------------------------------
(* A task reports.                                                          *)

LEMMA ReportPlaces ==
  ASSUME PlacesInv, NEW t \in Tasks, Report(t)
  PROVE  PlacesInv'
<1> USE DEF poolVars, connVars, taskVars, tallyVars, waitVars, admitVars, shutVars
<1>1. /\ task[t] \in Active /\ task' = [task EXCEPT ![t] = "sending"]
      /\ compl' = Append(compl, t)
      /\ UNCHANGED <<queued, live, stopped, counted, told, succeeded, failed, waiter, run,
                     started, client, held, windingDown, isIdle, reserved, cancelled>>
      /\ outcome' \in [Tasks -> {"none", "completed", "error"}]
  BY DEF Report, Active, PlacesInv, PlacesTyped
<1>2. t \notin Range(compl) /\ t \in live /\ told[t] = 0 /\ t \notin Waiting
  BY <1>1 DEF PlacesInv, Lives, LifeOf, Active, Reporting
<1>3. IsInjective(compl') /\ Range(compl') = Range(compl) \cup {t} /\ compl' \in Seq(Tasks)
  BY <1>1, <1>2, AppendToInjective DEF PlacesInv, NoDuplicates, PlacesTyped
<1>4. PlacesTyped'
  BY <1>1, <1>3 DEF PlacesInv, PlacesTyped, TaskPcs
<1>5. ControlPoints'
  BY <1>1 DEF PlacesInv, ControlPoints, Holds
<1>6. Waiting' = Waiting /\ task[t] # "waiting"
  BY <1>1 DEF Waiting, Active
<1>7. \A u \in Tasks : u # t => task'[u] = task[u]
  BY <1>1 DEF PlacesInv, PlacesTyped
<1>8. task'[t] = "sending"
  BY <1>1 DEF PlacesInv, PlacesTyped
<1>9. NotYet'
  <2>1. \A i \in DOMAIN Parallel : Parallel[i] \in Tasks
    BY PlanFacts DEF Tasks
  <2>2. \A r \in Requests : r \in Tasks
    BY DEF Tasks
  <2> QED
    BY <1>1, <1>6, <1>7, <2>1, <2>2 DEF PlacesInv, NotYet, Untouched
<1>10. NoDuplicates'
  BY <1>1, <1>3 DEF PlacesInv, NoDuplicates, Holds
<1>11. HeldLife'
  BY <1>1, <1>6, <1>7 DEF PlacesInv, HeldLife, PlacesTyped, Holds
<1>12. Lives'
  <2> SUFFICES ASSUME NEW u \in Tasks PROVE LifeOf(u)' /\ Accounted(u)'
    BY DEF Lives
  <2>1. CASE u = t
    BY <2>1, <1>1, <1>2, <1>3, <1>6, <1>8 DEF LifeOf, Accounted, Active, Reporting
  <2>2. CASE u # t
    <3>1. LifeOf(u)'
      BY <2>2, <1>1, <1>3, <1>6, <1>7 DEF PlacesInv, Lives, LifeOf
    <3>2. Accounted(u)'
      BY <2>2, <1>1, <1>6, <1>7 DEF PlacesInv, Lives, Accounted
    <3> QED
      BY <3>1, <3>2
  <2> QED
    BY <2>1, <2>2
<1> QED
  BY <1>4, <1>5, <1>9, <1>10, <1>11, <1>12 DEF PlacesInv

-----------------------------------------------------------------------------
(* A report is received.                                                    *)

LEMMA HandleCompletePlaces ==
  ASSUME PlacesInv, HandleComplete, ControlPoints', PlacesTyped',
         UNCHANGED <<started, client, held, windingDown>>
  PROVE  /\ PlacesInv'
         /\ Head(compl) \in Tasks /\ Head(compl) \in live /\ told[Head(compl)] = 0
         /\ task[Head(compl)] \in Reporting
<1> DEFINE t == Head(compl)
<1>1. /\ compl # <<>> /\ compl' = Tail(compl) /\ live' = live \ {t}
      /\ told' = [told EXCEPT ![t] = @ + 1] /\ UNCHANGED <<queued, counted, task>>
  BY DEF HandleComplete, Retired
<1>2. /\ t \in Range(compl) /\ IsInjective(compl') /\ Range(compl') = Range(compl) \ {t}
      /\ t \in Tasks
  BY <1>1, TailOfInjective DEF PlacesInv, NoDuplicates, PlacesTyped
<1>3. /\ t \in live /\ told[t] = 0 /\ task[t] \in Reporting /\ t \notin Waiting
  BY <1>2 DEF PlacesInv, Lives, LifeOf, Reporting
<1>4. /\ told'[t] = 1 /\ \A u \in Tasks : u # t => told'[u] = told[u]
  BY <1>1, <1>2, <1>3 DEF PlacesInv, PlacesTyped
<1>5. Waiting' = Waiting /\ task[t] # "waiting"
  BY <1>1, <1>3 DEF Waiting, Reporting
<1>6. NotYet'
  <2>1. \A i \in DOMAIN Parallel : Parallel[i] \in Tasks
    BY PlanFacts DEF Tasks
  <2>2. \A r \in Requests : r \in Tasks
    BY DEF Tasks
  <2>3. \A u \in Tasks : Untouched(u) => Untouched(u)'
    BY <1>1, <1>4, <1>5 DEF Untouched
  <2> QED
    BY <1>1, <2>1, <2>2, <2>3 DEF PlacesInv, NotYet
<1>7. NoDuplicates'
  BY <1>1, <1>2 DEF PlacesInv, NoDuplicates, Holds
<1>8. HeldLife'
  BY <1>1, <1>4, <1>5 DEF PlacesInv, HeldLife, PlacesTyped, Holds
<1>9. Lives'
  <2> SUFFICES ASSUME NEW u \in Tasks PROVE LifeOf(u)' /\ Accounted(u)'
    BY DEF Lives
  <2>1. CASE u = t
    BY <2>1, <1>1, <1>2, <1>3, <1>4, <1>5 DEF LifeOf, Accounted, Active, Reporting
  <2>2. CASE u # t
    <3>1. LifeOf(u)'
      BY <2>2, <1>1, <1>2, <1>4, <1>5 DEF PlacesInv, Lives, LifeOf
    <3>2. Accounted(u)'
      BY <2>2, <1>1, <1>5 DEF PlacesInv, Lives, Accounted
    <3> QED
      BY <3>1, <3>2
  <2> QED
    BY <2>1, <2>2
<1> QED
  BY <1>2, <1>3, <1>6, <1>7, <1>8, <1>9 DEF PlacesInv

\* tellStopped stays a sequence of tasks.
LEMMA RetainTyped ==
  ASSUME NEW s \in Seq(Tasks) PROVE Retain(s) \in Seq(Tasks) /\ Len(Retain(s)) <= MaxStopped
<1> DEFINE m == Most(1, Len(s) - MaxStopped + 1)
<1>1. MaxStopped \in Nat \ {0} /\ Len(s) \in Nat
  BY BoundAssumption
<1>2. m \in Nat /\ m >= 1 /\ m >= Len(s) - MaxStopped + 1 /\ m <= Len(s) + 1
  BY <1>1 DEF Most
<1> HIDE DEF m
<1>3. \A i \in m..Len(s) : s[i] \in Tasks
  BY <1>1, <1>2
<1>4. SubSeq(s, m, Len(s)) \in Seq(Tasks) /\ Len(SubSeq(s, m, Len(s))) <= Len(s) - m + 1
  BY <1>1, <1>2, <1>3, SubSeqProperties
<1> QED
  BY <1>1, <1>2, <1>4 DEF Retain, m

LEMMA HandleCompleteTyped ==
  ASSUME PlacesInv, HandleComplete, run' \in RunPcs,
         UNCHANGED <<waiter, started, client, held, windingDown, isIdle, reserved, cancelled>>
  PROVE  PlacesTyped'
<1>1. Head(compl) \in Tasks /\ Tail(compl) \in Seq(Tasks)
  BY DEF HandleComplete, PlacesInv, PlacesTyped
<1>2. stopped' \in Seq(Tasks)
  <2>1. Append(stopped, Head(compl)) \in Seq(Tasks)
    BY <1>1 DEF PlacesInv, PlacesTyped
  <2> QED
    BY <2>1, RetainTyped DEF HandleComplete
<1>3. told' \in [Tasks -> Nat] /\ succeeded' \in Nat /\ failed' \in Nat
  BY <1>1 DEF HandleComplete, PlacesInv, PlacesTyped
<1>4. live' \subseteq Tasks /\ compl' \in Seq(Tasks) /\ UNCHANGED <<queued, counted, task, outcome>>
  BY <1>1 DEF HandleComplete, Retired, PlacesInv, PlacesTyped
<1> QED
  BY <1>2, <1>3, <1>4 DEF PlacesInv, PlacesTyped

LEMMA ReceivePlaces ==
  ASSUME PlacesInv, Receive \/ Drain \/ (Sweep /\ compl # <<>>)
  PROVE  PlacesInv' /\ HandleComplete
<1> USE DEF poolVars, connVars, taskVars, tallyVars, waitVars, admitVars, shutVars
<1>1. /\ HandleComplete
      /\ UNCHANGED <<waiter, started, client, held, windingDown, isIdle, reserved, cancelled>>
  BY DEF Receive, Drain, Sweep
<1>2. run' = run \/ (run = "select" /\ run' = "admit")
  BY DEF Receive, Drain, Sweep
<1>3. PlacesTyped'
  BY <1>1, <1>2, HandleCompleteTyped DEF PlacesInv, PlacesTyped, RunPcs
<1>4. queued' = queued
  BY <1>1 DEF HandleComplete
<1>5. ControlPoints'
  BY <1>1, <1>2, <1>4 DEF PlacesInv, ControlPoints, Holds
<1> QED
  BY <1>1, <1>3, <1>5, HandleCompletePlaces

-----------------------------------------------------------------------------
(* Admission.                                                               *)

LEMMA TakeNextPlaces ==
  ASSUME PlacesInv, NEW a \in Admitters, TakeNext(a), ~Holds(a),
         UNCHANGED <<task, compl, told, started, windingDown>>, SameClients,
         PlacesTyped', ControlPoints'
  PROVE  PlacesInv'
<1> DEFINE t == Head(queued)
<1>1. /\ queued # <<>> /\ queued' = Tail(queued) /\ live' = live \cup {t}
      /\ held' = [held EXCEPT ![a] = t] /\ UNCHANGED counted
  BY DEF TakeNext
<1>2. /\ t \in Waiting /\ IsInjective(queued') /\ Waiting' = Waiting \ {t} /\ t \in Tasks
  BY <1>1, TailOfInjective DEF PlacesInv, NoDuplicates, PlacesTyped, Waiting
<1>3. task[t] = "waiting" /\ t \notin live /\ told[t] = 0
  BY <1>2 DEF PlacesInv, Lives, LifeOf
<1>4. /\ held'[a] = t /\ t # NoTask
      /\ \A b \in Admitters : b # a => held'[b] = held[b]
  BY <1>1, <1>2, TaskAssumption DEF PlacesInv, PlacesTyped
<1>5. \A b \in Admitters : Holds(b) => held[b] # t
  BY <1>2 DEF PlacesInv, HeldLife
<1>6. NotYet'
  <2>1. \A i \in DOMAIN Parallel : Parallel[i] \in Tasks
    BY PlanFacts DEF Tasks
  <2>2. \A r \in Requests : r \in Tasks
    BY DEF Tasks
  <2>3. \A u \in Tasks : Untouched(u) => Untouched(u)'
    BY <1>1, <1>2 DEF Untouched
  <2> QED
    BY <1>1, <2>1, <2>2, <2>3 DEF PlacesInv, NotYet, SameClients
<1>7. NoDuplicates'
  <2>1. ASSUME NEW a1 \in Admitters, NEW a2 \in Admitters, Holds(a1)', held'[a1] = held'[a2]
        PROVE  a1 = a2
    <3>1. CASE a1 = a
      BY <3>1, <2>1, <1>4, <1>5 DEF Holds
    <3>2. CASE a1 # a /\ a2 = a
      BY <3>2, <2>1, <1>4, <1>5 DEF Holds
    <3>3. CASE a1 # a /\ a2 # a
      BY <3>3, <2>1, <1>4 DEF Holds, PlacesInv, NoDuplicates
    <3> QED
      BY <3>1, <3>2, <3>3
  <2> QED
    BY <2>1, <1>2 DEF PlacesInv, NoDuplicates
<1>8. HeldLife'
  <2> SUFFICES ASSUME NEW b \in Admitters, Holds(b)'
               PROVE  /\ held'[b] \in live' /\ held'[b] \notin Waiting'
                      /\ task'[held'[b]] = "waiting" /\ told'[held'[b]] = 0
    BY DEF HeldLife
  <2>1. CASE b = a
    BY <2>1, <1>1, <1>2, <1>3, <1>4
  <2>2. CASE b # a
    BY <2>2, <1>1, <1>2, <1>4 DEF PlacesInv, HeldLife, Holds
  <2> QED
    BY <2>1, <2>2
<1>9. Lives'
  <2> SUFFICES ASSUME NEW u \in Tasks PROVE LifeOf(u)' /\ Accounted(u)'
    BY DEF Lives
  <2>1. CASE u = t
    <3>1. \E b \in Admitters : held'[b] = u
      BY <2>1, <1>4
    <3> QED
      BY <2>1, <3>1, <1>1, <1>2, <1>3 DEF LifeOf, Accounted, Active, Reporting, PlacesInv, Lives
  <2>2. CASE u # t
    <3>1. (\E b \in Admitters : held[b] = u) => \E b \in Admitters : held'[b] = u
      <4> SUFFICES ASSUME NEW b \in Admitters, held[b] = u PROVE held'[b] = u
        OBVIOUS
      <4>1. u # NoTask
        BY TaskAssumption
      <4> QED
        BY <4>1, <1>4 DEF Holds
    <3>2. LifeOf(u)'
      BY <2>2, <3>1, <1>1, <1>2 DEF PlacesInv, Lives, LifeOf
    <3>3. Accounted(u)'
      BY <2>2, <1>1, <1>2 DEF PlacesInv, Lives, Accounted, SameClients
    <3> QED
      BY <3>2, <3>3
  <2> QED
    BY <2>1, <2>2
<1> QED
  BY <1>6, <1>7, <1>8, <1>9 DEF PlacesInv

LEMMA TakeNextTyped ==
  ASSUME PlacesInv, NEW a \in Admitters, TakeNext(a), run' \in RunPcs,
         client' \in [Requests -> ClientPcs],
         UNCHANGED <<taskVars, tallyVars, waiter, started, shutVars, cancelled>>
  PROVE  PlacesTyped'
<1> USE DEF poolVars, connVars, taskVars, tallyVars, waitVars, admitVars, shutVars
<1>1. Head(queued) \in Tasks /\ Tail(queued) \in Seq(Tasks)
  BY DEF TakeNext, PlacesInv, PlacesTyped
<1>2. /\ queued' \in Seq(Tasks) /\ live' \subseteq Tasks
      /\ held' \in [Admitters -> Tasks \cup {NoTask}] /\ UNCHANGED <<stopped, counted>>
  BY <1>1 DEF TakeNext, PlacesInv, PlacesTyped
<1> QED
  BY <1>2 DEF PlacesInv, PlacesTyped

LEMMA AdmitPlaces ==
  ASSUME PlacesInv, \/ LoopAdmits /\ TakeNext(Loop)
                    \/ \E r \in Requests : ClientAdmits(r)
  PROVE  PlacesInv'
<1> USE DEF poolVars, connVars, taskVars, tallyVars, waitVars, admitVars, shutVars
<1>1. CASE LoopAdmits /\ TakeNext(Loop)
  <2>1. run = "admit" /\ run' \in {"launch", "rebalance"} /\ Loop \in Admitters
    BY <1>1 DEF LoopAdmits, Admitters
  <2>2. ~Holds(Loop)
    BY <2>1 DEF PlacesInv, ControlPoints
  <2>3. Head(queued) \in Tasks /\ held'[Loop] = Head(queued)
    BY <1>1, <2>1 DEF TakeNext, PlacesInv, PlacesTyped
  <2>4. run' = "launch"
    BY <1>1, <2>1, <2>2, <2>3, TaskAssumption DEF LoopAdmits, Holds
  <2>5. UNCHANGED <<taskVars, tallyVars, waiter, started, client, shutVars, cancelled>>
    BY <1>1 DEF LoopAdmits
  <2>6. PlacesTyped'
    BY <1>1, <2>1, <2>4, <2>5, TakeNextTyped DEF RunPcs, PlacesInv, PlacesTyped
  <2>7. ControlPoints'
    <3>1. \A r \in Requests : Holds(r)' <=> Holds(r)
      BY <1>1, PlanFacts DEF TakeNext, Holds, Admitters, PlacesInv, PlacesTyped
    <3>2. Holds(Loop)'
      BY <2>3, TaskAssumption DEF Holds
    <3>3. ~windingDown
      BY <2>1 DEF PlacesInv, ControlPoints
    <3> QED
      BY <2>1, <2>4, <2>5, <3>1, <3>2, <3>3 DEF PlacesInv, ControlPoints
  <2> QED
    BY <1>1, <2>1, <2>2, <2>5, <2>6, <2>7, TakeNextPlaces DEF SameClients
<1>2. ASSUME NEW r \in Requests, ClientAdmits(r), TakeNext(r), client' = [client EXCEPT ![r] = "launch"]
      PROVE  PlacesInv'
  <2>1. client[r] = "admit" /\ r \in Admitters /\ r # Loop
    BY <1>2, PlanFacts DEF ClientAdmits, Admitters
  <2>2. ~Holds(r)
    BY <2>1 DEF PlacesInv, ControlPoints
  <2>3. Head(queued) \in Tasks /\ held'[r] = Head(queued) /\ queued # <<>>
    BY <1>2, <2>1 DEF TakeNext, PlacesInv, PlacesTyped
  <2>4. UNCHANGED <<taskVars, tallyVars, waiter, started, run, shutVars, cancelled>>
    BY <1>2 DEF ClientAdmits
  <2>5. client' \in [Requests -> ClientPcs] /\ SameClients
    BY <1>2, <2>1 DEF ClientPcs, PlacesInv, PlacesTyped, SameClients
  <2>6. PlacesTyped'
    BY <1>2, <2>1, <2>4, <2>5, TakeNextTyped DEF PlacesInv, PlacesTyped
  <2>7. ControlPoints'
    <3>1. \A a \in Admitters : a # r => (Holds(a)' <=> Holds(a))
      BY <1>2 DEF TakeNext, Holds, PlacesInv, PlacesTyped
    <3>2. Holds(r)'
      BY <2>3, TaskAssumption DEF Holds
    <3>3. ~windingDown
      BY <2>3 DEF PlacesInv, ControlPoints
    <3>4. \A q \in Requests : q # r => client'[q] = client[q]
      BY <1>2 DEF PlacesInv, PlacesTyped
    <3>5. client'[r] = "launch"
      BY <1>2 DEF PlacesInv, PlacesTyped
    <3> QED
      BY <2>1, <2>4, <3>1, <3>2, <3>3, <3>4, <3>5 DEF PlacesInv, ControlPoints, Admitters
  <2> QED
    BY <1>2, <2>1, <2>2, <2>4, <2>5, <2>6, <2>7, TakeNextPlaces
<1>3. ASSUME NEW r \in Requests, ClientAdmits(r), client' = [client EXCEPT ![r] = "accepted"],
             UNCHANGED <<poolVars, held>>
      PROVE  PlacesInv'
  <2>1. UNCHANGED <<taskVars, tallyVars, waiter, started, run, shutVars, cancelled>>
    BY <1>3 DEF ClientAdmits
  <2>2. client[r] = "admit"
    BY <1>3 DEF ClientAdmits
  <2>3. client' \in [Requests -> ClientPcs] /\ SameClients
    BY <1>3, <2>2 DEF ClientPcs, PlacesInv, PlacesTyped, SameClients
  <2>4. PlacesTyped'
    BY <1>3, <2>1, <2>3 DEF PlacesInv, PlacesTyped
  <2>5. ControlPoints'
    BY <1>3, <2>1, <2>2 DEF PlacesInv, ControlPoints, PlacesTyped, Holds
  <2> QED
    BY <1>3, <2>1, <2>3, <2>4, <2>5, NobodyMoves DEF Kept, SameLives
<1> QED
  BY <1>1, <1>2, <1>3 DEF ClientAdmits

\* The held task is launched; AddCounter never refuses, because the loop has not
\* begun to wind down and the tasks of requests are counted already.
LEMMA LaunchFacts ==
  ASSUME PlacesInv, NEW a \in Admitters, LaunchHeld(a), Holds(a)
  PROVE  /\ held[a] \in Tasks /\ held' = [held EXCEPT ![a] = NoTask]
         /\ task' = [task EXCEPT ![held[a]] = "launched"]
         /\ live' = live /\ WgSet(Reservation(held[a]))
<1>1. held[a] \in Tasks
  BY DEF PlacesInv, PlacesTyped, Holds
<1>2. held[a] \in live /\ held[a] \in Requests \cup Planned
  BY <1>1 DEF PlacesInv, HeldLife, Tasks
<1>3. CASE a = Loop
  <2>1. ~windingDown
    BY <1>3 DEF PlacesInv, ControlPoints
  <2> QED
    BY <1>1, <2>1 DEF LaunchHeld
<1>4. CASE a \in Requests
  <2>1. Daemon /\ Planned = {}
    BY <1>4, KindFacts
  <2>2. held[a] \in Requests /\ ~Untouched(held[a])
    BY <1>2, <2>1 DEF Untouched
  <2>3. held[a] \in counted
    BY <2>2 DEF PlacesInv, NotYet
  <2> QED
    BY <1>1, <2>3 DEF LaunchHeld
<1> QED
  BY <1>3, <1>4 DEF Admitters

LEMMA LaunchHeldPlaces ==
  ASSUME PlacesInv, NEW a \in Admitters, LaunchHeld(a), Holds(a),
         UNCHANGED <<queued, counted, compl, told, started, windingDown>>, SameClients,
         PlacesTyped', ControlPoints'
  PROVE  PlacesInv'
<1> DEFINE t == held[a]
<1>1. /\ t \in Tasks /\ held' = [held EXCEPT ![a] = NoTask]
      /\ task' = [task EXCEPT ![t] = "launched"] /\ live' = live
  BY LaunchFacts
<1>2. /\ task[t] = "waiting" /\ t \in live /\ told[t] = 0 /\ t \notin Waiting
  BY DEF PlacesInv, HeldLife
<1>3. /\ held'[a] = NoTask /\ \A b \in Admitters : b # a => held'[b] = held[b]
      /\ task'[t] = "launched" /\ \A u \in Tasks : u # t => task'[u] = task[u]
      /\ Waiting' = Waiting
  BY <1>1 DEF PlacesInv, PlacesTyped, Waiting
<1>4. \A b \in Admitters : b # a => held[b] # t
  BY DEF PlacesInv, NoDuplicates
<1>5. NotYet'
  <2>1. \A i \in DOMAIN Parallel : Parallel[i] \in Tasks
    BY PlanFacts DEF Tasks
  <2>2. \A r \in Requests : r \in Tasks
    BY DEF Tasks
  <2>3. \A u \in Tasks : Untouched(u) => Untouched(u)'
    BY <1>1, <1>2, <1>3 DEF Untouched
  <2> QED
    BY <2>1, <2>2, <2>3 DEF PlacesInv, NotYet, SameClients
<1>6. NoDuplicates'
  BY <1>3 DEF PlacesInv, NoDuplicates, Holds
<1>7. HeldLife'
  <2> SUFFICES ASSUME NEW b \in Admitters, Holds(b)'
               PROVE  /\ held'[b] \in live' /\ held'[b] \notin Waiting'
                      /\ task'[held'[b]] = "waiting" /\ told'[held'[b]] = 0
    BY DEF HeldLife
  <2>1. b # a /\ held'[b] = held[b] /\ Holds(b) /\ held[b] # t
    BY <1>3, <1>4 DEF Holds
  <2>2. held[b] \in Tasks
    BY <2>1 DEF PlacesInv, PlacesTyped, Holds
  <2> QED
    BY <2>1, <2>2, <1>1, <1>3 DEF PlacesInv, HeldLife
<1>8. Lives'
  <2> SUFFICES ASSUME NEW u \in Tasks PROVE LifeOf(u)' /\ Accounted(u)'
    BY DEF Lives
  <2>1. CASE u = t
    BY <2>1, <1>1, <1>2, <1>3 DEF LifeOf, Accounted, Active, Reporting, PlacesInv, Lives
  <2>2. CASE u # t
    <3>1. (\E b \in Admitters : held[b] = u) => \E b \in Admitters : held'[b] = u
      BY <2>2, <1>3
    <3>2. LifeOf(u)'
      BY <2>2, <3>1, <1>1, <1>3 DEF PlacesInv, Lives, LifeOf
    <3>3. Accounted(u)'
      BY <2>2, <1>1, <1>3 DEF PlacesInv, Lives, Accounted, SameClients
    <3> QED
      BY <3>2, <3>3
  <2> QED
    BY <2>1, <2>2
<1> QED
  BY <1>5, <1>6, <1>7, <1>8 DEF PlacesInv

LEMMA LaunchPlaces ==
  ASSUME PlacesInv, LoopLaunches \/ \E r \in Requests : ClientLaunches(r)
  PROVE  PlacesInv'
<1> USE DEF poolVars, connVars, taskVars, tallyVars, waitVars, admitVars, shutVars
<1>1. CASE LoopLaunches
  <2>1. run = "launch" /\ run' = "rebalance" /\ Loop \in Admitters /\ LaunchHeld(Loop)
    BY <1>1 DEF LoopLaunches, Admitters
  <2>2. Holds(Loop)
    BY <2>1 DEF PlacesInv, ControlPoints
  <2>3. /\ held[Loop] \in Tasks /\ held' = [held EXCEPT ![Loop] = NoTask]
        /\ task' = [task EXCEPT ![held[Loop]] = "launched"] /\ live' = live
        /\ waiter' \in {"none", "ready", "parked", "released", "closed"}
    BY <2>1, <2>2, LaunchFacts DEF WgSet, PlacesInv, PlacesTyped
  <2>4. /\ UNCHANGED <<queued, stopped, counted, outcome, compl, tallyVars, started, client,
                       shutVars, cancelled>>
    BY <1>1 DEF LoopLaunches
  <2>5. PlacesTyped'
    BY <2>1, <2>3, <2>4 DEF PlacesInv, PlacesTyped, TaskPcs, RunPcs
  <2>6. ControlPoints'
    <3>1. ~Holds(Loop)' /\ \A r \in Requests : Holds(r)' <=> Holds(r)
      BY <2>3, PlanFacts DEF Holds, Admitters, PlacesInv, PlacesTyped
    <3> QED
      BY <2>1, <2>4, <3>1 DEF PlacesInv, ControlPoints
  <2> QED
    BY <2>1, <2>2, <2>4, <2>5, <2>6, LaunchHeldPlaces DEF SameClients
<1>2. ASSUME NEW r \in Requests, ClientLaunches(r) PROVE PlacesInv'
  <2>1. /\ client[r] = "launch" /\ client' = [client EXCEPT ![r] = "accepted"]
        /\ r \in Admitters /\ r # Loop /\ LaunchHeld(r)
    BY <1>2, PlanFacts DEF ClientLaunches, Admitters
  <2>2. Holds(r)
    BY <2>1 DEF PlacesInv, ControlPoints
  <2>3. /\ held[r] \in Tasks /\ held' = [held EXCEPT ![r] = NoTask]
        /\ task' = [task EXCEPT ![held[r]] = "launched"] /\ live' = live
        /\ waiter' \in {"none", "ready", "parked", "released", "closed"}
    BY <2>1, <2>2, LaunchFacts DEF WgSet, PlacesInv, PlacesTyped
  <2>4. /\ UNCHANGED <<queued, stopped, counted, outcome, compl, tallyVars, started, run,
                       shutVars, cancelled>>
    BY <1>2 DEF ClientLaunches
  <2>5. SameClients /\ client' \in [Requests -> ClientPcs]
    BY <2>1 DEF SameClients, ClientPcs, PlacesInv, PlacesTyped
  <2>6. PlacesTyped'
    BY <2>3, <2>4, <2>5 DEF PlacesInv, PlacesTyped, TaskPcs
  <2>7. ControlPoints'
    <3>1. ~Holds(r)' /\ \A a \in Admitters : a # r => (Holds(a)' <=> Holds(a))
      BY <2>1, <2>3 DEF Holds, PlacesInv, PlacesTyped
    <3>2. \A q \in Requests : q # r => client'[q] = client[q]
      BY <2>1 DEF PlacesInv, PlacesTyped
    <3>3. client'[r] = "accepted"
      BY <2>1 DEF PlacesInv, PlacesTyped
    <3> QED
      BY <2>1, <2>4, <3>1, <3>2, <3>3 DEF PlacesInv, ControlPoints, Admitters
  <2> QED
    BY <2>1, <2>2, <2>4, <2>5, <2>6, <2>7, LaunchHeldPlaces
<1> QED
  BY <1>1, <1>2

-----------------------------------------------------------------------------
(* Requests.                                                                *)

LEMMA RefusePlaces ==
  ASSUME PlacesInv, NEW r \in Requests, Refuse(r)
  PROVE  PlacesInv'
<1> USE DEF poolVars, connVars, taskVars, tallyVars, waitVars, shutVars
<1>1. /\ client[r] = "idle" /\ client' = [client EXCEPT ![r] = "refused"]
      /\ UNCHANGED <<poolVars, taskVars, tallyVars, waiter, run, started, held, shutVars,
                     cancelled>>
  BY DEF Refuse
<1>2. PlacesTyped' /\ SameClients
  BY <1>1 DEF PlacesInv, PlacesTyped, SameClients, ClientPcs
<1>3. ControlPoints'
  BY <1>1 DEF PlacesInv, ControlPoints, PlacesTyped, Holds
<1> QED
  BY <1>1, <1>2, <1>3, NobodyMoves DEF Kept, SameLives

LEMMA EnqueuePlaces ==
  ASSUME PlacesInv, NEW r \in Requests, Enqueue(r)
  PROVE  PlacesInv'
<1> USE DEF connVars, taskVars, tallyVars, shutVars
<1>1. /\ client[r] = "idle" /\ client' = [client EXCEPT ![r] = "admit"]
      /\ counted' = counted \cup {r} /\ queued' = Append(queued, r)
      /\ UNCHANGED <<live, stopped, taskVars, tallyVars, run, started, held, shutVars,
                     cancelled>>
      /\ ~windingDown /\ waiter' \in {"none", "ready", "parked", "released", "closed"}
  BY DEF Enqueue, WgSet, Refuses, PlacesInv, PlacesTyped
<1>2. Untouched(r) /\ r \in Tasks
  BY <1>1 DEF PlacesInv, NotYet, Tasks
<1>3. IsInjective(queued') /\ Waiting' = Waiting \cup {r} /\ queued' \in Seq(Tasks)
  BY <1>1, <1>2, AppendToInjective
  DEF PlacesInv, NoDuplicates, PlacesTyped, Untouched, Waiting
<1>4. /\ client'[r] = "admit" /\ \A q \in Requests : q # r => client'[q] = client[q]
  BY <1>1 DEF PlacesInv, PlacesTyped
<1>5. PlacesTyped'
  BY <1>1, <1>2, <1>3 DEF PlacesInv, PlacesTyped, ClientPcs
<1>6. ControlPoints'
  BY <1>1, <1>4 DEF PlacesInv, ControlPoints, Holds
<1>7. NotYet'
  <2>1. \A i \in DOMAIN Parallel : Parallel[i] \in Tasks /\ Parallel[i] # r
    BY PlanFacts DEF Tasks
  <2>2. \A q \in Requests : q \in Tasks
    BY DEF Tasks
  <2>3. \A u \in Tasks : u # r /\ Untouched(u) => Untouched(u)'
    BY <1>1, <1>3 DEF Untouched
  <2>4. counted' = {q \in Requests : client'[q] \notin {"idle", "refused"}}
    BY <1>1, <1>4 DEF PlacesInv, NotYet
  <2> QED
    BY <1>1, <1>4, <2>1, <2>2, <2>3, <2>4 DEF PlacesInv, NotYet
<1>8. NoDuplicates'
  BY <1>1, <1>3 DEF PlacesInv, NoDuplicates, Holds
<1>9. HeldLife'
  <2>1. \A a \in Admitters : Holds(a) => held[a] # r
    BY <1>2 DEF PlacesInv, HeldLife, Untouched
  <2> QED
    BY <2>1, <1>1, <1>3 DEF PlacesInv, HeldLife, Holds
<1>10. Lives'
  <2> SUFFICES ASSUME NEW u \in Tasks PROVE LifeOf(u)' /\ Accounted(u)'
    BY DEF Lives
  <2>1. CASE u = r
    BY <2>1, <1>1, <1>2, <1>3 DEF LifeOf, Accounted, Untouched, Active, Reporting, PlacesInv, Lives
  <2>2. CASE u # r
    <3>1. LifeOf(u)'
      BY <2>2, <1>1, <1>3 DEF PlacesInv, Lives, LifeOf
    <3>2. Accounted(u)'
      BY <2>2, <1>1, <1>3, <1>4 DEF PlacesInv, Lives, Accounted
    <3> QED
      BY <3>1, <3>2
  <2> QED
    BY <2>1, <2>2
<1> QED
  BY <1>5, <1>6, <1>7, <1>8, <1>9, <1>10 DEF PlacesInv

-----------------------------------------------------------------------------
(* The tasks of the plan start; the queue is dropped.                       *)

LEMMA StartInitialPlaces ==
  ASSUME PlacesInv, StartInitial
  PROVE  PlacesInv' /\ Untouched(Parallel[started + 1]) /\ Parallel[started + 1] \in Tasks
<1> USE DEF admitVars, shutVars
<1> DEFINE t == Parallel[started + 1]
<1>1. /\ run = "starting" /\ started < Len(Parallel) /\ started' = started + 1
      /\ live' = live \cup {t} /\ task' = [task EXCEPT ![t] = "launched"]
      /\ UNCHANGED <<queued, stopped, counted, outcome, compl, told, succeeded, failed, run,
                     client, held, windingDown, isIdle, reserved, cancelled>>
      /\ waiter' \in {"none", "ready", "parked", "released", "closed"}
  BY DEF StartInitial, WgSet, PlacesInv, PlacesTyped, tallyVars
<1>2. started \in Nat /\ started + 1 \in DOMAIN Parallel /\ t \in Tasks
  BY <1>1, PlanFacts DEF PlacesInv, PlacesTyped, Tasks
<1>3. Untouched(t)
  BY <1>2 DEF PlacesInv, NotYet
<1>4. \A i \in DOMAIN Parallel : i > started + 1 => Parallel[i] # t /\ Parallel[i] \in Tasks
  BY <1>2, PlanFacts DEF IsInjective, Tasks
<1>5. t \notin Requests
  BY <1>2, PlanFacts
<1>6. /\ task'[t] = "launched" /\ \A u \in Tasks : u # t => task'[u] = task[u]
      /\ Waiting' = Waiting
  BY <1>1, <1>2 DEF PlacesInv, PlacesTyped, Waiting
<1>7. PlacesTyped'
  BY <1>1, <1>2, PlanFacts DEF PlacesInv, PlacesTyped, TaskPcs
<1>8. ControlPoints'
  BY <1>1 DEF PlacesInv, ControlPoints, Holds
<1>9. NotYet'
  <2>1. \A u \in Tasks : u # t /\ Untouched(u) => Untouched(u)'
    BY <1>1, <1>6 DEF Untouched
  <2>2. \A r \in Requests : r \in Tasks
    BY DEF Tasks
  <2>3. \A i \in DOMAIN Parallel : i > started' => Untouched(Parallel[i])'
    <3> SUFFICES ASSUME NEW i \in DOMAIN Parallel, i > started' PROVE Untouched(Parallel[i])'
      OBVIOUS
    <3>1. i \in Nat /\ i > started /\ i > started + 1
      BY <1>1, <1>2, PlanFacts
    <3> QED
      BY <2>1, <1>4, <3>1 DEF PlacesInv, NotYet
  <2> QED
    BY <1>1, <1>5, <2>1, <2>2, <2>3 DEF PlacesInv, NotYet
<1>10. NoDuplicates'
  BY <1>1 DEF PlacesInv, NoDuplicates, Holds
<1>11. HeldLife'
  <2>1. \A a \in Admitters : Holds(a) => held[a] # t /\ held[a] \in Tasks
    BY <1>3 DEF PlacesInv, HeldLife, Untouched, PlacesTyped, Holds
  <2> QED
    BY <2>1, <1>1, <1>6 DEF PlacesInv, HeldLife, Holds
<1>12. Lives'
  <2> SUFFICES ASSUME NEW u \in Tasks PROVE LifeOf(u)' /\ Accounted(u)'
    BY DEF Lives
  <2>1. CASE u = t
    BY <2>1, <1>1, <1>3, <1>6 DEF LifeOf, Accounted, Untouched, Active, Reporting, PlacesInv, Lives
  <2>2. CASE u # t
    <3>1. LifeOf(u)'
      BY <2>2, <1>1, <1>6 DEF PlacesInv, Lives, LifeOf
    <3>2. Accounted(u)'
      <4> SUFFICES ASSUME task'[u] = "waiting", u \notin Waiting', u \notin live'
                   PROVE  \/ windingDown'
                          \/ \E i \in DOMAIN Parallel : i > started' /\ Parallel[i] = u
                          \/ u \in Requests /\ client'[u] \in {"idle", "refused"}
        BY DEF Accounted
      <4>1. \/ windingDown
            \/ \E i \in DOMAIN Parallel : i > started /\ Parallel[i] = u
            \/ u \in Requests /\ client[u] \in {"idle", "refused"}
        BY <2>2, <1>1, <1>6 DEF PlacesInv, Lives, Accounted
      <4>2. ASSUME NEW i \in DOMAIN Parallel, i > started, Parallel[i] = u PROVE i > started'
        BY <4>2, <2>2, <1>1, <1>2, PlanFacts
      <4> QED
        BY <4>1, <4>2, <1>1
    <3> QED
      BY <3>1, <3>2
  <2> QED
    BY <2>1, <2>2
<1> QED
  BY <1>2, <1>3, <1>7, <1>8, <1>9, <1>10, <1>11, <1>12 DEF PlacesInv

LEMMA FiniteQueue ==
  ASSUME NEW q \in Seq(Tasks), NEW S
  PROVE  /\ IsFiniteSet({i \in DOMAIN q : q[i] \in S})
         /\ Cardinality({i \in DOMAIN q : q[i] \in S}) \in Nat
<1>1. DOMAIN q = 1..Len(q) /\ Len(q) \in Nat
  OBVIOUS
<1>2. IsFiniteSet(1..Len(q))
  BY <1>1, FS_Interval
<1>3. {i \in DOMAIN q : q[i] \in S} \in SUBSET (1..Len(q))
  BY <1>1
<1> QED
  BY <1>2, <1>3, FS_Subset, FS_CardinalityType

LEMMA WindDownPlaces ==
  ASSUME PlacesInv, WindDown
  PROVE  PlacesInv'
<1> USE DEF connVars, taskVars, tallyVars, waitVars, admitVars
<1>1. /\ run = "select" /\ run' = "release" /\ windingDown' = TRUE /\ queued' = <<>>
      /\ reserved' = Cardinality({i \in DOMAIN queued : queued[i] \in counted})
      /\ UNCHANGED <<live, stopped, counted, taskVars, tallyVars, waiter, started, client, held,
                     isIdle, cancelled>>
  BY DEF WindDown
<1>2. Waiting' = {} /\ IsInjective(queued') /\ queued' \in Seq(Tasks)
  BY <1>1 DEF Waiting, Range, IsInjective
<1>3. PlacesTyped'
  BY <1>1, <1>2, FiniteQueue DEF PlacesInv, PlacesTyped, RunPcs
<1>4. ControlPoints'
  BY <1>1 DEF PlacesInv, ControlPoints, Holds
<1>5. NotYet'
  <2>1. \A u \in Tasks : Untouched(u) => Untouched(u)'
    BY <1>1, <1>2 DEF Untouched
  <2>2. \A i \in DOMAIN Parallel : Parallel[i] \in Tasks
    BY PlanFacts DEF Tasks
  <2>3. \A r \in Requests : r \in Tasks
    BY DEF Tasks
  <2> QED
    BY <1>1, <2>1, <2>2, <2>3 DEF PlacesInv, NotYet
<1>6. NoDuplicates'
  BY <1>1, <1>2 DEF PlacesInv, NoDuplicates, Holds
<1>7. HeldLife'
  BY <1>1, <1>2 DEF PlacesInv, HeldLife, Holds
<1>8. Lives'
  BY <1>1, <1>2 DEF PlacesInv, Lives, LifeOf, Accounted
<1> QED
  BY <1>3, <1>4, <1>5, <1>6, <1>7, <1>8 DEF PlacesInv

-----------------------------------------------------------------------------
LEMMA InitPlaces == Init => PlacesInv
<1> SUFFICES ASSUME Init PROVE PlacesInv
  OBVIOUS
<1>1. Waiting = Range(Queued) /\ Range(compl) = {} /\ Waiting \subseteq Planned
  BY PlanFacts DEF Init, Waiting, Range
<1>2. PlacesTyped
  <2>1. queued \in Seq(Tasks) /\ stopped \in Seq(Tasks) /\ compl \in Seq(Tasks)
    BY PlanFacts DEF Init
  <2>2. started \in 0..Len(Parallel)
    BY PlanFacts DEF Init
  <2>3. isIdle \in BOOLEAN /\ windingDown \in BOOLEAN /\ cancelled \in BOOLEAN
    BY KindFacts DEF Init
  <2>4. /\ task \in [Tasks -> TaskPcs] /\ outcome \in [Tasks -> {"none", "completed", "error"}]
        /\ told \in [Tasks -> Nat] /\ client \in [Requests -> ClientPcs]
        /\ held \in [Admitters -> Tasks \cup {NoTask}]
    BY DEF Init, TaskPcs, ClientPcs
  <2>5. /\ live \subseteq Tasks /\ counted \subseteq Tasks /\ run \in RunPcs
        /\ succeeded \in Nat /\ failed \in Nat /\ reserved \in Nat
        /\ waiter \in {"none", "ready", "parked", "released", "closed"}
    BY DEF Init, RunPcs
  <2> QED
    BY <2>1, <2>2, <2>3, <2>4, <2>5 DEF PlacesTyped
<1>3. ControlPoints
  BY PlanFacts DEF Init, ControlPoints, Holds, Admitters
<1>4. NotYet
  <2>1. \A i \in DOMAIN Parallel : Parallel[i] \in Tasks /\ Parallel[i] \notin Waiting
    BY <1>1, PlanFacts DEF Tasks, Range
  <2>2. \A r \in Requests : r \in Tasks /\ r \notin Waiting
    BY <1>1, PlanFacts DEF Tasks
  <2> QED
    BY <2>1, <2>2 DEF Init, NotYet, Untouched
<1>5. NoDuplicates
  BY PlanFacts DEF Init, NoDuplicates, Holds, IsInjective
<1>6. HeldLife
  BY DEF Init, HeldLife, Holds
<1>7. Lives
  <2> SUFFICES ASSUME NEW t \in Tasks PROVE LifeOf(t) /\ Accounted(t)
    BY DEF Lives
  <2>1. LifeOf(t)
    BY <1>1 DEF Init, LifeOf, Active, Reporting
  <2>2. Accounted(t)
    <3>1. t \in Requests \/ t \in Range(Queued) \/ \E i \in DOMAIN Parallel : Parallel[i] = t
      BY DEF Tasks, Planned, Range
    <3>2. \A i \in DOMAIN Parallel : i > 0
      BY PlanFacts
    <3> QED
      BY <1>1, <3>1, <3>2 DEF Init, Accounted
  <2> QED
    BY <2>1, <2>2
<1> QED
  BY <1>2, <1>3, <1>4, <1>5, <1>6, <1>7 DEF PlacesInv

LEMMA NextPlaces == PlacesInv /\ [Next]_vars => PlacesInv'
<1> SUFFICES ASSUME PlacesInv, [Next]_vars PROVE PlacesInv'
  OBVIOUS
<1>1. CASE \E t \in Tasks : TaskStep(t)
  BY <1>1, QuietSteps, ReportPlaces DEF TaskStep
<1>2. CASE \E r \in Requests : ClientStep(r)
  BY <1>2, RefusePlaces, EnqueuePlaces, AdmitPlaces, LaunchPlaces DEF ClientStep
<1>3. CASE RunStep
  <2>1. CASE LoopAdmits
    <3>1. TakeNext(Loop) \/ UNCHANGED held
      BY <2>1 DEF LoopAdmits
    <3> QED
      BY <2>1, <3>1, LoopOnly, AdmitPlaces
  <2>2. CASE Sweep
    BY <2>2, LoopOnly, ReceivePlaces
  <2> QED
    BY <1>3, <2>1, <2>2, StartInitialPlaces, LoopOnly, ReceivePlaces, LaunchPlaces,
       WindDownPlaces
    DEF RunStep
<1>4. CASE WaitBegin \/ WaitEnd \/ Cancel
  BY <1>4, QuietSteps
<1>5. CASE UNCHANGED vars
  <2>1. /\ UNCHANGED <<queued, live, stopped, counted, task, outcome, compl, told, succeeded,
                       failed, waiter, run, started, client, held, windingDown, isIdle,
                       reserved, cancelled>>
    BY <1>5 DEF vars, poolVars, connVars, taskVars, tallyVars, waitVars, admitVars, shutVars
  <2>2. PlacesTyped'
    BY <2>1 DEF PlacesInv, PlacesTyped
  <2>3. ControlPoints'
    BY <2>1 DEF PlacesInv, ControlPoints, Holds
  <2> QED
    BY <2>1, <2>2, <2>3, NobodyMoves DEF Kept, SameClients, SameLives
<1> QED
  BY <1>1, <1>2, <1>3, <1>4, <1>5 DEF Next

LEMMA PlacesAlways == Spec => []PlacesInv
  BY InitPlaces, NextPlaces, PTL DEF Spec

\* A task taken on is in exactly one place, the queue, the live set or the
\* tally, and is tallied once; only a shutdown drops one, which never started.
THEOREM TasksAreKept == Spec => []EveryTaskInOnePlace
<1>1. PlacesInv => EveryTaskInOnePlace
  <2> SUFFICES ASSUME PlacesInv, NEW t \in Tasks
               PROVE  /\ Cardinality({i \in DOMAIN queued : queued[i] = t})
                           + Cardinality({t} \cap live) + told[t] <= 1
                      /\ TakenOn(t) => \/ t \in Waiting \/ t \in live \/ told[t] = 1
                                       \/ windingDown /\ task[t] = "waiting"
    BY DEF EveryTaskInOnePlace
  <2>1. LifeOf(t) /\ Accounted(t) /\ told[t] \in Nat
    BY DEF PlacesInv, Lives, PlacesTyped
  <2>2. Cardinality({t} \cap live) = IF t \in live THEN 1 ELSE 0
    <3>1. CASE t \in live
      <4>1. {t} \cap live = {t}
        BY <3>1
      <4> QED
        BY <3>1, <4>1, FS_Singleton
    <3>2. CASE t \notin live
      <4>1. {t} \cap live = {}
        BY <3>2
      <4> QED
        BY <3>2, <4>1, FS_EmptySet
    <3> QED
      BY <3>1, <3>2
  <2>3. Cardinality({i \in DOMAIN queued : queued[i] = t}) = IF t \in Waiting THEN 1 ELSE 0
    <3>1. CASE t \in Waiting
      <4>1. PICK j \in DOMAIN queued : queued[j] = t
        BY <3>1 DEF Waiting, Range
      <4>2. {i \in DOMAIN queued : queued[i] = t} = {j}
        BY <4>1 DEF PlacesInv, NoDuplicates, IsInjective
      <4> QED
        BY <3>1, <4>2, FS_Singleton
    <3>2. CASE t \notin Waiting
      <4>1. {i \in DOMAIN queued : queued[i] = t} = {}
        BY <3>2 DEF Waiting, Range
      <4> QED
        BY <3>2, <4>1, FS_EmptySet
    <3> QED
      BY <3>1, <3>2
  <2>4. /\ told[t] \in {0, 1} /\ (t \in Waiting => t \notin live /\ told[t] = 0)
        /\ told[t] = 1 => t \notin live
    BY <2>1 DEF LifeOf
  <2>5. TakenOn(t) => \/ t \in Waiting \/ t \in live \/ told[t] = 1
                      \/ windingDown /\ task[t] = "waiting"
    <3> SUFFICES ASSUME TakenOn(t), t \notin Waiting, t \notin live, told[t] # 1
                 PROVE  windingDown /\ task[t] = "waiting"
      OBVIOUS
    <3>1. task[t] = "waiting"
      <4>1. task[t] \in TaskPcs
        BY DEF PlacesInv, PlacesTyped
      <4> QED
        BY <4>1, <2>1 DEF LifeOf, Active, Reporting, TaskPcs
    <3>2. ~\E i \in DOMAIN Parallel : i > started /\ Parallel[i] = t
      <4> SUFFICES ASSUME NEW i \in DOMAIN Parallel, i > started, Parallel[i] = t PROVE FALSE
        OBVIOUS
      <4>1. t \notin Requests
        BY PlanFacts
      <4>2. started = Len(Parallel)
        BY <4>1 DEF TakenOn, PlacesInv, ControlPoints
      <4> QED
        BY <4>2, PlanFacts
    <3> QED
      BY <2>1, <3>1, <3>2 DEF Accounted, TakenOn
  <2> QED
    BY <2>2, <2>3, <2>4, <2>5
<1> QED
  BY <1>1, PlacesAlways, PTL

\* When a cancelled Run returns, every task that was launched has been tallied and
\* no report is left on the channel: a report on the channel belongs to a live task.
THEOREM CancelledRunTallies == Spec => []CancelledRunIsTallied
<1> DEFINE Emptied == run = "returned" /\ windingDown => live = {}
<1>1. Init => Emptied
  BY DEF Init
<1>2. PlacesInv /\ Emptied /\ [Next]_vars => Emptied'
  <2> SUFFICES ASSUME PlacesInv, Emptied, [Next]_vars, run' = "returned", windingDown'
               PROVE  live' = {}
    OBVIOUS
  <2> USE DEF poolVars, connVars, taskVars, tallyVars, waitVars, admitVars, shutVars
  <2>1. CASE run = "returned" /\ windingDown
    <3>1. live = {} /\ queued = <<>> /\ \A r \in Requests : held[r] \notin Tasks
      <4>1. ASSUME NEW r \in Requests, held[r] \in Tasks PROVE FALSE
        <5>1. Holds(r) /\ r \in Admitters
          BY <4>1, TaskAssumption DEF Holds, Admitters
        <5> QED
          BY <2>1, <5>1 DEF PlacesInv, HeldLife
      <4> QED
        BY <2>1, <4>1 DEF PlacesInv, ControlPoints
    <3>2. live' \subseteq live
      <4>1. ASSUME NEW t \in Tasks, TaskStep(t) PROVE live' = live
        BY <4>1 DEF TaskStep, EnterStart, StartWorkers, Report, TaskDone
      <4>2. ASSUME NEW r \in Requests, ClientStep(r) PROVE live' \subseteq live
        <5>1. CASE Refuse(r) \/ Enqueue(r)
          BY <5>1 DEF Refuse, Enqueue
        <5>2. CASE ClientAdmits(r)
          BY <5>2, <3>1 DEF ClientAdmits, TakeNext
        <5>3. CASE ClientLaunches(r)
          BY <5>3 DEF ClientLaunches, LaunchHeld
        <5> QED
          BY <4>2, <5>1, <5>2, <5>3 DEF ClientStep
      <4>3. CASE RunStep
        BY <4>3, <2>1 DEF RunStep, StartInitial, EnterLoop, Receive, LoopAdmits, LoopLaunches,
           Rebalance, WindDown, Release, Drain, DrainReturns, SeeDone, Sweep
      <4>4. CASE WaitBegin \/ WaitEnd \/ Cancel \/ UNCHANGED vars
        BY <4>4 DEF WaitBegin, WaitEnd, Cancel, vars
      <4> QED
        BY <4>1, <4>2, <4>3, <4>4 DEF Next
    <3> QED
      BY <3>1, <3>2
  <2>2. CASE ~(run = "returned" /\ windingDown)
    <3>1. CASE RunStep
      <4>1. CASE DrainReturns
        BY <4>1 DEF DrainReturns
      <4>2. CASE Sweep
        <5>1. run = "sweep" /\ windingDown
          BY <4>2 DEF Sweep
        <5> QED
          BY <5>1 DEF PlacesInv, ControlPoints
      <4> QED
        BY <3>1, <2>2, <4>1, <4>2
        DEF RunStep, StartInitial, EnterLoop, Receive, LoopAdmits, LoopLaunches,
            Rebalance, WindDown, Release, Drain, SeeDone
    <3>2. CASE ~RunStep
      <4>1. UNCHANGED <<run, windingDown>>
        BY <3>2 DEF Next, TaskStep, EnterStart, StartWorkers, Report, TaskDone, ClientStep,
           Refuse, Enqueue, ClientAdmits, ClientLaunches, WaitBegin, WaitEnd, Cancel, vars
      <4> QED
        BY <2>2, <4>1
    <3> QED
      BY <3>1, <3>2
  <2> QED
    BY <2>1, <2>2
<1>3. PlacesInv /\ Emptied => CancelledRunIsTallied
  <2> SUFFICES ASSUME PlacesInv, live = {}
               PROVE  compl = <<>> /\ \A t \in Launched : told[t] = 1
    BY DEF CancelledRunIsTallied
  <2>1. \A t \in Tasks : t \notin Range(compl)
    BY DEF PlacesInv, Lives, LifeOf
  <2>2. compl = <<>>
    <3> SUFFICES ASSUME compl # <<>> PROVE FALSE
      OBVIOUS
    <3>1. Head(compl) \in Tasks /\ Head(compl) \in Range(compl)
      BY TailOfInjective DEF PlacesInv, PlacesTyped, NoDuplicates
    <3> QED
      BY <2>1, <3>1
  <2>3. ASSUME NEW t \in Tasks, task[t] # "waiting" PROVE told[t] = 1
    <3>1. task[t] \in TaskPcs
      BY DEF PlacesInv, PlacesTyped
    <3> QED
      BY <2>1, <2>3, <3>1 DEF PlacesInv, Lives, LifeOf, Active, Reporting, TaskPcs
  <2> QED
    BY <2>2, <2>3 DEF Launched
<1> QED
  BY <1>1, <1>2, <1>3, PlacesAlways, PTL DEF Spec

-----------------------------------------------------------------------------
(* What the scheduler counts.                                               *)

LEMMA Finite == IsFiniteSet(Tasks) /\ IsFiniteSet(Admitters)
<1>1. IsFiniteSet(Requests)
  BY TaskAssumption
<1>2. ASSUME NEW s \in Seq(Tasks) PROVE IsFiniteSet(Range(s))
  <2>1. IsFiniteSet(DOMAIN s)
    <3>1. DOMAIN s = 1..Len(s) /\ Len(s) \in Nat
      OBVIOUS
    <3> QED
      BY <3>1, FS_Interval
  <2>2. s \in Surjection(DOMAIN s, Range(s))
    BY DEF Surjection, Range
  <2> QED
    BY <2>1, <2>2, FS_Surjection
<1>3. Tasks = (Range(Parallel) \cup Range(Queued)) \cup Requests
  BY DEF Tasks, Planned, Range
<1>4. IsFiniteSet(Range(Parallel) \cup Range(Queued))
  BY <1>2, PlanFacts, FS_Union
<1>5. IsFiniteSet(Tasks)
  BY <1>1, <1>3, <1>4, FS_Union
<1>6. IsFiniteSet(Admitters)
  BY <1>1, FS_AddElement DEF Admitters
<1> QED
  BY <1>5, <1>6

-----------------------------------------------------------------------------
(* The slots.                                                               *)

SlotsInv ==
  /\ Cardinality(live) <= Slots
  /\ run = "starting" /\ ~Daemon => Cardinality(live) <= started

LEMMA LiveFinite ==
  ASSUME PlacesInv PROVE IsFiniteSet(live) /\ Cardinality(live) \in Nat
<1>1. live \in SUBSET Tasks
  BY DEF PlacesInv, PlacesTyped
<1> QED
  BY <1>1, Finite, FS_Subset, FS_CardinalityType

LEMMA OneMore ==
  ASSUME NEW S, IsFiniteSet(S), NEW x
  PROVE  Cardinality(S \cup {x}) <= Cardinality(S) + 1 /\ Cardinality(S \cup {x}) \in Nat
<1>1. IsFiniteSet(S \cup {x}) /\ Cardinality(S) \in Nat
  BY FS_AddElement, FS_CardinalityType
<1>2. Cardinality(S \cup {x}) = IF x \in S THEN Cardinality(S) ELSE Cardinality(S) + 1
  BY FS_AddElement
<1> QED
  BY <1>1, <1>2

LEMMA NextSlots == PlacesInv /\ SlotsInv /\ [Next]_vars => SlotsInv'
<1> SUFFICES ASSUME PlacesInv, SlotsInv, [Next]_vars PROVE SlotsInv'
  OBVIOUS
<1> USE DEF poolVars, connVars, taskVars, tallyVars, waitVars, admitVars, shutVars
<1>0. /\ IsFiniteSet(live) /\ Cardinality(live) \in Nat /\ Slots \in Nat /\ started \in Nat
      /\ Len(Parallel) \in Nat
  <2>1. started \in 0..Len(Parallel) /\ Len(Parallel) \in Nat
    BY PlanFacts DEF PlacesInv, PlacesTyped
  <2>2. Slots \in Nat
    BY KindAssumption
  <2> QED
    BY <2>1, <2>2, LiveFinite
<1>1. ASSUME live' \subseteq live, UNCHANGED started, run' = "starting" => run = "starting"
      PROVE  SlotsInv'
  <2>1. Cardinality(live') <= Cardinality(live) /\ Cardinality(live') \in Nat
    <3>1. live' \in SUBSET live
      BY <1>1
    <3> QED
      BY <1>0, <3>1, FS_Subset, FS_CardinalityType
  <2> QED
    BY <1>0, <1>1, <2>1 DEF SlotsInv
<1>2. ASSUME NEW a, TakeNext(a), UNCHANGED started, run' = "starting" => Daemon
      PROVE  SlotsInv'
  <2>1. /\ Cardinality(live) < Slots
        /\ Cardinality(live') <= Cardinality(live) + 1 /\ Cardinality(live') \in Nat
    BY <1>0, <1>2, OneMore DEF TakeNext, FreeSlot
  <2> QED
    BY <1>0, <1>2, <2>1 DEF SlotsInv
<1>3. CASE StartInitial
  <2>1. ~Daemon /\ Slots = Len(Parallel) /\ run = "starting"
    BY <1>0, <1>3, KindFacts DEF StartInitial
  <2>2. /\ started < Len(Parallel) /\ started' = started + 1
        /\ live' = live \cup {Parallel[started + 1]}
    BY <1>3 DEF StartInitial
  <2>3. Cardinality(live') <= Cardinality(live) + 1 /\ Cardinality(live') \in Nat
    BY <1>0, <2>2, OneMore
  <2> QED
    BY <1>0, <2>1, <2>2, <2>3 DEF SlotsInv
<1>4. ASSUME NEW r \in Requests, ClientStep(r) PROVE SlotsInv'
  <2>1. Daemon
    BY KindFacts
  <2>2. CASE ClientAdmits(r) /\ TakeNext(r)
    BY <1>2, <2>1, <2>2 DEF ClientAdmits
  <2>3. CASE Refuse(r) \/ Enqueue(r) \/ ClientLaunches(r) \/ (ClientAdmits(r) /\ UNCHANGED live)
    BY <1>1, <2>3 DEF Refuse, Enqueue, ClientLaunches, LaunchHeld, ClientAdmits
  <2> QED
    BY <1>4, <2>2, <2>3 DEF ClientStep, ClientAdmits
<1>5. CASE RunStep
  <2>1. CASE LoopAdmits /\ TakeNext(Loop)
    BY <1>2, <2>1 DEF LoopAdmits
  <2>2. CASE LoopAdmits /\ UNCHANGED live
    BY <1>1, <2>2 DEF LoopAdmits
  <2>3. CASE Receive \/ Drain \/ Sweep
    BY <1>1, <2>3 DEF Receive, Drain, Sweep, HandleComplete, Retired
  <2>4. CASE EnterLoop \/ LoopLaunches \/ Rebalance \/ WindDown \/ Release \/ DrainReturns \/ SeeDone
    BY <1>1, <2>4
    DEF EnterLoop, LoopLaunches, LaunchHeld, Rebalance, WindDown, Release, DrainReturns, SeeDone
  <2> QED
    BY <1>3, <1>5, <2>1, <2>2, <2>3, <2>4 DEF RunStep, LoopAdmits
<1>6. CASE \/ WaitBegin \/ WaitEnd \/ Cancel \/ UNCHANGED vars
           \/ \E t \in Tasks : TaskStep(t)
  BY <1>1, <1>6 DEF WaitBegin, WaitEnd, Cancel, vars, TaskStep, EnterStart, StartWorkers,
     Report, TaskDone
<1> QED
  BY <1>4, <1>5, <1>6 DEF Next

\* Never more tasks live than slots, and only live tasks run, however many admitters
\* there are and whatever they do at the same time.
THEOREM SlotsAreRespected == Spec => []SlotsRespected
<1>1. Init => SlotsInv
  BY KindAssumption, FS_EmptySet DEF Init, SlotsInv
<1>2. PlacesInv /\ SlotsInv => SlotsRespected
  BY DEF PlacesInv, Lives, LifeOf, Active, SlotsInv, SlotsRespected
<1> QED
  BY <1>1, <1>2, PlacesAlways, NextSlots, PTL DEF Spec

-----------------------------------------------------------------------------
(* The WaitGroup.                                                           *)

QueuedAhead == counted \cap Waiting
InHand      == {a \in Admitters : held[a] \in counted}
Out         == {t \in Tasks : task[t] \notin {"waiting", "gone"}}

LEMMA ReservationsFinite ==
  ASSUME PlacesTyped
  PROVE  /\ IsFiniteSet(QueuedAhead) /\ IsFiniteSet(InHand) /\ IsFiniteSet(Out)
         /\ Cardinality(QueuedAhead) \in Nat /\ Cardinality(InHand) \in Nat
         /\ Cardinality(Out) \in Nat
<1>1. QueuedAhead \in SUBSET Tasks
  BY DEF QueuedAhead, PlacesTyped
<1>2. InHand \in SUBSET Admitters /\ Out \in SUBSET Tasks
  BY DEF InHand, Out
<1> QED
  BY <1>1, <1>2, Finite, FS_Subset, FS_CardinalityType

Hold == IF isIdle THEN 1 ELSE 0

\* The sum of WaitGroupExact, before and after a step.
LEMMA CountedSum ==
  /\ WaitGroupExact <=> wg = Hold + reserved + Cardinality(QueuedAhead)
                             + Cardinality(InHand) + Cardinality(Out)
  /\ WaitGroupExact' <=> wg' = Hold' + reserved' + Cardinality(QueuedAhead')
                               + Cardinality(InHand') + Cardinality(Out')
  BY DEF WaitGroupExact, Hold, QueuedAhead, InHand, Out

\* A counter that is exact is a natural number.
LEMMA CounterIsNat ==
  ASSUME PlacesTyped, WaitGroupExact PROVE wg \in Nat
<1>1. Hold \in Nat /\ reserved \in Nat
  BY DEF Hold, PlacesTyped
<1> QED
  BY <1>1, CountedSum, ReservationsFinite

\* A step is counted right if the sum changes by as much as the counter.
LEMMA CountChange ==
  ASSUME PlacesInv, WaitGroupExact,
         NEW q \in Int, Cardinality(QueuedAhead') = Cardinality(QueuedAhead) + q,
         NEW h \in Int, Cardinality(InHand') = Cardinality(InHand) + h,
         NEW o \in Int, Cardinality(Out') = Cardinality(Out) + o,
         UNCHANGED <<isIdle, reserved>>, wg' = wg + q + h + o
  PROVE  WaitGroupExact'
<1>1. Hold \in Nat /\ reserved \in Nat /\ Hold' = Hold
  BY DEF Hold, PlacesInv, PlacesTyped
<1>2. wg \in Nat
  BY CounterIsNat DEF PlacesInv
<1> QED
  BY <1>1, <1>2, CountedSum, ReservationsFinite DEF PlacesInv

\* A step that leaves the three sets alone changes the counter with the other two terms.
LEMMA SameReservations ==
  ASSUME WaitGroupExact, QueuedAhead' = QueuedAhead, InHand' = InHand, Out' = Out,
         UNCHANGED <<wg, isIdle, reserved>>
  PROVE  WaitGroupExact'
  BY DEF WaitGroupExact, QueuedAhead, InHand, Out

LEMMA QuietExact ==
  ASSUME PlacesInv, WaitGroupExact,
         \/ WaitBegin \/ WaitEnd \/ Cancel \/ UNCHANGED vars
         \/ \E t \in Tasks : EnterStart(t) \/ StartWorkers(t) \/ Report(t)
         \/ \E r \in Requests : Refuse(r)
         \/ EnterLoop \/ Receive \/ Rebalance \/ Drain \/ DrainReturns \/ SeeDone \/ Sweep
  PROVE  WaitGroupExact'
<1> USE DEF poolVars, connVars, taskVars, tallyVars, waitVars, admitVars, shutVars
<1>1. UNCHANGED <<wg, isIdle, reserved, queued, counted, held>>
  BY DEF WaitBegin, WaitEnd, Cancel, vars, EnterStart, StartWorkers, Report, Refuse, EnterLoop,
     Receive, Rebalance, Drain, DrainReturns, SeeDone, Sweep, HandleComplete
<1>2. Out' = Out
  <2>1. CASE UNCHANGED task
    BY <2>1 DEF Out
  <2>2. ASSUME NEW t \in Tasks, EnterStart(t) \/ StartWorkers(t) \/ Report(t) PROVE Out' = Out
    BY <2>2 DEF EnterStart, StartWorkers, Report, Out, PlacesInv, PlacesTyped
  <2> QED
    BY <2>1, <2>2 DEF WaitBegin, WaitEnd, Cancel, vars, Refuse, EnterLoop,
       Receive, Rebalance, Drain, DrainReturns, SeeDone, Sweep, HandleComplete
<1> QED
  BY <1>1, <1>2, SameReservations DEF QueuedAhead, InHand, Waiting

LEMMA TaskDoneExact ==
  ASSUME PlacesInv, WaitGroupExact, NEW t \in Tasks, TaskDone(t)
  PROVE  WaitGroupExact'
<1> USE DEF poolVars, connVars, tallyVars, admitVars, shutVars
<1>1. /\ t \in Out /\ Out' = Out \ {t} /\ wg' = wg - 1
      /\ UNCHANGED <<isIdle, reserved, queued, counted, held>>
  BY DEF TaskDone, WgSet, Out, PlacesInv, PlacesTyped
<1>2. Cardinality(Out') = Cardinality(Out) - 1
  BY <1>1, ReservationsFinite, FS_RemoveElement DEF PlacesInv
<1>3. QueuedAhead' = QueuedAhead /\ InHand' = InHand
  BY <1>1 DEF QueuedAhead, InHand, Waiting
<1>4. /\ Cardinality(QueuedAhead') = Cardinality(QueuedAhead) + 0
      /\ Cardinality(InHand') = Cardinality(InHand) + 0
      /\ Cardinality(Out') = Cardinality(Out) + (-1) /\ wg' = wg + 0 + 0 + (-1)
  BY <1>1, <1>2, <1>3, ReservationsFinite, CounterIsNat DEF PlacesInv
<1> QED
  BY <1>1, <1>4, CountChange

LEMMA EnqueueExact ==
  ASSUME PlacesInv, WaitGroupExact, NEW r \in Requests, Enqueue(r)
  PROVE  WaitGroupExact'
<1> USE DEF connVars, taskVars, tallyVars, shutVars
<1>1. /\ counted' = counted \cup {r} /\ queued' = Append(queued, r) /\ wg' = wg + 1
      /\ client[r] = "idle" /\ UNCHANGED <<isIdle, reserved, held, task>>
  BY DEF Enqueue, WgSet
<1>2. Untouched(r) /\ r \notin counted /\ r \in Tasks
  BY <1>1 DEF PlacesInv, NotYet, Tasks
<1>3. Waiting' = Waiting \cup {r}
  BY <1>1, <1>2, AppendToInjective
  DEF PlacesInv, NoDuplicates, PlacesTyped, Untouched, Waiting
<1>4. QueuedAhead' = QueuedAhead \cup {r} /\ r \notin QueuedAhead
  BY <1>1, <1>2, <1>3 DEF QueuedAhead, Untouched
<1>5. Cardinality(QueuedAhead') = Cardinality(QueuedAhead) + 1
  BY <1>4, ReservationsFinite, FS_AddElement DEF PlacesInv
<1>6. \A a \in Admitters : held[a] # r
  BY <1>2, TaskAssumption DEF PlacesInv, HeldLife, Untouched, Holds
<1>7. InHand' = InHand /\ Out' = Out
  BY <1>1, <1>6 DEF InHand, Out
<1>8. /\ Cardinality(InHand') = Cardinality(InHand) + 0
      /\ Cardinality(Out') = Cardinality(Out) + 0 /\ wg' = wg + 1 + 0 + 0
  BY <1>1, <1>7, ReservationsFinite, CounterIsNat DEF PlacesInv
<1> QED
  BY <1>1, <1>5, <1>8, CountChange

LEMMA TakeNextExact ==
  ASSUME PlacesInv, WaitGroupExact, NEW a \in Admitters, TakeNext(a), ~Holds(a),
         UNCHANGED <<wg, isIdle, reserved, task>>
  PROVE  WaitGroupExact'
<1> DEFINE t == Head(queued)
<1>1. /\ queued # <<>> /\ queued' = Tail(queued)
      /\ held' = [held EXCEPT ![a] = t] /\ UNCHANGED counted
  BY DEF TakeNext
<1>2. /\ t \in Waiting /\ Waiting' = Waiting \ {t} /\ t \in Tasks
  BY <1>1, TailOfInjective DEF PlacesInv, NoDuplicates, PlacesTyped, Waiting
<1>3. Out' = Out
  BY DEF Out
<1>4. /\ held'[a] = t /\ \A b \in Admitters : b # a => held'[b] = held[b]
  BY <1>1 DEF PlacesInv, PlacesTyped
<1>5. NoTask \notin counted
  BY TaskAssumption DEF PlacesInv, PlacesTyped
<1>6. CASE t \in counted
  <2>1. QueuedAhead' = QueuedAhead \ {t} /\ t \in QueuedAhead
    BY <1>1, <1>2, <1>6 DEF QueuedAhead
  <2>2. InHand' = InHand \cup {a} /\ a \notin InHand
    BY <1>1, <1>4, <1>5, <1>6 DEF InHand, Holds
  <2>3. Cardinality(QueuedAhead') = Cardinality(QueuedAhead) - 1
    BY <2>1, ReservationsFinite, FS_RemoveElement DEF PlacesInv
  <2>4. Cardinality(InHand') = Cardinality(InHand) + 1
    BY <2>2, ReservationsFinite, FS_AddElement DEF PlacesInv
  <2>5. /\ Cardinality(QueuedAhead') = Cardinality(QueuedAhead) + (-1)
        /\ Cardinality(Out') = Cardinality(Out) + 0 /\ wg' = wg + (-1) + 1 + 0
    BY <1>3, <2>3, ReservationsFinite, CounterIsNat DEF PlacesInv
  <2> QED
    BY <2>4, <2>5, CountChange
<1>7. CASE t \notin counted
  <2>1. QueuedAhead' = QueuedAhead
    BY <1>1, <1>2, <1>7 DEF QueuedAhead
  <2>2. InHand' = InHand
    BY <1>1, <1>4, <1>5, <1>7 DEF InHand, Holds
  <2> QED
    BY <1>3, <2>1, <2>2, SameReservations
<1> QED
  BY <1>6, <1>7

LEMMA LaunchExact ==
  ASSUME PlacesInv, WaitGroupExact, NEW a \in Admitters, LaunchHeld(a), Holds(a),
         UNCHANGED <<isIdle, reserved, queued, counted>>
  PROVE  WaitGroupExact'
<1> DEFINE t == held[a]
<1>1. /\ t \in Tasks /\ held' = [held EXCEPT ![a] = NoTask]
      /\ task' = [task EXCEPT ![t] = "launched"]
      /\ wg' = IF t \in counted THEN wg ELSE wg + 1
  BY LaunchFacts DEF WgSet, Reservation
<1>2. task[t] = "waiting"
  BY DEF PlacesInv, HeldLife
<1>3. Out' = Out \cup {t} /\ t \notin Out
  BY <1>1, <1>2 DEF Out, PlacesInv, PlacesTyped
<1>4. Cardinality(Out') = Cardinality(Out) + 1
  BY <1>3, ReservationsFinite, FS_AddElement DEF PlacesInv
<1>5. QueuedAhead' = QueuedAhead
  BY DEF QueuedAhead, Waiting
<1>6. /\ held'[a] = NoTask /\ \A b \in Admitters : b # a => held'[b] = held[b]
      /\ NoTask \notin counted
  BY <1>1, TaskAssumption DEF PlacesInv, PlacesTyped
<1>7. CASE t \in counted
  <2>1. InHand' = InHand \ {a} /\ a \in InHand
    BY <1>6, <1>7 DEF InHand
  <2>2. Cardinality(InHand') = Cardinality(InHand) - 1
    BY <2>1, ReservationsFinite, FS_RemoveElement DEF PlacesInv
  <2>3. wg' = wg
    BY <1>1, <1>7
  <2>4. /\ Cardinality(QueuedAhead') = Cardinality(QueuedAhead) + 0
        /\ Cardinality(InHand') = Cardinality(InHand) + (-1) /\ wg' = wg + 0 + (-1) + 1
    BY <1>5, <2>2, <2>3, ReservationsFinite, CounterIsNat DEF PlacesInv
  <2> QED
    BY <1>4, <2>4, CountChange
<1>8. CASE t \notin counted
  <2>1. InHand' = InHand
    BY <1>6, <1>8 DEF InHand
  <2>2. wg' = wg + 1
    BY <1>1, <1>8
  <2>3. /\ Cardinality(QueuedAhead') = Cardinality(QueuedAhead) + 0
        /\ Cardinality(InHand') = Cardinality(InHand) + 0 /\ wg' = wg + 0 + 0 + 1
    BY <1>5, <2>1, <2>2, ReservationsFinite, CounterIsNat DEF PlacesInv
  <2> QED
    BY <1>4, <2>3, CountChange
<1> QED
  BY <1>7, <1>8

LEMMA StartInitialExact ==
  ASSUME PlacesInv, WaitGroupExact, StartInitial
  PROVE  WaitGroupExact'
<1> USE DEF admitVars, shutVars
<1> DEFINE t == Parallel[started + 1]
<1>1. /\ task' = [task EXCEPT ![t] = "launched"] /\ wg' = wg + 1
      /\ UNCHANGED <<isIdle, reserved, queued, counted, held>>
  BY DEF StartInitial, WgSet
<1>2. t \in Tasks /\ task[t] = "waiting"
  BY StartInitialPlaces DEF Untouched
<1>3. Out' = Out \cup {t} /\ t \notin Out
  BY <1>1, <1>2 DEF Out, PlacesInv, PlacesTyped
<1>4. Cardinality(Out') = Cardinality(Out) + 1
  BY <1>3, ReservationsFinite, FS_AddElement DEF PlacesInv
<1>5. QueuedAhead' = QueuedAhead /\ InHand' = InHand
  BY <1>1 DEF QueuedAhead, InHand, Waiting
<1>6. /\ Cardinality(QueuedAhead') = Cardinality(QueuedAhead) + 0
      /\ Cardinality(InHand') = Cardinality(InHand) + 0 /\ wg' = wg + 0 + 0 + 1
  BY <1>1, <1>5, ReservationsFinite, CounterIsNat DEF PlacesInv
<1> QED
  BY <1>1, <1>4, <1>6, CountChange

\* The positions of counted tasks in the queue are as many as the counted tasks there.
LEMMA PositionsAreTasks ==
  ASSUME PlacesInv
  PROVE  Cardinality({i \in DOMAIN queued : queued[i] \in counted}) = Cardinality(QueuedAhead)
<1> DEFINE Positions == {i \in DOMAIN queued : queued[i] \in counted}
           f == [i \in Positions |-> queued[i]]
<1>1. IsFiniteSet(Positions)
  BY FiniteQueue DEF PlacesInv, PlacesTyped
<1>2. f \in Bijection(Positions, QueuedAhead)
  <2>1. f \in [Positions -> QueuedAhead]
    BY DEF QueuedAhead, Waiting, Range
  <2>2. IsInjective(f)
    BY DEF IsInjective, PlacesInv, NoDuplicates
  <2>3. \A t \in QueuedAhead : \E i \in Positions : f[i] = t
    BY DEF QueuedAhead, Waiting, Range
  <2> HIDE DEF f, Positions
  <2> QED
    BY <2>1, <2>2, <2>3 DEF Bijection, Injection, Surjection
<1> HIDE DEF f, Positions
<1>3. ExistsBijection(Positions, QueuedAhead)
  BY <1>2 DEF ExistsBijection
<1>4. Cardinality(QueuedAhead) = Cardinality(Positions)
  BY <1>1, <1>3, FS_Bijection
<1> QED
  BY <1>4 DEF Positions

LEMMA WindDownExact ==
  ASSUME PlacesInv, WaitGroupExact, WindDown
  PROVE  WaitGroupExact'
<1> USE DEF connVars, taskVars, tallyVars, waitVars, admitVars
<1>1. /\ reserved' = Cardinality(QueuedAhead) /\ queued' = <<>> /\ reserved = 0
      /\ UNCHANGED <<isIdle, wg, counted, held, task>>
  BY PositionsAreTasks DEF WindDown, PlacesInv, ControlPoints
<1>2. QueuedAhead' = {} /\ Cardinality(QueuedAhead') = 0
  BY <1>1, FS_EmptySet DEF QueuedAhead, Waiting, Range
<1>3. InHand' = InHand /\ Out' = Out
  BY <1>1 DEF InHand, Out
<1>4. Hold' = Hold /\ Hold \in Nat
  BY <1>1 DEF Hold
<1> QED
  BY <1>1, <1>2, <1>3, <1>4, CountedSum, ReservationsFinite DEF PlacesInv

LEMMA ReleaseExact ==
  ASSUME PlacesInv, WaitGroupExact, Release
  PROVE  WaitGroupExact'
<1> USE DEF poolVars, connVars, taskVars, tallyVars, admitVars
<1>1. /\ wg' = wg - (reserved + (IF isIdle THEN 1 ELSE 0)) /\ isIdle' = FALSE /\ reserved' = 0
      /\ UNCHANGED <<queued, counted, held, task>>
  BY DEF Release, WgSet, Reservations
<1>2. QueuedAhead' = QueuedAhead /\ InHand' = InHand /\ Out' = Out
  BY <1>1 DEF QueuedAhead, Waiting, InHand, Out
<1>3. Hold' = 0 /\ Hold \in Nat /\ reserved \in Nat /\ wg' = wg - (reserved + Hold)
  BY <1>1 DEF Hold, PlacesInv, PlacesTyped
<1> QED
  BY <1>1, <1>2, <1>3, CountedSum, ReservationsFinite DEF PlacesInv

LEMMA NextExact == PlacesInv /\ WaitGroupExact /\ [Next]_vars => WaitGroupExact'
<1> SUFFICES ASSUME PlacesInv, WaitGroupExact, [Next]_vars PROVE WaitGroupExact'
  OBVIOUS
<1> USE DEF poolVars, connVars, taskVars, tallyVars, waitVars, admitVars, shutVars
<1>1. CASE \E t \in Tasks : TaskStep(t)
  BY <1>1, QuietExact, TaskDoneExact DEF TaskStep
<1>2. ASSUME NEW r \in Requests, ClientStep(r) PROVE WaitGroupExact'
  <2>1. r \in Admitters
    BY DEF Admitters
  <2>2. CASE ClientAdmits(r)
    <3>1. ~Holds(r) /\ UNCHANGED <<wg, isIdle, reserved, task>>
      BY <2>2 DEF ClientAdmits, PlacesInv, ControlPoints
    <3>2. CASE UNCHANGED <<queued, counted, held>>
      BY <3>1, <3>2, SameReservations DEF QueuedAhead, InHand, Out, Waiting
    <3> QED
      BY <2>1, <2>2, <3>1, <3>2, TakeNextExact DEF ClientAdmits
  <2>3. CASE ClientLaunches(r)
    <3>1. Holds(r) /\ LaunchHeld(r) /\ UNCHANGED <<isIdle, reserved, queued, counted>>
      BY <2>3 DEF ClientLaunches, PlacesInv, ControlPoints
    <3> QED
      BY <2>1, <3>1, LaunchExact
  <2> QED
    BY <1>2, <2>2, <2>3, QuietExact, EnqueueExact DEF ClientStep
<1>3. CASE RunStep
  <2>1. Loop \in Admitters
    BY DEF Admitters
  <2>2. CASE LoopAdmits
    <3>1. ~Holds(Loop) /\ UNCHANGED <<wg, isIdle, reserved, task>>
      BY <2>2 DEF LoopAdmits, PlacesInv, ControlPoints
    <3>2. CASE UNCHANGED <<queued, counted, held>>
      BY <3>1, <3>2, SameReservations DEF QueuedAhead, InHand, Out, Waiting
    <3> QED
      BY <2>1, <2>2, <3>1, <3>2, TakeNextExact DEF LoopAdmits
  <2>3. CASE LoopLaunches
    <3>1. Holds(Loop) /\ LaunchHeld(Loop) /\ UNCHANGED <<isIdle, reserved, queued, counted>>
      BY <2>3 DEF LoopLaunches, PlacesInv, ControlPoints
    <3> QED
      BY <2>1, <3>1, LaunchExact
  <2> QED
    BY <1>3, <2>2, <2>3, QuietExact, StartInitialExact, WindDownExact, ReleaseExact DEF RunStep
<1>4. CASE WaitBegin \/ WaitEnd \/ Cancel \/ UNCHANGED vars
  BY <1>4, QuietExact
<1> QED
  BY <1>1, <1>2, <1>3, <1>4 DEF Next

LEMMA InitExact == Init => WaitGroupExact
<1> SUFFICES ASSUME Init PROVE WaitGroupExact
  OBVIOUS
<1>1. QueuedAhead = {} /\ Out = {} /\ InHand = {}
  BY DEF Init, QueuedAhead, Out, InHand
<1>2. wg = (IF isIdle THEN 1 ELSE 0) /\ reserved = 0
  BY DEF Init, IdleHold
<1> QED
  BY <1>1, <1>2, FS_EmptySet DEF WaitGroupExact, QueuedAhead, Out, InHand

\* The WaitGroup counts every reservation exactly once.
THEOREM WaitGroupIsExact == Spec => []WaitGroupExact
  BY InitExact, NextExact, PlacesAlways, PTL DEF Spec

-----------------------------------------------------------------------------
(* Connections and their budget.                                            *)

\* What LiveById lists: the live tasks, each once.
ListsLive(w, n) ==
  n \in Nat /\ n = Cardinality(live) /\ OneToOne(w, 1..n, live) /\ Len(w) = n

LEMMA LiveByIdFacts ==
  ASSUME PlacesInv, Rebalances
  PROVE  ListsLive(LiveById, Cardinality(live))
<1> DEFINE byId == Queued \o Parallel
           k == Len(byId)
           v == TRUE
           flags == [i \in DOMAIN byId |-> byId[i] \in live]
           at == Where(flags, v)
           n == Len(at)
<1>1. byId \in Seq(Tasks) /\ k \in Nat /\ DOMAIN byId = 1..k
  BY PlanFacts
<1>2. \A i, j \in 1..k : byId[i] = byId[j] => i = j
  <2> SUFFICES ASSUME NEW i \in 1..k, NEW j \in 1..k, byId[i] = byId[j] PROVE i = j
    OBVIOUS
  <2> DEFINE q == Len(Queued)
             m == Len(Parallel)
  <2>1. /\ q \in Nat /\ m \in Nat /\ k = q + m
        /\ DOMAIN Queued = 1..q /\ DOMAIN Parallel = 1..m
    BY PlanFacts
  <2>2. \A x \in 1..k : IF x <= q THEN x \in 1..q /\ byId[x] = Queued[x]
                                  ELSE x - q \in 1..m /\ byId[x] = Parallel[x - q]
    BY <2>1, PlanFacts
  <2>3. /\ \A x, y \in 1..q : Queued[x] = Queued[y] => x = y
        /\ \A x, y \in 1..m : Parallel[x] = Parallel[y] => x = y
        /\ \A x \in 1..m, y \in 1..q : Parallel[x] # Queued[y]
    BY <2>1, PlanFacts DEF IsInjective
  <2> HIDE DEF byId, k, q, m
  <2>4. i \in Nat /\ j \in Nat
    BY <1>1
  <2> QED
    BY <2>1, <2>2, <2>3, <2>4
<1>3. \A t \in live : \E i \in 1..k : byId[i] = t
  <2>1. live \subseteq Planned
    BY KindAssumption DEF PlacesInv, PlacesTyped, Tasks
  <2> DEFINE q == Len(Queued)
             m == Len(Parallel)
  <2>2. /\ q \in Nat /\ m \in Nat /\ k = q + m
        /\ DOMAIN Queued = 1..q /\ DOMAIN Parallel = 1..m
        /\ \A i \in 1..q : i \in 1..k /\ byId[i] = Queued[i]
        /\ \A i \in 1..m : q + i \in 1..k /\ byId[q + i] = Parallel[i]
    BY PlanFacts
  <2> HIDE DEF byId, k, q, m
  <2> QED
    BY <2>1, <2>2 DEF Planned
<1> HIDE DEF byId, k
<1>4. DOMAIN flags = 1..k /\ \A i \in 1..k : flags[i] = (byId[i] \in live)
  BY <1>1
<1>5. LiveById = [j \in DOMAIN at |-> byId[at[j]]]
  BY DEF LiveById, byId
<1>6. Lists(at, flags, v, 1..k) /\ n \in Nat
  <2> HIDE DEF flags, v
  <2> QED
    BY <1>1, <1>4, WhereFacts
<1> HIDE DEF at, flags, n
<1>7. \A i \in 1..k : flags[i] = TRUE <=> byId[i] \in live
  BY <1>4
<1>8. /\ DOMAIN at = 1..n
      /\ \A j \in 1..n : at[j] \in 1..k
      /\ \A j, l \in 1..n : at[j] = at[l] => j = l
      /\ \A i \in 1..k : byId[i] \in live <=> \E j \in 1..n : at[j] = i
  <2>1. CASE at # <<>>
    BY <1>6, <1>7, <2>1 DEF Lists, Opens, n
  <2>2. CASE at = <<>>
    <3>1. DOMAIN at = {} /\ n = 0
      BY <2>2 DEF n
    <3> QED
      BY <1>6, <1>7, <3>1 DEF Lists
  <2> QED
    BY <2>1, <2>2
<1> DEFINE w == LiveById
<1>9. w = [j \in 1..n |-> byId[at[j]]]
  BY <1>5, <1>8
<1> HIDE DEF w
<1>10. w \in [1..n -> live]
  <2>1. \A j \in 1..n : byId[at[j]] \in live
    BY <1>8
  <2> QED
    BY <1>9, <2>1
<1>11. \A i, j \in 1..n : w[i] = w[j] => i = j
  BY <1>2, <1>8, <1>9
<1>12. \A t \in live : \E i \in 1..n : w[i] = t
  <2> TAKE t \in live
  <2>1. PICK i \in 1..k : byId[i] = t
    BY <1>3
  <2>2. PICK j \in 1..n : at[j] = i
    BY <1>8, <2>1
  <2> QED
    BY <1>9, <2>1, <2>2
<1>13. Cardinality(live) = n
  <2> DEFINE D == 1..n
  <2>1. IsFiniteSet(D) /\ Cardinality(D) = n
    BY <1>6, FS_Interval
  <2>2. w \in [D -> live] /\ (\A i, j \in D : w[i] = w[j] => i = j)
        /\ \A t \in live : \E i \in D : w[i] = t
    BY <1>10, <1>11, <1>12
  <2> HIDE DEF D
  <2>3. w \in Injection(D, live) /\ w \in Surjection(D, live)
    BY <2>2 DEF Injection, Surjection, IsInjective
  <2> QED
    BY <2>1, <2>3, FS_Surjection
<1>14. Len(w) = n
  BY <1>6, <1>10
<1> QED
  BY <1>6, <1>10, <1>11, <1>12, <1>13, <1>14 DEF ListsLive, OneToOne, w

LEMMA AllottedSum ==
  ASSUME NEW n \in Nat, NEW T, IsFiniteSet(T), NEW w, OneToOne(w, 1..n, T),
         NEW f, \A t \in T : f[t] \in Nat
  PROVE  Total([i \in 1..n |-> f[w[i]]]) = SumFunctionOnSet(f, T)
<1> DEFINE D == 1..n
           g == [i \in D |-> f[w[i]]]
<1>1. IsFiniteSet(D) /\ DOMAIN g = D /\ \A i \in D : g[i] = f[w[i]]
  BY FS_Interval
<1>2. OneToOne(w, D, T)
  OBVIOUS
<1>3. Total(g) = SumFunctionOnSet(g, DOMAIN g)
  BY TotalIsSum
<1> HIDE DEF D, g
<1>4. SumFunctionOnSet(g, D) = SumFunctionOnSet(f, T)
  BY <1>1, <1>2, SumReindexed
<1> QED
  BY <1>1, <1>3, <1>4 DEF g, D

Allotted == Total([i \in DOMAIN LiveById |-> conns[LiveById[i]]])

\* What is allotted to the live tasks is the sum over them, in any order.
LEMMA AllottedIs ==
  ASSUME PlacesInv, Rebalances, ConnsTyped
  PROVE  Allotted = SumFunctionOnSet(conns, live)
<1> DEFINE n == Cardinality(live)
           w == LiveById
<1>1. ListsLive(w, n)
  BY LiveByIdFacts
<1>2. IsFiniteSet(live) /\ \A t \in live : conns[t] \in Nat
  BY LiveFinite DEF PlacesInv, PlacesTyped, ConnsTyped
<1> HIDE DEF n, w
<1>3. Total([i \in 1..n |-> conns[w[i]]]) = SumFunctionOnSet(conns, live)
  BY <1>1, <1>2, AllottedSum DEF ListsLive
<1>4. DOMAIN w = 1..n
  BY <1>1 DEF ListsLive, OneToOne
<1> QED
  BY <1>3, <1>4 DEF Allotted, w

\* The plan gives each of the tasks that start first a connection, so its slots are
\* within the budget.
LEMMA BudgetReaches ==
  ASSUME Rebalances
  PROVE  /\ Slots \in Nat \ {0} /\ Slots = Len(Parallel) /\ Budget \in Nat /\ Slots <= Budget
<1> DEFINE m == Len(Parallel)
           D == 1..m
           given == [i \in D |-> PlannedConns[Parallel[i]]]
           ones == [i \in D |-> 1]
<1>1. m \in Nat \ {0} /\ Slots = m /\ Budget \in Nat /\ DOMAIN Parallel = D
  BY KindAssumption, KindFacts, PlanFacts
<1>2. \A i \in D : given[i] \in Nat /\ ones[i] \in Nat /\ ones[i] <= given[i]
  <2>1. \A i \in D : Parallel[i] \in Tasks
    BY <1>1, PlanFacts DEF Tasks
  <2>2. \A i \in D : PlannedConns[Parallel[i]] \in Nat \ {0}
    BY <2>1, TaskAssumption
  <2> HIDE DEF D
  <2> QED
    BY <2>2
<1>3. Total(given) <= Budget
  BY <1>1, PlanAssumption
<1>4. Total(ones) = m * 1
  <2>1. m \in Nat
    BY <1>1
  <2> HIDE DEF m
  <2> QED
    BY <2>1, TotalOfSame
<1>5. IsFiniteSet(D) /\ DOMAIN given = D /\ DOMAIN ones = D
  <2> HIDE DEF m
  <2> QED
    BY <1>1, FS_Interval
<1> HIDE DEF m, D, given, ones
<1>6. /\ SumFunctionOnSet(ones, D) <= SumFunctionOnSet(given, D)
      /\ SumFunctionOnSet(ones, D) \in Nat /\ SumFunctionOnSet(given, D) \in Nat
  BY <1>2, <1>5, SumGrows
<1>7. Total(ones) = SumFunctionOnSet(ones, D) /\ Total(given) = SumFunctionOnSet(given, D)
  BY <1>5, TotalIsSum
<1> QED
  BY <1>1, <1>3, <1>4, <1>6, <1>7 DEF m

\* The targets of the live tasks.
LEMMA LiveTargetsFacts ==
  ASSUME PlacesInv, Rebalances, Cardinality(live) <= Budget
  PROVE  /\ ListsLive(LiveById, Cardinality(live))
         /\ LiveTargets \in [1..Cardinality(live) -> Nat] /\ Total(LiveTargets) <= Budget
<1> DEFINE n == Cardinality(live)
           w == LiveById
           cap == [i \in DOMAIN w |-> w[i] \notin SingleStream]
           t == RebalanceTargets(cap, Budget)
           D == 1..n
<1>1. ListsLive(w, n) /\ LiveTargets = t /\ Budget \in Nat
  BY LiveByIdFacts, BudgetReaches DEF LiveTargets
<1>2. DOMAIN w = D /\ n \in Nat
  <2> HIDE DEF w, n
  <2> QED
    BY <1>1 DEF ListsLive, OneToOne
<1>3. cap \in [D -> BOOLEAN]
  BY <1>2
<1> HIDE DEF w, cap
<1>4. CASE n # 0
  <2>1. n \in Nat \ {0} /\ n <= n /\ 1 \in Nat \ {0} /\ n * 1 <= Budget
    BY <1>2, <1>4
  <2> HIDE DEF n, D, t
  <2>2. D = 1..n /\ t = RebalanceTargets(cap, Budget)
    BY DEF D, t
  <2>3. GoodTargets(t, cap, Budget, 1, D)
    BY <1>1, <1>2, <1>3, <2>1, <2>2, TargetsAreGood
  <2> QED
    BY <1>1, <2>3 DEF GoodTargets, w, n, D
<1>5. CASE n = 0
  <2>1. Len(cap) = 0 /\ D = {}
    BY <1>3, <1>5
  <2>2. DOMAIN t = {}
    BY <2>1 DEF RebalanceTargets
  <2>3. t \in [D -> Nat]
    <3>1. t = [i \in 1..Len(cap) |-> t[i]]
      BY DEF RebalanceTargets
    <3> HIDE DEF t
    <3> QED
      BY <2>1, <2>2, <3>1
  <2>4. Total(t) = 0
    <3> HIDE DEF t
    <3> QED
      BY <2>2, TotalIsSum, SumOfNone
  <2> HIDE DEF t
  <2> QED
    BY <1>1, <2>3, <2>4 DEF w
<1> QED
  BY <1>4, <1>5

LEMMA LiveByIdKept == ASSUME live' = live PROVE LiveById' = LiveById
BY DEF LiveById

\* The new connections are numbers, and those of the live tasks within the budget.
LEMMA RebalanceConns ==
  ASSUME PlacesInv, ConnsTyped, Rebalance
  PROVE  /\ ConnsTyped'
         /\ Rebalances /\ Cardinality(live) <= Slots => Allotted' <= Budget
<1> DEFINE n == Cardinality(live)
           w == LiveById
           g == LiveTargets
<1>1. /\ conns' = [t \in Tasks |-> IF t \in Adjusted THEN NewConns(t) ELSE conns[t]]
      /\ target' = [t \in Tasks |-> IF t \in Adjusted THEN NewConns(t) ELSE target[t]]
      /\ param' = param /\ live' = live
  BY DEF Rebalance, poolVars
<1>2. /\ conns \in [Tasks -> Nat] /\ target \in [Tasks -> Nat] /\ param \in [Tasks -> Nat]
      /\ live \subseteq Tasks
  BY DEF ConnsTyped, PlacesInv, PlacesTyped
<1>3. ASSUME Rebalances, n <= Budget
      PROVE  /\ ListsLive(w, n) /\ g \in [1..n -> Nat] /\ Total(g) <= Budget
             /\ DOMAIN w = 1..n
             /\ \A i \in 1..n : w[i] \in live /\ NewConns(w[i]) = g[i]
             /\ \A t \in live : NewConns(t) \in Nat
  <2>1. ListsLive(w, n) /\ g \in [1..n -> Nat] /\ Total(g) <= Budget
    BY <1>3, LiveTargetsFacts
  <2>2. /\ DOMAIN w = 1..n /\ \A i \in 1..n : w[i] \in live
        /\ \A i, j \in 1..n : w[i] = w[j] => i = j
        /\ \A t \in live : \E i \in 1..n : w[i] = t
    BY <2>1 DEF ListsLive, OneToOne
  <2>3. \A t : NewConns(t) = g[CHOOSE i \in DOMAIN w : w[i] = t]
    BY DEF NewConns
  <2> HIDE DEF w, g, n
  <2>4. \A i \in 1..n : (CHOOSE j \in DOMAIN w : w[j] = w[i]) = i
    BY <2>2
  <2>5. \A i \in 1..n : NewConns(w[i]) = g[i]
    BY <2>3, <2>4
  <2>6. \A t \in live : NewConns(t) \in Nat
    BY <2>1, <2>2, <2>5
  <2> QED
    BY <2>1, <2>2, <2>5, <2>6
<1>4. \A t \in Adjusted : t \in live /\ Rebalances /\ n <= Budget
  BY DEF Adjusted
<1> HIDE DEF n, w, g
<1>5. \A t \in Adjusted : NewConns(t) \in Nat
  BY <1>3, <1>4
<1>6. conns' \in [Tasks -> Nat] /\ target' \in [Tasks -> Nat]
  BY <1>1, <1>2, <1>5
<1>7. ConnsTyped'
  BY <1>1, <1>2, <1>6 DEF ConnsTyped
<1>8. ASSUME Rebalances, n <= Slots PROVE Allotted' <= Budget
  <2>1. n \in Nat /\ Slots \in Nat \ {0} /\ Budget \in Nat /\ Slots <= Budget
    BY <1>8, LiveFinite, BudgetReaches DEF n
  <2>2. n <= Budget /\ Budget >= 1
    BY <1>8, <2>1
  <2>3. Adjusted = live
    BY <1>8, <2>2 DEF Adjusted, n
  <2>4. /\ DOMAIN w = 1..n /\ g \in [1..n -> Nat] /\ Total(g) <= Budget
        /\ \A i \in 1..n : w[i] \in live /\ NewConns(w[i]) = g[i]
    BY <1>3, <1>8, <2>2
  <2>5. \A i \in 1..n : conns'[w[i]] = g[i]
    BY <1>1, <1>2, <2>3, <2>4
  <2>6. [i \in DOMAIN w |-> conns'[w[i]]] = g
    BY <2>4, <2>5
  <2>7. LiveById' = w
    BY <1>1, LiveByIdKept DEF w
  <2>8. Allotted' = Total([i \in DOMAIN w |-> conns'[w[i]]])
    BY <2>7 DEF Allotted
  <2> QED
    BY <2>4, <2>6, <2>8
<1> QED
  BY <1>7, <1>8 DEF n

LEMMA NextConns ==
  ASSUME ConnsTyped, PlacesInv, [Next]_vars PROVE ConnsTyped'
<1> USE DEF poolVars, connVars, taskVars, tallyVars, waitVars, admitVars, shutVars
<1>1. ASSUME NEW t \in Tasks, TaskStep(t) PROVE ConnsTyped'
  BY <1>1 DEF TaskStep, EnterStart, StartWorkers, StartTarget, Most, Report, TaskDone, ConnsTyped
<1>2. ASSUME NEW a, TakeNext(a) PROVE ConnsTyped'
  <2>1. Head(queued) \in Tasks
    BY <1>2 DEF TakeNext, PlacesInv, PlacesTyped
  <2> QED
    BY <1>2, <2>1 DEF TakeNext, ConnsTyped
<1>3. CASE StartInitial
  BY <1>3, StartInitialPlaces DEF StartInitial, ConnsTyped
<1>4. CASE Rebalance
  BY <1>4, RebalanceConns
<1>5. ASSUME NEW r \in Requests, ClientStep(r) PROVE ConnsTyped'
  BY <1>2, <1>5 DEF ClientStep, Refuse, Enqueue, ClientAdmits, ClientLaunches, ConnsTyped
<1>6. CASE RunStep
  BY <1>2, <1>3, <1>4, <1>6
  DEF RunStep, EnterLoop, Receive, LoopAdmits, LoopLaunches, WindDown, Release, Drain,
      DrainReturns, SeeDone, Sweep, ConnsTyped
<1>7. CASE WaitBegin \/ WaitEnd \/ Cancel \/ UNCHANGED vars
  BY <1>7 DEF WaitBegin, WaitEnd, Cancel, vars, ConnsTyped
<1> QED
  BY <1>1, <1>5, <1>6, <1>7 DEF Next

\* While the first tasks are being started they are the live ones, at the connections of
\* the plan; between two events of the loop what they are allotted is within the budget.
AllotInv ==
  Rebalances =>
    /\ run = "starting" => conns = PlannedConns /\ live = {Parallel[i] : i \in 1..started}
    /\ run = "select" => Allotted <= Budget

\* What the plan allots to the tasks that start first.
LEMMA PlanWithinBudget ==
  ASSUME Rebalances, PlacesInv, ConnsTyped, conns = PlannedConns,
         live = {Parallel[i] : i \in 1..Len(Parallel)}
  PROVE  Allotted <= Budget
<1> DEFINE m == Len(Parallel)
<1>1. m \in Nat /\ DOMAIN Parallel = 1..m /\ IsInjective(Parallel)
  BY PlanFacts
<1>2. IsFiniteSet(live) /\ \A t \in live : conns[t] \in Nat
  BY LiveFinite DEF PlacesInv, PlacesTyped, ConnsTyped
<1>3. OneToOne(Parallel, 1..m, live)
  <2>1. Parallel \in [1..m -> live]
    <3>1. Parallel = [i \in 1..m |-> Parallel[i]]
      BY <1>1, PlanFacts
    <3>2. \A i \in 1..m : Parallel[i] \in live
      OBVIOUS
    <3> QED
      BY <3>1, <3>2
  <2>2. \A x, y \in 1..m : Parallel[x] = Parallel[y] => x = y
    BY <1>1 DEF IsInjective
  <2> QED
    BY <2>1, <2>2 DEF OneToOne
<1> HIDE DEF m
<1>4. Total([i \in 1..m |-> conns[Parallel[i]]]) = SumFunctionOnSet(conns, live)
  BY <1>1, <1>2, <1>3, AllottedSum
<1>5. Total([i \in 1..m |-> conns[Parallel[i]]]) <= Budget
  BY <1>1, PlanAssumption
<1> QED
  BY <1>4, <1>5, AllottedIs

LEMMA NextAllot ==
  ASSUME PlacesInv, SlotsInv, ConnsTyped, AllotInv, [Next]_vars PROVE AllotInv'
<1> USE DEF poolVars, connVars, taskVars, tallyVars, waitVars, admitVars, shutVars
<1> SUFFICES ASSUME Rebalances PROVE AllotInv'
  BY DEF AllotInv
<1>1. Requests = {} /\ ~Daemon
  BY KindAssumption, KindFacts
<1>2. ASSUME UNCHANGED <<live, conns, run, started>> PROVE AllotInv'
  <2>1. Allotted' = Allotted
    BY <1>2, LiveByIdKept DEF Allotted
  <2> QED
    BY <1>2, <2>1 DEF AllotInv
<1>3. ASSUME NEW t \in Tasks, TaskStep(t) PROVE AllotInv'
  BY <1>2, <1>3 DEF TaskStep, EnterStart, StartWorkers, Report, TaskDone
<1>4. CASE StartInitial
  <2>1. /\ run = "starting" /\ run' = "starting" /\ conns' = conns /\ started' = started + 1
        /\ live' = live \cup {Parallel[started + 1]}
    BY <1>4 DEF StartInitial
  <2>2. started \in Nat
    BY DEF PlacesInv, PlacesTyped
  <2>3. live = {Parallel[i] : i \in 1..started} /\ conns = PlannedConns
    BY <2>1 DEF AllotInv
  <2>4. 1..(started + 1) = (1..started) \cup {started + 1}
    BY <2>2
  <2>5. live' = {Parallel[i] : i \in 1..(started + 1)}
    BY <2>1, <2>3, <2>4
  <2> QED
    BY <2>1, <2>3, <2>5 DEF AllotInv
<1>5. CASE EnterLoop
  <2>1. run = "starting" /\ started = Len(Parallel) /\ run' = "select" /\ UNCHANGED <<live, conns>>
    BY <1>5 DEF EnterLoop
  <2>2. Allotted <= Budget
    BY <2>1, PlanWithinBudget DEF AllotInv
  <2>3. Allotted' = Allotted
    BY <2>1, LiveByIdKept DEF Allotted
  <2> QED
    BY <2>1, <2>2, <2>3 DEF AllotInv
<1>6. CASE Rebalance
  <2>1. run' = "select"
    BY <1>6 DEF Rebalance
  <2>2. Allotted' <= Budget
    BY <1>6, RebalanceConns DEF SlotsInv
  <2> QED
    BY <2>1, <2>2 DEF AllotInv
<1>7. CASE Receive \/ LoopAdmits \/ LoopLaunches \/ WindDown \/ Release \/ Drain \/ DrainReturns
           \/ SeeDone \/ Sweep
  <2>1. run' \notin {"starting", "select"}
    BY <1>7 DEF Receive, LoopAdmits, LoopLaunches, WindDown, Release, Drain, DrainReturns, SeeDone, Sweep
  <2> QED
    BY <2>1 DEF AllotInv
<1>8. CASE WaitBegin \/ WaitEnd \/ Cancel \/ UNCHANGED vars
  BY <1>2, <1>8 DEF WaitBegin, WaitEnd, Cancel, vars
<1> QED
  BY <1>1, <1>3, <1>4, <1>5, <1>6, <1>7, <1>8 DEF Next, RunStep

LEMMA InitAllot == Init => ConnsTyped /\ AllotInv
<1> SUFFICES ASSUME Init PROVE ConnsTyped /\ AllotInv
  OBVIOUS
<1>1. ConnsTyped
  BY TaskAssumption DEF Init, ConnsTyped
<1>2. 1..0 = {}
  OBVIOUS
<1>3. live = {Parallel[i] : i \in 1..started}
  BY <1>2 DEF Init
<1> QED
  BY <1>1, <1>3 DEF Init, AllotInv

LEMMA AllotAlways == Spec => [](PlacesInv /\ SlotsInv /\ ConnsTyped /\ AllotInv)
<1>1. Init => SlotsInv
  BY KindAssumption, FS_EmptySet DEF Init, SlotsInv
<1>2. PlacesInv /\ SlotsInv /\ ConnsTyped /\ AllotInv /\ [Next]_vars => ConnsTyped' /\ AllotInv'
  BY NextConns, NextAllot
<1> QED
  BY <1>1, <1>2, InitAllot, PlacesAlways, NextSlots, PTL DEF Spec

\* Types, and a WaitGroup that never goes below zero: what a rebalancing gives every live
\* task is a number of connections (rebalance.go:19-73).
THEOREM SchedulerTypes == Spec => []TypeOK
<1>1. PlacesInv /\ ConnsTyped /\ WaitGroupExact => TypeOK
  BY CounterIsNat DEF PlacesInv, TypeOK
<1> QED
  BY <1>1, AllotAlways, WaitGroupIsExact, PTL

\* However tasks finish and others are admitted, between two events of the loop the
\* connections allotted to the live tasks stay within the budget of the batch
\* (rebalance.go:52-73).
THEOREM AllotmentsStayInBudget == Spec => []AllotmentsWithinBudget
<1>1. AllotInv => AllotmentsWithinBudget
  BY DEF AllotInv, Allotted, AllotmentsWithinBudget
<1> QED
  BY <1>1, AllotAlways, PTL

-----------------------------------------------------------------------------
(* A daemon that nobody cancels.                                            *)

\* The waiter is released only if the idle hold is gone, which only a shutdown
\* gives back; and only the waiter or a shutdown makes Run return.
HoldInv ==
  Daemon /\ ~windingDown =>
    waiter \notin {"released", "closed"} /\ run \notin {"sweep", "returned"}

LEMMA IdleCounts ==
  ASSUME PlacesInv, WaitGroupExact, isIdle PROVE wg >= 1
<1>1. wg = 1 + reserved + Cardinality(QueuedAhead) + Cardinality(InHand) + Cardinality(Out)
  BY DEF WaitGroupExact, QueuedAhead, InHand, Out
<1> QED
  BY <1>1, ReservationsFinite DEF PlacesInv, PlacesTyped

LEMMA NextHold ==
  ASSUME PlacesInv, WaitGroupExact, PlacesInv', WaitGroupExact', HoldInv, [Next]_vars
  PROVE  HoldInv'
<1> USE DEF poolVars, connVars, taskVars, tallyVars, waitVars, admitVars, shutVars
<1> SUFFICES ASSUME Daemon, ~windingDown'
             PROVE  waiter' \notin {"released", "closed"} /\ run' \notin {"sweep", "returned"}
  BY DEF HoldInv
<1>1. ~windingDown
  <2>1. windingDown => windingDown'
    BY DEF Next, TaskStep, EnterStart, StartWorkers, Report, TaskDone, ClientStep,
       Refuse, Enqueue, ClientAdmits, ClientLaunches, RunStep, StartInitial, EnterLoop, Receive,
       LoopAdmits, LoopLaunches, Rebalance, WindDown, Release, Drain, DrainReturns, SeeDone,
       Sweep, WaitBegin, WaitEnd, Cancel, vars
  <2> QED
    BY <2>1
<1>2. waiter \notin {"released", "closed"} /\ run \notin {"sweep", "returned"}
  BY <1>1 DEF HoldInv
<1>3. wg # 0 /\ wg' # 0
  <2>1. isIdle /\ isIdle'
    BY <1>1 DEF PlacesInv, ControlPoints
  <2>2. wg >= 1 /\ wg \in Nat
    BY <2>1, IdleCounts, CounterIsNat DEF PlacesInv
  <2>3. wg' >= 1 /\ wg' \in Nat
    <3>1. wg' = 1 + reserved' + Cardinality(QueuedAhead') + Cardinality(InHand') + Cardinality(Out')
      BY <2>1 DEF WaitGroupExact, QueuedAhead, InHand, Out
    <3>2. /\ Cardinality(QueuedAhead') \in Nat /\ Cardinality(InHand') \in Nat
          /\ Cardinality(Out') \in Nat /\ reserved' \in Nat
      <4>1. QueuedAhead' \in SUBSET Tasks /\ InHand' \in SUBSET Admitters /\ Out' \in SUBSET Tasks
        BY DEF QueuedAhead, InHand, Out, PlacesInv, PlacesTyped
      <4> QED
        BY <4>1, Finite, FS_Subset, FS_CardinalityType DEF PlacesInv, PlacesTyped
    <3> QED
      BY <3>1, <3>2
  <2> QED
    BY <2>2, <2>3
<1>4. waiter' \notin {"released", "closed"}
  <2>1. \A n : WgSet(n) => waiter' = waiter
    BY <1>3 DEF WgSet
  <2>2. WaitBegin \/ WaitEnd => waiter' = "parked"
    BY <1>2, <1>3 DEF WaitBegin, WaitEnd
  <2>3. LoopLaunches => waiter' = waiter
    BY <2>1 DEF LoopLaunches, LaunchHeld
  <2>4. \A r \in Requests : ClientLaunches(r) => waiter' = waiter
    BY <2>1 DEF ClientLaunches, LaunchHeld
  <2>5. EnterLoop => waiter' = "ready"
    BY DEF EnterLoop
  <2>6. ~(WaitBegin \/ WaitEnd \/ EnterLoop) => waiter' = waiter
    <3>1. ASSUME NEW t \in Tasks, TaskStep(t) PROVE waiter' = waiter
      BY <2>1, <3>1 DEF TaskStep, EnterStart, StartWorkers, Report, TaskDone
    <3>2. ASSUME NEW r \in Requests, ClientStep(r) PROVE waiter' = waiter
      BY <2>1, <2>4, <3>2 DEF ClientStep, Refuse, Enqueue, ClientAdmits
    <3>3. CASE RunStep /\ ~EnterLoop
      BY <2>1, <2>3, <3>3 DEF RunStep, StartInitial, Receive, LoopAdmits, Rebalance, WindDown,
         Release, Drain, DrainReturns, SeeDone, Sweep
    <3>4. CASE Cancel \/ UNCHANGED vars
      BY <3>4 DEF Cancel, vars
    <3> QED
      BY <3>1, <3>2, <3>3, <3>4 DEF Next
  <2> QED
    BY <1>2, <2>2, <2>5, <2>6
<1>5. run' \notin {"sweep", "returned"}
  <2>1. CASE RunStep
    <3>1. run \notin {"drain", "release"}
      BY <1>1 DEF PlacesInv, ControlPoints
    <3> QED
      BY <2>1, <3>1, <1>2
      DEF RunStep, StartInitial, EnterLoop, Receive, LoopAdmits, LoopLaunches, Rebalance,
          WindDown, Release, Drain, DrainReturns, SeeDone, Sweep
  <2>2. CASE ~RunStep
    <3>1. run' = run
      BY <2>2 DEF Next, TaskStep, EnterStart, StartWorkers, Report, TaskDone, ClientStep,
         Refuse, Enqueue, ClientAdmits, ClientLaunches, WaitBegin, WaitEnd, Cancel, vars
    <3> QED
      BY <3>1, <1>2
  <2> QED
    BY <2>1, <2>2
<1> QED
  BY <1>4, <1>5

LEMMA HoldAlways == Spec => [](PlacesInv /\ WaitGroupExact /\ HoldInv)
<1>1. Init => HoldInv
  BY DEF Init, HoldInv
<1>2. /\ PlacesInv /\ WaitGroupExact /\ PlacesInv' /\ WaitGroupExact' /\ HoldInv /\ [Next]_vars
      => HoldInv'
  BY NextHold
<1> QED
  BY <1>1, <1>2, PlacesAlways, WaitGroupIsExact, PTL DEF Spec

\* Until it is cancelled a daemon is never taken for finished, idle or not.
THEOREM DaemonIsKeptUp == Spec => []DaemonStaysUp
<1>1. HoldInv => DaemonStaysUp
  BY DEF HoldInv, DaemonStaysUp
<1> QED
  BY <1>1, HoldAlways, PTL

\* In a daemon nothing is added to the WaitGroup once Wait has been released: the
\* requests that could add are refused by then, and what they reserved is counted.
THEOREM DaemonNeverAddsLate ==
  ASSUME Daemon PROVE Spec => NoAddAfterWait
<1> USE DEF poolVars, connVars, taskVars, tallyVars, waitVars, admitVars, shutVars
<1>1. PlacesInv /\ WaitGroupExact /\ HoldInv /\ [Next]_vars
      => (wg' > wg => waiter \notin {"released", "closed"}) \/ UNCHANGED vars
  <2> SUFFICES ASSUME PlacesInv, WaitGroupExact, HoldInv, [Next]_vars, wg' > wg,
                      waiter \in {"released", "closed"}
               PROVE  FALSE
    OBVIOUS
  <2>1. windingDown /\ wg \in Nat
    BY CounterIsNat DEF HoldInv, PlacesInv
  <2>2. ~(\E r \in Requests : Enqueue(r))
    BY <2>1 DEF Enqueue, Refuses
  <2>3. ~LoopLaunches
    BY <2>1 DEF LoopLaunches, PlacesInv, ControlPoints
  <2>4. ASSUME NEW r \in Requests, ClientLaunches(r) PROVE FALSE
    <3>1. r \in Admitters /\ LaunchHeld(r) /\ Holds(r)
      BY <2>4 DEF Admitters, ClientLaunches, PlacesInv, ControlPoints
    <3>2. held[r] \in Requests /\ ~Untouched(held[r])
      BY <3>1, KindFacts DEF PlacesInv, HeldLife, PlacesTyped, Holds, Tasks, Untouched
    <3>3. held[r] \in counted
      BY <3>2 DEF PlacesInv, NotYet
    <3>4. wg' = wg
      BY <3>1, <3>3, LaunchFacts DEF WgSet, Reservation
    <3> QED
      BY <3>4, <2>1
  <2>5. ~StartInitial
    BY KindFacts DEF StartInitial, PlacesInv, PlacesTyped
  <2>6. ~Release
    <3> SUFFICES ASSUME Release PROVE FALSE
      OBVIOUS
    <3>1. wg' = wg - (reserved + (IF isIdle THEN 1 ELSE 0))
      BY DEF Release, WgSet, Reservations
    <3> QED
      BY <3>1, <2>1 DEF PlacesInv, PlacesTyped
  <2>7. ASSUME NEW t \in Tasks, TaskDone(t) PROVE FALSE
    BY <2>1, <2>7 DEF TaskDone, WgSet
  <2>8. wg' = wg
    BY <2>2, <2>3, <2>4, <2>5, <2>6, <2>7
    DEF Next, TaskStep, EnterStart, StartWorkers, Report, ClientStep,
        Refuse, ClientAdmits, RunStep, EnterLoop, Receive, LoopAdmits, Rebalance,
        WindDown, Drain, DrainReturns, SeeDone, Sweep, WaitBegin, WaitEnd, Cancel, vars
  <2> QED
    BY <2>1, <2>8
<1> QED
  BY <1>1, HoldAlways, PTL DEF Spec, NoAddAfterWait

-----------------------------------------------------------------------------
(* The tally and the bounds.                                                *)

Tallied   == {t \in Tasks : told[t] = 1}
Succeeded == {t \in Tasks : told[t] = 1 /\ outcome[t] = "completed"}

TallyOK == succeeded + failed = Cardinality(Tallied) /\ succeeded = Cardinality(Succeeded)

QueueBounded == Daemon => Len(queued) <= MaxPending

StoppedBounded == Len(stopped) <= MaxStopped

LEMMA TalliedFinite ==
  /\ IsFiniteSet(Tallied) /\ Cardinality(Tallied) \in Nat
  /\ IsFiniteSet(Succeeded) /\ Cardinality(Succeeded) \in Nat
<1>1. Tallied \subseteq Tasks /\ Succeeded \subseteq Tasks
  BY DEF Tallied, Succeeded
<1> QED
  BY <1>1, Finite, FS_Subset, FS_CardinalityType

\* What is kept of the stopped tasks is never longer than MaxStopped.
LEMMA RetainBounds ==
  ASSUME NEW s \in Seq(Tasks)
  PROVE  Len(Retain(s)) <= MaxStopped
<1> DEFINE m == Most(1, Len(s) - MaxStopped + 1)
<1>1. Len(s) \in Nat /\ MaxStopped \in Nat \ {0}
  BY BoundAssumption
<1>2. m \in 1..(Len(s) + 1) /\ m >= Len(s) - MaxStopped + 1
  BY <1>1 DEF Most
<1>3. Retain(s) = SubSeq(s, m, Len(s))
  BY DEF Retain
<1> HIDE DEF m
<1>4. Len(SubSeq(s, m, Len(s))) = Len(s) - m + 1
  BY <1>1, <1>2, SubSeqProperties
<1> QED
  BY <1>1, <1>2, <1>3, <1>4

\* A report taken from the channel is tallied once, as what Start left.
LEMMA HandleCompleteTally ==
  ASSUME PlacesInv, HandleComplete, TallyOK
  PROVE  TallyOK' /\ StoppedBounded' /\ queued' = queued
<1> DEFINE t == Head(compl)
<1>1. t \in Tasks /\ t \in Range(compl)
  BY TailOfInjective DEF HandleComplete, PlacesInv, PlacesTyped, NoDuplicates
<1>2. told[t] = 0
  BY <1>1 DEF PlacesInv, Lives, LifeOf
<1>3. /\ told' = [told EXCEPT ![t] = @ + 1] /\ outcome' = outcome
      /\ told \in [Tasks -> Nat] /\ succeeded \in Nat /\ failed \in Nat
  BY DEF HandleComplete, PlacesInv, PlacesTyped
<1>4. /\ outcome[t] = "completed" => succeeded' = succeeded + 1 /\ failed' = failed
      /\ outcome[t] # "completed" => failed' = failed + 1 /\ succeeded' = succeeded
  BY DEF HandleComplete
<1>5. StoppedBounded'
  <2>1. Append(stopped, t) \in Seq(Tasks) /\ stopped' = Retain(Append(stopped, t))
    BY <1>1 DEF HandleComplete, PlacesInv, PlacesTyped
  <2> QED
    BY <2>1, RetainBounds DEF StoppedBounded
<1>6. queued' = queued
  BY DEF HandleComplete
<1> HIDE DEF t
<1>7. Tallied' = Tallied \cup {t} /\ t \notin Tallied
  BY <1>1, <1>2, <1>3 DEF Tallied
<1>8. Cardinality(Tallied') = Cardinality(Tallied) + 1
  BY <1>7, TalliedFinite, FS_AddElement
<1>9. Cardinality(Succeeded') = Cardinality(Succeeded) + (succeeded' - succeeded)
  <2>1. CASE outcome[t] = "completed"
    <3>1. Succeeded' = Succeeded \cup {t} /\ t \notin Succeeded
      BY <1>1, <1>2, <1>3, <2>1 DEF Succeeded
    <3>2. Cardinality(Succeeded') = Cardinality(Succeeded) + 1
      BY <3>1, TalliedFinite, FS_AddElement
    <3> QED
      BY <3>2, <2>1, <1>3, <1>4
  <2>2. CASE outcome[t] # "completed"
    <3>1. Succeeded' = Succeeded
      BY <1>1, <1>3, <2>2 DEF Succeeded
    <3> QED
      BY <3>1, <2>2, <1>3, <1>4, TalliedFinite
  <2> QED
    BY <2>1, <2>2
<1>10. TallyOK'
  BY <1>3, <1>4, <1>8, <1>9, TalliedFinite DEF TallyOK
<1> QED
  BY <1>5, <1>6, <1>10

\* The outcome of a tallied task stays.
LEMMA TallyLeftAlone ==
  ASSUME PlacesInv, TallyOK, UNCHANGED <<told, succeeded, failed>>,
         \A t \in Tasks : told[t] = 1 => outcome'[t] = outcome[t]
  PROVE  TallyOK'
<1>1. Tallied' = Tallied /\ Succeeded' = Succeeded
  BY DEF Tallied, Succeeded
<1> QED
  BY <1>1 DEF TallyOK

LEMMA NextTally ==
  ASSUME PlacesInv, BoundedAndTallied, [Next]_vars
  PROVE  BoundedAndTallied'
<1> USE DEF poolVars, connVars, taskVars, tallyVars, waitVars, admitVars, shutVars
<1>1. TallyOK /\ QueueBounded /\ StoppedBounded
  BY DEF BoundedAndTallied, TallyOK, QueueBounded, StoppedBounded, Tallied, Succeeded
<1>2. queued \in Seq(Tasks) /\ MaxPending \in Nat
  BY BoundAssumption DEF PlacesInv, PlacesTyped
<1> SUFFICES TallyOK' /\ QueueBounded' /\ StoppedBounded'
  BY DEF BoundedAndTallied, TallyOK, QueueBounded, StoppedBounded, Tallied, Succeeded
<1>3. CASE HandleComplete
  BY <1>1, <1>3, HandleCompleteTally DEF QueueBounded
<1>4. ASSUME UNCHANGED <<queued, stopped, told, succeeded, failed, outcome>>
      PROVE  TallyOK' /\ QueueBounded' /\ StoppedBounded'
  BY <1>1, <1>4, TallyLeftAlone DEF QueueBounded, StoppedBounded
<1>5. ASSUME NEW a, TakeNext(a), UNCHANGED <<told, succeeded, failed, outcome>>
      PROVE  TallyOK' /\ QueueBounded' /\ StoppedBounded'
  <2>1. queued # <<>> /\ queued' = Tail(queued) /\ stopped' = stopped
    BY <1>5 DEF TakeNext
  <2>2. Len(queued') <= Len(queued) /\ Len(queued') \in Nat /\ Len(queued) \in Nat
    BY <1>2, <2>1
  <2> QED
    BY <1>1, <1>2, <1>5, <2>1, <2>2, TallyLeftAlone DEF QueueBounded, StoppedBounded
<1>6. ASSUME NEW t \in Tasks, TaskStep(t)
      PROVE  TallyOK' /\ QueueBounded' /\ StoppedBounded'
  <2>1. CASE Report(t)
    <3>1. /\ task[t] \in Active /\ UNCHANGED <<queued, stopped, told, succeeded, failed>>
          /\ \E o \in {"completed", "error"} : outcome' = [outcome EXCEPT ![t] = o]
      BY <2>1 DEF Report, Active
    <3>2. told[t] = 0
      BY <3>1 DEF PlacesInv, Lives, LifeOf
    <3>3. \A u \in Tasks : told[u] = 1 => outcome'[u] = outcome[u]
      BY <3>1, <3>2 DEF PlacesInv, PlacesTyped
    <3> QED
      BY <1>1, <3>1, <3>3, TallyLeftAlone DEF QueueBounded, StoppedBounded
  <2>2. CASE EnterStart(t) \/ StartWorkers(t) \/ TaskDone(t)
    BY <1>4, <2>2 DEF EnterStart, StartWorkers, TaskDone
  <2> QED
    BY <1>6, <2>1, <2>2 DEF TaskStep
<1>7. ASSUME NEW r \in Requests, ClientStep(r)
      PROVE  TallyOK' /\ QueueBounded' /\ StoppedBounded'
  <2>1. CASE Enqueue(r)
    <3>1. /\ ~(Len(queued) >= MaxPending) /\ queued' = Append(queued, r)
          /\ UNCHANGED <<stopped, told, succeeded, failed, outcome>>
      BY <2>1 DEF Enqueue, Refuses
    <3>2. Len(queued') = Len(queued) + 1 /\ Len(queued) \in Nat
      BY <1>2, <3>1 DEF Tasks
    <3> QED
      BY <1>1, <1>2, <3>1, <3>2, TallyLeftAlone DEF QueueBounded, StoppedBounded
  <2>2. CASE Refuse(r) \/ ClientLaunches(r)
    BY <1>4, <2>2 DEF Refuse, ClientLaunches
  <2>3. CASE ClientAdmits(r)
    <3>1. UNCHANGED <<told, succeeded, failed, outcome>>
      BY <2>3 DEF ClientAdmits
    <3>2. CASE TakeNext(r)
      BY <1>5, <3>1, <3>2
    <3>3. CASE ~TakeNext(r)
      BY <1>4, <2>3, <3>3 DEF ClientAdmits
    <3> QED
      BY <3>2, <3>3
  <2> QED
    BY <1>7, <2>1, <2>2, <2>3 DEF ClientStep
<1>8. CASE RunStep
  <2>1. CASE Receive \/ Drain \/ Sweep
    BY <1>3, <1>4, <2>1 DEF Receive, Drain, Sweep
  <2>2. CASE LoopAdmits
    <3>1. UNCHANGED <<told, succeeded, failed, outcome>>
      BY <2>2 DEF LoopAdmits
    <3>2. CASE TakeNext(Loop)
      BY <1>5, <3>1, <3>2
    <3>3. CASE ~TakeNext(Loop)
      BY <1>4, <2>2, <3>3 DEF LoopAdmits
    <3> QED
      BY <3>2, <3>3
  <2>3. CASE WindDown
    <3>1. queued' = <<>> /\ UNCHANGED <<stopped, told, succeeded, failed, outcome>>
      BY <2>3 DEF WindDown
    <3>2. Len(queued') = 0
      BY <3>1
    <3> QED
      BY <1>1, <1>2, <3>1, <3>2, TallyLeftAlone DEF QueueBounded, StoppedBounded
  <2>4. CASE StartInitial \/ EnterLoop \/ LoopLaunches \/ Rebalance \/ Release
             \/ DrainReturns \/ SeeDone
    BY <1>4, <2>4 DEF StartInitial, EnterLoop, LoopLaunches, Rebalance, Release,
       DrainReturns, SeeDone
  <2> QED
    BY <1>8, <2>1, <2>2, <2>3, <2>4 DEF RunStep
<1>9. CASE WaitBegin \/ WaitEnd \/ Cancel \/ UNCHANGED vars
  BY <1>4, <1>9 DEF WaitBegin, WaitEnd, Cancel, vars
<1> QED
  BY <1>6, <1>7, <1>8, <1>9 DEF Next

LEMMA InitTally == Init => BoundedAndTallied
<1> SUFFICES ASSUME Init PROVE BoundedAndTallied
  OBVIOUS
<1>1. Daemon => queued = <<>>
  BY KindAssumption DEF Init
<1>2. Len(<<>>) = 0 /\ MaxPending \in Nat /\ MaxStopped \in Nat
  BY BoundAssumption
<1>3. Tallied = {} /\ Succeeded = {}
  BY DEF Init, Tallied, Succeeded
<1>4. succeeded = 0 /\ failed = 0 /\ stopped = <<>>
  BY DEF Init
<1>5. TallyOK
  BY <1>3, <1>4, FS_EmptySet DEF TallyOK
<1>6. QueueBounded /\ StoppedBounded
  BY <1>1, <1>2, <1>4 DEF QueueBounded, StoppedBounded
<1> QED
  BY <1>5, <1>6
  DEF BoundedAndTallied, TallyOK, QueueBounded, StoppedBounded, Tallied, Succeeded

\* The daemon's queue and the list of stopped tasks never outgrow their limits,
\* and the tally of a run is exactly the tasks that reported, by outcome: no
\* report is counted twice, and no outcome changes after it was counted
\* (handleComplete, retire and Enqueue, queue.go:295-335, 343-363).
THEOREM TallyIsExact == Spec => []BoundedAndTallied
<1> QED
  BY PlacesAlways, InitTally, NextTally, PTL DEF Spec

-----------------------------------------------------------------------------
(* SlotPool.                                                                *)

\* The tasks of the plan still to be started stand in front of the queue.
Unstarted == SubSeq(Parallel, started + 1, Len(Parallel))

LEMMA UnstartedFacts ==
  ASSUME PlacesTyped
  PROVE  /\ Unstarted \in Seq(Tasks)
         /\ started = Len(Parallel) => Unstarted = <<>>
         /\ \A i \in DOMAIN Unstarted : \E j \in DOMAIN Parallel :
              j > started /\ Unstarted[i] = Parallel[j]
<1>1. /\ Parallel \in Seq(Tasks) /\ Len(Parallel) \in Nat /\ started \in 0..Len(Parallel)
      /\ DOMAIN Parallel = 1..Len(Parallel)
  BY PlanFacts DEF PlacesTyped
<1>2. \A i \in (started + 1)..Len(Parallel) : Parallel[i] \in Tasks
  BY <1>1
<1>3. /\ Unstarted \in Seq(Tasks)
      /\ Len(Unstarted) = IF started + 1 <= Len(Parallel) THEN Len(Parallel) - started ELSE 0
      /\ \A i \in 1..(Len(Parallel) - started) : Unstarted[i] = Parallel[started + i]
  <2> DEFINE m == started + 1
  <2>1. m \in Int /\ Len(Parallel) \in Int /\ \A i \in m..Len(Parallel) : Parallel[i] \in Tasks
    BY <1>1, <1>2
  <2>2. /\ SubSeq(Parallel, m, Len(Parallel)) \in Seq(Tasks)
        /\ Len(SubSeq(Parallel, m, Len(Parallel)))
             = IF m <= Len(Parallel) THEN Len(Parallel) - m + 1 ELSE 0
        /\ \A i \in 1..(Len(Parallel) - m + 1) :
             SubSeq(Parallel, m, Len(Parallel))[i] = Parallel[m + i - 1]
    BY <2>1, SubSeqProperties
  <2>3. Len(Parallel) - m + 1 = Len(Parallel) - started
    BY <1>1
  <2>4. \A i \in 1..(Len(Parallel) - started) : m + i - 1 = started + i
    BY <1>1
  <2> QED
    BY <1>1, <2>2, <2>3, <2>4 DEF Unstarted
<1>4. started = Len(Parallel) => Unstarted = <<>>
  BY <1>1, SubSeqEmpty DEF Unstarted
<1>5. ASSUME NEW i \in DOMAIN Unstarted
      PROVE  \E j \in DOMAIN Parallel : j > started /\ Unstarted[i] = Parallel[j]
  <2>1. i \in 1..(Len(Parallel) - started)
    <3>1. DOMAIN Unstarted = 1..Len(Unstarted)
      BY <1>3
    <3>2. started \in Nat /\ Len(Parallel) \in Nat /\ started <= Len(Parallel)
      BY <1>1
    <3>3. CASE started + 1 <= Len(Parallel)
      <4>1. Len(Unstarted) = Len(Parallel) - started
        BY <1>3, <3>3
      <4> QED
        BY <3>1, <4>1
    <3>4. CASE ~(started + 1 <= Len(Parallel))
      <4>1. Len(Unstarted) = 0
        BY <1>3, <3>4
      <4> QED
        BY <3>1, <4>1
    <3> QED
      BY <3>3, <3>4
  <2>2. started + i \in DOMAIN Parallel /\ started + i > started
    BY <1>1, <2>1
  <2> QED
    BY <1>3, <2>1, <2>2
<1> QED
  BY <1>3, <1>4, <1>5

LEMMA HeadTailConcat ==
  ASSUME NEW S, NEW s \in Seq(S), NEW q \in Seq(S), s # <<>>
  PROVE  s \o q # <<>> /\ Head(s \o q) = Head(s) /\ Tail(s \o q) = Tail(s) \o q
<1>1. /\ Tail(s) \in Seq(S) /\ Head(s) \in S /\ s = <<Head(s)>> \o Tail(s)
  <2>1. /\ Tail(s) \in Seq(S) /\ Head(s) \in S /\ Len(Tail(s)) = Len(s) - 1
        /\ \A i \in 1..Len(Tail(s)) : Tail(s)[i] = s[i + 1]
        /\ Len(s) \in Nat \ {0} /\ Head(s) = s[1]
    BY HeadTailProperties, EmptySeq
  <2>2. /\ <<Head(s)>> \in Seq(S) /\ Len(<<Head(s)>>) = 1 /\ <<Head(s)>>[1] = Head(s)
    BY <2>1
  <2>3. /\ <<Head(s)>> \o Tail(s) \in Seq(S) /\ Len(<<Head(s)>> \o Tail(s)) = Len(s)
        /\ \A i \in 1..Len(s) : (<<Head(s)>> \o Tail(s))[i] = s[i]
    <3>1. /\ <<Head(s)>> \o Tail(s) \in Seq(S)
          /\ Len(<<Head(s)>> \o Tail(s)) = 1 + Len(Tail(s))
          /\ \A i \in 1..(1 + Len(Tail(s))) : (<<Head(s)>> \o Tail(s))[i] =
               IF i <= 1 THEN <<Head(s)>>[i] ELSE Tail(s)[i - 1]
      BY <2>1, <2>2, ConcatProperties
    <3>2. ASSUME NEW i \in 1..Len(s) PROVE (<<Head(s)>> \o Tail(s))[i] = s[i]
      <4>1. CASE i = 1
        BY <4>1, <3>1, <2>1, <2>2
      <4>2. CASE i # 1
        <5>1. i - 1 \in 1..Len(Tail(s)) /\ (i - 1) + 1 = i
          BY <4>2, <2>1
        <5> QED
          BY <5>1, <4>2, <3>1, <2>1
      <4> QED
        BY <4>1, <4>2
    <3> QED
      BY <3>1, <3>2, <2>1
  <2> QED
    BY <2>1, <2>3, SeqEqual
<1>2. <<Head(s)>> \in Seq(S) /\ Tail(s) \o q \in Seq(S)
  BY <1>1, ConcatProperties
<1>3. s \o q = <<Head(s)>> \o (Tail(s) \o q)
  BY <1>1, <1>2, ConcatAssociative
<1>4. /\ s \o q \in Seq(S) /\ Len(s \o q) = 1 + Len(Tail(s) \o q)
      /\ \A i \in 1..(1 + Len(Tail(s) \o q)) : (s \o q)[i] =
           IF i <= 1 THEN <<Head(s)>>[i] ELSE (Tail(s) \o q)[i - 1]
  <2>1. Len(<<Head(s)>>) = 1
    OBVIOUS
  <2> QED
    BY <1>2, <1>3, <2>1, ConcatProperties
<1>5. Len(Tail(s) \o q) \in Nat
  BY <1>2
<1>6. s \o q # <<>>
  BY <1>4, <1>5
<1>7. Head(s \o q) = Head(s)
  <2>1. Head(s \o q) = (s \o q)[1]
    BY <1>4, <1>6
  <2> QED
    BY <2>1, <1>4, <1>5
<1>8. Tail(s \o q) = Tail(s) \o q
  <2>1. /\ Tail(s \o q) \in Seq(S) /\ Len(Tail(s \o q)) = Len(s \o q) - 1
        /\ \A i \in 1..Len(Tail(s \o q)) : Tail(s \o q)[i] = (s \o q)[i + 1]
    BY <1>4, <1>6, HeadTailProperties
  <2>2. Len(Tail(s \o q)) = Len(Tail(s) \o q)
    BY <2>1, <1>4, <1>5
  <2>3. ASSUME NEW i \in 1..Len(Tail(s \o q)) PROVE Tail(s \o q)[i] = (Tail(s) \o q)[i]
    <3>1. i + 1 \in 1..(1 + Len(Tail(s) \o q)) /\ ~(i + 1 <= 1) /\ (i + 1) - 1 = i
      BY <2>2, <1>5
    <3> QED
      BY <3>1, <2>1, <1>4
  <2> QED
    BY <1>2, <2>1, <2>2, <2>3, SeqEqual
<1> QED
  BY <1>6, <1>7, <1>8

-----------------------------------------------------------------------------
(* The refinement, step by step.                                            *)

PoolWaiting  == Unstarted \o queued
PoolFinished == {t \in Tasks : told[t] > 0}

\* A step that changes nothing the pool can see.
Stutters == UNCHANGED <<PoolWaiting, live, PoolFinished, windingDown>>

LEMMA StutterImplements ==
  ASSUME Stutters PROVE UNCHANGED Pool!vars
  BY DEF Stutters, Pool!vars, PoolWaiting, PoolFinished, Unstarted

\* Pool!Begin in the scheduler's terms.
LEMMA PoolCardinality == \A S : Pool!Cardinality(S) = Cardinality(S)
  BY DEF Pool!Cardinality, Cardinality, Pool!IsFiniteSet, IsFiniteSet

LEMMA PoolBegin ==
  Pool!Begin <=> /\ PoolWaiting # <<>> /\ Cardinality(live) < Slots
                 /\ live' = live \cup {Head(PoolWaiting)}
                 /\ PoolWaiting' = Tail(PoolWaiting)
                 /\ UNCHANGED <<PoolFinished, ~windingDown>>
  BY PoolCardinality, Zenon DEF Pool!Begin, PoolWaiting, PoolFinished, Unstarted

LEMMA StartInitialImplements ==
  ASSUME PlacesInv, SlotsInv, StartInitial PROVE Pool!Begin
<1> DEFINE t == Parallel[started + 1]
<1>1. /\ started \in Nat /\ started < Len(Parallel) /\ started' = started + 1
      /\ live' = live \cup {t} /\ UNCHANGED <<queued, told, windingDown>>
      /\ run = "starting"
  BY DEF StartInitial, PlacesInv, PlacesTyped, tallyVars, shutVars
<1>2. /\ Parallel \in Seq(Tasks) /\ Len(Parallel) \in Nat /\ queued \in Seq(Tasks)
      /\ Unstarted \in Seq(Tasks)
  BY PlanFacts, UnstartedFacts DEF PlacesInv, PlacesTyped
<1>3. Head(Unstarted) = t /\ Tail(Unstarted) = Unstarted'
  <2>1. started + 1 \in 1..Len(Parallel) /\ Len(Parallel) \in (started + 1)..Len(Parallel)
    BY <1>1, <1>2
  <2>2. /\ Head(SubSeq(Parallel, started + 1, Len(Parallel))) = Parallel[started + 1]
        /\ Tail(SubSeq(Parallel, started + 1, Len(Parallel)))
             = SubSeq(Parallel, (started + 1) + 1, Len(Parallel))
    BY <2>1, <1>2, HeadTailOfSubSeq
  <2> QED
    BY <2>2, <1>1 DEF Unstarted
<1>4. Unstarted # <<>>
  <2>1. \A i \in (started + 1)..Len(Parallel) : Parallel[i] \in Tasks
    BY <1>1, <1>2
  <2>2. Len(Unstarted) = Len(Parallel) - (started + 1) + 1
    BY <1>1, <1>2, <2>1, SubSeqProperties DEF Unstarted
  <2> QED
    BY <1>1, <1>2, <2>2
<1>5. PoolWaiting # <<>> /\ Head(PoolWaiting) = t /\ Tail(PoolWaiting) = PoolWaiting'
  <2>1. /\ Unstarted \o queued # <<>> /\ Head(Unstarted \o queued) = Head(Unstarted)
        /\ Tail(Unstarted \o queued) = Tail(Unstarted) \o queued
    BY <1>2, <1>4, HeadTailConcat
  <2> QED
    BY <1>1, <1>3, <2>1 DEF PoolWaiting
<1>6. Cardinality(live) < Slots
  <2>1. ~Daemon /\ Slots = Len(Parallel)
    BY <1>1, KindFacts
  <2> QED
    BY <2>1, <1>1, <1>2, LiveFinite DEF SlotsInv
<1>7. PoolFinished' = PoolFinished
  BY <1>1 DEF PoolFinished
<1> QED
  BY <1>1, <1>5, <1>6, <1>7, PoolBegin

LEMMA TakeNextImplements ==
  ASSUME PlacesInv, NEW a, TakeNext(a), started = Len(Parallel),
         UNCHANGED <<started, told, windingDown>>
  PROVE  Pool!Begin
<1>1. /\ queued # <<>> /\ Cardinality(live) < Slots /\ queued' = Tail(queued)
      /\ live' = live \cup {Head(queued)}
  BY DEF TakeNext, FreeSlot
<1>2. Unstarted = <<>> /\ Unstarted' = <<>>
  BY UnstartedFacts DEF PlacesInv, Unstarted
<1>3. queued \in Seq(Tasks) /\ queued' \in Seq(Tasks)
  BY <1>1 DEF PlacesInv, PlacesTyped
<1>4. PoolWaiting = queued /\ PoolWaiting' = queued'
  BY <1>2, <1>3, ConcatEmptySeq DEF PoolWaiting
<1>5. PoolFinished' = PoolFinished
  BY DEF PoolFinished
<1> QED
  BY <1>1, <1>4, <1>5, PoolBegin

LEMMA EnqueueImplements ==
  ASSUME PlacesInv, NEW r \in Requests, Enqueue(r) PROVE Pool!Submit(r)
<1> USE DEF tallyVars, shutVars
<1>1. /\ client[r] = "idle" /\ ~windingDown /\ queued' = Append(queued, r)
      /\ UNCHANGED <<live, told, started, windingDown>>
  BY DEF Enqueue, Refuses
<1>2. Untouched(r) /\ r \in Tasks
  BY <1>1 DEF PlacesInv, NotYet, Tasks
<1>3. queued \in Seq(Tasks) /\ Unstarted \in Seq(Tasks)
  BY UnstartedFacts DEF PlacesInv, PlacesTyped
<1>4. PoolWaiting' = Append(PoolWaiting, r)
  <2>1. Append(queued, r) = queued \o <<r>> /\ <<r>> \in Seq(Tasks)
    BY <1>2, <1>3, AppendIsConcat
  <2>2. Unstarted \o queued \in Seq(Tasks)
    BY <1>3, ConcatProperties
  <2>3. Append(Unstarted \o queued, r) = (Unstarted \o queued) \o <<r>>
    BY <1>2, <2>2, AppendIsConcat
  <2>4. (Unstarted \o queued) \o <<r>> = Unstarted \o (queued \o <<r>>)
    BY <1>3, <2>1, ConcatAssociative
  <2> QED
    BY <1>1, <2>1, <2>3, <2>4 DEF PoolWaiting, Unstarted
<1>5. \A i \in DOMAIN PoolWaiting : PoolWaiting[i] # r
  <2> SUFFICES ASSUME NEW i \in DOMAIN PoolWaiting, PoolWaiting[i] = r PROVE FALSE
    OBVIOUS
  <2>1. /\ i \in 1..(Len(Unstarted) + Len(queued))
        /\ PoolWaiting[i] = IF i <= Len(Unstarted) THEN Unstarted[i]
                            ELSE queued[i - Len(Unstarted)]
        /\ Len(Unstarted) \in Nat /\ Len(queued) \in Nat
    <3>1. /\ Unstarted \o queued \in Seq(Tasks)
          /\ Len(Unstarted \o queued) = Len(Unstarted) + Len(queued)
      BY <1>3, ConcatProperties
    <3>2. DOMAIN PoolWaiting = 1..(Len(Unstarted) + Len(queued))
      BY <3>1 DEF PoolWaiting
    <3> QED
      BY <1>3, <3>2, ConcatProperties DEF PoolWaiting
  <2>2. CASE i <= Len(Unstarted)
    <3>1. i \in DOMAIN Unstarted
      BY <1>3, <2>1, <2>2
    <3>2. PICK j \in DOMAIN Parallel : Parallel[j] = r
      BY <3>1, <2>1, <2>2, UnstartedFacts DEF PlacesInv
    <3> QED
      BY <3>2, PlanFacts
  <2>3. CASE ~(i <= Len(Unstarted))
    <3>1. i - Len(Unstarted) \in DOMAIN queued
      BY <1>3, <2>1, <2>3
    <3> QED
      BY <3>1, <2>1, <2>3, <1>2 DEF Untouched, Waiting, Range
  <2> QED
    BY <2>2, <2>3
<1>6. r \notin live \cup PoolFinished /\ PoolFinished' = PoolFinished
  BY <1>1, <1>2 DEF Untouched, PoolFinished
<1> QED
  BY <1>1, <1>4, <1>5, <1>6 DEF Pool!Submit, PoolWaiting, PoolFinished, Unstarted

LEMMA HandleCompleteImplements ==
  ASSUME PlacesInv, HandleComplete, NEW t \in Tasks, t = Head(compl), t \in live,
         UNCHANGED <<started, windingDown>>
  PROVE  Pool!Finish(t)
<1>1. live' = live \ {t} /\ told' = [told EXCEPT ![t] = @ + 1] /\ UNCHANGED queued
  BY DEF HandleComplete, Retired
<1>2. PoolFinished' = PoolFinished \cup {t}
  BY <1>1 DEF PoolFinished, PlacesInv, PlacesTyped
<1>3. PoolWaiting' = PoolWaiting
  BY <1>1 DEF PoolWaiting, Unstarted
<1> QED
  BY <1>1, <1>2, <1>3 DEF Pool!Finish, PoolWaiting, PoolFinished, Unstarted

LEMMA WindDownImplements ==
  ASSUME PlacesInv, WindDown PROVE Pool!Close
<1> USE DEF tallyVars, shutVars, admitVars
<1>1. /\ run = "select" /\ queued' = <<>> /\ windingDown' = TRUE
      /\ UNCHANGED <<live, told, started>>
  BY DEF WindDown
<1>2. ~windingDown /\ started = Len(Parallel)
  BY <1>1 DEF PlacesInv, ControlPoints
<1>3. Unstarted' = <<>>
  BY <1>1, <1>2, UnstartedFacts DEF PlacesInv, Unstarted
<1>4. PoolWaiting' = <<>>
  <2>1. <<>> \in Seq(Tasks) /\ <<>> \o <<>> = <<>>
    BY ConcatEmptySeq
  <2> QED
    BY <1>1, <1>3, <2>1 DEF PoolWaiting
<1>5. PoolFinished' = PoolFinished
  BY <1>1 DEF PoolFinished
<1> QED
  BY <1>1, <1>2, <1>4, <1>5 DEF Pool!Close, PoolWaiting, PoolFinished, Unstarted

-----------------------------------------------------------------------------
LEMMA StepImplementsPool ==
  ASSUME PlacesInv, PlacesInv', SlotsInv, [Next]_vars
  PROVE  [Pool!Next]_(Pool!vars)
<1> USE DEF poolVars, connVars, taskVars, tallyVars, waitVars, admitVars, shutVars
<1>1. ASSUME UNCHANGED <<queued, started, live, told, windingDown>>
      PROVE  UNCHANGED Pool!vars
  BY <1>1, StutterImplements DEF Stutters, PoolWaiting, PoolFinished, Unstarted
<1>2. CASE \E t \in Tasks : TaskStep(t)
  BY <1>1, <1>2 DEF TaskStep, EnterStart, StartWorkers, Report, TaskDone
<1>3. ASSUME NEW r \in Requests, ClientStep(r) PROVE [Pool!Next]_(Pool!vars)
  <2>1. r \in Tasks /\ r \in Admitters
    BY DEF Tasks, Admitters
  <2>2. CASE Enqueue(r)
    BY <2>1, <2>2, EnqueueImplements DEF Pool!Next
  <2>3. CASE ClientAdmits(r) /\ TakeNext(r)
    <3>1. started = Len(Parallel)
      BY KindFacts DEF PlacesInv, PlacesTyped
    <3> QED
      BY <2>3, <3>1, TakeNextImplements DEF ClientAdmits, Pool!Next
  <2>4. CASE ClientAdmits(r) /\ UNCHANGED <<poolVars, held>>
    BY <1>1, <2>4 DEF ClientAdmits
  <2>5. CASE ClientLaunches(r)
    <3>1. live' = live
      BY <2>1, <2>5, LaunchFacts DEF ClientLaunches, PlacesInv, ControlPoints
    <3> QED
      BY <1>1, <2>5, <3>1 DEF ClientLaunches
  <2>6. CASE Refuse(r)
    BY <1>1, <2>6 DEF Refuse
  <2> QED
    BY <1>3, <2>2, <2>3, <2>4, <2>5, <2>6 DEF ClientStep, ClientAdmits
<1>4. CASE RunStep
  <2>1. CASE StartInitial
    BY <2>1, StartInitialImplements DEF Pool!Next
  <2>2. CASE LoopAdmits /\ TakeNext(Loop)
    <3>1. started = Len(Parallel)
      BY <2>2 DEF LoopAdmits, PlacesInv, ControlPoints
    <3> QED
      BY <2>2, <3>1, TakeNextImplements DEF LoopAdmits, Pool!Next
  <2>3. CASE LoopAdmits /\ UNCHANGED <<poolVars, held>>
    BY <1>1, <2>3 DEF LoopAdmits
  <2>4. CASE LoopLaunches
    <3>1. Loop \in Admitters
      BY DEF Admitters
    <3>2. live' = live
      BY <2>4, <3>1, LaunchFacts DEF LoopLaunches, PlacesInv, ControlPoints
    <3> QED
      BY <1>1, <2>4, <3>2 DEF LoopLaunches
  <2>5. CASE Receive \/ Drain \/ (Sweep /\ HandleComplete)
    <3>1. HandleComplete /\ UNCHANGED <<started, client, held, windingDown>>
      BY <2>5 DEF Receive, Drain, Sweep
    <3>2. PICK t \in Tasks : t = Head(compl) /\ t \in live
      BY <3>1, HandleCompletePlaces DEF PlacesInv
    <3>3. Pool!Finish(t)
      BY <3>1, <3>2, HandleCompleteImplements
    <3> QED
      BY <3>3 DEF Pool!Next
  <2>6. CASE Sweep /\ ~HandleComplete
    BY <1>1, <2>6 DEF Sweep
  <2>7. CASE WindDown
    BY <2>7, WindDownImplements DEF Pool!Next
  <2>8. CASE EnterLoop \/ Rebalance \/ Release \/ DrainReturns \/ SeeDone
    BY <1>1, <2>8 DEF EnterLoop, Rebalance, Release, DrainReturns, SeeDone
  <2> QED
    BY <1>4, <2>1, <2>2, <2>3, <2>4, <2>5, <2>6, <2>7, <2>8 DEF RunStep, LoopAdmits
<1>5. CASE WaitBegin \/ WaitEnd \/ Cancel \/ UNCHANGED vars
  BY <1>1, <1>5 DEF WaitBegin, WaitEnd, Cancel, vars
<1> QED
  BY <1>2, <1>3, <1>4, <1>5 DEF Next

LEMMA InitImplementsPool == Init => Pool!Init
<1> SUFFICES ASSUME Init PROVE Pool!Init
  OBVIOUS
<1>1. SubSeq(Parallel, started + 1, Len(Parallel)) = Parallel
  <2>1. Parallel \in Seq(Tasks) /\ started + 1 = 1
    BY PlanFacts DEF Init
  <2> QED
    BY <2>1, SubSeqFull
<1>2. {t \in Tasks : told[t] > 0} = {}
  BY DEF Init
<1> QED
  BY <1>1, <1>2 DEF Init, Pool!Init

\* The scheduler, one-shot or daemon, implements SlotPool: tasks start in the order
\* they were handed over, never above the slots, finish once, and only closing drops
\* tasks, none of which had started.
THEOREM SchedulerImplementsSlotPool == Spec => ImplementsSlotPool
<1>1. Init => SlotsInv
  BY KindAssumption, FS_EmptySet DEF Init, SlotsInv
<1>2. /\ PlacesInv /\ PlacesInv' /\ SlotsInv /\ [Next]_vars
      => [Pool!Next]_(Pool!vars)
  BY StepImplementsPool
<1> QED
  BY <1>1, <1>2, InitImplementsPool, PlacesAlways, NextSlots, PTL
  DEF Spec, ImplementsSlotPool, Pool!Spec
=============================================================================
