----------------------------- MODULE MCBalancer -----------------------------
(***************************************************************************)
(* The Balancer over every small batch: a batch is planned (Compute), then *)
(* any tasks that can be live together under that plan are rebalanced      *)
(* (RebalanceTargets).  The properties relate the two.                     *)
(***************************************************************************)
EXTENDS Balancer, TLC

CONSTANTS
  MaxBudget,   \* bound: the largest -c
  MaxFiles     \* bound: the most URLs in a batch

ASSUME BatchAssumption == MaxBudget \in Nat /\ MaxFiles \in Nat

VARIABLES
  batch,    \* the input of Compute: C, ranged, SF, max
  plan,     \* its result, <<>> before
  capable,  \* which of the live tasks can use Range, in the order of their ids
  targets   \* what the rebalancing gives them
vars == <<batch, plan, capable, targets>>

\* Options.Validate lets through no SF above C.
Batches ==
  {b \in [C : 1..MaxBudget, ranged : UNION {[1..n -> BOOLEAN] : n \in 1..MaxFiles},
          SF : 0..MaxBudget, max : 1..MaxBudget] : b.SF <= b.C}

Init ==
  /\ batch \in Batches
  /\ plan = <<>> /\ capable = <<>> /\ targets = <<>>

Plan ==
  /\ plan = <<>>
  /\ plan' = Compute(batch.C, batch.ranged, batch.SF, batch.max)
  /\ UNCHANGED <<batch, capable, targets>>

\* Any tasks may be live, never more than started in parallel.
Rebalance ==
  /\ plan # <<>> /\ plan.rebalance /\ capable = <<>>
  /\ \E n \in 1..Len(plan.parallel) : capable' \in [1..n -> BOOLEAN]
  /\ targets' = RebalanceTargets(capable', plan.budget)
  /\ UNCHANGED <<batch, plan>>

Next == Plan \/ Rebalance
Spec == Init /\ [][Next]_vars

-----------------------------------------------------------------------------
Planned == plan # <<>>
Conns(allocs) == [i \in DOMAIN allocs |-> allocs[i].conns]

\* The plan never allocates more connections than -c allows, and in split-file
\* mode it leaves none unused while a file that started can use Range
\* (balancer.go:141-219).
BudgetSpentExactly ==
  /\ Total(Conns(plan.parallel)) <= batch.C
  /\ plan.rebalance /\ (\E i \in DOMAIN plan.parallel : plan.parallel[i].range)
       => Total(Conns(plan.parallel)) = batch.C

\* Every URL is planned exactly once, in the order given: the files that start
\* first, then the queue (balancer.go:144-160, 199-218).
EveryFileOnce ==
  LET all == plan.parallel \o plan.queued
  IN /\ plan.parallel # <<>>
     /\ [i \in DOMAIN all |-> all[i].file] = [i \in DOMAIN batch.ranged |-> i]

\* A file without Range never gets a second connection, not even one freed by
\* another such file, and a file with Range never fewer than it was promised
\* (balancer.go:188-197).
RangeDecidesConnections ==
  \A i \in DOMAIN plan.parallel :
    LET a == plan.parallel[i]
    IN IF ~a.range THEN a.conns = 1
       ELSE a.conns >= (IF plan.rebalance THEN batch.SF ELSE 1)

\* The two round-robins start from the front: of two files with Range the
\* earlier never gets fewer connections, and at most two more (one for the
\* remainder, one for what other files gave back; balancer.go:183-197).
FrontLoaded ==
  \A i, j \in DOMAIN plan.parallel :
    i < j /\ plan.parallel[i].range /\ plan.parallel[j].range =>
      /\ plan.parallel[j].conns <= plan.parallel[i].conns
      /\ plan.parallel[i].conns <= plan.parallel[j].conns + 2

\* The plan of every batch: the four parts above (balancer.go:56-223).
PlanIsSound ==
  Planned => BudgetSpentExactly /\ EveryFileOnce /\ RangeDecidesConnections /\ FrontLoaded

\* Rebalancing spends exactly the budget if any live task can use more than one
\* connection, and shares it evenly (rebalance.go:24-50).
TargetsSpendBudget ==
  /\ Total(targets) <= plan.budget
  /\ (\E i \in DOMAIN capable : capable[i]) => Total(targets) = plan.budget
  /\ \A i, j \in DOMAIN targets :
       i < j /\ capable[i] /\ capable[j] => targets[i] \in {targets[j], targets[j] + 1}

\* However tasks come and go, rebalancing never takes a task that can use Range
\* below the SF connections it was admitted with (balancer.go:208-215 promises
\* SF to queued files; rebalance.go:47-50 sets their targets).
PromiseKept ==
  \A i \in DOMAIN targets :
    targets[i] >= (IF capable[i] THEN batch.SF ELSE 1)

\* Every rebalancing: the two parts above (rebalance.go:19-50).
RebalanceIsSound == targets # <<>> => TargetsSpendBudget /\ PromiseKept
=============================================================================
