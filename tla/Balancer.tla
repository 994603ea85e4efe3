------------------------------ MODULE Balancer ------------------------------
(***************************************************************************)
(* The Connection Balancer of ODM (scheduler/balancer.go) and the runtime  *)
(* allocator rebalanceTargets (scheduler/rebalance.go): pure functions     *)
(* from a connection budget and the files' range support to connections    *)
(* per file.  A file is its position in the batch; "ranged" is the         *)
(* sequence of its files' SupportsRange flags.                             *)
(*                                                                         *)
(* Operators whose name ends in Mut are faulty variants of the operator    *)
(* that follows them.  They are used nowhere here.                         *)
(***************************************************************************)
EXTENDS Naturals, Sequences, SequencesExt, FiniteSetsExt

Least(a, b) == IF a < b THEN a ELSE b
Most(a, b)  == IF a < b THEN b ELSE a

\* The positions of a sequence of flags that hold the given value, in order.
Where(flags, v) ==
  LET S == {i \in DOMAIN flags : flags[i] = v}
  IN CHOOSE s \in [1..Cardinality(S) -> S] : \A j, k \in DOMAIN s : j < k => s[j] < s[k]

Total(conns) == FoldSeq(+, 0, conns)

\* An Allocation: the file, its connections, whether it supports Range.
Alloc(i, conns, range) == [file |-> i, conns |-> conns, range |-> range]

-----------------------------------------------------------------------------
(* Mutant of Distribute: a single round.                                    *)
DistributeMut(conns, budget, skip) ==
  LET open == Where(skip, FALSE)
      first == {open[j] : j \in 1..Least(budget, Len(open))}
  IN [i \in DOMAIN conns |-> IF i \in first THEN conns[i] + 1 ELSE conns[i]]

(* Hand out budget connections one at a time, round-robin from the front,   *)
(* to the slots that are not skipped.                                       *)
Distribute(conns, budget, skip) ==
  LET open == Where(skip, FALSE)
      turn(n) == open[((n - 1) % Len(open)) + 1]
      after[n \in 0..budget] ==
        IF n = 0 THEN conns ELSE [after[n - 1] EXCEPT ![turn(n)] = @ + 1]
  IN IF open = <<>> \/ budget <= 0 THEN conns ELSE after[budget]

\* One file: the budget up to the ceiling, or a single stream.
ModeA(C, ranged, max) ==
  [parallel |-> << Alloc(1, IF ranged[1] THEN Least(C, max) ELSE 1, ranged[1]) >>,
   queued   |-> <<>>]

\* Several files at one connection each; C says how many run at once.
ModeB(C, ranged, max) ==
  LET slot == Least(C, Least(Len(ranged), max))
      plan == [i \in DOMAIN ranged |-> Alloc(i, 1, ranged[i])]
  IN [parallel |-> SubSeq(plan, 1, slot),
      queued   |-> SubSeq(plan, slot + 1, Len(plan))]

\* The files of Mode C that run at once.
ParallelFiles(C, ranged, SF, max) ==
  Most(1, Least(C \div SF, Least(Len(ranged), max)))

(* Several files at SF connections each: the remainder goes to the first    *)
(* files, then what a file without Range gives back goes to the others.     *)
ModeC(C, ranged, SF, max) ==
  LET n        == ParallelFiles(C, ranged, SF, max)
      nonRange == [i \in 1..n |-> ~ranged[i]]
      base     == [i \in 1..n |-> SF]
      dealt    == Distribute(base, C - n * SF, nonRange)
      capped   == [i \in 1..n |-> IF nonRange[i] THEN 1 ELSE dealt[i]]
      conns    == Distribute(capped, Total(dealt) - Total(capped), nonRange)
      waiting  == [i \in DOMAIN ranged |-> Alloc(i, IF ranged[i] THEN SF ELSE 1, ranged[i])]
  IN [parallel |-> [i \in 1..n |-> Alloc(i, conns[i], ranged[i])],
      queued   |-> SubSeq(waiting, n + 1, Len(waiting))]

\* The three modes; the budget metadata the live scheduler uses comes with them.
Compute(C, ranged, SF, max) ==
  LET plan == IF Len(ranged) = 1 THEN ModeA(C, ranged, max)
              ELSE IF SF = 0 THEN ModeB(C, ranged, max)
              ELSE ModeC(C, ranged, SF, max)
  IN [parallel |-> plan.parallel, queued |-> plan.queued, budget |-> C,
      rebalance |-> Len(ranged) # 1 /\ SF # 0]

\* Inputs Compute rejects (SF is ignored for a single file).
Refused(C, ranged, SF) == ranged = <<>> \/ C < 1 \/ (Len(ranged) # 1 /\ SF > C)

-----------------------------------------------------------------------------
(* Mutant of RebalanceTargets: the one connection of every task is counted   *)
(* twice.                                                                   *)
RebalanceTargetsMut(capable, budget) ==
  LET n     == Len(capable)
      open  == Where(capable, TRUE)
      share(i) == CHOOSE j \in DOMAIN open : open[j] = i
      extra(i) == budget \div Len(open) + (IF share(i) <= budget % Len(open) THEN 1 ELSE 0)
  IN [i \in 1..n |-> IF budget < n THEN 0
                     ELSE IF capable[i] THEN extra(i) ELSE 1]

(* The targets of the live tasks, in the order of their ids: one each, the   *)
(* rest shared evenly by the tasks that can use Range, the first ones       *)
(* taking the remainder; all 0 if the budget does not reach.                *)
RebalanceTargets(capable, budget) ==
  LET n     == Len(capable)
      open  == Where(capable, TRUE)
      rest  == budget - n
      share(i) == CHOOSE j \in DOMAIN open : open[j] = i
      extra(i) == rest \div Len(open) + (IF share(i) <= rest % Len(open) THEN 1 ELSE 0)
  IN [i \in 1..n |-> IF budget < n THEN 0
                     ELSE IF capable[i] THEN 1 + extra(i) ELSE 1]
=============================================================================
