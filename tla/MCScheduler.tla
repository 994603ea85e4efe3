---------------------------- MODULE MCScheduler ----------------------------
(* Small instances of Scheduler for TLC: plans of the Balancer.             *)
EXTENDS Scheduler, TLC

CONSTANTS a, b, p, q, r1, r2, r3

None == <<>>

\* Mode B, -c 1: one file at a time.
First == <<a>>
\* Two files at once, two waiting.
Pair == <<a, b>>
Rest == <<p, q>>
One  == <<p>>

OneEach == [t \in Tasks |-> 1]

\* The connections Compute gives the files that start (Pair) and those that
\* wait; "ranged" tells which files of Pair \o rest can use Range.
PlanConns(C, ranged, SF, rest) ==
  LET plan  == Compute(C, ranged, SF, 32)
      files == Pair \o rest
      alloc == plan.parallel \o plan.queued
  IN [t \in Range(files) |-> alloc[CHOOSE i \in DOMAIN files : files[i] = t].conns]

\* Mode C, -c 5 -sf 2 over four files with Range.
SplitFour == PlanConns(5, <<TRUE, TRUE, TRUE, TRUE>>, 2, Rest)
\* Mode C, -c 4 -sf 2 over three files, the first without Range.
SplitThree == PlanConns(4, <<FALSE, TRUE, TRUE>>, 2, One)
=============================================================================
