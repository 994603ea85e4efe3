---------------------------- MODULE MCWorkerPool ----------------------------
(* Small instances of WorkerPool for TLC: the layouts of the profiles.      *)
EXTENDS WorkerPool, TLC

CONSTANTS c1, c2, c3, w1, w2, w3

OneChunk   == << <<c1>> >>
OneEngine  == << <<c1, c2>> >>            \* odm or aria2c: one queue

TwoWorkers == (w1 :> 1) @@ (w2 :> 1)

\* Workers launched on the same engine are interchangeable.
LaunchedOnly == Permutations({w1, w2})
=============================================================================
