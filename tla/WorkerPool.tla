----------------------------- MODULE WorkerPool -----------------------------
(***************************************************************************)
(* The worker pool of one download.Task, from the moment Start launches    *)
(* its workers until Start returns (internal/download: task_start.go from  *)
(* line 366, task_io.go, task_pause.go, task_persist.go, AdjustConns of    *)
(* task.go, and the two work queues of chunkqueue.go and engine.go).       *)
(*                                                                         *)
(* Processes: the worker goroutines, Start waiting for them, the RPC       *)
(* handlers that call Pause, Unpause, Cancel and AdjustConns, and the      *)
(* server, whose answer to a request is a nondeterministic choice.  One    *)
(* action is one access to shared memory, or one critical section.         *)
(*                                                                         *)
(* Operators whose name ends in Mut are faulty variants of the operator    *)
(* that follows them; no specification uses them.  They document the bug   *)
(* a property is there to catch.                                           *)
(***************************************************************************)
EXTENDS Integers, Sequences, FiniteSets, Functions

CONSTANTS
  Layout,             \* Layout[e]: the chunks of engine e left to download, in order
  Resumed,            \* chunks a resume found on disk (ResetCompletedOffsets)
  Stealing,           \* engines whose queue is a ChunkQueue; others a StaticQueue
  Workers,            \* goroutine identities (a bound: reused after a worker ends)
  Launched,           \* the workers Start spawns, and the engine each one serves
  Retry,              \* opts.Retry
  CheckpointInterval, \* persistCheckpointInterval
  SaveFails,          \* whether writing or removing the control file may fail
  Rpc,                \* which of "pause" and "cancel" the RPC clients may call
  Adjusters,          \* RPC handlers that may be inside AdjustConns at once
  Targets,            \* connection counts they may ask for
  NoChunk, NoOne

Engines == DOMAIN Layout
Queued0 == UNION {Range(Layout[e]) : e \in Engines}
Chunks  == Resumed \cup Queued0

\* NewChunkQueue and NewStaticQueue cut the file into disjoint chunks; the two
\* regions of the "both" profile are disjoint; a resumed chunk is not queued.
ASSUME LayoutAssumption ==
  /\ Layout \in Seq(Seq(Chunks)) /\ Layout # << >>
  /\ \A e \in Engines : IsInjective(Layout[e])
  /\ \A e, f \in Engines : e # f => Range(Layout[e]) \cap Range(Layout[f]) = {}
  /\ Resumed \cap Queued0 = {}
  /\ IsFiniteSet(Chunks) /\ NoChunk \notin Chunks

\* Every engine is launched with at least one worker (max(1, ...) in Start),
\* and AdjustConns clamps the target it is given to at least 1.
ASSUME PoolAssumption ==
  /\ IsFiniteSet(Workers)
  /\ DOMAIN Launched \subseteq Workers
  /\ Launched \in [DOMAIN Launched -> Engines]
  /\ \A e \in Engines : \E w \in DOMAIN Launched : Launched[w] = e
  /\ Retry \in Nat
  /\ CheckpointInterval \in Nat \ {0}
  /\ SaveFails \in BOOLEAN
  /\ Targets \subseteq Nat \ {0}
  /\ NoOne \notin Adjusters

LaunchConns == Cardinality(DOMAIN Launched)

VARIABLES
  queue,             \* per engine: chunks waiting for a worker
  failed,            \* ChunkQueue.failed: worker-level failures of a chunk
  done,              \* offsets marked done in the queues
  written,           \* chunks whose bytes on disk are complete
  pc, eng, cur,      \* per worker: program point, engine, chunk in hand
  att, noted,        \* per worker: attempt number, whether bytesDone counts it
  seen,              \* per worker: t.conns as retireIfAboveTarget read it
  conns, connTarget, \* t.conns, t.connTarget
  errored,           \* t.errors > 0
  bytesDone,         \* t.bytesDone, in chunks
  state,             \* t.state
  paused, stores,    \* t.paused; state stores Pause and Unpause have yet to make
  ctxDone,           \* the task's context was cancelled from outside
  control, onDisk,   \* chunks the control file lists, and whether it exists
  sincePersist,      \* t.chunksSincePersist
  startPc, result,   \* where Start is, and what it returned
  adjustMu, adjustDone, adj \* adjustMu's owner; per adjuster: point, workers to spawn

hand    == <<cur, att, noted>>
queues  == <<queue, failed, done>>
file    == <<control, onDisk>>
counts  == <<conns, connTarget>>
status  == <<errored, bytesDone, state>>
user    == <<paused, stores, ctxDone>>
start   == <<startPc, result>>
adjust  == <<adjustMu, adjustDone, adj>>
vars == <<pc, eng, seen, hand, queues, written, file, sincePersist, counts, status,
          user, start, adjust>>

-----------------------------------------------------------------------------
\* Program points of a worker, and those at which it has a chunk in hand.
Holding == {"fetch", "io", "backoff", "mark", "permanent", "spent", "ctxerr"}
PcSet   == {"off", "loop", "cas", "gate", "asleep", "pull", "checkpoint",
            "save", "exit"} \cup Holding

Live  == {w \in Workers : pc[w] # "off"}
At(p) == {w \in Workers : pc[w] = p}

\* The deferred cancel() of Start cancels the workers' context as well.
CtxGone == ctxDone \/ startPc = "returned"

Goto(w, p) == pc' = [pc EXCEPT ![w] = p]

\* The deferred wg.Done of worker w: the last one wakes Start's workerWg.Wait.
WgDone(w) ==
  startPc' = IF startPc = "wait" /\ Live = {w} THEN "waited" ELSE startPc

\* persistControl: the control file now lists what the queues have done.  It is
\* replaced by a rename, so when that fails the old one stays.
PersistControlMut ==
  control' = done \cup {cur[w] : w \in {v \in Workers : pc[v] = "io"}} /\ onDisk' = TRUE
PersistControl ==
  \/ control' = done /\ onDisk' = TRUE
  \/ SaveFails /\ UNCHANGED file

\* Worker w ends or puts its chunk down, and forgets the attempt.
Forget(w) ==
  /\ cur'   = [cur EXCEPT ![w] = NoChunk]
  /\ att'   = [att EXCEPT ![w] = 0]
  /\ noted' = [noted EXCEPT ![w] = FALSE]

-----------------------------------------------------------------------------
(* The worker loop.                                                        *)

AboveTarget == conns > connTarget

\* retireIfAboveTarget, first half: compare conns with connTarget.
RetireCheck(w) ==
  /\ pc[w] = "loop"
  /\ IF AboveTarget
       THEN Goto(w, "cas") /\ seen' = [seen EXCEPT ![w] = conns]
       ELSE Goto(w, "gate") /\ UNCHANGED seen
  /\ UNCHANGED <<eng, hand, queues, written, file, sincePersist, counts, status,
                 user, start, adjust>>

\* ... second half: CompareAndSwap on conns; the winner ends.
RetireCas(w) ==
  /\ pc[w] = "cas"
  /\ seen' = [seen EXCEPT ![w] = 0]
  /\ IF conns = seen[w]
       THEN conns' = conns - 1 /\ Goto(w, "off") /\ WgDone(w)
       ELSE Goto(w, "loop") /\ UNCHANGED <<conns, startPc>>
  /\ UNCHANGED <<eng, hand, queues, written, file, sincePersist, connTarget, status,
                 user, result, adjust>>

\* pauseGate (sleep on the current pauseC while paused) and the ctx check.
PauseGate(w) ==
  /\ pc[w] = "gate"
  /\ Goto(w, IF CtxGone THEN "exit" ELSE IF paused THEN "asleep" ELSE "pull")
  /\ UNCHANGED <<eng, seen, hand, queues, written, file, sincePersist, counts,
                 status, user, start, adjust>>

\* A worker asleep on pauseC also wakes when its context is cancelled.
WakeOnCancelMut(w) == FALSE
WakeOnCancel(w) ==
  /\ pc[w] = "asleep" /\ CtxGone
  /\ Goto(w, "exit")
  /\ UNCHANGED <<eng, seen, hand, queues, written, file, sincePersist, counts,
                 status, user, start, adjust>>

\* What Next leaves in the queue.
AfterNextMut(q) == q
AfterNext(q)    == Tail(q)

\* Next of the engine's queue: its first chunk, or the worker leaves.
NextChunk(w) ==
  /\ pc[w] = "pull"
  /\ IF queue[eng[w]] = << >>
       THEN Goto(w, "exit") /\ UNCHANGED <<cur, queue>>
       ELSE /\ cur' = [cur EXCEPT ![w] = Head(queue[eng[w]])]
            /\ queue' = [queue EXCEPT ![eng[w]] = AfterNext(@)]
            /\ Goto(w, "fetch")
  /\ UNCHANGED <<eng, seen, att, noted, failed, done, written, file, sincePersist,
                 counts, status, user, start, adjust>>

\* The deferred decrement of conns, guarded against underflow.
ConnsAfterExitMut == conns - 1
ConnsKeptMut      == conns
ConnsAfterExit    == IF conns > 0 THEN conns - 1 ELSE conns

Exit(w) ==
  /\ pc[w] = "exit"
  /\ conns' = ConnsAfterExit
  /\ Goto(w, "off") /\ WgDone(w)
  /\ UNCHANGED <<eng, seen, hand, queues, written, file, sincePersist, connTarget,
                 status, user, result, adjust>>

-----------------------------------------------------------------------------
(* downloadChunk: up to Retry+1 attempts at one chunk.                     *)

\* An attempt begins: the state is stored and the request is sent.
BeginAttempt(w) ==
  /\ pc[w] = "fetch"
  /\ state' = "active" /\ Goto(w, "io")
  /\ UNCHANGED <<eng, seen, hand, queues, written, file, sincePersist, counts,
                 errored, bytesDone, user, start, adjust>>

\* Bytes arrive and are written over whatever the file holds at that offset;
\* noteBytes counts them.  The file is closed once Start has returned.
WriteBytes(w) ==
  /\ pc[w] = "io" /\ ~noted[w] /\ startPc # "returned"
  /\ written' = written \ {cur[w]}
  /\ noted' = [noted EXCEPT ![w] = TRUE]
  /\ bytesDone' = bytesDone + 1
  /\ UNCHANGED <<pc, eng, seen, cur, att, queues, file, sincePersist, counts,
                 errored, state, user, start, adjust>>

\* The whole chunk arrived.
AttemptOk(w) ==
  /\ pc[w] = "io" /\ noted[w] /\ startPc # "returned"
  /\ written' = written \cup {cur[w]}
  /\ Goto(w, "mark")
  /\ UNCHANGED <<eng, seen, hand, queues, file, sincePersist, counts, status, user,
                 start, adjust>>

\* bytesDone after an attempt of w failed: what it had counted is taken back.
RolledBackMut(w) == bytesDone
RolledBack(w)    == bytesDone - (IF noted[w] THEN 1 ELSE 0)

\* A failed attempt is retried after a backoff until Retry is used up
\* ("spent"); a permanent failure is not.  A cancelled context ends it as is.
AttemptFails(w) ==
  /\ pc[w] = "io"
  /\ IF CtxGone
       THEN Goto(w, "ctxerr") /\ UNCHANGED <<att, noted, bytesDone, state>>
       ELSE /\ bytesDone' = RolledBack(w)
            /\ noted' = [noted EXCEPT ![w] = FALSE]
            /\ \/ /\ att[w] < Retry
                  /\ att' = [att EXCEPT ![w] = @ + 1]
                  /\ state' = "retrying" /\ Goto(w, "backoff")
               \/ /\ att[w] = Retry
                  /\ Goto(w, "spent") /\ UNCHANGED <<att, state>>
               \/ Goto(w, "permanent") /\ UNCHANGED <<att, state>>
  /\ UNCHANGED <<eng, seen, cur, queues, written, file, sincePersist, counts,
                 errored, user, start, adjust>>

\* The backoff sleep ends, by its timer or by cancellation.
Backoff(w) ==
  /\ pc[w] = "backoff"
  /\ Goto(w, "fetch") \/ (CtxGone /\ Goto(w, "ctxerr"))
  /\ UNCHANGED <<eng, seen, hand, queues, written, file, sincePersist, counts,
                 status, user, start, adjust>>

-----------------------------------------------------------------------------
(* The worker after downloadChunk.                                         *)

\* An error under a cancelled context: count it, persist, leave.
CtxError(w) ==
  /\ pc[w] \in {"ctxerr", "permanent", "spent"} /\ CtxGone
  /\ errored' = TRUE
  /\ PersistControl
  /\ Forget(w) /\ Goto(w, "exit")
  /\ UNCHANGED <<eng, seen, queues, written, sincePersist, counts, bytesDone, state,
                 user, start, adjust>>

\* Requeue: a ChunkQueue takes the chunk back at its end, Retry times at most;
\* a StaticQueue never does.
CanRequeue(w) == eng[w] \in Stealing /\ failed[cur[w]] < Retry

\* The queue after Requeue.
RequeuedMut(q, c) == q
Requeued(q, c)    == Append(q, c)

RequeueChunk(w) ==
  /\ pc[w] = "spent" /\ ~CtxGone /\ CanRequeue(w)
  /\ failed' = [failed EXCEPT ![cur[w]] = @ + 1]
  /\ queue' = [queue EXCEPT ![eng[w]] = Requeued(@, cur[w])]
  /\ Forget(w) /\ Goto(w, "loop")
  /\ UNCHANGED <<eng, seen, done, written, file, sincePersist, counts, status, user,
                 start, adjust>>

\* The chunk is lost to this run: the task fails and the worker leaves.
FailChunk(w) ==
  /\ ~CtxGone
  /\ \/ pc[w] = "permanent" /\ UNCHANGED failed
     \/ /\ pc[w] = "spent" /\ ~CanRequeue(w)
        /\ failed' = IF eng[w] \in Stealing
                       THEN [failed EXCEPT ![cur[w]] = @ + 1] ELSE failed
  /\ errored' = TRUE /\ state' = "error"
  /\ Forget(w) /\ Goto(w, "exit")
  /\ UNCHANGED <<eng, seen, queue, done, written, file, sincePersist, counts,
                 bytesDone, user, start, adjust>>

MarkDone(w) ==
  /\ pc[w] = "mark"
  /\ done' = done \cup {cur[w]}
  /\ Forget(w) /\ Goto(w, "checkpoint")
  /\ UNCHANGED <<eng, seen, queue, failed, written, file, sincePersist, counts,
                 status, user, start, adjust>>

CheckpointDueMut == sincePersist >= CheckpointInterval
CheckpointDue    == sincePersist + 1 >= CheckpointInterval

\* checkpoint: persist every CheckpointInterval chunks, or when enough time
\* has passed since the last write (a choice here).
Checkpoint(w) ==
  /\ pc[w] = "checkpoint"
  /\ IF CheckpointDue
       THEN sincePersist' = 0 /\ Goto(w, "save")
       ELSE /\ sincePersist' = sincePersist + 1
            /\ \E p \in {"save", "loop"} : Goto(w, p)
  /\ UNCHANGED <<eng, seen, hand, queues, written, file, counts, status, user, start,
                 adjust>>

SaveCheckpoint(w) ==
  /\ pc[w] = "save"
  /\ PersistControl
  /\ Goto(w, "loop")
  /\ UNCHANGED <<eng, seen, hand, queues, written, sincePersist, counts, status,
                 user, start, adjust>>

WorkerStep(w) ==
  \/ RetireCheck(w) \/ RetireCas(w) \/ PauseGate(w) \/ WakeOnCancel(w)
  \/ NextChunk(w) \/ Exit(w)
  \/ BeginAttempt(w) \/ WriteBytes(w) \/ AttemptOk(w) \/ AttemptFails(w)
  \/ Backoff(w) \/ CtxError(w) \/ RequeueChunk(w) \/ FailChunk(w)
  \/ MarkDone(w) \/ Checkpoint(w) \/ SaveCheckpoint(w)

-----------------------------------------------------------------------------
(* Start, after workerWg.Wait.                                             *)

\* adjustDone is set under adjustMu, so AdjustConns spawns no worker later.
CloseAdjust ==
  /\ startPc = "waited" /\ adjustMu = NoOne
  /\ adjustDone' = TRUE /\ startPc' = "decide"
  /\ UNCHANGED <<pc, eng, seen, hand, queues, written, file, sincePersist, counts,
                 status, user, result, adjustMu, adj>>

Return(r) == startPc' = "returned" /\ result' = r

\* Cancelled: painted as paused, persisted for --continue.
EndCancelled ==
  /\ startPc = "decide" /\ ctxDone
  /\ state' = "paused" /\ PersistControl /\ Return("cancelled")
  /\ UNCHANGED <<pc, eng, seen, hand, queues, written, sincePersist, counts, errored,
                 bytesDone, user, adjust>>

EndFailedMut ==
  /\ startPc = "decide" /\ ~ctxDone /\ errored
  /\ state' = "error" /\ UNCHANGED file /\ Return("error")
  /\ UNCHANGED <<pc, eng, seen, hand, queues, written, sincePersist, counts, errored,
                 bytesDone, user, adjust>>
EndFailed ==
  /\ startPc = "decide" /\ ~ctxDone /\ errored
  /\ state' = "error" /\ PersistControl /\ Return("error")
  /\ UNCHANGED <<pc, eng, seen, hand, queues, written, sincePersist, counts, errored,
                 bytesDone, user, adjust>>

DeclareComplete ==
  /\ startPc = "decide" /\ ~ctxDone /\ ~errored
  /\ state' = "completed" /\ startPc' = "verify"
  /\ UNCHANGED <<pc, eng, seen, hand, queues, written, file, sincePersist, counts,
                 errored, bytesDone, user, result, adjust>>

\* verifyChecksum reads the whole file; its digest may not be the one asked for.
VerifyChecksum ==
  /\ startPc = "verify"
  /\ \/ startPc' = "finish" /\ UNCHANGED <<state, file, result>>
     \/ state' = "error" /\ PersistControl /\ Return("error")
  /\ UNCHANGED <<pc, eng, seen, hand, queues, written, sincePersist, counts, errored,
                 bytesDone, user, adjust>>

\* finish: the control file goes if the state still says completed.
Finish ==
  /\ startPc = "finish"
  /\ Return("completed")
  /\ IF state = "completed"
       THEN (onDisk' = FALSE /\ control' = {}) \/ (SaveFails /\ UNCHANGED file)
       ELSE PersistControl
  /\ UNCHANGED <<pc, eng, seen, hand, queues, written, sincePersist, counts, status,
                 user, adjust>>

StartStep ==
  CloseAdjust \/ EndCancelled \/ EndFailed \/ DeclareComplete \/ VerifyChecksum \/ Finish

-----------------------------------------------------------------------------
(* The RPC handlers.                                                       *)

Pause ==
  /\ "pause" \in Rpc
  /\ paused' = TRUE /\ stores' = stores \cup {"paused"}
  /\ UNCHANGED <<pc, eng, seen, hand, queues, written, file, sincePersist, counts,
                 status, ctxDone, start, adjust>>

\* The workers that closing pauseC wakes: all that sleep on it.
WokenMut == IF At("asleep") = {} THEN {} ELSE {CHOOSE w \in Workers : pc[w] = "asleep"}
Woken    == At("asleep")

Unpause ==
  /\ "pause" \in Rpc
  /\ paused' = FALSE /\ stores' = stores \cup {"active"}
  /\ pc' = [w \in Workers |-> IF paused /\ w \in Woken THEN "gate" ELSE pc[w]]
  /\ UNCHANGED <<eng, seen, hand, queues, written, file, sincePersist, counts, status,
                 ctxDone, start, adjust>>

\* The state store of Pause and Unpause comes after their critical section.
StoreState(s) ==
  /\ s \in stores
  /\ stores' = stores \ {s} /\ state' = s
  /\ UNCHANGED <<pc, eng, seen, hand, queues, written, file, sincePersist, counts,
                 errored, bytesDone, paused, ctxDone, start, adjust>>

Cancel ==
  /\ "cancel" \in Rpc /\ ~ctxDone
  /\ ctxDone' = TRUE
  /\ UNCHANGED <<pc, eng, seen, hand, queues, written, file, sincePersist, counts,
                 status, paused, stores, start, adjust>>

Idle == [pc |-> "idle", left |-> 0]

\* AdjustConns: swap the target; a larger one needs more workers.
AdjustConns(a, target) ==
  /\ adj[a] = Idle
  /\ connTarget' = target
  /\ adj' = IF target <= connTarget THEN adj
            ELSE [adj EXCEPT ![a] = [pc |-> "lock", left |-> target - connTarget]]
  /\ UNCHANGED <<pc, eng, seen, hand, queues, written, file, sincePersist, conns,
                 status, user, start, adjustMu, adjustDone>>

AdjustLock(a) ==
  /\ adj[a].pc = "lock" /\ adjustMu = NoOne
  /\ IF adjustDone
       THEN adj' = [adj EXCEPT ![a] = Idle] /\ UNCHANGED adjustMu
       ELSE adj' = [adj EXCEPT ![a].pc = "spawn"] /\ adjustMu' = a
  /\ UNCHANGED <<pc, eng, seen, hand, queues, written, file, sincePersist, counts,
                 status, user, start, adjustDone>>

\* One worker more, always on the first engine, and not counted in conns.
SpawnWorker(a, w) ==
  /\ adj[a].pc = "spawn" /\ pc[w] = "off"
  /\ Goto(w, "loop")
  /\ eng' = [eng EXCEPT ![w] = 1]
  /\ IF adj[a].left = 1
       THEN adj' = [adj EXCEPT ![a] = Idle] /\ adjustMu' = NoOne
       ELSE adj' = [adj EXCEPT ![a].left = @ - 1] /\ UNCHANGED adjustMu
  /\ UNCHANGED <<seen, hand, queues, written, file, sincePersist, counts, status,
                 user, start, adjustDone>>

AdjustStep(a) ==
  \/ \E target \in Targets : AdjustConns(a, target)
  \/ AdjustLock(a)
  \/ \E w \in Workers : SpawnWorker(a, w)

UserStep == Pause \/ Unpause \/ Cancel \/ \E s \in {"paused", "active"} : StoreState(s)

-----------------------------------------------------------------------------
Init ==
  /\ queue = Layout
  /\ failed = [c \in Chunks |-> 0]
  /\ done = Resumed /\ written = Resumed /\ bytesDone = Cardinality(Resumed)
  /\ pc = [w \in Workers |-> IF w \in DOMAIN Launched THEN "loop" ELSE "off"]
  /\ eng = [w \in Workers |-> IF w \in DOMAIN Launched THEN Launched[w] ELSE 1]
  /\ cur = [w \in Workers |-> NoChunk]
  /\ att = [w \in Workers |-> 0]
  /\ noted = [w \in Workers |-> FALSE]
  /\ seen = [w \in Workers |-> 0]
  /\ conns = LaunchConns /\ connTarget = LaunchConns
  /\ errored = FALSE
  /\ paused \in BOOLEAN /\ (paused => "pause" \in Rpc)  \* or while it was queued
  /\ stores = {} /\ state = "active" /\ ctxDone = FALSE
  /\ control = Resumed /\ sincePersist = 0
  /\ onDisk \in BOOLEAN /\ (~onDisk => SaveFails /\ Resumed = {})
  /\ startPc = "wait" /\ result = "none"
  /\ adjustMu = NoOne /\ adjustDone = FALSE
  /\ adj = [a \in Adjusters |-> Idle]

Next ==
  \/ \E w \in Workers : WorkerStep(w)
  \/ StartStep
  \/ UserStep
  \/ \E a \in Adjusters : AdjustStep(a)

Spec == Init /\ [][Next]_vars

(* Fairness.  A worker goroutine that can run is run; a request ends, at the
   latest by its timeout (chunkTimeoutCtx), and a backoff by its timer; Start
   and a handler inside AdjustConns are goroutines too.  Nobody is obliged to
   unpause, cancel or adjust anything.                                     *)
Fairness ==
  /\ \A w \in Workers : WF_vars(WorkerStep(w))
  /\ WF_vars(StartStep)
  /\ \A a \in Adjusters :
       WF_vars(AdjustLock(a) \/ \E w \in Workers : SpawnWorker(a, w))

FairSpec == Spec /\ Fairness

-----------------------------------------------------------------------------
(* Properties.                                                             *)

QueuesOK ==
  /\ queue \in [Engines -> Seq(Chunks)]
  /\ failed \in [Chunks -> Nat]
  /\ done \in SUBSET Chunks

HandOK ==
  /\ cur \in [Workers -> Chunks \cup {NoChunk}]
  /\ att \in [Workers -> 0..Retry]
  /\ noted \in [Workers -> BOOLEAN]
  /\ \A w \in Workers : pc[w] \in Holding <=> cur[w] # NoChunk

WorkersOK ==
  /\ pc \in [Workers -> PcSet]
  /\ eng \in [Workers -> Engines]
  /\ seen \in [Workers -> Nat]
  /\ \A w \in Workers : pc[w] = "cas" => seen[w] # 0

FileOK ==
  /\ written \in SUBSET Chunks /\ control \in SUBSET Chunks
  /\ onDisk \in BOOLEAN /\ sincePersist \in Nat

StatusOK ==
  /\ conns \in Nat /\ connTarget \in Nat
  /\ errored \in BOOLEAN /\ bytesDone \in Int
  /\ state \in {"active", "paused", "retrying", "completed", "error"}
  /\ paused \in BOOLEAN /\ ctxDone \in BOOLEAN
  /\ stores \in SUBSET {"paused", "active"}
  /\ startPc \in {"wait", "waited", "decide", "verify", "finish", "returned"}
  /\ result \in {"none", "completed", "error", "cancelled"}

AdjustOK ==
  /\ adjustMu \in Adjusters \cup {NoOne} /\ adjustDone \in BOOLEAN
  /\ adj \in [Adjusters -> [pc : {"idle", "lock", "spawn"}, left : Nat]]
  /\ \A a \in Adjusters : adj[a].pc # "idle" => adj[a].left # 0

\* Every variable keeps its type; a worker has a chunk in hand exactly at the
\* program points of Holding, and the decrements below stay within Nat.
TypeOK == QueuesOK /\ HandOK /\ WorkersOK /\ FileOK /\ StatusOK /\ AdjustOK

Held    == {cur[w] : w \in {v \in Workers : pc[v] \in Holding}}
Waiting == UNION {Range(queue[e]) : e \in Engines}

\* WriteAt runs without a lock because no two workers ever write the same
\* chunk and nobody writes a chunk that is already done (storage/file.go); this
\* needs every chunk to be in at most one place: one slot of one queue, one
\* worker's hand, or done.
DisjointWrites ==
  /\ \A e \in Engines : IsInjective(queue[e])
  /\ \A e, f \in Engines : e # f => Range(queue[e]) \cap Range(queue[f]) = {}
  /\ \A v, w \in Workers :
       pc[v] \in Holding /\ pc[w] \in Holding /\ v # w => cur[v] # cur[w]
  /\ Waiting \cap Held = {} /\ Waiting \cap done = {} /\ Held \cap done = {}

\* A chunk never disappears silently: it is waiting, in hand or done, or the
\* task has counted an error and will not report success.
NothingLost == Chunks \subseteq Waiting \cup Held \cup done \/ errored

\* Start takes the success path only over a whole file: no chunk is missing
\* when it declares the task completed, drops the control file and returns nil.
CompletedIsWhole ==
  startPc \in {"verify", "finish"} \/ result = "completed" =>
    done = Chunks /\ written = Chunks

\* What the control file vouches for is really on disk, at every moment a kill
\* could leave it for the next run to resume from.
ControlTruth == onDisk => control \subseteq done /\ done \subseteq written

\* How much a kill can cost (task_persist.go:52-66): once there is a control
\* file, fewer than CheckpointInterval done chunks are missing from it, besides
\* those whose worker is about to be counted and one interval for each worker
\* about to save.
CheckpointLag ==
  onDisk =>
    Cardinality(done \ control) <
      CheckpointInterval + Cardinality(At("checkpoint"))
        + CheckpointInterval * Cardinality(At("save"))

\* bytesDone is honest until a cancellation: done chunks plus the bytes of the
\* attempts under way, so a retried chunk is never counted twice and the
\* progress never passes the total.
BytesHonest ==
  ~CtxGone => bytesDone = Cardinality(done) + Cardinality({w \in Workers : noted[w]})

\* The drain never counts more connections than there are workers: a retiring
\* worker (conns above a target of at least 1) is never the last one.
DrainSafe == conns <= Cardinality(Live)

\* A cancelled task returns, paused or not.
CancelStops == ctxDone ~> startPc = "returned"

\* A task that is not left paused returns, whatever the server answers.
UnpausedReturns == <>[](~paused) => <>(startPc = "returned")

\* As long as no worker joins late (no AdjustConns), the pool does what a run
\* of Start promises: chunks, control file and outcome evolve as Download says,
\* and nothing changes after the outcome.
Contract == INSTANCE Download
ImplementsDownload == Contract!Spec
=============================================================================
