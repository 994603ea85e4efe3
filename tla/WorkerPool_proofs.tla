------------------------ MODULE WorkerPool_proofs -------------------------
(***************************************************************************)
(* The worker pool, for every layout of the file, any number of workers and*)
(* adjusters, and any parameters.  Its types; where the chunks are: no two *)
(* workers ever write the same chunk, no chunk disappears, and the control *)
(* file never vouches for a chunk that is not on disk; the connection      *)
(* count, which never exceeds the workers; and what a run of Start counts  *)
(* and how it ends.  The bytes it shows are those of the chunks that count,*)
(* a kill loses boundedly many chunks, and as long as AdjustConns is never *)
(* asked for fewer connections than were launched, no worker retires early,*)
(* every queue that still has chunks has a worker that will look at it, and*)
(* success is declared over a whole file only.  Without that hypothesis    *)
(* this last statement is false: see the run pool_hole.                    *)
(***************************************************************************)
EXTENDS WorkerPool, DataLemmas, FiniteSetTheorems

-----------------------------------------------------------------------------
(* The initial states.                                                     *)

LEMMA InitType == Init => TypeOK
<1> SUFFICES ASSUME Init PROVE TypeOK
  OBVIOUS
<1> USE LayoutAssumption, PoolAssumption
<1>1. 1 \in Engines
  BY DEF Engines
<1>2. Layout \in [Engines -> Seq(Chunks)]
  BY DEF Engines
<1>3. LaunchConns \in Nat
  BY FS_Subset, FS_CardinalityType DEF LaunchConns
<1>4. Cardinality(Resumed) \in Nat
  BY FS_Subset, FS_CardinalityType DEF Chunks
<1>5. QueuesOK
  BY <1>2 DEF Init, QueuesOK, Chunks
<1>6. HandOK
  BY DEF Init, HandOK, Holding
<1>7. WorkersOK
  BY <1>1 DEF Init, WorkersOK, PcSet
<1>8. FileOK
  BY DEF Init, FileOK, Chunks
<1>9. StatusOK
  <2>1. conns \in Nat /\ connTarget \in Nat /\ bytesDone \in Int
    BY <1>3, <1>4 DEF Init
  <2>2. /\ errored \in BOOLEAN /\ ctxDone \in BOOLEAN /\ paused \in BOOLEAN
        /\ stores \in SUBSET {"paused", "active"}
    BY Zenon DEF Init
  <2>3. /\ state = "active" /\ startPc = "wait" /\ result = "none"
    BY DEF Init
  <2> QED
    BY <2>1, <2>2, <2>3 DEF StatusOK
<1>10. AdjustOK
  BY DEF Init, AdjustOK, Idle
<1> QED
  BY <1>5, <1>6, <1>7, <1>8, <1>9, <1>10 DEF TypeOK

-----------------------------------------------------------------------------
(* What a step leaves alone keeps its type, and the common kinds of step    *)
(* keep the types of what they change.                                      *)

LEMMA Frame ==
  /\ QueuesOK /\ UNCHANGED queues => QueuesOK'
  /\ HandOK /\ UNCHANGED <<pc, hand>> => HandOK'
  /\ WorkersOK /\ UNCHANGED <<pc, eng, seen>> => WorkersOK'
  /\ FileOK /\ UNCHANGED <<written, file, sincePersist>> => FileOK'
  /\ StatusOK /\ UNCHANGED <<counts, status, user, start>> => StatusOK'
  /\ AdjustOK /\ UNCHANGED adjust => AdjustOK'
<1>1. QueuesOK /\ UNCHANGED queues => QueuesOK'
  BY DEF QueuesOK, queues
<1>2. HandOK /\ UNCHANGED <<pc, hand>> => HandOK'
  BY DEF HandOK, hand
<1>3. WorkersOK /\ UNCHANGED <<pc, eng, seen>> => WorkersOK'
  BY DEF WorkersOK
<1>4. FileOK /\ UNCHANGED <<written, file, sincePersist>> => FileOK'
  BY DEF FileOK, file
<1>5. StatusOK /\ UNCHANGED <<counts, status, user, start>> => StatusOK'
  BY DEF StatusOK, counts, status, user, start
<1>6. AdjustOK /\ UNCHANGED adjust => AdjustOK'
  BY DEF AdjustOK, adjust
<1> QED
  BY <1>1, <1>2, <1>3, <1>4, <1>5, <1>6

\* A worker moves and neither picks a chunk up nor puts one down.
LEMMA Moves ==
  ASSUME HandOK, WorkersOK, NEW w \in Workers, NEW p \in PcSet \ {"cas"},
         Goto(w, p), p \in Holding <=> pc[w] \in Holding,
         UNCHANGED <<hand, eng, seen>>
  PROVE  HandOK' /\ WorkersOK'
<1>1. pc' = [pc EXCEPT ![w] = p]
  BY DEF Goto
<1>2. HandOK'
  BY <1>1 DEF HandOK, WorkersOK, hand
<1>3. WorkersOK'
  BY <1>1 DEF WorkersOK
<1> QED
  BY <1>2, <1>3

\* A worker moves and has no chunk any more.
LEMMA PutsDown ==
  ASSUME HandOK, WorkersOK, NEW w \in Workers,
         NEW p \in PcSet \ (Holding \cup {"cas"}), Goto(w, p), Forget(w),
         UNCHANGED <<eng, seen>>
  PROVE  HandOK' /\ WorkersOK'
<1>1. pc' = [pc EXCEPT ![w] = p]
  BY DEF Goto
<1>2. 0 \in 0..Retry
  BY PoolAssumption
<1>3. HandOK'
  BY <1>1, <1>2 DEF HandOK, WorkersOK, Forget
<1>4. WorkersOK'
  BY <1>1 DEF WorkersOK
<1> QED
  BY <1>3, <1>4

-----------------------------------------------------------------------------
(* Each action keeps the types.                                            *)

LEMMA LoopType ==
  ASSUME TypeOK, NEW w \in Workers,
         RetireCheck(w) \/ RetireCas(w) \/ PauseGate(w) \/ WakeOnCancel(w)
           \/ NextChunk(w) \/ Exit(w)
  PROVE  TypeOK'
<1> USE DEF TypeOK
<1>1. CASE RetireCheck(w)
  <2>1. HandOK'
    <3>1. \E p \in {"cas", "gate"} : pc' = [pc EXCEPT ![w] = p]
      BY <1>1 DEF RetireCheck, Goto
    <3> QED
      BY <1>1, <3>1 DEF RetireCheck, HandOK, WorkersOK, Holding, hand
  <2>2. WorkersOK'
    <3>1. CASE AboveTarget
      <4>1. pc' = [pc EXCEPT ![w] = "cas"] /\ seen' = [seen EXCEPT ![w] = conns] /\ eng' = eng
        BY <1>1, <3>1 DEF RetireCheck, Goto
      <4>2. conns \in Nat \ {0}
        BY <3>1 DEF AboveTarget, StatusOK
      <4> QED
        BY <4>1, <4>2 DEF WorkersOK, PcSet
    <3>2. CASE ~AboveTarget
      BY <1>1, <3>2 DEF RetireCheck, Goto, WorkersOK, PcSet
    <3> QED
      BY <3>1, <3>2
  <2> QED
    BY <1>1, <2>1, <2>2, Frame DEF RetireCheck, queues
<1>2. CASE RetireCas(w)
  <2>1. \E p \in {"off", "loop"} : pc' = [pc EXCEPT ![w] = p]
    BY <1>2 DEF RetireCas, Goto
  <2>2. HandOK'
    BY <1>2, <2>1 DEF RetireCas, HandOK, WorkersOK, Holding, hand
  <2>3. WorkersOK'
    BY <1>2, <2>1 DEF RetireCas, WorkersOK, PcSet
  <2>4. StatusOK'
    <3>1. conns' \in Nat
      BY <1>2 DEF RetireCas, StatusOK, WorkersOK
    <3>2. startPc' = startPc \/ startPc' = "waited"
      BY <1>2 DEF RetireCas, WgDone
    <3> QED
      BY <1>2, <3>1, <3>2 DEF RetireCas, StatusOK, status, user
  <2> QED
    BY <1>2, <2>2, <2>3, <2>4, Frame DEF RetireCas, queues
<1>3. CASE PauseGate(w)
  <2>1. \E p \in {"exit", "asleep", "pull"} : Goto(w, p)
    BY <1>3 DEF PauseGate
  <2> QED
    BY <1>3, <2>1, Moves, Frame DEF PauseGate, Holding, PcSet
<1>4. CASE WakeOnCancel(w)
  <2>1. Goto(w, "exit")
    BY <1>4 DEF WakeOnCancel
  <2> QED
    BY <1>4, <2>1, Moves, Frame DEF WakeOnCancel, Holding, PcSet
<1>5. CASE NextChunk(w)
  <2>1. CASE queue[eng[w]] = << >>
    <3>1. Goto(w, "exit") /\ UNCHANGED <<hand, queues>>
      BY <1>5, <2>1 DEF NextChunk, hand, queues
    <3> QED
      BY <1>5, <3>1, Moves, Frame DEF NextChunk, Holding, PcSet
  <2>2. CASE queue[eng[w]] # << >>
    <3> DEFINE q == queue[eng[w]]
    <3>1. q \in Seq(Chunks) /\ eng[w] \in Engines
      BY DEF QueuesOK, WorkersOK
    <3>2. Head(q) \in Chunks /\ Tail(q) \in Seq(Chunks)
      BY <2>2, <3>1, HeadTailProperties
    <3>3. /\ cur' = [cur EXCEPT ![w] = Head(q)]
          /\ queue' = [queue EXCEPT ![eng[w]] = Tail(q)]
          /\ pc' = [pc EXCEPT ![w] = "fetch"]
      BY <1>5, <2>2 DEF NextChunk, Goto, AfterNext
    <3> HIDE DEF q
    <3>4. QueuesOK'
      BY <1>5, <3>1, <3>2, <3>3 DEF NextChunk, QueuesOK
    <3>5. HandOK'
      BY <1>5, <3>2, <3>3, LayoutAssumption
      DEF NextChunk, HandOK, WorkersOK, Holding
    <3>6. WorkersOK'
      BY <1>5, <3>3 DEF NextChunk, WorkersOK, PcSet, Holding
    <3> QED
      BY <1>5, <3>4, <3>5, <3>6, Frame DEF NextChunk
  <2> QED
    BY <2>1, <2>2
<1>6. CASE Exit(w)
  <2>1. Goto(w, "off")
    BY <1>6 DEF Exit
  <2>2. HandOK' /\ WorkersOK'
    BY <1>6, <2>1, Moves DEF Exit, Holding, PcSet
  <2>3. conns' \in Nat
    BY <1>6 DEF Exit, ConnsAfterExit, StatusOK
  <2>4. startPc' = startPc \/ startPc' = "waited"
    BY <1>6 DEF Exit, WgDone
  <2>5. StatusOK'
    BY <1>6, <2>3, <2>4 DEF Exit, StatusOK, status, user
  <2> QED
    BY <1>6, <2>2, <2>5, Frame DEF Exit
<1> QED
  BY <1>1, <1>2, <1>3, <1>4, <1>5, <1>6

LEMMA AttemptType ==
  ASSUME TypeOK, NEW w \in Workers,
         BeginAttempt(w) \/ WriteBytes(w) \/ AttemptOk(w) \/ AttemptFails(w) \/ Backoff(w)
  PROVE  TypeOK'
<1> USE DEF TypeOK
<1>1. CASE BeginAttempt(w)
  <2>1. HandOK' /\ WorkersOK'
    BY <1>1, Moves DEF BeginAttempt, Holding, PcSet
  <2>2. StatusOK'
    BY <1>1 DEF BeginAttempt, StatusOK, counts, user, start
  <2> QED
    BY <1>1, <2>1, <2>2, Frame DEF BeginAttempt
<1>2. CASE WriteBytes(w)
  <2>1. HandOK'
    BY <1>2 DEF WriteBytes, HandOK
  <2>2. FileOK'
    BY <1>2 DEF WriteBytes, FileOK, file
  <2>3. StatusOK'
    BY <1>2 DEF WriteBytes, StatusOK, counts, user, start
  <2> QED
    BY <1>2, <2>1, <2>2, <2>3, Frame DEF WriteBytes
<1>3. CASE AttemptOk(w)
  <2>1. HandOK' /\ WorkersOK'
    BY <1>3, Moves DEF AttemptOk, Holding, PcSet
  <2>2. cur[w] \in Chunks
    BY <1>3 DEF AttemptOk, HandOK, Holding
  <2>3. FileOK'
    BY <1>3, <2>2 DEF AttemptOk, FileOK, file
  <2> QED
    BY <1>3, <2>1, <2>3, Frame DEF AttemptOk
<1>4. CASE AttemptFails(w)
  <2>1. \E p \in {"ctxerr", "backoff", "spent", "permanent"} : pc' = [pc EXCEPT ![w] = p]
    BY <1>4 DEF AttemptFails, Goto
  <2>2. att' \in [Workers -> 0..Retry] /\ noted' \in [Workers -> BOOLEAN]
    <3>1. att[w] < Retry => att[w] + 1 \in 0..Retry
      BY PoolAssumption DEF HandOK
    <3>2. att' = att \/ (att[w] < Retry /\ att' = [att EXCEPT ![w] = att[w] + 1])
      BY <1>4 DEF AttemptFails
    <3>3. noted' = noted \/ noted' = [noted EXCEPT ![w] = FALSE]
      BY <1>4 DEF AttemptFails
    <3> QED
      BY <3>1, <3>2, <3>3 DEF HandOK
  <2>3. HandOK'
    BY <1>4, <2>1, <2>2 DEF AttemptFails, HandOK, WorkersOK, Holding
  <2>4. WorkersOK'
    BY <1>4, <2>1 DEF AttemptFails, WorkersOK, PcSet, Holding
  <2>5. bytesDone' \in Int
    BY <1>4 DEF AttemptFails, RolledBack, StatusOK
  <2>6. state' = state \/ state' = "retrying"
    BY <1>4 DEF AttemptFails
  <2>7. StatusOK'
    BY <1>4, <2>5, <2>6 DEF AttemptFails, StatusOK, counts, user, start
  <2> QED
    BY <1>4, <2>3, <2>4, <2>7, Frame DEF AttemptFails
<1>5. CASE Backoff(w)
  <2>1. \E p \in {"fetch", "ctxerr"} : Goto(w, p)
    BY <1>5 DEF Backoff
  <2> QED
    BY <1>5, <2>1, Moves, Frame DEF Backoff, Holding, PcSet
<1> QED
  BY <1>1, <1>2, <1>3, <1>4, <1>5

LEMMA OutcomeType ==
  ASSUME TypeOK, NEW w \in Workers,
         CtxError(w) \/ RequeueChunk(w) \/ FailChunk(w) \/ MarkDone(w)
           \/ Checkpoint(w) \/ SaveCheckpoint(w)
  PROVE  TypeOK'
<1> USE DEF TypeOK
<1>1. CASE CtxError(w)
  <2>1. HandOK' /\ WorkersOK'
    BY <1>1, PutsDown DEF CtxError, Holding, PcSet
  <2>2. FileOK'
    BY <1>1 DEF CtxError, PersistControl, FileOK, QueuesOK, queues, file
  <2>3. StatusOK'
    BY <1>1 DEF CtxError, StatusOK, counts, user, start
  <2> QED
    BY <1>1, <2>1, <2>2, <2>3, Frame DEF CtxError
<1>2. CASE RequeueChunk(w)
  <2>1. HandOK' /\ WorkersOK'
    BY <1>2, PutsDown DEF RequeueChunk, Holding, PcSet
  <2>2. cur[w] \in Chunks /\ eng[w] \in Engines
    BY <1>2 DEF RequeueChunk, HandOK, WorkersOK, Holding
  <2>3. queue[eng[w]] \in Seq(Chunks)
    BY <2>2 DEF QueuesOK
  <2>4. Append(queue[eng[w]], cur[w]) \in Seq(Chunks)
    BY <2>2, <2>3, AppendProperties
  <2>5. queue' \in [Engines -> Seq(Chunks)]
    BY <1>2, <2>2, <2>4 DEF RequeueChunk, Requeued, QueuesOK
  <2>6. failed' \in [Chunks -> Nat] /\ done' = done
    BY <1>2, <2>2 DEF RequeueChunk, QueuesOK
  <2>7. QueuesOK'
    BY <2>5, <2>6 DEF QueuesOK
  <2> QED
    BY <1>2, <2>1, <2>7, Frame DEF RequeueChunk
<1>3. CASE FailChunk(w)
  <2>1. HandOK' /\ WorkersOK'
    BY <1>3, PutsDown DEF FailChunk, Holding, PcSet
  <2>2. cur[w] \in Chunks
    BY <1>3 DEF FailChunk, HandOK, WorkersOK, Holding
  <2>3. QueuesOK'
    BY <1>3, <2>2 DEF FailChunk, QueuesOK
  <2>4. StatusOK'
    BY <1>3 DEF FailChunk, StatusOK, counts, user, start
  <2> QED
    BY <1>3, <2>1, <2>3, <2>4, Frame DEF FailChunk
<1>4. CASE MarkDone(w)
  <2>1. HandOK' /\ WorkersOK'
    BY <1>4, PutsDown DEF MarkDone, Holding, PcSet
  <2>2. cur[w] \in Chunks
    BY <1>4 DEF MarkDone, HandOK, Holding
  <2>3. QueuesOK'
    BY <1>4, <2>2 DEF MarkDone, QueuesOK
  <2> QED
    BY <1>4, <2>1, <2>3, Frame DEF MarkDone
<1>5. CASE Checkpoint(w)
  <2>1. \E p \in {"save", "loop"} : Goto(w, p)
    BY <1>5 DEF Checkpoint
  <2>2. HandOK' /\ WorkersOK'
    BY <1>5, <2>1, Moves DEF Checkpoint, Holding, PcSet
  <2>3. FileOK'
    BY <1>5 DEF Checkpoint, FileOK, file
  <2> QED
    BY <1>5, <2>2, <2>3, Frame DEF Checkpoint
<1>6. CASE SaveCheckpoint(w)
  <2>1. HandOK' /\ WorkersOK'
    BY <1>6, Moves DEF SaveCheckpoint, Holding, PcSet
  <2>2. FileOK'
    BY <1>6 DEF SaveCheckpoint, PersistControl, FileOK, QueuesOK, queues, file
  <2> QED
    BY <1>6, <2>1, <2>2, Frame DEF SaveCheckpoint
<1> QED
  BY <1>1, <1>2, <1>3, <1>4, <1>5, <1>6

LEMMA StartType == ASSUME TypeOK, StartStep PROVE TypeOK'
<1> USE DEF TypeOK
<1>1. QueuesOK' /\ HandOK' /\ WorkersOK'
  BY Frame DEF StartStep, CloseAdjust, EndCancelled, EndFailed, DeclareComplete,
     VerifyChecksum, Finish
<1>2. FileOK'
  BY DEF StartStep, CloseAdjust, EndCancelled, EndFailed, DeclareComplete,
     VerifyChecksum, Finish, PersistControl, FileOK, QueuesOK, queues, file
<1>3. StatusOK'
  <2>1. /\ startPc' \in {"decide", "verify", "finish", "returned"}
        /\ result' \in {result, "cancelled", "error", "completed"}
        /\ state' \in {state, "paused", "error", "completed"}
    BY DEF StartStep, CloseAdjust, EndCancelled, EndFailed, DeclareComplete,
       VerifyChecksum, Finish, Return, status
  <2>2. UNCHANGED <<counts, errored, bytesDone, user>>
    BY DEF StartStep, CloseAdjust, EndCancelled, EndFailed, DeclareComplete,
       VerifyChecksum, Finish, status
  <2> QED
    BY <2>1, <2>2 DEF StatusOK, counts, user
<1>4. AdjustOK'
  BY DEF StartStep, CloseAdjust, EndCancelled, EndFailed, DeclareComplete,
     VerifyChecksum, Finish, AdjustOK, adjust
<1> QED
  BY <1>1, <1>2, <1>3, <1>4

LEMMA UserType == ASSUME TypeOK, UserStep PROVE TypeOK'
<1> USE DEF TypeOK
<1>1. QueuesOK' /\ FileOK' /\ AdjustOK'
  BY Frame DEF UserStep, Pause, Unpause, Cancel, StoreState
<1>2. HandOK'
  BY DEF UserStep, Pause, Unpause, Cancel, StoreState, HandOK, WorkersOK, Woken, At,
     Holding, hand
<1>3. WorkersOK'
  BY DEF UserStep, Pause, Unpause, Cancel, StoreState, WorkersOK, PcSet
<1>4. StatusOK'
  <2>1. UNCHANGED <<counts, errored, bytesDone, start>>
    BY DEF UserStep, Pause, Unpause, Cancel, StoreState, status
  <2>2. state' \in {state, "paused", "active"} /\ stores' \in SUBSET {"paused", "active"}
    BY DEF UserStep, Pause, Unpause, Cancel, StoreState, status, StatusOK
  <2>3. paused' \in BOOLEAN /\ ctxDone' \in BOOLEAN
    BY DEF UserStep, Pause, Unpause, Cancel, StoreState, StatusOK
  <2> QED
    BY <2>1, <2>2, <2>3 DEF StatusOK, counts, start
<1> QED
  BY <1>1, <1>2, <1>3, <1>4

LEMMA AdjustType == ASSUME TypeOK, NEW a \in Adjusters, AdjustStep(a) PROVE TypeOK'
<1> USE DEF TypeOK
<1>1. ASSUME NEW target \in Targets, AdjustConns(a, target) PROVE TypeOK'
  <2>1. target \in Nat
    BY PoolAssumption
  <2>2. StatusOK'
    BY <1>1, <2>1 DEF AdjustConns, StatusOK, status, user, start
  <2>3. AdjustOK'
    <3>1. CASE target <= connTarget
      BY <1>1, <3>1 DEF AdjustConns, AdjustOK
    <3>2. CASE ~(target <= connTarget)
      <4>1. target - connTarget \in Nat \ {0}
        BY <2>1, <3>2 DEF StatusOK
      <4>2. /\ adj' = [adj EXCEPT ![a] = [pc |-> "lock", left |-> target - connTarget]]
            /\ UNCHANGED <<adjustMu, adjustDone>>
        BY <1>1, <3>2 DEF AdjustConns
      <4> QED
        BY <4>1, <4>2 DEF AdjustOK
    <3> QED
      BY <3>1, <3>2
  <2> QED
    BY <1>1, <2>2, <2>3, Frame DEF AdjustConns
<1>2. CASE AdjustLock(a)
  BY <1>2, Frame DEF AdjustLock, AdjustOK, Idle
<1>3. ASSUME NEW w \in Workers, SpawnWorker(a, w) PROVE TypeOK'
  <2>1. 1 \in Engines
    BY LayoutAssumption DEF Engines
  <2>2. HandOK'
    BY <1>3 DEF SpawnWorker, Goto, HandOK, WorkersOK, Holding, hand
  <2>3. WorkersOK'
    BY <1>3, <2>1 DEF SpawnWorker, Goto, WorkersOK, PcSet
  <2>4. AdjustOK'
    BY <1>3 DEF SpawnWorker, AdjustOK, Idle
  <2> QED
    BY <1>3, <2>2, <2>3, <2>4, Frame DEF SpawnWorker
<1> QED
  BY <1>1, <1>2, <1>3 DEF AdjustStep

LEMMA NextType == TypeOK /\ [Next]_vars => TypeOK'
<1> SUFFICES ASSUME TypeOK, [Next]_vars PROVE TypeOK'
  OBVIOUS
<1>1. ASSUME NEW w \in Workers, WorkerStep(w) PROVE TypeOK'
  BY <1>1, LoopType, AttemptType, OutcomeType DEF WorkerStep
<1>2. ASSUME NEW a \in Adjusters, AdjustStep(a) PROVE TypeOK'
  BY <1>2, AdjustType
<1>3. CASE UNCHANGED vars
  BY <1>3, Frame DEF vars, TypeOK
<1> QED
  BY <1>1, <1>2, <1>3, StartType, UserType DEF Next

\* In every execution the pool's state keeps its type: a worker has a chunk in
\* hand exactly inside downloadChunk and until its result is dealt with, and
\* the decrements of t.conns (retireIfAboveTarget, worker) never pass zero.
THEOREM TypeCorrect == Spec => []TypeOK
<1> QED
  BY InitType, NextType, PTL DEF Spec

-----------------------------------------------------------------------------
(* Every chunk is in one place.  The chunks in hand are the values of cur   *)
(* other than NoChunk, so only a step that changes a queue, done or cur     *)
(* moves a chunk.                                                           *)

ChunksApart == DisjointWrites /\ NothingLost

LEMMA HeldIsCur ==
  /\ TypeOK => /\ Held = {cur[w] : w \in Workers} \ {NoChunk}
               /\ \A w \in Workers : pc[w] \in Holding <=> cur[w] # NoChunk
  /\ TypeOK' => /\ Held' = {cur'[w] : w \in Workers} \ {NoChunk}
                /\ \A w \in Workers : pc'[w] \in Holding <=> cur'[w] # NoChunk
  BY DEF TypeOK, HandOK, Held

LEMMA NobodyMovesAChunk ==
  ASSUME TypeOK, TypeOK', ChunksApart, UNCHANGED <<queue, done, cur>>,
         errored => errored'
  PROVE  ChunksApart'
<1>1. Held' = Held /\ Waiting' = Waiting
  BY HeldIsCur DEF Waiting
<1>2. \A w \in Workers : pc'[w] \in Holding <=> pc[w] \in Holding
  BY HeldIsCur
<1>3. DisjointWrites'
  BY <1>1, <1>2 DEF ChunksApart, DisjointWrites
<1>4. NothingLost'
  BY <1>1 DEF ChunksApart, NothingLost
<1> QED
  BY <1>3, <1>4 DEF ChunksApart

\* Worker w, with empty hands, takes chunk c off the head of its queue.
LEMMA TakingAChunk ==
  ASSUME TypeOK, TypeOK', ChunksApart, NEW w \in Workers, pc[w] = "pull",
         queue[eng[w]] # << >>, NextChunk(w)
  PROVE  ChunksApart'
<1> DEFINE e == eng[w]
           c == Head(queue[e])
<1>1. /\ e \in Engines /\ queue[e] \in Seq(Chunks) /\ queue \in [Engines -> Seq(Chunks)]
      /\ cur \in [Workers -> Chunks \cup {NoChunk}] /\ cur[w] = NoChunk
  BY HeldIsCur DEF TypeOK, QueuesOK, WorkersOK, HandOK, Holding
<1>2. /\ cur' = [cur EXCEPT ![w] = c] /\ queue' = [queue EXCEPT ![e] = Tail(queue[e])]
      /\ done' = done /\ errored' = errored
  BY DEF NextChunk, AfterNext, status
<1>3. IsInjective(queue[e])
  BY <1>1 DEF ChunksApart, DisjointWrites
<1>4. /\ c \in Range(queue[e]) /\ IsInjective(Tail(queue[e]))
      /\ Range(Tail(queue[e])) = Range(queue[e]) \ {c}
  BY <1>1, <1>3, TailOfInjective
<1>5. c \in Waiting /\ c \in Chunks
  BY <1>1, <1>4, HeadTailProperties DEF Waiting
<1>6. c \notin Held /\ c \notin done /\ c # NoChunk
  BY <1>5, LayoutAssumption DEF ChunksApart, DisjointWrites
<1> HIDE DEF c, e
<1>7. /\ IsInjective(queue'[e]) /\ Range(queue'[e]) = Range(queue[e]) \ {c}
      /\ \A f \in Engines : f # e => queue'[f] = queue[f]
  BY <1>1, <1>2, <1>4
<1>8. Held' = Held \cup {c}
  BY <1>1, <1>2, <1>6, HeldIsCur
<1>9. Waiting' = Waiting \ {c}
  <2>1. \A f \in Engines : f # e => c \notin Range(queue[f])
    BY <1>1, <1>4 DEF ChunksApart, DisjointWrites
  <2>2. \A f \in Engines : Range(queue'[f]) = Range(queue[f]) \ {c}
    BY <1>7, <2>1
  <2> QED
    BY <2>2 DEF Waiting
<1>10. \A v, x \in Workers :
          pc'[v] \in Holding /\ pc'[x] \in Holding /\ v # x => cur'[v] # cur'[x]
  <2>1. \A v \in Workers \ {w} :
          /\ cur'[v] = cur[v] /\ cur[v] # c /\ (pc'[v] \in Holding <=> pc[v] \in Holding)
    BY <1>1, <1>2, <1>6, HeldIsCur
  <2>2. cur'[w] = c
    BY <1>1, <1>2
  <2> QED
    BY <2>1, <2>2 DEF ChunksApart, DisjointWrites
<1>11. DisjointWrites'
  <2>1. \A f \in Engines : IsInjective(queue'[f])
    BY <1>7 DEF ChunksApart, DisjointWrites
  <2>2. \A f, g \in Engines : f # g => Range(queue'[f]) \cap Range(queue'[g]) = {}
    BY <1>7 DEF ChunksApart, DisjointWrites
  <2>3. Waiting' \cap Held' = {} /\ Waiting' \cap done' = {} /\ Held' \cap done' = {}
    BY <1>2, <1>6, <1>8, <1>9 DEF ChunksApart, DisjointWrites
  <2> QED
    BY <1>10, <2>1, <2>2, <2>3 DEF DisjointWrites
<1>12. NothingLost'
  BY <1>2, <1>8, <1>9 DEF ChunksApart, NothingLost
<1> QED
  BY <1>11, <1>12 DEF ChunksApart

\* Worker w puts its chunk down: what happens to the hands.
LEMMA EmptyingAHand ==
  ASSUME TypeOK, TypeOK', ChunksApart, NEW w \in Workers, pc[w] \in Holding, Forget(w)
  PROVE  /\ cur[w] \in Chunks /\ cur[w] \in Held /\ Held' = Held \ {cur[w]}
         /\ \A v, x \in Workers :
              pc'[v] \in Holding /\ pc'[x] \in Holding /\ v # x => cur'[v] # cur'[x]
<1>1. /\ cur \in [Workers -> Chunks \cup {NoChunk}] /\ cur[w] # NoChunk
      /\ cur' = [cur EXCEPT ![w] = NoChunk]
  BY HeldIsCur DEF TypeOK, HandOK, Forget
<1>2. cur[w] \in Held
  BY <1>1, HeldIsCur
<1>3. \A v \in Workers \ {w} :
        cur[v] # cur[w] /\ cur'[v] = cur[v] /\ (pc'[v] \in Holding <=> pc[v] \in Holding)
  BY <1>1, HeldIsCur DEF ChunksApart, DisjointWrites
<1>4. cur'[w] = NoChunk /\ ~(pc'[w] \in Holding)
  BY <1>1, HeldIsCur
<1>5. Held' = Held \ {cur[w]}
  BY <1>1, <1>3, <1>4, HeldIsCur
<1>6. \A v, x \in Workers :
        pc'[v] \in Holding /\ pc'[x] \in Holding /\ v # x => cur'[v] # cur'[x]
  BY <1>3, <1>4 DEF ChunksApart, DisjointWrites
<1> QED
  BY <1>1, <1>2, <1>5, <1>6

\* ... gives it up, and the task has an error;
LEMMA GivingUpAChunk ==
  ASSUME TypeOK, TypeOK', ChunksApart, NEW w \in Workers, pc[w] \in Holding, Forget(w),
         UNCHANGED <<queue, done>>, errored'
  PROVE  ChunksApart'
<1>1. Waiting' = Waiting
  BY DEF Waiting
<1>2. DisjointWrites'
  BY <1>1, EmptyingAHand DEF ChunksApart, DisjointWrites
<1> QED
  BY <1>2 DEF ChunksApart, NothingLost

\* ... marks it done;
LEMMA FinishingAChunk ==
  ASSUME TypeOK, TypeOK', ChunksApart, NEW w \in Workers, MarkDone(w)
  PROVE  ChunksApart'
<1>1. /\ pc[w] \in Holding /\ Forget(w) /\ UNCHANGED <<queue, errored>>
      /\ done' = done \cup {cur[w]}
  BY DEF MarkDone, Holding, status
<1>2. Waiting' = Waiting
  BY <1>1 DEF Waiting
<1>3. cur[w] \notin Waiting
  BY <1>1, EmptyingAHand DEF ChunksApart, DisjointWrites
<1>4. DisjointWrites'
  BY <1>1, <1>2, <1>3, EmptyingAHand DEF ChunksApart, DisjointWrites
<1>5. NothingLost'
  BY <1>1, <1>2, EmptyingAHand DEF ChunksApart, NothingLost
<1> QED
  BY <1>4, <1>5 DEF ChunksApart

\* ... or gives it back to its queue.
LEMMA GivingBackAChunk ==
  ASSUME TypeOK, TypeOK', ChunksApart, NEW w \in Workers, RequeueChunk(w)
  PROVE  ChunksApart'
<1> DEFINE e == eng[w]
           c == cur[w]
<1>1. /\ e \in Engines /\ queue[e] \in Seq(Chunks) /\ queue \in [Engines -> Seq(Chunks)]
  BY DEF TypeOK, QueuesOK, WorkersOK
<1>2. /\ pc[w] \in Holding /\ Forget(w) /\ UNCHANGED <<done, errored>>
      /\ queue' = [queue EXCEPT ![e] = Append(queue[e], c)]
  BY DEF RequeueChunk, Requeued, Holding, status
<1>3. /\ c \in Chunks /\ c \in Held /\ Held' = Held \ {c}
      /\ \A v, x \in Workers :
           pc'[v] \in Holding /\ pc'[x] \in Holding /\ v # x => cur'[v] # cur'[x]
  BY <1>2, EmptyingAHand
<1>4. c \notin Waiting /\ c \notin done
  BY <1>3 DEF ChunksApart, DisjointWrites
<1>5. c \notin Range(queue[e]) /\ IsInjective(queue[e])
  BY <1>1, <1>4 DEF Waiting, ChunksApart, DisjointWrites
<1> HIDE DEF c, e
<1>6. /\ IsInjective(Append(queue[e], c))
      /\ Range(Append(queue[e], c)) = Range(queue[e]) \cup {c}
  BY <1>1, <1>3, <1>5, AppendToInjective
<1>7. /\ IsInjective(queue'[e]) /\ Range(queue'[e]) = Range(queue[e]) \cup {c}
      /\ \A f \in Engines : f # e => queue'[f] = queue[f]
  BY <1>1, <1>2, <1>6
<1>8. Waiting' = Waiting \cup {c}
  BY <1>1, <1>7 DEF Waiting
<1>9. DisjointWrites'
  <2>1. \A f \in Engines : IsInjective(queue'[f])
    BY <1>7 DEF ChunksApart, DisjointWrites
  <2>2. \A f, g \in Engines : f # g => Range(queue'[f]) \cap Range(queue'[g]) = {}
    <3>1. \A f \in Engines : c \notin Range(queue[f])
      BY <1>4 DEF Waiting
    <3> QED
      BY <1>7, <3>1 DEF ChunksApart, DisjointWrites
  <2>3. Waiting' \cap Held' = {} /\ Waiting' \cap done' = {} /\ Held' \cap done' = {}
    BY <1>2, <1>3, <1>4, <1>8 DEF ChunksApart, DisjointWrites
  <2> QED
    BY <1>3, <2>1, <2>2, <2>3 DEF DisjointWrites
<1>10. NothingLost'
  BY <1>2, <1>3, <1>8 DEF ChunksApart, NothingLost
<1> QED
  BY <1>9, <1>10 DEF ChunksApart

LEMMA NextApart ==
  ASSUME TypeOK, TypeOK', ChunksApart, [Next]_vars
  PROVE  ChunksApart'
<1>1. ASSUME NEW w \in Workers, WorkerStep(w) PROVE ChunksApart'
  <2>1. CASE NextChunk(w)
    <3>1. CASE queue[eng[w]] = << >>
      BY <2>1, <3>1, NobodyMovesAChunk DEF NextChunk, status
    <3> QED
      BY <2>1, <3>1, TakingAChunk DEF NextChunk
  <2>2. CASE RequeueChunk(w)
    BY <2>2, GivingBackAChunk
  <2>3. CASE MarkDone(w)
    BY <2>3, FinishingAChunk
  <2>4. CASE CtxError(w) \/ FailChunk(w)
    BY <2>4, GivingUpAChunk DEF CtxError, FailChunk, Holding, queues
  <2>5. CASE RetireCheck(w) \/ RetireCas(w) \/ PauseGate(w) \/ WakeOnCancel(w) \/ Exit(w)
    BY <2>5, NobodyMovesAChunk
    DEF RetireCheck, RetireCas, PauseGate, WakeOnCancel, Exit, hand, queues, status
  <2>6. CASE BeginAttempt(w) \/ WriteBytes(w) \/ AttemptOk(w) \/ AttemptFails(w) \/ Backoff(w)
    BY <2>6, NobodyMovesAChunk
    DEF BeginAttempt, WriteBytes, AttemptOk, AttemptFails, Backoff, hand, queues, status
  <2>7. CASE Checkpoint(w) \/ SaveCheckpoint(w)
    BY <2>7, NobodyMovesAChunk DEF Checkpoint, SaveCheckpoint, hand, queues, status
  <2> QED
    BY <1>1, <2>1, <2>2, <2>3, <2>4, <2>5, <2>6, <2>7 DEF WorkerStep
<1>2. CASE StartStep
  BY <1>2, NobodyMovesAChunk
  DEF StartStep, CloseAdjust, EndCancelled, EndFailed, DeclareComplete, VerifyChecksum,
      Finish, hand, queues, status
<1>3. CASE UserStep
  BY <1>3, NobodyMovesAChunk
  DEF UserStep, Pause, Unpause, Cancel, StoreState, hand, queues, status
<1>4. ASSUME NEW a \in Adjusters, AdjustStep(a) PROVE ChunksApart'
  BY <1>4, NobodyMovesAChunk
  DEF AdjustStep, AdjustConns, AdjustLock, SpawnWorker, hand, queues, status
<1>5. CASE UNCHANGED vars
  BY <1>5, NobodyMovesAChunk DEF vars, hand, queues, status
<1> QED
  BY <1>1, <1>2, <1>3, <1>4, <1>5 DEF Next

LEMMA InitApart == Init => ChunksApart
<1> SUFFICES ASSUME Init PROVE ChunksApart
  OBVIOUS
<1>1. Held = {} /\ Waiting = Queued0 /\ done = Resumed /\ queue = Layout
  BY DEF Init, Held, Holding, Waiting, Queued0
<1>2. \A w \in Workers : pc[w] \notin Holding
  BY DEF Init, Holding
<1> QED
  BY <1>1, <1>2, LayoutAssumption DEF ChunksApart, DisjointWrites, NothingLost, Chunks

LEMMA ApartAlways == Spec => [](TypeOK /\ ChunksApart)
<1>1. Init => TypeOK /\ ChunksApart
  BY InitType, InitApart
<1>2. TypeOK /\ ChunksApart /\ [Next]_vars => (TypeOK /\ ChunksApart)'
  BY NextType, NextApart
<1> QED
  BY <1>1, <1>2, PTL DEF Spec

\* WriteAt needs no lock (storage/file.go): whatever the layout, the number of
\* workers and the schedule, a chunk is never in two hands, two queue slots, or
\* handed out again once it is done.
THEOREM WritesAreDisjoint == Spec => []DisjointWrites
<1>1. TypeOK /\ ChunksApart => DisjointWrites
  BY DEF ChunksApart
<1> QED
  BY <1>1, ApartAlways, PTL

\* No worker drops a chunk without counting an error (worker, task_io.go).
THEOREM ChunksAreKept == Spec => []NothingLost
<1>1. TypeOK /\ ChunksApart => NothingLost
  BY DEF ChunksApart
<1> QED
  BY <1>1, ApartAlways, PTL

-----------------------------------------------------------------------------
(* The control file.  Bytes are written over a chunk again when an attempt  *)
(* is retried, so that done chunks stay whole rests on ChunksApart.         *)

FileTruth ==
  /\ control \subseteq done /\ done \subseteq written
  /\ \A w \in Workers : pc[w] = "mark" => cur[w] \in written

LEMMA FileLeftAlone ==
  ASSUME FileTruth, UNCHANGED <<done, written, control>>,
         \A w \in Workers : pc'[w] = "mark" => pc[w] = "mark" /\ cur'[w] = cur[w]
  PROVE  FileTruth'
  BY DEF FileTruth

LEMMA NextFileTruth ==
  ASSUME TypeOK, ChunksApart, FileTruth, [Next]_vars
  PROVE  FileTruth'
<1> USE DEF TypeOK
<1>1. pc \in [Workers -> PcSet] /\ cur \in [Workers -> Chunks \cup {NoChunk}]
  BY DEF WorkersOK, HandOK
<1>2. ASSUME NEW w \in Workers, WorkerStep(w) PROVE FileTruth'
  <2>1. CASE WriteBytes(w)
    <3>1. cur[w] \in Held
      BY <2>1 DEF WriteBytes, Held, Holding
    <3>2. cur[w] \notin done
      BY <3>1 DEF ChunksApart, DisjointWrites
    <3>3. \A v \in Workers : pc[v] = "mark" => cur[v] # cur[w]
      BY <2>1 DEF WriteBytes, Holding, ChunksApart, DisjointWrites
    <3> QED
      BY <2>1, <3>2, <3>3 DEF WriteBytes, FileTruth, queues, file
  <2>2. CASE AttemptOk(w)
    BY <1>1, <2>2 DEF AttemptOk, Goto, FileTruth, queues, file, hand
  <2>3. CASE MarkDone(w)
    <3>1. cur[w] \in written
      BY <2>3 DEF MarkDone, FileTruth
    <3>2. \A v \in Workers : pc'[v] = "mark" => pc[v] = "mark" /\ cur'[v] = cur[v]
      BY <1>1, <2>3 DEF MarkDone, Goto, Forget
    <3> QED
      BY <2>3, <3>1, <3>2 DEF MarkDone, FileTruth, file
  <2>4. CASE CtxError(w) \/ SaveCheckpoint(w)
    <3>1. \A v \in Workers : pc'[v] = "mark" => pc[v] = "mark" /\ cur'[v] = cur[v]
      BY <1>1, <2>4 DEF CtxError, SaveCheckpoint, Goto, Forget, hand
    <3> QED
      BY <2>4, <3>1 DEF CtxError, SaveCheckpoint, PersistControl, FileTruth, queues, file
  <2>5. CASE RetireCheck(w) \/ RetireCas(w) \/ PauseGate(w) \/ WakeOnCancel(w) \/ Exit(w)
    BY <1>1, <2>5, FileLeftAlone
    DEF RetireCheck, RetireCas, PauseGate, WakeOnCancel, Exit, Goto, hand, queues, file
  <2>6. CASE BeginAttempt(w) \/ AttemptFails(w) \/ Backoff(w) \/ Checkpoint(w)
    BY <1>1, <2>6, FileLeftAlone
    DEF BeginAttempt, AttemptFails, Backoff, Checkpoint, Goto, hand, queues, file
  <2>7. CASE NextChunk(w)
    BY <1>1, <2>7, FileLeftAlone DEF NextChunk, Goto, file
  <2>8. CASE RequeueChunk(w) \/ FailChunk(w)
    BY <1>1, <2>8, FileLeftAlone DEF RequeueChunk, FailChunk, Goto, Forget, file
  <2> QED
    BY <1>2, <2>1, <2>2, <2>3, <2>4, <2>5, <2>6, <2>7, <2>8 DEF WorkerStep
<1>3. CASE StartStep
  <2>1. /\ UNCHANGED <<pc, cur, done, written>>
        /\ control' \in {control, done, {}}
    BY <1>3 DEF StartStep, CloseAdjust, EndCancelled, EndFailed, DeclareComplete,
       VerifyChecksum, Finish, PersistControl, hand, queues, file
  <2> QED
    BY <2>1 DEF FileTruth
<1>4. CASE UserStep
  BY <1>1, <1>4, FileLeftAlone
  DEF UserStep, Pause, Unpause, Cancel, StoreState, hand, queues, file
<1>5. ASSUME NEW a \in Adjusters, AdjustStep(a) PROVE FileTruth'
  BY <1>1, <1>5, FileLeftAlone
  DEF AdjustStep, AdjustConns, AdjustLock, SpawnWorker, Goto, hand, queues, file
<1>6. CASE UNCHANGED vars
  BY <1>6, FileLeftAlone DEF vars, hand, queues, file
<1> QED
  BY <1>2, <1>3, <1>4, <1>5, <1>6 DEF Next

LEMMA InitFileTruth == Init => FileTruth
  BY DEF Init, FileTruth

LEMMA FileTruthAlways == Spec => [](TypeOK /\ ChunksApart /\ FileTruth)
<1>1. Init => TypeOK /\ ChunksApart /\ FileTruth
  BY InitType, InitApart, InitFileTruth
<1>2. TypeOK /\ ChunksApart /\ FileTruth /\ [Next]_vars
        => (TypeOK /\ ChunksApart /\ FileTruth)'
  BY NextType, NextApart, NextFileTruth
<1> QED
  BY <1>1, <1>2, PTL DEF Spec

\* A process killed at any moment leaves a control file whose chunks are whole
\* on disk: resuming skips nothing that is missing (persistControl).
THEOREM ControlIsTruthful == Spec => []ControlTruth
<1>1. TypeOK /\ ChunksApart /\ FileTruth => ControlTruth
  BY DEF FileTruth, ControlTruth
<1> QED
  BY <1>1, FileTruthAlways, PTL

-----------------------------------------------------------------------------
(* The drain.  A late worker is not counted in conns, so conns may be less  *)
(* than the number of workers, never more.                                  *)

LEMMA LiveIsFinite == /\ IsFiniteSet(Live) /\ Cardinality(Live) \in Nat
                      /\ IsFiniteSet(Live') /\ Cardinality(Live') \in Nat
<1>1. Live \subseteq Workers /\ Live' \subseteq Workers
  BY DEF Live
<1> QED
  BY <1>1, PoolAssumption, FS_Subset, FS_CardinalityType

LEMMA AWorkerEnds ==
  ASSUME TypeOK, DrainSafe, NEW w \in Workers, pc[w] # "off",
         pc' = [pc EXCEPT ![w] = "off"],
         conns' = conns - 1 \/ (conns = 0 /\ conns' = conns)
  PROVE  DrainSafe'
<1>1. w \in Live /\ Live' = Live \ {w}
  BY DEF Live, TypeOK, WorkersOK
<1>2. Cardinality(Live') = Cardinality(Live) - 1
  BY <1>1, LiveIsFinite, FS_RemoveElement
<1>3. conns \in Nat
  BY DEF TypeOK, StatusOK
<1> QED
  BY <1>2, <1>3, LiveIsFinite DEF DrainSafe

LEMMA NoWorkerEnds ==
  ASSUME TypeOK, DrainSafe, conns' = conns,
         \A w \in Workers : pc[w] # "off" => pc'[w] # "off"
  PROVE  DrainSafe'
<1>1. Live \subseteq Live'
  BY DEF Live
<1>2. Cardinality(Live) <= Cardinality(Live')
  BY <1>1, LiveIsFinite, FS_Subset
<1>3. conns \in Nat
  BY DEF TypeOK, StatusOK
<1> QED
  BY <1>2, <1>3, LiveIsFinite DEF DrainSafe

LEMMA NextDrainSafe ==
  ASSUME TypeOK, DrainSafe, [Next]_vars
  PROVE  DrainSafe'
<1>1. pc \in [Workers -> PcSet] /\ conns \in Nat
  BY DEF TypeOK, WorkersOK, StatusOK
<1>2. ASSUME NEW w \in Workers, WorkerStep(w) PROVE DrainSafe'
  <2>1. CASE RetireCas(w)
    <3>1. CASE conns = seen[w]
      BY <2>1, <3>1, AWorkerEnds DEF RetireCas, Goto
    <3>2. CASE conns # seen[w]
      BY <1>1, <2>1, <3>2, NoWorkerEnds DEF RetireCas, Goto
    <3> QED
      BY <3>1, <3>2
  <2>2. CASE Exit(w)
    <3>1. pc[w] # "off" /\ pc' = [pc EXCEPT ![w] = "off"]
      BY <2>2 DEF Exit, Goto
    <3>2. conns' = conns - 1 \/ (conns = 0 /\ conns' = conns)
      BY <1>1, <2>2 DEF Exit, ConnsAfterExit
    <3> QED
      BY <3>1, <3>2, AWorkerEnds
  <2>3. CASE RetireCheck(w) \/ PauseGate(w) \/ WakeOnCancel(w) \/ NextChunk(w)
    BY <1>1, <2>3, NoWorkerEnds
    DEF RetireCheck, PauseGate, WakeOnCancel, NextChunk, Goto, counts
  <2>4. CASE BeginAttempt(w) \/ WriteBytes(w) \/ AttemptOk(w) \/ AttemptFails(w) \/ Backoff(w)
    BY <1>1, <2>4, NoWorkerEnds
    DEF BeginAttempt, WriteBytes, AttemptOk, AttemptFails, Backoff, Goto, counts
  <2>5. CASE CtxError(w) \/ RequeueChunk(w) \/ FailChunk(w) \/ MarkDone(w)
               \/ Checkpoint(w) \/ SaveCheckpoint(w)
    BY <1>1, <2>5, NoWorkerEnds
    DEF CtxError, RequeueChunk, FailChunk, MarkDone, Checkpoint, SaveCheckpoint, Goto, counts
  <2> QED
    BY <1>2, <2>1, <2>2, <2>3, <2>4, <2>5 DEF WorkerStep
<1>3. CASE StartStep
  BY <1>3, NoWorkerEnds DEF StartStep, CloseAdjust, EndCancelled, EndFailed,
     DeclareComplete, VerifyChecksum, Finish, counts
<1>4. CASE UserStep
  BY <1>4, NoWorkerEnds DEF UserStep, Pause, Unpause, Cancel, StoreState, counts
<1>5. ASSUME NEW a \in Adjusters, AdjustStep(a) PROVE DrainSafe'
  BY <1>1, <1>5, NoWorkerEnds
  DEF AdjustStep, AdjustConns, AdjustLock, SpawnWorker, Goto, counts
<1>6. CASE UNCHANGED vars
  BY <1>6, NoWorkerEnds DEF vars, counts
<1> QED
  BY <1>2, <1>3, <1>4, <1>5, <1>6 DEF Next

LEMMA InitDrainSafe == Init => DrainSafe
<1> SUFFICES ASSUME Init PROVE DrainSafe
  OBVIOUS
<1>1. Live = DOMAIN Launched
  BY PoolAssumption DEF Init, Live
<1>2. LaunchConns \in Nat
  BY <1>1, LiveIsFinite DEF LaunchConns
<1> QED
  BY <1>1, <1>2 DEF Init, DrainSafe, LaunchConns

\* A worker retires only when conns exceeds a target of at least one, so some
\* other worker stays (retireIfAboveTarget): conns never counts a worker that
\* has gone, however raises and reductions overlap.
THEOREM DrainIsSafe == Spec => []DrainSafe
<1>1. Init => TypeOK /\ DrainSafe
  BY InitType, InitDrainSafe
<1>2. TypeOK /\ DrainSafe /\ [Next]_vars => (TypeOK /\ DrainSafe)'
  BY NextType, NextDrainSafe
<1> QED
  BY <1>1, <1>2, PTL DEF Spec

-----------------------------------------------------------------------------
(* What is counted.  bytesDone is the done chunks and the attempts that      *)
(* have bytes on disk; an attempt is counted from its first byte to the end  *)
(* of its chunk, and when it fails its bytes are taken back, unless the run  *)
(* was cancelled.                                                           *)

Noted == {w \in Workers : noted[w]}

NotedWhere ==
  \A w \in Workers :
    /\ noted[w] => pc[w] \in {"io", "mark", "ctxerr"}
    /\ pc[w] = "mark" => noted[w]
    /\ pc[w] = "ctxerr" => CtxGone

CountInv == NotedWhere /\ BytesHonest

LEMMA NotedIsFinite ==
  /\ IsFiniteSet(Noted) /\ Cardinality(Noted) \in Nat
  /\ TypeOK => IsFiniteSet(done) /\ Cardinality(done) \in Nat
<1>1. Noted \subseteq Workers /\ (TypeOK => done \subseteq Chunks)
  BY DEF Noted, TypeOK, QueuesOK
<1> QED
  BY <1>1, PoolAssumption, LayoutAssumption, FS_Subset, FS_CardinalityType

LEMMA CancelledForGood == [Next]_vars /\ CtxGone => CtxGone'
<1> SUFFICES ASSUME [Next]_vars, CtxGone PROVE CtxGone'
  OBVIOUS
<1>1. ASSUME NEW w \in Workers, WorkerStep(w) PROVE CtxGone'
  BY <1>1 DEF WorkerStep, RetireCheck, RetireCas, PauseGate, WakeOnCancel, NextChunk, Exit,
     BeginAttempt, WriteBytes, AttemptOk, AttemptFails, Backoff, CtxError, RequeueChunk,
     FailChunk, MarkDone, Checkpoint, SaveCheckpoint, WgDone, CtxGone, user, start
<1>2. CASE StartStep
  BY <1>2 DEF StartStep, CloseAdjust, EndCancelled, EndFailed, DeclareComplete,
     VerifyChecksum, Finish, Return, CtxGone, user, start
<1>3. CASE UserStep
  BY <1>3 DEF UserStep, Pause, Unpause, Cancel, StoreState, CtxGone, user, start
<1>4. ASSUME NEW a \in Adjusters, AdjustStep(a) PROVE CtxGone'
  BY <1>4 DEF AdjustStep, AdjustConns, AdjustLock, SpawnWorker, CtxGone, user, start
<1>5. CASE UNCHANGED vars
  BY <1>5 DEF vars, CtxGone, user, start
<1> QED
  BY <1>1, <1>2, <1>3, <1>4, <1>5 DEF Next

\* Nothing is counted, and nobody comes to a point where it matters.
LEMMA NothingCounted ==
  ASSUME CountInv, CtxGone => CtxGone', UNCHANGED <<done, noted, bytesDone>>,
         \A w \in Workers :
           \/ pc'[w] = pc[w]
           \/ /\ ~noted[w] \/ pc'[w] \in {"io", "mark", "ctxerr"}
              /\ pc'[w] = "mark" => noted[w]
              /\ pc'[w] = "ctxerr" => CtxGone'
  PROVE  CountInv'
  BY DEF CountInv, NotedWhere, BytesHonest

LEMMA NextCount ==
  ASSUME TypeOK, ChunksApart, CountInv, [Next]_vars
  PROVE  CountInv'
<1>1. /\ pc \in [Workers -> PcSet] /\ noted \in [Workers -> BOOLEAN] /\ bytesDone \in Int
      /\ cur \in [Workers -> Chunks \cup {NoChunk}]
      /\ CtxGone => CtxGone'
  BY CancelledForGood DEF TypeOK, WorkersOK, HandOK, StatusOK
<1>2. NotedWhere /\ (~CtxGone => bytesDone = Cardinality(done) + Cardinality(Noted))
  BY DEF CountInv, BytesHonest, Noted
<1>3. ASSUME NEW w \in Workers, WorkerStep(w) PROVE CountInv'
  <2>1. CASE WriteBytes(w)
    <3>1. /\ pc[w] = "io" /\ ~noted[w] /\ noted' = [noted EXCEPT ![w] = TRUE]
          /\ UNCHANGED <<pc, done>> /\ bytesDone' = bytesDone + 1
      BY <2>1 DEF WriteBytes, queues
    <3>2. NotedWhere'
      BY <1>1, <1>2, <3>1 DEF NotedWhere
    <3>3. Noted' = Noted \cup {w} /\ w \notin Noted
      BY <1>1, <3>1 DEF Noted
    <3>4. Cardinality(Noted') = Cardinality(Noted) + 1
      BY <3>3, NotedIsFinite, FS_AddElement
    <3>5. ~CtxGone' => bytesDone' = Cardinality(done') + Cardinality(Noted')
      BY <1>1, <1>2, <3>1, <3>4, NotedIsFinite
    <3> QED
      BY <3>2, <3>5 DEF CountInv, BytesHonest, Noted
  <2>2. CASE MarkDone(w)
    <3>1. /\ pc[w] = "mark" /\ noted' = [noted EXCEPT ![w] = FALSE]
          /\ pc' = [pc EXCEPT ![w] = "checkpoint"]
          /\ done' = done \cup {cur[w]} /\ bytesDone' = bytesDone
      BY <2>2 DEF MarkDone, Goto, Forget, status
    <3>2. NotedWhere'
      BY <1>1, <1>2, <3>1 DEF NotedWhere
    <3>3. Noted' = Noted \ {w} /\ w \in Noted
      BY <1>1, <1>2, <3>1 DEF Noted, NotedWhere
    <3>4. cur[w] \notin done
      BY <3>1 DEF Held, Holding, ChunksApart, DisjointWrites
    <3>5. Cardinality(Noted') = Cardinality(Noted) - 1
      BY <3>3, NotedIsFinite, FS_RemoveElement
    <3>6. Cardinality(done') = Cardinality(done) + 1
      BY <3>1, <3>4, NotedIsFinite, FS_AddElement
    <3>7. ~CtxGone' => bytesDone' = Cardinality(done') + Cardinality(Noted')
      BY <1>1, <1>2, <3>1, <3>5, <3>6, NotedIsFinite
    <3> QED
      BY <3>2, <3>7 DEF CountInv, BytesHonest, Noted
  <2>3. CASE AttemptFails(w)
    <3>1. CASE CtxGone
      <4>1. /\ pc[w] = "io" /\ UNCHANGED <<noted, bytesDone, done>>
            /\ pc' = [pc EXCEPT ![w] = "ctxerr"]
        BY <2>3, <3>1 DEF AttemptFails, Goto, queues
      <4> QED
        BY <1>1, <3>1, <4>1, NothingCounted
    <3>2. CASE ~CtxGone
      <4>1. /\ pc[w] = "io" /\ noted' = [noted EXCEPT ![w] = FALSE] /\ done' = done
            /\ bytesDone' = bytesDone - (IF noted[w] THEN 1 ELSE 0)
            /\ \E p \in {"backoff", "spent", "permanent"} : pc' = [pc EXCEPT ![w] = p]
        BY <2>3, <3>2 DEF AttemptFails, RolledBack, Goto, queues
      <4>2. NotedWhere'
        BY <1>1, <1>2, <4>1 DEF NotedWhere
      <4>3. Noted' = Noted \ {w}
        BY <1>1, <4>1 DEF Noted
      <4>4. ~CtxGone' => bytesDone' = Cardinality(done') + Cardinality(Noted')
        <5>1. CASE noted[w]
          <6>1. w \in Noted
            BY <5>1 DEF Noted
          <6>2. Cardinality(Noted') = Cardinality(Noted) - 1
            BY <4>3, <6>1, NotedIsFinite, FS_RemoveElement
          <6>3. bytesDone' = bytesDone - 1
            BY <4>1, <5>1
          <6> QED
            BY <1>1, <1>2, <3>2, <4>1, <6>2, <6>3, NotedIsFinite
        <5>2. CASE ~noted[w]
          <6>1. w \notin Noted
            BY <5>2 DEF Noted
          <6>2. Noted' = Noted
            BY <4>3, <6>1
          <6>3. bytesDone' = bytesDone
            BY <1>1, <4>1, <5>2
          <6> QED
            BY <1>2, <3>2, <4>1, <6>2, <6>3
        <5> QED
          BY <5>1, <5>2
      <4> QED
        BY <4>2, <4>4 DEF CountInv, BytesHonest, Noted
    <3> QED
      BY <3>1, <3>2
  <2>4. CASE CtxError(w)
    <3>1. /\ CtxGone /\ noted' = [noted EXCEPT ![w] = FALSE]
          /\ pc' = [pc EXCEPT ![w] = "exit"]
      BY <2>4 DEF CtxError, Forget, Goto
    <3>2. NotedWhere'
      BY <1>1, <1>2, <3>1 DEF NotedWhere
    <3> QED
      BY <1>1, <3>1, <3>2 DEF CountInv, BytesHonest
  <2>5. CASE RequeueChunk(w) \/ FailChunk(w)
    <3>1. /\ pc[w] \in {"spent", "permanent"} /\ noted' = [noted EXCEPT ![w] = FALSE]
          /\ \E p \in {"loop", "exit"} : pc' = [pc EXCEPT ![w] = p]
          /\ UNCHANGED <<done, bytesDone>>
      BY <2>5 DEF RequeueChunk, FailChunk, Forget, Goto, status
    <3>2. ~noted[w] /\ noted' = noted
      BY <1>1, <1>2, <3>1 DEF NotedWhere
    <3> QED
      BY <1>1, <3>1, <3>2, NothingCounted
  <2>6. CASE AttemptOk(w) \/ BeginAttempt(w) \/ Backoff(w)
    <3>1. /\ UNCHANGED <<done, noted, bytesDone>>
          /\ \/ noted[w] /\ pc' = [pc EXCEPT ![w] = "mark"]
             \/ pc[w] \in {"fetch", "backoff"} /\ \E p \in {"io", "fetch"} : pc' = [pc EXCEPT ![w] = p]
             \/ CtxGone /\ pc' = [pc EXCEPT ![w] = "ctxerr"]
      BY <2>6 DEF AttemptOk, BeginAttempt, Backoff, Goto, hand, queues, status
    <3>2. pc[w] \in {"fetch", "backoff"} => ~noted[w]
      BY <1>2 DEF NotedWhere
    <3> QED
      BY <1>1, <3>1, <3>2, NothingCounted
  <2>7. CASE RetireCheck(w) \/ RetireCas(w) \/ PauseGate(w) \/ WakeOnCancel(w)
               \/ NextChunk(w) \/ Exit(w) \/ Checkpoint(w) \/ SaveCheckpoint(w)
    <3>1. /\ UNCHANGED <<done, noted, bytesDone>>
          /\ pc[w] \in {"loop", "cas", "gate", "asleep", "pull", "exit", "checkpoint", "save"}
          /\ \E p \in {"cas", "gate", "off", "loop", "exit", "asleep", "pull", "fetch", "save"} :
               pc' = [pc EXCEPT ![w] = p]
      BY <2>7 DEF RetireCheck, RetireCas, PauseGate, WakeOnCancel, NextChunk, Exit, Checkpoint,
         SaveCheckpoint, Goto, hand, queues, status
    <3>2. ~noted[w]
      BY <1>2, <3>1 DEF NotedWhere
    <3> QED
      BY <1>1, <3>1, <3>2, NothingCounted
  <2> QED
    BY <1>3, <2>1, <2>2, <2>3, <2>4, <2>5, <2>6, <2>7 DEF WorkerStep
<1>4. CASE StartStep
  BY <1>1, <1>4, NothingCounted
  DEF StartStep, CloseAdjust, EndCancelled, EndFailed, DeclareComplete, VerifyChecksum,
      Finish, hand, queues, status
<1>5. CASE UserStep
  <2>1. /\ UNCHANGED <<done, noted, bytesDone>>
        /\ \A v \in Workers : pc'[v] = pc[v] \/ (pc[v] = "asleep" /\ pc'[v] = "gate")
    BY <1>5 DEF UserStep, Pause, Unpause, Cancel, StoreState, Woken, At, hand, queues, status
  <2>2. \A v \in Workers : pc[v] = "asleep" => ~noted[v]
    BY <1>2 DEF NotedWhere
  <2> QED
    BY <1>1, <2>1, <2>2, NothingCounted
<1>6. ASSUME NEW a \in Adjusters, AdjustStep(a) PROVE CountInv'
  <2>1. /\ UNCHANGED <<done, noted, bytesDone>>
        /\ \A v \in Workers : pc'[v] = pc[v] \/ (pc[v] = "off" /\ pc'[v] = "loop")
    BY <1>1, <1>6 DEF AdjustStep, AdjustConns, AdjustLock, SpawnWorker, Goto, hand, queues,
       status
  <2>2. \A v \in Workers : pc[v] = "off" => ~noted[v]
    BY <1>2 DEF NotedWhere
  <2> QED
    BY <1>1, <2>1, <2>2, NothingCounted
<1>7. CASE UNCHANGED vars
  BY <1>1, <1>7, NothingCounted DEF vars, hand, queues, status
<1> QED
  BY <1>3, <1>4, <1>5, <1>6, <1>7 DEF Next

LEMMA InitCount == Init => CountInv
<1> SUFFICES ASSUME Init PROVE CountInv
  OBVIOUS
<1>1. NotedWhere /\ {w \in Workers : noted[w]} = {}
  BY DEF Init, NotedWhere
<1>2. Cardinality({}) = 0 /\ Cardinality(Resumed) \in Nat
  BY LayoutAssumption, FS_EmptySet, FS_Subset, FS_CardinalityType DEF Chunks
<1> QED
  BY <1>1, <1>2 DEF Init, CountInv, BytesHonest

\* Whatever fails and is tried again, and however often the pool is adjusted or
\* paused, bytesDone counts every chunk once (noteBytes and the roll-back in
\* downloadChunk).
THEOREM BytesAreHonest == Spec => []BytesHonest
<1>1. Init => TypeOK /\ ChunksApart /\ CountInv
  BY InitType, InitApart, InitCount
<1>2. TypeOK /\ ChunksApart /\ CountInv /\ [Next]_vars => (TypeOK /\ ChunksApart /\ CountInv)'
  BY NextType, NextApart, NextCount
<1>3. CountInv => BytesHonest
  BY DEF CountInv
<1> QED
  BY <1>1, <1>2, <1>3, PTL DEF Spec

-----------------------------------------------------------------------------
(* What a kill can cost.  Each done chunk that the control file lacks is     *)
(* counted once: in sincePersist, by its worker that is about to count it,   *)
(* or with the interval a worker is about to save.                           *)

Behind == Cardinality(done \ control)

Due == sincePersist + Cardinality(At("checkpoint")) + CheckpointInterval * Cardinality(At("save"))

LagInv ==
  /\ sincePersist < CheckpointInterval
  /\ onDisk => Behind <= Due

LEMMA LagIsNat ==
  ASSUME TypeOK, TypeOK'
  PROVE  /\ IsFiniteSet(done \ control) /\ IsFiniteSet((done \ control)')
         /\ \A p \in PcSet : IsFiniteSet(At(p)) /\ IsFiniteSet(At(p)')
         /\ Behind \in Nat /\ Behind' \in Nat
         /\ \A p \in PcSet : Cardinality(At(p)) \in Nat /\ Cardinality(At(p)') \in Nat
         /\ "save" \in PcSet /\ "checkpoint" \in PcSet
         /\ sincePersist \in Nat /\ sincePersist' \in Nat
         /\ CheckpointInterval \in Nat \ {0}
<1>1. done \ control \subseteq Chunks /\ (done \ control)' \subseteq Chunks
  BY DEF TypeOK, QueuesOK
<1>2. \A p \in PcSet : At(p) \subseteq Workers /\ At(p)' \subseteq Workers
  BY DEF At
<1>3. /\ sincePersist \in Nat /\ sincePersist' \in Nat /\ CheckpointInterval \in Nat \ {0}
  BY PoolAssumption DEF TypeOK, FileOK
<1>4. "save" \in PcSet /\ "checkpoint" \in PcSet
  BY DEF PcSet
<1> QED
  BY <1>1, <1>2, <1>3, <1>4, PoolAssumption, LayoutAssumption, FS_Subset, FS_CardinalityType
  DEF Behind

\* Nobody gets to, or leaves, a point of a checkpoint.
LEMMA LagLeftAlone ==
  ASSUME TypeOK, LagInv, UNCHANGED <<done, sincePersist>>,
         UNCHANGED <<control, onDisk>> \/ control' = done \/ ~onDisk',
         \A w \in Workers : \A p \in {"checkpoint", "save"} : pc'[w] = p <=> pc[w] = p,
         TypeOK'
  PROVE  LagInv'
<1>1. At("checkpoint")' = At("checkpoint") /\ At("save")' = At("save")
  BY DEF At
<1>2. Due' = Due
  BY <1>1 DEF Due
<1>3. CASE UNCHANGED <<control, onDisk>>
  BY <1>2, <1>3 DEF LagInv, Behind
<1>4. CASE ~onDisk'
  BY <1>4 DEF LagInv
<1>5. CASE control' = done
  <2>1. Behind' = 0
    BY <1>5, FS_EmptySet DEF Behind
  <2>2. Due \in Nat
    BY LagIsNat DEF Due
  <2> QED
    BY <1>2, <2>1, <2>2 DEF LagInv
<1> QED
  BY <1>3, <1>4, <1>5

LEMMA NextLag ==
  ASSUME ~SaveFails, TypeOK, TypeOK', LagInv, [Next]_vars
  PROVE  LagInv'
<1>1. pc \in [Workers -> PcSet]
  BY DEF TypeOK, WorkersOK
<1> DEFINE C == Cardinality(At("checkpoint"))
           S == Cardinality(At("save"))
           I == CheckpointInterval
<1>2. ASSUME NEW w \in Workers, WorkerStep(w) PROVE LagInv'
  <2>1. CASE MarkDone(w)
    <3>1. /\ pc[w] = "mark" /\ pc' = [pc EXCEPT ![w] = "checkpoint"]
          /\ done' = done \cup {cur[w]} /\ UNCHANGED <<control, onDisk, sincePersist>>
      BY <2>1 DEF MarkDone, Goto, file
    <3>2. At("checkpoint")' = At("checkpoint") \cup {w} /\ w \notin At("checkpoint")
          /\ At("save")' = At("save")
      BY <1>1, <3>1 DEF At
    <3>3. C' = C + 1 /\ S' = S
      BY <3>2, LagIsNat, FS_AddElement
    <3>4. Behind' <= Behind + 1
      <4>1. (done \ control)' \subseteq (done \ control) \cup {cur[w]}
        BY <3>1
      <4>2. /\ IsFiniteSet((done \ control) \cup {cur[w]})
            /\ Cardinality((done \ control) \cup {cur[w]}) \in {Behind, Behind + 1}
        BY LagIsNat, FS_AddElement DEF Behind
      <4>3. Cardinality((done \ control)') <= Cardinality((done \ control) \cup {cur[w]})
        BY <4>1, <4>2, FS_Subset
      <4> QED
        BY <4>2, <4>3, LagIsNat DEF Behind
    <3>5. Due' = Due + 1 /\ Due \in Nat
      BY <3>1, <3>3, LagIsNat DEF Due
    <3> QED
      BY <3>1, <3>4, <3>5, LagIsNat DEF LagInv
  <2>2. CASE Checkpoint(w)
    <3>1. /\ pc[w] = "checkpoint" /\ UNCHANGED <<done, control, onDisk>>
          /\ \E p \in {"save", "loop"} : pc' = [pc EXCEPT ![w] = p]
          /\ \/ /\ sincePersist + 1 >= I /\ sincePersist' = 0
                /\ pc' = [pc EXCEPT ![w] = "save"]
             \/ sincePersist + 1 < I /\ sincePersist' = sincePersist + 1
      BY <2>2, LagIsNat DEF Checkpoint, CheckpointDue, Goto, queues, file
    <3>2. At("checkpoint")' = At("checkpoint") \ {w} /\ w \in At("checkpoint")
      BY <1>1, <3>1 DEF At
    <3>3. C' = C - 1
      BY <3>2, LagIsNat, FS_RemoveElement
    <3>4. \/ At("save")' = At("save") /\ pc' # [pc EXCEPT ![w] = "save"]
          \/ At("save")' = At("save") \cup {w} /\ w \notin At("save")
      BY <1>1, <3>1 DEF At
    <3>5. (S' = S /\ pc' # [pc EXCEPT ![w] = "save"]) \/ S' = S + 1
      BY <3>4, LagIsNat, FS_AddElement
    <3>6. Behind' = Behind
      BY <3>1 DEF Behind
    <3> HIDE DEF C, S
    <3>7. S \in Nat /\ C \in Nat /\ C' \in Nat /\ I * (S + 1) = I * S + I /\ I * S \in Nat
      BY LagIsNat DEF C, S
    <3>8. sincePersist' < I
      BY <3>1, LagIsNat
    <3>9. Due <= Due'
      <4>1. Due = sincePersist + C + I * S /\ Due' = sincePersist' + C' + I * S'
        BY DEF Due, C, S
      <4>2. sincePersist < I /\ sincePersist \in Nat
        BY LagIsNat DEF LagInv
      <4> HIDE DEF I
      <4>3. CASE S' = S
        BY <3>1, <3>3, <3>5, <3>7, <4>1, <4>2, <4>3
      <4>4. CASE S' = S + 1
        <5>1. I * S' = I * S + I
          BY <3>7, <4>4
        <5> QED
          BY <3>1, <3>3, <3>7, <4>1, <4>2, <5>1, LagIsNat DEF I
      <4> QED
        BY <3>5, <4>3, <4>4
    <3>10. Due \in Nat /\ Due' \in Nat
      BY LagIsNat DEF Due
    <3> QED
      BY <3>1, <3>6, <3>8, <3>9, <3>10, LagIsNat DEF LagInv
  <2>3. CASE SaveCheckpoint(w)
    <3>1. control' = done /\ done' = done /\ sincePersist' = sincePersist
      BY <2>3 DEF SaveCheckpoint, PersistControl, queues
    <3>2. Behind' = 0
      BY <3>1, FS_EmptySet DEF Behind
    <3>3. Due' \in Nat
      BY LagIsNat DEF Due
    <3> QED
      BY <3>1, <3>2, <3>3 DEF LagInv
  <2>4. CASE CtxError(w)
    BY <1>1, <2>4, LagLeftAlone DEF CtxError, PersistControl, Goto, queues
  <2>5. CASE RequeueChunk(w) \/ FailChunk(w) \/ NextChunk(w)
    BY <1>1, <2>5, LagLeftAlone DEF RequeueChunk, FailChunk, NextChunk, Goto, queues, file
  <2>6. CASE RetireCheck(w) \/ RetireCas(w) \/ PauseGate(w) \/ WakeOnCancel(w) \/ Exit(w)
    BY <1>1, <2>6, LagLeftAlone
    DEF RetireCheck, RetireCas, PauseGate, WakeOnCancel, Exit, Goto, queues, file
  <2>7. CASE BeginAttempt(w) \/ WriteBytes(w) \/ AttemptOk(w) \/ AttemptFails(w) \/ Backoff(w)
    BY <1>1, <2>7, LagLeftAlone
    DEF BeginAttempt, WriteBytes, AttemptOk, AttemptFails, Backoff, Goto, queues, file
  <2> QED
    BY <1>2, <2>1, <2>2, <2>3, <2>4, <2>5, <2>6, <2>7 DEF WorkerStep
<1>3. CASE StartStep
  BY <1>3, LagLeftAlone
  DEF StartStep, CloseAdjust, EndCancelled, EndFailed, DeclareComplete, VerifyChecksum,
      Finish, PersistControl, queues, file
<1>4. CASE UserStep
  BY <1>1, <1>4, LagLeftAlone
  DEF UserStep, Pause, Unpause, Cancel, StoreState, Woken, At, queues, file
<1>5. ASSUME NEW a \in Adjusters, AdjustStep(a) PROVE LagInv'
  BY <1>1, <1>5, LagLeftAlone
  DEF AdjustStep, AdjustConns, AdjustLock, SpawnWorker, Goto, queues, file
<1>6. CASE UNCHANGED vars
  BY <1>6, LagLeftAlone DEF vars, queues, file
<1> QED
  BY <1>2, <1>3, <1>4, <1>5, <1>6 DEF Next

LEMMA InitLag == Init => LagInv
<1> SUFFICES ASSUME Init PROVE LagInv
  OBVIOUS
<1>1. At("checkpoint") = {} /\ At("save") = {} /\ done \ control = {} /\ sincePersist = 0
  BY DEF Init, At
<1>2. CheckpointInterval \in Nat /\ CheckpointInterval * 0 = 0
  BY PoolAssumption
<1>3. Behind = 0 /\ Due = 0
  BY <1>1, <1>2, FS_EmptySet DEF Behind, Due
<1> QED
  BY <1>1, <1>3, PoolAssumption DEF LagInv

\* If the control file can be written, a kill at any moment loses less than an
\* interval of chunks, besides those whose workers are just counting or saving
\* (checkpoint in task_persist.go).
THEOREM LagIsBounded == ~SaveFails => (Spec => []CheckpointLag)
<1> SUFFICES ASSUME ~SaveFails PROVE Spec => []CheckpointLag
  OBVIOUS
<1>1. Init => TypeOK /\ LagInv
  BY InitType, InitLag
<1>2. TypeOK /\ LagInv /\ [Next]_vars => (TypeOK /\ LagInv)'
  BY NextType, NextLag
<1>3. TypeOK /\ LagInv => CheckpointLag
  <2> SUFFICES ASSUME TypeOK, LagInv PROVE CheckpointLag
    OBVIOUS
  <2> DEFINE C == Cardinality(At("checkpoint"))
             S == Cardinality(At("save"))
  <2>1. At("checkpoint") \subseteq Workers /\ At("save") \subseteq Workers
        /\ done \ control \subseteq Chunks
    BY DEF At, TypeOK, QueuesOK
  <2>2. C \in Nat /\ S \in Nat /\ Cardinality(done \ control) \in Nat
    BY <2>1, PoolAssumption, LayoutAssumption, FS_Subset, FS_CardinalityType
  <2>3. sincePersist \in Nat /\ CheckpointInterval \in Nat
    BY PoolAssumption DEF TypeOK, FileOK
  <2> HIDE DEF C, S
  <2>4. CheckpointInterval * S \in Nat
    BY <2>2, <2>3
  <2>5. onDisk => Cardinality(done \ control) <= sincePersist + C + CheckpointInterval * S
    BY DEF LagInv, Behind, Due, C, S
  <2>6. onDisk => Cardinality(done \ control) < CheckpointInterval + C + CheckpointInterval * S
    BY <2>2, <2>3, <2>4, <2>5 DEF LagInv
  <2> QED
    BY <2>6 DEF CheckpointLag, C, S
<1> QED
  BY <1>1, <1>2, <1>3, PTL DEF Spec

-----------------------------------------------------------------------------
(* How a run ends.                                                          *)

NeverLowered == \A a \in Adjusters : \A t \in Targets : t >= LaunchConns

\* Points at which a worker will not look at its queue again.
Leaving == {"off", "exit", "cas"}

NobodyRetires ==
  /\ conns <= LaunchConns /\ LaunchConns <= connTarget
  /\ \A w \in Workers : pc[w] # "cas"

\* While the run can still succeed, a queue with chunks has a worker.
Served ==
  ~errored /\ ~CtxGone =>
    \A e \in Engines :
      queue[e] # << >> => \E w \in Workers : eng[w] = e /\ pc[w] \notin Leaving

WholeAtTheEnd ==
  /\ startPc \in {"waited", "decide"} /\ ~errored /\ ~ctxDone => done = Chunks
  /\ startPc \in {"verify", "finish"} \/ result = "completed" => done = Chunks

LEMMA LaunchConnsNat == LaunchConns \in Nat
  BY PoolAssumption, FS_Subset, FS_CardinalityType DEF LaunchConns

-----------------------------------------------------------------------------
LEMMA InitOutcome == Init => NobodyRetires /\ Served /\ WholeAtTheEnd
<1> SUFFICES ASSUME Init PROVE NobodyRetires /\ Served /\ WholeAtTheEnd
  OBVIOUS
<1>1. NobodyRetires
  BY LaunchConnsNat DEF Init, NobodyRetires
<1>2. Served
  BY PoolAssumption DEF Init, Served, Leaving
<1>3. WholeAtTheEnd
  BY DEF Init, WholeAtTheEnd
<1> QED
  BY <1>1, <1>2, <1>3

LEMMA NextNobodyRetires ==
  ASSUME NeverLowered, TypeOK, NobodyRetires, [Next]_vars
  PROVE  NobodyRetires'
<1>1. /\ conns \in Nat /\ connTarget \in Nat /\ LaunchConns \in Nat
      /\ pc \in [Workers -> PcSet]
  BY LaunchConnsNat DEF TypeOK, StatusOK, WorkersOK
<1>2. ~AboveTarget
  BY <1>1 DEF NobodyRetires, AboveTarget
<1>3. ASSUME NEW w \in Workers, WorkerStep(w) PROVE NobodyRetires'
  <2>1. CASE Exit(w)
    BY <1>1, <2>1 DEF Exit, ConnsAfterExit, Goto, NobodyRetires
  <2>2. CASE RetireCheck(w) \/ RetireCas(w) \/ PauseGate(w) \/ WakeOnCancel(w) \/ NextChunk(w)
    BY <1>1, <1>2, <2>2
    DEF RetireCheck, RetireCas, PauseGate, WakeOnCancel, NextChunk, Goto, NobodyRetires,
        counts
  <2>3. CASE BeginAttempt(w) \/ WriteBytes(w) \/ AttemptOk(w) \/ AttemptFails(w) \/ Backoff(w)
    BY <1>1, <2>3
    DEF BeginAttempt, WriteBytes, AttemptOk, AttemptFails, Backoff, Goto, NobodyRetires,
        counts
  <2>4. CASE CtxError(w) \/ RequeueChunk(w) \/ FailChunk(w) \/ MarkDone(w)
               \/ Checkpoint(w) \/ SaveCheckpoint(w)
    BY <1>1, <2>4
    DEF CtxError, RequeueChunk, FailChunk, MarkDone, Checkpoint, SaveCheckpoint, Goto,
        NobodyRetires, counts
  <2> QED
    BY <1>3, <2>1, <2>2, <2>3, <2>4 DEF WorkerStep
<1>4. CASE StartStep
  BY <1>4 DEF StartStep, CloseAdjust, EndCancelled, EndFailed, DeclareComplete,
     VerifyChecksum, Finish, NobodyRetires, counts
<1>5. CASE UserStep
  BY <1>5 DEF UserStep, Pause, Unpause, Cancel, StoreState, NobodyRetires, counts
<1>6. ASSUME NEW a \in Adjusters, AdjustStep(a) PROVE NobodyRetires'
  <2>1. ASSUME NEW target \in Targets, AdjustConns(a, target) PROVE NobodyRetires'
    BY <2>1 DEF AdjustConns, NobodyRetires, NeverLowered
  <2>2. CASE AdjustLock(a)
    BY <2>2 DEF AdjustLock, NobodyRetires, counts
  <2>3. ASSUME NEW w \in Workers, SpawnWorker(a, w) PROVE NobodyRetires'
    BY <1>1, <2>3 DEF SpawnWorker, Goto, NobodyRetires, counts
  <2> QED
    BY <1>6, <2>1, <2>2, <2>3 DEF AdjustStep
<1>7. CASE UNCHANGED vars
  BY <1>7 DEF vars, NobodyRetires, counts
<1> QED
  BY <1>3, <1>4, <1>5, <1>6, <1>7 DEF Next

-----------------------------------------------------------------------------
(* Queues with chunks are served.                                           *)

LEMMA StillServed ==
  ASSUME Served, UNCHANGED queue, errored => errored', CtxGone => CtxGone',
         \A w \in Workers : pc[w] \notin Leaving => pc'[w] \notin Leaving /\ eng'[w] = eng[w]
  PROVE  Served'
  BY DEF Served

LEMMA NextServed ==
  ASSUME TypeOK, NobodyRetires, Served, [Next]_vars
  PROVE  Served'
<1>1. /\ pc \in [Workers -> PcSet] /\ eng \in [Workers -> Engines]
      /\ queue \in [Engines -> Seq(Chunks)] /\ conns \in Nat /\ connTarget \in Nat
      /\ LaunchConns \in Nat
  BY LaunchConnsNat DEF TypeOK, StatusOK, WorkersOK, QueuesOK
<1>2. ~AboveTarget
  BY <1>1 DEF NobodyRetires, AboveTarget
<1>3. ASSUME NEW w \in Workers, WorkerStep(w) PROVE Served'
  <2>1. CASE RetireCheck(w) \/ RetireCas(w)
    BY <1>1, <1>2, <2>1, StillServed
    DEF RetireCheck, RetireCas, Goto, NobodyRetires, Leaving, queues, status, user, start,
        CtxGone
  <2>2. CASE PauseGate(w) \/ WakeOnCancel(w)
    <3>1. UNCHANGED <<queue, errored, eng, CtxGone>>
      BY <2>2 DEF PauseGate, WakeOnCancel, queues, status, user, start, CtxGone
    <3>2. CtxGone => Served'
      BY <3>1 DEF Served
    <3>3. ~CtxGone => \A v \in Workers : pc[v] \notin Leaving => pc'[v] \notin Leaving
      BY <1>1, <2>2 DEF PauseGate, WakeOnCancel, Goto, Leaving
    <3> QED
      BY <3>1, <3>2, <3>3, StillServed
  <2>3. CASE NextChunk(w)
    <3>1. UNCHANGED <<errored, CtxGone, eng>>
      BY <2>3 DEF NextChunk, status, user, start, CtxGone
    <3>2. CASE queue[eng[w]] = << >>
      <4>1. queue' = queue /\ pc' = [pc EXCEPT ![w] = "exit"]
        BY <2>3, <3>2 DEF NextChunk, Goto
      <4> SUFFICES ASSUME ~errored, ~CtxGone, NEW e \in Engines, queue[e] # << >>
                   PROVE  \E v \in Workers : eng[v] = e /\ pc'[v] \notin Leaving
        BY <3>1, <4>1 DEF Served
      <4>2. PICK v \in Workers : eng[v] = e /\ pc[v] \notin Leaving
        BY DEF Served
      <4>3. v # w
        BY <3>2, <4>2
      <4> QED
        BY <1>1, <4>1, <4>2, <4>3
    <3>3. CASE queue[eng[w]] # << >>
      <4>1. /\ \A e \in Engines : e # eng[w] => queue'[e] = queue[e]
            /\ pc' = [pc EXCEPT ![w] = "fetch"]
        BY <1>1, <2>3, <3>3 DEF NextChunk, Goto
      <4>2. pc'[w] \notin Leaving /\ \A v \in Workers : v # w => pc'[v] = pc[v]
        BY <1>1, <4>1 DEF Leaving
      <4> QED
        BY <1>1, <3>1, <4>1, <4>2 DEF Served
    <3> QED
      BY <3>2, <3>3
  <2>4. CASE RequeueChunk(w)
    <3>1. /\ \A e \in Engines : e # eng[w] => queue'[e] = queue[e]
          /\ pc' = [pc EXCEPT ![w] = "loop"]
          /\ UNCHANGED <<errored, CtxGone, eng>>
      BY <1>1, <2>4 DEF RequeueChunk, Goto, status, user, start, CtxGone
    <3>2. pc'[w] \notin Leaving /\ \A v \in Workers : v # w => pc'[v] = pc[v]
      BY <1>1, <3>1 DEF Leaving
    <3> QED
      BY <1>1, <3>1, <3>2 DEF Served
  <2>5. CASE CtxError(w) \/ FailChunk(w)
    BY <2>5 DEF CtxError, FailChunk, Served
  <2>6. CASE Exit(w)
    <3>1. UNCHANGED <<queue, errored, eng, ctxDone>>
      BY <2>6 DEF Exit, queues, status, user
    <3>2. CtxGone => CtxGone'
      BY <2>6 DEF Exit, WgDone, CtxGone, user
    <3>3. \A v \in Workers : pc[v] \notin Leaving => pc'[v] \notin Leaving
      BY <1>1, <2>6 DEF Exit, Goto, Leaving
    <3> QED
      BY <3>1, <3>2, <3>3, StillServed
  <2>7. CASE BeginAttempt(w) \/ WriteBytes(w) \/ AttemptOk(w) \/ AttemptFails(w) \/ Backoff(w)
    <3>1. UNCHANGED <<queue, errored, eng, CtxGone>>
      BY <2>7 DEF BeginAttempt, WriteBytes, AttemptOk, AttemptFails, Backoff, queues, status,
         user, start, CtxGone
    <3>2. \A v \in Workers : pc[v] \notin Leaving => pc'[v] \notin Leaving
      BY <1>1, <2>7 DEF BeginAttempt, WriteBytes, AttemptOk, AttemptFails, Backoff, Goto,
         Leaving
    <3> QED
      BY <3>1, <3>2, StillServed
  <2>8. CASE MarkDone(w) \/ Checkpoint(w) \/ SaveCheckpoint(w)
    <3>1. UNCHANGED <<queue, errored, eng, CtxGone>>
      BY <2>8 DEF MarkDone, Checkpoint, SaveCheckpoint, queues, status, user, start, CtxGone
    <3>2. \A v \in Workers : pc[v] \notin Leaving => pc'[v] \notin Leaving
      BY <1>1, <2>8 DEF MarkDone, Checkpoint, SaveCheckpoint, Goto, Leaving
    <3> QED
      BY <3>1, <3>2, StillServed
  <2> QED
    BY <1>3, <2>1, <2>2, <2>3, <2>4, <2>5, <2>6, <2>7, <2>8 DEF WorkerStep
<1>4. CASE StartStep
  <2>1. UNCHANGED <<queue, errored, eng, pc>> /\ (CtxGone => CtxGone')
    BY <1>4 DEF StartStep, CloseAdjust, EndCancelled, EndFailed, DeclareComplete,
       VerifyChecksum, Finish, Return, queues, status, user, CtxGone
  <2> QED
    BY <2>1, StillServed
<1>5. CASE UserStep
  <2>1. UNCHANGED <<queue, errored, eng>> /\ (CtxGone => CtxGone')
    BY <1>5 DEF UserStep, Pause, Unpause, Cancel, StoreState, queues, status, user, start,
       CtxGone
  <2>2. \A v \in Workers : pc[v] \notin Leaving => pc'[v] \notin Leaving
    BY <1>5 DEF UserStep, Pause, Unpause, Cancel, StoreState, Leaving
  <2> QED
    BY <2>1, <2>2, StillServed
<1>6. ASSUME NEW a \in Adjusters, AdjustStep(a) PROVE Served'
  <2>1. UNCHANGED <<queue, errored, CtxGone>>
    BY <1>6 DEF AdjustStep, AdjustConns, AdjustLock, SpawnWorker, queues, status, user,
       start, CtxGone
  <2>2. \A v \in Workers : pc[v] \notin Leaving => pc'[v] \notin Leaving /\ eng'[v] = eng[v]
    BY <1>1, <1>6 DEF AdjustStep, AdjustConns, AdjustLock, SpawnWorker, Goto, Leaving
  <2> QED
    BY <2>1, <2>2, StillServed
<1>7. CASE UNCHANGED vars
  BY <1>7, StillServed DEF vars, queues, status, user, start, CtxGone
<1> QED
  BY <1>3, <1>4, <1>5, <1>6, <1>7 DEF Next

-----------------------------------------------------------------------------
(* The last worker leaves a whole file.                                     *)

LEMMA LastWorkerLeaves ==
  ASSUME TypeOK, ChunksApart, NobodyRetires, Served, NEW w \in Workers, Live = {w},
         pc[w] = "exit", ~errored, ~CtxGone
  PROVE  done = Chunks
<1>1. \A v \in Workers : pc[v] \in Leaving
  BY DEF Live, Leaving
<1>2. Held = {}
  BY <1>1 DEF Held, Holding, Leaving
<1>3. \A e \in Engines : queue[e] = << >>
  BY <1>1 DEF Served
<1>4. Waiting = {}
  BY <1>3 DEF Waiting, Range
<1> QED
  BY <1>2, <1>4 DEF ChunksApart, NothingLost, TypeOK, QueuesOK

LEMMA NextWhole ==
  ASSUME TypeOK, TypeOK', ChunksApart, NobodyRetires, Served, WholeAtTheEnd, [Next]_vars
  PROVE  WholeAtTheEnd'
<1>1. done \subseteq Chunks /\ done' \subseteq Chunks
  BY DEF TypeOK, QueuesOK
<1>2. done \subseteq done' /\ (errored => errored') /\ (ctxDone => ctxDone')
  BY DEF Next, WorkerStep, RetireCheck, RetireCas, PauseGate, WakeOnCancel, NextChunk, Exit,
     BeginAttempt, WriteBytes, AttemptOk, AttemptFails, Backoff, CtxError, RequeueChunk,
     FailChunk, MarkDone, Checkpoint, SaveCheckpoint, StartStep, CloseAdjust, EndCancelled,
     EndFailed, DeclareComplete, VerifyChecksum, Finish, UserStep, Pause, Unpause, Cancel,
     StoreState, AdjustStep, AdjustConns, AdjustLock, SpawnWorker, vars, queues, status, user
<1>3. ASSUME UNCHANGED <<startPc, result>> PROVE WholeAtTheEnd'
  BY <1>1, <1>2, <1>3 DEF WholeAtTheEnd
<1>4. ASSUME NEW w \in Workers, Exit(w) PROVE WholeAtTheEnd'
  <2>1. UNCHANGED <<done, errored, ctxDone, result>> /\ pc[w] = "exit"
    BY <1>4 DEF Exit, queues, status, user
  <2>2. CASE startPc = "wait" /\ Live = {w}
    BY <1>4, <2>1, <2>2, LastWorkerLeaves DEF Exit, WgDone, WholeAtTheEnd, CtxGone
  <2>3. CASE ~(startPc = "wait" /\ Live = {w})
    BY <1>3, <1>4, <2>1, <2>3 DEF Exit, WgDone
  <2> QED
    BY <2>2, <2>3
<1>5. ASSUME NEW w \in Workers, WorkerStep(w), ~Exit(w) PROVE WholeAtTheEnd'
  <2>1. ~RetireCas(w)
    BY DEF RetireCas, NobodyRetires
  <2> QED
    BY <1>3, <1>5, <2>1
    DEF WorkerStep, RetireCheck, PauseGate, WakeOnCancel, NextChunk, BeginAttempt, WriteBytes,
        AttemptOk, AttemptFails, Backoff, CtxError, RequeueChunk, FailChunk, MarkDone,
        Checkpoint, SaveCheckpoint, start
<1>6. CASE StartStep
  BY <1>6 DEF StartStep, CloseAdjust, EndCancelled, EndFailed, DeclareComplete, VerifyChecksum,
     Finish, Return, WholeAtTheEnd, queues, status, user
<1>7. CASE UserStep
  BY <1>3, <1>7 DEF UserStep, Pause, Unpause, Cancel, StoreState, start
<1>8. ASSUME NEW a \in Adjusters, AdjustStep(a) PROVE WholeAtTheEnd'
  BY <1>3, <1>8 DEF AdjustStep, AdjustConns, AdjustLock, SpawnWorker, start
<1>9. CASE UNCHANGED vars
  BY <1>3, <1>9 DEF vars, start
<1> QED
  BY <1>4, <1>5, <1>6, <1>7, <1>8, <1>9 DEF Next

OutcomeInv ==
  /\ TypeOK /\ ChunksApart /\ FileTruth
  /\ NobodyRetires /\ Served /\ WholeAtTheEnd

LEMMA OutcomeAlways == ASSUME NeverLowered PROVE Spec => []OutcomeInv
<1>1. Init => OutcomeInv
  BY InitType, InitApart, InitFileTruth, InitOutcome DEF OutcomeInv
<1>2. OutcomeInv /\ [Next]_vars => OutcomeInv'
  BY NextType, NextApart, NextFileTruth, NextNobodyRetires, NextServed, NextWhole
  DEF OutcomeInv
<1> QED
  BY <1>1, <1>2, PTL DEF Spec

\* Start returns nil only over a whole file, if nobody lowers the number of
\* connections below the number launched.
THEOREM SuccessIsWhole == ASSUME NeverLowered PROVE Spec => []CompletedIsWhole
<1>1. OutcomeInv => CompletedIsWhole
  BY DEF OutcomeInv, WholeAtTheEnd, FileTruth, CompletedIsWhole, TypeOK, FileOK
<1> QED
  BY <1>1, OutcomeAlways, PTL

-----------------------------------------------------------------------------
(* The pool implements Download when no AdjustConns is under way (then no   *)
(* worker is live once Start stops waiting) and the control file can be     *)
(* written.                                                                *)

StartLast ==
  /\ startPc # "wait" => \A w \in Workers : pc[w] = "off"
  /\ result = "none" <=> startPc # "returned"
  /\ startPc # "returned" => onDisk = TRUE

LEMMA NextStartLast ==
  ASSUME Adjusters = {}, ~SaveFails, TypeOK, StartLast, [Next]_vars
  PROVE  StartLast'
<1>1. pc \in [Workers -> PcSet]
  BY DEF TypeOK, WorkersOK
<1>2. ASSUME NEW w \in Workers, WorkerStep(w) PROVE StartLast'
  <2>1. pc[w] # "off"
    BY <1>2 DEF WorkerStep, RetireCheck, RetireCas, PauseGate, WakeOnCancel, NextChunk, Exit,
       BeginAttempt, WriteBytes, AttemptOk, AttemptFails, Backoff, CtxError, RequeueChunk,
       FailChunk, MarkDone, Checkpoint, SaveCheckpoint
  <2>2. startPc = "wait"
    BY <2>1 DEF StartLast
  <2>3. CASE RetireCas(w) \/ Exit(w)
    <3>1. result' = result /\ onDisk' = onDisk
      BY <2>3 DEF RetireCas, Exit, file
    <3>2. \/ startPc' = startPc
          \/ startPc' = "waited" /\ Live = {w} /\ pc' = [pc EXCEPT ![w] = "off"]
      BY <2>2, <2>3 DEF RetireCas, Exit, WgDone, Goto
    <3>3. startPc' = "waited" => \A v \in Workers : pc'[v] = "off"
      BY <1>1, <2>2, <3>2 DEF Live
    <3> QED
      BY <2>2, <3>1, <3>2, <3>3 DEF StartLast
  <2>4. CASE ~(RetireCas(w) \/ Exit(w))
    <3>1. UNCHANGED <<startPc, result>> /\ (onDisk' = onDisk \/ onDisk' = TRUE)
      BY <1>2, <2>4 DEF WorkerStep, RetireCheck, PauseGate, WakeOnCancel, NextChunk,
         BeginAttempt, WriteBytes, AttemptOk, AttemptFails, Backoff, CtxError, RequeueChunk,
         FailChunk, MarkDone, Checkpoint, SaveCheckpoint, PersistControl, start, file
    <3> QED
      BY <2>2, <3>1 DEF StartLast
  <2> QED
    BY <2>3, <2>4
<1>3. CASE StartStep
  BY <1>3 DEF StartStep, CloseAdjust, EndCancelled, EndFailed, DeclareComplete,
     VerifyChecksum, Finish, Return, PersistControl, StartLast, file
<1>4. CASE UserStep
  <2>1. UNCHANGED <<startPc, result, onDisk>>
    BY <1>4 DEF UserStep, Pause, Unpause, Cancel, StoreState, start, file
  <2>2. \A w \in Workers : pc[w] = "off" => pc'[w] = "off"
    BY <1>4 DEF UserStep, Pause, Unpause, Cancel, StoreState, Woken, At
  <2> QED
    BY <2>1, <2>2 DEF StartLast
<1>5. CASE UNCHANGED vars
  BY <1>5 DEF vars, start, file, StartLast
<1> QED
  BY <1>2, <1>3, <1>4, <1>5 DEF Next

LEMMA StepImplements ==
  ASSUME Adjusters = {}, ~SaveFails, OutcomeInv, StartLast, [Next]_vars
  PROVE  [Contract!Next]_(Contract!vars)
<1> USE DEF Contract!Next, Contract!vars
<1>1. ASSUME NEW w \in Workers, WorkerStep(w) PROVE [Contract!Next]_(Contract!vars)
  <2>1. pc[w] # "off"
    BY <1>1 DEF WorkerStep, RetireCheck, RetireCas, PauseGate, WakeOnCancel, NextChunk, Exit,
       BeginAttempt, WriteBytes, AttemptOk, AttemptFails, Backoff, CtxError, RequeueChunk,
       FailChunk, MarkDone, Checkpoint, SaveCheckpoint
  <2>2. result = "none" /\ onDisk = TRUE
    BY <2>1 DEF StartLast
  <2>3. CASE MarkDone(w)
    <3>1. cur[w] \in Held /\ cur[w] \in Chunks
      BY <2>3 DEF MarkDone, Held, Holding, OutcomeInv, TypeOK, HandOK
    <3>2. cur[w] \notin done
      BY <3>1 DEF OutcomeInv, ChunksApart, DisjointWrites
    <3>3. Contract!ChunkDone(cur[w])
      BY <2>2, <2>3, <3>2 DEF MarkDone, Contract!ChunkDone, file, start
    <3> QED
      BY <3>1, <3>3
  <2>4. CASE CtxError(w) \/ SaveCheckpoint(w)
    BY <2>2, <2>4 DEF CtxError, SaveCheckpoint, PersistControl, Contract!Checkpoint, queues,
       start
  <2>5. CASE ~MarkDone(w) /\ ~CtxError(w) /\ ~SaveCheckpoint(w)
    BY <1>1, <2>5 DEF WorkerStep, RetireCheck, RetireCas, PauseGate, WakeOnCancel, NextChunk,
       Exit, BeginAttempt, WriteBytes, AttemptOk, AttemptFails, Backoff, RequeueChunk,
       FailChunk, Checkpoint, queues, file, start
  <2> QED
    BY <2>3, <2>4, <2>5
<1>2. CASE StartStep
  <2>1. startPc # "returned" => result = "none" /\ onDisk = TRUE
    BY DEF StartLast
  <2>2. CASE EndCancelled
    BY <2>1, <2>2 DEF EndCancelled, PersistControl, Return, Contract!Fail, queues
  <2>3. CASE EndFailed
    BY <2>1, <2>3 DEF EndFailed, PersistControl, Return, Contract!Fail, queues
  <2>4. CASE VerifyChecksum
    BY <2>1, <2>4 DEF VerifyChecksum, PersistControl, Return, Contract!Fail, queues, file
  <2>5. CASE Finish
    <3>1. done = Chunks
      BY <2>5 DEF Finish, OutcomeInv, WholeAtTheEnd
    <3> QED
      BY <2>1, <2>5, <3>1 DEF Finish, PersistControl, Return, Contract!Succeed, queues
  <2>6. CASE CloseAdjust \/ DeclareComplete
    BY <2>6 DEF CloseAdjust, DeclareComplete, queues, file
  <2> QED
    BY <1>2, <2>2, <2>3, <2>4, <2>5, <2>6 DEF StartStep
<1>3. CASE UserStep
  BY <1>3 DEF UserStep, Pause, Unpause, Cancel, StoreState, queues, file, start
<1>4. CASE UNCHANGED vars
  BY <1>4 DEF vars, queues, file, start
<1> QED
  BY <1>1, <1>2, <1>3, <1>4 DEF Next

\* A run of Start on which nobody calls AdjustConns, and whose control file can be
\* written, implements Download: a chunk is done once, the control file only ever
\* catches up with what is done, the outcome is final, success means a whole file.
THEOREM PoolImplementsDownload ==
  ASSUME Adjusters = {}, ~SaveFails PROVE Spec => ImplementsDownload
<1>1. Spec => []OutcomeInv
  BY OutcomeAlways DEF NeverLowered
<1>2. Init => StartLast /\ Contract!Init
  BY DEF Init, StartLast, Contract!Init
<1>3. OutcomeInv /\ StartLast /\ [Next]_vars => StartLast'
  BY NextStartLast DEF OutcomeInv
<1>4. OutcomeInv /\ StartLast /\ [Next]_vars => [Contract!Next]_(Contract!vars)
  BY StepImplements
<1> QED
  BY <1>1, <1>2, <1>3, <1>4, PTL DEF Spec, ImplementsDownload, Contract!Spec
=============================================================================
