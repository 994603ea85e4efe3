-------------------------- MODULE RpcDaemon_proofs --------------------------
(***************************************************************************)
(* The daemon's shutdown, its registry and its events, for any requests,   *)
(* clients, slots and limits: the process ends with success only once the  *)
(* daemon is over, no task that could still be acted on is ever forgotten, *)
(* and no client hears twice, or wrongly, how a download ended.            *)
(***************************************************************************)
EXTENDS RpcDaemon, DataLemmas, FiniteSetTheorems

\* Requests that have come, and those that hold a task they made.
Came == {r \in Requests : op[r].at # "idle"}

Adding(r) == op[r].at \in {"load", "build", "swap", "enqueue"}

\* Each request makes at most one task, so that the numbers last.
Numbered ==
  /\ nextID \in Nat \ {0}
  /\ exit = "no" => nextID - 1 <= Cardinality(Came)
  /\ \A r \in Requests : Adding(r) => op[r].id \in Ids /\ op[r].id < nextID

Typed == TypeOK /\ Numbered

-----------------------------------------------------------------------------
LEMMA Counting ==
  /\ Cardinality(Requests) \in Nat /\ IsFiniteSet(Requests)
  /\ \A S \in SUBSET Requests : IsFiniteSet(S) /\ Cardinality(S) \in Nat
  /\ \A S \in SUBSET Requests : \A r \in Requests \ S :
       Cardinality(S \cup {r}) = Cardinality(S) + 1 /\ Cardinality(S) < Cardinality(Requests)
<1>1. IsFiniteSet(Requests) /\ Cardinality(Requests) \in Nat
  BY DaemonAssumption, FS_CardinalityType
<1>2. ASSUME NEW S \in SUBSET Requests PROVE IsFiniteSet(S) /\ Cardinality(S) \in Nat
  BY <1>1, FS_Subset, FS_CardinalityType
<1>3. ASSUME NEW S \in SUBSET Requests, NEW r \in Requests \ S
      PROVE  Cardinality(S \cup {r}) = Cardinality(S) + 1 /\ Cardinality(S) < Cardinality(Requests)
  <2>1. Cardinality(S \cup {r}) = Cardinality(S) + 1
    BY <1>2, FS_AddElement
  <2>2. Cardinality(S \cup {r}) <= Cardinality(Requests)
    BY <1>1, FS_Subset
  <2> QED
    BY <2>1, <2>2, <1>1, <1>2
<1> QED
  BY <1>1, <1>2, <1>3

LEMMA InitTyped == Init => Typed
<1> SUFFICES ASSUME Init PROVE Typed
  OBVIOUS
<1>1. MainOK /\ DaemonOK
  BY DEF Init, MainOK, DaemonOK
<1>2. PoolOK
  <2>1. <<>> \in Seq(Ids)
    OBVIOUS
  <2>2. waiting = <<>> /\ running = {} /\ finished = {} /\ open = TRUE
    BY DEF Init, Pool!Init
  <2> QED
    BY <2>1, <2>2 DEF PoolOK
<1>3. LoopOK
  BY DEF Init, LoopOK, TerminalMethods
<1>4. TaskOK
  BY DEF Init, TaskOK
<1>5. \A r \in Requests : op[r].at = "idle"
  BY DEF Init, NoRequest
<1>6. RequestOK
  BY DEF Init, RequestOK, NoRequest, Places
<1>7. RegistryOK
  BY DEF Init, RegistryOK, Reg!Init
<1>8. EventsOK
  BY DEF Init, EventsOK, Bc!Init
<1>9. Numbered
  <2>1. Came = {} /\ \A r \in Requests : ~Adding(r)
    BY <1>5 DEF Came, Adding
  <2>2. Cardinality(Came) = 0
    BY <2>1, FS_EmptySet
  <2>3. nextID = 1
    BY DEF Init
  <2>4. nextID \in Nat \ {0} /\ nextID - 1 <= Cardinality(Came)
    BY <2>2, <2>3
  <2> QED
    BY <2>1, <2>4 DEF Numbered
<1> QED
  BY <1>1, <1>2, <1>3, <1>4, <1>6, <1>7, <1>8, <1>9 DEF Typed, TypeOK

-----------------------------------------------------------------------------
\* What a step leaves alone keeps its type.
LEMMA Kept ==
  /\ MainOK /\ UNCHANGED mainVars => MainOK'
  /\ DaemonOK /\ UNCHANGED daemonVars => DaemonOK'
  /\ PoolOK /\ UNCHANGED poolVars => PoolOK'
  /\ LoopOK /\ UNCHANGED loop => LoopOK'
  /\ TaskOK /\ UNCHANGED taskVars => TaskOK'
  /\ RequestOK /\ Numbered /\ UNCHANGED <<exit, nextID, op>> => RequestOK' /\ Numbered'
  /\ RegistryOK /\ UNCHANGED regVars => RegistryOK'
  /\ EventsOK /\ UNCHANGED bcVars => EventsOK'
<1>1. MainOK /\ UNCHANGED mainVars => MainOK'
  BY DEF MainOK, mainVars
<1>2. DaemonOK /\ UNCHANGED daemonVars => DaemonOK'
  BY DEF DaemonOK, daemonVars
<1>3. PoolOK /\ UNCHANGED poolVars => PoolOK'
  BY DEF PoolOK, poolVars
<1>4. LoopOK /\ UNCHANGED loop => LoopOK'
  BY DEF LoopOK
<1>5. TaskOK /\ UNCHANGED taskVars => TaskOK'
  BY DEF TaskOK, taskVars
<1>6. RequestOK /\ Numbered /\ UNCHANGED <<exit, nextID, op>> => RequestOK' /\ Numbered'
  BY DEF RequestOK, Numbered, Came, Adding
<1>7. RegistryOK /\ UNCHANGED regVars => RegistryOK'
  BY DEF RegistryOK, regVars
<1>8. EventsOK /\ UNCHANGED bcVars => EventsOK'
  BY DEF EventsOK, bcVars
<1> QED
  BY <1>1, <1>2, <1>3, <1>4, <1>5, <1>6, <1>7, <1>8

\* Steps of the main goroutine and of the daemon, but for the end of the process.
LEMMA MainTyped ==
  ASSUME Typed, MainTurn \/ DaemonTurn \/ SignalTurn
  PROVE  Typed'
<1>1. /\ UNCHANGED <<exit, nextID, op>> /\ UNCHANGED poolVars /\ UNCHANGED loop
      /\ UNCHANGED taskVars /\ UNCHANGED regVars /\ UNCHANGED bcVars
  BY DEF MainTurn, DaemonTurn, SignalTurn, BesideMain, MainStep, StartDaemon, OnDead, Listen,
         DaemonStep, RunReturns, CloseDone, TakeHooks, FireHooks, Signal, mainVars
<1>2. MainOK'
  <2>1. CASE MainTurn
    BY <2>1 DEF Typed, TypeOK, MainOK, MainTurn, MainStep, StartDaemon, OnDead, Listen
  <2>2. CASE DaemonTurn
    BY <2>2 DEF Typed, TypeOK, MainOK, DaemonTurn, DaemonStep, RunReturns, CloseDone, TakeHooks,
         FireHooks, mainVars
  <2>3. CASE SignalTurn
    BY <2>3 DEF Typed, TypeOK, MainOK, SignalTurn, Signal
  <2> QED
    BY <2>1, <2>2, <2>3
<1>3. DaemonOK'
  BY DEF Typed, TypeOK, DaemonOK, MainTurn, DaemonTurn, SignalTurn, MainStep, StartDaemon, OnDead,
         Listen, DaemonStep, RunReturns, CloseDone, TakeHooks, FireHooks, Signal, daemonVars
<1> QED
  BY <1>1, <1>2, <1>3, Kept DEF Typed, TypeOK

LEMMA PoolTyped ==
  ASSUME Typed, AdmitTurn \/ LoopTurn
  PROVE  Typed'
<1>1. /\ UNCHANGED <<exit, nextID, op>> /\ UNCHANGED mainVars /\ UNCHANGED daemonVars
      /\ UNCHANGED taskVars /\ UNCHANGED regVars
  BY DEF AdmitTurn, LoopTurn, BesidePool, mainVars
<1> SUFFICES PoolOK' /\ LoopOK' /\ EventsOK'
  BY <1>1, Kept DEF Typed, TypeOK
<1> USE DEF Typed, TypeOK
<1>2. CASE Admit
  <2>1. /\ waiting' = Tail(waiting) /\ waiting # <<>> /\ running' = running \cup {Head(waiting)}
        /\ UNCHANGED <<finished, open>> /\ UNCHANGED loop /\ UNCHANGED bcVars
    BY <1>2 DEF Admit, Pool!Begin
  <2>2. Head(waiting) \in Ids /\ Tail(waiting) \in Seq(Ids)
    BY <2>1, HeadTailProperties DEF PoolOK
  <2>3. PoolOK'
    BY <2>1, <2>2 DEF PoolOK
  <2> QED
    BY <2>1, <2>3, Kept
<1>3. CASE SeeCancel
  <2>1. <<>> \in Seq(Ids)
    OBVIOUS
  <2>2. PoolOK'
    BY <1>3, <2>1 DEF SeeCancel, Pool!Close, PoolOK
  <2> QED
    BY <1>3, <2>2, Kept DEF SeeCancel
<1>4. ASSUME NEW t \in Ids, Retire(t) PROVE PoolOK' /\ LoopOK' /\ EventsOK'
  <2>1. PoolOK'
    BY <1>4 DEF Retire, Pool!Finish, PoolOK
  <2>2. LoopOK'
    BY <1>4 DEF Retire, LoopOK
  <2> QED
    BY <1>4, <2>1, <2>2, Kept DEF Retire
<1>5. CASE OnTaskComplete
  <2>1. LoopOK'
    BY <1>5 DEF OnTaskComplete, LoopOK, TerminalMethods
  <2>2. EventsOK'
    BY <1>5 DEF OnTaskComplete, Bc!Address, EventsOK
  <2> QED
    BY <1>5, <2>1, <2>2, Kept DEF OnTaskComplete
<1>6. CASE TellEnd
  <2>1. LoopOK'
    BY <1>6 DEF TellEnd, LoopOK
  <2>2. EventsOK'
    BY <1>6 DEF TellEnd, Bc!Offer, EventsOK, bcVars
  <2> QED
    BY <1>6, <2>1, <2>2, Kept DEF TellEnd
<1> QED
  BY <1>2, <1>3, <1>4, <1>5, <1>6 DEF AdmitTurn, LoopTurn, LoopStep

LEMMA TaskTyped ==
  ASSUME Typed, NEW t \in Ids, TaskTurn(t) \/ TaskEndTurn(t)
  PROVE  Typed'
<1>1. /\ UNCHANGED <<exit, nextID, op>> /\ UNCHANGED mainVars /\ UNCHANGED daemonVars
      /\ UNCHANGED poolVars /\ UNCHANGED loop /\ UNCHANGED regVars /\ UNCHANGED bcVars
  BY DEF TaskTurn, TaskEndTurn, BesideTask, mainVars
<1>2. TaskOK'
  BY DEF Typed, TypeOK, TaskOK, TaskTurn, TaskEndTurn, TaskStep, TaskEnds, BeginStart,
         CheckCancelled, EndAs, EndCancelled, EndFailed, DeclareComplete, VerifyChecksum
<1> QED
  BY <1>1, <1>2, Kept DEF Typed, TypeOK

LEMMA ClientTyped ==
  ASSUME Typed, ForwardTurn \/ \E s \in Subscribers : AttachTurn(s) \/ PumpTurn(s)
  PROVE  Typed'
<1>1. /\ UNCHANGED <<exit, nextID, op>> /\ UNCHANGED mainVars /\ UNCHANGED daemonVars
      /\ UNCHANGED poolVars /\ UNCHANGED loop /\ UNCHANGED taskVars /\ UNCHANGED regVars
  BY DEF ForwardTurn, AttachTurn, PumpTurn, BesideEvents, mainVars
<1>2. EventsOK'
  BY DEF Typed, TypeOK, EventsOK, ForwardTurn, Forward, AttachTurn, PumpTurn, Bc!Flood, Bc!Attach,
         Bc!Pump, Bc!Detach
<1> QED
  BY <1>1, <1>2, Kept DEF Typed, TypeOK

\* The process ends: no request is left, so none has to be numbered.
LEMMA ExitTyped ==
  ASSUME Typed, ExitTurn \/ FailTurn
  PROVE  Typed'
<1>1. PICK how \in {"ok", "cancelled", "error"} : EndProcess(how)
  BY DEF ExitTurn, FailTurn, Exit, ListenFails, ServeFails
<1>2. /\ exit' = how /\ op' = [r \in Requests |-> NoRequest]
      /\ cur' = [r \in Requests |-> {}] /\ nv' = [r \in Requests |-> {}]
      /\ to' = [x \in Senders |-> {}]
      /\ UNCHANGED <<main, signalled, shutdown>> /\ UNCHANGED daemonVars /\ UNCHANGED poolVars
      /\ UNCHANGED loop /\ UNCHANGED nextID /\ UNCHANGED taskVars
      /\ UNCHANGED <<registry, subscribers, lost, left>>
  BY <1>1 DEF EndProcess
<1>3. \A r \in Requests : op'[r].at = "idle"
  BY <1>2 DEF NoRequest
<1>4. MainOK' /\ RegistryOK' /\ EventsOK'
  <2>1. MainOK'
    BY <1>2 DEF Typed, TypeOK, MainOK
  <2>2. RegistryOK'
    BY <1>2 DEF Typed, TypeOK, RegistryOK
  <2>3. EventsOK'
    BY <1>2 DEF Typed, TypeOK, EventsOK
  <2> QED
    BY <2>1, <2>2, <2>3
<1>5. RequestOK'
  BY <1>2 DEF Typed, TypeOK, RequestOK, NoRequest, Places
<1>6. Numbered'
  <2>1. nextID' \in Nat \ {0}
    BY <1>2 DEF Typed, Numbered
  <2>2. \A r \in Requests : ~Adding(r)'
    BY <1>3 DEF Adding
  <2> QED
    BY <1>2, <2>1, <2>2 DEF Numbered
<1> QED
  BY <1>2, <1>4, <1>5, <1>6, Kept DEF Typed, TypeOK

Entries == [at : Places, kind : AllKinds \cup {""}, id : Ids \cup {0}]

\* A request goes on, or one that makes no task comes.
LEMMA MoveTyped ==
  ASSUME Typed, NEW r \in Requests, NEW e \in Entries, e.at # "idle",
         op' = [op EXCEPT ![r] = e], UNCHANGED exit, UNCHANGED nextID,
         e.at \in {"load", "build", "swap", "enqueue"} => Adding(r) /\ e.id = op[r].id
  PROVE  RequestOK' /\ Numbered'
<1>1. op \in [Requests -> Entries] /\ nextID \in Nat /\ Numbered
  BY DEF Typed, TypeOK, RequestOK, Entries
<1>2. \A q \in Requests : op'[q] = IF q = r THEN e ELSE op[q]
  BY <1>1
<1>3. Came \in SUBSET Requests /\ Came' = Came \cup {r}
  BY <1>2 DEF Came
<1>4. Cardinality(Came) \in Nat /\ Cardinality(Came') \in Nat /\ Cardinality(Came) <= Cardinality(Came')
  <2>1. CASE r \in Came
    BY <1>3, <2>1, Counting
  <2>2. CASE r \notin Came
    BY <1>3, <2>2, Counting
  <2> QED
    BY <2>1, <2>2
<1>5. RequestOK'
  BY <1>1 DEF RequestOK, Entries
<1>6. exit' = "no" => nextID' - 1 <= Cardinality(Came')
  BY <1>1, <1>4 DEF Numbered
<1>7. ASSUME NEW q \in Requests, Adding(q)' PROVE op'[q].id \in Ids /\ op'[q].id < nextID'
  <2>1. Adding(q) /\ op'[q].id = op[q].id
    BY <1>2, <1>7 DEF Adding
  <2> QED
    BY <1>1, <2>1 DEF Numbered
<1> QED
  BY <1>1, <1>5, <1>6, <1>7 DEF Numbered

\* A request that makes a task comes: there is a number left for it.
LEMMA AddTyped ==
  ASSUME Typed, exit = "no", UNCHANGED exit, NEW r \in Requests, op[r].at = "idle",
         NEW kind \in Adds, ArriveAdd(r, kind)
  PROVE  RequestOK' /\ Numbered' /\ nextID \in Ids
<1>1. op \in [Requests -> Entries] /\ nextID \in Nat \ {0} /\ Numbered
  BY DEF Typed, TypeOK, RequestOK, Entries, Numbered
<1>2. /\ nextID' = nextID + 1
      /\ \A q \in Requests : op'[q] = IF q = r THEN [at |-> "load", kind |-> kind, id |-> nextID]
                                      ELSE op[q]
  BY <1>1 DEF ArriveAdd
<1>3. Came \in SUBSET Requests /\ Came' = Came \cup {r} /\ r \notin Came
  BY <1>2 DEF Came
<1>4. /\ Cardinality(Came) \in Nat /\ Cardinality(Came') = Cardinality(Came) + 1
      /\ Cardinality(Requests) \in Nat /\ Cardinality(Came) < Cardinality(Requests)
  BY <1>3, Counting
<1>5. nextID - 1 <= Cardinality(Came)
  BY <1>1 DEF Numbered
<1>6. nextID \in Ids
  BY <1>1, <1>4, <1>5 DEF Ids
<1>7. [at |-> "load", kind |-> kind, id |-> nextID] \in Entries
  BY <1>6 DEF Entries, Places, Adds, AllKinds
<1>8. RequestOK'
  <2>1. op' \in [Requests -> Entries]
    BY <1>1, <1>7 DEF ArriveAdd
  <2>2. nextID' \in Nat
    BY <1>1, <1>2
  <2> QED
    BY <2>1, <2>2 DEF RequestOK, Entries
<1>9. nextID' \in Nat \ {0} /\ nextID' - 1 <= Cardinality(Came')
  BY <1>1, <1>2, <1>4, <1>5
<1>10. ASSUME NEW q \in Requests, Adding(q)' PROVE op'[q].id \in Ids /\ op'[q].id < nextID'
  <2>1. CASE q = r
    BY <1>1, <1>2, <1>6, <2>1
  <2>2. CASE q # r
    <3>1. Adding(q) /\ op'[q] = op[q]
      BY <1>2, <2>2, <1>10 DEF Adding
    <3>2. op[q].id \in Ids /\ op[q].id < nextID
      BY <1>1, <3>1 DEF Numbered
    <3> QED
      BY <1>1, <1>2, <3>1, <3>2 DEF Ids
  <2> QED
    BY <2>1, <2>2
<1> QED
  BY <1>6, <1>8, <1>9, <1>10 DEF Numbered

LEMMA ArriveTyped ==
  ASSUME Typed, NEW r \in Requests, ArriveTurn(r)
  PROVE  Typed'
<1>1. /\ exit = "no" /\ UNCHANGED exit /\ UNCHANGED mainVars /\ UNCHANGED daemonVars /\ UNCHANGED poolVars
      /\ UNCHANGED loop /\ UNCHANGED taskVars /\ UNCHANGED regVars /\ UNCHANGED bcVars
      /\ op[r].at = "idle"
  BY DEF ArriveTurn, Arrive, Running, At, others, mainVars
<1> SUFFICES RequestOK' /\ Numbered'
  BY <1>1, Kept DEF Typed, TypeOK
<1>2. CASE \E kind \in Adds : ArriveAdd(r, kind)
  BY <1>1, <1>2, AddTyped
<1>3. ASSUME NEW kind \in {"pause", "unpause", "remove"}, NEW id \in Ids, ArriveAbout(r, kind, id)
      PROVE  RequestOK' /\ Numbered'
  <2> DEFINE e == IF Reg!Task(id) THEN [at |-> FirstStep(kind), kind |-> kind, id |-> id]
                                  ELSE [at |-> "replied", kind |-> "", id |-> 0]
  <2>1. op' = [op EXCEPT ![r] = e] /\ UNCHANGED nextID
    BY <1>3 DEF ArriveAbout, Reply, NoRequest
  <2>2. e \in Entries /\ e.at \in {"flag", "gate", "replied"}
    BY DEF Entries, Places, AllKinds, FirstStep
  <2> HIDE DEF e
  <2> QED
    BY <1>1, <2>1, <2>2, MoveTyped
<1>4. CASE ArriveShutdown(r)
  <2> DEFINE e == [op[r] EXCEPT !.at = "stop"]
  <2>1. op' = [op EXCEPT ![r] = e] /\ UNCHANGED nextID
    BY <1>4 DEF ArriveShutdown, Goto
  <2>2. e \in Entries /\ e.at = "stop"
    BY DEF Typed, TypeOK, RequestOK, Entries, Places
  <2> HIDE DEF e
  <2> QED
    BY <1>1, <2>1, <2>2, MoveTyped
<1> QED
  BY <1>2, <1>3, <1>4 DEF ArriveTurn, Arrive

\* Steps of requests within track.
LEMMA TrackTyped ==
  ASSUME Typed, NEW r \in Requests, exit = "no",
         LoadMap(r) \/ BuildMap(r) \/ SwapMap(r) \/ Enqueue(r)
  PROVE  Typed'
<1>1. /\ UNCHANGED mainVars /\ UNCHANGED daemonVars /\ UNCHANGED loop /\ UNCHANGED taskVars
      /\ UNCHANGED bcVars /\ UNCHANGED nextID /\ UNCHANGED exit /\ Adding(r)
  BY DEF LoadMap, BuildMap, SwapMap, Enqueue, others, At, Adding, mainVars
<1>2. /\ op \in [Requests -> Entries] /\ op[r] \in Entries
      /\ op[r].id \in Ids
  BY <1>1 DEF Typed, TypeOK, RequestOK, Entries, Numbered
<1>3. PICK e \in Entries : op' = [op EXCEPT ![r] = e] /\ e.at # "idle"
                           /\ (e.at \in {"load", "build", "swap", "enqueue"} => e.id = op[r].id)
  <2> DEFINE to1(p) == [op[r] EXCEPT !.at = p]
  <2>1. \A p \in Places \ {"idle"} : to1(p) \in Entries /\ to1(p).at = p /\ to1(p).id = op[r].id
    BY <1>2 DEF Entries, Places
  <2>2. /\ [at |-> "replied", kind |-> "", id |-> 0] \in Entries
        /\ {"load", "build", "swap", "enqueue", "announce"} \subseteq Places \ {"idle"}
    BY DEF Entries, Places
  <2>3. \/ \E p \in {"load", "build", "swap", "enqueue", "announce"} : op' = [op EXCEPT ![r] = to1(p)]
        \/ op' = [op EXCEPT ![r] = [at |-> "replied", kind |-> "", id |-> 0]]
    BY <1>2 DEF LoadMap, BuildMap, SwapMap, Enqueue, Goto, Reply, NoRequest
  <2> HIDE DEF to1
  <2> QED
    BY <2>1, <2>2, <2>3
<1>4. RequestOK' /\ Numbered'
  BY <1>1, <1>3, MoveTyped
<1>5. RegistryOK'
  <2>1. CASE LoadMap(r)
    BY <2>1 DEF Typed, TypeOK, RegistryOK, LoadMap, Reg!Load
  <2>2. CASE BuildMap(r)
    <3>1. cur[r] \cup {op[r].id} \subseteq Ids
      BY <1>2 DEF Typed, TypeOK, RegistryOK
    <3>2. /\ nv' = [nv EXCEPT ![r] = nv'[r]] /\ nv'[r] \subseteq cur[r] \cup {op[r].id}
          /\ UNCHANGED <<registry, cur>>
      BY <2>2 DEF Typed, TypeOK, RegistryOK, BuildMap, Reg!Build, Reg!DropTerminalTasks
    <3> QED
      BY <3>1, <3>2 DEF Typed, TypeOK, RegistryOK
  <2>3. CASE SwapMap(r)
    BY <2>3 DEF Typed, TypeOK, RegistryOK, SwapMap, Reg!Swap, regVars
  <2>4. CASE Enqueue(r)
    BY <2>4 DEF Typed, TypeOK, RegistryOK, Enqueue, regVars
  <2> QED
    BY <2>1, <2>2, <2>3, <2>4
<1>6. PoolOK'
  <2>1. \/ UNCHANGED poolVars
        \/ waiting' = Append(waiting, op[r].id) /\ UNCHANGED <<running, finished, open>>
    BY DEF LoadMap, BuildMap, SwapMap, Enqueue, others, Pool!Submit
  <2>2. Append(waiting, op[r].id) \in Seq(Ids)
    BY <1>2 DEF Typed, TypeOK, PoolOK
  <2> QED
    BY <2>1, <2>2, Kept DEF Typed, TypeOK, PoolOK
<1> QED
  BY <1>1, <1>4, <1>5, <1>6, Kept DEF Typed, TypeOK

\* The other steps of requests.
LEMMA ActTyped ==
  ASSUME Typed, NEW r \in Requests, exit = "no",
         \/ Gate(r) \/ Mark(r) \/ Flag(r) \/ CancelTask(r)
         \/ Announce(r) \/ Tell(r) \/ Stop(r) \/ Stopped(r)
  PROVE  Typed'
<1>1. /\ UNCHANGED mainVars /\ UNCHANGED loop /\ UNCHANGED poolVars /\ UNCHANGED regVars
      /\ UNCHANGED nextID /\ UNCHANGED exit
  BY DEF Gate, Mark, Flag, CancelTask, Announce, Tell, Stop, Stopped, others, mainVars
<1>2. op \in [Requests -> Entries] /\ op[r] \in Entries
  BY DEF Typed, TypeOK, RequestOK, Entries
<1>3. RequestOK' /\ Numbered'
  <2>1. CASE UNCHANGED op
    BY <1>1, <2>1, Kept DEF Typed, TypeOK
  <2>2. ASSUME NEW e \in Entries, op' = [op EXCEPT ![r] = e],
               e.at \in {"mark", "announce", "cancel", "tell", "wait", "replied"}
        PROVE  RequestOK' /\ Numbered'
    BY <1>1, <2>2, MoveTyped
  <2> DEFINE to1(p) == [op[r] EXCEPT !.at = p]
  <2>3. \A p \in {"mark", "announce", "cancel", "tell", "wait"} :
          to1(p) \in Entries /\ to1(p).at = p
    BY <1>2 DEF Entries, Places
  <2>4. [at |-> "replied", kind |-> "", id |-> 0] \in Entries
    BY DEF Entries, Places
  <2>5. \/ UNCHANGED op
        \/ \E p \in {"mark", "announce", "cancel", "tell", "wait"} : op' = [op EXCEPT ![r] = to1(p)]
        \/ op' = [op EXCEPT ![r] = [at |-> "replied", kind |-> "", id |-> 0]]
    BY <1>2 DEF Gate, Mark, Flag, CancelTask, Announce, Tell, Stop, Stopped, Goto, Reply, NoRequest
  <2> HIDE DEF to1
  <2> QED
    BY <2>1, <2>2, <2>3, <2>4, <2>5
<1>4. TaskOK'
  BY DEF Typed, TypeOK, TaskOK, Gate, Mark, Flag, CancelTask, Announce, Tell, Stop, Stopped, taskVars
<1>5. DaemonOK'
  BY DEF Typed, TypeOK, DaemonOK, Gate, Mark, Flag, CancelTask, Announce, Tell, Stop, Stopped,
         daemonVars
<1>6. EventsOK'
  BY DEF Typed, TypeOK, EventsOK, Gate, Mark, Flag, CancelTask, Announce, Tell, Stop, Stopped,
         bcVars, Bc!Address, Bc!Offer
<1> QED
  BY <1>1, <1>3, <1>4, <1>5, <1>6, Kept DEF Typed, TypeOK

LEMMA StepTyped == Typed /\ [Next]_vars => Typed'
<1> SUFFICES ASSUME Typed, [Next]_vars PROVE Typed'
  OBVIOUS
<1>1. CASE UNCHANGED vars
  <2>1. /\ UNCHANGED mainVars /\ UNCHANGED daemonVars /\ UNCHANGED poolVars /\ UNCHANGED loop
        /\ UNCHANGED taskVars /\ UNCHANGED <<exit, nextID, op>> /\ UNCHANGED regVars /\ UNCHANGED bcVars
    BY <1>1 DEF vars, mainVars
  <2> QED
    BY <2>1, Kept DEF Typed, TypeOK
<1>2. ASSUME NEW r \in Requests, RequestTurn(r) PROVE Typed'
  BY <1>2, TrackTyped, ActTyped DEF RequestTurn, RequestStep, Running
<1>3. ASSUME NEW r \in Requests, ArriveTurn(r) PROVE Typed'
  BY <1>3, ArriveTyped
<1>4. ASSUME NEW t \in Ids, TaskTurn(t) \/ TaskEndTurn(t) PROVE Typed'
  BY <1>4, TaskTyped
<1> QED
  BY <1>1, <1>2, <1>3, <1>4, MainTyped, PoolTyped, ClientTyped, ExitTyped DEF Next

\* Every variable has its type, and there is a number for every task a request
\* makes: NewTask counts, and each request makes at most one.
THEOREM DaemonTypes == Spec => []TypeOK
<1>1. Spec => []Typed
  BY InitTyped, StepTyped, PTL DEF Spec
<1> QED
  BY <1>1, PTL DEF Typed

-----------------------------------------------------------------------------
(* How the daemon comes to its end.  done closes after Run has returned;    *)
(* whoever takes the hook, OnDead itself or the daemon's goroutine, is the  *)
(* only one to call it.                                                     *)

Ending ==
  /\ daemon = "none" <=> main = "start"
  /\ done <=> daemon \in {"closed", "fire", "over"}
  /\ main \in {"start", "hook"} => shutdown = 0 /\ ~ondead /\ daemon # "fire"
  /\ ondead => shutdown = 0 /\ daemon \in {"run", "returned", "closed"}
  /\ daemon = "fire" => shutdown = 0 /\ ~ondead
  /\ shutdown \in {0, 1} /\ (shutdown = 1 => done)

\* Run returns only when nothing can start any more; what has started is live
\* until it has returned.
Drained ==
  /\ daemon \notin {"none", "run"} => ~open /\ running = {}
  /\ ~open => waiting = <<>>
  /\ \A t \in Ids : phase[t] \in {"begun", "active", "verify"} => t \in running

EndsWell ==
  exit = "ok" => ~open /\ running = {} /\ \A t \in Ids : phase[t] \in {"new", "returned"}

CleanInv == Typed /\ Ending /\ Drained /\ EndsWell

LEMMA InitClean == Init => CleanInv
<1> SUFFICES ASSUME Init PROVE CleanInv
  OBVIOUS
<1>1. Ending
  <2>1. /\ main = "start" /\ daemon = "none" /\ shutdown = 0
        /\ ~done /\ ~ondead
    BY DEF Init
  <2> QED
    BY <2>1 DEF Ending
<1>2. Drained
  BY DEF Init, Drained, Pool!Init
<1>3. EndsWell
  BY DEF Init, EndsWell
<1> QED
  BY <1>1, <1>2, <1>3, InitTyped DEF CleanInv

LEMMA StepEnding ==
  ASSUME Typed, Ending, Next
  PROVE  Ending'
<1>1. shutdown \in Nat /\ done \in BOOLEAN /\ ondead \in BOOLEAN
  BY DEF Typed, TypeOK, MainOK, DaemonOK
<1>2. CASE MainTurn
  <2>1. CASE StartDaemon
    BY <2>1 DEF StartDaemon, Ending
  <2>2. CASE OnDead
    <3>1. CASE done
      <4>1. shutdown' = 1 /\ ~ondead' /\ main' = "listen" /\ UNCHANGED <<daemon, done>>
        BY <2>2, <3>1 DEF OnDead, DoneClosed, Ending
      <4> QED
        BY <2>2, <3>1, <4>1 DEF OnDead, Ending
    <3>2. CASE ~done
      <4>1. shutdown' = 0 /\ main' = "listen" /\ UNCHANGED <<daemon, done>> /\ main = "hook"
        BY <2>2, <3>2 DEF OnDead, DoneClosed, Ending
      <4>2. daemon \in {"run", "returned"}
        BY <3>2, <4>1, <1>1 DEF Ending, Typed, TypeOK, DaemonOK
      <4> QED
        BY <3>2, <4>1, <4>2 DEF Ending
    <3> QED
      BY <3>1, <3>2
  <2>3. CASE Listen
    BY <2>3 DEF Listen, Ending, daemonVars
  <2> QED
    BY <1>2, <2>1, <2>2, <2>3 DEF MainTurn, MainStep
<1>3. CASE DaemonTurn
  <2>1. CASE RunReturns
    BY <2>1 DEF RunReturns, Ending, mainVars
  <2>2. CASE CloseDone
    BY <2>2 DEF CloseDone, Ending, mainVars
  <2>3. CASE TakeHooks
    BY <2>3 DEF TakeHooks, Ending, mainVars
  <2>4. CASE FireHooks
    BY <2>4 DEF FireHooks, Ending
  <2> QED
    BY <1>3, <2>1, <2>2, <2>3, <2>4 DEF DaemonTurn, DaemonStep
<1>4. CASE UNCHANGED <<main, shutdown, daemon, done, ondead>>
  BY <1>4 DEF Ending
<1>5. SignalTurn \/ ExitTurn \/ FailTurn => UNCHANGED <<main, shutdown, daemon, done, ondead>>
  BY DEF SignalTurn, Signal, ExitTurn, Exit, FailTurn, ListenFails, ServeFails, EndProcess, daemonVars
<1>6. AdmitTurn \/ LoopTurn \/ ForwardTurn => UNCHANGED <<main, shutdown, daemon, done, ondead>>
  BY DEF AdmitTurn, LoopTurn, ForwardTurn, BesidePool, BesideEvents, mainVars, daemonVars
<1>7. ASSUME NEW t \in Ids, TaskTurn(t) \/ TaskEndTurn(t)
      PROVE  UNCHANGED <<main, shutdown, daemon, done, ondead>>
  BY <1>7 DEF TaskTurn, TaskEndTurn, BesideTask, mainVars, daemonVars
<1>8. ASSUME NEW r \in Requests, ArriveTurn(r) \/ RequestTurn(r)
      PROVE  UNCHANGED <<main, shutdown, daemon, done, ondead>>
  <2>1. CASE ArriveTurn(r)
    BY <2>1 DEF ArriveTurn, Arrive, others, mainVars, daemonVars
  <2>2. CASE RequestTurn(r)
    BY <2>2 DEF RequestTurn, RequestStep, LoadMap, BuildMap, SwapMap, Enqueue, Gate, Mark, Flag,
         CancelTask, Announce, Tell, Stop, Stopped, others, mainVars, daemonVars
  <2> QED
    BY <1>8, <2>1, <2>2
<1>9. ASSUME NEW s \in Subscribers, AttachTurn(s) \/ PumpTurn(s)
      PROVE  UNCHANGED <<main, shutdown, daemon, done, ondead>>
  BY <1>9 DEF AttachTurn, PumpTurn, BesideEvents, mainVars, daemonVars
<1> QED
  BY <1>2, <1>3, <1>4, <1>5, <1>6, <1>7, <1>8, <1>9 DEF Next

LEMMA StepDrained ==
  ASSUME Typed, Drained, Next
  PROVE  Drained'
<1>1. waiting \in Seq(Ids) /\ running \subseteq Ids /\ phase \in [Ids -> {"new", "begun", "active", "verify", "returned"}]
  BY DEF Typed, TypeOK, PoolOK, TaskOK
<1>2. CASE UNCHANGED <<daemon, open, waiting, running, phase>>
  BY <1>2 DEF Drained
<1>3. CASE MainTurn
  <2>1. UNCHANGED <<open, waiting, running, phase>> /\ (daemon' = daemon \/ daemon' = "run")
    BY <1>3 DEF MainTurn, BesideMain, poolVars, taskVars, MainStep, StartDaemon, OnDead, Listen, daemonVars
  <2> QED
    BY <2>1 DEF Drained
<1>4. CASE DaemonTurn
  <2>1. /\ UNCHANGED <<open, waiting, running, phase>>
        /\ daemon \notin {"none", "run"} \/ (~open /\ running = {})
    BY <1>4 DEF DaemonTurn, BesideMain, poolVars, taskVars, DaemonStep, RunReturns, CloseDone,
         TakeHooks, FireHooks
  <2> QED
    BY <2>1 DEF Drained
<1>5. CASE AdmitTurn
  <2>1. /\ waiting # <<>> /\ running \subseteq running'
        /\ UNCHANGED <<daemon, open, phase>>
    BY <1>5 DEF AdmitTurn, Admit, Pool!Begin, BesidePool, daemonVars, taskVars
  <2> QED
    BY <2>1 DEF Drained
<1>6. CASE LoopTurn
  <2>1. UNCHANGED <<daemon, phase>>
    BY <1>6 DEF LoopTurn, BesidePool, daemonVars, taskVars
  <2>2. CASE SeeCancel
    <3>1. ~open' /\ waiting' = <<>> /\ running' = running /\ daemon = "run"
      BY <2>2 DEF SeeCancel, Pool!Close
    <3> QED
      BY <2>1, <3>1 DEF Drained
  <2>3. ASSUME NEW t \in Ids, Retire(t) PROVE Drained'
    <3>1. phase[t] = "returned" /\ running' = running \ {t} /\ UNCHANGED <<waiting, open>>
      BY <2>3 DEF Retire, Pool!Finish
    <3> QED
      BY <2>1, <3>1 DEF Drained
  <2>4. CASE OnTaskComplete \/ TellEnd
    BY <2>1, <2>4, <1>2 DEF OnTaskComplete, TellEnd, poolVars
  <2> QED
    BY <1>6, <2>2, <2>3, <2>4 DEF LoopTurn, LoopStep
<1>7. ASSUME NEW t \in Ids, TaskTurn(t) \/ TaskEndTurn(t) PROVE Drained'
  <2>1. UNCHANGED <<daemon, open, waiting, running>>
    BY <1>7 DEF TaskTurn, TaskEndTurn, BesideTask, daemonVars, poolVars
  <2>2. \E p \in {"new", "begun", "active", "verify", "returned"} :
          phase' = [phase EXCEPT ![t] = p] /\ (p = "returned" \/ phase[t] \in {"begun", "active", "verify"} \/ t \in running)
    BY <1>7 DEF TaskTurn, TaskEndTurn, TaskStep, TaskEnds, BeginStart, CheckCancelled, EndAs,
         EndCancelled, EndFailed, DeclareComplete, VerifyChecksum
  <2> QED
    BY <2>1, <2>2, <1>1 DEF Drained
<1>8. ASSUME NEW r \in Requests, ArriveTurn(r) \/ RequestTurn(r) PROVE Drained'
  <2>1. CASE Enqueue(r)
    <3>1. UNCHANGED poolVars \/ open
      BY <2>1 DEF Enqueue
    <3>2. UNCHANGED <<daemon, phase, running, open>>
      BY <2>1 DEF Enqueue, daemonVars, taskVars, poolVars, Pool!Submit
    <3> QED
      BY <3>1, <3>2 DEF Drained, poolVars
  <2>2. CASE ~Enqueue(r)
    <3>1. UNCHANGED poolVars /\ UNCHANGED phase
      BY <1>8, <2>2 DEF ArriveTurn, Arrive, RequestTurn, RequestStep, LoadMap, BuildMap, SwapMap, Gate,
           Mark, Flag, CancelTask, Announce, Tell, Stop, Stopped, others, taskVars
    <3>2. UNCHANGED daemon
      BY <1>8, <2>2 DEF ArriveTurn, Arrive, RequestTurn, RequestStep, LoadMap, BuildMap, SwapMap, Gate,
           Mark, Flag, CancelTask, Announce, Tell, Stop, Stopped, daemonVars
    <3> QED
      BY <3>1, <3>2, <1>2 DEF poolVars
  <2> QED
    BY <2>1, <2>2
<1>9. ASSUME NEW s \in Subscribers, AttachTurn(s) \/ PumpTurn(s) PROVE Drained'
  BY <1>9, <1>2 DEF AttachTurn, PumpTurn, BesideEvents, daemonVars, poolVars, taskVars
<1>10. CASE SignalTurn \/ ExitTurn \/ FailTurn \/ ForwardTurn
  BY <1>10, <1>2 DEF SignalTurn, Signal, BesideMain, ExitTurn, Exit, FailTurn, ListenFails, ServeFails,
       EndProcess, ForwardTurn, BesideEvents, daemonVars, poolVars, taskVars
<1> QED
  BY <1>3, <1>4, <1>5, <1>6, <1>7, <1>8, <1>9, <1>10 DEF Next

\* Only the end of the process touches how it ended.
LEMMA StepExit ==
  ASSUME Next
  PROVE  UNCHANGED exit \/ ExitTurn \/ FailTurn
<1>1. MainTurn \/ DaemonTurn \/ SignalTurn => UNCHANGED exit
  BY DEF MainTurn, MainStep, StartDaemon, OnDead, Listen, DaemonTurn, DaemonStep, RunReturns,
         CloseDone, TakeHooks, FireHooks, SignalTurn, Signal, mainVars
<1>2. AdmitTurn \/ LoopTurn \/ ForwardTurn => UNCHANGED exit
  BY DEF AdmitTurn, LoopTurn, ForwardTurn, BesidePool, BesideEvents, mainVars
<1>3. \A t \in Ids : TaskTurn(t) \/ TaskEndTurn(t) => UNCHANGED exit
  BY DEF TaskTurn, TaskEndTurn, BesideTask, mainVars
<1>4. ASSUME NEW r \in Requests, ArriveTurn(r) \/ RequestTurn(r) PROVE UNCHANGED exit
  BY <1>4 DEF ArriveTurn, Arrive, RequestTurn, RequestStep, LoadMap, BuildMap, SwapMap, Enqueue, Gate,
       Mark, Flag, CancelTask, Announce, Tell, Stop, Stopped, others, mainVars
<1>5. \A s \in Subscribers : AttachTurn(s) \/ PumpTurn(s) => UNCHANGED exit
  BY DEF AttachTurn, PumpTurn, BesideEvents, mainVars
<1> QED
  BY <1>1, <1>2, <1>3, <1>4, <1>5 DEF Next

\* The process ends with success once the hook has been called, when Run is over.
LEMMA StepEndsWell ==
  ASSUME Typed, Ending, Drained, EndsWell, Next
  PROVE  EndsWell'
<1>1. CASE exit' # "ok"
  BY <1>1 DEF EndsWell
<1>2. CASE exit' = "ok"
  <2>1. exit = "no"
    BY DEF Next, MainTurn, DaemonTurn, SignalTurn, ExitTurn, FailTurn, AdmitTurn, LoopTurn,
         TaskTurn, TaskEndTurn, ArriveTurn, RequestTurn, ForwardTurn, AttachTurn, PumpTurn, Running
  <2>2. shutdown > 0 /\ EndProcess("ok")
    <3>1. UNCHANGED exit \/ ExitTurn \/ FailTurn
      BY StepExit
    <3> QED
      BY <3>1, <2>1, <1>2 DEF ExitTurn, Exit, FailTurn, ListenFails, ServeFails, EndProcess
  <2>3. shutdown = 1 /\ done
    BY <2>2 DEF Ending
  <2>4. ~open /\ running = {}
    BY <2>3 DEF Ending, Drained
  <2>5. \A t \in Ids : phase[t] \in {"new", "returned"}
    BY <2>4 DEF Drained, Typed, TypeOK, TaskOK
  <2> QED
    BY <2>2, <2>4, <2>5 DEF EndProcess, EndsWell, poolVars, taskVars
<1> QED
  BY <1>1, <1>2

LEMMA StepClean == CleanInv /\ [Next]_vars => CleanInv'
<1> SUFFICES ASSUME CleanInv, [Next]_vars PROVE CleanInv'
  OBVIOUS
<1>1. Typed'
  BY StepTyped DEF CleanInv
<1>2. CASE Next
  BY <1>1, <1>2, StepEnding, StepDrained, StepEndsWell DEF CleanInv
<1>3. CASE UNCHANGED vars
  <2>1. UNCHANGED <<main, exit, shutdown, daemon, done, ondead, open, waiting, running, phase>>
    BY <1>3 DEF vars, mainVars, daemonVars, poolVars, taskVars
  <2> QED
    BY <1>1, <2>1 DEF CleanInv, Ending, Drained, EndsWell
<1> QED
  BY <1>2, <1>3

\* The hook fires at most once and only when Run is over; the process ends with
\* success only then, with no download left under way.
THEOREM DaemonEndsClean == Spec => []ShutdownIsClean
<1>1. CleanInv => ShutdownIsClean
  BY DEF CleanInv, Ending, EndsWell, ShutdownIsClean
<1>2. Spec => []CleanInv
  BY InitClean, StepClean, PTL DEF Spec
<1> QED
  BY <1>1, <1>2, PTL

-----------------------------------------------------------------------------
(* Where the tasks are.  A request that makes a task is the only one that   *)
(* knows its number until the task is handed over.                          *)

Touched == {t \in Ids : phase[t] # "new"}

\* Tasks somebody has taken on.
Placed == Range(waiting) \cup running \cup finished

QueueInv ==
  /\ IsInjective(waiting) /\ Range(waiting) \cap (running \cup finished) = {}
  /\ \A t \in Placed : t < nextID
  /\ Touched \subseteq running \cup finished
  /\ \A r \in Requests : Adding(r) => op[r].id \notin Placed
  /\ \A r, q \in Requests : Adding(r) /\ Adding(q) /\ op[r].id = op[q].id => r = q

\* A file is decided when the download has come to its end, and stays so.
Decided == {t \in Ids : phase[t] \in {"verify", "returned"}}

\* The registry never loses a task that is not decided: every copy a request
\* would swap in lacks decided tasks at most, and has the request's own.
RegistryInv ==
  /\ \A t \in Ids : state[t] \in {"completed", "error"} => t \in Decided
  /\ \A r \in Requests : op[r].at = "swap" => cur[r] \ nv[r] \subseteq Decided /\ op[r].id \in nv[r]
  /\ \A r \in Requests : op[r].at = "enqueue" => op[r].id \in registry

FoundInv == Typed /\ QueueInv /\ RegistryInv /\ ActionableFound

LEMMA InitFound == Init => FoundInv
<1> SUFFICES ASSUME Init PROVE FoundInv
  OBVIOUS
<1>1. waiting = <<>> /\ running = {} /\ finished = {}
  BY DEF Init, Pool!Init
<1>2. \A r \in Requests : op[r].at = "idle"
  BY DEF Init, NoRequest
<1>3. Range(waiting) = {} /\ IsInjective(waiting)
  BY <1>1 DEF Range, IsInjective
<1>4. \A t \in Ids : phase[t] = "new" /\ state[t] = "queued"
  BY DEF Init
<1>5. \A r \in Requests : ~Adding(r)
  BY <1>2 DEF Adding
<1>6. QueueInv
  BY <1>1, <1>3, <1>4, <1>5 DEF QueueInv, Placed, Touched
<1>7. RegistryInv
  BY <1>2, <1>4 DEF RegistryInv
<1>8. ActionableFound
  BY <1>1 DEF ActionableFound, Undecided
<1> QED
  BY <1>6, <1>7, <1>8, InitTyped DEF FoundInv

\* A request's own step: it goes on with its task, or has none any more.
LEMMA RequestMoves ==
  ASSUME Typed, NEW r \in Requests, RequestStep(r)
  PROVE  /\ \A q \in Requests \ {r} : op'[q] = op[q]
         /\ UNCHANGED nextID
         /\ Adding(r)' => Adding(r) /\ op'[r].id = op[r].id
         /\ op'[r].at = "swap" => BuildMap(r)
         /\ op'[r].at = "enqueue" => SwapMap(r) /\ Reg!Swap(r)
<1>1. op \in [Requests -> Entries]
  BY DEF Typed, TypeOK, RequestOK, Entries
<1>2. op[r] \in Entries
  BY <1>1
<1>3. CASE LoadMap(r) \/ BuildMap(r) \/ SwapMap(r)
  BY <1>1, <1>2, <1>3 DEF LoadMap, BuildMap, SwapMap, Goto, At, Adding, Entries
<1>4. CASE Enqueue(r)
  BY <1>1, <1>2, <1>4 DEF Enqueue, Goto, Reply, NoRequest, At, Adding, Entries
<1>5. CASE Gate(r) \/ Mark(r) \/ Flag(r) \/ CancelTask(r)
  <2>1. CASE Gate(r)
    BY <1>1, <1>2, <2>1 DEF Gate, Goto, Reply, NoRequest, At, Adding, Entries
  <2>2. CASE Mark(r)
    BY <1>1, <1>2, <2>2 DEF Mark, Goto, Reply, NoRequest, At, Adding, Entries
  <2>3. CASE Flag(r)
    BY <1>1, <1>2, <2>3 DEF Flag, Goto, Reply, NoRequest, At, Adding, Entries
  <2>4. CASE CancelTask(r)
    BY <1>1, <1>2, <2>4 DEF CancelTask, Goto, Reply, NoRequest, At, Adding, Entries
  <2> QED
    BY <1>5, <2>1, <2>2, <2>3, <2>4
<1>6. CASE Announce(r) \/ Tell(r) \/ Stop(r) \/ Stopped(r)
  BY <1>1, <1>2, <1>6 DEF Announce, Tell, Stop, Stopped, Goto, Reply, NoRequest, At, Adding, Entries
<1> QED
  BY <1>3, <1>4, <1>5, <1>6 DEF RequestStep

LEMMA ArriveMoves ==
  ASSUME Typed, NEW r \in Requests, ArriveTurn(r)
  PROVE  /\ \A q \in Requests \ {r} : op'[q] = op[q]
         /\ op'[r].at \in {"load", "flag", "gate", "replied", "stop"}
         /\ (\E kind \in Adds : ArriveAdd(r, kind)) \/ (UNCHANGED nextID /\ op'[r].at # "load")
<1>1. op \in [Requests -> Entries] /\ op[r] \in Entries
  BY DEF Typed, TypeOK, RequestOK, Entries
<1>2. ASSUME NEW kind \in Adds, ArriveAdd(r, kind)
      PROVE  op'[r].at = "load" /\ \A q \in Requests \ {r} : op'[q] = op[q]
  BY <1>1, <1>2 DEF ArriveAdd
<1>3. ASSUME NEW kind \in AllKinds, NEW id \in Ids, ArriveAbout(r, kind, id)
      PROVE  /\ op'[r].at \in {"flag", "gate", "replied"} /\ UNCHANGED nextID
             /\ \A q \in Requests \ {r} : op'[q] = op[q]
  <2>1. FirstStep(kind) \in {"flag", "gate"}
    BY DEF FirstStep
  <2>2. CASE Reg!Task(id)
    BY <1>1, <1>3, <2>1, <2>2 DEF ArriveAbout
  <2>3. CASE ~Reg!Task(id)
    BY <1>1, <1>3, <2>3 DEF ArriveAbout, Reply, NoRequest
  <2> QED
    BY <2>2, <2>3
<1>4. ASSUME ArriveShutdown(r)
      PROVE  op'[r].at = "stop" /\ UNCHANGED nextID /\ \A q \in Requests \ {r} : op'[q] = op[q]
  BY <1>1, <1>4 DEF ArriveShutdown, Goto, Entries
<1>5. \/ \E kind \in Adds : ArriveAdd(r, kind)
      \/ \E kind \in AllKinds, id \in Ids : ArriveAbout(r, kind, id)
      \/ ArriveShutdown(r)
  BY DEF ArriveTurn, Arrive, AllKinds
<1> QED
  BY <1>2, <1>3, <1>4, <1>5

\* Steps that hand nothing over, and after which the same or fewer requests hold
\* a task.
LEMMA QueueKept ==
  ASSUME QueueInv, UNCHANGED <<waiting, running, finished, nextID>>,
         Touched' \subseteq Touched \cup running,
         \A r \in Requests : Adding(r)' => Adding(r) /\ op'[r].id = op[r].id
  PROVE  QueueInv'
BY DEF QueueInv, Placed

LEMMA PoolQueue ==
  ASSUME Typed, QueueInv, AdmitTurn \/ LoopTurn
  PROVE  QueueInv'
<1>1. UNCHANGED <<nextID, op, phase>>
  BY DEF AdmitTurn, LoopTurn, BesidePool, taskVars
<1>2. Touched' = Touched /\ \A r \in Requests : Adding(r)' = Adding(r)
  BY <1>1 DEF Touched, Adding
<1>3. waiting \in Seq(Ids)
  BY DEF Typed, TypeOK, PoolOK
<1>4. CASE Admit
  <2>1. /\ waiting # <<>> /\ waiting' = Tail(waiting) /\ running' = running \cup {Head(waiting)}
        /\ UNCHANGED finished
    BY <1>4 DEF Admit, Pool!Begin
  <2>2. /\ Head(waiting) \in Range(waiting) /\ IsInjective(Tail(waiting))
        /\ Range(Tail(waiting)) = Range(waiting) \ {Head(waiting)}
    BY <1>3, <2>1, TailOfInjective DEF QueueInv
  <2>3. Placed' = Placed
    BY <2>1, <2>2 DEF Placed
  <2> QED
    BY <1>1, <1>2, <2>1, <2>2, <2>3 DEF QueueInv
<1>5. CASE SeeCancel
  <2>1. waiting' = <<>> /\ UNCHANGED <<running, finished>>
    BY <1>5 DEF SeeCancel, Pool!Close
  <2>2. Range(waiting') = {} /\ IsInjective(waiting')
    BY <2>1 DEF Range, IsInjective
  <2>3. Placed' \subseteq Placed
    BY <2>1, <2>2 DEF Placed
  <2> QED
    BY <1>1, <1>2, <2>1, <2>2, <2>3 DEF QueueInv
<1>6. ASSUME NEW t \in Ids, Retire(t) PROVE QueueInv'
  <2>1. /\ t \in running /\ running' = running \ {t} /\ finished' = finished \cup {t}
        /\ UNCHANGED waiting
    BY <1>6 DEF Retire, Pool!Finish
  <2>2. running' \cup finished' = running \cup finished
    BY <2>1
  <2>3. Placed' = Placed
    BY <2>1, <2>2 DEF Placed
  <2> QED
    BY <1>1, <1>2, <2>1, <2>2, <2>3 DEF QueueInv
<1>7. CASE OnTaskComplete \/ TellEnd
  <2>1. UNCHANGED <<waiting, running, finished>>
    BY <1>7 DEF OnTaskComplete, TellEnd, poolVars
  <2> QED
    BY <1>1, <1>2, <2>1, QueueKept
<1> QED
  BY <1>4, <1>5, <1>6, <1>7 DEF AdmitTurn, LoopTurn, LoopStep

LEMMA RequestQueue ==
  ASSUME Typed, QueueInv, NEW r \in Requests, ArriveTurn(r) \/ RequestTurn(r)
  PROVE  QueueInv'
<1>1. UNCHANGED <<phase, running, finished>> /\ Touched' = Touched
  BY DEF ArriveTurn, Arrive, RequestTurn, RequestStep, LoadMap, BuildMap, SwapMap, Enqueue, Gate,
         Mark, Flag, CancelTask, Announce, Tell, Stop, Stopped, others, poolVars, taskVars,
         Pool!Submit, Touched
<1>2. op \in [Requests -> Entries] /\ op[r] \in Entries /\ waiting \in Seq(Ids) /\ nextID \in Nat
  BY DEF Typed, TypeOK, RequestOK, PoolOK, Entries
<1>3. CASE ArriveTurn(r)
  <2>1. UNCHANGED waiting /\ op[r].at = "idle" /\ exit = "no" /\ UNCHANGED exit
    BY <1>3 DEF ArriveTurn, Arrive, others, poolVars, mainVars, At, Running
  <2>2. ASSUME NEW kind \in Adds, ArriveAdd(r, kind) PROVE QueueInv'
    <3>1. /\ nextID' = nextID + 1
          /\ \A q \in Requests : op'[q] = IF q = r THEN [at |-> "load", kind |-> kind, id |-> nextID]
                                          ELSE op[q]
      BY <1>2, <2>2 DEF ArriveAdd
    <3>2. op'[r].id = nextID /\ \A q \in Requests \ {r} : Adding(q)' => Adding(q) /\ op'[q].id = op[q].id
      BY <3>1 DEF Adding
    <3>3. \A q \in Requests \ {r} : Adding(q)' => op'[q].id < nextID /\ op'[q].id \in Ids
      BY <3>2 DEF Typed, Numbered
    <3>4. Placed' = Placed /\ \A t \in Placed : t < nextID /\ t \in Nat
      <4>1. Range(waiting) \subseteq Ids
        BY <1>2 DEF Range
      <4>2. Placed' = Placed
        BY <1>1, <2>1 DEF Placed
      <4>3. Placed \subseteq Ids
        BY <4>1 DEF Placed, Typed, TypeOK, PoolOK
      <4> QED
        BY <4>2, <4>3 DEF QueueInv, Ids
    <3>5. \A t \in Placed' : t < nextID'
      BY <1>2, <3>1, <3>4
    <3>6. \A q \in Requests : Adding(q)' => op'[q].id \notin Placed'
      BY <1>2, <3>2, <3>4 DEF QueueInv
    <3>7. ASSUME NEW q1 \in Requests, NEW q2 \in Requests, Adding(q1)', Adding(q2)',
                 op'[q1].id = op'[q2].id
          PROVE  q1 = q2
      BY <1>2, <3>2, <3>3, <3>7 DEF QueueInv, Ids
    <3> QED
      BY <1>1, <2>1, <3>5, <3>6, <3>7 DEF QueueInv
  <2>3. CASE ~\E kind \in Adds : ArriveAdd(r, kind)
    BY <1>1, <1>3, <2>1, <2>3, ArriveMoves, QueueKept DEF Adding
  <2> QED
    BY <2>2, <2>3
<1>4. CASE RequestTurn(r)
  <2>1. RequestStep(r)
    BY <1>4 DEF RequestTurn
  <2>2. UNCHANGED nextID /\ \A q \in Requests : Adding(q)' => Adding(q) /\ op'[q].id = op[q].id
    BY <2>1, RequestMoves DEF Adding
  <2>3. CASE UNCHANGED waiting
    BY <1>1, <2>2, <2>3, QueueKept
  <2>4. CASE ~UNCHANGED waiting
    <3>1. Enqueue(r) /\ Pool!Submit(op[r].id)
      BY <2>1, <2>4 DEF RequestStep, LoadMap, BuildMap, SwapMap, Enqueue, Gate, Mark, Flag, CancelTask,
           Announce, Tell, Stop, Stopped, others, poolVars
    <3> DEFINE id == op[r].id
    <3>2. Adding(r) /\ id \in Ids /\ id < nextID /\ id \notin Placed /\ waiting' = Append(waiting, id)
      BY <3>1 DEF Enqueue, At, Adding, Typed, Numbered, QueueInv, Pool!Submit
    <3>3. ~Adding(r)'
      BY <1>2, <3>1 DEF Enqueue, Goto, Reply, NoRequest, Adding, Entries
    <3> HIDE DEF id
    <3>4. IsInjective(waiting') /\ Range(waiting') = Range(waiting) \cup {id}
      BY <1>2, <3>2, AppendToInjective DEF QueueInv, Placed
    <3>5. Placed' = Placed \cup {id}
      BY <1>1, <3>4 DEF Placed
    <3>6. \A q \in Requests : Adding(q)' => op'[q].id \notin Placed'
      BY <2>2, <3>2, <3>3, <3>5 DEF QueueInv, id
    <3>7. Range(waiting') \cap (running' \cup finished') = {}
      BY <1>1, <3>2, <3>4 DEF QueueInv, Placed
    <3>8. \A t \in Placed' : t < nextID'
      BY <2>2, <3>2, <3>5 DEF QueueInv
    <3> QED
      BY <1>1, <2>2, <3>4, <3>6, <3>7, <3>8 DEF QueueInv
  <2> QED
    BY <2>3, <2>4
<1> QED
  BY <1>3, <1>4

LEMMA StepQueue ==
  ASSUME Typed, QueueInv, Next
  PROVE  QueueInv'
<1>1. CASE UNCHANGED <<waiting, running, finished, nextID, phase, op>>
  BY <1>1, QueueKept DEF Touched, Adding
<1>2. CASE MainTurn \/ DaemonTurn \/ SignalTurn \/ ForwardTurn
  BY <1>1, <1>2 DEF MainTurn, DaemonTurn, SignalTurn, ForwardTurn, BesideMain, BesideEvents, poolVars,
       taskVars
<1>3. ASSUME NEW s \in Subscribers, AttachTurn(s) \/ PumpTurn(s) PROVE QueueInv'
  BY <1>1, <1>3 DEF AttachTurn, PumpTurn, BesideEvents, poolVars, taskVars
<1>4. ASSUME NEW t \in Ids, TaskTurn(t) \/ TaskEndTurn(t) PROVE QueueInv'
  <2>1. UNCHANGED <<waiting, running, finished, nextID, op>>
    BY <1>4 DEF TaskTurn, TaskEndTurn, BesideTask, poolVars
  <2>2. /\ phase[t] # "new" \/ t \in running
        /\ \A t1 \in Ids \ {t} : phase'[t1] = phase[t1]
    BY <1>4 DEF TaskTurn, TaskEndTurn, TaskStep, TaskEnds, BeginStart, CheckCancelled, EndAs,
         EndCancelled, EndFailed, DeclareComplete, VerifyChecksum, Typed, TypeOK, TaskOK
  <2>3. Touched' \subseteq Touched \cup running
    BY <2>2 DEF Touched
  <2> QED
    BY <2>1, <2>3, QueueKept DEF Adding
<1>5. CASE ExitTurn \/ FailTurn
  <2>1. PICK how : EndProcess(how)
    BY <1>5 DEF ExitTurn, FailTurn, Exit, ListenFails, ServeFails
  <2>2. UNCHANGED <<waiting, running, finished, nextID, phase>>
    BY <2>1 DEF EndProcess, poolVars, taskVars
  <2>3. \A r \in Requests : op'[r].at = "idle"
    BY <2>1 DEF EndProcess, NoRequest
  <2> QED
    BY <2>2, <2>3, QueueKept DEF Touched, Adding
<1> QED
  BY <1>2, <1>3, <1>4, <1>5, PoolQueue, RequestQueue DEF Next

\* Whoever is not decided was not, and nothing that reaches the registry has moved.
LEMMA FoundKept ==
  ASSUME RegistryInv, ActionableFound, UNCHANGED registry, Decided \subseteq Decided',
         \A t \in Ids : state'[t] \in {"completed", "error"} => t \in Decided' \/ state[t] = state'[t],
         \A r \in Requests : op'[r].at = "swap" => op[r].at = "swap" /\ cur'[r] = cur[r] /\ nv'[r] = nv[r]
                                                   /\ op'[r].id = op[r].id,
         \A r \in Requests : op'[r].at = "enqueue" => op[r].at = "enqueue" /\ op'[r].id = op[r].id,
         \A t \in Ids : Undecided(t)' => Undecided(t)
  PROVE  RegistryInv' /\ ActionableFound'
BY DEF RegistryInv, ActionableFound

LEMMA FoundStill ==
  ASSUME RegistryInv, ActionableFound, UNCHANGED <<registry, state, phase, waiting, running>>,
         \A r \in Requests : \/ op'[r].at \notin {"swap", "enqueue"}
                             \/ op'[r] = op[r] /\ cur'[r] = cur[r] /\ nv'[r] = nv[r]
  PROVE  RegistryInv' /\ ActionableFound'
<1>1. RegistryInv'
  BY DEF RegistryInv, Decided
<1>2. ActionableFound'
  BY DEF ActionableFound, Undecided
<1> QED
  BY <1>1, <1>2

LEMMA NotDecided ==
  ASSUME Typed, QueueInv, NEW t \in Ids
  PROVE  /\ Undecided(t) => t \notin Decided
         /\ \A r \in Requests : Adding(r) => op[r].id \notin Decided
<1>1. Decided \subseteq Touched
  BY DEF Decided, Touched
<1>2. t \in Range(waiting) => t \notin Touched
  BY DEF QueueInv
<1>3. (\E i \in DOMAIN waiting : waiting[i] = t) => t \in Range(waiting)
  BY DEF Range
<1>4. Undecided(t) => t \notin Decided
  BY <1>1, <1>2, <1>3 DEF Undecided, Decided
<1>5. \A r \in Requests : Adding(r) => op[r].id \notin Touched
  BY DEF QueueInv, Placed
<1> QED
  BY <1>1, <1>4, <1>5

LEMMA PoolFound ==
  ASSUME FoundInv, AdmitTurn \/ LoopTurn
  PROVE  RegistryInv' /\ ActionableFound'
<1> USE DEF FoundInv
<1>1. UNCHANGED <<registry, cur, nv, op, state, phase>>
  BY DEF AdmitTurn, LoopTurn, BesidePool, taskVars, regVars
<1>2. Decided' = Decided
  BY <1>1 DEF Decided
<1> SUFFICES \A t \in Ids : Undecided(t)' => Undecided(t)
  BY <1>1, <1>2, FoundKept
<1>3. waiting \in Seq(Ids)
  BY DEF Typed, TypeOK, PoolOK
<1>4. CASE Admit
  <2>1. /\ waiting # <<>> /\ waiting' = Tail(waiting) /\ running' = running \cup {Head(waiting)}
    BY <1>4 DEF Admit, Pool!Begin
  <2>2. /\ Head(waiting) \in Range(waiting) /\ Range(Tail(waiting)) = Range(waiting) \ {Head(waiting)}
    BY <1>3, <2>1, TailOfInjective DEF QueueInv
  <2> QED
    BY <1>1, <2>1, <2>2 DEF Undecided, Range
<1>5. CASE SeeCancel
  <2>1. waiting' = <<>> /\ UNCHANGED running
    BY <1>5 DEF SeeCancel, Pool!Close
  <2> QED
    BY <1>1, <2>1 DEF Undecided
<1>6. ASSUME NEW t \in Ids, Retire(t) PROVE \A t1 \in Ids : Undecided(t1)' => Undecided(t1)
  BY <1>1, <1>6 DEF Retire, Pool!Finish, Undecided
<1>7. CASE OnTaskComplete \/ TellEnd
  BY <1>1, <1>7 DEF OnTaskComplete, TellEnd, poolVars, Undecided
<1> QED
  BY <1>4, <1>5, <1>6, <1>7 DEF AdmitTurn, LoopTurn, LoopStep

LEMMA TaskFound ==
  ASSUME FoundInv, NEW t \in Ids, TaskTurn(t) \/ TaskEndTurn(t)
  PROVE  RegistryInv' /\ ActionableFound'
<1> USE DEF FoundInv
<1>1. UNCHANGED <<registry, cur, nv, op, waiting, running>>
  BY DEF TaskTurn, TaskEndTurn, BesideTask, regVars, poolVars
<1>2. /\ state \in [Ids -> {"queued", "active", "paused", "completed", "error"}]
      /\ phase \in [Ids -> {"new", "begun", "active", "verify", "returned"}]
  BY DEF Typed, TypeOK, TaskOK
<1>3. \A t1 \in Ids \ {t} : phase'[t1] = phase[t1] /\ state'[t1] = state[t1]
  BY <1>2 DEF TaskTurn, TaskEndTurn, TaskStep, TaskEnds, BeginStart, CheckCancelled, EndAs,
       EndCancelled, EndFailed, DeclareComplete, VerifyChecksum
<1>4. CASE BeginStart(t)
  BY <1>1, <1>2, <1>3, <1>4, FoundKept DEF BeginStart, Decided, Undecided
<1>5. CASE phase[t] \in {"begun", "active", "verify"} /\ phase'[t] \in {"verify", "returned"}
  <2>1. Decided \subseteq Decided' /\ t \in Decided'
    BY <1>3, <1>5 DEF Decided
  <2>2. \A t1 \in Ids : Undecided(t1)' => Undecided(t1)
    BY <1>1, <1>3, <1>5 DEF Undecided
  <2> QED
    BY <1>1, <1>3, <2>1, <2>2, FoundKept
<1>6. CASE phase[t] = "begun" /\ phase'[t] = "active" /\ state'[t] = "active"
  <2>1. Decided \subseteq Decided'
    BY <1>3, <1>6 DEF Decided
  <2>2. \A t1 \in Ids : Undecided(t1)' => Undecided(t1)
    BY <1>1, <1>3, <1>6 DEF Undecided
  <2> QED
    BY <1>1, <1>3, <1>6, <2>1, <2>2, FoundKept
<1>7. \/ BeginStart(t)
      \/ phase[t] \in {"begun", "active", "verify"} /\ phase'[t] \in {"verify", "returned"}
      \/ phase[t] = "begun" /\ phase'[t] = "active" /\ state'[t] = "active"
  BY <1>2 DEF TaskTurn, TaskEndTurn, TaskStep, TaskEnds, CheckCancelled, EndAs, EndCancelled,
       EndFailed, DeclareComplete, VerifyChecksum
<1> QED
  BY <1>4, <1>5, <1>6, <1>7

\* The swap is the one step that takes tasks out of the registry.
LEMMA SwapFound ==
  ASSUME FoundInv, NEW r \in Requests, SwapMap(r), Reg!Swap(r)
  PROVE  RegistryInv' /\ ActionableFound'
<1> USE DEF FoundInv
<1>1. /\ registry = cur[r] /\ registry' = nv[r] /\ op[r].at = "swap"
      /\ \A q \in Requests \ {r} : cur'[q] = cur[q] /\ nv'[q] = nv[q]
  BY DEF SwapMap, At, Reg!Swap, Reg!CanSwap, Typed, TypeOK, RegistryOK
<1>2. UNCHANGED <<state, phase, waiting, running>>
  BY DEF SwapMap, others, taskVars, poolVars
<1>3. /\ \A q \in Requests \ {r} : op'[q] = op[q]
      /\ op'[r].id = op[r].id /\ op'[r].at \in {"enqueue", "load"}
  BY DEF SwapMap, Goto, Typed, TypeOK, RequestOK
<1>4. registry \ registry' \subseteq Decided /\ op[r].id \in registry'
  BY <1>1 DEF RegistryInv
<1>5. ASSUME NEW q \in Requests, op'[q].at = "enqueue" PROVE op'[q].id \in registry'
  <2>1. CASE q = r
    BY <1>3, <1>4, <2>1
  <2>2. CASE q # r
    <3>1. op[q].at = "enqueue" /\ op'[q].id = op[q].id /\ op[q].id \in registry
      BY <1>3, <1>5, <2>2 DEF RegistryInv
    <3>2. op[q].id \in Ids /\ op[q].id \notin Decided
      BY <3>1, NotDecided DEF Adding, Typed, Numbered
    <3> QED
      BY <1>4, <3>1, <3>2
  <2> QED
    BY <2>1, <2>2
<1>6. ASSUME NEW t \in Ids, Undecided(t)' PROVE t \in registry'
  <2>1. Undecided(t)
    BY <1>2, <1>6 DEF Undecided
  <2>2. t \in registry /\ t \notin Decided
    BY <2>1, NotDecided DEF ActionableFound
  <2> QED
    BY <1>4, <2>2
<1>7. \A q \in Requests : op'[q].at = "swap" => cur'[q] \ nv'[q] \subseteq Decided' /\ op'[q].id \in nv'[q]
  BY <1>1, <1>2, <1>3 DEF RegistryInv, Decided
<1> QED
  BY <1>2, <1>5, <1>6, <1>7 DEF RegistryInv, ActionableFound, Decided

\* The copy a request makes lacks terminal tasks at most, and its own is new.
LEMMA BuildFound ==
  ASSUME FoundInv, NEW r \in Requests, BuildMap(r)
  PROVE  RegistryInv' /\ ActionableFound'
<1> USE DEF FoundInv
<1>1. /\ UNCHANGED <<registry, cur, state, phase, waiting, running>>
      /\ \A q \in Requests \ {r} : nv'[q] = nv[q] /\ op'[q] = op[q]
      /\ op'[r].at = "swap" /\ op'[r].id = op[r].id /\ op[r].at = "build"
  BY DEF BuildMap, Reg!Build, others, taskVars, poolVars, Goto, At, Typed, TypeOK, RegistryOK, RequestOK
<1>2. op[r].id \in Ids /\ op[r].id \notin Decided
  BY <1>1, NotDecided DEF Adding, Typed, Numbered
<1>3. Terminal \subseteq Decided
  BY DEF Terminal, RegistryInv
<1>4. (cur[r] \cup {op[r].id}) \ nv'[r] \subseteq Terminal
  BY DEF BuildMap, Reg!Build, Reg!DropTerminalTasks, Typed, TypeOK, RegistryOK
<1>5. cur'[r] \ nv'[r] \subseteq Decided' /\ op'[r].id \in nv'[r]
  BY <1>1, <1>2, <1>3, <1>4 DEF Decided
<1> QED
  BY <1>1, <1>5 DEF RegistryInv, ActionableFound, Decided, Undecided

LEMMA RequestFound ==
  ASSUME FoundInv, NEW r \in Requests, ArriveTurn(r) \/ RequestTurn(r)
  PROVE  RegistryInv' /\ ActionableFound'
<1> USE DEF FoundInv
<1>1. op \in [Requests -> Entries] /\ op[r] \in Entries /\ waiting \in Seq(Ids)
  BY DEF Typed, TypeOK, RequestOK, PoolOK, Entries
<1>2. CASE ArriveTurn(r)
  <2>1. UNCHANGED <<registry, cur, nv, state, phase, waiting, running>>
    BY <1>2 DEF ArriveTurn, Arrive, others, regVars, taskVars, poolVars
  <2>2. /\ op'[r].at \notin {"swap", "enqueue"}
        /\ \A q \in Requests \ {r} : op'[q] = op[q]
    BY <1>2, ArriveMoves
  <2> QED
    BY <2>1, <2>2, FoundStill
<1>3. ASSUME RequestStep(r), ~BuildMap(r), ~(SwapMap(r) /\ Reg!Swap(r))
      PROVE  RegistryInv' /\ ActionableFound'
  <2>1. /\ \A q \in Requests \ {r} : op'[q] = op[q]
        /\ op'[r].at \notin {"swap", "enqueue"}
    BY <1>3, RequestMoves
  <2>2. /\ UNCHANGED <<registry, phase, running, nv>>
        /\ \A q \in Requests \ {r} : cur'[q] = cur[q]
    BY <1>3 DEF RequestStep, LoadMap, SwapMap, Enqueue, Gate, Mark, Flag, CancelTask, Announce, Tell,
         Stop, Stopped, others, regVars, poolVars, taskVars, Reg!Load, Pool!Submit, Typed, TypeOK,
         RegistryOK
  <2>3. \A t \in Ids : state'[t] \in {"completed", "error"} => state'[t] = state[t]
    BY <1>3 DEF RequestStep, LoadMap, SwapMap, Enqueue, Gate, Mark, Flag, CancelTask, Announce, Tell,
         Stop, Stopped, others, taskVars, Typed, TypeOK, TaskOK
  <2>4. CASE UNCHANGED waiting
    BY <2>1, <2>2, <2>3, <2>4, FoundKept DEF Decided, Undecided
  <2>5. CASE ~UNCHANGED waiting
    <3>1. Enqueue(r) /\ Pool!Submit(op[r].id)
      BY <1>3, <2>5 DEF RequestStep, LoadMap, SwapMap, Enqueue, Gate, Mark, Flag, CancelTask, Announce,
           Tell, Stop, Stopped, others, poolVars
    <3>2. op[r].at = "enqueue" /\ op[r].id \in Ids /\ op[r].id \in registry
      BY <3>1 DEF Enqueue, At, RegistryInv, Typed, Numbered, Adding
    <3>3. waiting' = Append(waiting, op[r].id)
      BY <3>1 DEF Pool!Submit
    <3>4. \A i \in DOMAIN waiting' : waiting'[i] = op[r].id \/ (i \in DOMAIN waiting /\ waiting'[i] = waiting[i])
      BY <1>1, <3>2, <3>3
    <3>5. \A t \in Ids : Undecided(t)' => Undecided(t) \/ t = op[r].id
      BY <2>2, <3>4 DEF Undecided
    <3>6. ActionableFound'
      BY <2>2, <3>2, <3>5 DEF ActionableFound
    <3> QED
      BY <2>1, <2>2, <2>3, <3>6 DEF RegistryInv, Decided
  <2> QED
    BY <2>4, <2>5
<1> QED
  BY <1>2, <1>3, BuildFound, SwapFound DEF RequestTurn

LEMMA StepFound == FoundInv /\ [Next]_vars => FoundInv'
<1> SUFFICES ASSUME FoundInv, [Next]_vars PROVE FoundInv'
  OBVIOUS
<1> USE DEF FoundInv
<1>1. Typed'
  BY StepTyped
<1>2. QueueInv'
  <2>1. CASE UNCHANGED vars
    BY <2>1, QueueKept DEF vars, poolVars, taskVars, Touched, Adding
  <2> QED
    BY <2>1, StepQueue
<1> SUFFICES RegistryInv' /\ ActionableFound'
  BY <1>1, <1>2
<1>3. CASE UNCHANGED <<registry, cur, nv, op, state, phase, waiting, running>>
  BY <1>3, FoundStill
<1>4. CASE MainTurn \/ DaemonTurn \/ SignalTurn \/ ForwardTurn
  BY <1>3, <1>4 DEF MainTurn, DaemonTurn, SignalTurn, ForwardTurn, BesideMain, BesideEvents, poolVars,
       taskVars, regVars
<1>5. ASSUME NEW s \in Subscribers, AttachTurn(s) \/ PumpTurn(s) PROVE RegistryInv' /\ ActionableFound'
  BY <1>3, <1>5 DEF AttachTurn, PumpTurn, BesideEvents, poolVars, taskVars, regVars
<1>6. CASE ExitTurn \/ FailTurn
  <2>1. PICK how : EndProcess(how)
    BY <1>6 DEF ExitTurn, FailTurn, Exit, ListenFails, ServeFails
  <2>2. UNCHANGED <<registry, state, phase, waiting, running>>
    BY <2>1 DEF EndProcess, taskVars, poolVars
  <2>3. \A r \in Requests : op'[r].at = "idle"
    BY <2>1 DEF EndProcess, NoRequest
  <2> QED
    BY <2>2, <2>3, FoundStill
<1>7. CASE Next
  BY <1>4, <1>5, <1>6, <1>7, PoolFound, TaskFound, RequestFound DEF Next
<1>8. CASE UNCHANGED vars
  BY <1>3, <1>8 DEF vars, regVars, taskVars, poolVars
<1> QED
  BY <1>7, <1>8

\* A task the scheduler has taken on and whose file is not decided yet can be
\* found by pause, remove and tellStatus, however many requests add tasks at
\* once and whatever the registry prunes.
THEOREM NoLiveTaskIsForgotten == Spec => []ActionableFound
<1>1. Spec => []FoundInv
  BY InitFound, StepFound, PTL DEF Spec
<1> QED
  BY <1>1, PTL DEF FoundInv

-----------------------------------------------------------------------------
(* Events.  Every client hears of an end once, and of a success only if     *)
(* the file was verified.                                                   *)

Events ==
  [method : TerminalMethods \cup {"onDownloadStart", "onDownloadPause", "onDownloadProgress"},
   id : Nat]

ChannelsTyped ==
  ch \in [Subscribers -> Seq(Events)] /\ seen \in [Subscribers -> SUBSET Events]

\* Where a channel tells of the end of t, and what was heard of it.
Ends(q, t) == {i \in DOMAIN q : q[i].id = t /\ q[i].method \in TerminalMethods}

Heard(S, t) == {m \in TerminalMethods : Event(m, t) \in S}

Never(q, S, t) == Ends(q, t) = {} /\ Heard(S, t) = {}

Once(q, S, t) ==
  /\ \A i, j \in Ends(q, t) : i = j
  /\ \A m, n \in Heard(S, t) : m = n
  /\ Ends(q, t) = {} \/ Heard(S, t) = {}

\* A success in the channel or heard is one of G.
Truthful(q, S, t, G) ==
  /\ Event("onDownloadComplete", t) \in S => t \in G
  /\ \A i \in DOMAIN q : q[i] = Event("onDownloadComplete", t) => t \in G

\* The state is completed from the end of the download on, which a failed checksum
\* takes back.
CompletedIsGood == \A t \in Ids : state[t] = "completed" => phase[t] = "verify" \/ t \in good

\* The completion the run loop is at.
LoopReports ==
  /\ loop.at # "select" => loop.id \in finished /\ phase[loop.id] = "returned"
  /\ loop.at = "tell" => /\ loop.ev \in TerminalMethods
                         /\ loop.ev = "onDownloadComplete" => loop.id \in good

RunsOnce == running \cap finished = {}

\* s has not been told yet how t ended.
Untold(s, t) ==
  \/ t \notin finished
  \/ loop.at = "report" /\ loop.id = t
  \/ loop.at = "tell" /\ loop.id = t /\ s \in to["loop"]

ToldOnce ==
  \A s \in Subscribers : \A t \in Ids :
    Once(ch[s], seen[s], t) /\ (Untold(s, t) => Never(ch[s], seen[s], t))

ToldTruth == \A s \in Subscribers : \A t \in Ids : Truthful(ch[s], seen[s], t, good)

EventsInv ==
  ChannelsTyped /\ CompletedIsGood /\ LoopReports /\ RunsOnce /\ ToldOnce /\ ToldTruth

LEMMA AppendEnds ==
  ASSUME NEW q \in Seq(Events), NEW e \in Events, NEW t
  PROVE  /\ Append(q, e) \in Seq(Events)
         /\ \A i \in DOMAIN Append(q, e) : \/ i \in DOMAIN q /\ Append(q, e)[i] = q[i]
                                           \/ i = Len(q) + 1 /\ Append(q, e)[i] = e
         /\ e.id # t \/ e.method \notin TerminalMethods => Ends(Append(q, e), t) = Ends(q, t)
<1>1. /\ Append(q, e) \in Seq(Events) /\ Len(Append(q, e)) = Len(q) + 1 /\ Len(q) \in Nat
      /\ \A i \in 1..Len(q) : Append(q, e)[i] = q[i]
      /\ Append(q, e)[Len(q) + 1] = e
  BY AppendProperties
<1>2. DOMAIN q = 1..Len(q) /\ DOMAIN Append(q, e) = 1..(Len(q) + 1)
  BY <1>1
<1>3. \A i \in DOMAIN Append(q, e) : \/ i \in DOMAIN q /\ Append(q, e)[i] = q[i]
                                     \/ i = Len(q) + 1 /\ Append(q, e)[i] = e
  BY <1>1, <1>2
<1>4. \A i \in DOMAIN q : i \in DOMAIN Append(q, e) /\ Append(q, e)[i] = q[i]
  BY <1>1, <1>2
<1> QED
  BY <1>1, <1>3, <1>4 DEF Ends

\* An end that is told to somebody who has not been told.
LEMMA FirstEnd ==
  ASSUME NEW q \in Seq(Events), NEW e \in Events, NEW t, NEW S, NEW R, R \subseteq S, Never(q, S, t)
  PROVE  Once(Append(q, e), R, t)
<1>1. \A i \in Ends(Append(q, e), t) : i = Len(q) + 1
  BY AppendEnds DEF Never, Ends
<1>2. Heard(R, t) = {}
  BY DEF Never, Heard
<1> QED
  BY <1>1, <1>2 DEF Once

LEMMA LessIsFine ==
  ASSUME NEW q, NEW p, NEW S, NEW R, NEW t, Ends(p, t) \subseteq Ends(q, t), R \subseteq S
  PROVE  (Once(q, S, t) => Once(p, R, t)) /\ (Never(q, S, t) => Never(p, R, t))
<1>1. Heard(R, t) \subseteq Heard(S, t)
  BY DEF Heard
<1> QED
  BY <1>1 DEF Once, Never

\* The pump moves an event from the channel to the client.
LEMMA PumpIsFine ==
  ASSUME NEW q \in Seq(Events), q # <<>>, NEW S, NEW R, NEW t, R \subseteq S \cup {Head(q)}
  PROVE  /\ Once(q, S, t) => Once(Tail(q), R, t)
         /\ Never(q, S, t) => Never(Tail(q), R, t)
         /\ \A G : Truthful(q, S, t, G) => Truthful(Tail(q), R, t, G)
         /\ Head(q) \in Events /\ Tail(q) \in Seq(Events)
<1>1. /\ Tail(q) \in Seq(Events) /\ Head(q) \in Events /\ Head(q) = q[1]
      /\ Len(Tail(q)) = Len(q) - 1 /\ Len(q) \in Nat \ {0}
      /\ \A i \in 1..Len(Tail(q)) : Tail(q)[i] = q[i + 1]
  BY HeadTailProperties
<1>2. /\ 1 \in DOMAIN q
      /\ \A i \in DOMAIN Tail(q) : i \in Nat /\ i # 0 /\ i + 1 \in DOMAIN q /\ Tail(q)[i] = q[i + 1]
  BY <1>1
<1>3. \A i \in Ends(Tail(q), t) : i \in Nat /\ i # 0 /\ i + 1 \in Ends(q, t)
  BY <1>2 DEF Ends
<1>4. CASE 1 \in Ends(q, t)
  <2>1. ~Never(q, S, t)
    BY <1>4 DEF Never
  <2>2. ASSUME Once(q, S, t) PROVE Once(Tail(q), R, t)
    <3>1. Ends(Tail(q), t) = {}
      <4> SUFFICES ASSUME NEW i \in Ends(Tail(q), t) PROVE FALSE
        OBVIOUS
      <4>1. i \in Nat /\ i # 0 /\ i + 1 = 1
        BY <1>3, <1>4, <2>2 DEF Once
      <4> QED
        BY <4>1
    <3>2. Heard(S, t) = {}
      BY <1>4, <2>2 DEF Once
    <3>3. \A m \in Heard(R, t) : Event(m, t) = q[1]
      BY <1>1, <3>2 DEF Heard
    <3>4. ASSUME NEW m \in Heard(R, t) PROVE m = q[1].method
      <4>1. Event(m, t).method = m
        BY DEF Event
      <4> QED
        BY <3>3, <4>1
    <3> QED
      BY <3>1, <3>4 DEF Once
  <2> QED
    BY <1>1, <1>2, <2>1, <2>2 DEF Truthful
<1>5. CASE 1 \notin Ends(q, t)
  <2>1. Heard(R, t) \subseteq Heard(S, t)
    <3>1. \A m \in TerminalMethods : Event(m, t) # q[1]
      BY <1>2, <1>5 DEF Ends, Event
    <3> QED
      BY <1>1, <3>1 DEF Heard
  <2>2. ASSUME Once(q, S, t) PROVE Once(Tail(q), R, t)
    <3>1. \A i, j \in Ends(Tail(q), t) : i = j
      <4> SUFFICES ASSUME NEW i \in Ends(Tail(q), t), NEW j \in Ends(Tail(q), t) PROVE i = j
        OBVIOUS
      <4>1. i \in Nat /\ j \in Nat /\ i + 1 = j + 1
        BY <1>3, <2>2 DEF Once
      <4> QED
        BY <4>1
    <3>2. Ends(q, t) = {} => Ends(Tail(q), t) = {}
      BY <1>3
    <3> QED
      BY <2>1, <2>2, <3>1, <3>2 DEF Once
  <2>3. ASSUME Never(q, S, t) PROVE Never(Tail(q), R, t)
    BY <1>3, <2>1, <2>3 DEF Never
  <2> QED
    BY <1>1, <1>2, <2>2, <2>3 DEF Truthful
<1> QED
  BY <1>4, <1>5

\* A client that is told of no end, or of nothing any more.
Quiet(s) ==
  /\ seen'[s] \subseteq seen[s]
  /\ \/ ch'[s] = ch[s]
     \/ ch'[s] = <<>>
     \/ \E e \in Events : e.method \notin TerminalMethods /\ ch'[s] = Append(ch[s], e)

LEMMA QuietIsFine ==
  ASSUME EventsInv, NEW s \in Subscribers, Quiet(s), NEW t \in Ids, good \subseteq good',
         Untold(s, t)' => Untold(s, t)
  PROVE  /\ Once(ch'[s], seen'[s], t) /\ (Untold(s, t)' => Never(ch'[s], seen'[s], t))
         /\ Truthful(ch'[s], seen'[s], t, good')
<1>1. ch[s] \in Seq(Events) /\ Once(ch[s], seen[s], t) /\ Truthful(ch[s], seen[s], t, good)
  BY DEF EventsInv, ChannelsTyped, ToldOnce, ToldTruth
<1>2. /\ Ends(ch'[s], t) \subseteq Ends(ch[s], t)
      /\ \A i \in DOMAIN ch'[s] : ch'[s][i] = Event("onDownloadComplete", t) =>
           i \in DOMAIN ch[s] /\ ch'[s][i] = ch[s][i]
  <2>1. CASE ch'[s] = ch[s]
    BY <2>1
  <2>2. CASE ch'[s] = <<>>
    BY <2>2 DEF Ends
  <2>3. ASSUME NEW e \in Events, e.method \notin TerminalMethods, ch'[s] = Append(ch[s], e)
        PROVE  /\ Ends(ch'[s], t) \subseteq Ends(ch[s], t)
               /\ \A i \in DOMAIN ch'[s] : ch'[s][i] = Event("onDownloadComplete", t) =>
                    i \in DOMAIN ch[s] /\ ch'[s][i] = ch[s][i]
    <3>1. Ends(ch'[s], t) = Ends(ch[s], t)
      BY <1>1, <2>3, AppendEnds
    <3>2. e # Event("onDownloadComplete", t)
      BY <2>3 DEF Event, TerminalMethods
    <3> QED
      BY <1>1, <2>3, <3>1, <3>2, AppendEnds
  <2> QED
    BY <2>1, <2>2, <2>3 DEF Quiet
<1>3. Truthful(ch'[s], seen'[s], t, good')
  BY <1>1, <1>2 DEF Truthful, Quiet
<1>4. Untold(s, t)' => Never(ch[s], seen[s], t)
  BY DEF EventsInv, ToldOnce
<1> QED
  BY <1>1, <1>2, <1>3, <1>4, LessIsFine DEF Quiet

\* A step that tells nobody of an end.
LEMMA NobodyIsTold ==
  ASSUME EventsInv, \A s \in Subscribers : Quiet(s), ChannelsTyped', good \subseteq good',
         \A s \in Subscribers : \A t \in Ids : Untold(s, t)' => Untold(s, t)
  PROVE  ToldOnce' /\ ToldTruth'
<1>1. \A s \in Subscribers : \A t \in Ids :
        /\ Once(ch'[s], seen'[s], t) /\ (Untold(s, t)' => Never(ch'[s], seen'[s], t))
        /\ Truthful(ch'[s], seen'[s], t, good')
  BY QuietIsFine
<1> QED
  BY <1>1 DEF ToldOnce, ToldTruth

\* A step that leaves channels and clients alone.
LEMMA SameView ==
  ASSUME EventsInv, UNCHANGED <<ch, seen>>, good \subseteq good',
         \A s \in Subscribers : \A t \in Ids : Untold(s, t)' => Untold(s, t)
  PROVE  ToldOnce' /\ ToldTruth' /\ ChannelsTyped'
<1>1. ChannelsTyped' /\ \A s \in Subscribers : Quiet(s)
  BY DEF EventsInv, ChannelsTyped, Quiet
<1> QED
  BY <1>1, NobodyIsTold

\* An offer of an event that is not an end.
LEMMA OfferIsQuiet ==
  ASSUME ChannelsTyped, NEW x, NEW s \in Subscribers, NEW e \in Events, Bc!Offer(x, s, e)
  PROVE  /\ ChannelsTyped'
         /\ \A s1 \in Subscribers : seen'[s1] \subseteq seen[s1]
         /\ \A s1 \in Subscribers : s1 # s => ch'[s1] = ch[s1]
         /\ ch'[s] = ch[s] \/ ch'[s] = Append(ch[s], e)
<1>1. ch \in [Subscribers -> Seq(Events)] /\ seen \in [Subscribers -> SUBSET Events]
  BY DEF ChannelsTyped
<1>2. /\ ch' = ch \/ ch' = [ch EXCEPT ![s] = Append(ch[s], e)]
      /\ seen' = [s1 \in Subscribers |-> IF s1 \in lost' THEN {} ELSE seen[s1]]
  BY DEF Bc!Offer
<1>3. Append(ch[s], e) \in Seq(Events)
  BY <1>1, AppendProperties
<1>4. ch' \in [Subscribers -> Seq(Events)]
  BY <1>1, <1>2, <1>3
<1>5. seen' \in [Subscribers -> SUBSET Events] /\ \A s1 \in Subscribers : seen'[s1] \subseteq seen[s1]
  BY <1>1, <1>2
<1> QED
  BY <1>1, <1>2, <1>4, <1>5 DEF ChannelsTyped

-----------------------------------------------------------------------------
HonestInv == FoundInv /\ EventsInv

\* Untold depends on the run loop alone.
LEMMA UntoldKept ==
  ASSUME UNCHANGED <<loop, finished>>, to'["loop"] \subseteq to["loop"]
  PROVE  \A s \in Subscribers : \A t \in Ids : Untold(s, t)' => Untold(s, t)
BY DEF Untold

\* Steps of nobody who broadcasts.
LEMMA AloneHonest ==
  ASSUME HonestInv, UNCHANGED <<loop, running, finished, state, phase, good>>, to'["loop"] = to["loop"],
         UNCHANGED <<ch, seen>>
  PROVE  EventsInv'
<1>1. ToldOnce' /\ ToldTruth' /\ ChannelsTyped'
  BY UntoldKept, SameView DEF HonestInv
<1>2. CompletedIsGood' /\ LoopReports' /\ RunsOnce'
  BY DEF HonestInv, EventsInv, CompletedIsGood, LoopReports, RunsOnce
<1> QED
  BY <1>1, <1>2 DEF EventsInv

\* The task's own steps: a success is verified before anybody is told.
LEMMA TaskHonest ==
  ASSUME HonestInv, NEW t \in Ids, TaskTurn(t) \/ TaskEndTurn(t)
  PROVE  EventsInv'
<1>1. UNCHANGED <<loop, running, finished, to, ch, seen>>
  BY DEF TaskTurn, TaskEndTurn, BesideTask, poolVars, bcVars
<1>2. /\ state \in [Ids -> {"queued", "active", "paused", "completed", "error"}]
      /\ phase \in [Ids -> {"new", "begun", "active", "verify", "returned"}]
  BY DEF HonestInv, FoundInv, Typed, TypeOK, TaskOK
<1>3. /\ \A t1 \in Ids \ {t} : phase'[t1] = phase[t1] /\ state'[t1] = state[t1]
      /\ good \subseteq good' /\ phase[t] # "returned"
  BY <1>2 DEF TaskTurn, TaskEndTurn, TaskStep, TaskEnds, BeginStart, CheckCancelled, EndAs,
       EndCancelled, EndFailed, DeclareComplete, VerifyChecksum
<1>4. state'[t] = "completed" => phase'[t] = "verify" \/ t \in good'
  <2>1. state[t] = "completed" => phase[t] = "verify" \/ t \in good
    BY DEF HonestInv, EventsInv, CompletedIsGood
  <2> QED
    BY <1>2, <2>1 DEF TaskTurn, TaskEndTurn, TaskStep, TaskEnds, BeginStart, CheckCancelled, EndAs,
       EndCancelled, EndFailed, DeclareComplete, VerifyChecksum
<1>5. CompletedIsGood'
  BY <1>3, <1>4 DEF CompletedIsGood, HonestInv, EventsInv
<1>6. LoopReports'
  BY <1>1, <1>3 DEF HonestInv, EventsInv, LoopReports, FoundInv, Typed, TypeOK, PoolOK
<1>7. ToldOnce' /\ ToldTruth' /\ ChannelsTyped'
  BY <1>1, <1>3, UntoldKept, SameView DEF HonestInv
<1> QED
  BY <1>1, <1>5, <1>6, <1>7 DEF HonestInv, EventsInv, RunsOnce

\* Steps of the scheduler, but for what the run loop tells.
LEMMA PoolHonest ==
  ASSUME HonestInv, Admit \/ SeeCancel \/ (\E t \in Ids : Retire(t)) \/ OnTaskComplete,
         UNCHANGED BesidePool
  PROVE  EventsInv'
<1>1. UNCHANGED <<state, phase, good>>
  BY DEF BesidePool, taskVars
<1>2. CompletedIsGood'
  BY <1>1 DEF HonestInv, EventsInv, CompletedIsGood
<1>3. UNCHANGED <<ch, seen>>
  BY DEF Admit, SeeCancel, Retire, OnTaskComplete, Bc!Address, bcVars
<1>4. CASE Admit
  <2>1. /\ waiting # <<>> /\ running' = running \cup {Head(waiting)} /\ UNCHANGED <<finished, loop, to>>
    BY <1>4 DEF Admit, Pool!Begin, bcVars
  <2>2. Head(waiting) \in Range(waiting)
    BY <2>1, TailOfInjective DEF HonestInv, FoundInv, Typed, TypeOK, PoolOK, QueueInv
  <2>3. RunsOnce'
    BY <2>1, <2>2 DEF HonestInv, FoundInv, EventsInv, RunsOnce, QueueInv
  <2>4. LoopReports'
    BY <1>1, <2>1 DEF HonestInv, EventsInv, LoopReports
  <2>5. ToldOnce' /\ ToldTruth' /\ ChannelsTyped'
    BY <1>1, <1>3, <2>1, UntoldKept, SameView DEF HonestInv
  <2> QED
    BY <1>2, <2>3, <2>4, <2>5 DEF EventsInv
<1>5. CASE SeeCancel
  <2>1. UNCHANGED <<running, finished, loop, to>>
    BY <1>5 DEF SeeCancel, Pool!Close, bcVars
  <2> QED
    BY <1>1, <1>3, <2>1, AloneHonest
<1>6. ASSUME NEW t \in Ids, Retire(t) PROVE EventsInv'
  <2>1. /\ loop.at = "select" /\ phase[t] = "returned" /\ t \in running
        /\ running' = running \ {t} /\ finished' = finished \cup {t} /\ UNCHANGED to
        /\ loop' = [loop EXCEPT !.at = "report", !.id = t]
    BY <1>6 DEF Retire, Pool!Finish, bcVars
  <2>2. loop'.at = "report" /\ loop'.id = t
    BY <2>1 DEF HonestInv, FoundInv, Typed, TypeOK, LoopOK
  <2>3. LoopReports' /\ RunsOnce'
    BY <1>1, <2>1, <2>2 DEF HonestInv, EventsInv, LoopReports, RunsOnce
  <2>4. t \notin finished
    BY <2>1 DEF HonestInv, EventsInv, RunsOnce
  <2>5. \A s \in Subscribers : \A t1 \in Ids : Untold(s, t1)' => Untold(s, t1)
    BY <2>1, <2>2, <2>4 DEF Untold
  <2>6. ToldOnce' /\ ToldTruth' /\ ChannelsTyped'
    BY <1>1, <1>3, <2>5, SameView DEF HonestInv
  <2> QED
    BY <1>2, <2>3, <2>6 DEF EventsInv
<1>7. CASE OnTaskComplete
  <2>1. /\ loop.at = "report" /\ UNCHANGED <<running, finished>>
        /\ loop' = [loop EXCEPT !.at = "tell",
                      !.ev = IF state[loop.id] = "completed" THEN "onDownloadComplete" ELSE "onDownloadError"]
    BY <1>7 DEF OnTaskComplete, poolVars
  <2>2. /\ loop'.at = "tell" /\ loop'.id = loop.id
        /\ loop'.ev = IF state[loop.id] = "completed" THEN "onDownloadComplete" ELSE "onDownloadError"
    BY <2>1 DEF HonestInv, FoundInv, Typed, TypeOK, LoopOK
  <2>3. loop.id \in finished /\ phase[loop.id] = "returned" /\ loop.id \in Ids
    BY <2>1 DEF HonestInv, FoundInv, EventsInv, LoopReports, Typed, TypeOK, PoolOK
  <2>4. state[loop.id] = "completed" => loop.id \in good
    BY <2>3 DEF HonestInv, EventsInv, CompletedIsGood
  <2>5. LoopReports' /\ RunsOnce'
    BY <1>1, <2>1, <2>2, <2>3, <2>4 DEF HonestInv, EventsInv, LoopReports, RunsOnce, TerminalMethods
  <2>6. \A s \in Subscribers : \A t \in Ids : Untold(s, t)' => Untold(s, t)
    BY <2>1, <2>2 DEF Untold
  <2>7. ToldOnce' /\ ToldTruth' /\ ChannelsTyped'
    BY <1>1, <1>3, <2>6, SameView DEF HonestInv
  <2> QED
    BY <1>2, <2>5, <2>7 DEF EventsInv
<1> QED
  BY <1>4, <1>5, <1>6, <1>7

\* The end of a download is offered to one client after the other, to each once.
LEMMA TellHonest ==
  ASSUME HonestInv, TellEnd, UNCHANGED BesidePool
  PROVE  EventsInv'
<1>1. UNCHANGED <<state, phase, good, running, finished>> /\ loop.at = "tell"
  BY DEF BesidePool, taskVars, TellEnd, poolVars
<1>2. CompletedIsGood' /\ RunsOnce'
  BY <1>1 DEF HonestInv, EventsInv, CompletedIsGood, RunsOnce
<1>3. CASE loop' = [loop EXCEPT !.at = "select"] /\ UNCHANGED bcVars
  <2>1. loop'.at = "select" /\ UNCHANGED <<ch, seen, to>>
    BY <1>3 DEF bcVars, HonestInv, FoundInv, Typed, TypeOK, LoopOK
  <2>2. LoopReports' /\ \A s \in Subscribers : \A t \in Ids : Untold(s, t)' => Untold(s, t)
    BY <1>1, <2>1 DEF LoopReports, Untold
  <2>3. ToldOnce' /\ ToldTruth' /\ ChannelsTyped'
    BY <1>1, <2>1, <2>2, SameView DEF HonestInv
  <2> QED
    BY <1>2, <2>2, <2>3 DEF EventsInv
<1>4. ASSUME NEW s \in Subscribers, Bc!Offer("loop", s, Event(loop.ev, loop.id)), UNCHANGED loop
      PROVE  EventsInv'
  <2> DEFINE e == Event(loop.ev, loop.id)
             u == loop.id
  <2>1. /\ loop.ev \in TerminalMethods /\ u \in finished /\ u \in Ids
        /\ loop.ev = "onDownloadComplete" => u \in good
    BY <1>1 DEF HonestInv, FoundInv, EventsInv, LoopReports, Typed, TypeOK, PoolOK
  <2>2. e \in Events /\ e.id = u /\ e.method = loop.ev
    BY <2>1 DEF Events, Event, Ids
  <2>3. s \in to["loop"] /\ to'["loop"] = to["loop"] \ {s}
    BY <1>4 DEF Bc!Offer, HonestInv, FoundInv, Typed, TypeOK, EventsOK, Senders
  <2>4. e = Event("onDownloadComplete", u) => u \in good
    BY <2>1, <2>2 DEF Event
  <2>5. \A t : e = Event("onDownloadComplete", t) => t = u
    BY <2>2 DEF Event
  <2> HIDE DEF e
  <2>6. /\ ChannelsTyped'
        /\ \A s1 \in Subscribers : seen'[s1] \subseteq seen[s1]
        /\ \A s1 \in Subscribers : s1 # s => ch'[s1] = ch[s1]
        /\ ch'[s] = ch[s] \/ ch'[s] = Append(ch[s], e)
    BY <1>4, <2>2, OfferIsQuiet DEF HonestInv, EventsInv, e
  <2>7. LoopReports'
    BY <1>1, <1>4 DEF HonestInv, EventsInv, LoopReports
  <2>8. \A s1 \in Subscribers : \A t \in Ids : Untold(s1, t)' => Untold(s1, t)
    BY <1>1, <1>4, <2>3, UntoldKept
  <2>9. Untold(s, u) /\ ~Untold(s, u)'
    BY <1>1, <1>4, <2>1, <2>3 DEF Untold
  <2>10. ASSUME NEW s1 \in Subscribers, NEW t \in Ids, ch'[s1] = ch[s1]
         PROVE  /\ Once(ch'[s1], seen'[s1], t) /\ (Untold(s1, t)' => Never(ch'[s1], seen'[s1], t))
                /\ Truthful(ch'[s1], seen'[s1], t, good')
    <3>1. Quiet(s1)
      BY <2>6, <2>10 DEF Quiet
    <3> QED
      BY <1>1, <2>8, <3>1, QuietIsFine DEF HonestInv
  <2>11. ASSUME NEW t \in Ids, ch'[s] = Append(ch[s], e)
         PROVE  /\ Once(ch'[s], seen'[s], t) /\ (Untold(s, t)' => Never(ch'[s], seen'[s], t))
                /\ Truthful(ch'[s], seen'[s], t, good')
    <3>1. /\ ch[s] \in Seq(Events) /\ seen'[s] \subseteq seen[s]
          /\ Once(ch[s], seen[s], t) /\ (Untold(s, t) => Never(ch[s], seen[s], t))
          /\ Truthful(ch[s], seen[s], t, good)
      BY <2>6 DEF HonestInv, EventsInv, ChannelsTyped, ToldOnce, ToldTruth
    <3>2. Truthful(ch'[s], seen'[s], t, good')
      <4>1. \A i \in DOMAIN ch'[s] : (i \in DOMAIN ch[s] /\ ch'[s][i] = ch[s][i]) \/ ch'[s][i] = e
        BY <2>2, <2>11, <3>1, AppendEnds
      <4> QED
        BY <1>1, <2>4, <2>5, <3>1, <4>1 DEF Truthful
    <3>3. CASE t = u
      <4>1. Once(ch'[s], seen'[s], t)
        BY <2>2, <2>9, <2>11, <3>1, <3>3, FirstEnd
      <4>2. ~Untold(s, t)'
        BY <1>1, <1>4, <2>1, <2>3, <3>3 DEF Untold
      <4> QED
        BY <3>2, <4>1, <4>2
    <3>4. CASE t # u
      <4>1. Ends(ch'[s], t) = Ends(ch[s], t)
        BY <2>2, <2>11, <3>1, <3>4, AppendEnds
      <4> QED
        BY <2>8, <3>1, <3>2, <4>1, LessIsFine
    <3> QED
      BY <3>3, <3>4
  <2>12. ASSUME NEW s1 \in Subscribers, NEW t \in Ids
         PROVE  /\ Once(ch'[s1], seen'[s1], t) /\ (Untold(s1, t)' => Never(ch'[s1], seen'[s1], t))
                /\ Truthful(ch'[s1], seen'[s1], t, good')
    BY <2>6, <2>10, <2>11
  <2>13. ToldOnce' /\ ToldTruth'
    BY <2>12 DEF ToldOnce, ToldTruth
  <2> QED
    BY <1>2, <2>6, <2>7, <2>13 DEF EventsInv
<1> QED
  BY <1>3, <1>4 DEF TellEnd

\* Requests announce starts and pauses, never ends.
LEMMA RequestHonest ==
  ASSUME HonestInv, NEW r \in Requests, ArriveTurn(r) \/ RequestTurn(r)
  PROVE  EventsInv'
<1>1. UNCHANGED <<loop, running, finished, phase, good>>
  BY DEF ArriveTurn, Arrive, RequestTurn, RequestStep, LoadMap, BuildMap, SwapMap, Enqueue, Gate,
         Mark, Flag, CancelTask, Announce, Tell, Stop, Stopped, others, poolVars, taskVars, Pool!Submit
<1>2. \A t \in Ids : state'[t] = "completed" => state[t] = "completed"
  BY DEF ArriveTurn, Arrive, RequestTurn, RequestStep, LoadMap, BuildMap, SwapMap, Enqueue, Gate,
         Mark, Flag, CancelTask, Announce, Tell, Stop, Stopped, others, taskVars, HonestInv, FoundInv,
         Typed, TypeOK, TaskOK
<1>3. CompletedIsGood' /\ LoopReports' /\ RunsOnce'
  BY <1>1, <1>2 DEF HonestInv, EventsInv, CompletedIsGood, LoopReports, RunsOnce
<1>4. r # "loop" /\ r \in Senders /\ "loop" \in Senders
  BY DaemonAssumption DEF Senders
<1>5. to'["loop"] = to["loop"]
  BY <1>4 DEF ArriveTurn, Arrive, RequestTurn, RequestStep, LoadMap, BuildMap, SwapMap, Enqueue, Gate,
         Mark, Flag, CancelTask, Announce, Tell, Stop, Stopped, bcVars, Bc!Address, Bc!Offer,
         HonestInv, FoundInv, Typed, TypeOK, EventsOK
<1>6. \A s \in Subscribers : \A t \in Ids : Untold(s, t)' => Untold(s, t)
  BY <1>1, <1>5, UntoldKept
<1>7. CASE UNCHANGED <<ch, seen>>
  <2>1. ToldOnce' /\ ToldTruth' /\ ChannelsTyped'
    BY <1>1, <1>6, <1>7, SameView DEF HonestInv
  <2> QED
    BY <1>3, <2>1 DEF EventsInv
<1>8. ASSUME NEW s \in Subscribers, Bc!Offer(r, s, Event(MethodOf(op[r].kind), op[r].id))
      PROVE  EventsInv'
  <2> DEFINE e == Event(MethodOf(op[r].kind), op[r].id)
  <2>1. op[r].id \in Nat
    <3>1. op[r].id \in Ids \cup {0}
      BY DEF HonestInv, FoundInv, Typed, TypeOK, RequestOK
    <3> QED
      BY <3>1 DEF Ids
  <2>2. e \in Events /\ e.method \notin TerminalMethods
    BY <2>1 DEF Events, Event, MethodOf, TerminalMethods
  <2> HIDE DEF e
  <2>3. /\ ChannelsTyped'
        /\ \A s1 \in Subscribers : seen'[s1] \subseteq seen[s1]
        /\ \A s1 \in Subscribers : s1 # s => ch'[s1] = ch[s1]
        /\ ch'[s] = ch[s] \/ ch'[s] = Append(ch[s], e)
    BY <1>8, <2>2, OfferIsQuiet DEF HonestInv, EventsInv, e
  <2>4. \A s1 \in Subscribers : Quiet(s1)
    BY <2>2, <2>3 DEF Quiet
  <2>5. ToldOnce' /\ ToldTruth'
    BY <1>1, <1>6, <2>3, <2>4, NobodyIsTold DEF HonestInv
  <2> QED
    BY <1>3, <2>3, <2>5 DEF EventsInv
<1>9. UNCHANGED <<ch, seen>> \/ \E s \in Subscribers : Bc!Offer(r, s, Event(MethodOf(op[r].kind), op[r].id))
  BY DEF ArriveTurn, Arrive, RequestTurn, RequestStep, LoadMap, BuildMap, SwapMap, Enqueue, Gate,
         Mark, Flag, CancelTask, Announce, Tell, Stop, Stopped, bcVars, Bc!Address
<1> QED
  BY <1>7, <1>8, <1>9

\* What the clients do, and progress.
LEMMA ClientHonest ==
  ASSUME HonestInv, ForwardTurn \/ \E s \in Subscribers : AttachTurn(s) \/ PumpTurn(s)
  PROVE  EventsInv'
<1>1. UNCHANGED <<loop, running, finished, state, phase, good>>
  BY DEF ForwardTurn, AttachTurn, PumpTurn, BesideEvents, poolVars, taskVars
<1>2. CompletedIsGood' /\ LoopReports' /\ RunsOnce'
  BY <1>1 DEF HonestInv, EventsInv, CompletedIsGood, LoopReports, RunsOnce
<1>3. UNCHANGED to
  BY DEF ForwardTurn, Forward, AttachTurn, PumpTurn, Bc!Flood, Bc!Attach, Bc!Pump, Bc!Detach
<1>4. \A s \in Subscribers : \A t \in Ids : Untold(s, t)' => Untold(s, t)
  BY <1>1, <1>3, UntoldKept
<1>5. ch \in [Subscribers -> Seq(Events)] /\ seen \in [Subscribers -> SUBSET Events]
  BY DEF HonestInv, EventsInv, ChannelsTyped
<1>6. CASE ForwardTurn
  <2>1. PICK t \in Ids : Bc!Flood(Event("onDownloadProgress", t))
    BY <1>6 DEF ForwardTurn, Forward
  <2> DEFINE e == Event("onDownloadProgress", t)
  <2>2. e \in Events /\ e.method \notin TerminalMethods
    BY DEF Events, Event, TerminalMethods, Ids
  <2> HIDE DEF e
  <2>3. /\ ch' = [s \in Subscribers |->
                    IF s \in subscribers /\ Len(ch[s]) < Capacity THEN Append(ch[s], e) ELSE ch[s]]
        /\ seen' = [s1 \in Subscribers |-> IF s1 \in lost' THEN {} ELSE seen[s1]]
    BY <2>1 DEF Bc!Flood, e
  <2>4. \A s \in Subscribers : Append(ch[s], e) \in Seq(Events)
    BY <1>5, <2>2, AppendProperties
  <2>5. ch' \in [Subscribers -> Seq(Events)] /\ seen' \in [Subscribers -> SUBSET Events]
    BY <1>5, <2>3, <2>4
  <2>6. \A s \in Subscribers : Quiet(s)
    BY <2>2, <2>3 DEF Quiet
  <2>7. ChannelsTyped'
    BY <2>5 DEF ChannelsTyped
  <2>8. ToldOnce' /\ ToldTruth'
    BY <1>1, <1>4, <2>6, <2>7, NobodyIsTold DEF HonestInv
  <2> QED
    BY <1>2, <2>7, <2>8 DEF EventsInv
<1>7. ASSUME NEW s \in Subscribers, Bc!Attach(s) \/ Bc!Detach(s) PROVE EventsInv'
  <2>1. UNCHANGED ch /\ (UNCHANGED seen \/ seen' = [seen EXCEPT ![s] = {}])
    BY <1>7 DEF Bc!Attach, Bc!Detach
  <2>2. seen' \in [Subscribers -> SUBSET Events] /\ \A s1 \in Subscribers : seen'[s1] \subseteq seen[s1]
    BY <1>5, <2>1
  <2>3. ChannelsTyped' /\ \A s1 \in Subscribers : Quiet(s1)
    BY <1>5, <2>1, <2>2 DEF ChannelsTyped, Quiet
  <2>4. ToldOnce' /\ ToldTruth'
    BY <1>1, <1>4, <2>3, NobodyIsTold DEF HonestInv
  <2> QED
    BY <1>2, <2>3, <2>4 DEF EventsInv
<1>8. ASSUME NEW s \in Subscribers, Bc!Pump(s) PROVE EventsInv'
  <2>1. /\ ch[s] # <<>> /\ ch' = [ch EXCEPT ![s] = Tail(ch[s])]
        /\ \E R \in {seen[s], seen[s] \cup {Head(ch[s])}} : seen' = [seen EXCEPT ![s] = R]
    BY <1>8 DEF Bc!Pump
  <2>2. ch[s] \in Seq(Events) /\ seen[s] \subseteq Events
    BY <1>5
  <2>3. Head(ch[s]) \in Events /\ Tail(ch[s]) \in Seq(Events)
    BY <2>1, <2>2, HeadTailProperties
  <2>4. /\ ch'[s] = Tail(ch[s]) /\ seen'[s] \subseteq seen[s] \cup {Head(ch[s])}
        /\ \A s1 \in Subscribers \ {s} : ch'[s1] = ch[s1] /\ seen'[s1] = seen[s1]
    BY <1>5, <2>1
  <2>5. ChannelsTyped'
    BY <1>5, <2>1, <2>2, <2>3 DEF ChannelsTyped
  <2>6. ASSUME NEW s1 \in Subscribers, NEW t \in Ids
        PROVE  /\ Once(ch'[s1], seen'[s1], t) /\ (Untold(s1, t)' => Never(ch'[s1], seen'[s1], t))
               /\ Truthful(ch'[s1], seen'[s1], t, good')
    <3>1. CASE s1 = s
      <4>1. /\ Once(ch[s], seen[s], t) /\ (Untold(s, t) => Never(ch[s], seen[s], t))
            /\ Truthful(ch[s], seen[s], t, good)
        BY DEF HonestInv, EventsInv, ToldOnce, ToldTruth
      <4>2. /\ Once(ch'[s], seen'[s], t) /\ (Never(ch[s], seen[s], t) => Never(ch'[s], seen'[s], t))
            /\ Truthful(ch'[s], seen'[s], t, good)
        BY <2>1, <2>2, <2>4, <4>1, PumpIsFine
      <4> QED
        BY <1>1, <1>4, <3>1, <4>1, <4>2
    <3>2. CASE s1 # s
      <4>1. Quiet(s1)
        BY <2>4, <3>2 DEF Quiet
      <4> QED
        BY <1>1, <1>4, <4>1, QuietIsFine DEF HonestInv
    <3> QED
      BY <3>1, <3>2
  <2>7. ToldOnce' /\ ToldTruth'
    BY <2>6 DEF ToldOnce, ToldTruth
  <2> QED
    BY <1>2, <2>5, <2>7 DEF EventsInv
<1> QED
  BY <1>6, <1>7, <1>8 DEF AttachTurn, PumpTurn

\* The channels go with the process.
LEMMA ExitHonest ==
  ASSUME HonestInv, NEW how, EndProcess(how)
  PROVE  EventsInv'
<1>1. /\ UNCHANGED <<loop, running, finished, state, phase, good>> /\ UNCHANGED seen
      /\ ch' = [s \in Subscribers |-> <<>>] /\ to' = [x \in Senders |-> {}]
  BY DEF EndProcess, poolVars, taskVars
<1>2. CompletedIsGood' /\ LoopReports' /\ RunsOnce'
  BY <1>1 DEF HonestInv, EventsInv, CompletedIsGood, LoopReports, RunsOnce
<1>3. to'["loop"] = {}
  BY <1>1 DEF Senders
<1>4. \A s \in Subscribers : \A t \in Ids : Untold(s, t)' => Untold(s, t)
  BY <1>1, <1>3, UntoldKept
<1>5. ChannelsTyped' /\ \A s \in Subscribers : Quiet(s)
  BY <1>1 DEF HonestInv, EventsInv, ChannelsTyped, Quiet
<1>6. ToldOnce' /\ ToldTruth'
  BY <1>1, <1>4, <1>5, NobodyIsTold DEF HonestInv
<1> QED
  BY <1>2, <1>5, <1>6 DEF EventsInv

LEMMA InitHonest == Init => HonestInv
<1> SUFFICES ASSUME Init PROVE EventsInv
  BY InitFound DEF HonestInv
<1>1. /\ ch = [s \in Subscribers |-> <<>>] /\ seen = [s \in Subscribers |-> {}]
      /\ running = {} /\ finished = {} /\ loop.at = "select"
      /\ \A t \in Ids : state[t] = "queued"
  BY DEF Init, Bc!Init, Pool!Init
<1>2. ChannelsTyped
  BY <1>1 DEF ChannelsTyped
<1>3. \A s \in Subscribers : \A t \in Ids :
        Ends(ch[s], t) = {} /\ Heard(seen[s], t) = {} /\ DOMAIN ch[s] = {} /\ seen[s] = {}
  BY <1>1 DEF Ends, Heard
<1>4. ToldOnce /\ ToldTruth
  BY <1>3 DEF ToldOnce, ToldTruth, Once, Never, Truthful
<1> QED
  BY <1>1, <1>2, <1>4 DEF EventsInv, CompletedIsGood, LoopReports, RunsOnce

LEMMA StepHonest == HonestInv /\ [Next]_vars => HonestInv'
<1> SUFFICES ASSUME HonestInv, [Next]_vars PROVE HonestInv'
  OBVIOUS
<1>1. FoundInv'
  BY StepFound DEF HonestInv
<1> SUFFICES EventsInv'
  BY <1>1 DEF HonestInv
<1>2. CASE MainTurn \/ DaemonTurn \/ SignalTurn
  <2>1. UNCHANGED <<loop, running, finished, state, phase, good, to, ch, seen>>
    BY <1>2 DEF MainTurn, DaemonTurn, SignalTurn, BesideMain, poolVars, taskVars, bcVars
  <2> QED
    BY <2>1, AloneHonest
<1>3. CASE ExitTurn \/ FailTurn
  BY <1>3, ExitHonest DEF ExitTurn, FailTurn, Exit, ListenFails, ServeFails
<1>4. CASE AdmitTurn \/ LoopTurn
  BY <1>4, PoolHonest, TellHonest DEF AdmitTurn, LoopTurn, LoopStep
<1>5. CASE UNCHANGED vars
  <2>1. UNCHANGED <<loop, running, finished, state, phase, good, to, ch, seen>>
    BY <1>5 DEF vars, poolVars, taskVars, bcVars
  <2> QED
    BY <2>1, AloneHonest
<1> QED
  BY <1>2, <1>3, <1>4, <1>5, TaskHonest, RequestHonest, ClientHonest DEF Next

-----------------------------------------------------------------------------
\* At most one, and not none.
LEMMA OneOf ==
  ASSUME NEW S, \A x, y \in S : x = y
  PROVE  IF S = {} THEN Cardinality(S) = 0 ELSE Cardinality(S) = 1
<1>1. CASE S = {}
  BY <1>1, FS_EmptySet
<1>2. CASE S # {}
  <2>1. PICK x : S = {x}
    BY <1>2
  <2> QED
    BY <1>2, <2>1, FS_Singleton
<1> QED
  BY <1>1, <1>2

LEMMA HonestEnough == EventsInv => EventsHonest
<1> SUFFICES ASSUME EventsInv, NEW s \in Subscribers, NEW t \in Ids
             PROVE  /\ Event("onDownloadComplete", t) \in Told(s) => t \in good
                    /\ {Event(m, t) : m \in TerminalMethods} \cap Told(s) # {} =>
                         Cardinality({m \in TerminalMethods : Event(m, t) \in seen[s]})
                           + Cardinality({i \in DOMAIN ch[s] : ch[s][i].id = t /\ ch[s][i].method \in TerminalMethods})
                             = 1
  BY DEF EventsHonest
<1>1. Once(ch[s], seen[s], t) /\ Truthful(ch[s], seen[s], t, good)
  BY DEF EventsInv, ToldOnce, ToldTruth
<1>2. Event("onDownloadComplete", t) \in Told(s) => t \in good
  BY <1>1 DEF Told, Truthful
<1>3. /\ {m \in TerminalMethods : Event(m, t) \in seen[s]} = Heard(seen[s], t)
      /\ {i \in DOMAIN ch[s] : ch[s][i].id = t /\ ch[s][i].method \in TerminalMethods} = Ends(ch[s], t)
  BY DEF Heard, Ends
<1>4. ASSUME {Event(m, t) : m \in TerminalMethods} \cap Told(s) # {}
      PROVE  Cardinality(Heard(seen[s], t)) + Cardinality(Ends(ch[s], t)) = 1
  <2>1. PICK m \in TerminalMethods : Event(m, t) \in Told(s)
    BY <1>4
  <2>2. m \in Heard(seen[s], t) \/ \E i \in DOMAIN ch[s] : i \in Ends(ch[s], t)
    BY <2>1 DEF Told, Heard, Ends, Event
  <2>3. Heard(seen[s], t) # {} \/ Ends(ch[s], t) # {}
    BY <2>2
  <2>4. /\ IF Heard(seen[s], t) = {} THEN Cardinality(Heard(seen[s], t)) = 0
                                     ELSE Cardinality(Heard(seen[s], t)) = 1
        /\ IF Ends(ch[s], t) = {} THEN Cardinality(Ends(ch[s], t)) = 0 ELSE Cardinality(Ends(ch[s], t)) = 1
    <3>1. /\ \A x, y \in Heard(seen[s], t) : x = y
          /\ \A x, y \in Ends(ch[s], t) : x = y
      BY <1>1 DEF Once
    <3> QED
      BY <3>1, OneOf
  <2> QED
    BY <1>1, <2>3, <2>4 DEF Once
<1> QED
  BY <1>2, <1>3, <1>4

\* A client is told that a download is complete only if its file was verified,
\* and never that it ended twice, however its channel overflows, whoever else
\* broadcasts and whatever requests do to the task's state in between.
THEOREM EventsAreHonest == Spec => []EventsHonest
<1>1. Spec => []HonestInv
  BY InitHonest, StepHonest, PTL DEF Spec
<1>2. HonestInv => EventsHonest
  BY HonestEnough DEF HonestInv
<1> QED
  BY <1>1, <1>2, PTL
=============================================================================
