----------------------------- MODULE RpcDaemon -----------------------------
(***************************************************************************)
(* odm --rpc as a whole: the main goroutine (main.go runRPC), the Daemon   *)
(* and its hooks (scheduler/daemon.go), the RPC requests that add, pause,  *)
(* unpause and remove tasks or shut the program down (rpc/server.go), the  *)
(* registry they look tasks up in (Registry), the tasks themselves as far  *)
(* as a request or an event can tell, and the events that clients read     *)
(* (Broadcaster).  The scheduler is what it promises to be: the steps of   *)
(* SlotPool, which module Scheduler is shown to implement.                 *)
(***************************************************************************)
EXTENDS Naturals, Sequences, FiniteSets

CONSTANTS
  Requests,     \* requests that may arrive, each once
  Subscribers,  \* WebSocket clients
  Methods,      \* the methods each request may call
  Slots,        \* downloads at once
  MaxPending,   \* maxPendingTasks
  MaxTracked,   \* maxTrackedTasks
  Capacity      \* of a subscriber's channel

AllKinds == {"addUri", "addBatch", "pause", "unpause", "remove", "shutdown"}

ASSUME DaemonAssumption ==
  /\ IsFiniteSet(Requests) /\ Methods \in [Requests -> SUBSET AllKinds]
  /\ "loop" \notin Requests
  /\ Slots \in Nat \ {0} /\ MaxPending \in Nat \ {0}
  /\ MaxTracked \in Nat \ {0} /\ Capacity \in Nat \ {0}

\* A task's id is its number.
Ids == 1..Cardinality(Requests)

\* Goroutines that broadcast: requests and the run loop.
Senders == Requests \cup {"loop"}

VARIABLES
  \* runRPC
  main,        \* where the main goroutine is
  exit,        \* "no", or how the process ended
  signalled,   \* the context of signalCtx is cancelled
  shutdown,    \* how often the channel shutdown was closed
  \* Daemon
  daemon,      \* where the goroutine of Start is
  stopped,     \* Stop has cancelled the context of Run
  done,        \* the channel done is closed
  ondead,      \* hooks that wait for the end
  \* scheduler, abstractly
  waiting, running, finished, open,
  loop,        \* the completion the run loop is at
  \* tasks
  nextID,
  state,       \* TaskState
  phase,       \* how far Start has come
  paused, cancelled, ctxDone,
  good,        \* tasks whose file was verified
  \* requests
  op,
  \* registry and events
  registry, cur, nv,
  subscribers, to, ch, seen, lost, left

TerminalMethods == {"onDownloadComplete", "onDownloadError"}

Pool == INSTANCE SlotPool WITH Tasks <- Ids, Batch <- <<>>
Reg == INSTANCE Registry WITH Callers <- Requests
Bc == INSTANCE Broadcaster WITH Remembered <- TerminalMethods \cup {"onDownloadStart"}

mainVars == <<main, exit, signalled, shutdown>>
daemonVars == <<daemon, stopped, done, ondead>>
poolVars == <<waiting, running, finished, open>>
taskVars == <<state, phase, paused, cancelled, ctxDone, good>>
regVars == <<registry, cur, nv>>
bcVars == <<subscribers, to, ch, seen, lost, left>>
vars == <<mainVars, daemonVars, poolVars, loop, nextID, taskVars, op, regVars, bcVars>>

\* Everything a step of a request leaves alone but its own place.
others == <<mainVars, poolVars, loop>>

Event(method, id) == [method |-> method, id |-> id]

NoRequest == [at |-> "idle", kind |-> "", id |-> 0]

At(r, place) == op[r].at = place

Goto(r, place) == op' = [op EXCEPT ![r].at = place]

Reply(r) == op' = [op EXCEPT ![r] = [NoRequest EXCEPT !.at = "replied"]]

\* The context Run was given, and the one of a task.
RunCancelled == signalled \/ stopped

Cancelled(t) == ctxDone[t] \/ RunCancelled

-----------------------------------------------------------------------------
(* The main goroutine.  Serving a listener is external: it ends when the    *)
(* listener is closed, or with an error of its own.                         *)

StartDaemon ==
  /\ main = "start" /\ main' = "hook"
  /\ daemon' = "run"
  /\ UNCHANGED <<exit, signalled, shutdown, stopped, done, ondead>>

\* Mutant: dead is whoever has a done channel, which Start makes.
DoneClosedMut == daemon # "none"

DoneClosed == done

\* OnDead: the hook is called at once if Run has already ended.
OnDead ==
  /\ main = "hook" /\ main' = "listen"
  /\ IF DoneClosed
       THEN shutdown' = shutdown + 1 /\ UNCHANGED ondead
       ELSE ondead' = TRUE /\ UNCHANGED shutdown
  /\ UNCHANGED <<exit, signalled, daemon, stopped, done>>

Listen ==
  /\ main = "listen" /\ main' = "select"
  /\ UNCHANGED <<exit, signalled, shutdown, daemonVars>>

Signal ==
  /\ ~signalled /\ signalled' = TRUE
  /\ UNCHANGED <<main, exit, shutdown, daemonVars>>

MainStep == StartDaemon \/ OnDead \/ Listen

\* The process ends and its goroutines and channels with it; the tasks stay
\* as far as they had come.
EndProcess(how) ==
  /\ exit' = how
  /\ op' = [r \in Requests |-> NoRequest]
  /\ cur' = [r \in Requests |-> {}] /\ nv' = [r \in Requests |-> {}]
  /\ to' = [x \in Senders |-> {}] /\ ch' = [s \in Subscribers |-> <<>>]
  /\ UNCHANGED <<main, signalled, shutdown, daemonVars, poolVars, loop, nextID, taskVars,
                 registry, subscribers, seen, lost, left>>

\* The select; with several channels ready, any of them.  Then the listener is
\* closed, Serve returns, and with runRPC the process ends.
Exit ==
  /\ main = "select"
  /\ \/ shutdown > 0 /\ EndProcess("ok")
     \/ signalled /\ EndProcess("cancelled")

ListenFails == main = "listen" /\ EndProcess("error")

ServeFails == main = "select" /\ EndProcess("error")

-----------------------------------------------------------------------------
(* The goroutine of Daemon.Start.                                           *)

\* Run has seen the cancellation and has no live task left.
RunReturns ==
  /\ daemon = "run" /\ ~open /\ running = {} /\ loop.at = "select"
  /\ daemon' = "returned"
  /\ UNCHANGED <<mainVars, stopped, done, ondead>>

CloseDone ==
  /\ daemon = "returned" /\ daemon' = "closed"
  /\ done' = TRUE
  /\ UNCHANGED <<mainVars, stopped, ondead>>

TakeHooks ==
  /\ daemon = "closed"
  /\ daemon' = IF ondead THEN "fire" ELSE "over"
  /\ ondead' = FALSE
  /\ UNCHANGED <<mainVars, stopped, done>>

FireHooks ==
  /\ daemon = "fire" /\ daemon' = "over"
  /\ shutdown' = shutdown + 1
  /\ UNCHANGED <<main, exit, signalled, stopped, done, ondead>>

DaemonStep == RunReturns \/ CloseDone \/ TakeHooks \/ FireHooks

-----------------------------------------------------------------------------
(* The scheduler.  Its run loop takes one report at a time.                 *)

SeeCancel ==
  /\ daemon = "run" /\ loop.at = "select" /\ RunCancelled
  /\ Pool!Close
  /\ UNCHANGED <<loop, bcVars>>

Admit ==
  /\ Pool!Begin
  /\ UNCHANGED <<loop, bcVars>>

\* handleComplete takes the task out of the live set and then reads its state.
Retire(t) ==
  /\ loop.at = "select" /\ phase[t] = "returned"
  /\ Pool!Finish(t)
  /\ loop' = [loop EXCEPT !.at = "report", !.id = t]
  /\ UNCHANGED bcVars

\* Mutant: only a finished download is reported.
OnTaskCompleteMut ==
  /\ loop.at = "report"
  /\ IF state[loop.id] = "completed"
       THEN /\ loop' = [loop EXCEPT !.at = "tell", !.ev = "onDownloadComplete"]
            /\ Bc!Address("loop")
       ELSE loop' = [loop EXCEPT !.at = "select"] /\ UNCHANGED bcVars
  /\ UNCHANGED poolVars

OnTaskComplete ==
  /\ loop.at = "report"
  /\ loop' = [loop EXCEPT !.at = "tell",
                !.ev = IF state[loop.id] = "completed" THEN "onDownloadComplete" ELSE "onDownloadError"]
  /\ Bc!Address("loop")
  /\ UNCHANGED poolVars

TellEnd ==
  /\ loop.at = "tell"
  /\ \/ \E s \in Subscribers : Bc!Offer("loop", s, Event(loop.ev, loop.id)) /\ UNCHANGED loop
     \/ to["loop"] = {} /\ loop' = [loop EXCEPT !.at = "select"] /\ UNCHANGED bcVars
  /\ UNCHANGED poolVars

LoopStep == SeeCancel \/ (\E t \in Ids : Retire(t)) \/ OnTaskComplete \/ TellEnd

-----------------------------------------------------------------------------
(* Task.Start, as far as its state tells.                                   *)

\* Start makes its context, and with it what Cancel calls.
BeginStart(t) ==
  /\ t \in running /\ phase[t] = "new"
  /\ phase' = [phase EXCEPT ![t] = "begun"]
  /\ UNCHANGED <<state, paused, cancelled, ctxDone, good>>

\* A task removed while it was queued fails at once.
CheckCancelled(t) ==
  /\ phase[t] = "begun"
  /\ phase' = [phase EXCEPT ![t] = IF cancelled[t] THEN "returned" ELSE "active"]
  /\ state' = [state EXCEPT ![t] = IF cancelled[t] THEN "error" ELSE "active"]
  /\ UNCHANGED <<paused, cancelled, ctxDone, good>>

EndAs(t, s) ==
  /\ phase' = [phase EXCEPT ![t] = "returned"]
  /\ state' = [state EXCEPT ![t] = s]
  /\ UNCHANGED <<paused, cancelled, ctxDone>>

EndCancelled(t) ==
  phase[t] = "active" /\ Cancelled(t) /\ EndAs(t, "paused") /\ UNCHANGED good

\* A failed probe, a refused destination, or chunks given up.
EndFailed(t) ==
  phase[t] = "active" /\ EndAs(t, "error") /\ UNCHANGED good

\* The file is declared complete before its checksum is known.
DeclareComplete(t) ==
  /\ phase[t] = "active" /\ ~Cancelled(t)
  /\ phase' = [phase EXCEPT ![t] = "verify"]
  /\ state' = [state EXCEPT ![t] = "completed"]
  /\ UNCHANGED <<paused, cancelled, ctxDone, good>>

\* Mutant: a mismatch is an error of Start and not of the state.
VerifyChecksumMut(t) ==
  /\ phase[t] = "verify"
  /\ phase' = [phase EXCEPT ![t] = "returned"]
  /\ good' \in {good, good \cup {t}}
  /\ UNCHANGED <<state, paused, cancelled, ctxDone>>

VerifyChecksum(t) ==
  /\ phase[t] = "verify"
  /\ \/ EndAs(t, "error") /\ UNCHANGED good
     \/ /\ phase' = [phase EXCEPT ![t] = "returned"]
        /\ good' = good \cup {t}
        /\ UNCHANGED <<state, paused, cancelled, ctxDone>>

TaskEnds(t) == EndFailed(t) \/ DeclareComplete(t)

TaskStep(t) == BeginStart(t) \/ CheckCancelled(t) \/ EndCancelled(t) \/ VerifyChecksum(t)

Terminal == {t \in Ids : state[t] \in {"completed", "error"}}

-----------------------------------------------------------------------------
(* Requests.  Connections outlive the listener, so requests may arrive      *)
(* until the process ends.                                                  *)

Adds == {"addUri", "addBatch"}

FirstStep(kind) == IF kind = "remove" THEN "flag" ELSE "gate"

\* NewTask takes the next id.
ArriveAdd(r, kind) ==
  /\ op' = [op EXCEPT ![r] = [at |-> "load", kind |-> kind, id |-> nextID]]
  /\ nextID' = nextID + 1

\* A request about an unknown task is answered with an error.
ArriveAbout(r, kind, id) ==
  /\ IF Reg!Task(id) THEN op' = [op EXCEPT ![r] = [at |-> FirstStep(kind), kind |-> kind, id |-> id]]
                     ELSE Reply(r)
  /\ UNCHANGED nextID

\* The reply to odm.shutdown is flushed before the daemon is stopped.
ArriveShutdown(r) ==
  /\ Goto(r, "stop")
  /\ UNCHANGED nextID

Arrive(r) ==
  /\ At(r, "idle") /\ main = "select"
  /\ \E kind \in Methods[r] :
       \/ kind \in Adds /\ ArriveAdd(r, kind)
       \/ kind \in {"pause", "unpause", "remove"} /\ \E id \in Ids : ArriveAbout(r, kind, id)
       \/ kind = "shutdown" /\ ArriveShutdown(r)
  /\ UNCHANGED <<others, daemonVars, taskVars, regVars, bcVars>>

\* track
LoadMap(r) ==
  /\ At(r, "load") /\ Goto(r, "build")
  /\ Reg!Load(r)
  /\ UNCHANGED <<others, daemonVars, nextID, taskVars, bcVars>>

BuildMap(r) ==
  /\ At(r, "build") /\ Goto(r, "swap")
  /\ Reg!Build(r, op[r].id, Terminal)
  /\ UNCHANGED <<others, daemonVars, nextID, taskVars, bcVars>>

SwapMap(r) ==
  /\ At(r, "swap")
  /\ \/ Reg!Swap(r) /\ Goto(r, "enqueue")
     \/ ~Reg!CanSwap(r) /\ Goto(r, "load") /\ UNCHANGED regVars
  /\ UNCHANGED <<others, daemonVars, nextID, taskVars, bcVars>>

\* Enqueue.  A refused task stays in the registry.
Enqueue(r) ==
  /\ At(r, "enqueue")
  /\ IF open /\ Len(waiting) < MaxPending
       THEN /\ Pool!Submit(op[r].id)
            /\ IF op[r].kind = "addUri" THEN Goto(r, "announce") ELSE Reply(r)
       ELSE UNCHANGED poolVars /\ Reply(r)
  /\ UNCHANGED <<mainVars, daemonVars, loop, nextID, taskVars, regVars, bcVars>>

\* Pause and Unpause: the flag under the task's lock, the state after it.
Gate(r) ==
  /\ At(r, "gate") /\ Goto(r, "mark")
  /\ paused' = [paused EXCEPT ![op[r].id] = op[r].kind = "pause"]
  /\ UNCHANGED <<others, daemonVars, nextID, state, phase, cancelled, ctxDone, good, regVars, bcVars>>

Mark(r) ==
  /\ At(r, "mark")
  /\ state' = [state EXCEPT ![op[r].id] = IF op[r].kind = "pause" THEN "paused" ELSE "active"]
  /\ IF op[r].kind = "pause" THEN Goto(r, "announce") ELSE Reply(r)
  /\ UNCHANGED <<others, daemonVars, nextID, phase, paused, cancelled, ctxDone, good, regVars, bcVars>>

\* Remove: Cancel sets the flag and then calls what Start has made by then.
Flag(r) ==
  /\ At(r, "flag") /\ Goto(r, "cancel")
  /\ cancelled' = [cancelled EXCEPT ![op[r].id] = TRUE]
  /\ UNCHANGED <<others, daemonVars, nextID, state, phase, paused, ctxDone, good, regVars, bcVars>>

CancelTask(r) ==
  /\ At(r, "cancel") /\ Reply(r)
  /\ ctxDone' = [ctxDone EXCEPT ![op[r].id] = @ \/ phase[op[r].id] # "new"]
  /\ UNCHANGED <<others, daemonVars, nextID, state, phase, paused, cancelled, good, regVars, bcVars>>

\* Events of requests.
Announce(r) ==
  /\ At(r, "announce") /\ Goto(r, "tell")
  /\ Bc!Address(r)
  /\ UNCHANGED <<others, daemonVars, nextID, taskVars, regVars>>

MethodOf(kind) == IF kind = "addUri" THEN "onDownloadStart" ELSE "onDownloadPause"

Tell(r) ==
  /\ At(r, "tell")
  /\ \/ /\ \E s \in Subscribers : Bc!Offer(r, s, Event(MethodOf(op[r].kind), op[r].id))
        /\ UNCHANGED op
     \/ to[r] = {} /\ Reply(r) /\ UNCHANGED bcVars
  /\ UNCHANGED <<others, daemonVars, nextID, taskVars, regVars>>

\* Stop cancels the context of Run and waits for its end.
Stop(r) ==
  /\ At(r, "stop") /\ Goto(r, "wait")
  /\ stopped' = TRUE
  /\ UNCHANGED <<others, daemon, done, ondead, nextID, taskVars, regVars, bcVars>>

Stopped(r) ==
  /\ At(r, "wait") /\ done /\ Reply(r)
  /\ UNCHANGED <<others, daemonVars, nextID, taskVars, regVars, bcVars>>

RequestStep(r) ==
  \/ LoadMap(r) \/ BuildMap(r) \/ SwapMap(r) \/ Enqueue(r)
  \/ Gate(r) \/ Mark(r) \/ Flag(r) \/ CancelTask(r)
  \/ Announce(r) \/ Tell(r) \/ Stop(r) \/ Stopped(r)

-----------------------------------------------------------------------------
(* Progress events of live tasks, which the throttler spaces out.  Nothing   *)
(* depends on when they were addressed, so one is a single step.            *)

Forward(t) ==
  /\ t \in running /\ phase[t] \in {"active", "verify"}
  /\ Bc!Flood(Event("onDownloadProgress", t))

-----------------------------------------------------------------------------
Init ==
  /\ main = "start" /\ exit = "no" /\ signalled = FALSE /\ shutdown = 0
  /\ daemon = "none" /\ stopped = FALSE /\ done = FALSE /\ ondead = FALSE
  /\ Pool!Init
  /\ loop = [at |-> "select", id |-> 0, ev |-> ""]
  /\ nextID = 1
  /\ state = [t \in Ids |-> "queued"] /\ phase = [t \in Ids |-> "new"]
  /\ paused = [t \in Ids |-> FALSE] /\ cancelled = [t \in Ids |-> FALSE]
  /\ ctxDone = [t \in Ids |-> FALSE] /\ good = {}
  /\ op = [r \in Requests |-> NoRequest]
  /\ Reg!Init
  /\ Bc!Init

(* What each group of steps leaves alone; the process runs until it exits.  *)

Running == exit = "no"

BesideMain == <<poolVars, loop, nextID, taskVars, op, regVars, bcVars>>

BesidePool == <<mainVars, daemonVars, nextID, taskVars, op, regVars>>

BesideTask == <<mainVars, daemonVars, poolVars, loop, nextID, op, regVars, bcVars>>

BesideEvents == <<mainVars, daemonVars, poolVars, loop, nextID, taskVars, op, regVars>>

MainTurn == Running /\ MainStep /\ UNCHANGED BesideMain

DaemonTurn == Running /\ DaemonStep /\ UNCHANGED BesideMain

SignalTurn == Running /\ Signal /\ UNCHANGED BesideMain

ExitTurn == Running /\ Exit

FailTurn == Running /\ (ListenFails \/ ServeFails)

AdmitTurn == Running /\ Admit /\ UNCHANGED BesidePool

LoopTurn == Running /\ LoopStep /\ UNCHANGED BesidePool

TaskTurn(t) == Running /\ TaskStep(t) /\ UNCHANGED BesideTask

TaskEndTurn(t) == Running /\ TaskEnds(t) /\ UNCHANGED BesideTask

ArriveTurn(r) == Running /\ Arrive(r)

RequestTurn(r) == Running /\ RequestStep(r)

ForwardTurn == Running /\ (\E t \in Ids : Forward(t)) /\ UNCHANGED BesideEvents

AttachTurn(s) == Running /\ Bc!Attach(s) /\ UNCHANGED BesideEvents

PumpTurn(s) ==
  Running /\ (Bc!Pump(s) \/ Bc!Detach(s)) /\ UNCHANGED BesideEvents

Next ==
  \/ MainTurn \/ DaemonTurn \/ SignalTurn \/ ExitTurn \/ FailTurn
  \/ AdmitTurn \/ LoopTurn
  \/ \E t \in Ids : TaskTurn(t) \/ TaskEndTurn(t)
  \/ \E r \in Requests : ArriveTurn(r) \/ RequestTurn(r)
  \/ ForwardTurn
  \/ \E s \in Subscribers : AttachTurn(s) \/ PumpTurn(s)

Spec == Init /\ [][Next]_vars

\* Goroutines run, a download comes to an end unless it is paused, and a pump
\* that has an event writes it or gives up within wsWriteWait.  Each of these goroutines takes
\* finitely many steps, so that some goroutine that can go on does is enough.
\* Admission is as fair as Scheduler shows it to be.  Nobody has to send a
\* request or a signal, and no progress need be reported.
Goroutines ==
  \/ MainTurn \/ ExitTurn \/ DaemonTurn \/ AdmitTurn \/ LoopTurn
  \/ \E t \in Ids : TaskTurn(t) \/ (~paused[t] /\ TaskEndTurn(t))
  \/ \E r \in Requests : RequestTurn(r)

Fairness == WF_vars(Goroutines) /\ \A s \in Subscribers : WF_vars(ch[s] # <<>> /\ PumpTurn(s))

FairSpec == Spec /\ Fairness

-----------------------------------------------------------------------------
(* Properties.                                                              *)

MainOK ==
  /\ main \in {"start", "hook", "listen", "select"}
  /\ exit \in {"no", "ok", "cancelled", "error"}
  /\ signalled \in BOOLEAN /\ shutdown \in Nat

DaemonOK ==
  /\ daemon \in {"none", "run", "returned", "closed", "fire", "over"}
  /\ stopped \in BOOLEAN /\ done \in BOOLEAN /\ ondead \in BOOLEAN

PoolOK ==
  waiting \in Seq(Ids) /\ running \subseteq Ids /\ finished \subseteq Ids /\ open \in BOOLEAN

LoopOK ==
  loop \in [at : {"select", "report", "tell"}, id : Ids \cup {0}, ev : TerminalMethods \cup {""}]

TaskOK ==
  /\ state \in [Ids -> {"queued", "active", "paused", "completed", "error"}]
  /\ phase \in [Ids -> {"new", "begun", "active", "verify", "returned"}]
  /\ paused \in [Ids -> BOOLEAN] /\ cancelled \in [Ids -> BOOLEAN]
  /\ ctxDone \in [Ids -> BOOLEAN] /\ good \subseteq Ids

Places == {"idle", "load", "build", "swap", "enqueue", "gate", "mark", "flag", "cancel", "announce",
           "tell", "stop", "wait", "replied"}

RequestOK ==
  nextID \in Nat /\ op \in [Requests -> [at : Places, kind : AllKinds \cup {""}, id : Ids \cup {0}]]

RegistryOK ==
  registry \subseteq Ids /\ cur \in [Requests -> SUBSET Ids] /\ nv \in [Requests -> SUBSET Ids]

EventsOK ==
  /\ subscribers \subseteq Subscribers /\ to \in [Senders -> SUBSET Subscribers]
  /\ lost \subseteq Subscribers /\ left \subseteq Subscribers

TypeOK ==
  MainOK /\ DaemonOK /\ PoolOK /\ LoopOK /\ TaskOK /\ RequestOK /\ RegistryOK /\ EventsOK

\* A task the scheduler has taken on and whose file is not decided yet can be
\* found by pause, remove and tellStatus, however many requests add tasks at
\* the same moment and whatever the registry prunes.
Undecided(t) ==
  \/ \E i \in DOMAIN waiting : waiting[i] = t
  \/ t \in running /\ phase[t] \in {"new", "begun", "active"}

ActionableFound == \A t \in Ids : Undecided(t) => t \in registry

\* The hook fires at most once (a second call would close a closed channel and
\* panic) and only when Run is over; the process ends with success only then,
\* with no download left under way.
ShutdownIsClean ==
  /\ shutdown <= 1 /\ (shutdown = 1 => done)
  /\ exit = "ok" => ~open /\ running = {} /\ \A t \in Ids : phase[t] \in {"new", "returned"}

Told(s) == seen[s] \cup {ch[s][i] : i \in DOMAIN ch[s]}

\* A client is told that a download is complete only if its file was verified,
\* and never that it ended twice.
EventsHonest ==
  \A s \in Subscribers :
    /\ \A t \in Ids : Event("onDownloadComplete", t) \in Told(s) => t \in good
    /\ \A t \in Ids : {Event(m, t) : m \in TerminalMethods} \cap Told(s) # {} =>
         Cardinality({m \in TerminalMethods : Event(m, t) \in seen[s]})
           + Cardinality({i \in DOMAIN ch[s] : ch[s][i].id = t /\ ch[s][i].method \in TerminalMethods})
             = 1

\* Who hears that a download started while it is still live or waiting hears
\* how it ended, as long as the client stays, reads fast enough to lose nothing,
\* the task is not kept paused and the daemon is not told to stop.  (The start
\* is announced after the task was handed over, so a client that connects in
\* between may hear of the start of a task whose end it has missed.)
StartedIsEnded ==
  \A s \in Subscribers, t \in Ids :
    Event("onDownloadStart", t) \in seen[s] /\ t \notin finished
      ~> \/ \E m \in TerminalMethods : Event(m, t) \in seen[s]
         \/ s \notin subscribers \/ s \in lost \/ paused[t] \/ RunCancelled \/ exit # "no"

\* A shutdown request or a signal always ends the process, whatever the tasks,
\* the other requests and the clients do.
ShutdownExits == RunCancelled ~> exit # "no"
=============================================================================
