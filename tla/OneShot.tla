------------------------------ MODULE OneShot ------------------------------
(***************************************************************************)
(* odm with URLs on its command line (cmd/odm/main.go run): the URLs are   *)
(* probed side by side, the plan is confirmed, the scheduler runs, and the *)
(* renderer's goroutine shows how far the tasks have come until main draws *)
(* the last frame and exits with a code.  The run loop is that of          *)
(* Scheduler, here with the steps that publish views; which tasks wait and *)
(* run is kept with the actions of SlotPool.  A task is named by its URL,  *)
(* and URLs are numbers in their order as strings.                         *)
(***************************************************************************)
EXTENDS Naturals, Sequences, FiniteSets, SequencesExt

CONSTANTS
  Given,      \* the URLs as given, in order
  Dead,       \* those whose probe fails
  MaxProbers, \* probes at once
  Slots,      \* downloads at once, as planned
  Backlog,    \* capacity of the snapshot channels
  Height      \* of the terminal

ASSUME OneShotAssumption ==
  /\ Given \in Seq(Nat \ {0}) /\ Given # <<>> /\ Dead \subseteq Nat
  /\ MaxProbers \in Nat \ {0} /\ Slots \in Nat \ {0}
  /\ Backlog \in Nat \ {0} /\ Height \in Nat \ {0}

\* Mutant: nothing is removed.
URLsMut == Given

\* dedupeURLs keeps the first of each.
URLs == FoldLeft(LAMBDA out, u : IF Contains(out, u) THEN out ELSE Append(out, u), <<>>, Given)

Tasks == ToSet(URLs)

Probers == 1..Min({Len(URLs), MaxProbers})

\* Goroutines that publish views: those of the tasks and the run loop.
Loop == 0
Emitters == Tasks \cup {Loop}

VARIABLES
  \* main
  main,       \* where it is
  code,       \* the exit code, or "none"
  signalled,  \* the context of signalCtx is cancelled
  \* probe pass
  next,       \* the URL each prober is at
  probeCh,    \* results on their way
  files,      \* what Compute is given
  \* scheduler
  waiting, running, finished, open,
  loop,       \* where Run is
  ending,     \* "no", or why Run comes to its end
  doneCh,     \* closed: the WaitGroup was empty
  good, bad,  \* succeeded and failed
  \* tasks
  task,       \* what a view of it would show
  phase,      \* how far Start has come
  \* views on their way to the screen
  live,       \* what each emitter has read of the running tasks
  snap, qSnap,
  ui,         \* where the goroutine of RunLoop is
  cache, lastLive, lastQueue, lastLines, drawn, torn

Pool == INSTANCE SlotPool WITH Batch <- <<>>
Ui == INSTANCE Renderer

mainVars == <<main, code, signalled>>
probeVars == <<next, probeCh, files>>
poolVars == <<waiting, running, finished, open>>
loopVars == <<loop, ending, doneCh, good, bad>>
taskVars == <<task, phase>>
chanVars == <<live, snap, qSnap>>
screen == <<cache, lastLive, lastQueue, lastLines, drawn, torn>>
vars == <<mainVars, probeVars, poolVars, loopVars, taskVars, chanVars, ui, screen>>

-----------------------------------------------------------------------------
(* Probe pass.  The probers share the URLs by stride.                       *)

\* A probe succeeds or not; the URL's size is known if it does.
Probe(w) ==
  /\ next[w] <= Len(URLs)
  /\ \/ /\ Len(probeCh) < Len(URLs)
        /\ probeCh' = Append(probeCh, [url |-> URLs[next[w]], ok |-> URLs[next[w]] \notin Dead])
        /\ next' = [next EXCEPT ![w] = @ + Cardinality(Probers)]
     \/ signalled /\ next' = [next EXCEPT ![w] = Len(URLs) + 1] /\ UNCHANGED probeCh
  /\ UNCHANGED files

\* A result is taken in.
Receive ==
  /\ main = "probe" /\ probeCh # <<>>
  /\ files' = Append(files, Head(probeCh)) /\ probeCh' = Tail(probeCh)
  /\ main' = IF Len(files') = Len(URLs) THEN "plan" ELSE "probe"
  /\ UNCHANGED <<next, code, signalled>>

-----------------------------------------------------------------------------
(* main.                                                                    *)

\* The process ends, and its channels with it.
ExitWith(c) ==
  /\ main' = "exit" /\ code' = c
  /\ next' = [w \in Probers |-> Len(URLs) + 1] /\ probeCh' = <<>>
  /\ live' = [e \in Emitters |-> <<>>] /\ snap' = <<>> /\ qSnap' = <<>>
  /\ UNCHANGED <<signalled, files, poolVars, loopVars, taskVars, ui, screen>>

\* Mutant: the consumer waits for a result and for nothing else.
CancelProbeMut == main = "probe" /\ signalled /\ probeCh # <<>> /\ ExitWith("cancelled")

CancelProbe == main = "probe" /\ signalled /\ ExitWith("cancelled")

\* The files in the order of their URLs.
Sorted(fs) ==
  CHOOSE r \in [DOMAIN fs -> ToSet(fs)] :
    /\ ToSet(r) = ToSet(fs)
    /\ \A i, j \in DOMAIN fs : i < j => r[i].url <= r[j].url

\* The scheduler is made from the plan and the renderer's goroutine starts.
StartRun ==
  /\ main' = "run" /\ loop' = "start" /\ ui' = "loop"
  /\ files' = Sorted(files)
  /\ waiting' = [i \in DOMAIN files |-> files'[i].url]
  /\ task' = [t \in Tasks |-> [task[t] EXCEPT !.sized = Contains(files, [url |-> t, ok |-> TRUE])]]
  /\ UNCHANGED <<code, signalled, next, probeCh, running, finished, open, ending, doneCh,
                 good, bad, phase, chanVars, screen>>

\* Compute may refuse the budget; a dry run ends with the plan; -y and --quiet
\* go without the prompt.
Plan ==
  /\ main = "plan"
  /\ \/ ExitWith("general") \/ ExitWith("ok") \/ StartRun
     \/ /\ main' = "prompt"
        /\ UNCHANGED <<code, signalled, probeVars, poolVars, loopVars, taskVars, chanVars, ui, screen>>

\* The prompt reads yes, no or the end of the input, or fails to read.
Answer == main = "prompt" /\ (StartRun \/ ExitWith("cancelled") \/ ExitWith("general"))

Signal ==
  /\ ~signalled /\ signalled' = TRUE
  /\ UNCHANGED <<main, code, probeVars, poolVars, loopVars, taskVars, chanVars, ui, screen>>

\* Run has returned and uiCancel was called.  Mutant: main does not wait for
\* the renderer's goroutine.
LoopGoneMut == TRUE

LoopGone == ui = "ended"

LastFrame ==
  /\ main = "returned" /\ LoopGone
  /\ Ui!FinalFrame
  /\ main' = "drawn"
  /\ UNCHANGED <<code, signalled, probeVars, poolVars, loopVars, taskVars, chanVars, ui>>

ExitCodeFrom ==
  CASE good = 0 /\ bad = 0 -> "general"
    [] good > 0 /\ bad = 0 -> "ok"
    [] good = 0 /\ bad > 0 -> "network"
    [] OTHER               -> "partial"

ExitCode == IF ending = "cancelled" THEN "cancelled" ELSE ExitCodeFrom

MainStep ==
  \/ CancelProbe \/ Plan \/ LastFrame
  \/ main = "drawn" /\ ExitWith(ExitCode)

-----------------------------------------------------------------------------
(* Run, on the goroutine of main.                                           *)

AdmitFirst ==
  /\ loop = "start"
  /\ IF waiting # <<>> /\ Cardinality(running) < Slots
       THEN Pool!Begin /\ UNCHANGED loop
       ELSE loop' = "select" /\ UNCHANGED poolVars
  /\ UNCHANGED <<main, ending, doneCh, good, bad, chanVars>>

\* handleComplete
Retire(t) ==
  /\ loop = "select" /\ phase[t] = "posted"
  /\ Pool!Finish(t)
  /\ IF task[t].state = "completed" THEN good' = good + 1 /\ UNCHANGED bad
                                    ELSE bad' = bad + 1 /\ UNCHANGED good
  /\ loop' = IF ending = "no" THEN "admit" ELSE "emit"
  /\ UNCHANGED <<main, ending, doneCh, chanVars>>

AdmitNext ==
  /\ loop = "admit" /\ loop' = "emit"
  /\ IF waiting # <<>> /\ Cardinality(running) < Slots THEN Pool!Begin ELSE UNCHANGED poolVars
  /\ UNCHANGED <<main, ending, doneCh, good, bad, chanVars>>

\* wg.Wait returns when every task that was launched has posted its report.
WaitReturns ==
  /\ loop \notin {"off", "start"} /\ ~doneCh
  /\ \A t \in running : phase[t] = "posted"
  /\ doneCh' = TRUE
  /\ UNCHANGED <<main, poolVars, loop, ending, good, bad, chanVars>>

SeeDone ==
  /\ loop = "select" /\ ending = "no" /\ doneCh
  /\ ending' = "done"
  /\ UNCHANGED <<main, poolVars, loop, doneCh, good, bad, chanVars>>

SeeCancel ==
  /\ loop = "select" /\ ending = "no" /\ signalled
  /\ ending' = "cancelled"
  /\ Pool!Close
  /\ UNCHANGED <<main, loop, doneCh, good, bad, chanVars>>

\* Mutant: a cancelled Run returns without its last reports.
NoneLiveMut == TRUE

NoneLive == running = {}

NoReport == \A t \in running : phase[t] # "posted"

RunReturns ==
  /\ loop = "select"
  /\ \/ ending = "cancelled" /\ NoneLive
     \/ ending = "done" /\ NoReport
  /\ loop' = "over" /\ main' = "returned"
  /\ UNCHANGED <<poolVars, ending, doneCh, good, bad, chanVars>>

-----------------------------------------------------------------------------
(* emit: the views of the running tasks are read, then those of the waiting *)
(* ones, and progCB offers both to the renderer without waiting.            *)

ViewsOf(S) == [t \in S |-> task[t]]

ReadLive(e) ==
  /\ live[e] = <<>>
  /\ live' = [live EXCEPT ![e] = <<ViewsOf(running)>>]
  /\ UNCHANGED <<snap, qSnap>>

Offered(channel, v) == IF Len(channel) < Backlog THEN Append(channel, v) ELSE channel

Publish(e) ==
  /\ live[e] # <<>>
  /\ snap' = Offered(snap, live[e][1])
  /\ qSnap' = Offered(qSnap, ViewsOf(ToSet(waiting)))
  /\ live' = [live EXCEPT ![e] = <<>>]

EmitLoop ==
  /\ loop = "emit"
  /\ \/ ReadLive(Loop) /\ UNCHANGED loop
     \/ Publish(Loop) /\ loop' = "select"
  /\ UNCHANGED <<main, poolVars, ending, doneCh, good, bad>>

RunStep ==
  \/ AdmitFirst \/ AdmitNext \/ (\E t \in Tasks : Retire(t))
  \/ WaitReturns \/ SeeDone \/ SeeCancel \/ RunReturns \/ EmitLoop

-----------------------------------------------------------------------------
(* Task.Start, as far as its views tell.  A task that publishes is not at   *)
(* its end yet.                                                             *)

Become(t, v, p) ==
  /\ task' = [task EXCEPT ![t] = v]
  /\ phase' = [phase EXCEPT ![t] = p]

Begin(t) ==
  /\ t \in running /\ phase[t] = "new"
  /\ Become(t, [task[t] EXCEPT !.state = "active"], "active")
  /\ UNCHANGED chanVars

\* noteBytes, which publishes from time to time.  The reads of a cancelled
\* task fail.
NoteBytes(t) ==
  /\ phase[t] = "active" /\ live[t] = <<>> /\ ~signalled
  /\ \/ task[t].bytes = "none" /\ Become(t, [task[t] EXCEPT !.bytes = "some"], "active")
     \/ task[t].bytes = "some" /\ task[t].sized /\ Become(t, [task[t] EXCEPT !.bytes = "all"], "active")
  /\ UNCHANGED chanVars

Report(t) ==
  /\ phase[t] = "active" /\ task[t].bytes # "none" /\ ~signalled
  /\ ReadLive(t)
  /\ UNCHANGED taskVars

\* The task has stopped by itself: it failed, or its file is complete until the
\* checksum says otherwise.
Stop(t) ==
  /\ phase[t] = "active" /\ live[t] = <<>>
  /\ \/ Become(t, [task[t] EXCEPT !.state = "error"], "final")
     \/ /\ task[t].sized => task[t].bytes = "all"
        /\ Become(t, [task[t] EXCEPT !.state = "completed"], "verify")
  /\ UNCHANGED chanVars

StopCancelled(t) ==
  /\ phase[t] = "active" /\ live[t] = <<>> /\ signalled
  /\ Become(t, [task[t] EXCEPT !.state = "paused"], "final")
  /\ UNCHANGED chanVars

Verify(t) ==
  /\ phase[t] = "verify"
  /\ \E s \in {"completed", "error"} : Become(t, [task[t] EXCEPT !.state = s], "final")
  /\ UNCHANGED chanVars

\* emitFinal, and then the report to the run loop.
EmitFinal(t) ==
  /\ phase[t] = "final"
  /\ ReadLive(t)
  /\ phase' = [phase EXCEPT ![t] = "told"]
  /\ UNCHANGED task

Deliver(t) ==
  /\ Publish(t)
  /\ phase' = [phase EXCEPT ![t] = IF @ = "told" THEN "posted" ELSE @]
  /\ UNCHANGED task

TaskStep(t) == Begin(t) \/ StopCancelled(t) \/ Verify(t) \/ EmitFinal(t) \/ Deliver(t)

Transfer(t) == NoteBytes(t) \/ Report(t) \/ Stop(t)

-----------------------------------------------------------------------------
(* The renderer's goroutine, and log lines of the engine.                   *)

TakeSnap ==
  /\ ui = "loop" /\ snap # <<>>
  /\ Ui!Frame(Head(snap), lastQueue)
  /\ snap' = Tail(snap)
  /\ UNCHANGED <<ui, live, qSnap>>

TakeQueued ==
  /\ ui = "loop" /\ qSnap # <<>>
  /\ Ui!Frame(lastLive, Head(qSnap))
  /\ qSnap' = Tail(qSnap)
  /\ UNCHANGED <<ui, live, snap>>

\* A tick, or a nudge after the terminal was resized.
Tick ==
  /\ ui = "loop"
  /\ Ui!Frame(lastLive, lastQueue)
  /\ UNCHANGED <<ui, chanVars>>

\* The context is cancelled: End runs before done is closed.
EndLoop ==
  /\ ui = "loop" /\ main \in {"returned", "drawn"}
  /\ Ui!End
  /\ ui' = "ending"
  /\ UNCHANGED chanVars

CloseDone ==
  /\ ui = "ending" /\ ui' = "ended"
  /\ UNCHANGED <<chanVars, screen>>

Log ==
  /\ running # {}
  /\ Ui!Interject
  /\ UNCHANGED <<ui, chanVars>>

-----------------------------------------------------------------------------
Init ==
  /\ main = "probe" /\ code = "none" /\ signalled = FALSE
  /\ next = [w \in Probers |-> w] /\ probeCh = <<>> /\ files = <<>>
  /\ Pool!Init
  /\ loop = "off" /\ ending = "no" /\ doneCh = FALSE /\ good = 0 /\ bad = 0
  /\ task = [t \in Tasks |-> [state |-> "queued", sized |-> FALSE, bytes |-> "none"]]
  /\ phase = [t \in Tasks |-> "new"]
  /\ live = [e \in Emitters |-> <<>>] /\ snap = <<>> /\ qSnap = <<>>
  /\ ui = "off"
  /\ Ui!Init

(* What each group of steps leaves alone; all goes on until the exit.       *)

Up == main # "exit"

BesideProbe == <<poolVars, loopVars, taskVars, chanVars, ui, screen>>

BesideRun == <<code, signalled, probeVars, taskVars, ui, screen>>

BesideTask == <<mainVars, probeVars, poolVars, loopVars, ui, screen>>

BesideUi == <<mainVars, probeVars, poolVars, loopVars, taskVars>>

ProbeTurn(w) == Up /\ Probe(w) /\ UNCHANGED <<mainVars, BesideProbe>>

ReceiveTurn == Up /\ Receive /\ UNCHANGED BesideProbe

MainTurn == Up /\ MainStep

AnswerTurn == Up /\ Answer

SignalTurn == Up /\ Signal

RunTurn == Up /\ RunStep /\ UNCHANGED BesideRun

TaskTurn(t) == Up /\ TaskStep(t) /\ UNCHANGED BesideTask

TransferTurn(t) == Up /\ Transfer(t) /\ UNCHANGED BesideTask

DrawTurn == Up /\ (TakeSnap \/ TakeQueued \/ Tick \/ Log) /\ UNCHANGED BesideUi

EndTurn == Up /\ (EndLoop \/ CloseDone) /\ UNCHANGED BesideUi

Next ==
  \/ (\E w \in Probers : ProbeTurn(w)) \/ ReceiveTurn
  \/ MainTurn \/ AnswerTurn \/ SignalTurn \/ RunTurn
  \/ \E t \in Tasks : TaskTurn(t) \/ TransferTurn(t)
  \/ DrawTurn \/ EndTurn

Spec == Init /\ [][Next]_vars

\* Goroutines run.  After a signal each takes finitely many steps, so that some
\* goroutine that can go on does is enough.  Nobody has to answer the prompt or
\* send a signal, no download has to end by itself, and the screen need not be
\* drawn.
Goroutines ==
  \/ (\E w \in Probers : ProbeTurn(w)) \/ ReceiveTurn
  \/ MainTurn \/ RunTurn \/ EndTurn
  \/ \E t \in Tasks : TaskTurn(t)

Fairness == WF_vars(Goroutines)

FairSpec == Spec /\ Fairness

-----------------------------------------------------------------------------
(* Properties.                                                              *)

\* Every URL is probed and planned exactly once, whichever
\* probe answers first and however often it was given (main.go:113-119, 172-220).
PlanIsWhole ==
  main \notin {"probe", "exit"} =>
    \A u \in Tasks : Cardinality({i \in DOMAIN files : files[i].url = u}) = 1

Ended(s) == {t \in finished : task[t].state = s}

\* The exit code is the outcome: 4 exactly when Run or the user cancelled, and
\* then nothing is left running, no task is under way, and the counted tasks are
\* those that have reported; 0 only if there are counted tasks and all of them
\* have succeeded, 2 only if all have failed, 3 only if some have and some have
\* not (queue.go:224-234, main.go:366-380, manager.go:306-320).
CodeIsOutcome ==
  /\ main = "exit" /\ ending # "no" => (code = "cancelled" <=> ending = "cancelled")
  /\ ending = "cancelled" /\ loop = "over" =>
       /\ running = {} /\ finished = {t \in Tasks : phase[t] = "posted"}
       /\ \A t \in Tasks : phase[t] \in {"new", "posted"}
  /\ code = "ok" => ending = "no" \/ (finished # {} /\ finished = Ended("completed"))
  /\ code = "network" => finished # {} /\ Ended("completed") = {}
  /\ code = "partial" => Ended("completed") \notin {{}, finished}

\* No row of an old frame stays on the
\* screen and no log line is overwritten, however frames, log lines and the end
\* of the renderer's goroutine interleave, on a terminal with room for all rows
\* (progress.go:202-218, 234-273, main.go:340-365).
ScreenIntact == ~torn

\* Once the last frame is drawn it stays the last, and it
\* shows no task with all its bytes as still under way, nor a task of known size
\* as complete without them (progress.go:306-336, main.go:357-365).
LastFrameSettled ==
  main \in {"drawn", "exit"} /\ ui # "off" =>
    \A t \in DOMAIN cache :
      /\ Ui!Whole(cache[t]) => Ui!Terminal(cache[t])
      /\ cache[t].sized /\ cache[t].state = "completed" => task[t].bytes = "all"

\* A signal ends the program, unless it is at the prompt, which only an answer
\* ends (main.go:201-210, 355-378, 723-748).
SignalExits == signalled ~> main \in {"exit", "prompt"}
=============================================================================
