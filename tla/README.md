# ODM: models, checks and proofs

ODM is a download manager in Go: it fetches a file over several HTTP connections at once,
survives kills through a control file, runs many downloads under one connection budget, and
can be steered over JSON-RPC while it runs. This directory holds TLA+ models of its
concurrent parts, the TLC configurations that check them on small instances, and TLAPS proofs
of the most important properties for instances of any size.

Run a configuration with `tlc -config pool_odm.cfg MCWorkerPool`, check a proof with
`tlapm WorkerPool_proofs.tla`. `PROJECT.json` maps every definition to the source lines it
translates and lists runs, mutants, findings, hazards and theorems.

## 1. Inventory

| Component | State | Operations | Hard part |
|---|---|---|---|
| Worker pool (`download/task_io.go`, `task_pause.go`, `task_persist.go`, `AdjustConns`, `chunkqueue.go`, `engine.go`) | queues of chunks, `conns`, `connTarget`, `errors`, `bytesDone`, `state`, `paused`/`pauseC`, `adjustDone`, control file | worker loop, `downloadChunk`, `Requeue`, `checkpoint`, `persistControl`, `Pause`, `Unpause`, `Cancel`, `AdjustConns`, end of `Start` | N workers, Start and RPC handlers over shared counters; retries; kills; late calls |
| Task start and resume (`task_start.go`, `resume_impl.go`, `storage/`) | control file, chunk hashes, layout, `baseCtx` | probe, collision policy, layout, resume verification | stale control files, calls that arrive before the workers |
| Scheduler (`scheduler/queue.go`) | `queued`, `live`, `stopped`, WaitGroup, `compl`, idle hold | `Run`, `Enqueue`, `admitNext`, `handleComplete` | select over completion, cancellation, "all done"; shutdown racing RPC |
| Daemon (`scheduler/daemon.go`) | `done`, hooks, cancel function | `Start`, `Stop`, `OnDead`, `AddURL`, `Pause`, `Unpause`, `Remove`, changes of limits and connections | hooks fire once; shutdown against running requests |
| Balancer, rebalancing (`balancer.go`, `rebalance.go`) | a plan | `Compute`, `rebalanceTargets`, `rebalanceLive` | rounding, budgets smaller than the number of files |
| Rate limiter (`ratelimit/bucket.go`) | limiter, current and configured rate, cooldown | `SetRate`, `BackOffSignal`, `ThrottleOK`, `Reader` | four atomics without a common lock; back-off racing a change of rate |
| Registry (`download/manager.go`) | the map of tracked tasks | `track` with its pruning, lookups, `ExitCodeFrom` | concurrent requests copy and swap the map; live tasks must stay |
| Profiles and layouts (`smart.go`, `engine.go`, `chunkqueue.go`) | none | `ChooseProfile`, `AriaSplit`, the two queue constructors | the chunks must partition the file |
| RPC server (`rpc/`) | subscribers, their channels, throttler | dispatch, broadcast, pumps, `changeOption` | slow clients; broadcasts from the run loop and from requests |
| Command line (`cmd/odm/main.go`) | signal context, exit code | probe pass, plan, prompt, run, last frame; `runRPC` | signals at any point; goroutines main must not wait for, or must |
| Terminal UI (`ui/`) | cached views, rows printed | `Frame`, `End`, `Interject`, `RunLoop`, `Confirm` | frames, log lines and the last frame from three goroutines |
| Transport (`transport/`) | HTTP clients | `Probe`, `GetRange`, error classification | misbehaving servers |
| Configuration, logging, update | - | - | parsing, I/O |

How they interact: the command line or the RPC server creates tasks through the Manager and
hands them to the Scheduler, which runs `Task.Start` in a goroutine per task and learns of its
end over the channel `compl`. `Start` launches workers, which share the task's queues and
counters; RPC handlers reach into running tasks (`Pause`, `Unpause`, `Cancel`, `AdjustConns`)
from their own goroutines; the Scheduler's run loop calls `AdjustConns` when it rebalances. All
workers of all tasks share the rate limiter. The run loop and the tasks publish views, which
become frames on a terminal or events for WebSocket clients. `main` starts it all, waits for it
and turns the outcome into an exit code. The control file is the only state that survives the
process.

What makes each part correct:

* Pool: each chunk is written by one worker at a time and none is lost; success means a whole
  file; the control file never claims more than the disk holds; a paused, resumed or cancelled
  task does not hang.
* Start and resume: what is trusted on resume was really written for this file and layout.
* Scheduler: at most `slots` tasks run, free slots are used, every task is tallied once, `Run`
  returns only when all work is done, shutdown waits for what it started.
* Limiter: a reduced rate has a way back, and after the cooldown it is the one the user last asked
  for (the code keeps this only while no two stores of a rate overlap, section 7); a limiter
  switched off stays off.
* Registry and events: a task that waits or runs can be found by whoever wants to pause or remove
  it; a client that heard of a start hears of the end, once, and is not told of a success that a
  checksum then denies.
* Program: it ends when told to and only when its downloads have ended; its exit code is the
  outcome; the terminal is not left torn.
* Pure functions: partition of the file, budgets respected.

## 2. Plan

Done:

1. `WorkerPool`: the pool and the end of `Start`, the abstract `Download` it implements, proofs.
2. `Balancer`: `Compute` and `RebalanceTargets` as functions, proofs.
3. `Scheduler`: `Run`, admission, requests and shutdown, one-shot and daemon, with the
   rebalancing of live tasks; the abstract `SlotPool` it implements, proofs. It uses `Balancer`
   for its plans and its targets.
4. `Layouts`: the chunk layouts and the choice of a profile as functions.
5. `TaskStart`: one destination over several runs of the program: probe, collision policy,
   resume and its verification, the control file, kills. It uses `Layouts`.
6. `RateLimiter`: back-off and cooldown against changes of the limit.
7. `RpcDaemon`: `--rpc` as a whole, composed of `SlotPool` (what `Scheduler` is shown to
   implement), `Registry` and `Broadcaster`; proofs.
8. `OneShot`: the command line with URLs as a whole, composed of `SlotPool` and `Renderer`.

Next, in this order:

9. Early calls in `TaskStart`: an `AdjustConns`, a `Pause` or a `Cancel` that arrives before the
   workers do, and the checksum at the end.
10. An abstract specification of a resumable download, with `TaskStart` shown to implement it.
11. Proofs: every safety property of the runs is a theorem now (section 10); what items 9 and 10 add will
    need its own.

## 3. The worker pool (`WorkerPool`, `Download`, `MCWorkerPool`)

`WorkerPool.tla` models one run of `Task.Start` from the moment it launches its workers.

Processes and their actions:

* worker `w` (`worker`, `downloadChunk`, `pauseGate`, `retireIfAboveTarget`), whose program
  point is `pc[w]`. `RetireCheck`/`RetireCas` are the two halves of the compare-and-swap loop:
  between them other workers run. (The two loads of the check are one action: `conns` never
  grows, so a stale value can only lead to a failing swap and another round.) `PauseGate`,
  `NextChunk` follow the loop; `BeginAttempt`, `WriteBytes`, `AttemptOk`, `AttemptFails`,
  `Backoff` are one attempt of `downloadChunk`; `CtxError`, `RequeueChunk`, `FailChunk`,
  `MarkDone` are what the worker does with its result; `Checkpoint` and `SaveCheckpoint` are
  apart because the code resets the counter before it writes the file.
* `Start`: `CloseAdjust` (sets `adjustDone`), then one of `EndCancelled`, `EndFailed`,
  `DeclareComplete`; `VerifyChecksum`; `Finish`.
* RPC handlers: `Pause` and `Unpause`, whose store to `t.state` is a later step (`StoreState`);
  `Cancel`; and `AdjustConns`/`AdjustLock`/`SpawnWorker`, several of which may overlap.

State: a chunk's data is reduced to whether it is wholly on disk (`written`) and a chunk that is
fetched again is not wholly on disk while that goes on. `bytesDone` counts chunks: an attempt
contributes one unit when its first bytes arrive. `conns`, `connTarget`, `errors > 0`
(`errored`), `state`, `paused`, `chunksSincePersist`, `adjustMu`, `adjustDone` are variables of
their own. The control file is the pair `onDisk`, `control`. Writing it is one step (the code
holds `t.mu` and renames a temporary file into place), which may fail when `SaveFails`.

What the server does is a choice: an attempt may succeed, fail with some bytes written, or fail
permanently. The time gate of `checkpoint` is a choice too. The chunks of the two kinds of queue
differ in one thing, as in the code: a `StaticQueue` never takes a chunk back.

`Download.tla` is what a run of `Start` promises to its caller: chunks become done one at a
time, the control file catches up with them, and one final step ends the run, either successful,
with every chunk done, or with all progress in the control file. `WorkerPool` implements it
(`ImplementsDownload`, the refinement mapping is the identity on `done`, `control`, `onDisk`,
`result`), as long as nobody adjusts connections.

### Properties

| Property | Hazard it is for |
|---|---|
| `DisjointWrites` | `WriteAt` without a lock: a chunk in two hands or handed out twice |
| `NothingLost` | a path that drops a chunk without counting an error |
| `CompletedIsWhole` | success over a hole |
| `ControlTruth` | a kill leaves a control file that claims too much |
| `CheckpointLag` | a kill loses more than the checkpoint interval promises |
| `BytesHonest` | retried bytes counted twice |
| `DrainSafe` | the drain retires everybody |
| `UnpausedReturns`, `CancelStops` | lost wake-ups, hanging `Start` |
| `ImplementsDownload` | anything else a caller could see |
| `TypeOK` | `conns` below zero |

### Runs (`MCWorkerPool.tla` gives the layouts)

| Run | Instance | Expected |
|---|---|---|
| `pool_odm` | work stealing, 2 chunks and 1 resumed, 2 workers, `Retry` 1, pause and cancel, fairness | all properties of the table but the last row and `DrainSafe` hold |
| `pool_adjust` | static queue, resumed, 3 workers, connections set to 1 and 3 while it runs, `SaveFails` | `TypeOK`, `DrainSafe` hold |
| `pool_hole` | one chunk, work stealing, connections lowered to 1 | `CompletedIsWhole` violated |

Bounds: two workers suffice for every race between a worker that leaves and one that acts, a
third is the late worker of a raise; two chunks let one be retried while the other finishes and
let two checkpoints overlap; `Retry` 1 distinguishes first, repeated and exhausted attempts, both
inside `downloadChunk` and at the requeue. The runs use one region; the proofs are for any number. `Workers` bounds the number of live goroutines; an
identity is used again after its worker has ended, so the number of spawns is not bounded.
`Rpc` names the handlers that may come: `pause` stands for `Pause` and `Unpause`. Workers launched
on the same engine are interchangeable (symmetry, in `pool_adjust` only, which checks no
liveness).

Fairness (`FairSpec`): a worker goroutine that can move does; a request ends, at the latest by
its timeout (`chunkTimeoutCtx`), and a backoff by its timer; `Start` and a handler inside
`AdjustConns` are goroutines. Nobody is obliged to unpause or cancel, so `UnpausedReturns`
assumes that the task is not left paused. `WF` of a worker's whole step is enough: its
actions at one program point are the outcomes of one call, and no outcome is owed.

### What the violated run shows

* `pool_hole`: worker A sees the empty queue and is about to leave but still counted in
  `conns`; worker B fails its chunk, puts it back, finds `conns` = 2 above a target that
  was just lowered to 1, and retires. The chunk waits, nobody serves it, no error is counted:
  `Start` reports success and deletes the control file.

Four more windows are in the model and have no run of their own: a raise spawns workers without
adding to `conns`, so a later reduction retires too few (`task_io.go:121-122` calls the drain
exact, `task.go:433-436` launches without counting); the two regions of the both
profile share `conns` and `connTarget`, so a target of 1 may retire the only worker of a region,
with the effect of `pool_hole` (two regions, one worker each, `Targets` {1}); between the return of
`workerWg.Wait` and `adjustDone = true` a raise still spawns workers, which may outlive `Start`;
and `finish` re-reads `t.state`, which a `Pause` may have overwritten after the last chunk, so a
complete file may keep its control file.

## 4. The balancer (`Balancer`, `MCBalancer`)

Pure functions. `Compute(C, ranged, SF, max)` is `Compute` of `balancer.go`: `ModeA` (one file),
`ModeB` (several, one connection each), `ModeC` (split-file), with `Distribute` for the
round-robin of the remainder and of what files without Range give back. `RebalanceTargets` is
`rebalanceTargets` of `rebalance.go`. A file is its position in the batch, and of a file only
its `SupportsRange` matters; `Where` lists the positions a loop over the batch stops at, in
ascending order. Warnings and the wording of errors are left out; the inputs the
code rejects are named by `Refused`.

`MCBalancer` enumerates every batch of at most `MaxFiles` = 4 files and every budget up to
`MaxBudget` = 7, every `-sf` up to the budget (as `Options.Validate` requires) and every ceiling.
A behaviour plans the batch and then rebalances any tasks that can be live under that plan. Seven
connections over four files give every remainder, every count of files without Range, ceilings
below and above the number of files, and a budget below and above `SF` times the files.

Two properties, each the conjunction of named parts:

| Property | Parts | What could be wrong |
|---|---|---|
| `PlanIsSound` | `BudgetSpentExactly` | connections lost or spent twice when a file without Range gives back |
| | `EveryFileOnce` | a file dropped or planned twice at the border of start and queue |
| | `RangeDecidesConnections`, `FrontLoaded` | the two round-robins disagree |
| `RebalanceIsSound` | `TargetsSpendBudget` | rounding at rebalancing |
| | `PromiseKept` | planning and rebalancing disagree: a task falls below what it was admitted with |

## 5. The scheduler (`Scheduler`, `SlotPool`, `MCScheduler`)

`Scheduler.tla` models `queue.go` and `rebalanceLive`. `Daemon` selects `NewEmptyScheduler` or
`NewScheduler`.

| Goroutine | State | Actions |
|---|---|---|
| `Run` | `run`, `started` | `StartInitial`, `EnterLoop`; `Receive` (`<-s.compl` and `handleComplete`), `LoopAdmits`, `LoopLaunches`, `Rebalance`; `WindDown`, `Release`, `Drain`, `DrainReturns` after `ctx.Done`; `SeeDone`, `Sweep` after `doneCh` |
| the one that waits | `waiter` | `WaitBegin`, `WaitEnd` (closes `doneCh`) |
| of a task (`launch`) | `task[t]`, `outcome[t]`, `param[t]` | `EnterStart`, `StartWorkers`, `Report` (`Start` returns), `TaskDone` (`wg.Done`) |
| of a request (`AddURL`, `Enqueue`) | `client[r]`, `held[r]` | `Refuse`, `Enqueue`, `ClientAdmits`, `ClientLaunches` |
| signal, `odm.shutdown`, `Daemon.Stop` | `cancelled` | `Cancel` |

An action is one critical section of `s.mu`, one channel operation or one WaitGroup operation.
`PlanAssumption` says that a plan that will be rebalanced asks for no more connections than `-c`:
plans come from the balancer, and `EveryPlanIsSound` (section 10) is that and more. The channel is
the sequence `compl`: the first `ComplCap` reports are in the buffer, the others
belong to goroutines still blocked in their send. The WaitGroup is its counter and its waiter: a
counter that reaches 0 releases a parked waiter for good. Steps merged into one action, because
nobody can act differently in between:

* the end of `Start` and the arrival of the report at the channel: other goroutines learn of the
  former only through the latter;
* the receive and `handleComplete`, and, in `admitNext`, `AddCounter` and the `go` statement:
  the first and second halves are separated only by steps on data no other goroutine reads;
* `rebalanceLive`: its `AdjustConns` calls go to different tasks; it runs on the loop's own
  goroutine. What interleaves with it are `EnterStart` and `StartWorkers`, which are apart so
  that a target can change before, between and after them.

`LaunchHeld` keeps the branch in which `AddCounter` refuses; `LaunchFacts` (in the proofs) shows
that no state reaches it. `TaskMaker` is `Manager.NewTask`, which never fails, so the error
branches after it have no action. The progress callback is left out. Of the code in a task only
`connTarget` and the argument of `Start` appear; what the workers do is `WorkerPool`.

`SlotPool.tla` is the promise: tasks start in the order they were handed over, at most `Slots` at
a time, each finishes at most once, and only closing drops tasks, and only waiting ones. The
mapping: `waiting` is the part of `plan.Parallel` not yet started followed by `queued`, `running`
is `live`, `finished` is what `onComplete` was told, `open` is `~windingDown`.

### Properties

| Property | Hazard it is for |
|---|---|
| `EveryTaskInOnePlace`, `BoundedAndTallied` | a task lost, run twice or tallied twice between its lists |
| `WaitGroupExact` | a reservation forgotten or returned twice: panic, or `Run` that never returns |
| `DaemonStaysUp` | an idle daemon taken for a finished one |
| `CancelledRunIsTallied` | shutdown forgets a task that was just launched |
| `AllotmentsWithinBudget` | connections of tasks that come and go add up to more than `-c` |
| `AcceptedFinishes`, `CancelStopsRun`, `RunReturns` | hanging clients and shutdowns |
| `ImplementsSlotPool` | loop and requests admit concurrently: one task too many, out of order or twice; anything else a caller could see |

`SlotsRespected`, `NoAddAfterWait` and `TypeOK` have theorems and no run of their own. That no slot
idles for ever while tasks wait follows from `AcceptedFinishes`.

### Runs

| Run | Instance | Expected |
|---|---|---|
| `sched_daemon` | daemon, 1 slot, 3 requests, `MaxPending` 1, `MaxStopped` 2, cancel, fairness | all of the table but `AllotmentsWithinBudget` and `RunReturns` hold |
| `sched_batch` | one-shot, split-file: `-c 4 -sf 2`, two files at once, one waits, the first has no Range, cancel, fairness | `AllotmentsWithinBudget`, `RunReturns` hold |
| `sched_lost` | one-shot, 1 slot, one file waits | `RunFinishesAll` violated |
| `sched_early` | split-file, `-c 5 -sf 2`, four files | `SpawnsOnlyAfterStart` violated |

Bounds: with one slot and three requests one task runs, one waits and one meets a full queue
(`MaxPending` 1); two stopped tasks make the third push one out (`MaxStopped` 2). Two admitters
that race for a slot need the loop and one request; three requests allow two requests to race
beside it. The batch has a file without Range among those that start, so both the second
round-robin and the share of rebalancing matter. Deadlock checking is off in these runs and in
`balancer`: a scheduler whose `Run` has returned, a daemon whose requests are all answered and a
batch that has been rebalanced stop.

Fairness: the runtime runs every goroutine that can run, and `Start` returns, because attempts
time out, retries are bounded and nobody leaves a task paused (that is the assumption; without it
`UnpausedReturns` of the pool says what remains). Select is not assumed fair between its cases:
`RunStep` as a whole is. Nobody has to cancel, and no client has to send a request.

### What the violated runs show

* `sched_lost`: waiting tasks of a one-shot run are not counted in the WaitGroup. When the
  running task reports and ends, the counter is 0, `doneCh` closes and `select` may take it before
  the loop admits the next file: `Run` returns, without error, with a file never started. (If
  `admitNext` is between its two halves at that moment, it adds to a WaitGroup that has been waited
  for: `NoAddAfterWait`, which holds in a daemon, fails in one-shot runs.)
* `sched_early`: the rebalancing after an admission raises the target of a task whose `Start` has
  no queue yet. `AdjustConns` refuses a task without `baseCtx` only when it is given no context of
  its own, and `rebalanceLive` gives one.

A window without a run: a rebalancing lowers a task that is still in `Start`, and `Start` keeps
the larger of its argument and the target (`StartTarget`), so for a while the targets of the live
tasks add up to more than `-c`. `AllotmentsWithinBudget` is about what the scheduler asks for.

Two comments of the source differ from it without a run: `queue.go:207-208` says that `launch`
posts to `compl` after `wg.Done` (the code posts before), and `docs/odm.1:100` lists mid-flight
rebalancing as future work although `rebalanceLive` does it.

## 6. Start and resume (`Layouts`, `TaskStart`, `MCTaskStart`)

`Layouts.tla` holds pure functions: `NewChunkQueue`, `NewStaticQueue`, `AriaSplit`,
`ChooseProfile`, and `Layout`, which is what `Start` makes of the options and the probe: the
regions with their chunks, and the chunk size, region boundary and segment size that go into the
control file. The size thresholds of the code are constants.

`TaskStart.tla` follows one destination file over `MaxRuns` runs of the program.

| Code | Action |
|---|---|
| probe, choice of the profile | `Begin` |
| `--skip-existing` | `Skip` |
| layout, control file, `OpenForWrite` | `Open` |
| `verifyResumedData` | `Verify`, `Distrust` |
| everything was there already | `EndAtOnce` |
| first `persistControl` | `Launch` |
| workers | `FetchChunk`, `WriteInVain`, `GiveUp`, `Checkpoint` |
| cancelled, failed | `EndUnfinished` |
| completed, `finish` | `EndComplete` |
| the process is killed, or `Start` returns an error early | `Kill` |
| the server replaces the file, gains or loses ranges | `Replace`, `ToggleRanges` |
| the local copy is damaged between runs | `Rot` |

State that survives a kill: `disk`, `control` and the world around. A byte on disk is the version of the
server's file it came from (or `Blank`, `Rotten`), a hash is the bytes it is the hash of,
so two hashes are equal exactly if the bytes are. An ETag is the version. `opts`, `pr`, `done`,
`todo`, `hashes`, `already` and `pin` are the fields of the task. `blind`, `drifted` and `saver`
are history variables that only properties read.

The pool is reduced to what `WorkerPool` establishes of it: a chunk is fetched as a whole and
done, written in part in vain, or given up. A chunk is fetched from one response, that is from
one version. Writing the control file may fail, and the old one stays. With `--auto-rename` a run
that finds the file works on another destination, so it is no action here.

| Property | Hazard it is for |
|---|---|
| `CompleteIsWhole` | a byte missing, rotten or left over: kills between truncation, verification and checkpoint; older, longer or damaged files; control files of other options |
| `OneVersion` | a resumed download mixes two versions of the file |
| `SavedIsAccepted` | a layout recomputed differently throws resumes away without an error |
| `LayoutPartitions` | rounding of the splits: a byte in no chunk or in two (this is `LayoutAssumption` of `WorkerPool`) |

`CompleteIsWhole` leaves out downloads of unknown size and chunks trusted without a hash (control
files of older releases): nothing in the code could notice damage there. It allows one case of a file
too long: a single stream whose file is replaced by a longer one fails midway, and the retry,
after the shorter one is back, completes over the bytes of the longer
(`task_io.go:361-400` never truncates). `OneVersion` says when
the code can tell versions apart: within a run only if the run has an ETag of a control file to
send as If-Range; between runs by ETags, or else by the samples if they cover all chunks.

| Run | Instance | Expected |
|---|---|---|
| `start_resume` | two runs; aria2c, smart (which settles on odm or both) and odm without `--continue`; versions of 4, 5 and 4 bytes; every kind of server; one byte rots; with and without a control file of an older release | the four properties hold |

Bounds: in chunks of 2, four bytes are two chunks and five are three with a short last one; cut in
two regions they are 2 and 2, and 2 and 3, bytes. The thresholds are set so that smart chooses both
for either size; aria2c is covered by the option. Two sample chunks leave one of three unseen, as the
real sample does in a large file. The second version is longer than the first; the third has its
length again, so two replacements may be noticed by ETags or samples only. Two runs are one interrupted run and one
that resumes; the options are chosen anew for each. A server that does not tell the length has
no ETags in the run. No fairness: all properties are safety. The model stops after
`MaxRuns` runs, so deadlock is not checked.

Where comments and code differ, or a window that no property of the run covers:

* `OpenForWrite` gives the destination its full size before the first control file
  is written. A kill in between (or a control file that could not be written, or a later run with
  `--continue=false`, which does not look for one) leaves a file that `--skip-existing` takes for
  complete (`task_start.go:127`). The model has these behaviours (`Skip` after `Kill`); nothing
  is claimed of a skipped file.
* `chunkSpan` (`resume_impl.go:274-276`) cuts a span at the end of the file, but the last chunk of
  the first region ends at the middle. Unless half of the file is a multiple of the chunk size, the
  hash of that chunk never matches, and every resume after it was fetched starts from scratch.
  `SavedIsAccepted` therefore has the multiple as a premise.
* in the both profile, when the first queue refuses the chunks of a control file, the code counts
  nothing as done but keeps the chunks the second queue has accepted (`task_start.go:269-279`). The
  model (`Fits`) trusts nothing then. No control file that a run saves comes to that (lemma
  `SavedFits`): it would list more chunks than the first region has.
* a control file without hashes that lists offset 0 is accepted when the server has stopped
  supporting ranges: the single chunk also starts at 0, so the file counts as complete
  (`chunkqueue.go:76-77` calls this case incompatible);
* a stream of unknown or zero size does not truncate the destination, so the tail of an older,
  longer file stays (`storage/file.go:42`);
* the sample reads the beginnings of the first and last chunks, not "anywhere in the file"
  (`chunkqueue.go:145-147`);
* after a checksum mismatch the control file keeps all chunks, so the next run finds everything
  done, fails the checksum again and never downloads.

## 7. The rate limiter (`RateLimiter`, `MCRateLimiter`)

`RateLimiter.tla` models `ratelimit/bucket.go`. Its four fields are atomics and no operation
holds a lock, so every load, store and compare-and-swap that another goroutine could tell apart is
an action.

| Code | Actions |
|---|---|
| `BackOffSignal` | `BackOffSignal` (loads and halves), `StoreBytes`, `LoadLimiter`, `StoreLimit`, `ArmCooldown` |
| `ThrottleOK`, `ResetRate` | `ThrottleOK` (load, clock), `TakeCooldown` (the CAS), `ReadConfigured`, `CompareBytes`, `StoreBytes`, `LoadLimiter`, `StoreLimit` |
| `SetRate` | `SetRate`, then `Unlimit`, `ZeroBytes`, `ClearCooldown` for off, or `StoreBytes`, `Configure`, `ClearCooldown`, `LoadLimiter`, `StoreLimit` |
| the clock | `Tick`, as long as a cooldown lasts |

The token bucket (`golang.org/x/time/rate`) is external: a limiter is the rate it was last given.
A pointer is an index into the limiters ever made, so that one goroutine may set the rate of a
limiter another has replaced. Two history variables say what has overlapped: `raced`, a `SetRate` and
another operation since the last `SetRate` that met nobody; `crossed`, two `setBytes` (or the same
stores of a `SetRate`), each of which stores `bytes` first and the limiter later, since the last
`setBytes` that began alone.

| Property | Hazard it is for |
|---|---|
| `BackOffsAreSound` | back-offs and restores of two workers interleave: the enforced rate above the configured one (`NeverAbove`), or, unless `crossed`, another one with no cooldown or worker left that would bring it back (`WayBack`) |
| `OffStaysOff` | a worker brings back a limiter that was switched off |
| `Restored` | the enforced rate stays low after the 429s have stopped, unless `crossed` |

The rate enforced (`Rate`) is the limiter's; `bytes`, which `ResetRate` compares with the configured
rate, may differ from it.

`rate_limit` checks them with two workers, one client, limits off, 1 (below the floor 2) and 8 (halves
to 4 and to the floor), a cooldown of one tick, two 429s and two changes of the limit. Two 429s
give a back-off that meets another one, or a restore of the first; two changes let one race and
the other settle. Fairness: goroutines run, time passes, and chunks keep succeeding, which is when
`ThrottleOK` is called; nobody has to get a 429.

When two `setBytes` cross, the enforced rate may stay low for ever, although `README.md:233` says
that the first healthy chunk after a cooldown restores the configured one. `WayBack` and `Restored`
leave this case out: `<>[]Settled => <>[]Configured`, which is `Restored` without `~crossed`, is
violated with two workers, a limit of 8, a floor of 2, two 429s and no client. In TLC's trace one
back-off stores `bytes` = 4 and is delayed before it sets the limiter; another one does both and
arms the cooldown, which expires; a restore stores `bytes` = 8 and sets the limiter to 8; now the
first sets it to 4 and arms the cooldown again. When that one has expired, `ResetRate` finds
`bytes` = `configured` (`bucket.go:105`) and does nothing; the cooldown is gone, and the limiter
stays at 4. No delay as long as the cooldown is needed when the second 429 meets a restore: the
restore has compared 4 with 8; the back-off stores `bytes` = 2; the restore stores `bytes` = 8 and
sets the limiter to 8; the back-off sets it to 2 and arms the cooldown. Nobody has changed the
limit in either. Until two `setBytes` cross, and again after the next `setBytes` that begins alone,
the limiter is sound.

All three properties leave out a `SetRate` that races with a worker. There, and below the floor, the
code does what a reader of it may not expect:

* a `SetRate` between the loads and the stores of a back-off leaves `bytes` at the new rate and the
  limiter at the halved one, or the reverse; with `bytes` equal to `configured`, `CompareBytes`
  finds nothing to restore, and the limit stays halved until the next change (`README.md:233` says
  that it comes back);
* `SetRate("off")` between the check of `bytes` and the store of a back-off: the limiter is made
  again, with nothing configured;
* a worker that has won the CAS restores after another's new 429, whose halving is lost, while its
  cooldown stays;
* a rate below the floor is raised to the floor by a 429.

## 8. The daemon, its requests and its events (`RpcDaemon`, `Registry`, `Broadcaster`, `MCRpcDaemon`)

`RpcDaemon.tla` is `odm --rpc` as a whole. The scheduler appears as the steps of `SlotPool`, which
section 5 shows it to implement, with the one detail a client can tell: the run loop takes a task
out of the live set and reads its state afterwards (`Retire`, then `OnTaskComplete`).

| Code | Actions |
|---|---|
| `runRPC` (`main.go`) | `StartDaemon`, `OnDead`, `Listen`, `Signal`, `Exit`, `ListenFails`, `ServeFails` |
| goroutine of `Daemon.Start` | `RunReturns`, `CloseDone`, `TakeHooks`, `FireHooks` |
| run loop | `SeeCancel`, `Admit`, `Retire`, `OnTaskComplete`, `TellEnd` |
| `Task.Start` | `BeginStart`, `CheckCancelled`, `EndCancelled`, `EndFailed`, `DeclareComplete`, `VerifyChecksum` |
| `addUri`, `addBatch` | `Arrive`; `LoadMap`, `BuildMap`, `SwapMap` (`track`); `Enqueue`; `Announce`, `Tell` |
| `pause`, `unpause` | `Gate` (the flag, under the lock), `Mark` (the state, after it), `Announce`, `Tell` |
| `remove` | `Flag`, `CancelTask` |
| `odm.shutdown` | `Stop`, `Stopped` |
| progress callback, throttler | `Forward` |
| `addWS`, pump | `Attach`, `Pump`, `Detach` |

`Registry.tla` is `track`: a map loaded, copied, pruned of its oldest terminal tasks and swapped in
by compare-and-swap, or tried again. `Broadcaster.tla` is the fan-out: the set of subscribers is
copied under the lock (`Address`), the event offered to each without waiting (`Offer`), and a pump
per subscriber writes to the client. An event that finds its channel full is lost to that client.

Left out: the content of tasks and answers, names, limits and connections (`changeOption` is
`SetRate` of `RateLimiter` and `AdjustConns` of `WorkerPool`), the `All` variants, batches of several
URLs and of several requests, authentication, the throttler's timing. What a client has read is a set.

| Property | Hazard it is for |
|---|---|
| `ActionableFound` | a request swaps in a copy made from a stale map, or pruning drops a live task: `pause`, `remove` and `tellStatus` no longer find it |
| `ShutdownIsClean` | the hook that closes a channel called twice or too early; the process gone while downloads are under way |
| `EventsHonest` | "complete" sent for a file that then fails its checksum, or a second end |
| `StartedIsEnded` | a client that saw the start waits for an end that never comes |
| `ShutdownExits` | shutdown, run loop, requests and slow clients wait for each other |

`rpc_daemon` has a request that adds a task and one of any other kind (a second task, pause,
unpause, remove or shutdown), one slot, room for one waiting task, one tracked task and one event
per client, and a client that may come and go: with two tasks the second meets a full queue or
a full registry, and a single place in the channel makes every second event a lost one unless the
pump is faster. A signal may come at any moment. The invariants of its proofs were also checked
with three requests and no client.

Fairness: the runtime runs goroutines, `Start` of a task that is not paused returns, and a pump that
has an event writes it or gives up within `wsWriteWait`. As each goroutine takes finitely many
steps it is enough to ask that some goroutine that can go on does. Nobody has to send a request.
The process ends, so deadlock is not checked.

Windows of the model that no property claims away:

* a `Pause` or `Unpause` whose second half comes after the download has ended overwrites the state
  the run loop is about to read (`task_pause.go:44`): clients hear of an error and the tally counts
  a failure, for a file that is complete;
* a task refused because the queue is full, or removed while it was active, stays in the registry
  as a task that is not terminal, and is never pruned (`manager.go:189-193`);
* the state is `completed` before the checksum is verified, so `track` may prune a task that is still live
  (`ActionableFound` therefore speaks of undecided tasks);
* `onDownloadStart` is broadcast after `Enqueue` and may follow the task's end; `addBatch`
  announces none;
* a slow client is not dropped, as `ws.go:20-22` says, but loses events until it reads again;
* with both channels of the last `select` ready, a signal may end the process with code 0, and the
  signal's own branch ends it while tasks still write their control files.

## 9. The command line and the screen (`OneShot`, `Renderer`, `MCOneShot`)

`OneShot.tla` is `odm URL...` from the list of URLs to the exit code.

| Code | Actions |
|---|---|
| `dedupeURLs`, probe pass | `URLs`, `Probe` (of up to eight goroutines), `Receive`, `CancelProbe` |
| `Compute`, dry run, prompt | `Plan`, `Answer` |
| `Run` | `AdmitFirst`, `Retire`, `AdmitNext`, `WaitReturns`, `SeeDone`, `SeeCancel`, `RunReturns` |
| `emit`, `progCB` | `ReadLive`, `Publish`, from the loop and from every task |
| `Task.Start` | `Begin`, `NoteBytes`, `Report`, `Stop`, `StopCancelled`, `Verify`, `EmitFinal`, `Deliver` |
| `RunLoop` | `TakeSnap`, `TakeQueued`, `Tick`, `EndLoop`, `CloseDone` |
| log lines of the engine | `Log` |
| last frame, exit code | `LastFrame`, `ExitCodeFrom` |

`Sorted` arranges the probed files as `sort.SliceStable` does (no two are of one URL, so there
is one arrangement). `WaitReturns` is possible from the first admissions on, as the goroutine that
waits is started after them (`queue.go:165-169`).

`Renderer.tla` is what the renderer remembers of each task (`UpdateCache`) and where its rows stand
(`lastLines` is what the code believes, `drawn` what the terminal holds, at most `Height` - 1 rows of
it within reach of the cursor). A view says a task's state, whether its size is known and whether it has
none, some or all of its bytes.

| Property | Hazard it is for |
|---|---|
| `PlanIsWhole` | probes that answer in any order, a URL given twice |
| `CodeIsOutcome` | the code computed from tallies with reports outstanding, or after a cancellation: then nothing may run and the counted tasks are those that have reported |
| `ScreenIntact` | rows counted by hand over frames, log lines and `End` |
| `LastFrameSettled` | a frame of the renderer's goroutine after the last one; a task shown in a wrong state |
| `SignalExits` | main waits for probers, tasks or the renderer, or they for it |

`oneshot` gives the URLs 2, 1, 2, of which 2 is dead, to two probers, with one slot, channels for one
snapshot and a terminal of five rows. Two probers race for the order of the plan; one slot makes a
task wait; a channel for one snapshot drops most of them. Fairness as in the daemon; nobody has to
answer the prompt, send a signal, finish a download or draw a frame (a signal must end the program
without that). The process ends, so deadlock is not checked.

Windows of the model that no property claims away:

* a signal at the prompt is seen only after the answer (`main.go:721-723`), and a second signal changes
  nothing;
* with more tasks than rows (three rows, two tasks) a frame has `Height` rows and scrolls, so the
  next one leaves a stale row behind, which the comment at `progress.go:499-502` means to exclude;
  `ScreenIntact` is stated for a terminal with room;
* the last frame shows the last view that got through: the terminal one may be dropped, which
  `task_io.go:448-455` calls guaranteed, and a failed task with all its bytes, or one of unknown size,
  is then shown as complete. `LastFrameSettled` claims what remains true;
* the exit code is 0 although a waiting file was never started, as in `sched_lost`.

## 10. Proofs

Each component's theorems are in a module of their own; `DataLemmas` has what several of them need of
queues, sets and numbers. Constants are arbitrary under the assumptions of the modules, which TLC also
evaluates in every run. One theorem has a hypothesis on the size of an instance: `ScreenStaysIntact`, for
a terminal with room for all rows.

Induction is what the prover has least of: the library's induction theorems take an operator, which
no installed backend can instantiate. `DataLemmas` gets it from the theorem that the subsets of a finite set are
well-founded, applied to the set of counterexamples: `EverySubset`, `EveryNumber`, and from them a least and a
greatest number of a set, the ascending enumeration of one (`Ascending`), the sum over one (`SumsUp`, with lemmas
for a part, a sum of sums and another index set), and the folds (`Max`, `Product`). `SelectSeq`, `SortSeq` and
`SetToSortSeq` stay out of reach, as the operators they are defined by are opaque to the backends: what the
models need of them is written as the ascending enumeration itself (`Where`), or as the rank of an element
(`Sampled` of `TaskStart`).

### The pool (`WorkerPool_proofs`)

Under `LayoutAssumption` (the layout is a partition, any number of engines and chunks; `TilesJoin` and
`LayoutTiles` below prove it of the layouts of the code) and `PoolAssumption` (finitely many workers, each engine
launched with at least one, `Retry` a natural number, targets at least 1).

| Theorem | Statement |
|---|---|
| `TypeCorrect` | `Spec => []TypeOK` |
| `WritesAreDisjoint`, `ChunksAreKept` | `Spec => []DisjointWrites`, `Spec => []NothingLost` |
| `ControlIsTruthful` | `Spec => []ControlTruth` |
| `DrainIsSafe` | `Spec => []DrainSafe` |
| `BytesAreHonest` | `Spec => []BytesHonest` |
| `LagIsBounded` | `~SaveFails` implies `Spec => []CheckpointLag` |
| `SuccessIsWhole` | `NeverLowered` implies `Spec => []CompletedIsWhole` |
| `PoolImplementsDownload` | no adjusters and a writable control file imply `Spec => ImplementsDownload` |

The argument. `TypeOK` is inductive: it ties `cur` to the program point (a chunk in hand exactly
at the points of `Holding`) and keeps the value a worker read before its swap positive, so the
swap cannot take `conns` below zero. `ChunksApart` (every chunk in at most one place, and none
lost) is inductive with it: only taking, giving back, finishing and giving up a chunk
move one, and there is a lemma for each; every other step is `NobodyMovesAChunk`. `ControlTruth`
is not inductive: rewriting a chunk takes it out of `written`, and that the chunk is
not one the control file lists follows from `ChunksApart`; the strengthening `FileTruth` says in
addition that a worker about to mark a chunk done has it on disk.

`BytesHonest` (the counter is the chunks done plus the attempts with bytes on disk) needs to know where an
attempt may still be counted: `NotedWhere`, from its first byte until its chunk is done or it fails, and beyond
a failure only if the run was cancelled. `CheckpointLag` needs each unsaved chunk in one place: `LagInv` bounds the chunks that
the control file lacks by `chunksSincePersist`, plus the workers about to count theirs, plus an
interval for every worker about to save. A save that fails would leave the chunks unsaved with the
counter reset, so the theorem has the hypothesis `~SaveFails`.

`CompletedIsWhole` is false in general (section 3), so its theorem has a hypothesis:
`NeverLowered`, no target below the number of workers launched. Then nobody ever reaches the
swap (`NobodyRetires`), so a queue that still has chunks has a worker that will look at it again
unless the run already failed or was cancelled (`Served`); when the last worker leaves, the
queues are therefore empty, nobody holds a chunk, and by `NothingLost` every chunk is done
(`WholeAtTheEnd`). The refinement adds `StartLast`: once `Start` stops waiting, no worker is live.

### The balancer (`Balancer_proofs`)

Under `BatchAssumption`: batches of any length, any `-c`, `-sf` and ceiling.

| Theorem | Statement |
|---|---|
| `EveryPlanIsSound` | `Spec => []PlanIsSound` |
| `EveryRebalancingIsSound` | `Spec => []RebalanceIsSound` |

The argument. The loop of `Distribute` hands `n` connections in turn to the `d` slots that take part. By induction on
its rounds (`Level`, `InTurn`) a slot has then got `n` div `d`, and one more if it is among the first `n` mod `d`
(`Dealt`); these shares add up to `n` (`DealtEvenly`). So the files with Range get all that is left after one connection for
each file, and files without Range what they keep of theirs, whichever of the three modes planned the batch
(`GoodPlan`). `PInv` carries the plan over to the rebalancing of any tasks that can be live under it. Split-file mode
starts *n* files only if *n* times `-sf` is within `-c`, so `RebalanceTargets`, which deals the budget in the same
turns, spends all of it (`TargetsAreGood`) and gives each live task with Range at least `-sf` (`SharesReach`).

### The scheduler (`Scheduler_proofs`)

Under `KindAssumption`, `TaskAssumption`, `BoundAssumption` and `PlanAssumption`: any
plan, any finite set of requests, any number of slots, both kinds of scheduler.

| Theorem | Statement |
|---|---|
| `TasksAreKept`, `CancelledRunTallies` | `Spec => []EveryTaskInOnePlace`, `Spec => []CancelledRunIsTallied` |
| `SlotsAreRespected`, `WaitGroupIsExact` | `Spec => []SlotsRespected`, `Spec => []WaitGroupExact` |
| `SchedulerTypes` | `Spec => []TypeOK` |
| `AllotmentsStayInBudget` | `Spec => []AllotmentsWithinBudget` |
| `DaemonIsKeptUp` | `Spec => []DaemonStaysUp` |
| `DaemonNeverAddsLate` | `Daemon` implies `Spec => NoAddAfterWait` |
| `TallyIsExact` | `Spec => []BoundedAndTallied` |
| `SchedulerImplementsSlotPool` | `Spec => ImplementsSlotPool` |

The argument. `EveryTaskInOnePlace` is far from inductive: that a task taken from the queue is not
live already needs to know what a queued task is, that a report is tallied once needs to know
what the channel can hold, and that an admitter launches a live task needs to know that nobody
else holds it. `PlacesInv` says all of this:

* `ControlPoints`: who holds a task, when the queue is closed, when the idle hold is out;
* `NotYet`: planned tasks not started and requests not accepted are nowhere, and `counted` is
  exactly the accepted requests;
* `NoDuplicates`: queue, channel and hands hold a task once;
* `HeldLife`, `Lives`: what each program point of a task says about where it is, and that a task
  in no place was never taken on or was dropped by a shutdown.

Steps that move no task are dealt with once (`NobodyMoves`); each step that does has its lemma.
`WaitGroupExact` is inductive together with `PlacesInv`: each action moves one task between the
summands (`CountChange`). `SlotsInv` adds that
while the plan is being started no more tasks are live than were started. `HoldInv` says that a daemon's waiter is
never released before a shutdown; it is inductive because the idle hold keeps the counter at 1 or
more (`IdleCounts`). The refinement maps `StartInitial` and `TakeNext` to `Begin`, `Enqueue` to
`Submit`, `HandleComplete` to `Finish`, `WindDown` to `Close`, everything else to a stutter.

`BoundedAndTallied` says that the two counters are
the tasks tallied and those of them that succeeded, which holds because a report is tallied once (`Lives`)
and an outcome does not change after its report.

`AllotmentsWithinBudget` has two phases (`AllotInv`). While the plan is being started, the live tasks are started ones
with the connections planned for them, and what is planned is within `-c` (`PlanAssumption`). Since every planned
task has at least one connection, there are also no more slots than `-c`, so from then on each rebalancing
has a budget of at least the number of live tasks: `LiveById` lists each of them once (`LiveByIdFacts`), so the
sum over the live tasks is the total of the targets, which `RebalanceTargets` keeps within `-c` (`LiveTargetsFacts`).
`DaemonNeverAddsLate` is restricted because the statement is false for one-shot runs (`sched_lost`).

### The daemon (`RpcDaemon_proofs`)

Under `DaemonAssumption`: any finite set of requests with any methods, any
clients, slots and limits.

| Theorem | Statement |
|---|---|
| `DaemonTypes` | `Spec => []TypeOK` |
| `DaemonEndsClean` | `Spec => []ShutdownIsClean` |
| `NoLiveTaskIsForgotten` | `Spec => []ActionableFound` |
| `EventsAreHonest` | `Spec => []EventsHonest` |

The argument. `TypeOK` says that a task's number is in `1..Cardinality(Requests)`, which is a fact
about all requests together: `Numbered` says that at most as many numbers were given out as
requests have come. `ShutdownIsClean` needs to know who may still call the hook: `Ending` ties the
channel `done`, the pending hook and the two goroutines together (whoever has taken the hook is the
only one to call it, and it was not called before), and `Drained` says that after Run nothing
waits, runs or can be handed over. `ActionableFound` is inductive only with what requests hold in
their hands: `QueueInv` says that a task still being added is nowhere else and untouched, whatever
other requests do, and `RegistryInv` that a copy about to be swapped in lacks decided tasks only and has
its own. Then the compare-and-swap does the rest: it succeeds only on the map the copy was made
from, so what the copy lacks is what the registry loses (`SwapFound`). `EventsHonest` is
about each client and task: `ToldOnce` counts the ends in the client's channel and among what it has read, at most
one together, and none while it is still to be told (`Untold`: the task runs, or the run loop holds its report, or
the client is among those not yet addressed); `ToldTruth` with `CompletedIsGood` says that a success told is of a
verified file, although the state is "completed" before the checksum is: the loop reads the state
only once `Start` has returned (`LoopReports`).

### The limiter (`RateLimiter_proofs`)

| Theorem | Statement |
|---|---|
| `LimiterIsSound` | `Spec => []BackOffsAreSound` |
| `OffIsKept` | `Spec => OffStaysOff` |

Under `RateAssumption`: any workers and clients, any rates, floor and cooldown. The argument. As long
as no `SetRate` has raced, the limiter is in one of three conditions (`Sound`): off, with nobody at work on it
(`Off`); on, with workers only (`On`); or changed by one client while everybody else is idle
(`Setting`). `On` is where the work is: what workers carry from a load to a store is within the configured
rate (`Capped`), a restore carries the configured rate itself (`OnTrack`), and, unless `crossed` (`Tended`),
an enforced rate other than the configured one has a cooldown or a worker that is about to arm one or to
restore (`WayBack`), whichever of the other workers' steps come between. A worker that finds `bytes` as
configured gives up its restore, which is right only if the limiter follows `bytes` (`InStep`): at
most one worker has stored `bytes` and not yet the limiter, `bytes` is its rate, and if there is
none, the limiter has the rate of `bytes`.

### Start and resume (`TaskStart_proofs`)

| Theorem | Statement |
|---|---|
| `LayoutsPartition` | `Spec => []LayoutPartitions` |
| `CompleteMeansWhole` | `Spec => []CompleteIsWhole` |
| `CompleteIsOneVersion` | `Spec => []OneVersion` |
| `SavesAreAccepted` | `Spec => []SavedIsAccepted` |

Under `SizeAssumption`, `OptionAssumption`, `ServerAssumption`, `OldFileAssumption`, `NoneAssumption`
(the absence of a probe is no probe) and `ThresholdAssumption` (of `Layouts`): any sizes and versions, options, control files of
older releases, any number of runs, kills and damaged bytes. The argument. A layout is a partition by arithmetic:
`CutTiles` says that cutting a stretch every `seg` bytes tiles it, `TilesJoin` that two tiled stretches side by side
tile both, and `LayoutTiles` puts every profile together from these. `WholeInv` follows the
run: what it trusts when it is laid out is listed by a control file that has a hash for everything
(`OnItsWord`); if the sizes add up to the file the layout has no chunk besides (`EnoughIsAll`); after verification what is done
is on disk (`DoneIsThere`), and while workers run no chunk is neither done nor to be fetched unless an error
was counted (`NoneMissed`). The attempt to prove the extent of the file (`Extent`) without the exception for a single
stream failed on the behaviour told in section 6, which TLC then confirmed.

`OneInv` follows versions: the hashes of a control file are of one version, provided a probe can still
find its ETag (`ControlPure`, `HashesPure`: a run that missed a replacement saves the ETag it started with, beside
hashes of bytes that came later, and no later probe meets that ETag again); what is done is of the probe's
version as long as `If-Range` was sent or the file was not replaced (`DoneIsOne`, `Guarded`). Without ETags
the promise rests on the samples (`PlainInv`): a hash is of one version or of none (`Sound`), and as long as there are
no more chunks than samples the first byte of every chunk that is done is one (`AllSampled`), so that all of them are
of the version the server has while `Start` compares. From then on only a stream or a range of that version adds to it
(`DoneIsSampled`), as `drifted` rules out the rest.

`SavedInv` follows the control file from the run that writes it to the one that reads it. It is `WrittenBy`
its saver's options and probe: it records the layout the two give, lists first bytes of chunks of that layout only,
and hashes whole chunks of it. The next run with the same options and probe computes the same layout, so
nothing is dropped (`TakenOver`), and each hash is compared with the bytes it was taken of. That needs
`ChunkSpan`, which knows a chunk by its first byte alone, to find the chunk again: it does if
the first region ends with a whole chunk (`SpansAreChunks`, from `Aligned`). The proof thus
needs the premise of `SavedIsAccepted` in this one place, where section 6 tells what happens without it.

### The command line and the screen (`OneShot_proofs`)

| Theorem | Statement |
|---|---|
| `EveryURLIsPlannedOnce` | `Spec => []PlanIsWhole` |
| `CodeTellsTheOutcome` | `Spec => []CodeIsOutcome` |
| `ScreenStaysIntact` | `Height >= Cardinality(Tasks) + 3` implies `Spec => []ScreenIntact` |
| `LastFrameIsSettled` | `Spec => []LastFrameSettled` |

Under `OneShotAssumption`: any list of URLs, any number of
probers, slots and places in the channels. `PlanIsWhole` is an argument about strides: prober *w* handles every *n*-th URL
(`Mine`), so no two have one in common, and a result that has arrived was handed over by its prober, which has moved
on since (`ProbePass`). The proof found that the model let `wg.Wait` return before `Run` had admitted
anything; `WaitReturns` now waits for the first admissions, as the code does. The screen, the code and the last
frame share `Flow` (where main, the run loop and the renderer are, together) and
`Types`, whose core is that no view, in a task, a channel or the renderer's memory, ever claims bytes its task does not
have (`Trusted`). `Lines` bounds the rows above the cursor by one for each task and two more; `Counted` and `Scored` tie the
tallies to the tasks' ends, so the code computed from the former tells of the latter (`Coded`); `Settled` says that
a frame drawn after the loop has ended shows no task whole and unfinished.

### Only model-checked

Liveness under fairness (out of the prover's reach): `UnpausedReturns`, `CancelStops`, `AcceptedFinishes`,
`CancelStopsRun`, `RunReturns`, `Restored`, `StartedIsEnded`, `ShutdownExits`, `SignalExits`. Every safety property
of a passing run is stated by a theorem.

## 11. Not modelled

* HTTP, mirrors, proxies, the classification of errors: an answer of a server is a choice
  (`WorkerPool`, `OneShot`), what `Probe` concludes of it an operator (`TaskStart`).
* Waiting for tokens inside a download: `RateLimiter` has the rate, not the bucket, and `Acquire` is
  a request that takes long.
* Parsing and validation of options and of the configuration file, logging, self-update, help and
  completion: sequential input and output.
* Widths, colours and wording of the screen; output that is not a terminal.
* The composition of a single task's pool with the scheduler: `Scheduler`, `RpcDaemon` and `OneShot`
  keep of `Task.Start` what its callers see. In `WorkerPool` a kill of the process is not an action:
  `ControlTruth` and `CheckpointLag` are stated of every state a kill could leave; `TaskStart` has
  the kill.
* `ChangeTaskLimit`, which stores a new limiter for one task in a single atomic step that only the
  reads of its bodies look at.
