---------------------------- MODULE RateLimiter ----------------------------
(* The shared limiter of ratelimit/bucket.go: one configured rate, one      *)
(* current rate that a 429 halves, and the time before which a healthy      *)
(* chunk must not restore it.  All four fields are atomics without a common *)
(* lock, so an operation is one step per field it touches.  The token       *)
(* bucket itself is external: a limiter is the rate it was last given.      *)
EXTENDS Naturals, Sequences, FiniteSets

CONSTANTS
  Workers,      \* goroutines that download chunks
  Clients,      \* RPC requests that change the global limit
  Rates,        \* the limits the program may be started with or asked for, 0 for off
  Floor,        \* minAdaptiveBps
  Cooldown,     \* adaptiveCooldown, in ticks of the clock
  MaxSignals,   \* bound on the answers with status 429
  MaxSets       \* bound on the limits asked for

ASSUME RateAssumption ==
  /\ Workers \cap Clients = {}
  /\ Floor \in Nat \ {0} /\ Cooldown \in Nat \ {0}
  /\ Rates \subseteq Nat

VARIABLES
  limiters,       \* every rate.Limiter ever made: its rate
  lr,             \* the pointer: an index of limiters, 0 for nil
  bytes,          \* the current rate
  configured,     \* the rate to go back to
  cooldownUntil,  \* 0 or the time the back-off ends
  now,
  op,             \* the operation each goroutine is in
  signals, sets,  \* how many so far
  raced,          \* a SetRate has overlapped another operation
  crossed         \* two setBytes have overlapped

fields == <<limiters, lr, bytes, configured, cooldownUntil>>
vars == <<fields, now, op, signals, sets, raced, crossed>>

Procs == Workers \cup Clients

None == [at |-> "idle", rate |-> 0, lim |-> 0, until |-> 0, arms |-> FALSE]

Idle(p) == op[p].at = "idle"

AllIdle(P) == \A p \in P : Idle(p)

\* The rate the bucket enforces; 0 is unlimited.
Rate == IF lr = 0 THEN 0 ELSE limiters[lr]

Goto(p, at) == op' = [op EXCEPT ![p].at = at]

Done(p) == op' = [op EXCEPT ![p] = None]

-----------------------------------------------------------------------------
(* An adaptive operation that begins while a SetRate runs races it.  A      *)
(* SetRate that meets no other operation makes up for earlier races: it     *)
(* stores every field.                                                      *)

Adaptive == raced' = (raced \/ ~AllIdle(Clients))

-----------------------------------------------------------------------------
(* BackOffSignal: what a worker does that got a 429.                        *)

Half == IF bytes \div 2 < Floor THEN Floor ELSE bytes \div 2

\* Mutant: the halved rate is stored and no cooldown is armed.
BackOffSignalMut(w) ==
  /\ Idle(w) /\ signals < MaxSignals
  /\ bytes > 0 /\ Half # bytes
  /\ signals' = signals + 1
  /\ op' = [op EXCEPT ![w] = [None EXCEPT !.at = "store", !.rate = Half]]
  /\ Adaptive
  /\ UNCHANGED <<fields, now, sets, crossed>>

BackOffSignal(w) ==
  /\ Idle(w) /\ signals < MaxSignals
  /\ bytes > 0 /\ Half # bytes
  /\ signals' = signals + 1
  /\ op' = [op EXCEPT ![w] = [None EXCEPT !.at = "store", !.rate = Half, !.arms = TRUE]]
  /\ Adaptive
  /\ UNCHANGED <<fields, now, sets, crossed>>

ArmCooldown(w) ==
  /\ op[w].at = "arm"
  /\ cooldownUntil' = now + Cooldown
  /\ Done(w)
  /\ UNCHANGED <<limiters, lr, bytes, configured, now, signals, sets, raced, crossed>>

-----------------------------------------------------------------------------
(* ThrottleOK and ResetRate: what a worker does after a healthy chunk.      *)

Expired(until) == until # 0 /\ now >= until

ThrottleOK(w) ==
  /\ Idle(w) /\ Expired(cooldownUntil)
  /\ op' = [op EXCEPT ![w] = [None EXCEPT !.at = "swap", !.until = cooldownUntil]]
  /\ Adaptive
  /\ UNCHANGED <<fields, now, signals, sets, crossed>>

\* Mutant: the swap is taken and the restore forgotten.
TakeCooldownMut(w) ==
  /\ op[w].at = "swap"
  /\ cooldownUntil' = IF cooldownUntil = op[w].until THEN 0 ELSE cooldownUntil
  /\ Done(w)
  /\ UNCHANGED <<limiters, lr, bytes, configured, now, signals, sets, raced, crossed>>

\* The CompareAndSwap; who loses it leaves the rate alone.
TakeCooldown(w) ==
  /\ op[w].at = "swap"
  /\ IF cooldownUntil = op[w].until
       THEN cooldownUntil' = 0 /\ op' = [op EXCEPT ![w] = [None EXCEPT !.at = "reset"]]
       ELSE UNCHANGED cooldownUntil /\ Done(w)
  /\ UNCHANGED <<limiters, lr, bytes, configured, now, signals, sets, raced, crossed>>

ReadConfigured(w) ==
  /\ op[w].at = "reset"
  /\ IF configured > 0
       THEN op' = [op EXCEPT ![w].at = "compare", ![w].rate = configured]
       ELSE Done(w)
  /\ UNCHANGED <<fields, now, signals, sets, raced, crossed>>

CompareBytes(w) ==
  /\ op[w].at = "compare"
  /\ IF bytes # op[w].rate THEN Goto(w, "store") ELSE Done(w)
  /\ UNCHANGED <<fields, now, signals, sets, raced, crossed>>

-----------------------------------------------------------------------------
(* setBytes, and the same stores at the end of SetRate.  A back-off has its *)
(* cooldown to arm afterwards.  Two that overlap may leave the bytes of one *)
(* and the limiter of the other; one that meets nobody makes up for it.     *)

\* The bytes are stored, the limiter is not set yet.
Storing(p) == op[p].at \in {"configure", "clear", "load", "limit"}

StoreBytes(p) ==
  /\ op[p].at = "store"
  /\ bytes' = op[p].rate
  /\ crossed' = \E q \in Procs \ {p} : Storing(q)
  /\ Goto(p, IF p \in Clients THEN "configure" ELSE "load")
  /\ UNCHANGED <<limiters, lr, configured, cooldownUntil, now, signals, sets, raced>>

LoadLimiter(p) ==
  /\ op[p].at = "load"
  /\ op' = [op EXCEPT ![p].at = "limit", ![p].lim = lr]
  /\ UNCHANGED <<fields, now, signals, sets, raced, crossed>>

\* A nil pointer gets a new limiter, which another goroutine's may replace.
StoreLimit(p) ==
  /\ op[p].at = "limit"
  /\ IF op[p].lim = 0
       THEN limiters' = Append(limiters, op[p].rate) /\ lr' = Len(limiters) + 1
       ELSE limiters' = [limiters EXCEPT ![op[p].lim] = op[p].rate] /\ UNCHANGED lr
  /\ IF op[p].arms THEN Goto(p, "arm") ELSE Done(p)
  /\ UNCHANGED <<bytes, configured, cooldownUntil, now, signals, sets, raced, crossed>>

-----------------------------------------------------------------------------
(* SetRate: changeOption with max-download-limit.                           *)

SetRate(c, r) ==
  /\ Idle(c) /\ sets < MaxSets
  /\ sets' = sets + 1
  /\ op' = [op EXCEPT ![c] = [None EXCEPT !.at = IF r = 0 THEN "unlimit" ELSE "store",
                                          !.rate = r]]
  /\ raced' = ~AllIdle(Procs)
  /\ UNCHANGED <<fields, now, signals, crossed>>

Unlimit(c) ==
  /\ op[c].at = "unlimit"
  /\ lr' = 0
  /\ Goto(c, "zero")
  /\ UNCHANGED <<limiters, bytes, configured, cooldownUntil, now, signals, sets, raced, crossed>>

\* Mutant: off keeps the rate it had.
ZeroBytesMut(c) ==
  /\ op[c].at = "zero"
  /\ Goto(c, "clear")
  /\ UNCHANGED <<fields, now, signals, sets, raced, crossed>>

ZeroBytes(c) ==
  /\ op[c].at = "zero"
  /\ bytes' = 0
  /\ Goto(c, "clear")
  /\ UNCHANGED <<limiters, lr, configured, cooldownUntil, now, signals, sets, raced, crossed>>

Configure(c) ==
  /\ op[c].at = "configure"
  /\ configured' = op[c].rate
  /\ Goto(c, "clear")
  /\ UNCHANGED <<limiters, lr, bytes, cooldownUntil, now, signals, sets, raced, crossed>>

ClearCooldown(c) ==
  /\ op[c].at = "clear"
  /\ cooldownUntil' = 0
  /\ IF op[c].rate = 0 THEN Done(c) ELSE Goto(c, "load")
  /\ UNCHANGED <<limiters, lr, bytes, configured, now, signals, sets, raced, crossed>>

-----------------------------------------------------------------------------
\* Time matters only while a back-off lasts.
Tick ==
  /\ now < cooldownUntil
  /\ now' = now + 1
  /\ UNCHANGED <<fields, op, signals, sets, raced, crossed>>

Continue(p) == StoreBytes(p) \/ LoadLimiter(p) \/ StoreLimit(p)

WorkerStep(w) ==
  \/ Continue(w)
  \/ ArmCooldown(w) \/ TakeCooldown(w) \/ ReadConfigured(w) \/ CompareBytes(w)

ClientStep(c) ==
  Continue(c) \/ Unlimit(c) \/ ZeroBytes(c) \/ Configure(c) \/ ClearCooldown(c)

Init ==
  /\ bytes \in Rates /\ configured = bytes
  /\ limiters = (IF bytes = 0 THEN <<>> ELSE <<bytes>>) /\ lr = Len(limiters)
  /\ cooldownUntil = 0 /\ now = 1
  /\ op = [p \in Procs |-> None]
  /\ signals = 0 /\ sets = 0 /\ raced = FALSE /\ crossed = FALSE

Next ==
  \/ \E w \in Workers : BackOffSignal(w) \/ ThrottleOK(w) \/ WorkerStep(w)
  \/ \E c \in Clients : ClientStep(c) \/ \E r \in Rates : SetRate(c, r)
  \/ Tick

Spec == Init /\ [][Next]_vars

\* Goroutines run, the clock advances, and chunks keep succeeding: some
\* worker always calls ThrottleOK again.  Nobody has to get a 429 or to
\* change a limit.
Fairness ==
  /\ \A w \in Workers : WF_vars(WorkerStep(w)) /\ WF_vars(ThrottleOK(w))
  /\ \A c \in Clients : WF_vars(ClientStep(c))
  /\ WF_vars(Tick)

FairSpec == Spec /\ Fairness

-----------------------------------------------------------------------------
(* Properties.                                                              *)

Settled == ~raced /\ AllIdle(Clients)

Restoring(w) == op[w].at \in {"reset", "compare", "store", "load", "limit"} /\ ~op[w].arms

BackingOff(w) == op[w].arms /\ op[w].at # "store"

\* However back-offs and restores interleave, unless a SetRate raced with one,
\* they never take the enforced rate above the configured one (below the floor a
\* back-off raises it, and nothing is claimed).  As long as no two of their
\* setBytes overlap, an enforced rate that is not the configured one has a way
\* back: a cooldown is armed, or a worker is about to arm one, or a worker that
\* has taken it is restoring.  ThrottleOK does nothing without a cooldown, so
\* that a rate without a way back would stay low until the next 429
\* (bucket.go:61-118).
NeverAbove == configured >= Floor => Rate <= configured

WayBack ==
  Rate # configured =>
    \/ cooldownUntil # 0
    \/ \E w \in Workers : Restoring(w) \/ BackingOff(w)

BackOffsAreSound == Settled /\ lr # 0 => NeverAbove /\ (~crossed => WayBack)

\* A limiter switched off is not brought back by an operation of a worker
\* that did not race with the request (CompareAndSwap and the check of bytes
\* keep the ones that come later away).
OffStaysOff ==
  [][~raced /\ lr = 0 /\ lr' # 0 => ~AllIdle(Clients)]_vars

Configured == lr = 0 \/ Rate = configured

\* Once 429s have stopped, healthy chunks bring the enforced rate back, unless
\* the last two setBytes overlapped (bucket.go:88-118).  Then the limiter may
\* stay low although bytes is the configured rate, against README.md:233.
Restored == <>[](Settled /\ ~crossed) => <>[]Configured
=============================================================================
