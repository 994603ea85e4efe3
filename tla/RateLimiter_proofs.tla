------------------------- MODULE RateLimiter_proofs -------------------------
(***************************************************************************)
(* The limiter for any number of goroutines and any rates: back-offs and   *)
(* restores that race with each other leave the limiter sound, and one     *)
(* that is off stays off.                                                  *)
(***************************************************************************)
EXTENDS RateLimiter, TLAPS, SequenceTheorems

-----------------------------------------------------------------------------
(* Types.  A client is never at a point of a worker, nor asks for a         *)
(* limiter of rate 0 to be made.                                            *)

WorkerPoints == {"idle", "store", "load", "limit", "arm", "swap", "reset", "compare"}

\* Points of a back-off, which has its cooldown to arm.
ArmingPoints == {"store", "load", "limit", "arm"}

ClientPoints == {"idle", "store", "configure", "clear", "load", "limit", "unlimit", "zero"}

Operation ==
  [at : WorkerPoints \cup ClientPoints, rate : Nat, lim : Nat, until : Nat, arms : BOOLEAN]

FieldsOK ==
  /\ limiters \in Seq(Nat) /\ lr \in 0..Len(limiters)
  /\ bytes \in Nat /\ configured \in Nat /\ cooldownUntil \in Nat /\ now \in Nat
  /\ raced \in BOOLEAN /\ crossed \in BOOLEAN

OpsOK ==
  /\ op \in [Procs -> Operation]
  /\ \A w \in Workers : op[w].at \in WorkerPoints /\ (op[w].arms => op[w].at \in ArmingPoints)
  /\ \A c \in Clients :
       /\ op[c].at \in ClientPoints /\ ~op[c].arms
       /\ op[c].at \in {"unlimit", "zero"} => op[c].rate = 0
       /\ op[c].at \in {"store", "configure", "load", "limit"} => op[c].rate # 0

LimitersKept == \A p \in Procs : op[p].lim <= Len(limiters)

TypeOK == FieldsOK /\ OpsOK /\ LimitersKept

-----------------------------------------------------------------------------
(* As long as no SetRate has raced, the limiter is off and nobody works on   *)
(* it, or it is on and only back-offs and restores do, or a client sets the  *)
(* rate and nobody else does anything.                                       *)

Off == lr = 0 /\ bytes = 0 /\ cooldownUntil = 0 /\ AllIdle(Procs)

\* What workers are about to store is within the configured rate.
Capped ==
  configured >= Floor =>
    /\ bytes <= configured /\ limiters[lr] <= configured
    /\ \A w \in Workers : op[w].at \in {"store", "load", "limit"} => op[w].rate <= configured

OnTrack(w) ==
  /\ op[w].at \in {"compare", "store", "load", "limit"} /\ ~op[w].arms =>
       op[w].rate = configured
  /\ op[w].at = "limit" => op[w].lim = lr

\* Unless two setBytes have overlapped, at most one worker has stored its bytes
\* and not yet the limiter; if there is none, the limiter has the rate of bytes.
InStep ==
  /\ \A v, w \in Workers : Storing(v) /\ Storing(w) => v = w
  /\ \A w \in Workers : Storing(w) => bytes = op[w].rate
  /\ (\A w \in Workers : ~Storing(w)) => Rate = bytes

Tended == ~crossed => InStep /\ WayBack

On ==
  /\ lr # 0 /\ configured # 0 /\ Capped /\ Tended
  /\ \A w \in Workers : OnTrack(w)

Setting(c) ==
  /\ ~Idle(c) /\ AllIdle(Procs \ {c})
  /\ op[c].at = "zero" => lr = 0
  /\ op[c].at = "clear" /\ op[c].rate = 0 => lr = 0 /\ bytes = 0
  /\ op[c].at = "configure" => bytes = op[c].rate
  /\ op[c].at \in {"clear", "load", "limit"} /\ op[c].rate # 0 =>
       bytes = op[c].rate /\ configured = op[c].rate
  /\ op[c].at \in {"load", "limit"} => cooldownUntil = 0
  /\ op[c].at = "limit" => op[c].lim = lr

Sound ==
  ~raced => \/ AllIdle(Clients) /\ (Off \/ On)
            \/ \E c \in Clients : Setting(c)

-----------------------------------------------------------------------------
(* Every step keeps the types.                                              *)

LEMMA InitType == Init => TypeOK
<1> SUFFICES ASSUME Init PROVE TypeOK
  OBVIOUS
<1>1. FieldsOK
  <2>1. bytes \in Nat /\ configured = bytes
    BY RateAssumption DEF Init
  <2>2. limiters \in Seq(Nat) /\ Len(limiters) \in Nat
    <3>1. CASE bytes = 0
      BY <3>1 DEF Init
    <3>2. CASE bytes # 0
      <4>1. limiters = <<bytes>>
        BY <3>2 DEF Init
      <4> QED
        BY <2>1, <4>1
    <3> QED
      BY <3>1, <3>2
  <2>3. lr \in 0..Len(limiters) /\ cooldownUntil \in Nat /\ now \in Nat
    BY <2>2 DEF Init
  <2>4. raced \in BOOLEAN /\ crossed \in BOOLEAN
    BY Zenon DEF Init
  <2> QED
    BY <2>1, <2>2, <2>3, <2>4 DEF FieldsOK
<1>2. OpsOK
  BY DEF Init, OpsOK, Operation, None, WorkerPoints, ClientPoints, Procs
<1>3. LimitersKept
  BY <1>1 DEF Init, LimitersKept, FieldsOK, None
<1> QED
  BY <1>1, <1>2, <1>3 DEF TypeOK

\* One goroutine goes on with its operation.
Becomes(p, o) == op' = [op EXCEPT ![p] = o]

LEMMA OneMoves ==
  ASSUME TypeOK, NEW p \in Procs, NEW o \in Operation, Becomes(p, o),
         p \in Workers => o.at \in WorkerPoints /\ (o.arms => o.at \in ArmingPoints),
         p \in Clients =>
           /\ o.at \in ClientPoints /\ ~o.arms
           /\ o.at \in {"unlimit", "zero"} => o.rate = 0
           /\ o.at \in {"store", "configure", "load", "limit"} => o.rate # 0,
         Len(limiters') >= Len(limiters), o.lim <= Len(limiters'),
         FieldsOK'
  PROVE  TypeOK'
<1>1. op \in [Procs -> Operation] /\ Workers \subseteq Procs /\ Clients \subseteq Procs
  BY DEF TypeOK, OpsOK, Procs
<1>2. OpsOK'
  BY <1>1 DEF TypeOK, OpsOK, Becomes
<1>3. LimitersKept'
  <2>1. Len(limiters) \in Nat /\ Len(limiters') \in Nat
    BY DEF TypeOK, FieldsOK
  <2>2. \A q \in Procs : op[q].lim \in Nat /\ op[q].lim <= Len(limiters)
    BY <1>1 DEF TypeOK, LimitersKept, Operation
  <2> QED
    BY <1>1, <2>1, <2>2 DEF LimitersKept, Becomes
<1> QED
  BY <1>2, <1>3 DEF TypeOK

\* What an operation becomes: done, or the same one further on.
LEMMA NoneIsIdle == None \in Operation /\ None.at = "idle" /\ None.lim = 0 /\ ~None.arms
  BY DEF None, Operation, WorkerPoints

LEMMA FurtherOn ==
  ASSUME NEW o \in Operation, NEW a \in WorkerPoints \cup ClientPoints, NEW r \in Nat
  PROVE  /\ [o EXCEPT !.at = a] \in Operation
         /\ [o EXCEPT !.at = a, !.rate = r] \in Operation
         /\ [o EXCEPT !.at = a, !.lim = r] \in Operation
  BY DEF Operation

LEMMA HalfIsARate == TypeOK /\ bytes > 0 => Half \in Nat \ {0}
  BY RateAssumption DEF TypeOK, FieldsOK, Half

LEMMA WorkerType ==
  ASSUME TypeOK, NEW w \in Workers,
         BackOffSignal(w) \/ ThrottleOK(w) \/ ArmCooldown(w) \/ TakeCooldown(w)
           \/ ReadConfigured(w) \/ CompareBytes(w)
  PROVE  TypeOK'
<1>1. /\ w \in Procs /\ w \notin Clients /\ op \in [Procs -> Operation]
      /\ op[w] \in Operation /\ op[w].lim <= Len(limiters)
      /\ (op[w].arms => op[w].at \in ArmingPoints)
  BY RateAssumption DEF TypeOK, OpsOK, LimitersKept, Procs
<1>2. FieldsOK'
  <2>1. UNCHANGED <<limiters, lr, bytes, configured, now>> /\ cooldownUntil' \in Nat
    BY RateAssumption DEF TypeOK, FieldsOK, fields, BackOffSignal, ThrottleOK, ArmCooldown,
       TakeCooldown, ReadConfigured, CompareBytes
  <2>2. raced' \in BOOLEAN /\ crossed' \in BOOLEAN
    BY Zenon DEF TypeOK, FieldsOK, BackOffSignal, ThrottleOK, ArmCooldown, TakeCooldown,
       ReadConfigured, CompareBytes, Adaptive
  <2> QED
    BY <2>1, <2>2 DEF TypeOK, FieldsOK
<1>3. Len(limiters') = Len(limiters) /\ Len(limiters) \in Nat
  BY DEF TypeOK, FieldsOK, fields, BackOffSignal, ThrottleOK, ArmCooldown, TakeCooldown,
     ReadConfigured, CompareBytes
<1>4. \E o \in Operation :
        /\ Becomes(w, o) /\ o.at \in WorkerPoints /\ o.lim <= Len(limiters)
        /\ o.arms => o.at \in ArmingPoints
  <2>1. CASE BackOffSignal(w)
    <3> DEFINE o == [None EXCEPT !.at = "store", !.rate = Half, !.arms = TRUE]
    <3>1. o \in Operation /\ o.at = "store" /\ o.lim = 0
      BY <2>1, HalfIsARate DEF BackOffSignal, Operation, WorkerPoints, None
    <3>2. Becomes(w, o)
      BY <2>1 DEF BackOffSignal, Becomes, None
    <3> HIDE DEF o
    <3> QED
      BY <1>3, <3>1, <3>2 DEF WorkerPoints, ArmingPoints
  <2>2. CASE ThrottleOK(w)
    <3> DEFINE o == [None EXCEPT !.at = "swap", !.until = cooldownUntil]
    <3>1. o \in Operation /\ o.at = "swap" /\ o.lim = 0 /\ ~o.arms
      BY DEF TypeOK, FieldsOK, Operation, WorkerPoints, None
    <3>2. Becomes(w, o)
      BY <2>2 DEF ThrottleOK, Becomes, None
    <3> HIDE DEF o
    <3> QED
      BY <1>3, <3>1, <3>2 DEF WorkerPoints, ArmingPoints
  <2>3. CASE ArmCooldown(w)
    <3>1. Becomes(w, None)
      BY <2>3 DEF ArmCooldown, Done, Becomes
    <3> QED
      BY <1>3, <3>1, NoneIsIdle DEF WorkerPoints, ArmingPoints
  <2>4. CASE TakeCooldown(w)
    <3> DEFINE o == [None EXCEPT !.at = "reset"]
    <3>1. o \in Operation /\ o.at = "reset" /\ o.lim = 0 /\ ~o.arms
      BY DEF Operation, WorkerPoints, None
    <3>2. Becomes(w, o) \/ Becomes(w, None)
      BY <2>4 DEF TakeCooldown, Done, Becomes, None
    <3> HIDE DEF o
    <3> QED
      BY <1>3, <3>1, <3>2, NoneIsIdle DEF WorkerPoints, ArmingPoints
  <2>5. CASE ReadConfigured(w)
    <3> DEFINE o == [op[w] EXCEPT !.at = "compare", !.rate = configured]
    <3>1. o \in Operation /\ o.at = "compare" /\ o.lim = op[w].lim /\ o.arms = op[w].arms
      BY <1>1, FurtherOn DEF TypeOK, FieldsOK, Operation, WorkerPoints
    <3>2. (Becomes(w, o) \/ Becomes(w, None)) /\ op[w].at = "reset"
      BY <1>1, <2>5 DEF ReadConfigured, Done, Becomes
    <3> HIDE DEF o
    <3> QED
      BY <1>1, <1>3, <3>1, <3>2, NoneIsIdle DEF WorkerPoints, ArmingPoints
  <2>6. CASE CompareBytes(w)
    <3> DEFINE o == [op[w] EXCEPT !.at = "store"]
    <3>1. o \in Operation /\ o.at = "store" /\ o.lim = op[w].lim /\ o.arms = op[w].arms
      BY <1>1, FurtherOn DEF Operation, WorkerPoints
    <3>2. (Becomes(w, o) \/ Becomes(w, None)) /\ op[w].at = "compare"
      BY <1>1, <2>6 DEF CompareBytes, Done, Goto, Becomes
    <3> HIDE DEF o
    <3> QED
      BY <1>1, <1>3, <3>1, <3>2, NoneIsIdle DEF WorkerPoints, ArmingPoints
  <2> QED
    BY <2>1, <2>2, <2>3, <2>4, <2>5, <2>6
<1>5. PICK o \in Operation :
        /\ Becomes(w, o) /\ o.at \in WorkerPoints /\ o.lim <= Len(limiters)
        /\ o.arms => o.at \in ArmingPoints
  BY <1>4
<1>6. Len(limiters') >= Len(limiters) /\ o.lim <= Len(limiters')
  BY <1>3, <1>5
<1> QED
  BY <1>1, <1>2, <1>5, <1>6, OneMoves

\* setBytes is run by both; the other steps of SetRate are a client's.
LEMMA SharedType ==
  ASSUME TypeOK, NEW p \in Procs, Continue(p)
  PROVE  TypeOK'
<1>1. /\ op \in [Procs -> Operation] /\ op[p] \in Operation /\ op[p].lim <= Len(limiters)
      /\ Len(limiters) \in Nat /\ lr \in 0..Len(limiters) /\ limiters \in Seq(Nat)
      /\ (p \in Clients => ~op[p].arms /\ p \notin Workers)
  BY RateAssumption DEF TypeOK, OpsOK, LimitersKept, FieldsOK
<1>2. CASE StoreBytes(p)
  <2> DEFINE o == [op[p] EXCEPT !.at = IF p \in Clients THEN "configure" ELSE "load"]
  <2>1. /\ o \in Operation /\ o.at = (IF p \in Clients THEN "configure" ELSE "load")
        /\ o.lim = op[p].lim /\ o.rate = op[p].rate /\ o.arms = op[p].arms
    BY <1>1, FurtherOn DEF Operation, WorkerPoints, ClientPoints
  <2>2. Becomes(p, o)
    BY <1>1, <1>2 DEF StoreBytes, Goto, Becomes
  <2>3. p \in Clients => o.rate # 0
    BY <1>2, <2>1 DEF StoreBytes, TypeOK, OpsOK
  <2>4. FieldsOK' /\ limiters' = limiters
    <3>1. /\ bytes' \in Nat
          /\ UNCHANGED <<limiters, lr, configured, cooldownUntil, now, raced>>
      BY <1>1, <1>2 DEF StoreBytes, Operation
    <3>2. crossed' \in BOOLEAN
      BY <1>2, Zenon DEF StoreBytes
    <3> QED
      BY <3>1, <3>2 DEF TypeOK, FieldsOK
  <2> HIDE DEF o
  <2> QED
    BY <1>1, <2>1, <2>2, <2>3, <2>4, OneMoves DEF WorkerPoints, ClientPoints, ArmingPoints
<1>3. CASE LoadLimiter(p)
  <2> DEFINE o == [op[p] EXCEPT !.at = "limit", !.lim = lr]
  <2>1. /\ o \in Operation /\ o.at = "limit"
        /\ o.lim = lr /\ o.rate = op[p].rate /\ o.arms = op[p].arms
    <3>1. lr \in Nat
      BY <1>1
    <3> QED
      BY <1>1, <3>1, FurtherOn DEF Operation, WorkerPoints, ClientPoints
  <2>2. Becomes(p, o)
    BY <1>1, <1>3 DEF LoadLimiter, Becomes
  <2>3. p \in Clients => o.rate # 0
    BY <1>3, <2>1 DEF LoadLimiter, TypeOK, OpsOK
  <2>4. FieldsOK' /\ limiters' = limiters
    BY <1>1, <1>3 DEF LoadLimiter, TypeOK, FieldsOK, fields
  <2> HIDE DEF o
  <2> QED
    BY <1>1, <2>1, <2>2, <2>3, <2>4, OneMoves DEF WorkerPoints, ClientPoints, ArmingPoints
<1>4. CASE StoreLimit(p)
  <2> DEFINE o == IF op[p].arms THEN [op[p] EXCEPT !.at = "arm"] ELSE None
  <2>1. /\ o \in Operation /\ o.at = (IF op[p].arms THEN "arm" ELSE "idle")
        /\ (op[p].arms => o.lim = op[p].lim) /\ (~op[p].arms => o.lim = 0 /\ ~o.arms)
    <3>1. CASE op[p].arms
      <4>1. o = [op[p] EXCEPT !.at = "arm"]
        BY <3>1
      <4> QED
        BY <1>1, <3>1, <4>1, FurtherOn DEF Operation, WorkerPoints
    <3>2. CASE ~op[p].arms
      BY <3>2, NoneIsIdle
    <3> QED
      BY <3>1, <3>2
  <2>2. Becomes(p, o)
    BY <1>1, <1>4 DEF StoreLimit, Goto, Done, Becomes
  <2>3. /\ limiters' \in Seq(Nat) /\ Len(limiters') >= Len(limiters)
        /\ lr' \in 0..Len(limiters')
    <3>1. op[p].rate \in Nat /\ op[p].lim \in Nat
      BY <1>1 DEF Operation
    <3>2. CASE op[p].lim = 0
      BY <1>1, <1>4, <3>1, <3>2 DEF StoreLimit
    <3>3. CASE op[p].lim # 0
      <4>1. limiters' = [limiters EXCEPT ![op[p].lim] = op[p].rate] /\ lr' = lr
        BY <1>4, <3>3 DEF StoreLimit
      <4>2. limiters' \in Seq(Nat) /\ Len(limiters') = Len(limiters)
        <5>1. op[p].lim \in 1..Len(limiters)
          BY <1>1, <3>1, <3>3
        <5> QED
          BY <1>1, <3>1, <4>1, <5>1, ExceptSeq
      <4> QED
        BY <1>1, <4>1, <4>2
    <3> QED
      BY <3>2, <3>3
  <2>4. FieldsOK'
    BY <1>4, <2>3 DEF StoreLimit, TypeOK, FieldsOK
  <2> HIDE DEF o
  <2>5. o.lim <= Len(limiters')
    BY <1>1, <2>1, <2>3 DEF Operation
  <2> QED
    BY <1>1, <2>1, <2>2, <2>3, <2>4, <2>5, OneMoves DEF WorkerPoints, ClientPoints, ArmingPoints
<1> QED
  BY <1>2, <1>3, <1>4 DEF Continue

LEMMA ClientType ==
  ASSUME TypeOK, NEW c \in Clients,
         Unlimit(c) \/ ZeroBytes(c) \/ Configure(c) \/ ClearCooldown(c)
           \/ \E r \in Rates : SetRate(c, r)
  PROVE  TypeOK'
<1>1. /\ c \in Procs /\ c \notin Workers /\ op \in [Procs -> Operation]
      /\ op[c] \in Operation /\ op[c].lim <= Len(limiters) /\ ~op[c].arms
      /\ Len(limiters) \in Nat
  BY RateAssumption DEF TypeOK, OpsOK, LimitersKept, FieldsOK, Procs
<1>2. FieldsOK' /\ limiters' = limiters
  <2>1. UNCHANGED <<limiters, now>> /\ bytes' \in Nat /\ cooldownUntil' \in Nat
        /\ lr' \in 0..Len(limiters) /\ configured' \in Nat
    <3>1. op[c].rate \in Nat /\ lr \in 0..Len(limiters) /\ bytes \in Nat
          /\ cooldownUntil \in Nat /\ configured \in Nat
      BY <1>1 DEF TypeOK, FieldsOK, Operation
    <3>2. CASE Unlimit(c) \/ ZeroBytes(c)
      BY <1>1, <3>1, <3>2 DEF Unlimit, ZeroBytes
    <3>3. CASE Configure(c) \/ ClearCooldown(c)
      BY <1>1, <3>1, <3>3 DEF Configure, ClearCooldown
    <3>4. CASE \E r \in Rates : SetRate(c, r)
      BY <1>1, <3>1, <3>4 DEF SetRate, fields
    <3> QED
      BY <3>2, <3>3, <3>4
  <2>2. raced' \in BOOLEAN /\ crossed' \in BOOLEAN
    BY Zenon DEF TypeOK, FieldsOK, Unlimit, ZeroBytes, Configure, ClearCooldown, SetRate
  <2> QED
    BY <2>1, <2>2 DEF TypeOK, FieldsOK
<1> DEFINE Goal ==
        \E o \in Operation :
        /\ Becomes(c, o) /\ o.at \in ClientPoints /\ ~o.arms /\ o.lim <= Len(limiters)
        /\ o.at \in {"unlimit", "zero"} => o.rate = 0
        /\ o.at \in {"store", "configure", "load", "limit"} => o.rate # 0
<1>3. Goal
  <2>1. ASSUME NEW r \in Rates, SetRate(c, r) PROVE Goal
    <3> DEFINE o == [None EXCEPT !.at = IF r = 0 THEN "unlimit" ELSE "store", !.rate = r]
    <3>1. /\ o \in Operation /\ o.at = (IF r = 0 THEN "unlimit" ELSE "store")
          /\ o.lim = 0 /\ o.rate = r /\ ~o.arms
      BY <2>1, RateAssumption DEF Operation, ClientPoints, None
    <3>2. Becomes(c, o)
      BY <2>1 DEF SetRate, Becomes, None
    <3> HIDE DEF o
    <3> QED
      BY <1>1, <3>1, <3>2 DEF ClientPoints
  <2>2. ASSUME NEW a \in {"zero", "clear", "load"}, Goto(c, a),
               a = "zero" => op[c].rate = 0, a = "load" => op[c].rate # 0
        PROVE  Goal
    <3> DEFINE o == [op[c] EXCEPT !.at = a]
    <3>1. /\ o \in Operation /\ o.at = a
          /\ o.lim = op[c].lim /\ o.rate = op[c].rate /\ o.arms = op[c].arms
      BY <1>1, FurtherOn DEF Operation, WorkerPoints, ClientPoints
    <3>2. Becomes(c, o)
      BY <1>1, <2>2 DEF Goto, Becomes
    <3> HIDE DEF o
    <3> QED
      BY <1>1, <2>2, <3>1, <3>2 DEF ClientPoints
  <2>3. ASSUME Done(c) PROVE Goal
    <3>1. Becomes(c, None)
      BY <2>3 DEF Done, Becomes
    <3> QED
      BY <1>1, <3>1, NoneIsIdle DEF ClientPoints
  <2>4. \/ Goto(c, "zero") /\ op[c].rate = 0
        \/ Goto(c, "clear")
        \/ Goto(c, "load") /\ op[c].rate # 0
        \/ Done(c) \/ \E r \in Rates : SetRate(c, r)
    BY <1>1 DEF TypeOK, OpsOK, Unlimit, ZeroBytes, Configure, ClearCooldown
  <2> QED
    BY <2>1, <2>2, <2>3, <2>4
<1>4. PICK o \in Operation :
        /\ Becomes(c, o) /\ o.at \in ClientPoints /\ ~o.arms /\ o.lim <= Len(limiters)
        /\ o.at \in {"unlimit", "zero"} => o.rate = 0
        /\ o.at \in {"store", "configure", "load", "limit"} => o.rate # 0
  BY <1>3
<1>5. Len(limiters') >= Len(limiters) /\ o.lim <= Len(limiters')
  BY <1>1, <1>2, <1>4
<1> QED
  BY <1>1, <1>2, <1>4, <1>5, OneMoves

LEMMA NextType == TypeOK /\ [Next]_vars => TypeOK'
<1> SUFFICES ASSUME TypeOK, [Next]_vars PROVE TypeOK'
  OBVIOUS
<1>1. ASSUME UNCHANGED <<fields, op, raced, crossed>>, now' \in Nat PROVE TypeOK'
  BY <1>1 DEF TypeOK, FieldsOK, OpsOK, LimitersKept, fields
<1>2. CASE Tick
  BY <1>1, <1>2 DEF Tick, TypeOK, FieldsOK
<1>3. CASE UNCHANGED vars
  BY <1>1, <1>3 DEF vars, TypeOK, FieldsOK
<1> QED
  BY <1>2, <1>3, WorkerType, SharedType, ClientType
  DEF Next, WorkerStep, ClientStep, Procs

-----------------------------------------------------------------------------
(* A worker's step.  While nobody has raced with a SetRate it can only       *)
(* happen with the limiter on and no client at work.                        *)

WorkerActs(w) == BackOffSignal(w) \/ ThrottleOK(w) \/ WorkerStep(w)

LEMMA OpsOfProcs ==
  ASSUME TypeOK
  PROVE  /\ op \in [Procs -> Operation]
         /\ \A w \in Workers : w \in Procs /\ w \notin Clients
         /\ \A c \in Clients : c \in Procs /\ c \notin Workers
  BY RateAssumption DEF TypeOK, OpsOK, Procs

\* A setBytes that stores its bytes has begun before.
LEMMA StoresAreBegun ==
  ASSUME NEW p \in Procs, StoreBytes(p)
  PROVE  op[p].at = "store" /\ raced' = raced
  BY Zenon DEF StoreBytes

LEMMA OnlyWhenOn ==
  ASSUME TypeOK, Sound, NEW w \in Workers, WorkerActs(w), ~raced'
  PROVE  ~raced /\ AllIdle(Clients) /\ On
<1>1. ~raced
  BY DEF WorkerActs, BackOffSignal, ThrottleOK, WorkerStep, Continue, StoreBytes, LoadLimiter,
     StoreLimit, ArmCooldown, TakeCooldown, ReadConfigured, CompareBytes, Adaptive
<1>2. AllIdle(Clients) \/ ~Idle(w)
  BY DEF WorkerActs, BackOffSignal, ThrottleOK, WorkerStep, Continue, StoreBytes, LoadLimiter,
     StoreLimit, ArmCooldown, TakeCooldown, ReadConfigured, CompareBytes, Adaptive, Idle
<1>3. AllIdle(Clients) /\ (Off \/ On)
  BY <1>1, <1>2, OpsOfProcs DEF Sound, Setting, AllIdle
<1>4. ~Off
  <2>1. Off => bytes = 0 /\ cooldownUntil = 0 /\ Idle(w)
    BY OpsOfProcs DEF Off, AllIdle
  <2>2. ~(bytes = 0 /\ cooldownUntil = 0 /\ Idle(w))
    BY StoresAreBegun, OpsOfProcs DEF WorkerActs, BackOffSignal, ThrottleOK, WorkerStep,
       Continue, LoadLimiter, StoreLimit, ArmCooldown, TakeCooldown, ReadConfigured,
       CompareBytes, Expired, Idle
  <2> QED
    BY <2>1, <2>2
<1> QED
  BY <1>1, <1>3, <1>4

\* What is true of the others stays true when only w moves.
LEMMA OthersStay ==
  ASSUME TypeOK, NEW w \in Workers, NEW o, Becomes(w, o)
  PROVE  /\ op'[w] = o
         /\ \A p \in Procs \ {w} : op'[p] = op[p]
         /\ AllIdle(Clients) => AllIdle(Clients)'
  BY OpsOfProcs DEF Becomes, AllIdle, Idle

\* A back-off begins with a rate between the floor and the current one, or
\* the floor itself.
LEMMA HalfIsCapped ==
  ASSUME TypeOK, configured >= Floor => bytes <= configured
  PROVE  configured >= Floor => Half <= configured
  BY RateAssumption DEF TypeOK, FieldsOK, Half

\* A worker that stores neither before nor after its step disturbs nobody, nor
\* does one that reads the limiter.
LEMMA InStepKept ==
  ASSUME TypeOK, NEW w \in Workers, UNCHANGED <<limiters, lr, bytes>>,
         \A v \in Workers \ {w} : op'[v] = op[v],
         Storing(w)' <=> Storing(w), Storing(w) => op'[w].rate = op[w].rate,
         InStep
  PROVE  InStep'
<1>1. Rate' = Rate
  BY DEF Rate
<1>2. \A v \in Workers : Storing(v)' <=> Storing(v)
  BY DEF Storing
<1>3. \A v \in Workers : Storing(v) => op'[v].rate = op[v].rate
  OBVIOUS
<1> QED
  BY <1>1, <1>2, <1>3 DEF InStep

LEMMA BackOffOn ==
  ASSUME TypeOK, On, NEW w \in Workers, BackOffSignal(w) \/ ThrottleOK(w)
  PROVE  On'
<1>1. CASE BackOffSignal(w)
  <2> DEFINE o == [None EXCEPT !.at = "store", !.rate = Half, !.arms = TRUE]
  <2>1. Becomes(w, o) /\ UNCHANGED <<limiters, lr, bytes, configured, cooldownUntil, crossed>>
    BY <1>1 DEF BackOffSignal, Becomes, fields
  <2>2. o.at = "store" /\ o.rate = Half /\ o.arms
    BY DEF None
  <2> HIDE DEF o
  <2>3. /\ op'[w] = o /\ \A v \in Workers \ {w} : op'[v] = op[v]
        /\ ~Restoring(w) /\ ~BackingOff(w) /\ ~Storing(w)
    BY <1>1, <2>1, OthersStay, OpsOfProcs
    DEF BackOffSignal, Idle, Restoring, BackingOff, Storing, TypeOK, OpsOK, ArmingPoints
  <2>4. Capped'
    BY <2>1, <2>2, <2>3, HalfIsCapped DEF On, Capped
  <2>5. Tended'
    <3> SUFFICES ASSUME ~crossed PROVE InStep' /\ WayBack'
      BY <2>1 DEF Tended
    <3>1. InStep' /\ ~Storing(w)'
      BY <2>1, <2>2, <2>3, InStepKept DEF On, Tended, Storing
    <3>2. WayBack'
      BY <2>1, <2>3 DEF On, Tended, WayBack, Rate, Restoring, BackingOff
    <3> QED
      BY <3>1, <3>2
  <2>6. \A v \in Workers : OnTrack(v)'
    BY <2>1, <2>2, <2>3 DEF On, OnTrack
  <2> QED
    BY <2>1, <2>4, <2>5, <2>6 DEF On
<1>2. CASE ThrottleOK(w)
  <2> DEFINE o == [None EXCEPT !.at = "swap", !.until = cooldownUntil]
  <2>1. Becomes(w, o) /\ UNCHANGED <<limiters, lr, bytes, configured, cooldownUntil, crossed>>
    BY <1>2 DEF ThrottleOK, Becomes, fields
  <2>2. o.at = "swap"
    BY DEF None
  <2> HIDE DEF o
  <2>3. op'[w] = o /\ ~Storing(w) /\ \A v \in Workers \ {w} : op'[v] = op[v]
    BY <1>2, <2>1, OthersStay, OpsOfProcs DEF ThrottleOK, Idle, Storing
  <2>4. cooldownUntil # 0
    BY <1>2 DEF ThrottleOK, Expired
  <2>5. Capped'
    BY <2>1, <2>2, <2>3 DEF On, Capped
  <2>6. Tended'
    <3> SUFFICES ASSUME ~crossed PROVE InStep' /\ WayBack'
      BY <2>1 DEF Tended
    <3>1. InStep'
      BY <2>1, <2>2, <2>3, InStepKept DEF On, Tended, Storing
    <3>2. WayBack'
      BY <2>1, <2>4 DEF WayBack
    <3> QED
      BY <3>1, <3>2
  <2>7. \A v \in Workers : OnTrack(v)'
    BY <2>1, <2>2, <2>3 DEF On, OnTrack
  <2> QED
    BY <2>1, <2>5, <2>6, <2>7 DEF On
<1> QED
  BY <1>1, <1>2

\* The steps of a back-off or a restore on its way.
LEMMA RestoreOn ==
  ASSUME TypeOK, On, NEW w \in Workers,
         ArmCooldown(w) \/ TakeCooldown(w) \/ ReadConfigured(w) \/ CompareBytes(w)
  PROVE  On'
<1>1. /\ op \in [Procs -> Operation] /\ w \in Procs
      /\ (op[w].arms => op[w].at \in ArmingPoints)
      /\ configured # 0 /\ configured \in Nat /\ Capped /\ Tended
      /\ \A v \in Workers : OnTrack(v)
      /\ UNCHANGED <<limiters, lr, bytes, configured, crossed>> /\ ~Storing(w)
  BY OpsOfProcs DEF On, TypeOK, OpsOK, FieldsOK, fields, ArmCooldown, TakeCooldown,
     ReadConfigured, CompareBytes, Storing
<1>2. CASE ArmCooldown(w)
  <2>1. Becomes(w, None) /\ cooldownUntil' # 0
    BY <1>2, RateAssumption DEF ArmCooldown, Done, Becomes, TypeOK, FieldsOK
  <2>2. op'[w] = None /\ \A v \in Workers \ {w} : op'[v] = op[v]
    BY <2>1, OthersStay, OpsOfProcs
  <2>3. Capped'
    BY <1>1, <2>2, NoneIsIdle DEF Capped
  <2>4. Tended'
    <3> SUFFICES ASSUME ~crossed PROVE InStep' /\ WayBack'
      BY <1>1 DEF Tended
    <3>1. InStep'
      BY <1>1, <2>2, NoneIsIdle, InStepKept DEF Tended, Storing
    <3>2. WayBack'
      BY <2>1 DEF WayBack
    <3> QED
      BY <3>1, <3>2
  <2>5. \A v \in Workers : OnTrack(v)'
    BY <1>1, <2>2, NoneIsIdle DEF OnTrack
  <2> QED
    BY <1>1, <2>3, <2>4, <2>5 DEF On
<1>3. CASE TakeCooldown(w)
  <2> DEFINE o == [None EXCEPT !.at = "reset"]
  <2>1. \/ Becomes(w, o)
        \/ Becomes(w, None) /\ cooldownUntil' = cooldownUntil
    BY <1>3 DEF TakeCooldown, Done, Becomes
  <2>2. o.at = "reset" /\ ~o.arms
    BY DEF None
  <2> HIDE DEF o
  <2>3. \A v \in Workers \ {w} : op'[v] = op[v]
    BY <2>1, OthersStay, OpsOfProcs
  <2>4. \/ op'[w] = o
        \/ op'[w] = None /\ cooldownUntil' = cooldownUntil /\ ~Restoring(w) /\ ~BackingOff(w)
    BY <1>1, <1>3, <2>1, OthersStay DEF TakeCooldown, Restoring, BackingOff, ArmingPoints
  <2>5. Capped'
    BY <1>1, <2>2, <2>3, <2>4, NoneIsIdle DEF Capped
  <2>6. Tended'
    <3> SUFFICES ASSUME ~crossed PROVE InStep' /\ WayBack'
      BY <1>1 DEF Tended
    <3>1. InStep'
      BY <1>1, <2>2, <2>3, <2>4, NoneIsIdle, InStepKept DEF Tended, Storing
    <3>2. CASE op'[w] = o
      BY <2>2, <3>1, <3>2 DEF WayBack, Restoring
    <3>3. CASE op'[w] # o
      <4>1. WayBack'
        BY <1>1, <2>3, <2>4, <3>3 DEF Tended, WayBack, Rate, Restoring, BackingOff
      <4> QED
        BY <3>1, <4>1
    <3> QED
      BY <3>2, <3>3
  <2>7. \A v \in Workers : OnTrack(v)'
    BY <1>1, <2>2, <2>3, <2>4, NoneIsIdle DEF OnTrack
  <2> QED
    BY <1>1, <2>5, <2>6, <2>7 DEF On
<1>4. CASE ReadConfigured(w)
  <2> DEFINE o == [op[w] EXCEPT !.at = "compare", !.rate = configured]
  <2>1. Becomes(w, o) /\ ~op[w].arms /\ cooldownUntil' = cooldownUntil
    <3>1. configured > 0 /\ op[w].at = "reset" /\ cooldownUntil' = cooldownUntil
      BY <1>1, <1>4 DEF ReadConfigured, fields
    <3>2. op' = [op EXCEPT ![w].at = "compare", ![w].rate = configured]
      BY <1>4, <3>1 DEF ReadConfigured
    <3> QED
      BY <1>1, <3>1, <3>2 DEF Becomes, ArmingPoints
  <2>2. o.at = "compare" /\ o.rate = configured /\ ~o.arms
    BY <1>1, <2>1 DEF Operation
  <2> HIDE DEF o
  <2>3. op'[w] = o /\ \A v \in Workers \ {w} : op'[v] = op[v]
    BY <2>1, OthersStay, OpsOfProcs
  <2>4. Capped'
    BY <1>1, <2>2, <2>3 DEF Capped
  <2>5. Tended'
    <3> SUFFICES ASSUME ~crossed PROVE InStep' /\ WayBack'
      BY <1>1 DEF Tended
    <3>1. InStep'
      BY <1>1, <2>2, <2>3, InStepKept DEF Tended, Storing
    <3>2. WayBack'
      BY <2>2, <2>3 DEF WayBack, Restoring
    <3> QED
      BY <3>1, <3>2
  <2>6. \A v \in Workers : OnTrack(v)'
    BY <1>1, <2>2, <2>3 DEF OnTrack
  <2> QED
    BY <1>1, <2>4, <2>5, <2>6 DEF On
<1>5. CASE CompareBytes(w)
  <2> DEFINE o == [op[w] EXCEPT !.at = "store"]
  <2>1. /\ op[w].at = "compare" /\ ~op[w].arms /\ op[w].rate = configured
        /\ cooldownUntil' = cooldownUntil
        /\ Becomes(w, o) \/ (Becomes(w, None) /\ bytes = configured)
    BY <1>1, <1>5 DEF CompareBytes, Becomes, Goto, Done, OnTrack, ArmingPoints, fields
  <2>2. o.at = "store" /\ o.rate = configured /\ ~o.arms
    BY <1>1, <2>1 DEF Operation
  <2> HIDE DEF o
  <2>3. \A v \in Workers \ {w} : op'[v] = op[v]
    BY <2>1, OthersStay, OpsOfProcs
  <2>4. op'[w] = o \/ (op'[w] = None /\ bytes = configured)
    BY <2>1, OthersStay
  <2>5. Capped'
    BY <1>1, <2>2, <2>3, <2>4, NoneIsIdle DEF Capped
  <2>6. Tended'
    <3> SUFFICES ASSUME ~crossed PROVE InStep' /\ WayBack'
      BY <1>1 DEF Tended
    <3>1. InStep'
      BY <1>1, <2>2, <2>3, <2>4, NoneIsIdle, InStepKept DEF Tended, Storing
    <3>2. CASE op'[w] = o
      BY <2>2, <3>1, <3>2 DEF WayBack, Restoring
    <3>3. CASE bytes = configured /\ \A v \in Workers : ~Storing(v)
      <4>1. Rate' = configured'
        BY <1>1, <3>3 DEF Tended, InStep, Rate
      <4> QED
        BY <3>1, <4>1 DEF WayBack
    <3>4. ASSUME NEW v \in Workers, Storing(v) PROVE WayBack'
      <4>1. op[v].at \in {"load", "limit"} /\ op'[v] = op[v]
        BY <1>1, <2>3, <3>4 DEF Storing, TypeOK, OpsOK, WorkerPoints
      <4>2. (Restoring(v) \/ BackingOff(v))'
        BY <4>1, Zenon DEF Restoring, BackingOff
      <4> QED
        BY <4>2 DEF WayBack
    <3> QED
      BY <2>4, <3>1, <3>2, <3>3, <3>4
  <2>7. \A v \in Workers : OnTrack(v)'
    BY <1>1, <2>2, <2>3, <2>4, NoneIsIdle DEF OnTrack
  <2> QED
    BY <1>1, <2>5, <2>6, <2>7 DEF On
<1> QED
  BY <1>2, <1>3, <1>4, <1>5

LEMMA StoresOn ==
  ASSUME TypeOK, On, NEW w \in Workers, Continue(w)
  PROVE  On'
<1>1. /\ op \in [Procs -> Operation] /\ w \in Procs /\ w \notin Clients
      /\ (op[w].arms => op[w].at \in ArmingPoints)
      /\ configured # 0 /\ configured \in Nat /\ Capped /\ Tended
      /\ \A v \in Workers : OnTrack(v)
      /\ lr # 0 /\ lr \in 1..Len(limiters) /\ limiters \in Seq(Nat)
      /\ UNCHANGED <<configured, cooldownUntil>>
  <2>1. lr # 0 /\ lr \in 1..Len(limiters) /\ limiters \in Seq(Nat)
    BY DEF On, TypeOK, FieldsOK
  <2>2. UNCHANGED <<configured, cooldownUntil>>
    BY DEF fields, Continue, StoreBytes, LoadLimiter, StoreLimit
  <2> QED
    BY <2>1, <2>2, OpsOfProcs DEF On, TypeOK, OpsOK, FieldsOK
<1>2. CASE StoreBytes(w)
  <2> DEFINE o == [op[w] EXCEPT !.at = "load"]
  <2>1. /\ Becomes(w, o) /\ op[w].at = "store" /\ bytes' = op[w].rate
        /\ UNCHANGED <<limiters, lr>>
    BY <1>1, <1>2 DEF StoreBytes, Becomes, Goto
  <2>2. o.at = "load" /\ o.rate = op[w].rate /\ o.arms = op[w].arms
    BY <1>1 DEF Operation
  <2> HIDE DEF o
  <2>3. op'[w] = o /\ \A v \in Workers \ {w} : op'[v] = op[v]
    BY <2>1, OthersStay, OpsOfProcs
  <2>4. Capped'
    BY <1>1, <2>1, <2>2, <2>3 DEF Capped
  <2>5. Tended'
    <3> SUFFICES ASSUME ~crossed' PROVE InStep' /\ WayBack'
      BY DEF Tended
    <3>1. \A v \in Workers \ {w} : ~Storing(v)
      BY <1>2, OpsOfProcs DEF StoreBytes
    <3>2. Storing(w)' /\ \A v \in Workers \ {w} : ~Storing(v)'
      BY <2>2, <2>3, <3>1 DEF Storing
    <3>3. InStep'
      BY <2>1, <2>2, <2>3, <3>2 DEF InStep
    <3>4. (Restoring(w) \/ BackingOff(w))'
      BY <2>2, <2>3, Zenon DEF Restoring, BackingOff
    <3> QED
      BY <3>3, <3>4 DEF WayBack
  <2>6. \A v \in Workers : OnTrack(v)'
    BY <1>1, <2>1, <2>2, <2>3 DEF OnTrack
  <2> QED
    BY <1>1, <2>1, <2>4, <2>5, <2>6 DEF On
<1>3. CASE LoadLimiter(w)
  <2> DEFINE o == [op[w] EXCEPT !.at = "limit", !.lim = lr]
  <2>1. Becomes(w, o) /\ op[w].at = "load" /\ UNCHANGED <<limiters, lr, bytes, crossed>>
    BY <1>1, <1>3 DEF LoadLimiter, Becomes, fields
  <2>2. o.at = "limit" /\ o.rate = op[w].rate /\ o.arms = op[w].arms /\ o.lim = lr
    BY <1>1 DEF Operation
  <2> HIDE DEF o
  <2>3. op'[w] = o /\ \A v \in Workers \ {w} : op'[v] = op[v]
    BY <2>1, OthersStay, OpsOfProcs
  <2>4. Capped'
    BY <1>1, <2>1, <2>2, <2>3 DEF Capped
  <2>5. Tended'
    <3> SUFFICES ASSUME ~crossed PROVE InStep' /\ WayBack'
      BY <2>1 DEF Tended
    <3>1. InStep'
      BY <1>1, <2>1, <2>2, <2>3, InStepKept DEF Tended, Storing
    <3>2. WayBack'
      BY <1>1, <2>1, <2>2, <2>3 DEF Tended, WayBack, Rate, Restoring, BackingOff
    <3> QED
      BY <3>1, <3>2
  <2>6. \A v \in Workers : OnTrack(v)'
    BY <1>1, <2>1, <2>2, <2>3 DEF OnTrack
  <2> QED
    BY <1>1, <2>1, <2>4, <2>5, <2>6 DEF On
<1>4. CASE StoreLimit(w)
  <2> DEFINE o == IF op[w].arms THEN [op[w] EXCEPT !.at = "arm"] ELSE None
  <2>1. /\ Becomes(w, o) /\ op[w].at = "limit" /\ op[w].lim = lr
        /\ limiters' = [limiters EXCEPT ![lr] = op[w].rate] /\ UNCHANGED <<lr, bytes, crossed>>
    BY <1>1, <1>4 DEF StoreLimit, Becomes, Goto, Done, OnTrack
  <2>2. o.at = (IF op[w].arms THEN "arm" ELSE "idle") /\ o.arms = op[w].arms
    <3>1. CASE op[w].arms
      <4>1. o = [op[w] EXCEPT !.at = "arm"]
        BY <3>1
      <4> QED
        BY <1>1, <3>1, <4>1 DEF Operation
    <3>2. CASE ~op[w].arms
      BY <1>1, <3>2, NoneIsIdle DEF None, Operation
    <3> QED
      BY <3>1, <3>2
  <2> HIDE DEF o
  <2>3. op'[w] = o /\ \A v \in Workers \ {w} : op'[v] = op[v]
    BY <2>1, OthersStay, OpsOfProcs
  <2>4. limiters'[lr] = op[w].rate
    BY <1>1, <2>1
  <2>5. Capped'
    BY <1>1, <2>1, <2>2, <2>3, <2>4 DEF Capped
  <2>6. Tended'
    <3> SUFFICES ASSUME ~crossed PROVE InStep' /\ WayBack'
      BY <2>1 DEF Tended
    <3>1. Rate' = op[w].rate /\ Storing(w)
      BY <1>1, <2>1, <2>4 DEF Rate, Storing
    <3>2. bytes = op[w].rate /\ \A v \in Workers \ {w} : ~Storing(v)
      BY <1>1, <3>1 DEF Tended, InStep
    <3>3. \A v \in Workers : ~Storing(v)'
      BY <2>2, <2>3, <3>2 DEF Storing
    <3>4. InStep'
      BY <2>1, <3>1, <3>2, <3>3 DEF InStep
    <3>5. CASE op[w].arms
      BY <2>2, <2>3, <3>4, <3>5 DEF WayBack, BackingOff
    <3>6. CASE ~op[w].arms
      BY <1>1, <2>1, <3>1, <3>4, <3>6 DEF WayBack, OnTrack
    <3> QED
      BY <3>5, <3>6
  <2>7. \A v \in Workers : OnTrack(v)'
    BY <1>1, <2>1, <2>2, <2>3 DEF OnTrack
  <2> QED
    BY <1>1, <2>1, <2>5, <2>6, <2>7 DEF On
<1> QED
  BY <1>2, <1>3, <1>4 DEF Continue

-----------------------------------------------------------------------------
(* A client's step.  It races with nobody only if nobody else is at work.   *)

LEMMA SetRateAlone ==
  ASSUME TypeOK, NEW c \in Clients, NEW r \in Rates, SetRate(c, r), ~raced'
  PROVE  Setting(c)'
<1>1. AllIdle(Procs)
  BY DEF SetRate
<1> DEFINE o == [None EXCEPT !.at = IF r = 0 THEN "unlimit" ELSE "store", !.rate = r]
<1>2. Becomes(c, o)
  BY DEF SetRate, Becomes
<1>3. o.at = IF r = 0 THEN "unlimit" ELSE "store"
  BY DEF None
<1> HIDE DEF o
<1>4. op'[c] = o /\ \A p \in Procs \ {c} : op'[p] = op[p]
  BY <1>2, OpsOfProcs DEF Becomes
<1> QED
  BY <1>1, <1>3, <1>4 DEF Setting, Idle, AllIdle

\* The client that is at work is the one the invariant speaks of.
LEMMA TheOneAtWork ==
  ASSUME TypeOK, Sound, NEW c \in Clients, ClientStep(c), ~raced'
  PROVE  Setting(c)
<1>1. ~raced /\ ~Idle(c)
  BY StoresAreBegun, OpsOfProcs DEF ClientStep, Continue, LoadLimiter, StoreLimit, Unlimit,
     ZeroBytes, Configure, ClearCooldown, Idle
<1>2. PICK d \in Clients : Setting(d)
  BY <1>1 DEF Sound, AllIdle
<1>3. d = c
  BY <1>1, <1>2, OpsOfProcs DEF Setting, AllIdle
<1> QED
  BY <1>2, <1>3

LEMMA ClientGoesOn ==
  ASSUME TypeOK, NEW c \in Clients, Setting(c), ClientStep(c)
  PROVE  Setting(c)' \/ (AllIdle(Clients)' /\ (Off' \/ On'))
<1>1. /\ op \in [Procs -> Operation] /\ c \in Procs /\ Clients \subseteq Procs
      /\ op[c].rate \in Nat /\ Workers \subseteq Procs \ {c}
      /\ lr \in 0..Len(limiters) /\ limiters \in Seq(Nat) /\ Len(limiters) \in Nat
      /\ op[c].at \in {"store", "configure", "load", "limit"} => op[c].rate # 0
      /\ op[c].at \in {"unlimit", "zero"} => op[c].rate = 0
      /\ ~op[c].arms
  BY OpsOfProcs DEF TypeOK, OpsOK, FieldsOK, Operation, Procs
<1>2. ASSUME NEW a, Goto(c, a)
      PROVE  /\ op'[c].at = a /\ op'[c].rate = op[c].rate
             /\ a # "idle" => ~Idle(c)' /\ AllIdle(Procs \ {c})'
  BY <1>1, <1>2 DEF Goto, Setting, AllIdle, Idle, Operation
<1>3. Done(c) => AllIdle(Procs)' /\ AllIdle(Clients)'
  BY <1>1, NoneIsIdle DEF Done, Setting, AllIdle, Idle
<1>4. CASE StoreBytes(c)
  <2>1. Goto(c, "configure") /\ bytes' = op[c].rate
    BY <1>4 DEF StoreBytes
  <2> QED
    BY <1>2, <2>1 DEF Setting
<1>5. CASE Configure(c)
  <2>1. /\ Goto(c, "clear") /\ configured' = op[c].rate /\ bytes' = bytes
        /\ op[c].at = "configure"
    BY <1>5 DEF Configure
  <2>2. op'[c].at = "clear" /\ op'[c].rate = op[c].rate /\ ~Idle(c)' /\ AllIdle(Procs \ {c})'
    BY <1>2, <2>1
  <2>3. bytes = op[c].rate /\ op[c].rate # 0
    BY <1>1, <2>1 DEF Setting
  <2> QED
    BY <2>1, <2>2, <2>3 DEF Setting
<1>6. CASE Unlimit(c)
  <2>1. Goto(c, "zero") /\ lr' = 0
    BY <1>6 DEF Unlimit
  <2> QED
    BY <1>2, <2>1 DEF Setting
<1>7. CASE ZeroBytes(c)
  <2>1. Goto(c, "clear") /\ lr' = lr /\ bytes' = 0 /\ op[c].at = "zero"
    BY <1>7 DEF ZeroBytes
  <2> QED
    BY <1>1, <1>2, <2>1 DEF Setting
<1>8. CASE ClearCooldown(c)
  <2>1. /\ op[c].at = "clear" /\ cooldownUntil' = 0 /\ UNCHANGED <<lr, bytes, configured>>
        /\ IF op[c].rate = 0 THEN Done(c) ELSE Goto(c, "load")
    BY <1>8 DEF ClearCooldown
  <2>2. CASE op[c].rate = 0
    BY <1>3, <2>1, <2>2 DEF Setting, Off
  <2>3. CASE op[c].rate # 0
    BY <1>2, <2>1, <2>3 DEF Setting
  <2> QED
    BY <2>2, <2>3
<1>9. CASE LoadLimiter(c)
  <2> DEFINE o == [op[c] EXCEPT !.at = "limit", !.lim = lr]
  <2>1. /\ op[c].at = "load" /\ op' = [op EXCEPT ![c] = o]
        /\ UNCHANGED <<lr, bytes, configured, cooldownUntil>>
    BY <1>1, <1>9 DEF LoadLimiter, fields
  <2>2. o.at = "limit" /\ o.lim = lr /\ o.rate = op[c].rate
    BY <1>1 DEF Operation
  <2> HIDE DEF o
  <2>3. op'[c] = o /\ \A p \in Procs \ {c} : op'[p] = op[p]
    BY <1>1, <2>1
  <2> QED
    BY <1>1, <2>1, <2>2, <2>3 DEF Setting, AllIdle, Idle
<1>10. CASE StoreLimit(c)
  <2> DEFINE r == op[c].rate
  <2>1. /\ op[c].at = "limit" /\ r # 0 /\ r \in Nat /\ op[c].lim = lr /\ bytes = r
        /\ configured = r /\ Done(c) /\ UNCHANGED <<bytes, configured>>
    BY <1>1, <1>10 DEF StoreLimit, Setting
  <2>2. lr' # 0 /\ limiters'[lr'] = r
    <3>1. CASE lr = 0
      <4>1. limiters' = Append(limiters, r) /\ lr' = Len(limiters) + 1
        BY <1>10, <2>1, <3>1 DEF StoreLimit
      <4> QED
        BY <1>1, <2>1, <4>1
    <3>2. CASE lr # 0
      <4>1. limiters' = [limiters EXCEPT ![lr] = r] /\ lr' = lr
        BY <1>10, <2>1, <3>2 DEF StoreLimit
      <4> QED
        BY <1>1, <3>2, <4>1
    <3> QED
      BY <3>1, <3>2
  <2> HIDE DEF r
  <2>3. AllIdle(Procs)' /\ AllIdle(Clients)' /\ \A w \in Workers : op'[w].at = "idle"
    BY <1>1, <1>3, <2>1 DEF AllIdle, Idle
  <2>4. Capped'
    BY <2>1, <2>2, <2>3 DEF Capped
  <2>5. InStep' /\ WayBack' /\ \A w \in Workers : OnTrack(w)'
    BY <2>1, <2>2, <2>3 DEF InStep, Storing, WayBack, Rate, OnTrack
  <2> QED
    BY <2>1, <2>2, <2>3, <2>4, <2>5 DEF On, Tended
<1> QED
  BY <1>4, <1>5, <1>6, <1>7, <1>8, <1>9, <1>10 DEF ClientStep, Continue

-----------------------------------------------------------------------------
LEMMA NextSound == TypeOK /\ Sound /\ [Next]_vars => Sound'
<1> SUFFICES ASSUME TypeOK, Sound, [Next]_vars, ~raced' PROVE Sound'
  BY DEF Sound
<1>1. ASSUME NEW w \in Workers, WorkerActs(w) PROVE Sound'
  <2>1. ~raced /\ AllIdle(Clients) /\ On
    BY <1>1, OnlyWhenOn
  <2>2. On'
    BY <1>1, <2>1, BackOffOn, RestoreOn, StoresOn DEF WorkerActs, WorkerStep
  <2>3. \A p \in Procs \ {w} : op'[p] = op[p]
    BY <1>1, OpsOfProcs DEF WorkerActs, BackOffSignal, ThrottleOK, WorkerStep, Continue,
       StoreBytes, LoadLimiter, StoreLimit, ArmCooldown, TakeCooldown, ReadConfigured,
       CompareBytes, Goto, Done
  <2>4. AllIdle(Clients)'
    BY <2>1, <2>3, OpsOfProcs DEF AllIdle, Idle
  <2> QED
    BY <2>2, <2>4 DEF Sound
<1>2. ASSUME NEW c \in Clients, ClientStep(c) PROVE Sound'
  BY <1>2, TheOneAtWork, ClientGoesOn DEF Sound
<1>3. ASSUME NEW c \in Clients, NEW r \in Rates, SetRate(c, r) PROVE Sound'
  BY <1>3, SetRateAlone DEF Sound
<1>4. CASE Tick \/ UNCHANGED vars
  <2>1. UNCHANGED <<fields, op, raced, crossed>>
    BY <1>4 DEF Tick, vars
  <2> QED
    BY <2>1 DEF Sound, AllIdle, Idle, Off, On, Capped, Tended, InStep, Storing, WayBack,
       Rate, OnTrack, Restoring, BackingOff, Setting, fields
<1> QED
  BY <1>1, <1>2, <1>3, <1>4 DEF Next, WorkerActs

LEMMA InitSound == Init => Sound
<1> SUFFICES ASSUME Init PROVE Sound
  OBVIOUS
<1>1. AllIdle(Procs) /\ AllIdle(Clients) /\ \A w \in Workers : op[w].at = "idle"
  BY NoneIsIdle DEF Init, AllIdle, Idle, Procs
<1>2. CASE bytes = 0
  BY <1>1, <1>2 DEF Init, Sound, Off
<1>3. CASE bytes # 0
  <2>1. bytes \in Nat /\ limiters = <<bytes>> /\ lr = 1 /\ configured = bytes
    BY <1>3, RateAssumption DEF Init
  <2>2. Capped /\ Tended /\ \A w \in Workers : OnTrack(w)
    BY <1>1, <2>1 DEF Capped, Tended, InStep, Storing, WayBack, Rate, OnTrack
  <2> QED
    BY <1>1, <1>3, <2>1, <2>2 DEF Sound, On
<1> QED
  BY <1>2, <1>3

LEMMA SoundAlways == Spec => [](TypeOK /\ Sound)
<1>1. Init => TypeOK /\ Sound
  BY InitType, InitSound
<1>2. TypeOK /\ Sound /\ [Next]_vars => (TypeOK /\ Sound)'
  BY NextType, NextSound
<1> QED
  BY <1>1, <1>2, PTL DEF Spec

\* However many workers get a 429 or find the server healthy again, at
\* whatever moments, unless a SetRate overlapped one of them: the enforced rate
\* stays within the configured one, and as long as no two setBytes have
\* overlapped, an enforced rate that is not the configured one has its way back
\* (BackOffSignal, ThrottleOK, ResetRate, setBytes and SetRate of bucket.go).
THEOREM LimiterIsSound == Spec => []BackOffsAreSound
<1>1. TypeOK /\ Sound => BackOffsAreSound
  <2> SUFFICES ASSUME TypeOK, Sound, Settled, lr # 0 PROVE NeverAbove /\ (~crossed => WayBack)
    BY DEF BackOffsAreSound
  <2>1. On
    <3>1. ~(\E c \in Clients : Setting(c))
      BY DEF Settled, Setting, AllIdle
    <3> QED
      BY <3>1 DEF Settled, Sound, Off
  <2> QED
    BY <2>1 DEF On, Capped, Tended, NeverAbove, Rate
<1> QED
  BY <1>1, SoundAlways, PTL

\* A limiter that a user has switched off is switched on only by a client:
\* the back-offs and restores that begin later find no rate and no cooldown.
THEOREM OffIsKept == Spec => OffStaysOff
<1>1. TypeOK /\ Sound /\ [Next]_vars
        => [~raced /\ lr = 0 /\ lr' # 0 => ~AllIdle(Clients)]_vars
  <2> SUFFICES ASSUME TypeOK, Sound, Next, ~raced, lr = 0, lr' # 0, AllIdle(Clients)
               PROVE  FALSE
    OBVIOUS
  <2>1. AllIdle(Procs)
    <3>1. ~(\E c \in Clients : Setting(c))
      BY DEF Setting, AllIdle
    <3> QED
      BY <3>1 DEF Sound, On, Off
  <2>2. \E p \in Procs : ~Idle(p)
    BY DEF Next, WorkerStep, ClientStep, Continue, Procs, Idle, BackOffSignal, ThrottleOK,
       StoreBytes, LoadLimiter, StoreLimit, ArmCooldown, TakeCooldown, ReadConfigured,
       CompareBytes, Unlimit, ZeroBytes, Configure, ClearCooldown, SetRate, Tick, fields
  <2> QED
    BY <2>1, <2>2 DEF AllIdle
<1> QED
  BY <1>1, SoundAlways, PTL DEF Spec, OffStaysOff
=============================================================================
