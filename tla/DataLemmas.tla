---------------------------- MODULE DataLemmas -----------------------------
(***************************************************************************)
(* Facts about data that several proofs need: queues in which nothing      *)
(* occurs twice, induction over numbers and over the subsets of a finite   *)
(* set, folds and sums, division, and a number dealt out in turn; and what *)
(* the helpers of the Balancer and its RebalanceTargets return.            *)
(***************************************************************************)
EXTENDS Balancer, Naturals, Sequences, FiniteSetsExt, SequenceTheorems, FiniteSetTheorems, TLAPS

-----------------------------------------------------------------------------
(* Queues in which nothing occurs twice: taking the head and putting an     *)
(* element at the end, as the chunk queue and the scheduler's queue do.     *)

LEMMA TailOfInjective ==
  ASSUME NEW S, NEW s \in Seq(S), s # << >>, IsInjective(s)
  PROVE  /\ Head(s) \in Range(s) /\ IsInjective(Tail(s))
         /\ Range(Tail(s)) = Range(s) \ {Head(s)}
<1>1. /\ Tail(s) \in Seq(S) /\ Len(Tail(s)) = Len(s) - 1 /\ Len(s) \in Nat \ {0}
      /\ \A i \in 1..Len(Tail(s)) : Tail(s)[i] = s[i + 1]
      /\ Head(s) = s[1]
  BY HeadTailProperties
<1>2. DOMAIN s = 1..Len(s) /\ DOMAIN Tail(s) = 1..(Len(s) - 1)
  BY <1>1
<1>3. Head(s) \in Range(s)
  BY <1>1, <1>2 DEF Range
<1>4. IsInjective(Tail(s))
  BY <1>1, <1>2 DEF IsInjective
<1>5. ASSUME NEW x \in Range(Tail(s)) PROVE x \in Range(s) \ {Head(s)}
  <2>1. PICK i \in 1..(Len(s) - 1) : x = s[i + 1]
    BY <1>1, <1>2 DEF Range
  <2> QED
    BY <2>1, <1>1, <1>2 DEF Range, IsInjective
<1>6. ASSUME NEW x \in Range(s) \ {Head(s)} PROVE x \in Range(Tail(s))
  <2>1. PICK i \in 1..Len(s) : x = s[i]
    BY <1>2 DEF Range
  <2>2. i - 1 \in 1..(Len(s) - 1)
    BY <2>1, <1>1
  <2>3. Tail(s)[i - 1] = x
    BY <2>1, <2>2, <1>1, <1>2
  <2> QED
    BY <2>2, <2>3, <1>2 DEF Range
<1> QED
  BY <1>3, <1>4, <1>5, <1>6

LEMMA AppendToInjective ==
  ASSUME NEW S, NEW s \in Seq(S), NEW x \in S, IsInjective(s), x \notin Range(s)
  PROVE  IsInjective(Append(s, x)) /\ Range(Append(s, x)) = Range(s) \cup {x}
<1>1. /\ Append(s, x) \in Seq(S) /\ Len(Append(s, x)) = Len(s) + 1 /\ Len(s) \in Nat
      /\ \A i \in 1..Len(s) : Append(s, x)[i] = s[i]
      /\ Append(s, x)[Len(s) + 1] = x
  BY AppendProperties
<1>2. DOMAIN s = 1..Len(s) /\ DOMAIN Append(s, x) = 1..(Len(s) + 1)
  BY <1>1
<1>3. IsInjective(Append(s, x))
  <2> SUFFICES ASSUME NEW i \in 1..(Len(s) + 1), NEW j \in 1..(Len(s) + 1),
                      Append(s, x)[i] = Append(s, x)[j]
               PROVE  i = j
    BY <1>2 DEF IsInjective
  <2>1. CASE i \in 1..Len(s) /\ j \in 1..Len(s)
    BY <2>1, <1>1, <1>2 DEF IsInjective
  <2>2. CASE i = Len(s) + 1 /\ j \in 1..Len(s)
    BY <2>2, <1>1, <1>2 DEF Range
  <2>3. CASE i \in 1..Len(s) /\ j = Len(s) + 1
    BY <2>3, <1>1, <1>2 DEF Range
  <2> QED
    BY <2>1, <2>2, <2>3, <1>1
<1>4. Range(Append(s, x)) \subseteq Range(s) \cup {x}
  <2> SUFFICES ASSUME NEW i \in 1..(Len(s) + 1)
               PROVE  Append(s, x)[i] \in Range(s) \cup {x}
    BY <1>2 DEF Range
  <2>1. CASE i \in 1..Len(s)
    BY <2>1, <1>1, <1>2 DEF Range
  <2> QED
    BY <2>1, <1>1
<1>5. Range(s) \cup {x} \subseteq Range(Append(s, x))
  BY <1>1, <1>2 DEF Range
<1> QED
  BY <1>3, <1>4, <1>5

-----------------------------------------------------------------------------
(* Induction.  The library's induction theorems take an operator; these     *)
(* take a set, and rest on the fact that finite sets are well-founded.      *)

\* Of a set of finite sets that is not empty, some member has no smaller one in it.
LEMMA SmallestSet ==
  ASSUME NEW S, NEW F \in SUBSET FiniteSubsetsOf(S), F # {}
  PROVE  \E x \in F : \A y \in F : y \subseteq x => y = x
<1> DEFINE R == StrictSubsetOrdering(S)
<1>1. IsWellFoundedOn(R, FiniteSubsetsOf(S))
  BY FS_StrictSubsetOrderingWellFounded
<1> HIDE DEF R
<1>2. PICK x \in F : \A y \in F : ~(<<y, x>> \in R)
  BY <1>1, WFMin
<1>3. ASSUME NEW y \in F, y \subseteq x, y # x PROVE FALSE
  <2>1. x \subseteq S /\ y \subseteq S
    BY DEF FiniteSubsetsOf
  <2>2. <<y, x>> \in R
    BY <1>3, <2>1 DEF R, StrictSubsetOrdering
  <2> QED
    BY <1>2, <2>2
<1> QED
  BY <1>3

\* Induction over the subsets of a finite set.
LEMMA EverySubset ==
  ASSUME NEW S, IsFiniteSet(S), NEW P \in SUBSET SUBSET S,
         ASSUME NEW s \in SUBSET S, \A r \in SUBSET s : r # s => r \in P
         PROVE  s \in P
  PROVE  P = SUBSET S
<1> SUFFICES ASSUME (SUBSET S) \ P # {} PROVE FALSE
  OBVIOUS
<1>1. \A s \in SUBSET S : IsFiniteSet(s)
  BY FS_Subset
<1>2. (SUBSET S) \ P \in SUBSET FiniteSubsetsOf(S)
  BY <1>1 DEF FiniteSubsetsOf
<1>3. PICK s \in (SUBSET S) \ P : \A r \in (SUBSET S) \ P : r \subseteq s => r = s
  <2> DEFINE Q == (SUBSET S) \ P
  <2>1. Q \in SUBSET FiniteSubsetsOf(S) /\ Q # {}
    BY <1>2
  <2> HIDE DEF Q
  <2>2. \E s \in Q : \A r \in Q : r \subseteq s => r = s
    BY <2>1, SmallestSet
  <2> QED
    BY <2>2 DEF Q
<1>4. s \in SUBSET S /\ \A r \in SUBSET s : r # s => r \in P
  BY <1>3
<1> QED
  BY <1>3, <1>4

\* Every set of numbers that has one has a least one.
LEMMA LeastNumber ==
  ASSUME NEW T \in SUBSET Nat, T # {}
  PROVE  \E m \in T : \A k \in T : m <= k
<1> DEFINE F == {1..n : n \in T}
<1>1. \A n \in T : IsFiniteSet(1..n) /\ 1..n \subseteq Nat
  BY FS_Interval
<1>2. F \in SUBSET FiniteSubsetsOf(Nat) /\ F # {}
  BY <1>1 DEF FiniteSubsetsOf
<1> HIDE DEF F
<1>3. \E x \in F : \A y \in F : y \subseteq x => y = x
  BY <1>2, SmallestSet
<1> USE DEF F
<1>4. PICK m \in T : \A y \in F : y \subseteq 1..m => y = 1..m
  BY <1>3
<1>5. ASSUME NEW k \in T, ~(m <= k) PROVE FALSE
  <2>1. 1..k \subseteq 1..m /\ 1..k # 1..m
    BY <1>5
  <2> QED
    BY <1>4, <2>1
<1> QED
  BY <1>5

\* Induction over the numbers.
LEMMA EveryNumber ==
  ASSUME NEW T \in SUBSET Nat, 0 \in T, \A n \in T : n + 1 \in T
  PROVE  T = Nat
<1> SUFFICES ASSUME Nat \ T # {} PROVE FALSE
  OBVIOUS
<1>1. PICK m \in Nat \ T : \A k \in Nat \ T : m <= k
  BY LeastNumber
<1>2. m # 0 /\ m - 1 \in Nat /\ ~(m <= m - 1)
  OBVIOUS
<1>3. m - 1 \in T /\ (m - 1) + 1 = m
  BY <1>1, <1>2
<1> QED
  BY <1>3

\* A finite set of numbers that has one has a greatest one.
LEMMA GreatestNumber ==
  ASSUME NEW n \in Nat, NEW T \in SUBSET (0..n), T # {}
  PROVE  Max(T) \in T /\ \A k \in T : k <= Max(T)
<1> DEFINE U == {u \in 0..n : \A k \in T : k <= u}
<1>1. U \in SUBSET Nat /\ n \in U
  OBVIOUS
<1>2. PICK u \in U : \A v \in U : u <= v
  BY <1>1, LeastNumber
<1>3. u \in T
  <2> SUFFICES ASSUME u \notin T PROVE FALSE
    OBVIOUS
  <2>1. u # 0
    <3>1. PICK x \in T : x \in 0..n /\ x <= u
      BY <1>2
    <3>2. x # u
      OBVIOUS
    <3> QED
      BY <3>1, <3>2
  <2>2. u - 1 \in U
    BY <1>2, <2>1
  <2> QED
    BY <1>2, <2>2
<1>4. \E x \in T : \A y \in T : x >= y
  BY <1>2, <1>3
<1>5. Max(T) \in T /\ \A y \in T : Max(T) >= y
  BY <1>4 DEF Max
<1> QED
  BY <1>5

-----------------------------------------------------------------------------
(* A fold over the subsets of a finite set is what its equation says.       *)

IsFold(h, S, base, pick, step) ==
  h = [s \in SUBSET S |-> IF s = {} THEN base ELSE step[pick[s]][h[s \ {pick[s]}]]]

\* Folds agree where both are defined.
LEMMA FoldsAgree ==
  ASSUME NEW S, IsFiniteSet(S), NEW R \in SUBSET S, NEW base, NEW pick, NEW step, NEW g, NEW h,
         \A s \in SUBSET S : s # {} => pick[s] \in s,
         IsFold(g, R, base, pick, step), IsFold(h, S, base, pick, step)
  PROVE  \A s \in SUBSET R : g[s] = h[s]
<1> DEFINE P == {s \in SUBSET R : g[s] = h[s]}
<1>1. IsFiniteSet(R)
  BY FS_Subset
<1>2. ASSUME NEW s \in SUBSET R, \A r \in SUBSET s : r # s => r \in P
      PROVE  s \in P
  <2>1. CASE s = {}
    BY <2>1 DEF IsFold
  <2>2. CASE s # {}
    <3>1. pick[s] \in s
      BY <2>2
    <3> DEFINE r == s \ {pick[s]}
    <3>2. r \in P
      BY <1>2, <3>1
    <3>3. g[s] = step[pick[s]][g[r]] /\ h[s] = step[pick[s]][h[r]]
      BY <2>2 DEF IsFold
    <3> QED
      BY <3>2, <3>3
  <2> QED
    BY <2>1, <2>2
<1> HIDE DEF P
<1>3. P = SUBSET R
  <2>1. P \in SUBSET SUBSET R
    BY DEF P
  <2> QED
    BY <1>1, <1>2, <2>1, EverySubset
<1> QED
  BY <1>3 DEF P

LEMMA FoldExists ==
  ASSUME NEW S, IsFiniteSet(S), NEW base, NEW pick, NEW step,
         \A s \in SUBSET S : s # {} => pick[s] \in s
  PROVE  \E h : IsFold(h, S, base, pick, step)
<1> DEFINE P == {s \in SUBSET S : \E h : IsFold(h, s, base, pick, step)}
           G(s) == CHOOSE h : IsFold(h, s, base, pick, step)
<1>1. \A s \in SUBSET S : IsFiniteSet(s)
  BY FS_Subset
<1>2. ASSUME NEW s \in SUBSET S, \A r \in SUBSET s : r # s => r \in P
      PROVE  s \in P
  <2>1. ASSUME NEW r \in SUBSET s, r # s PROVE IsFold(G(r), r, base, pick, step)
    BY <1>2, <2>1
  <2> HIDE DEF G
  <2> DEFINE last == s \ {pick[s]}
             h == [r \in SUBSET s |-> IF r # s THEN G(r)[r]
                                      ELSE IF s = {} THEN base ELSE step[pick[s]][G(last)[last]]]
  <2>2. ASSUME NEW r \in SUBSET s
        PROVE  h[r] = IF r = {} THEN base ELSE step[pick[r]][h[r \ {pick[r]}]]
    <3>1. CASE r = {}
      BY <2>1, <3>1 DEF IsFold
    <3>2. CASE r # {} /\ r = s
      <4>1. last # s /\ last \in SUBSET s
        BY <3>2
      <4> QED
        BY <3>2, <4>1
    <3>3. CASE r # {} /\ r # s
      <4> DEFINE q == r \ {pick[r]}
      <4>1. pick[r] \in r /\ q \in SUBSET r /\ q \in SUBSET s /\ q # s
        BY <3>3
      <4>2. h[r] = G(r)[r] /\ h[q] = G(q)[q]
        BY <3>3, <4>1
      <4>3. G(r)[r] = step[pick[r]][G(r)[q]]
        <5> DEFINE gr == G(r)
        <5>1. IsFold(gr, r, base, pick, step)
          BY <2>1, <3>3
        <5> HIDE DEF gr
        <5>2. gr[r] = step[pick[r]][gr[q]]
          BY <3>3, <5>1 DEF IsFold
        <5> QED
          BY <5>2 DEF gr
      <4>4. IsFold(G(q), q, base, pick, step) /\ IsFold(G(r), r, base, pick, step)
        BY <2>1, <3>3, <4>1
      <4>5. \A x \in SUBSET r : x # {} => pick[x] \in x
        OBVIOUS
      <4>6. G(q)[q] = G(r)[q]
        <5> DEFINE gq == G(q)
                   gr == G(r)
        <5>1. IsFold(gq, q, base, pick, step) /\ IsFold(gr, r, base, pick, step) /\ IsFiniteSet(r)
          BY <1>1, <4>4
        <5> HIDE DEF q, gq, gr
        <5>2. \A x \in SUBSET q : gq[x] = gr[x]
          BY <4>1, <4>5, <5>1, FoldsAgree
        <5> QED
          BY <5>2 DEF gq, gr
      <4> QED
        BY <3>3, <4>2, <4>3, <4>6
    <3> QED
      BY <3>1, <3>2, <3>3
  <2>3. IsFold(h, s, base, pick, step)
    BY <2>2 DEF IsFold
  <2> QED
    BY <2>3
<1> HIDE DEF P
<1>3. P = SUBSET S
  <2>1. P \in SUBSET SUBSET S
    BY DEF P
  <2> QED
    BY <1>2, <2>1, EverySubset
<1> QED
  BY <1>3 DEF P

\* A fold stays where its steps stay.
LEMMA FoldIn ==
  ASSUME NEW S, IsFiniteSet(S), NEW V, NEW base \in V, NEW pick, NEW step, NEW h,
         \A s \in SUBSET S : s # {} => pick[s] \in s,
         \A x \in S : \A v \in V : step[x][v] \in V,
         IsFold(h, S, base, pick, step)
  PROVE  h \in [SUBSET S -> V]
<1> DEFINE P == {s \in SUBSET S : h[s] \in V}
<1>1. ASSUME NEW s \in SUBSET S, \A r \in SUBSET s : r # s => r \in P
      PROVE  s \in P
  <2>1. CASE s = {}
    BY <2>1 DEF IsFold
  <2>2. CASE s # {}
    <3>1. pick[s] \in s /\ s \ {pick[s]} \in P
      BY <1>1, <2>2
    <3>2. h[s] = step[pick[s]][h[s \ {pick[s]}]]
      BY <2>2 DEF IsFold
    <3> QED
      BY <3>1, <3>2
  <2> QED
    BY <2>1, <2>2
<1> HIDE DEF P
<1>2. P = SUBSET S
  <2>1. P \in SUBSET SUBSET S
    BY DEF P
  <2> QED
    BY <1>1, <2>1, EverySubset
<1> QED
  BY <1>2 DEF P, IsFold

-----------------------------------------------------------------------------
(* Sums over a finite set, which a fold defines for any order of its members. *)

\* The equation of a sum over the subsets of S.
SumsUp(h, f, S) ==
  h = [s \in SUBSET S |->
         IF s = {} THEN 0 ELSE f[CHOOSE x \in s : TRUE] + h[s \ {CHOOSE x \in s : TRUE}]]

LEMMA SumsUpTyped ==
  ASSUME NEW S, IsFiniteSet(S), NEW f, \A x \in S : f[x] \in Nat, NEW h, SumsUp(h, f, S)
  PROVE  h \in [SUBSET S -> Nat]
<1> DEFINE P == {s \in SUBSET S : h[s] \in Nat}
<1>1. ASSUME NEW s \in SUBSET S, \A r \in SUBSET s : r # s => r \in P
      PROVE  s \in P
  <2>1. CASE s = {}
    BY <2>1 DEF SumsUp
  <2>2. CASE s # {}
    <3>1. PICK p : p = CHOOSE x \in s : TRUE
      OBVIOUS
    <3>2. p \in s /\ s \ {p} \in P
      BY <1>1, <2>2, <3>1
    <3>3. h[s] = f[p] + h[s \ {p}]
      BY <2>2, <3>1 DEF SumsUp
    <3> QED
      BY <3>2, <3>3
  <2> QED
    BY <2>1, <2>2
<1> HIDE DEF P
<1>2. P = SUBSET S
  <2>1. P \in SUBSET SUBSET S
    BY DEF P
  <2> QED
    BY <1>1, <2>1, EverySubset
<1> QED
  BY <1>2 DEF P, SumsUp

\* The sum does not depend on the order in which its terms are taken.
LEMMA SumsUpAnyOrder ==
  ASSUME NEW S, IsFiniteSet(S), NEW f, \A x \in S : f[x] \in Nat, NEW h, SumsUp(h, f, S)
  PROVE  \A s \in SUBSET S : \A x \in s : h[s] = f[x] + h[s \ {x}]
<1> DEFINE P == {s \in SUBSET S : \A x \in s : h[s] = f[x] + h[s \ {x}]}
<1>1. h \in [SUBSET S -> Nat]
  BY SumsUpTyped
<1>2. ASSUME NEW s \in SUBSET S, \A r \in SUBSET s : r # s => r \in P
      PROVE  s \in P
  <2> SUFFICES ASSUME NEW x \in s PROVE h[s] = f[x] + h[s \ {x}]
    OBVIOUS
  <2>1. PICK p : p = CHOOSE y \in s : TRUE
    OBVIOUS
  <2>2. p \in s /\ h[s] = f[p] + h[s \ {p}]
    BY <2>1 DEF SumsUp
  <2>3. CASE x = p
    BY <2>2, <2>3
  <2>4. CASE x # p
    <3> DEFINE both == s \ {p, x}
    <3>1. s \ {p} \in P /\ x \in s \ {p} /\ (s \ {p}) \ {x} = both
      BY <1>2, <2>2, <2>4
    <3>2. s \ {x} \in P /\ p \in s \ {x} /\ (s \ {x}) \ {p} = both
      BY <1>2, <2>2, <2>4
    <3>3. h[s \ {p}] = f[x] + h[both] /\ h[s \ {x}] = f[p] + h[both]
      BY <3>1, <3>2
    <3>4. f[x] \in Nat /\ f[p] \in Nat /\ h[both] \in Nat
      BY <1>1, <2>2
    <3> HIDE DEF both, P
    <3> QED
      BY <2>2, <3>3, <3>4
  <2> QED
    BY <2>3, <2>4
<1> HIDE DEF P
<1>3. P = SUBSET S
  <2>1. P \in SUBSET SUBSET S
    BY DEF P
  <2> QED
    BY <1>2, <2>1, EverySubset
<1> QED
  BY <1>3 DEF P

\* A sum over a subset is the same whichever set it is taken in.
LEMMA SumsUpAgree ==
  ASSUME NEW S, IsFiniteSet(S), NEW R \in SUBSET S, NEW f, NEW g, NEW h, NEW k,
         \A x \in R : f[x] = g[x], SumsUp(h, f, S), SumsUp(k, g, R)
  PROVE  h[R] = k[R]
<1> DEFINE P == {s \in SUBSET R : h[s] = k[s]}
<1>1. IsFiniteSet(R)
  BY FS_Subset
<1>2. ASSUME NEW s \in SUBSET R, \A r \in SUBSET s : r # s => r \in P
      PROVE  s \in P
  <2>1. CASE s = {}
    BY <2>1 DEF SumsUp
  <2>2. CASE s # {}
    <3>1. PICK p : p = CHOOSE x \in s : TRUE
      OBVIOUS
    <3>2. p \in s /\ s \ {p} \in P /\ f[p] = g[p] /\ s \in SUBSET S
      BY <1>2, <2>2, <3>1
    <3>3. h[s] = f[p] + h[s \ {p}] /\ k[s] = g[p] + k[s \ {p}]
      BY <2>2, <3>1, <3>2 DEF SumsUp
    <3> QED
      BY <3>2, <3>3
  <2> QED
    BY <2>1, <2>2
<1> HIDE DEF P
<1>3. P = SUBSET R
  <2>1. P \in SUBSET SUBSET R
    BY DEF P
  <2> QED
    BY <1>1, <1>2, <2>1, EverySubset
<1> QED
  BY <1>3 DEF P

LEMMA SumsUpExists ==
  ASSUME NEW S, IsFiniteSet(S), NEW f, \A x \in S : f[x] \in Nat
  PROVE  \E h : SumsUp(h, f, S)
<1> DEFINE pick == [s \in SUBSET S |-> CHOOSE x \in s : TRUE]
           step == [x \in S |-> [v \in Nat |-> f[x] + v]]
           base == 0
<1>1. \A s \in SUBSET S : s # {} => pick[s] \in s
  OBVIOUS
<1>2. \A x \in S : \A v \in Nat : step[x][v] \in Nat
  OBVIOUS
<1>3. PICK h : IsFold(h, S, base, pick, step)
  <2> HIDE DEF pick, step, base
  <2> QED
    BY <1>1, FoldExists
<1>4. h \in [SUBSET S -> Nat]
  <2> DEFINE V == Nat
  <2>1. base \in V /\ \A x \in S : \A v \in V : step[x][v] \in V
    BY <1>2
  <2> HIDE DEF pick, step, base, V
  <2>2. h \in [SUBSET S -> V]
    BY <1>1, <1>3, <2>1, FoldIn
  <2> QED
    BY <2>2 DEF V
<1>5. ASSUME NEW s \in SUBSET S, s # {}
      PROVE  step[pick[s]][h[s \ {pick[s]}]]
               = f[CHOOSE x \in s : TRUE] + h[s \ {CHOOSE x \in s : TRUE}]
  <2>1. pick[s] = CHOOSE x \in s : TRUE
    OBVIOUS
  <2>2. pick[s] \in S /\ h[s \ {pick[s]}] \in Nat
    BY <1>1, <1>4, <1>5
  <2> QED
    BY <2>1, <2>2
<1>6. SumsUp(h, f, S)
  <2> HIDE DEF pick, step
  <2> QED
    BY <1>3, <1>5 DEF SumsUp, IsFold
<1> QED
  BY <1>6

LEMMA SumIsSumsUp ==
  ASSUME NEW S, IsFiniteSet(S), NEW f, \A x \in S : f[x] \in Nat
  PROVE  \E h : SumsUp(h, f, S) /\ SumFunctionOnSet(f, S) = h[S]
<1> DEFINE Eq(h) == h = [s \in SUBSET S |->
         IF s = {} THEN 0 ELSE f[CHOOSE x \in s : TRUE] + h[s \ {CHOOSE x \in s : TRUE}]]
<1>1. SumFunctionOnSet(f, S) = (CHOOSE h : Eq(h))[S]
  BY DEF SumFunctionOnSet, FoldFunctionOnSet, MapThenFoldSet
<1>2. \E h : Eq(h)
  <2>1. \E h : SumsUp(h, f, S)
    BY SumsUpExists
  <2> QED
    BY <2>1 DEF SumsUp
<1>3. Eq(CHOOSE h : Eq(h))
  BY <1>2
<1> QED
  BY <1>1, <1>3 DEF SumsUp

\* What a sum is, element by element.
LEMMA SumOfNone == ASSUME NEW f PROVE SumFunctionOnSet(f, {}) = 0
<1>1. PICK h : SumsUp(h, f, {}) /\ SumFunctionOnSet(f, {}) = h[{}]
  <2>1. IsFiniteSet({}) /\ \A x \in {} : f[x] \in Nat
    BY FS_EmptySet
  <2> QED
    BY <2>1, SumIsSumsUp
<1> QED
  BY <1>1 DEF SumsUp

LEMMA SumWithout ==
  ASSUME NEW S, IsFiniteSet(S), NEW f, \A x \in S : f[x] \in Nat
  PROVE  /\ SumFunctionOnSet(f, S) \in Nat
         /\ \A x \in S : /\ SumFunctionOnSet(f, S \ {x}) \in Nat
                         /\ SumFunctionOnSet(f, S) = f[x] + SumFunctionOnSet(f, S \ {x})
<1>1. PICK h : SumsUp(h, f, S) /\ SumFunctionOnSet(f, S) = h[S]
  BY SumIsSumsUp
<1>2. h \in [SUBSET S -> Nat]
  BY <1>1, SumsUpTyped
<1>3. ASSUME NEW x \in S
      PROVE  SumFunctionOnSet(f, S \ {x}) = h[S \ {x}] /\ h[S] = f[x] + h[S \ {x}]
  <2> DEFINE R == S \ {x}
  <2>1. R \in SUBSET S /\ IsFiniteSet(R) /\ \A y \in R : f[y] \in Nat
    BY FS_Subset
  <2> HIDE DEF R
  <2>2. PICK k : SumsUp(k, f, R) /\ SumFunctionOnSet(f, R) = k[R]
    BY <2>1, SumIsSumsUp
  <2>3. h[R] = k[R]
    BY <1>1, <2>1, <2>2, SumsUpAgree
  <2>4. h[S] = f[x] + h[S \ {x}]
    BY <1>1, <1>3, SumsUpAnyOrder
  <2> QED
    BY <2>2, <2>3, <2>4 DEF R
<1> QED
  BY <1>1, <1>2, <1>3

LEMMA SumCongruent ==
  ASSUME NEW S, IsFiniteSet(S), NEW f, NEW g, \A x \in S : f[x] \in Nat /\ g[x] = f[x]
  PROVE  SumFunctionOnSet(g, S) = SumFunctionOnSet(f, S)
<1>1. S \in SUBSET S /\ \A x \in S : f[x] \in Nat /\ g[x] \in Nat
  OBVIOUS
<1>2. PICK h : SumsUp(h, f, S) /\ SumFunctionOnSet(f, S) = h[S]
  BY <1>1, SumIsSumsUp
<1>3. PICK k : SumsUp(k, g, S) /\ SumFunctionOnSet(g, S) = k[S]
  BY <1>1, SumIsSumsUp
<1>4. h[S] = k[S]
  BY <1>1, <1>2, <1>3, SumsUpAgree
<1> QED
  BY <1>2, <1>3, <1>4

\* A sum of sums, term by term, and a sum that is not less term by term.
LEMMA SumOfSums ==
  ASSUME NEW S, IsFiniteSet(S), NEW f, NEW g, NEW e,
         \A x \in S : f[x] \in Nat /\ g[x] \in Nat /\ e[x] = f[x] + g[x]
  PROVE  SumFunctionOnSet(e, S) = SumFunctionOnSet(f, S) + SumFunctionOnSet(g, S)
<1> DEFINE F(s) == SumFunctionOnSet(f, s)
           G(s) == SumFunctionOnSet(g, s)
           E(s) == SumFunctionOnSet(e, s)
           P == {s \in SUBSET S : E(s) = F(s) + G(s)}
<1>1. ASSUME NEW s \in SUBSET S
      PROVE  /\ IsFiniteSet(s)
             /\ F(s) \in Nat /\ \A x \in s : F(s \ {x}) \in Nat /\ F(s) = f[x] + F(s \ {x})
             /\ G(s) \in Nat /\ \A x \in s : G(s \ {x}) \in Nat /\ G(s) = g[x] + G(s \ {x})
             /\ E(s) \in Nat /\ \A x \in s : E(s \ {x}) \in Nat /\ E(s) = e[x] + E(s \ {x})
  <2>1. IsFiniteSet(s) /\ \A x \in s : f[x] \in Nat
    BY FS_Subset
  <2>2. \A x \in s : g[x] \in Nat
    OBVIOUS
  <2>3. \A x \in s : e[x] \in Nat
    OBVIOUS
  <2>4. F(s) \in Nat /\ \A x \in s : F(s \ {x}) \in Nat /\ F(s) = f[x] + F(s \ {x})
    BY <2>1, SumWithout
  <2>5. G(s) \in Nat /\ \A x \in s : G(s \ {x}) \in Nat /\ G(s) = g[x] + G(s \ {x})
    BY <2>1, <2>2, SumWithout
  <2>6. E(s) \in Nat /\ \A x \in s : E(s \ {x}) \in Nat /\ E(s) = e[x] + E(s \ {x})
    BY <2>1, <2>3, SumWithout
  <2> QED
    BY <2>1, <2>4, <2>5, <2>6
<1>2. F({}) = 0 /\ G({}) = 0 /\ E({}) = 0
  BY SumOfNone
<1> HIDE DEF F, G, E
<1>3. ASSUME NEW s \in SUBSET S, \A r \in SUBSET s : r # s => r \in P
      PROVE  s \in P
  <2>1. CASE s = {}
    BY <1>2, <2>1
  <2>2. CASE s # {}
    <3>1. PICK x \in s : TRUE
      BY <2>2
    <3>2. E(s \ {x}) = F(s \ {x}) + G(s \ {x})
      BY <1>3, <3>1
    <3>3. f[x] \in Nat /\ g[x] \in Nat /\ e[x] = f[x] + g[x]
      OBVIOUS
    <3>4. /\ F(s \ {x}) \in Nat /\ F(s) = f[x] + F(s \ {x})
          /\ G(s \ {x}) \in Nat /\ G(s) = g[x] + G(s \ {x})
          /\ E(s) = e[x] + E(s \ {x})
      BY <1>1
    <3>5. E(s) = F(s) + G(s)
      BY <3>2, <3>3, <3>4
    <3> QED
      BY <3>5
  <2> QED
    BY <2>1, <2>2
<1> HIDE DEF P
<1>4. P = SUBSET S
  <2>1. P \in SUBSET SUBSET S
    BY DEF P
  <2> QED
    BY <1>3, <2>1, EverySubset
<1> QED
  BY <1>4 DEF P, E, F, G

LEMMA SumOfEqual ==
  ASSUME NEW S, IsFiniteSet(S), NEW f, NEW c \in Nat, \A x \in S : f[x] = c
  PROVE  SumFunctionOnSet(f, S) = Cardinality(S) * c
<1> DEFINE F(s) == SumFunctionOnSet(f, s)
           P == {s \in SUBSET S : F(s) = Cardinality(s) * c}
<1>1. ASSUME NEW s \in SUBSET S
      PROVE  IsFiniteSet(s) /\ \A x \in s : F(s \ {x}) \in Nat /\ F(s) = f[x] + F(s \ {x})
  <2>1. IsFiniteSet(s) /\ \A x \in s : f[x] \in Nat
    BY FS_Subset
  <2> QED
    BY <2>1, SumWithout
<1>2. F({}) = 0
  BY SumOfNone
<1> HIDE DEF F
<1>3. ASSUME NEW s \in SUBSET S, \A r \in SUBSET s : r # s => r \in P
      PROVE  s \in P
  <2>1. CASE s = {}
    <3>1. Cardinality(s) = 0
      BY <2>1, FS_EmptySet
    <3> QED
      BY <1>2, <2>1, <3>1
  <2>2. CASE s # {}
    <3>1. PICK x \in s : TRUE
      BY <2>2
    <3>2. F(s \ {x}) = Cardinality(s \ {x}) * c
      BY <1>3, <3>1
    <3>3. IsFiniteSet(s \ {x}) /\ Cardinality(s \ {x}) = Cardinality(s) - 1
      BY <1>1, FS_RemoveElement
    <3>4. Cardinality(s) \in Nat /\ Cardinality(s \ {x}) \in Nat
      BY <1>1, <3>3, FS_CardinalityType
    <3>5. F(s) = c + Cardinality(s \ {x}) * c
      BY <1>1, <3>2
    <3>6. ASSUME NEW m \in Nat, NEW n \in Nat, m = n - 1 PROVE c + m * c = n * c
      BY <3>6
    <3>7. F(s) = Cardinality(s) * c
      BY <3>3, <3>4, <3>5, <3>6
    <3> QED
      BY <3>7
  <2> QED
    BY <2>1, <2>2
<1> HIDE DEF P
<1>4. P = SUBSET S
  <2>1. P \in SUBSET SUBSET S
    BY DEF P
  <2> QED
    BY <1>3, <2>1, EverySubset
<1> QED
  BY <1>4 DEF P, F

\* A sum is not less if no term is.
LEMMA SumGrows ==
  ASSUME NEW S, IsFiniteSet(S), NEW f, NEW g,
         \A x \in S : f[x] \in Nat /\ g[x] \in Nat /\ f[x] <= g[x]
  PROVE  /\ SumFunctionOnSet(f, S) \in Nat /\ SumFunctionOnSet(g, S) \in Nat
         /\ SumFunctionOnSet(f, S) <= SumFunctionOnSet(g, S)
<1> DEFINE e == [x \in S |-> g[x] - f[x]]
<1>1. \A x \in S : e[x] \in Nat /\ g[x] = f[x] + e[x]
  OBVIOUS
<1> HIDE DEF e
<1>2. SumFunctionOnSet(g, S) = SumFunctionOnSet(f, S) + SumFunctionOnSet(e, S)
  BY <1>1, SumOfSums
<1>3. SumFunctionOnSet(f, S) \in Nat /\ SumFunctionOnSet(e, S) \in Nat
  <2>1. \A x \in S : f[x] \in Nat
    OBVIOUS
  <2>2. \A x \in S : e[x] \in Nat
    BY <1>1
  <2> QED
    BY <2>1, <2>2, SumWithout
<1> QED
  BY <1>2, <1>3

\* A sum does not depend on what its terms are numbered by.
OneToOne(b, S, T) ==
  /\ b \in [S -> T] /\ \A x, y \in S : b[x] = b[y] => x = y
  /\ \A y \in T : \E x \in S : b[x] = y

LEMMA SumReindexed ==
  ASSUME NEW S, IsFiniteSet(S), NEW T, IsFiniteSet(T), NEW b, OneToOne(b, S, T),
         NEW f, \A y \in T : f[y] \in Nat, NEW g, \A x \in S : g[x] = f[b[x]]
  PROVE  SumFunctionOnSet(g, S) = SumFunctionOnSet(f, T)
<1> USE DEF OneToOne
<1> DEFINE Img(s) == {b[x] : x \in s}
           G(s) == SumFunctionOnSet(g, s)
           F(s) == SumFunctionOnSet(f, s)
           P == {s \in SUBSET S : G(s) = F(Img(s))}
<1>1. ASSUME NEW s \in SUBSET S
      PROVE  /\ \A x \in s : G(s) = g[x] + G(s \ {x})
             /\ \A x \in s : F(Img(s)) = f[b[x]] + F(Img(s) \ {b[x]})
  <2> DEFINE I == Img(s)
  <2>1. IsFiniteSet(s) /\ \A x \in s : g[x] \in Nat
    BY FS_Subset
  <2>2. I \in SUBSET T /\ \A x \in s : b[x] \in I
    OBVIOUS
  <2> HIDE DEF I
  <2>3. IsFiniteSet(I) /\ \A y \in I : f[y] \in Nat
    BY <2>2, FS_Subset
  <2>4. \A x \in s : G(s) = g[x] + G(s \ {x})
    BY <2>1, SumWithout
  <2>5. \A y \in I : F(I) = f[y] + F(I \ {y})
    BY <2>3, SumWithout
  <2> HIDE DEF F, G
  <2>6. \A x \in s : F(I) = f[b[x]] + F(I \ {b[x]})
    BY <2>2, <2>5
  <2> QED
    BY <2>4, <2>6 DEF I
<1>2. \A s \in SUBSET S : \A x \in s : Img(s \ {x}) = Img(s) \ {b[x]}
  OBVIOUS
<1>3. G({}) = 0 /\ F({}) = 0 /\ Img({}) = {}
  BY SumOfNone
<1>4. Img(S) = T
  OBVIOUS
<1> HIDE DEF G, F, Img
<1>5. ASSUME NEW s \in SUBSET S, \A r \in SUBSET s : r # s => r \in P
      PROVE  s \in P
  <2>1. CASE s = {}
    BY <1>3, <2>1
  <2>2. CASE s # {}
    <3>1. PICK x \in s : TRUE
      BY <2>2
    <3>2. G(s \ {x}) = F(Img(s \ {x}))
      BY <1>5, <3>1
    <3>3. Img(s \ {x}) = Img(s) \ {b[x]} /\ g[x] = f[b[x]]
      BY <1>2
    <3>4. G(s) = g[x] + G(s \ {x}) /\ F(Img(s)) = f[b[x]] + F(Img(s) \ {b[x]})
      BY <1>1
    <3> QED
      BY <3>2, <3>3, <3>4
  <2>3. G(s) = F(Img(s))
    BY <2>1, <2>2
  <2> QED
    BY <2>3
<1> HIDE DEF P
<1>6. P = SUBSET S
  <2>1. P \in SUBSET SUBSET S
    BY DEF P
  <2>2. \A s \in SUBSET S : (\A r \in SUBSET s : r # s => r \in P) => s \in P
    BY <1>5
  <2> HIDE DEF OneToOne
  <2> QED
    BY <2>1, <2>2, EverySubset
<1>7. G(S) = F(Img(S))
  <2>1. \A s \in P : G(s) = F(Img(s))
    BY DEF P
  <2>2. S \in P
    BY <1>6
  <2> QED
    BY <2>1, <2>2
<1> QED
  BY <1>4, <1>7 DEF G, F

-----------------------------------------------------------------------------
(* Division.                                                                *)

LEMMA Division ==
  ASSUME NEW n \in Nat, NEW d \in Nat \ {0}
  PROVE  /\ n \div d \in Nat /\ n % d \in 0..(d - 1)
         /\ n = d * (n \div d) + (n % d)
OBVIOUS

LEMMA ProductGrows ==
  ASSUME NEW d \in Nat, NEW p \in Nat, NEW q \in Nat
  PROVE  d * p \in Nat /\ d * (p + 1) = d * p + d /\ (p < q => d * q >= d * p + d)
<1>1. d * p \in Nat /\ d * (p + 1) = d * p + d
  OBVIOUS
<1>2. ASSUME p < q PROVE d * q >= d * p + d
  <2>1. PICK k \in Nat : q = p + 1 + k
    <3>1. q - p - 1 \in Nat /\ q = p + 1 + (q - p - 1)
      BY <1>2
    <3> QED
      BY <3>1
  <2>2. d * q = d * p + d + d * k /\ d * k \in Nat
    BY <2>1
  <2> QED
    BY <1>1, <2>2
<1> QED
  BY <1>1, <1>2

LEMMA OneDivision ==
  ASSUME NEW d \in Nat \ {0}, NEW p \in Nat, NEW q \in Nat, NEW r \in 0..(d - 1), NEW s \in 0..(d - 1),
         d * p + r = d * q + s
  PROVE  p = q /\ r = s
<1>1. d * p \in Nat /\ d * q \in Nat
  BY ProductGrows
<1>2. ~(p < q)
  <2> SUFFICES ASSUME p < q PROVE FALSE
    OBVIOUS
  <2>1. d * q >= d * p + d
    BY ProductGrows
  <2> QED
    BY <1>1, <2>1
<1>3. ~(q < p)
  <2> SUFFICES ASSUME q < p PROVE FALSE
    OBVIOUS
  <2>1. d * p >= d * q + d
    BY ProductGrows
  <2> QED
    BY <1>1, <2>1
<1>4. p = q
  BY <1>2, <1>3
<1> QED
  BY <1>1, <1>4

LEMMA NextDivision ==
  ASSUME NEW n \in Nat, NEW d \in Nat \ {0}
  PROVE  /\ 0 \div d = 0 /\ 0 % d = 0
         /\ (n % d) + 1 < d => (n + 1) \div d = n \div d /\ (n + 1) % d = (n % d) + 1
         /\ (n % d) + 1 = d => (n + 1) \div d = (n \div d) + 1 /\ (n + 1) % d = 0
<1>1. /\ n \div d \in Nat /\ n % d \in 0..(d - 1) /\ n = d * (n \div d) + (n % d)
      /\ (n + 1) \div d \in Nat /\ (n + 1) % d \in 0..(d - 1)
      /\ n + 1 = d * ((n + 1) \div d) + ((n + 1) % d)
      /\ 0 \div d \in Nat /\ 0 % d \in 0..(d - 1) /\ 0 = d * (0 \div d) + (0 % d)
  <2>1. /\ n \div d \in Nat /\ n % d \in 0..(d - 1) /\ n = d * (n \div d) + (n % d)
    BY Division
  <2> DEFINE m == n + 1
             z == 0
  <2>2. m \in Nat /\ z \in Nat
    OBVIOUS
  <2> HIDE DEF m, z
  <2>3. m \div d \in Nat /\ m % d \in 0..(d - 1) /\ m = d * (m \div d) + (m % d)
    BY <2>2, Division
  <2>4. z \div d \in Nat /\ z % d \in 0..(d - 1) /\ z = d * (z \div d) + (z % d)
    BY <2>2, Division
  <2> QED
    BY <2>1, <2>3, <2>4 DEF m, z
<1> DEFINE p == n \div d
           r == n % d
           q == (n + 1) \div d
           s == (n + 1) % d
           e == 0 \div d
           f == 0 % d
<1>3. /\ p \in Nat /\ q \in Nat /\ e \in Nat
      /\ r \in 0..(d - 1) /\ s \in 0..(d - 1) /\ f \in 0..(d - 1)
      /\ n = d * p + r /\ n + 1 = d * q + s /\ 0 = d * e + f
  BY <1>1
<1> HIDE DEF p, r, q, s, e, f
<1>4. e = 0 /\ f = 0
  <2>1. d * 0 + 0 = d * e + f /\ 0 \in 0..(d - 1)
    BY <1>3
  <2> QED
    BY <1>3, <2>1, OneDivision
<1>5. ASSUME r + 1 < d PROVE q = p /\ s = r + 1
  <2>1. r + 1 \in 0..(d - 1) /\ d * p + (r + 1) = d * q + s
    <3>1. d * p \in Nat /\ d * q \in Nat
      BY <1>3, ProductGrows
    <3> QED
      BY <1>3, <1>5, <3>1
  <2> DEFINE t == r + 1
  <2> HIDE DEF t
  <2>2. t \in 0..(d - 1) /\ d * p + t = d * q + s
    BY <2>1 DEF t
  <2>3. p = q /\ t = s
    BY <1>3, <2>2, OneDivision
  <2> QED
    BY <2>3 DEF t
<1>6. ASSUME r + 1 = d PROVE q = p + 1 /\ s = 0
  <2> DEFINE t == p + 1
             z == 0
  <2>1. t \in Nat /\ z \in 0..(d - 1) /\ d * t + z = d * q + s
    <3>1. d * p \in Nat /\ d * q \in Nat /\ d * t = d * p + d
      BY <1>3, ProductGrows
    <3> QED
      BY <1>3, <1>6, <3>1
  <2> HIDE DEF t, z
  <2>2. t = q /\ z = s
    BY <1>3, <2>1, OneDivision
  <2> QED
    BY <2>2 DEF t, z
<1> QED
  BY <1>4, <1>5, <1>6 DEF p, r, q, s, e, f

-----------------------------------------------------------------------------
(* Dealing n connections out, one at a time, to the slots in turn.          *)

LEMMA SumOneMore ==
  ASSUME NEW S, IsFiniteSet(S), NEW f, NEW g, NEW a \in S,
         \A x \in S : f[x] \in Nat /\ g[x] = IF x = a THEN f[x] + 1 ELSE f[x]
  PROVE  SumFunctionOnSet(g, S) = SumFunctionOnSet(f, S) + 1
<1> DEFINE R == S \ {a}
<1>1. IsFiniteSet(R) /\ \A x \in R : f[x] \in Nat /\ g[x] = f[x]
  BY FS_Subset
<1>2. (\A x \in S : f[x] \in Nat) /\ (\A x \in S : g[x] \in Nat)
  OBVIOUS
<1> HIDE DEF R
<1>3. SumFunctionOnSet(g, R) = SumFunctionOnSet(f, R)
  BY <1>1, SumCongruent
<1>4. SumFunctionOnSet(f, R) \in Nat /\ SumFunctionOnSet(f, S) = f[a] + SumFunctionOnSet(f, R)
  BY <1>2, SumWithout DEF R
<1>5. SumFunctionOnSet(g, S) = g[a] + SumFunctionOnSet(g, R)
  BY <1>2, SumWithout DEF R
<1> QED
  BY <1>2, <1>3, <1>4, <1>5

-----------------------------------------------------------------------------
Increasing(s) == \A j, k \in DOMAIN s : j < k => s[j] < s[k]

\* The members of a finite set of numbers in ascending order.
LEMMA AscendingExists ==
  ASSUME NEW n \in Nat, NEW S \in SUBSET (1..n)
  PROVE  /\ IsFiniteSet(S) /\ Cardinality(S) \in Nat
         /\ \E s \in [1..Cardinality(S) -> S] : Increasing(s)
<1> DEFINE T == {m \in Nat : \A U \in SUBSET (1..m) :
                               \E s \in [1..Cardinality(U) -> U] : Increasing(s)}
<1>1. \A m \in Nat : \A U \in SUBSET (1..m) : IsFiniteSet(U) /\ Cardinality(U) \in Nat
  <2> TAKE m \in Nat
  <2> TAKE U \in SUBSET (1..m)
  <2>1. IsFiniteSet(1..m)
    BY FS_Interval
  <2> QED
    BY <2>1, FS_Subset, FS_CardinalityType
<1>2. 0 \in T
  <2> SUFFICES ASSUME NEW U \in SUBSET (1..0)
               PROVE  \E s \in [1..Cardinality(U) -> U] : Increasing(s)
    OBVIOUS
  <2>0. U = {} /\ Cardinality({}) = 0
    <3>1. 1..0 = {}
      OBVIOUS
    <3> QED
      BY <3>1, FS_EmptySet
  <2>1. U = {} /\ Cardinality(U) = 0
    BY <2>0
  <2>2. [i \in 1..0 |-> i] \in [1..Cardinality(U) -> U] /\ Increasing([i \in 1..0 |-> i])
    BY <2>1 DEF Increasing
  <2> QED
    BY <2>2
<1>3. ASSUME NEW m \in T PROVE m + 1 \in T
  <2> SUFFICES ASSUME NEW U \in SUBSET (1..(m + 1))
               PROVE  \E s \in [1..Cardinality(U) -> U] : Increasing(s)
    OBVIOUS
  <2> DEFINE V == U \ {m + 1}
  <2>1. V \in SUBSET (1..m) /\ m \in Nat
    OBVIOUS
  <2>2. PICK s \in [1..Cardinality(V) -> V] : Increasing(s)
    BY <2>1
  <2>3. CASE m + 1 \notin U
    <3>1. V = U
      BY <2>3
    <3> QED
      BY <2>2, <3>1
  <2>4. CASE m + 1 \in U
    <3> DEFINE c == Cardinality(V)
               t == [i \in 1..(c + 1) |-> IF i <= c THEN s[i] ELSE m + 1]
    <3>1. IsFiniteSet(V) /\ c \in Nat /\ m + 1 \notin V /\ U = V \cup {m + 1}
      BY <1>1, <2>1, <2>4
    <3>2. Cardinality(U) = c + 1
      <4> HIDE DEF V
      <4> QED
        BY <3>1, FS_AddElement
    <3>3. \A i \in 1..c : s[i] \in V /\ s[i] \in U /\ s[i] < m + 1 /\ s[i] \in Nat
      <4>1. \A x \in V : x \in U /\ x < m + 1 /\ x \in Nat
        BY <2>1
      <4> HIDE DEF V
      <4> QED
        BY <2>2, <4>1
    <3> HIDE DEF V, c
    <3>4. t \in [1..Cardinality(U) -> U]
      BY <2>4, <3>1, <3>2, <3>3
    <3>5. Increasing(t)
      <4> SUFFICES ASSUME NEW j \in 1..(c + 1), NEW k \in 1..(c + 1), j < k PROVE t[j] < t[k]
        BY DEF Increasing
      <4>1. DOMAIN s = 1..c
        BY <2>2 DEF c
      <4>2. j <= c /\ t[j] = s[j] /\ j \in 1..c
        BY <3>1
      <4>3. CASE k <= c
        BY <2>2, <3>1, <4>1, <4>2, <4>3 DEF Increasing
      <4>4. CASE ~(k <= c)
        BY <3>3, <4>2, <4>4
      <4> QED
        BY <4>3, <4>4
    <3> QED
      BY <3>4, <3>5
  <2> QED
    BY <2>3, <2>4
<1> HIDE DEF T
<1>4. T = Nat
  <2>1. T \in SUBSET Nat
    BY DEF T
  <2> QED
    BY <1>2, <1>3, <2>1, EveryNumber
<1> QED
  BY <1>1, <1>4 DEF T

LEMMA AscendingIsAll ==
  ASSUME NEW S \in SUBSET Nat, IsFiniteSet(S), NEW s \in [1..Cardinality(S) -> S], Increasing(s)
  PROVE  /\ \A j, k \in DOMAIN s : s[j] = s[k] => j = k
         /\ \A x \in S : \E j \in DOMAIN s : s[j] = x
<1> DEFINE n == Cardinality(S)
           D == 1..n
<1>1. n \in Nat
  BY FS_CardinalityType
<1>2. IsFiniteSet(D) /\ Cardinality(D) = n
  <2> HIDE DEF n
  <2> QED
    BY <1>1, FS_Interval
<1>3. \A j, k \in D : s[j] = s[k] => j = k
  <2> SUFFICES ASSUME NEW j \in D, NEW k \in D, s[j] = s[k], j # k PROVE FALSE
    OBVIOUS
  <2>1. j \in Nat /\ k \in Nat /\ (j < k \/ k < j) /\ j \in DOMAIN s /\ k \in DOMAIN s
    <3>1. DOMAIN s = D
      OBVIOUS
    <3> HIDE DEF n
    <3> QED
      BY <1>1, <3>1
  <2>2. s[j] \in Nat
    <3> HIDE DEF n
    <3> QED
      BY <2>1
  <2> HIDE DEF n, D
  <2> QED
    BY <2>1, <2>2 DEF Increasing
<1>4. s \in Injection(D, S)
  BY <1>3 DEF Injection, IsInjective
<1> HIDE DEF D, n
<1>5. s \in Surjection(D, S)
  BY <1>2, <1>4, FS_Injection DEF n
<1> QED
  BY <1>3, <1>5 DEF Surjection, D, n

-----------------------------------------------------------------------------
\* The j-th of d that share n gets n \div d, and one more if it is among the first n % d.
ShareOf(n, d, j) == (n \div d) + IF j <= n % d THEN 1 ELSE 0

\* What the open slots of D get of n.
Dealt(open, n, D) ==
  [i \in D |-> IF \E j \in DOMAIN open : open[j] = i
               THEN ShareOf(n, Len(open), CHOOSE j \in DOMAIN open : open[j] = i) ELSE 0]

LEMMA ShareFacts ==
  ASSUME NEW n \in Nat, NEW d \in Nat \ {0}, NEW j \in 1..d
  PROVE  /\ ShareOf(n, d, j) \in Nat /\ ShareOf(0, d, j) = 0
         /\ ShareOf(n + 1, d, j) = ShareOf(n, d, j) + IF j = (n % d) + 1 THEN 1 ELSE 0
         /\ \A k \in 1..d : j <= k => /\ ShareOf(n, d, k) <= ShareOf(n, d, j)
                                      /\ ShareOf(n, d, j) <= ShareOf(n, d, k) + 1
<1> DEFINE q == n \div d
           r == n % d
           m == n + 1
<1>1. q \in Nat /\ r \in 0..(d - 1)
  BY Division
<1>2. /\ 0 \div d = 0 /\ 0 % d = 0
      /\ r + 1 < d => m \div d = q /\ m % d = r + 1
      /\ r + 1 = d => m \div d = q + 1 /\ m % d = 0
  BY NextDivision
<1>3. ShareOf(n, d, j) = q + IF j <= r THEN 1 ELSE 0
  BY DEF ShareOf
<1>4. ShareOf(0, d, j) = 0
  BY <1>2 DEF ShareOf
<1>5. ShareOf(m, d, j) = (m \div d) + IF j <= m % d THEN 1 ELSE 0
  BY DEF ShareOf
<1>6. \A k \in 1..d : ShareOf(n, d, k) = q + IF k <= r THEN 1 ELSE 0
  BY DEF ShareOf
<1> HIDE DEF q, r, m
<1>7. r + 1 < d \/ r + 1 = d
  BY <1>1
<1>8. ShareOf(m, d, j) = ShareOf(n, d, j) + IF j = r + 1 THEN 1 ELSE 0
  <2>1. CASE r + 1 < d
    BY <1>1, <1>2, <1>3, <1>5, <2>1
  <2>2. CASE r + 1 = d
    BY <1>1, <1>2, <1>3, <1>5, <2>2
  <2> QED
    BY <1>7, <2>1, <2>2
<1>9. \A k \in 1..d : j <= k => /\ ShareOf(n, d, k) <= ShareOf(n, d, j)
                                /\ ShareOf(n, d, j) <= ShareOf(n, d, k) + 1
  BY <1>1, <1>3, <1>6
<1> QED
  BY <1>1, <1>3, <1>4, <1>8, <1>9 DEF m, r

\* open names slots of D, none twice.
Opens(open, D) ==
  /\ Len(open) \in Nat \ {0} /\ DOMAIN open = 1..Len(open)
  /\ \A j \in DOMAIN open : open[j] \in D
  /\ \A j, k \in DOMAIN open : open[j] = open[k] => j = k

LEMMA DealtAt ==
  ASSUME NEW D, NEW open, Opens(open, D), NEW n \in Nat
  PROVE  /\ \A j \in DOMAIN open : Dealt(open, n, D)[open[j]] = ShareOf(n, Len(open), j)
         /\ \A i \in D : (\A j \in DOMAIN open : open[j] # i) => Dealt(open, n, D)[i] = 0
         /\ Dealt(open, n, D) \in [D -> Nat]
<1>1. \A j \in DOMAIN open : (CHOOSE k \in DOMAIN open : open[k] = open[j]) = j
  BY DEF Opens
<1>2. \A j \in DOMAIN open : Dealt(open, n, D)[open[j]] = ShareOf(n, Len(open), j)
  BY <1>1 DEF Dealt, Opens
<1>3. \A i \in D : (\A j \in DOMAIN open : open[j] # i) => Dealt(open, n, D)[i] = 0
  BY DEF Dealt
<1>4. \A j \in DOMAIN open : ShareOf(n, Len(open), j) \in Nat
  BY ShareFacts DEF Opens
<1>5. \A i \in D : Dealt(open, n, D)[i] \in Nat
  BY <1>2, <1>3, <1>4
<1> QED
  BY <1>2, <1>3, <1>5 DEF Dealt

\* One more goes to the next slot in turn.
LEMMA DealtNext ==
  ASSUME NEW D, NEW open, Opens(open, D), NEW n \in Nat
  PROVE  LET turn == open[(n % Len(open)) + 1]
         IN /\ turn \in D
            /\ \A i \in D : Dealt(open, n + 1, D)[i]
                              = Dealt(open, n, D)[i] + IF i = turn THEN 1 ELSE 0
<1> DEFINE d == Len(open)
           p == (n % Len(open)) + 1
           m == n + 1
<1>1. d \in Nat \ {0} /\ DOMAIN open = 1..d /\ p \in 1..d /\ m \in Nat
  BY Division DEF Opens
<1>2. \A j \in 1..d : ShareOf(m, d, j) = ShareOf(n, d, j) + IF j = p THEN 1 ELSE 0
  BY <1>1, ShareFacts
<1>3. /\ \A j \in 1..d : Dealt(open, n, D)[open[j]] = ShareOf(n, d, j)
      /\ \A i \in D : (\A j \in 1..d : open[j] # i) => Dealt(open, n, D)[i] = 0
  BY <1>1, DealtAt
<1>4. /\ \A j \in 1..d : Dealt(open, m, D)[open[j]] = ShareOf(m, d, j)
      /\ \A i \in D : (\A j \in 1..d : open[j] # i) => Dealt(open, m, D)[i] = 0
  <2> HIDE DEF m
  <2> QED
    BY <1>1, DealtAt
<1>5. open[p] \in D /\ \A j \in 1..d : open[j] = open[p] <=> j = p
  BY <1>1 DEF Opens
<1> HIDE DEF d, p, m
<1>6. \A i \in D : Dealt(open, m, D)[i] = Dealt(open, n, D)[i] + IF i = open[p] THEN 1 ELSE 0
  <2> TAKE i \in D
  <2>1. CASE \E j \in 1..d : open[j] = i
    <3>1. PICK j \in 1..d : open[j] = i
      BY <2>1
    <3> QED
      BY <1>2, <1>3, <1>4, <1>5, <3>1
  <2>2. CASE \A j \in 1..d : open[j] # i
    BY <1>1, <1>3, <1>4, <2>2
  <2> QED
    BY <2>1, <2>2
<1> QED
  BY <1>5, <1>6 DEF d, p, m

\* All of it is dealt.
LEMMA DealtSum ==
  ASSUME NEW D, IsFiniteSet(D), NEW open, Opens(open, D), NEW n \in Nat
  PROVE  SumFunctionOnSet(Dealt(open, n, D), D) = n
<1> DEFINE T == {m \in Nat : SumFunctionOnSet(Dealt(open, m, D), D) = m}
<1>1. 0 \in T
  <2> DEFINE f == Dealt(open, 0, D)
             c == 0
  <2>1. \A j \in DOMAIN open : ShareOf(0, Len(open), j) = 0
    BY ShareFacts DEF Opens
  <2>2. \A i \in D : f[i] = c
    BY <2>1, DealtAt
  <2>3. SumFunctionOnSet(f, D) = Cardinality(D) * c /\ Cardinality(D) \in Nat
    <3> HIDE DEF f
    <3>1. c \in Nat
      OBVIOUS
    <3> HIDE DEF c
    <3> QED
      BY <2>2, <3>1, SumOfEqual, FS_CardinalityType
  <2> QED
    BY <2>3
<1>2. ASSUME NEW m \in T PROVE m + 1 \in T
  <2> DEFINE f == Dealt(open, m, D)
             g == Dealt(open, m + 1, D)
  <2>1. m \in Nat
    OBVIOUS
  <2>2. PICK a \in D : \A i \in D : g[i] = f[i] + IF i = a THEN 1 ELSE 0
    <3> DEFINE turn == open[(m % Len(open)) + 1]
    <3>1. turn \in D /\ \A i \in D : Dealt(open, m + 1, D)[i]
                                       = Dealt(open, m, D)[i] + IF i = turn THEN 1 ELSE 0
      BY <2>1, DealtNext
    <3> HIDE DEF turn
    <3> QED
      BY <3>1
  <2>3. \A i \in D : f[i] \in Nat
    BY <2>1, DealtAt
  <2>4. SumFunctionOnSet(f, D) = m
    OBVIOUS
  <2> HIDE DEF f, g, T
  <2>5. \A i \in D : f[i] \in Nat /\ g[i] = IF i = a THEN f[i] + 1 ELSE f[i]
    BY <2>2, <2>3
  <2>6. SumFunctionOnSet(g, D) = SumFunctionOnSet(f, D) + 1
    BY <2>5, SumOneMore
  <2> QED
    BY <2>1, <2>4, <2>6 DEF T, g
<1> HIDE DEF T
<1>3. T = Nat
  <2>1. T \in SUBSET Nat
    BY DEF T
  <2> QED
    BY <1>1, <1>2, <2>1, EveryNumber
<1> QED
  BY <1>3 DEF T

-----------------------------------------------------------------------------
\* What the slots hold when n has been dealt to the open ones, starting from f.
Level(f, open, n, D) == [i \in D |-> f[i] + Dealt(open, n, D)[i]]

LEMMA LevelFacts ==
  ASSUME NEW D, NEW f \in [D -> Nat], NEW open, Opens(open, D), NEW n \in Nat
  PROVE  /\ Level(f, open, n, D) \in [D -> Nat]
         /\ Level(f, open, 0, D) = f
         /\ Level(f, open, n + 1, D)
              = [Level(f, open, n, D) EXCEPT ![open[(n % Len(open)) + 1]] = @ + 1]
<1>1. \A m \in Nat : Dealt(open, m, D) \in [D -> Nat]
  BY DealtAt
<1>2. \A i \in D : Dealt(open, 0, D)[i] = 0
  <2>1. \A j \in DOMAIN open : ShareOf(0, Len(open), j) = 0
    BY ShareFacts DEF Opens
  <2>2. 0 \in Nat
    OBVIOUS
  <2>3. /\ \A j \in DOMAIN open : Dealt(open, 0, D)[open[j]] = ShareOf(0, Len(open), j)
        /\ \A i \in D : (\A j \in DOMAIN open : open[j] # i) => Dealt(open, 0, D)[i] = 0
    BY <2>2, DealtAt
  <2> QED
    BY <2>1, <2>3
<1>3. Level(f, open, 0, D) = f
  BY <1>2 DEF Level
<1>4. PICK g, h : g = Dealt(open, n, D) /\ h = Dealt(open, n + 1, D)
  OBVIOUS
<1>5. g \in [D -> Nat] /\ h \in [D -> Nat]
  <2>1. n + 1 \in Nat
    OBVIOUS
  <2> QED
    BY <1>1, <1>4, <2>1
<1> DEFINE a == open[(n % Len(open)) + 1]
<1>6. a \in D /\ \A i \in D : h[i] = g[i] + IF i = a THEN 1 ELSE 0
  <2>1. a \in D /\ \A i \in D : Dealt(open, n + 1, D)[i]
                                  = Dealt(open, n, D)[i] + IF i = a THEN 1 ELSE 0
    BY DealtNext
  <2> QED
    BY <1>4, <2>1
<1> HIDE DEF a
<1>7. /\ Level(f, open, n, D) = [i \in D |-> f[i] + g[i]]
      /\ Level(f, open, n + 1, D) = [i \in D |-> f[i] + h[i]]
  BY <1>4 DEF Level
<1>8. [i \in D |-> f[i] + g[i]] \in [D -> Nat]
  BY <1>5
<1>9. [i \in D |-> f[i] + h[i]] = [[i \in D |-> f[i] + g[i]] EXCEPT ![a] = @ + 1]
  <2>1. \A i \in D : f[i] + h[i] = IF i = a THEN (f[i] + g[i]) + 1 ELSE f[i] + g[i]
    BY <1>5, <1>6
  <2> QED
    BY <1>6, <2>1
<1> QED
  BY <1>3, <1>7, <1>8, <1>9 DEF a

\* Handing out one at a time, in turn.
InTurn(h, f, open, budget) ==
  h = [n \in 0..budget |->
         IF n = 0 THEN f ELSE [h[n - 1] EXCEPT ![open[((n - 1) % Len(open)) + 1]] = @ + 1]]

LEMMA InTurnExists ==
  ASSUME NEW D, NEW f \in [D -> Nat], NEW open, Opens(open, D), NEW budget \in Nat
  PROVE  \E h : InTurn(h, f, open, budget)
<1> DEFINE h == [n \in 0..budget |-> Level(f, open, n, D)]
<1>1. ASSUME NEW n \in 0..budget
      PROVE  Level(f, open, n, D)
               = IF n = 0 THEN f ELSE [h[n - 1] EXCEPT ![open[((n - 1) % Len(open)) + 1]] = @ + 1]
  <2>1. CASE n = 0
    <3>1. 0 \in Nat
      OBVIOUS
    <3>2. Level(f, open, 0, D) = f
      BY <3>1, LevelFacts
    <3> QED
      BY <2>1, <3>2
  <2>2. CASE n # 0
    <3> DEFINE m == n - 1
    <3>1. m \in Nat /\ m \in 0..budget /\ m + 1 = n
      BY <2>2
    <3>2. h[m] = Level(f, open, m, D)
      BY <3>1
    <3> HIDE DEF m, h
    <3>3. Level(f, open, m + 1, D)
            = [Level(f, open, m, D) EXCEPT ![open[(m % Len(open)) + 1]] = @ + 1]
      BY <3>1, LevelFacts
    <3>4. Level(f, open, n, D) = [h[m] EXCEPT ![open[(m % Len(open)) + 1]] = @ + 1]
      BY <3>1, <3>2, <3>3
    <3> QED
      BY <2>2, <3>4 DEF m
  <2> QED
    BY <2>1, <2>2
<1>2. h = [n \in 0..budget |->
             IF n = 0 THEN f ELSE [h[n - 1] EXCEPT ![open[((n - 1) % Len(open)) + 1]] = @ + 1]]
  <2>1. \A n \in 0..budget : h[n] = Level(f, open, n, D)
    OBVIOUS
  <2>2. h = [n \in 0..budget |-> h[n]]
    OBVIOUS
  <2>3. \A n \in 0..budget :
          h[n] = IF n = 0 THEN f ELSE [h[n - 1] EXCEPT ![open[((n - 1) % Len(open)) + 1]] = @ + 1]
    BY <1>1, <2>1
  <2> HIDE DEF h
  <2> QED
    BY <2>2, <2>3
<1> HIDE DEF h
<1> QED
  BY <1>2 DEF InTurn

LEMMA LevelNext ==
  ASSUME NEW D, NEW f \in [D -> Nat], NEW open, Opens(open, D)
  PROVE  \A n \in Nat : Level(f, open, n + 1, D)
           = [Level(f, open, n, D) EXCEPT ![open[(n % Len(open)) + 1]] = @ + 1]
BY LevelFacts

LEMMA InTurnIs ==
  ASSUME NEW D, NEW f \in [D -> Nat], NEW open, Opens(open, D), NEW budget \in Nat,
         NEW h, InTurn(h, f, open, budget)
  PROVE  h[budget] = Level(f, open, budget, D)
<1>0. \A n \in Nat : Level(f, open, n + 1, D)
           = [Level(f, open, n, D) EXCEPT ![open[(n % Len(open)) + 1]] = @ + 1]
  BY LevelNext
<1> DEFINE T == {n \in Nat : n <= budget => h[n] = Level(f, open, n, D)}
<1>1. 0 \in T
  <2>1. h[0] = f
    BY DEF InTurn
  <2>2. 0 \in Nat
    OBVIOUS
  <2>3. Level(f, open, 0, D) = f
    BY <2>2, LevelFacts
  <2> QED
    BY <2>1, <2>3
<1>2. ASSUME NEW n \in T PROVE n + 1 \in T
  <2> SUFFICES ASSUME n + 1 <= budget PROVE h[n + 1] = Level(f, open, n + 1, D)
    OBVIOUS
  <2> DEFINE m == n + 1
  <2>1. n \in Nat /\ m \in 0..budget /\ m - 1 = n /\ m # 0 /\ h[n] = Level(f, open, n, D)
    OBVIOUS
  <2>2. Level(f, open, m, D)
          = [Level(f, open, n, D) EXCEPT ![open[(n % Len(open)) + 1]] = @ + 1]
    BY <1>0, <2>1
  <2> HIDE DEF T, m
  <2>3. h[m] = [h[m - 1] EXCEPT ![open[((m - 1) % Len(open)) + 1]] = @ + 1]
    BY <2>1 DEF InTurn
  <2> QED
    BY <2>1, <2>2, <2>3 DEF m
<1> HIDE DEF T
<1>3. T = Nat
  <2>1. T \in SUBSET Nat
    BY DEF T
  <2> QED
    BY <1>1, <1>2, <2>1, EveryNumber
<1>4. budget \in T
  BY <1>3
<1> QED
  BY <1>4 DEF T

-----------------------------------------------------------------------------
(* What the helpers of the Balancer return.                                 *)

\* w lists the positions of v.
Lists(w, flags, v, D) ==
  /\ w # <<>> => Opens(w, D)
  /\ w # <<>> <=> \E i \in D : flags[i] = v
  /\ \A i \in D : flags[i] = v <=> \E j \in DOMAIN w : w[j] = i
  /\ Increasing(w)

LEMMA WhereFacts ==
  ASSUME NEW k \in Nat, NEW flags, DOMAIN flags = 1..k, NEW v
  PROVE  /\ Lists(Where(flags, v), flags, v, 1..k)
         /\ Len(Where(flags, v)) \in Nat /\ Len(Where(flags, v)) <= k
<1> DEFINE S == {i \in 1..k : flags[i] = v}
           w == Where(flags, v)
<1>1. S \in SUBSET (1..k) /\ S \in SUBSET Nat
  OBVIOUS
<1>2. /\ IsFiniteSet(S) /\ Cardinality(S) \in Nat
      /\ \E s \in [1..Cardinality(S) -> S] : Increasing(s)
  <2> HIDE DEF S
  <2> QED
    BY <1>1, AscendingExists
<1>3. w \in [1..Cardinality(S) -> S] /\ Increasing(w)
  BY <1>2 DEF Where, Increasing
<1> HIDE DEF w
<1>4. /\ \A i, j \in DOMAIN w : w[i] = w[j] => i = j
      /\ \A x \in S : \E j \in DOMAIN w : w[j] = x
  <2> HIDE DEF S
  <2> QED
    BY <1>1, <1>2, <1>3, AscendingIsAll
<1>5. Cardinality(S) <= k
  <2> DEFINE D == 1..k
  <2>1. IsFiniteSet(D) /\ Cardinality(D) = k /\ S \in SUBSET D
    BY FS_Interval
  <2> HIDE DEF S, D
  <2> QED
    BY <2>1, FS_Subset
<1>6. DOMAIN w = 1..Cardinality(S) /\ Len(w) = Cardinality(S) /\ w \in Seq(S)
  <2> HIDE DEF S
  <2> QED
    BY <1>2, <1>3
<1>7. w # <<>> <=> Len(w) # 0
  <2> HIDE DEF S
  <2> QED
    BY <1>6
<1>8. w # <<>> <=> \E i \in 1..k : flags[i] = v
  <2>1. ASSUME Len(w) # 0 PROVE \E i \in 1..k : flags[i] = v
    <3>1. 1 \in DOMAIN w
      <4> HIDE DEF S
      <4> QED
        BY <1>2, <1>6, <2>1
    <3>2. w[1] \in S
      <4> HIDE DEF S
      <4> QED
        BY <1>3, <3>1
    <3> QED
      BY <3>2
  <2>2. ASSUME NEW i \in 1..k, flags[i] = v PROVE Len(w) # 0
    <3>1. PICK j \in DOMAIN w : w[j] = i
      BY <1>4, <2>2
    <3>2. 1..Cardinality(S) # {}
      <4> HIDE DEF S
      <4> QED
        BY <1>6, <3>1
    <3> HIDE DEF S
    <3> QED
      BY <1>2, <1>6, <3>2
  <2> QED
    BY <1>7, <2>1, <2>2
<1>9. \A i \in 1..k : flags[i] = v <=> \E j \in DOMAIN w : w[j] = i
  <2>1. \A j \in DOMAIN w : w[j] \in S
    <3> HIDE DEF S
    <3> QED
      BY <1>3
  <2> QED
    BY <1>4, <2>1
<1>10. w # <<>> => Opens(w, 1..k)
  <2>1. \A j \in DOMAIN w : w[j] \in 1..k
    <3>1. \A j \in DOMAIN w : w[j] \in S
      <4> HIDE DEF S
      <4> QED
        BY <1>3
    <3> QED
      BY <3>1
  <2> HIDE DEF S
  <2> QED
    BY <1>2, <1>4, <1>6, <1>7, <2>1 DEF Opens
<1> HIDE DEF S
<1> QED
  BY <1>2, <1>3, <1>5, <1>6, <1>8, <1>9, <1>10 DEF w, Lists

LEMMA TotalIsSum ==
  ASSUME NEW conns
  PROVE  Total(conns) = SumFunctionOnSet(conns, DOMAIN conns)
BY DEF Total, FoldSeq, FoldFunction, SumFunctionOnSet

\* Of two slots that are dealt to, the earlier gets as much as the later or one more.
LEMMA DealtEvenly ==
  ASSUME NEW k \in Nat, NEW D, D = 1..k, NEW flags, NEW v, NEW w, w # <<>>, Lists(w, flags, v, D),
         NEW n \in Nat, NEW i \in D, NEW j \in D, i < j, flags[i] = v, flags[j] = v
  PROVE  Dealt(w, n, D)[j] <= Dealt(w, n, D)[i] /\ Dealt(w, n, D)[i] <= Dealt(w, n, D)[j] + 1
<1> DEFINE g == Dealt(w, n, D)
<1>1. Opens(w, D) /\ Increasing(w) /\ \A x \in D : flags[x] = v <=> \E y \in DOMAIN w : w[y] = x
  BY DEF Lists
<1>2. i \in Nat /\ j \in Nat
  OBVIOUS
<1>3. \A x \in DOMAIN w : g[w[x]] = ShareOf(n, Len(w), x)
  BY <1>1, DealtAt
<1> HIDE DEF g
<1>4. PICK a \in DOMAIN w : w[a] = i
  BY <1>1
<1>5. PICK b \in DOMAIN w : w[b] = j
  BY <1>1
<1>6. Len(w) \in Nat \ {0} /\ DOMAIN w = 1..Len(w)
  BY <1>1 DEF Opens
<1>7. a < b
  <2>1. a = b \/ a < b \/ b < a
    BY <1>6
  <2> QED
    BY <1>1, <1>2, <1>4, <1>5, <2>1 DEF Increasing
<1>8. g[i] = ShareOf(n, Len(w), a) /\ g[j] = ShareOf(n, Len(w), b)
  BY <1>3, <1>4, <1>5
<1>9. g[j] <= g[i] /\ g[i] <= g[j] + 1
  <2> DEFINE d == Len(w)
  <2>1. d \in Nat \ {0} /\ a \in 1..d /\ b \in 1..d /\ a <= b
    BY <1>6, <1>7
  <2> HIDE DEF d
  <2>2. \A x \in 1..d : a <= x => /\ ShareOf(n, d, x) <= ShareOf(n, d, a)
                                  /\ ShareOf(n, d, a) <= ShareOf(n, d, x) + 1
    BY <2>1, ShareFacts
  <2> QED
    BY <1>8, <2>1, <2>2 DEF d
<1> QED
  BY <1>9 DEF g

LEMMA TotalOfEqual ==
  ASSUME NEW D, IsFiniteSet(D), NEW f, DOMAIN f = D, NEW c \in Nat, \A i \in D : f[i] = c
  PROVE  Total(f) = Cardinality(D) * c
<1>1. Total(f) = SumFunctionOnSet(f, D)
  BY TotalIsSum
<1>2. SumFunctionOnSet(f, D) = Cardinality(D) * c
  BY SumOfEqual
<1> QED
  BY <1>1, <1>2

LEMMA TotalOfSame ==
  ASSUME NEW n \in Nat, NEW c \in Nat
  PROVE  Total([i \in 1..n |-> c]) = n * c
<1> DEFINE D == 1..n
           f == [i \in D |-> c]
<1>1. IsFiniteSet(D) /\ Cardinality(D) = n /\ DOMAIN f = D /\ \A i \in D : f[i] = c
  BY FS_Interval
<1> HIDE DEF D, f
<1>2. Total(f) = Cardinality(D) * c
  BY <1>1, TotalOfEqual
<1> QED
  BY <1>1, <1>2 DEF f, D

-----------------------------------------------------------------------------
(* RebalanceTargets.                                                        *)

\* The targets are one connection each, and the rest dealt to the capable tasks.
AreTargets(t, w, cap, rest, n, D) ==
  /\ Lists(w, cap, TRUE, D) /\ Len(w) <= n
  /\ t \in [D -> Nat]
  /\ w = <<>> => \A i \in D : t[i] = 1
  /\ w # <<>> => \A i \in D : t[i] = 1 + Dealt(w, rest, D)[i]

LEMMA TargetsAre ==
  ASSUME NEW n \in Nat \ {0}, NEW D, D = 1..n, NEW cap \in [D -> BOOLEAN], NEW budget \in Nat,
         n <= budget, NEW w, w = Where(cap, TRUE), NEW t, t = RebalanceTargets(cap, budget)
  PROVE  AreTargets(t, w, cap, budget - n, n, D)
<1>1. Lists(w, cap, TRUE, D) /\ Len(w) <= n /\ Len(cap) = n
  <2> DEFINE v == TRUE
  <2>1. DOMAIN cap = 1..n /\ n \in Nat /\ Len(cap) = n
    OBVIOUS
  <2> HIDE DEF v
  <2>2. Lists(Where(cap, v), cap, v, 1..n) /\ Len(Where(cap, v)) <= n
    BY <2>1, WhereFacts
  <2> QED
    BY <2>1, <2>2 DEF v
<1> DEFINE rest == budget - n
           share(i) == CHOOSE j \in DOMAIN w : w[j] = i
           extra(i) == rest \div Len(w) + (IF share(i) <= rest % Len(w) THEN 1 ELSE 0)
<1>2. t = [i \in 1..n |-> IF budget < n THEN 0 ELSE IF cap[i] THEN 1 + extra(i) ELSE 1]
  BY <1>1 DEF RebalanceTargets
<1>3. rest \in Nat /\ ~(budget < n)
  OBVIOUS
<1> HIDE DEF rest
<1>4. \A i \in D : t[i] = IF cap[i] THEN 1 + extra(i) ELSE 1
  BY <1>2, <1>3
<1>5. \A i \in D : cap[i] <=> \E j \in DOMAIN w : w[j] = i
  BY <1>1 DEF Lists
<1>6. \A i \in D : cap[i] => w # <<>>
  BY <1>1 DEF Lists
<1>7. \A i \in D : cap[i] => extra(i) = Dealt(w, rest, D)[i]
  BY <1>5 DEF Dealt, ShareOf
<1>8. \A i \in D : ~cap[i] /\ w # <<>> => Dealt(w, rest, D)[i] = 0
  BY <1>5 DEF Dealt
<1>9. w # <<>> => Dealt(w, rest, D) \in [D -> Nat]
  <2> SUFFICES ASSUME w # <<>> PROVE Dealt(w, rest, D) \in [D -> Nat]
    OBVIOUS
  <2>1. Opens(w, D)
    BY <1>1 DEF Lists
  <2> QED
    BY <1>3, <2>1, DealtAt
<1>12. DOMAIN t = D /\ t = [i \in D |-> t[i]]
  BY <1>2
<1> HIDE DEF extra
<1>10. CASE w = <<>>
  <2>1. \A i \in D : ~cap[i]
    BY <1>6, <1>10
  <2>2. \A i \in D : t[i] = 1 /\ t[i] \in Nat
    BY <1>4, <2>1
  <2>3. t \in [D -> Nat]
    BY <1>12, <2>2
  <2> QED
    BY <1>1, <1>10, <2>2, <2>3 DEF AreTargets
<1>11. CASE w # <<>>
  <2> DEFINE g == Dealt(w, rest, D)
  <2>1. \A i \in D : g[i] \in Nat
    BY <1>9, <1>11
  <2>2. \A i \in D : t[i] = 1 + g[i]
    <3> SUFFICES ASSUME NEW i \in D PROVE t[i] = 1 + g[i]
      OBVIOUS
    <3>1. (cap[i] => extra(i) = g[i]) /\ (~cap[i] => g[i] = 0)
      BY <1>7, <1>8, <1>11
    <3>2. (cap[i] => t[i] = 1 + extra(i)) /\ (~cap[i] => t[i] = 1)
      BY <1>4
    <3> HIDE DEF g
    <3> QED
      BY <3>1, <3>2
  <2>3. \A i \in D : t[i] \in Nat
    <3> HIDE DEF g
    <3> QED
      BY <2>1, <2>2
  <2>4. t \in [D -> Nat]
    BY <1>12, <2>3
  <2> QED
    BY <1>1, <1>11, <2>2, <2>4 DEF AreTargets, rest
<1> QED
  BY <1>10, <1>11

\* n tasks of m that were promised SF each, of budget: a share is at least SF - 1.
LEMMA SharesReach ==
  ASSUME NEW budget \in Nat, NEW SF \in Nat \ {0}, NEW m \in Nat, m * SF <= budget,
         NEW n \in Nat, n <= m, NEW d \in Nat \ {0}, d <= n
  PROVE  n <= budget /\ \A j \in 1..d : ShareOf(budget - n, d, j) >= SF - 1
<1> DEFINE k == SF - 1
           q == (budget - n) \div d
<1>1. k \in Nat
  OBVIOUS
<1> HIDE DEF k
<1>2. m * SF = k * m + m
  <2>1. SF = k + 1
    BY DEF k
  <2>2. m * (k + 1) = k * m + m
    BY <1>1
  <2> QED
    BY <2>1, <2>2
<1>3. \A x, y \in Nat : x <= y => k * x \in Nat /\ k * y \in Nat /\ k * x <= k * y
  <2> TAKE x, y \in Nat
  <2>1. k * x \in Nat /\ k * y \in Nat /\ (x < y => k * y >= k * x + k)
    BY <1>1, ProductGrows
  <2> QED
    BY <1>1, <2>1
<1>4. k * d \in Nat /\ k * m \in Nat /\ k * d <= k * m
  BY <1>3
<1>5. n <= budget /\ budget - n >= k * d
  BY <1>2, <1>4
<1>6. budget - n \in Nat /\ q \in Nat /\ (budget - n) % d \in 0..(d - 1)
      /\ budget - n = d * q + ((budget - n) % d)
  <2> DEFINE b == budget - n
  <2>1. b \in Nat
    BY <1>5
  <2> HIDE DEF b
  <2>2. b \div d \in Nat /\ b % d \in 0..(d - 1) /\ b = d * (b \div d) + (b % d)
    BY <2>1, Division
  <2> QED
    BY <2>1, <2>2 DEF b
<1> HIDE DEF q
<1>7. q >= k
  <2> SUFFICES ASSUME q < k PROVE FALSE
    BY <1>1, <1>6
  <2>1. d * k >= d * q + d /\ d * q \in Nat /\ d * k \in Nat
    BY <1>1, <1>6, ProductGrows
  <2>2. d * k = k * d
    BY <1>1
  <2> QED
    BY <1>4, <1>5, <1>6, <2>1, <2>2
<1>8. ASSUME NEW j \in 1..d PROVE ShareOf(budget - n, d, j) >= k
  BY <1>1, <1>6, <1>7 DEF ShareOf, q
<1> QED
  BY <1>5, <1>8 DEF k

\* What a rebalancing gives the live tasks, of which m at most were started at SF each.
GoodTargets(t, cap, budget, SF, D) ==
  /\ t \in [D -> Nat] /\ Total(t) <= budget
  /\ (\E i \in D : cap[i]) => Total(t) = budget
  /\ \A i, j \in D : i < j /\ cap[i] /\ cap[j] => t[i] \in {t[j], t[j] + 1}
  /\ \A i \in D : t[i] >= IF cap[i] THEN SF ELSE 1

LEMMA TargetsAreGood ==
  ASSUME NEW n \in Nat \ {0}, NEW D, D = 1..n, NEW cap \in [D -> BOOLEAN], NEW budget \in Nat,
         NEW SF \in Nat \ {0}, NEW m \in Nat, n <= m, m * SF <= budget,
         NEW t, t = RebalanceTargets(cap, budget)
  PROVE  GoodTargets(t, cap, budget, SF, D)
<1> DEFINE w == Where(cap, TRUE)
           rest == budget - n
           g == Dealt(w, rest, D)
           ones == [i \in D |-> 1]
<1>1. n <= budget /\ rest \in Nat
  <2>1. n <= budget
    <3>1. n \in Nat /\ 1 \in Nat \ {0} /\ 1 <= n
      OBVIOUS
    <3> QED
      BY <3>1, SharesReach
  <2> QED
    BY <2>1
<1>2. AreTargets(t, w, cap, rest, n, D)
  <2> HIDE DEF w
  <2>1. w = Where(cap, TRUE)
    BY DEF w
  <2> QED
    BY <1>1, <2>1, TargetsAre
<1>3. IsFiniteSet(D) /\ Cardinality(D) = n
  BY FS_Interval
<1>4. Total(ones) = n
  <2>1. Total(ones) = n * 1
    BY TotalOfSame
  <2> QED
    BY <2>1
<1>5. DOMAIN ones = D /\ DOMAIN t = D /\ \A i \in D : ones[i] = 1
  BY <1>2 DEF AreTargets
<1> HIDE DEF w, g, ones
<1>6. CASE w = <<>>
  <2>1. \A i \in D : t[i] = 1 /\ ~cap[i]
    BY <1>2, <1>6 DEF Lists, AreTargets
  <2>2. t = ones
    BY <1>2, <2>1 DEF ones, AreTargets
  <2> QED
    BY <1>1, <1>2, <1>4, <2>1, <2>2 DEF GoodTargets, AreTargets
<1>7. CASE w # <<>>
  <2>1. Opens(w, D) /\ Len(w) \in Nat \ {0}
    BY <1>2, <1>7 DEF Lists, AreTargets, Opens
  <2>2. /\ \A j \in DOMAIN w : g[w[j]] = ShareOf(rest, Len(w), j)
        /\ g \in [D -> Nat]
    <3> HIDE DEF rest
    <3> QED
      BY <1>1, <2>1, DealtAt DEF g
  <2>3. \A i \in D : t[i] = 1 + g[i] /\ g[i] \in Nat
    BY <1>2, <1>7, <2>2 DEF AreTargets, g
  <2>4. Total(t) = budget
    <3>1. Total(t) = SumFunctionOnSet(t, D) /\ Total(ones) = SumFunctionOnSet(ones, D)
      BY <1>5, TotalIsSum
    <3>2. \A i \in D : ones[i] \in Nat /\ g[i] \in Nat /\ t[i] = ones[i] + g[i]
      BY <1>5, <2>3
    <3>3. SumFunctionOnSet(t, D) = SumFunctionOnSet(ones, D) + SumFunctionOnSet(g, D)
      BY <1>3, <3>2, SumOfSums
    <3>4. SumFunctionOnSet(g, D) = rest
      <4> HIDE DEF rest
      <4> QED
        BY <1>1, <1>3, <2>1, DealtSum DEF g
    <3> QED
      BY <1>1, <1>4, <3>1, <3>3, <3>4
  <2>5. ASSUME NEW i \in D, NEW j \in D, i < j, cap[i], cap[j]
        PROVE  t[i] \in {t[j], t[j] + 1}
    <3>1. cap[i] = TRUE /\ cap[j] = TRUE /\ n \in Nat
      BY <2>5
    <3>2. g[j] <= g[i] /\ g[i] <= g[j] + 1
      <4> DEFINE v == TRUE
      <4>1. Lists(w, cap, v, D) /\ cap[i] = v /\ cap[j] = v
        BY <1>2, <3>1 DEF AreTargets
      <4> HIDE DEF v, rest
      <4> QED
        BY <1>1, <1>7, <2>5, <3>1, <4>1, DealtEvenly DEF g
    <3> QED
      BY <2>3, <3>2
  <2>6. ASSUME NEW i \in D PROVE t[i] >= IF cap[i] THEN SF ELSE 1
    <3>1. CASE cap[i]
      <4>1. PICK j \in DOMAIN w : w[j] = i
        BY <1>2, <3>1 DEF Lists, AreTargets
      <4>2. j \in 1..Len(w)
        BY <2>1, <4>1 DEF Opens
      <4>3. ShareOf(rest, Len(w), j) >= SF - 1
        <5> DEFINE d == Len(w)
        <5>1. d \in Nat \ {0} /\ d <= n /\ j \in 1..d
          BY <1>2, <2>1, <4>2 DEF AreTargets
        <5> HIDE DEF d
        <5>2. n \in Nat
          OBVIOUS
        <5>3. \A x \in 1..d : ShareOf(budget - n, d, x) >= SF - 1
          BY <5>1, <5>2, SharesReach
        <5> QED
          BY <5>1, <5>3 DEF d
      <4>4. g[i] >= SF - 1
        BY <2>2, <4>1, <4>3
      <4> QED
        BY <2>3, <3>1, <4>4
    <3>2. CASE ~cap[i]
      BY <2>3, <3>2
    <3> QED
      BY <3>1, <3>2
  <2> HIDE DEF rest
  <2>7. Total(t) <= budget
    BY <2>4
  <2> QED
    BY <1>2, <2>4, <2>5, <2>6, <2>7 DEF GoodTargets, AreTargets
<1> QED
  BY <1>6, <1>7
=============================================================================
