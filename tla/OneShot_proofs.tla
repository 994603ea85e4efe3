--------------------------- MODULE OneShot_proofs ---------------------------
(***************************************************************************)
(* odm with URLs on its command line, for any URLs, probers, slots and     *)
(* channels.                                                               *)
(***************************************************************************)
EXTENDS OneShot, DataLemmas

-----------------------------------------------------------------------------
(* dedupeURLs: what is left has every URL once.                             *)

\* What dedupeURLs does with the next URL.
Dedupe == [i \in DOMAIN Given |-> [out \in Seq(Nat \ {0}) |->
            IF Contains(out, Given[i]) THEN out ELSE Append(out, Given[i])]]

MaxOf == [s \in SUBSET DOMAIN Given |-> Max(s)]

LEMMA URLsAreAFold ==
  \E h : IsFold(h, DOMAIN Given, <<>>, MaxOf, Dedupe) /\ URLs = h[DOMAIN Given]
         /\ h \in [SUBSET DOMAIN Given -> Seq(Nat \ {0})]
<1> DEFINE D == DOMAIN Given
           V == Seq(Nat \ {0})
<1>1. Given \in V /\ Len(Given) \in Nat /\ D = 1..Len(Given) /\ IsFiniteSet(D)
  BY OneShotAssumption, FS_Interval
<1>2. ASSUME NEW s \in SUBSET D, s # {} PROVE MaxOf[s] \in s
  <2>1. s \in SUBSET (0..Len(Given))
    BY <1>1
  <2> QED
    BY <1>1, <1>2, <2>1, GreatestNumber DEF MaxOf
<1>3. <<>> \in V /\ \A x \in D : \A v \in V : Dedupe[x][v] \in V
  <2>1. \A x \in D : Given[x] \in Nat \ {0}
    BY <1>1
  <2> QED
    BY <2>1 DEF Dedupe
<1>4. ASSUME NEW h, IsFold(h, D, <<>>, MaxOf, Dedupe) PROVE h \in [SUBSET D -> V]
  <2> DEFINE base == <<>>
  <2>1. base \in V /\ IsFold(h, D, base, MaxOf, Dedupe)
    BY <1>3, <1>4
  <2> HIDE DEF D, V, base
  <2> QED
    BY <1>1, <1>2, <1>3, <2>1, FoldIn
<1> DEFINE Eq(h) == h = [s \in SUBSET D |->
                          IF s = {} THEN <<>>
                          ELSE IF Contains(h[s \ {Max(s)}], Given[Max(s)]) THEN h[s \ {Max(s)}]
                               ELSE Append(h[s \ {Max(s)}], Given[Max(s)])]
<1>5. ASSUME NEW h \in [SUBSET D -> V]
      PROVE  IsFold(h, D, <<>>, MaxOf, Dedupe) <=> Eq(h)
  <2>1. ASSUME NEW s \in SUBSET D, s # {}
        PROVE  Dedupe[MaxOf[s]][h[s \ {MaxOf[s]}]]
                 = IF Contains(h[s \ {Max(s)}], Given[Max(s)]) THEN h[s \ {Max(s)}]
                   ELSE Append(h[s \ {Max(s)}], Given[Max(s)])
    <3>1. Max(s) = MaxOf[s] /\ Max(s) \in D /\ s \ {Max(s)} \in SUBSET D
      BY <1>2, <2>1 DEF MaxOf
    <3>2. h[s \ {Max(s)}] \in V
      BY <3>1
    <3> QED
      BY <3>1, <3>2 DEF Dedupe
  <2> QED
    BY <2>1 DEF IsFold
<1>6. ASSUME NEW h, Eq(h) PROVE h \in [SUBSET D -> V]
  <2> DEFINE P == {s \in SUBSET D : h[s] \in V}
  <2>1. ASSUME NEW s \in SUBSET D, \A r \in SUBSET s : r # s => r \in P
        PROVE  s \in P
    <3>1. CASE s = {}
      BY <1>3, <1>6, <3>1
    <3>2. CASE s # {}
      <4>1. Max(s) \in s /\ Max(s) \in D /\ s \ {Max(s)} \in P
        BY <1>2, <2>1, <3>2 DEF MaxOf
      <4>2. h[s \ {Max(s)}] \in V /\ Given[Max(s)] \in Nat \ {0}
        BY <1>1, <4>1
      <4>3. h[s] = IF Contains(h[s \ {Max(s)}], Given[Max(s)]) THEN h[s \ {Max(s)}]
                   ELSE Append(h[s \ {Max(s)}], Given[Max(s)])
        BY <1>6, <3>2
      <4>4. Append(h[s \ {Max(s)}], Given[Max(s)]) \in V
        BY <4>2, AppendProperties
      <4> QED
        BY <4>2, <4>3, <4>4
    <3> QED
      BY <3>1, <3>2
  <2> HIDE DEF P
  <2>2. P = SUBSET D
    <3>1. P \in SUBSET SUBSET D
      BY DEF P
    <3> HIDE DEF D
    <3> QED
      BY <1>1, <2>1, <3>1, EverySubset
  <2> QED
    BY <1>6, <2>2 DEF P
<1>7. PICK h : IsFold(h, D, <<>>, MaxOf, Dedupe)
  <2> HIDE DEF D
  <2> QED
    BY <1>1, <1>2, FoldExists
<1>8. Eq(h)
  BY <1>4, <1>5, <1>7
<1>9. Eq(CHOOSE g : Eq(g)) /\ URLs = (CHOOSE g : Eq(g))[D]
  <2>1. URLs = (CHOOSE g : Eq(g))[D]
    BY DEF URLs, FoldLeft, MapThenFoldSet
  <2> QED
    BY <1>8, <2>1
<1> QED
  BY <1>5, <1>6, <1>9

LEMMA ContainsIsRange ==
  ASSUME NEW S, NEW s \in Seq(S), NEW x
  PROVE  Contains(s, x) <=> x \in Range(s)
<1>1. DOMAIN s = 1..Len(s)
  OBVIOUS
<1> QED
  BY <1>1 DEF Contains, Range

\* Every URL that was given is left, and once.
LEMMA URLsAreDistinct ==
  /\ URLs \in Seq(Nat \ {0}) /\ URLs # <<>> /\ IsInjective(URLs)
  /\ Range(URLs) = Range(Given)
<1> DEFINE D == DOMAIN Given
           N == Len(Given)
<1>1. Given \in Seq(Nat \ {0}) /\ N \in Nat \ {0} /\ D = 1..N
      /\ \A i \in D : Given[i] \in Nat \ {0}
  BY OneShotAssumption
<1>2. PICK h : /\ IsFold(h, D, <<>>, MaxOf, Dedupe) /\ URLs = h[D]
               /\ h \in [SUBSET D -> Seq(Nat \ {0})]
  BY URLsAreAFold
<1> DEFINE Done(k) == /\ IsInjective(h[1..k])
                      /\ Range(h[1..k]) = {Given[i] : i \in 1..k}
           T == {k \in Nat : k <= N => Done(k)}
<1>3. 0 \in T
  <2>1. 1..0 = {} /\ h[1..0] = <<>>
    BY <1>2 DEF IsFold
  <2> QED
    BY <2>1 DEF IsInjective, Range
<1>4. ASSUME NEW k \in T PROVE k + 1 \in T
  <2> SUFFICES ASSUME k + 1 <= N PROVE Done(k + 1)
    OBVIOUS
  <2> DEFINE s == 1..(k + 1)
             before == h[1..k]
             u == Given[k + 1]
  <2>1. k \in Nat /\ k + 1 \in D /\ s \in SUBSET D /\ s # {} /\ Done(k)
    BY <1>1
  <2>2. Max(s) = k + 1
    <3>1. s \in SUBSET (0..N)
      BY <1>1, <2>1
    <3>2. Max(s) \in s /\ \A x \in s : x <= Max(s)
      <4> HIDE DEF s
      <4> QED
        BY <1>1, <2>1, <3>1, GreatestNumber
    <3> QED
      BY <2>1, <3>2
  <2>3. MaxOf[s] = k + 1 /\ s \ {k + 1} = 1..k
    BY <2>1, <2>2 DEF MaxOf
  <2>4. h[s] = Dedupe[k + 1][before]
    <3>1. h[s] = Dedupe[MaxOf[s]][h[s \ {MaxOf[s]}]]
      <4> HIDE DEF s
      <4> QED
        BY <1>2, <2>1 DEF IsFold
    <3> QED
      BY <2>3, <3>1
  <2>5. before \in Seq(Nat \ {0}) /\ u \in Nat \ {0} /\ 1..k \in SUBSET D
    BY <1>1, <1>2, <2>1
  <2>6. h[s] = IF Contains(before, u) THEN before ELSE Append(before, u)
    BY <2>1, <2>4, <2>5 DEF Dedupe
  <2>7. Contains(before, u) <=> u \in Range(before)
    BY <2>5, ContainsIsRange
  <2>8. {Given[i] : i \in s} = {Given[i] : i \in 1..k} \cup {u}
    BY <2>1
  <2>9. Range(before) = {Given[i] : i \in 1..k} /\ IsInjective(before)
    BY <2>1
  <2> HIDE DEF before, u, s
  <2>10. CASE u \in Range(before)
    BY <2>6, <2>7, <2>8, <2>9, <2>10 DEF s
  <2>11. CASE u \notin Range(before)
    <3>1. IsInjective(Append(before, u)) /\ Range(Append(before, u)) = Range(before) \cup {u}
      BY <2>5, <2>9, <2>11, AppendToInjective
    <3> QED
      BY <2>6, <2>7, <2>8, <2>9, <2>11, <3>1 DEF s
  <2> QED
    BY <2>10, <2>11
<1> HIDE DEF T
<1>5. T = Nat
  BY <1>3, <1>4, EveryNumber DEF T
<1>6. Done(N)
  BY <1>1, <1>5 DEF T
<1>7. URLs \in Seq(Nat \ {0}) /\ URLs = h[1..N]
  BY <1>1, <1>2
<1>8. Range(URLs) = Range(Given)
  BY <1>1, <1>6, <1>7 DEF Range
<1>9. URLs # <<>>
  <2>1. Given[1] \in Range(Given)
    BY <1>1 DEF Range
  <2> QED
    BY <1>8, <2>1 DEF Range
<1> QED
  BY <1>6, <1>7, <1>8, <1>9

LEMMA TasksAreFinite ==
  /\ Tasks = Range(URLs) /\ Tasks \in SUBSET (Nat \ {0}) /\ IsFiniteSet(Tasks)
  /\ Cardinality(Tasks) = Len(URLs) /\ Len(URLs) \in Nat \ {0} /\ DOMAIN URLs = 1..Len(URLs)
<1>1. /\ URLs \in Seq(Nat \ {0}) /\ Len(URLs) \in Nat \ {0} /\ DOMAIN URLs = 1..Len(URLs)
      /\ IsInjective(URLs)
  BY URLsAreDistinct
<1>2. Tasks = Range(URLs) /\ Tasks \in SUBSET (Nat \ {0})
  BY <1>1 DEF Tasks, ToSet, Range
<1>3. URLs \in Surjection(1..Len(URLs), Tasks) /\ URLs \in Injection(1..Len(URLs), Tasks)
  BY <1>1, <1>2 DEF Surjection, Injection, IsInjective, Range
<1>4. IsFiniteSet(1..Len(URLs)) /\ Cardinality(1..Len(URLs)) = Len(URLs)
  BY <1>1, FS_Interval
<1>5. IsFiniteSet(Tasks) /\ Cardinality(Tasks) = Len(URLs)
  BY <1>3, <1>4, FS_Surjection
<1> QED
  BY <1>1, <1>2, <1>5

LEMMA MinOfTwo ==
  ASSUME NEW a \in Int, NEW b \in Int
  PROVE  Min({a, b}) = IF a <= b THEN a ELSE b
<1>1. \E x \in {a, b} : \A y \in {a, b} : x <= y
  OBVIOUS
<1>2. Min({a, b}) \in {a, b} /\ \A y \in {a, b} : Min({a, b}) <= y
  BY <1>1 DEF Min
<1> QED
  BY <1>2

LEMMA MaxOfTwo ==
  ASSUME NEW a \in Int, NEW b \in Int
  PROVE  Max({a, b}) = IF a >= b THEN a ELSE b
<1>1. \E x \in {a, b} : \A y \in {a, b} : x >= y
  OBVIOUS
<1>2. Max({a, b}) \in {a, b} /\ \A y \in {a, b} : Max({a, b}) >= y
  BY <1>1 DEF Max
<1> QED
  BY <1>2

LEMMA ProbersAreSome ==
  /\ Cardinality(Probers) \in Nat \ {0} /\ Probers = 1..Cardinality(Probers)
  /\ Cardinality(Probers) <= Len(URLs)
<1> DEFINE p == Min({Len(URLs), MaxProbers})
<1>1. p = IF Len(URLs) <= MaxProbers THEN Len(URLs) ELSE MaxProbers
  BY TasksAreFinite, OneShotAssumption, MinOfTwo
<1>2. p \in Nat \ {0} /\ p <= Len(URLs)
  BY <1>1, TasksAreFinite, OneShotAssumption
<1>3. Cardinality(1..p) = p
  <2> HIDE DEF p
  <2> QED
    BY <1>2, FS_Interval
<1> QED
  BY <1>2, <1>3 DEF Probers

-----------------------------------------------------------------------------
(* The order of the plan.                                                   *)

Results == [url : Tasks, ok : BOOLEAN]

UrlsOf(s) == [i \in DOMAIN s |-> s[i].url]

LEMMA UrlsOfQueue ==
  ASSUME NEW s \in Seq(Results), NEW r \in Results
  PROVE  /\ UrlsOf(s) \in Seq(Tasks) /\ DOMAIN UrlsOf(s) = DOMAIN s /\ Len(UrlsOf(s)) = Len(s)
         /\ UrlsOf(Append(s, r)) = Append(UrlsOf(s), r.url)
         /\ s # <<>> => /\ UrlsOf(s) # <<>> /\ Head(UrlsOf(s)) = Head(s).url
                        /\ UrlsOf(Tail(s)) = Tail(UrlsOf(s))
<1>1. DOMAIN s = 1..Len(s) /\ Len(s) \in Nat /\ \A i \in DOMAIN s : s[i].url \in Tasks
  <2>1. DOMAIN s = 1..Len(s) /\ Len(s) \in Nat /\ \A i \in DOMAIN s : s[i] \in Results
    OBVIOUS
  <2>2. \A x \in Results : x.url \in Tasks
    BY DEF Results
  <2> QED
    BY <2>1, <2>2
<1>2. UrlsOf(s) \in Seq(Tasks) /\ DOMAIN UrlsOf(s) = DOMAIN s /\ Len(UrlsOf(s)) = Len(s)
  BY <1>1 DEF UrlsOf
<1>3. UrlsOf(Append(s, r)) = Append(UrlsOf(s), r.url)
  <2>1. r.url \in Tasks
    BY DEF Results
  <2>2. /\ DOMAIN Append(s, r) = 1..(Len(s) + 1)
        /\ \A i \in 1..Len(s) : Append(s, r)[i] = s[i]
        /\ Append(s, r)[Len(s) + 1] = r
    BY AppendProperties
  <2>3. /\ DOMAIN Append(UrlsOf(s), r.url) = 1..(Len(s) + 1)
        /\ \A i \in 1..Len(s) : Append(UrlsOf(s), r.url)[i] = UrlsOf(s)[i]
        /\ Append(UrlsOf(s), r.url)[Len(s) + 1] = r.url
        /\ Append(UrlsOf(s), r.url) \in Seq(Tasks)
    BY <1>2, <2>1, AppendProperties
  <2>4. \A i \in 1..(Len(s) + 1) : UrlsOf(Append(s, r))[i] = Append(UrlsOf(s), r.url)[i]
    BY <1>1, <2>2, <2>3 DEF UrlsOf
  <2>5. DOMAIN UrlsOf(Append(s, r)) = 1..(Len(s) + 1)
    BY <2>2 DEF UrlsOf
  <2>6. UrlsOf(Append(s, r)) \in Seq(Tasks)
    <3>1. \A i \in 1..(Len(s) + 1) : UrlsOf(Append(s, r))[i] \in Tasks
      BY <2>3, <2>4
    <3>2. UrlsOf(Append(s, r)) = [i \in 1..(Len(s) + 1) |-> UrlsOf(Append(s, r))[i]]
      BY <2>5 DEF UrlsOf
    <3> QED
      BY <1>1, <3>1, <3>2
  <2> QED
    BY <1>1, <2>3, <2>4, <2>5, <2>6, SeqEqual
<1>4. ASSUME s # <<>> PROVE /\ UrlsOf(s) # <<>> /\ Head(UrlsOf(s)) = Head(s).url
                            /\ UrlsOf(Tail(s)) = Tail(UrlsOf(s))
  <2>1. Len(s) # 0 /\ UrlsOf(s) # <<>>
    BY <1>1, <1>2, <1>4
  <2>2. /\ Tail(s) \in Seq(Results) /\ Len(Tail(s)) = Len(s) - 1 /\ Head(s) = s[1]
        /\ \A i \in 1..Len(Tail(s)) : Tail(s)[i] = s[i + 1]
    BY <1>4, HeadTailProperties
  <2>3. /\ Tail(UrlsOf(s)) \in Seq(Tasks) /\ Len(Tail(UrlsOf(s))) = Len(s) - 1
        /\ Head(UrlsOf(s)) = UrlsOf(s)[1]
        /\ \A i \in 1..(Len(s) - 1) : Tail(UrlsOf(s))[i] = UrlsOf(s)[i + 1]
    BY <1>2, <2>1, HeadTailProperties
  <2>4. Head(UrlsOf(s)) = Head(s).url
    BY <1>1, <2>1, <2>2, <2>3 DEF UrlsOf
  <2>5. DOMAIN Tail(s) = 1..(Len(s) - 1) /\ DOMAIN UrlsOf(Tail(s)) = 1..(Len(s) - 1)
    BY <2>2 DEF UrlsOf
  <2>6. \A i \in 1..(Len(s) - 1) : i + 1 \in DOMAIN s /\ UrlsOf(Tail(s))[i] = Tail(UrlsOf(s))[i]
    BY <1>1, <2>1, <2>2, <2>3, <2>5 DEF UrlsOf
  <2>7. UrlsOf(Tail(s)) \in Seq(Tasks)
    <3>1. \A i \in 1..(Len(s) - 1) : UrlsOf(Tail(s))[i] \in Tasks
      BY <1>1, <1>2, <2>6, <2>3 DEF UrlsOf
    <3>2. UrlsOf(Tail(s)) = [i \in 1..(Len(s) - 1) |-> UrlsOf(Tail(s))[i]]
      BY <2>5 DEF UrlsOf
    <3> QED
      BY <1>1, <2>1, <3>1, <3>2
  <2> QED
    BY <1>1, <2>1, <2>3, <2>4, <2>5, <2>6, <2>7, SeqEqual
<1> QED
  BY <1>2, <1>3, <1>4

\* What is sorted is what there was, each once.
LEMMA SortedIsWhole ==
  ASSUME NEW fs \in Seq(Results), IsInjective(UrlsOf(fs))
  PROVE  /\ Sorted(fs) \in Seq(Results) /\ Len(Sorted(fs)) = Len(fs)
         /\ IsInjective(UrlsOf(Sorted(fs))) /\ Range(UrlsOf(Sorted(fs))) = Range(UrlsOf(fs))
<1> DEFINE n == Len(fs)
           D == 1..n
           Before(j) == {k \in D : fs[k].url < fs[j].url}
           rank == [j \in D |-> Cardinality(Before(j)) + 1]
           InOrder(r) == /\ ToSet(r) = ToSet(fs)
                          /\ \A i, j \in DOMAIN fs : i < j => r[i].url <= r[j].url
<1>1. n \in Nat /\ DOMAIN fs = D /\ IsFiniteSet(D) /\ Cardinality(D) = n
  <2>1. n \in Nat /\ DOMAIN fs = D
    OBVIOUS
  <2> HIDE DEF n
  <2>2. IsFiniteSet(D) /\ Cardinality(D) = n
    BY <2>1, FS_Interval
  <2> QED
    BY <2>1, <2>2
<1>2. \A j \in D : fs[j] \in Results /\ fs[j].url \in Nat
  <2>1. \A x \in Results : x.url \in Tasks
    BY DEF Results
  <2> QED
    BY <1>1, <2>1, TasksAreFinite
<1>3. \A i, j \in D : fs[i].url = fs[j].url => i = j
  BY <1>1 DEF UrlsOf, IsInjective
<1>4. ASSUME NEW j \in D
      PROVE  /\ IsFiniteSet(Before(j)) /\ Cardinality(Before(j)) \in Nat
             /\ Cardinality(Before(j)) + 1 \in D
  <2>1. Before(j) \in SUBSET D /\ j \notin Before(j)
    BY <1>2
  <2> HIDE DEF Before, D
  <2>2. /\ IsFiniteSet(Before(j)) /\ Cardinality(Before(j)) <= n
        /\ Cardinality(D) = Cardinality(Before(j)) => D = Before(j)
    BY <1>1, <2>1, FS_Subset
  <2>3. Cardinality(Before(j)) \in Nat
    BY <2>2, FS_CardinalityType
  <2>4. Cardinality(Before(j)) # n
    BY <1>1, <1>4, <2>1, <2>2
  <2>5. Cardinality(Before(j)) + 1 \in 1..n
    BY <1>1, <2>2, <2>3, <2>4
  <2> QED
    BY <2>2, <2>3, <2>5 DEF D
<1>5. ASSUME NEW i \in D, NEW j \in D, fs[i].url < fs[j].url
      PROVE  Cardinality(Before(i)) < Cardinality(Before(j))
  <2>1. Before(i) \in SUBSET Before(j) /\ i \in Before(j) /\ i \notin Before(i)
    BY <1>2, <1>5
  <2>2. IsFiniteSet(Before(j)) /\ Cardinality(Before(i)) \in Nat /\ Cardinality(Before(j)) \in Nat
    BY <1>1, <1>4
  <2> HIDE DEF Before
  <2>3. /\ Cardinality(Before(i)) <= Cardinality(Before(j))
        /\ Cardinality(Before(j)) = Cardinality(Before(i)) => Before(j) = Before(i)
    BY <2>1, <2>2, FS_Subset
  <2> QED
    BY <2>1, <2>2, <2>3
<1> HIDE DEF Before
<1>6. rank \in Injection(D, D)
  <2>1. \A j \in D : rank[j] \in D
    BY <1>1, <1>4
  <2>2. ASSUME NEW i \in D, NEW j \in D, rank[i] = rank[j] PROVE i = j
    <3>1. ~(fs[i].url < fs[j].url) /\ ~(fs[j].url < fs[i].url)
      BY <1>1, <1>4, <1>5, <2>2
    <3> QED
      BY <1>2, <1>3, <3>1
  <2> HIDE DEF D, rank
  <2> QED
    <3>1. rank \in [D -> D]
      BY <2>1 DEF rank
    <3> QED
      BY <2>2, <3>1 DEF Injection, IsInjective
<1>7. \A i \in D : \E j \in D : rank[j] = i
  <2>1. rank \in Surjection(D, D)
    <3> HIDE DEF D, rank
    <3> QED
      BY <1>1, <1>6, FS_Injection
  <2> HIDE DEF D, rank
  <2> QED
    BY <2>1 DEF Surjection
<1> DEFINE at == [i \in D |-> CHOOSE j \in D : rank[j] = i]
           r0 == [i \in D |-> fs[at[i]]]
<1>8. \A i \in D : at[i] \in D /\ rank[at[i]] = i
  <2> HIDE DEF D, rank
  <2> QED
    BY <1>7
<1>9. \A j \in D : at[rank[j]] = j
  <2>1. \A j \in D : rank[j] \in D
    BY <1>1, <1>4
  <2> HIDE DEF D, rank, at
  <2> QED
    BY <1>6, <1>8, <2>1 DEF Injection, IsInjective
<1>10. r0 \in [DOMAIN fs -> ToSet(fs)] /\ ToSet(r0) = ToSet(fs)
  <2>1. \A j \in D : rank[j] \in D
    BY <1>1, <1>4
  <2> HIDE DEF D, rank, at
  <2> QED
    BY <1>1, <1>8, <1>9, <2>1 DEF ToSet
<1>11. ASSUME NEW i \in D, NEW j \in D, i < j PROVE r0[i].url <= r0[j].url
  <2> DEFINE a == at[i]
             b == at[j]
  <2>1. a \in D /\ b \in D /\ rank[a] = i /\ rank[b] = j
    BY <1>8
  <2>2. r0[i] = fs[a] /\ r0[j] = fs[b]
    BY <1>11
  <2> HIDE DEF at, r0, a, b
  <2>3. rank[a] = Cardinality(Before(a)) + 1 /\ rank[b] = Cardinality(Before(b)) + 1
    BY <2>1
  <2>4. Cardinality(Before(a)) \in Nat /\ Cardinality(Before(b)) \in Nat
    BY <2>1, <1>1, <1>4
  <2>5. ~(fs[b].url < fs[a].url)
    BY <1>11, <2>1, <2>3, <2>4, <1>5
  <2> QED
    BY <1>2, <2>1, <2>2, <2>5
<1>12. InOrder(r0)
  BY <1>1, <1>10, <1>11
<1> DEFINE r == Sorted(fs)
<1>13. r \in [D -> ToSet(fs)] /\ InOrder(r)
  <2> HIDE DEF r0
  <2>1. r0 \in [DOMAIN fs -> ToSet(fs)] /\ InOrder(r0)
    BY <1>10, <1>12
  <2>2. r \in [DOMAIN fs -> ToSet(fs)] /\ InOrder(r)
    BY <2>1 DEF Sorted
  <2> QED
    BY <1>1, <2>2
<1> HIDE DEF r
<1>14. r \in Seq(Results) /\ Len(r) = n /\ DOMAIN r = D
  <2>1. ToSet(fs) \subseteq Results
    BY <1>1, <1>2 DEF ToSet
  <2>2. r \in [1..n -> Results]
    BY <1>13, <2>1
  <2> QED
    BY <1>1, <2>2
<1>15. Range(UrlsOf(r)) = Range(UrlsOf(fs))
  <2>1. Range(UrlsOf(r)) = {x.url : x \in ToSet(r)}
    BY DEF Range, UrlsOf, ToSet
  <2>2. Range(UrlsOf(fs)) = {x.url : x \in ToSet(fs)}
    BY DEF Range, UrlsOf, ToSet
  <2> QED
    BY <1>13, <2>1, <2>2
<1>16. IsInjective(UrlsOf(r))
  <2> DEFINE R == Range(UrlsOf(fs))
             f == UrlsOf(fs)
             g == UrlsOf(r)
  <2>1. f \in Injection(D, R) /\ f \in Surjection(D, R)
    BY <1>1 DEF UrlsOf, Range, Injection, Surjection, IsInjective
  <2>2. g \in Surjection(D, R)
    <3>1. g \in [D -> Range(g)] /\ g \in Surjection(D, Range(g))
      BY <1>14 DEF UrlsOf, Range, Surjection
    <3> QED
      BY <1>15, <3>1
  <2> HIDE DEF D, R, f, g
  <2>3. Cardinality(R) = Cardinality(D)
    BY <1>1, <2>1, FS_Surjection
  <2>4. g \in Injection(D, R)
    BY <1>1, <2>2, <2>3, FS_Surjection
  <2>5. DOMAIN g = D
    BY <2>2 DEF Surjection
  <2> QED
    BY <2>4, <2>5 DEF Injection, IsInjective, g
<1> QED
  BY <1>14, <1>15, <1>16 DEF r

-----------------------------------------------------------------------------
(* The probe pass.                                                          *)

\* The URLs of prober w are those at the places of its stride.
Mine(w) == {w + k * Cardinality(Probers) : k \in Nat}

\* Prober w has handed over the result of URL u.
HandedOver(u, w) == \E i \in Mine(w) : i \in DOMAIN URLs /\ URLs[i] = u /\ i < next[w]

Mains == {"probe", "plan", "prompt", "run", "returned", "drawn", "exit"}

ProbeType ==
  /\ main \in Mains
  /\ next \in [Probers -> Nat] /\ probeCh \in Seq(Results) /\ files \in Seq(Results)

\* A prober is at a place of its own or past the end; what has arrived or is on
\* its way has been handed over, and once; main waits until it has all.
ProbePass ==
  /\ \A w \in Probers : next[w] <= Len(URLs) => next[w] \in Mine(w)
  /\ \A u \in Range(UrlsOf(files)) \cup Range(UrlsOf(probeCh)) : \E w \in Probers : HandedOver(u, w)
  /\ IsInjective(UrlsOf(files)) /\ IsInjective(UrlsOf(probeCh))
  /\ Range(UrlsOf(files)) \cap Range(UrlsOf(probeCh)) = {}
  /\ main = "probe" => Len(files) < Len(URLs)
  /\ main \notin {"probe", "exit"} => Len(files) = Len(URLs)

ProbeInv == ProbeType /\ ProbePass

LEMMA ProductBound ==
  ASSUME NEW d \in Nat \ {0}, NEW p \in Nat PROVE d * p >= p
<1>1. d * p = (d - 1) * p + p /\ d - 1 \in Nat
  OBVIOUS
<1>2. (d - 1) * p \in Nat
  BY <1>1
<1> QED
  BY <1>1, <1>2

LEMMA StridesDiffer ==
  ASSUME NEW v \in Probers, NEW w \in Probers, NEW i \in Mine(v), i \in Mine(w)
  PROVE  v = w
<1> DEFINE p == Cardinality(Probers)
<1>1. p \in Nat \ {0} /\ Probers = 1..p
  BY ProbersAreSome
<1>2. PICK j \in Nat, k \in Nat : i = v + j * p /\ i = w + k * p
  BY DEF Mine
<1> HIDE DEF p
<1>3. ASSUME NEW a \in Nat, NEW b \in Nat, NEW x \in 1..p, NEW y \in 1..p,
             x + a * p = y + b * p, a < b
      PROVE  FALSE
  <2>1. b - a \in Nat \ {0} /\ b = a + (b - a)
    BY <1>3
  <2>2. b * p = a * p + (b - a) * p
    BY <1>1, <1>3, <2>1
  <2>3. (b - a) * p >= p
    BY <1>1, <2>1, ProductBound
  <2>4. a * p \in Nat /\ b * p \in Nat /\ (b - a) * p \in Nat
    BY <1>1, <2>1
  <2> QED
    BY <1>1, <1>3, <2>2, <2>3, <2>4
<1>4. j = k
  BY <1>1, <1>2, <1>3
<1>5. j * p \in Nat
  BY <1>1
<1> QED
  BY <1>1, <1>2, <1>4, <1>5

LEMMA ProbeInvInit == Init => ProbeInv
<1> SUFFICES ASSUME Init PROVE ProbeInv
  OBVIOUS
<1>1. /\ main = "probe" /\ next = [w \in Probers |-> w] /\ probeCh = <<>> /\ files = <<>>
  BY DEF Init
<1>2. ProbeType
  BY <1>1, ProbersAreSome DEF ProbeType, Mains
<1>3. \A w \in Probers : w \in Mine(w)
  <2>1. \A w \in Probers : w \in Nat /\ w = w + 0 * Cardinality(Probers)
    BY ProbersAreSome
  <2> QED
    BY <2>1 DEF Mine
<1>4. Range(UrlsOf(<<>>)) = {} /\ IsInjective(UrlsOf(<<>>)) /\ Len(<<>>) = 0
  <2>1. DOMAIN UrlsOf(<<>>) = {}
    BY DEF UrlsOf
  <2> QED
    BY <2>1 DEF Range, IsInjective
<1>5. ProbePass
  BY <1>1, <1>3, <1>4, TasksAreFinite DEF ProbePass
<1> QED
  BY <1>2, <1>5 DEF ProbeInv

LEMMA ProbeKeepsPass ==
  ASSUME ProbeInv, NEW w \in Probers, Probe(w), UNCHANGED main
  PROVE  ProbeInv'
<1> DEFINE p == Cardinality(Probers)
           n == Len(URLs)
<1> PICK i \in Nat : i = next[w]
  BY DEF ProbeInv, ProbeType
<1>1. p \in Nat \ {0} /\ Probers = 1..p /\ n \in Nat \ {0} /\ DOMAIN URLs = 1..n
  BY ProbersAreSome, TasksAreFinite
<1>2. i \in Nat /\ i <= n /\ i \in Mine(w) /\ i \in 1..n /\ files' = files
  <2>1. i \in Nat /\ i <= n /\ i \in Mine(w) /\ files' = files
    BY DEF ProbeInv, ProbeType, ProbePass, Probe
  <2>2. PICK k \in Nat : i = w + k * p
    BY <2>1 DEF Mine
  <2>3. k * p \in Nat /\ w \in Nat \ {0}
    BY <1>1
  <2>4. i \in 1..n
    BY <1>1, <2>1, <2>2, <2>3
  <2> QED
    BY <2>1, <2>4
<1>3. CASE /\ probeCh' = Append(probeCh, [url |-> URLs[i], ok |-> URLs[i] \notin Dead])
           /\ next' = [next EXCEPT ![w] = @ + p]
  <2> DEFINE r == [url |-> URLs[i], ok |-> URLs[i] \notin Dead]
  <2>1. r \in Results /\ r.url = URLs[i]
    BY <1>1, <1>2, TasksAreFinite DEF Results, Range
  <2>2. ProbeType'
    <3>1. next' \in [Probers -> Nat]
      BY <1>1, <1>2, <1>3 DEF ProbeInv, ProbeType
    <3> HIDE DEF r
    <3> QED
      BY <1>2, <1>3, <2>1, <3>1, AppendProperties DEF ProbeInv, ProbeType, r
  <2>3. i + p \in Mine(w)
    <3>1. PICK k \in Nat : i = w + k * p
      BY <1>2 DEF Mine
    <3> HIDE DEF p
    <3>2. (k + 1) * p = k * p + p /\ w \in Nat /\ k * p \in Nat
      BY <1>1
    <3>3. i + p = w + (k + 1) * p /\ k + 1 \in Nat
      BY <1>1, <3>1, <3>2
    <3> QED
      BY <3>3 DEF Mine, p
  <2>4. next'[w] = i + p /\ \A v \in Probers : v # w => next'[v] = next[v]
    BY <1>3 DEF ProbeInv, ProbeType
  <2>5. \A v \in Probers : next'[v] <= n => next'[v] \in Mine(v)
    BY <2>3, <2>4 DEF ProbeInv, ProbePass
  <2>6. /\ UrlsOf(probeCh') = Append(UrlsOf(probeCh), URLs[i])
        /\ UrlsOf(probeCh) \in Seq(Tasks) /\ URLs[i] \in Tasks
    <3> HIDE DEF r
    <3>1. r.url \in Tasks
      BY <2>1 DEF Results
    <3> QED
      BY <1>3, <2>1, <3>1, UrlsOfQueue DEF ProbeInv, ProbeType, r
  <2>7. URLs[i] \notin Range(UrlsOf(files)) \cup Range(UrlsOf(probeCh))
    <3> SUFFICES ASSUME NEW v \in Probers, HandedOver(URLs[i], v) PROVE FALSE
      BY DEF ProbeInv, ProbePass
    <3>1. PICK j \in Mine(v) : j \in DOMAIN URLs /\ URLs[j] = URLs[i] /\ j < next[v]
      BY DEF HandedOver
    <3>2. j = i
      BY <1>1, <1>2, <3>1, URLsAreDistinct DEF IsInjective
    <3>3. v = w
      BY <1>2, <3>1, <3>2, StridesDiffer
    <3> QED
      BY <1>2, <3>1, <3>2, <3>3
  <2>8. /\ IsInjective(UrlsOf(probeCh'))
        /\ Range(UrlsOf(probeCh')) = Range(UrlsOf(probeCh)) \cup {URLs[i]}
    <3> DEFINE q == UrlsOf(probeCh)
               u == URLs[i]
    <3>1. q \in Seq(Tasks) /\ u \in Tasks /\ IsInjective(q) /\ u \notin Range(q)
      BY <2>6, <2>7 DEF ProbeInv, ProbePass
    <3> HIDE DEF q, u
    <3>2. IsInjective(Append(q, u)) /\ Range(Append(q, u)) = Range(q) \cup {u}
      BY <3>1, AppendToInjective
    <3> QED
      BY <2>6, <3>2 DEF q, u
  <2>9. ASSUME NEW u \in Range(UrlsOf(files)) \cup Range(UrlsOf(probeCh))
        PROVE  \E v \in Probers : HandedOver(u, v)'
    <3>1. PICK v \in Probers : HandedOver(u, v)
      BY DEF ProbeInv, ProbePass
    <3>2. PICK j \in Mine(v) : j \in DOMAIN URLs /\ URLs[j] = u /\ j < next[v]
      BY <3>1 DEF HandedOver
    <3>3. j < next'[v]
      <4>1. j \in Nat /\ next[v] \in Nat
        BY <1>1, <3>2 DEF ProbeInv, ProbeType
      <4> QED
        BY <1>1, <2>4, <3>2, <4>1
    <3> QED
      BY <3>2, <3>3 DEF HandedOver
  <2>10. HandedOver(URLs[i], w)'
    <3>1. i < next'[w]
      BY <1>1, <1>2, <2>4
    <3> HIDE DEF p, n
    <3> QED
      BY <1>1, <1>2, <3>1 DEF HandedOver
  <2>11. ProbePass'
    <3>1. ASSUME NEW u \in Range(UrlsOf(files')) \cup Range(UrlsOf(probeCh'))
          PROVE  \E v \in Probers : HandedOver(u, v)'
      BY <1>2, <2>8, <2>9, <2>10
    <3> QED
      BY <1>2, <2>5, <2>7, <2>8, <3>1 DEF ProbeInv, ProbePass
  <2> QED
    BY <2>2, <2>11 DEF ProbeInv
<1>4. CASE next' = [next EXCEPT ![w] = n + 1] /\ UNCHANGED probeCh
  <2>1. ProbeType'
    BY <1>1, <1>2, <1>4 DEF ProbeInv, ProbeType
  <2>2. next'[w] = n + 1 /\ \A v \in Probers : v # w => next'[v] = next[v]
    BY <1>4 DEF ProbeInv, ProbeType
  <2>3. \A v \in Probers : next'[v] <= n => next'[v] \in Mine(v)
    BY <1>1, <2>2 DEF ProbeInv, ProbePass
  <2>4. ASSUME NEW u \in Range(UrlsOf(files)) \cup Range(UrlsOf(probeCh))
        PROVE  \E v \in Probers : HandedOver(u, v)'
    <3>1. PICK v \in Probers : HandedOver(u, v)
      BY DEF ProbeInv, ProbePass
    <3>2. PICK j \in Mine(v) : j \in DOMAIN URLs /\ URLs[j] = u /\ j < next[v]
      BY <3>1 DEF HandedOver
    <3>3. j < next'[v]
      BY <1>1, <1>2, <2>2, <3>2 DEF ProbeInv, ProbeType
    <3> QED
      BY <3>2, <3>3 DEF HandedOver
  <2>5. ProbePass'
    BY <1>2, <1>4, <2>3, <2>4 DEF ProbeInv, ProbePass
  <2> QED
    BY <2>1, <2>5 DEF ProbeInv
<1> QED
  BY <1>3, <1>4 DEF Probe

LEMMA ReceiveKeepsPass ==
  ASSUME ProbeInv, Receive
  PROVE  ProbeInv'
<1> DEFINE q == UrlsOf(probeCh)
           f == UrlsOf(files)
           r == Head(probeCh)
<1>1. /\ probeCh \in Seq(Results) /\ probeCh # <<>> /\ files \in Seq(Results)
      /\ files' = Append(files, r) /\ probeCh' = Tail(probeCh) /\ next' = next
      /\ main = "probe" /\ main' \in {"probe", "plan"}
  BY DEF ProbeInv, ProbeType, Receive
<1>2. r \in Results /\ r.url \in Tasks
  <2>1. r \in Results
    BY <1>1
  <2> QED
    BY <2>1 DEF Results
<1>3. ProbeType'
  <2>1. Tail(probeCh) \in Seq(Results) /\ Append(files, r) \in Seq(Results)
    BY <1>1, <1>2, HeadTailProperties, AppendProperties
  <2> QED
    BY <1>1, <2>1 DEF ProbeInv, ProbeType, Mains
<1>4. /\ q \in Seq(Tasks) /\ q # <<>> /\ Head(q) = r.url /\ UrlsOf(probeCh') = Tail(q)
      /\ f \in Seq(Tasks) /\ UrlsOf(files') = Append(f, r.url)
  <2> HIDE DEF r
  <2> QED
    BY <1>1, <1>2, UrlsOfQueue DEF r
<1>5. /\ IsInjective(q) /\ IsInjective(f) /\ Range(f) \cap Range(q) = {}
      /\ \A u \in Range(f) \cup Range(q) : \E v \in Probers : HandedOver(u, v)
  BY DEF ProbeInv, ProbePass
<1> DEFINE u0 == r.url
<1> HIDE DEF q, f, r
<1>6. /\ u0 \in Range(q) /\ IsInjective(Tail(q)) /\ Range(Tail(q)) = Range(q) \ {u0}
  BY <1>4, <1>5, TailOfInjective
<1>7. IsInjective(Append(f, u0)) /\ Range(Append(f, u0)) = Range(f) \cup {u0}
  <2>1. u0 \in Tasks /\ u0 \notin Range(f)
    BY <1>2, <1>5, <1>6
  <2> HIDE DEF u0
  <2> QED
    BY <1>4, <1>5, <2>1, AppendToInjective
<1>8. \A u \in Range(f) \cup Range(q) : \E v \in Probers : HandedOver(u, v)'
  BY <1>1, <1>5 DEF HandedOver
<1>9. Len(files') = Len(files) + 1 /\ Len(files) \in Nat /\ Len(files) < Len(URLs)
  <2>1. Len(Append(files, r)) = Len(files) + 1 /\ Len(files) \in Nat
    BY <1>1, <1>2, AppendProperties
  <2> QED
    BY <1>1, <2>1 DEF ProbeInv, ProbePass
<1>10. main' = IF Len(files') = Len(URLs) THEN "plan" ELSE "probe"
  BY DEF Receive
<1>11. /\ Range(UrlsOf(files')) = Range(f) \cup {u0}
       /\ Range(UrlsOf(probeCh')) = Range(q) \ {u0}
       /\ IsInjective(UrlsOf(files')) /\ IsInjective(UrlsOf(probeCh'))
  BY <1>4, <1>6, <1>7
<1>12. ProbePass'
  <2>1. \A w \in Probers : next'[w] <= Len(URLs) => next'[w] \in Mine(w)
    BY <1>1 DEF ProbeInv, ProbePass
  <2>2. \A u \in Range(UrlsOf(files')) \cup Range(UrlsOf(probeCh')) :
          \E v \in Probers : HandedOver(u, v)'
    BY <1>6, <1>8, <1>11
  <2>3. Range(UrlsOf(files')) \cap Range(UrlsOf(probeCh')) = {}
    BY <1>5, <1>11
  <2>4. /\ main' = "probe" => Len(files') < Len(URLs)
        /\ main' \notin {"probe", "exit"} => Len(files') = Len(URLs)
    BY <1>9, <1>10, TasksAreFinite
  <2> QED
    BY <1>11, <2>1, <2>2, <2>3, <2>4 DEF ProbePass
<1> QED
  BY <1>3, <1>12 DEF ProbeInv

LEMMA ExitKeepsPass ==
  ASSUME ProbeInv, NEW c, ExitWith(c)
  PROVE  ProbeInv'
<1>1. /\ main' = "exit" /\ next' = [w \in Probers |-> Len(URLs) + 1] /\ probeCh' = <<>>
      /\ files' = files
  BY DEF ExitWith
<1>2. ProbeType'
  BY <1>1, TasksAreFinite DEF ProbeInv, ProbeType, Mains
<1>3. Range(UrlsOf(probeCh')) = {} /\ IsInjective(UrlsOf(probeCh'))
  <2>1. DOMAIN UrlsOf(<<>>) = {}
    BY DEF UrlsOf
  <2> QED
    BY <1>1, <2>1 DEF Range, IsInjective
<1>4. ASSUME NEW u \in Range(UrlsOf(files)) PROVE \E v \in Probers : HandedOver(u, v)'
  <2>1. PICK v \in Probers : HandedOver(u, v)
    BY DEF ProbeInv, ProbePass
  <2>2. PICK j \in Mine(v) : j \in DOMAIN URLs /\ URLs[j] = u
    BY <2>1 DEF HandedOver
  <2>3. j < next'[v]
    BY <1>1, <2>2, TasksAreFinite
  <2> QED
    BY <2>2, <2>3 DEF HandedOver
<1>5. \A w \in Probers : ~(next'[w] <= Len(URLs))
  BY <1>1, TasksAreFinite
<1>6. ProbePass'
  BY <1>1, <1>3, <1>4, <1>5 DEF ProbeInv, ProbePass
<1> QED
  BY <1>2, <1>6 DEF ProbeInv

LEMMA StartKeepsPass ==
  ASSUME ProbeInv, main \in {"plan", "prompt"}, StartRun
  PROVE  ProbeInv'
<1>1. main' = "run" /\ next' = next /\ probeCh' = probeCh /\ files' = Sorted(files)
  BY DEF StartRun
<1>2. /\ Sorted(files) \in Seq(Results) /\ Len(Sorted(files)) = Len(files)
      /\ IsInjective(UrlsOf(Sorted(files)))
      /\ Range(UrlsOf(Sorted(files))) = Range(UrlsOf(files))
  BY SortedIsWhole DEF ProbeInv, ProbeType, ProbePass
<1>3. ProbeType'
  BY <1>1, <1>2 DEF ProbeInv, ProbeType, Mains
<1>4. \A u : \A v \in Probers : HandedOver(u, v) => HandedOver(u, v)'
  BY <1>1 DEF HandedOver
<1>5. ProbePass'
  BY <1>1, <1>2, <1>4 DEF ProbeInv, ProbePass
<1> QED
  BY <1>3, <1>5 DEF ProbeInv

\* What leaves the probe pass alone keeps it, however main goes on.
LEMMA OthersKeepPass ==
  ASSUME ProbeInv, UNCHANGED probeVars,
         \/ main' = main
         \/ main \notin {"probe", "exit"} /\ main' \in Mains \ {"probe"}
  PROVE  ProbeInv'
<1>1. next' = next /\ probeCh' = probeCh /\ files' = files
  BY DEF probeVars
<1>2. \A u : \A v \in Probers : HandedOver(u, v) => HandedOver(u, v)'
  BY <1>1 DEF HandedOver
<1>3. ProbeType'
  BY <1>1 DEF ProbeInv, ProbeType
<1>4. ProbePass'
  BY <1>1, <1>2 DEF ProbeInv, ProbePass
<1> QED
  BY <1>3, <1>4 DEF ProbeInv

-----------------------------------------------------------------------------
(* Where main, Run and the renderer's goroutine are.                        *)

Flow ==
  /\ main \in Mains
  /\ loop \in {"off", "start", "select", "admit", "emit", "over"}
  /\ ending \in {"no", "done", "cancelled"}
  /\ ui \in {"off", "loop", "ending", "ended"}
  /\ main \in {"probe", "plan", "prompt"} => loop = "off"
  /\ main = "run" => loop \in {"start", "select", "admit", "emit"} /\ ui = "loop"
  /\ main \in {"returned", "drawn"} => loop = "over" /\ ui # "off"
  /\ main = "drawn" => ui = "ended"
  /\ main = "exit" => loop \in {"off", "over"} /\ ui \in {"off", "ended"}
  /\ loop = "off" <=> ui = "off"
  /\ loop = "off" => ending = "no"
  /\ loop = "over" => ending # "no"

\* What a step of main does.
Leaves == \E c : ExitWith(c)

Starts == main \in {"plan", "prompt"} /\ StartRun

Asks == /\ main = "plan" /\ main' = "prompt"
        /\ UNCHANGED <<code, signalled, probeVars, poolVars, loopVars, taskVars, chanVars, ui, screen>>

LEMMA StepsOfMain ==
  ASSUME MainTurn \/ AnswerTurn
  PROVE  Up /\ (Leaves \/ Starts \/ Asks \/ LastFrame)
<1>1. CASE MainTurn
  <2>1. CASE CancelProbe
    BY <1>1, <2>1 DEF MainTurn, CancelProbe, Leaves
  <2>2. CASE Plan
    BY <1>1, <2>2 DEF MainTurn, Plan, Leaves, Starts, Asks
  <2>3. CASE LastFrame
    BY <1>1, <2>3 DEF MainTurn
  <2>4. CASE main = "drawn" /\ ExitWith(ExitCode)
    BY <1>1, <2>4 DEF MainTurn, Leaves
  <2> QED
    BY <1>1, <2>1, <2>2, <2>3, <2>4 DEF MainTurn, MainStep
<1>2. CASE AnswerTurn
  BY <1>2 DEF AnswerTurn, Answer, Leaves, Starts
<1> QED
  BY <1>1, <1>2

LEMMA RunStepMoves ==
  ASSUME RunStep, Flow, Up
  PROVE  /\ loop # "off" /\ main \in {"run", "returned", "drawn"}
         /\ \/ UNCHANGED <<main, loop, ending>>
            \/ main = "run" /\ RunReturns
            \/ /\ main = "run" /\ main' = "run"
               /\ loop' \in {"start", "select", "admit", "emit"}
               /\ ending' \in {"no", "done", "cancelled"}
<1>1. loop # "off"
  BY DEF RunStep, AdmitFirst, AdmitNext, Retire, WaitReturns, SeeDone, SeeCancel, RunReturns, EmitLoop
<1>2. main \in {"run", "returned", "drawn"} /\ (loop # "over" => main = "run")
  BY <1>1 DEF Flow, Up, Mains
<1>3. CASE AdmitFirst
  BY <1>2, <1>3 DEF AdmitFirst, Flow
<1>4. CASE AdmitNext
  BY <1>2, <1>4 DEF AdmitNext, Flow
<1>5. CASE \E t \in Tasks : Retire(t)
  BY <1>2, <1>5 DEF Retire, Flow
<1>6. CASE WaitReturns
  BY <1>2, <1>6 DEF WaitReturns
<1>7. CASE SeeDone
  BY <1>2, <1>7 DEF SeeDone, Flow
<1>8. CASE SeeCancel
  BY <1>2, <1>8 DEF SeeCancel, Flow
<1>9. CASE RunReturns
  BY <1>2, <1>9 DEF RunReturns
<1>10. CASE EmitLoop
  BY <1>2, <1>10 DEF EmitLoop, Flow
<1> QED
  BY <1>1, <1>2, <1>3, <1>4, <1>5, <1>6, <1>7, <1>8, <1>9, <1>10 DEF RunStep

LEMMA FlowHolds ==
  /\ Init => Flow
  /\ Flow /\ [Next]_vars => Flow'
<1>1. Init => Flow
  BY DEF Init, Flow, Mains
<1>2. ASSUME Flow, [Next]_vars PROVE Flow'
  <2>1. CASE \E w \in Probers : ProbeTurn(w)
    BY <1>2, <2>1 DEF Flow, ProbeTurn, mainVars, BesideProbe, loopVars
  <2>2. CASE ReceiveTurn
    BY <1>2, <2>2 DEF Flow, Mains, ReceiveTurn, Receive, BesideProbe, loopVars
  <2>3. CASE MainTurn \/ AnswerTurn
    <3>1. CASE Leaves
      <4>1. main \notin {"returned", "run"} => Flow'
        BY <1>2, <3>1 DEF Leaves, ExitWith, Flow, Mains, loopVars
      <4>2. main \notin {"returned", "run"}
        BY <2>3, <3>1 DEF MainTurn, AnswerTurn, MainStep, CancelProbe, Plan, Answer, LastFrame, Leaves, ExitWith
      <4> QED
        BY <4>1, <4>2
    <3>2. CASE Starts
      BY <1>2, <3>2 DEF Starts, StartRun, Flow, Mains
    <3>3. CASE Asks
      BY <1>2, <3>3 DEF Asks, Flow, Mains, loopVars
    <3>4. CASE LastFrame
      BY <1>2, <3>4 DEF LastFrame, LoopGone, Flow, Mains, loopVars
    <3> QED
      BY <2>3, <3>1, <3>2, <3>3, <3>4, StepsOfMain
  <2>4. CASE SignalTurn
    BY <1>2, <2>4 DEF SignalTurn, Signal, Flow, loopVars
  <2>5. CASE RunTurn
    <3>1. RunStep /\ Up /\ ui' = ui
      BY <2>5 DEF RunTurn, BesideRun
    <3>2. CASE RunReturns
      BY <1>2, <3>1, <3>2 DEF RunReturns, Flow, Mains
    <3>3. CASE ~RunReturns
      BY <1>2, <3>1, <3>3, RunStepMoves DEF Flow, Mains
    <3> QED
      BY <3>2, <3>3
  <2>6. CASE \E t \in Tasks : TaskTurn(t) \/ TransferTurn(t)
    BY <1>2, <2>6 DEF TaskTurn, TransferTurn, BesideTask, mainVars, loopVars, Flow
  <2>7. CASE DrawTurn
    BY <1>2, <2>7 DEF DrawTurn, TakeSnap, TakeQueued, Tick, Log, BesideUi, mainVars, loopVars, Flow
  <2>8. CASE EndTurn
    BY <1>2, <2>8 DEF EndTurn, EndLoop, CloseDone, BesideUi, mainVars, loopVars, Flow, Up
  <2>9. CASE UNCHANGED vars
    BY <1>2, <2>9 DEF vars, mainVars, loopVars, Flow
  <2> QED
    BY <1>2, <2>1, <2>2, <2>3, <2>4, <2>5, <2>6, <2>7, <2>8, <2>9 DEF Next
<1> QED
  BY <1>1, <1>2

LEMMA ProbeInvHolds ==
  ASSUME ProbeInv, Flow, [Next]_vars PROVE ProbeInv'
<1>1. CASE \E w \in Probers : ProbeTurn(w)
  BY <1>1, ProbeKeepsPass DEF ProbeTurn, mainVars
<1>2. CASE ReceiveTurn
  BY <1>2, ReceiveKeepsPass DEF ReceiveTurn
<1>3. CASE MainTurn \/ AnswerTurn
  <2>1. CASE Leaves
    BY <2>1, ExitKeepsPass DEF Leaves
  <2>2. CASE Starts
    BY <2>2, StartKeepsPass DEF Starts
  <2>3. CASE Asks \/ LastFrame
    <3>1. UNCHANGED probeVars /\ main \notin {"probe", "exit"} /\ main' \in Mains \ {"probe"}
      BY <2>3 DEF Asks, LastFrame, Mains
    <3> QED
      BY <3>1, OthersKeepPass
  <2> QED
    BY <1>3, <2>1, <2>2, <2>3, StepsOfMain
<1>4. CASE SignalTurn
  BY <1>4, OthersKeepPass DEF SignalTurn, Signal
<1>5. CASE RunTurn
  <2>1. RunStep /\ Up /\ UNCHANGED probeVars
    BY <1>5 DEF RunTurn, BesideRun
  <2>2. \/ main' = main
        \/ main = "run" /\ main' \in {"run", "returned"}
    BY <2>1, RunStepMoves DEF RunReturns
  <2> QED
    BY <2>1, <2>2, OthersKeepPass DEF Mains
<1>6. CASE \E t \in Tasks : TaskTurn(t) \/ TransferTurn(t)
  BY <1>6, OthersKeepPass DEF TaskTurn, TransferTurn, BesideTask, mainVars
<1>7. CASE DrawTurn \/ EndTurn
  BY <1>7, OthersKeepPass DEF DrawTurn, EndTurn, BesideUi, mainVars
<1>8. CASE UNCHANGED vars
  BY <1>8, OthersKeepPass DEF vars, mainVars
<1> QED
  BY <1>1, <1>2, <1>3, <1>4, <1>5, <1>6, <1>7, <1>8 DEF Next

LEMMA PassPlansAll == ProbeInv => PlanIsWhole
<1> SUFFICES ASSUME ProbeInv, main \notin {"probe", "exit"}, NEW u \in Tasks
             PROVE  Cardinality({i \in DOMAIN files : files[i].url = u}) = 1
  BY DEF PlanIsWhole
<1> DEFINE f == UrlsOf(files)
           D == 1..Len(URLs)
<1>1. /\ files \in Seq(Results) /\ Len(files) = Len(URLs) /\ IsInjective(f)
  BY DEF ProbeInv, ProbeType, ProbePass
<1>2. f \in Seq(Tasks) /\ DOMAIN f = D /\ DOMAIN files = D /\ Len(URLs) \in Nat
  <2>1. f \in Seq(Tasks) /\ DOMAIN f = DOMAIN files
    <3>1. PICK t \in Tasks : TRUE
      OBVIOUS
    <3>2. [url |-> t, ok |-> TRUE] \in Results
      BY DEF Results
    <3> QED
      BY <1>1, <3>2, UrlsOfQueue
  <2> QED
    BY <1>1, <2>1, TasksAreFinite
<1>3. f \in Surjection(D, Tasks)
  <2>1. f \in Injection(D, Tasks)
    BY <1>1, <1>2 DEF Injection, IsInjective
  <2>2. Cardinality(D) = Cardinality(Tasks)
    BY TasksAreFinite, FS_Interval
  <2> HIDE DEF f, D
  <2> QED
    BY <2>1, <2>2, TasksAreFinite, FS_Injection
<1>4. PICK i \in D : f[i] = u
  <2> HIDE DEF f, D
  <2> QED
    BY <1>3 DEF Surjection
<1>5. {j \in DOMAIN files : files[j].url = u} = {i}
  <2>1. \A j \in D : f[j] = files[j].url
    BY <1>2 DEF UrlsOf
  <2> HIDE DEF f
  <2> QED
    BY <1>1, <1>2, <1>4, <2>1 DEF IsInjective
<1> QED
  BY <1>5, FS_Singleton

\* Every URL is probed and planned exactly once, whichever probe answers first
\* and however often it was given.
THEOREM EveryURLIsPlannedOnce == Spec => []PlanIsWhole
<1>1. Init => Flow /\ ProbeInv
  BY FlowHolds, ProbeInvInit
<1>2. Flow /\ ProbeInv /\ [Next]_vars => (Flow /\ ProbeInv)'
  BY FlowHolds, ProbeInvHolds
<1> QED
  BY <1>1, <1>2, PassPlansAll, PTL DEF Spec

-----------------------------------------------------------------------------
(* What everything else ranges over.                                        *)

Frames == UNION {[S -> Ui!Views] : S \in SUBSET Tasks}

\* A view says that all bytes are there, by their number or by being complete.
Claims(v) == v.bytes = "all" \/ (v.sized /\ v.state = "completed")

Full == {t \in Tasks : task[t].bytes = "all"}

\* Frames that claim nothing that is not so: what is read of the tasks, and what
\* the channels and the renderer hold of it later.
Trusted == {f \in Frames : \A t \in DOMAIN f : Claims(f[t]) => t \in Full}

Phases == {"new", "active", "verify", "final", "told", "posted"}

PoolType == waiting \in Seq(Tasks) /\ running \in SUBSET Tasks /\ finished \in SUBSET Tasks

LoopType == doneCh \in BOOLEAN /\ good \in Nat /\ bad \in Nat

TaskType == task \in [Tasks -> Ui!Views] /\ phase \in [Tasks -> Phases]

ChanType == live \in [Emitters -> Seq(Trusted)] /\ snap \in Seq(Trusted) /\ qSnap \in Seq(Trusted)

ScreenType == cache \in Trusted /\ lastLive \in Trusted /\ lastQueue \in Trusted

\* No task runs before Run; one that waits is queued, one that is at its
\* checksum has its bytes, and none claims what it has not.
TaskSound ==
  /\ loop = "off" => running = {} /\ \A t \in Tasks : phase[t] = "new"
  /\ \A t \in Tasks :
       /\ phase[t] = "new" => task[t].state = "queued"
       /\ phase[t] = "verify" /\ task[t].sized => t \in Full
       /\ Claims(task[t]) => t \in Full

Types == PoolType /\ LoopType /\ TaskType /\ TaskSound /\ ChanType /\ ScreenType

\* What the steps of the probe pass, the prompt and the signal leave alone.
Aside == UNCHANGED <<code, poolVars, loopVars, taskVars, chanVars, ui, screen>>

LEMMA Kinds ==
  ASSUME [Next]_vars
  PROVE  \/ Aside /\ (main' = main \/ (main' # "exit" /\ main \in {"probe", "plan"}))
         \/ Up /\ Leaves
         \/ Starts \/ LastFrame
         \/ RunTurn
         \/ \E t \in Tasks : TaskTurn(t) \/ TransferTurn(t)
         \/ DrawTurn \/ EndTurn
<1>1. CASE \E w \in Probers : ProbeTurn(w)
  BY <1>1 DEF ProbeTurn, mainVars, BesideProbe, Aside
<1>2. CASE ReceiveTurn
  BY <1>2 DEF ReceiveTurn, Receive, BesideProbe, Aside
<1>3. CASE MainTurn \/ AnswerTurn
  <2>1. CASE Asks
    BY <2>1 DEF Asks, Aside
  <2> QED
    BY <1>3, <2>1, StepsOfMain
<1>4. CASE SignalTurn
  BY <1>4 DEF SignalTurn, Signal, Aside
<1>5. CASE UNCHANGED vars
  BY <1>5 DEF vars, mainVars, Aside
<1> QED
  BY <1>1, <1>2, <1>3, <1>4, <1>5 DEF Next

LEMMA FrameIs ==
  ASSUME NEW v
  PROVE  v \in Frames <=> DOMAIN v \in SUBSET Tasks /\ v \in [DOMAIN v -> Ui!Views]
BY DEF Frames

LEMMA NothingIsTrusted == Ui!Nothing \in Trusted /\ DOMAIN Ui!Nothing = {}
<1>1. DOMAIN Ui!Nothing = {} /\ Ui!Nothing \in [{} -> Ui!Views]
  BY DEF Ui!Nothing
<1> QED
  BY <1>1 DEF Frames, Trusted

\* What was true of a task's bytes stays so.
LEMMA TrustLasts ==
  ASSUME Full \in SUBSET Full'
  PROVE  Trusted \in SUBSET Trusted'
BY DEF Trusted

LEMMA ViewsAreTrusted ==
  ASSUME TaskType, TaskSound, NEW S \in SUBSET Tasks
  PROVE  ViewsOf(S) \in Trusted
<1>1. ViewsOf(S) \in [S -> Ui!Views]
  BY DEF TaskType, ViewsOf
<1>2. \A t \in S : ViewsOf(S)[t] = task[t]
  BY DEF ViewsOf
<1> QED
  BY <1>1, <1>2 DEF Frames, Trusted, TaskSound

LEMMA OfferedIsAQueue ==
  ASSUME NEW q \in Seq(Trusted), NEW v \in Trusted
  PROVE  Offered(q, v) \in Seq(Trusted)
BY AppendProperties DEF Offered

\* Clamp, Retired and Repair make no claim of their own.
LEMMA NoNewClaims ==
  ASSUME NEW v \in Ui!Views
  PROVE  /\ Ui!Clamp(v) \in Ui!Views /\ (Claims(Ui!Clamp(v)) => Claims(v))
         /\ Ui!Retired(v) \in Ui!Views /\ (Claims(Ui!Retired(v)) => Claims(v))
         /\ Ui!Repair(v) \in Ui!Views /\ (Claims(Ui!Repair(v)) => Claims(v))
BY DEF Ui!Views, Ui!Clamp, Ui!Retired, Ui!Repair, Ui!Terminal, Ui!Whole, Claims

LEMMA UpdateIsTrusted ==
  ASSUME cache \in Trusted, NEW l \in Trusted, NEW q \in Trusted
  PROVE  Ui!UpdateCache(l, q) \in Trusted
<1>1. /\ DOMAIN cache \in SUBSET Tasks /\ DOMAIN l \in SUBSET Tasks /\ DOMAIN q \in SUBSET Tasks
      /\ cache \in [DOMAIN cache -> Ui!Views] /\ l \in [DOMAIN l -> Ui!Views]
      /\ q \in [DOMAIN q -> Ui!Views]
  BY FrameIs DEF Trusted
<1> DEFINE S == DOMAIN cache \cup DOMAIN l \cup DOMAIN q
           u == Ui!UpdateCache(l, q)
<1>2. u = [t \in S |-> IF t \in DOMAIN q THEN Ui!Clamp(q[t])
                        ELSE IF t \in DOMAIN l THEN l[t] ELSE Ui!Retired(cache[t])]
  BY DEF Ui!UpdateCache
<1> HIDE DEF u
<1>3. ASSUME NEW t \in S PROVE u[t] \in Ui!Views /\ (Claims(u[t]) => t \in Full)
  <2>1. CASE t \in DOMAIN q
    <3>1. u[t] = Ui!Clamp(q[t]) /\ q[t] \in Ui!Views /\ (Claims(q[t]) => t \in Full)
      BY <1>1, <1>2, <2>1 DEF Trusted
    <3> QED
      BY <3>1, NoNewClaims
  <2>2. CASE t \notin DOMAIN q /\ t \in DOMAIN l
    <3>1. u[t] = l[t] /\ l[t] \in Ui!Views /\ (Claims(l[t]) => t \in Full)
      BY <1>1, <1>2, <2>2 DEF Trusted
    <3> QED
      BY <3>1
  <2>3. CASE t \notin DOMAIN q /\ t \notin DOMAIN l
    <3>1. u[t] = Ui!Retired(cache[t]) /\ cache[t] \in Ui!Views /\ (Claims(cache[t]) => t \in Full)
      BY <1>1, <1>2, <2>3 DEF Trusted
    <3> QED
      BY <3>1, NoNewClaims
  <2> QED
    BY <2>1, <2>2, <2>3
<1>4. u \in [S -> Ui!Views] /\ S \in SUBSET Tasks /\ DOMAIN u = S
  BY <1>1, <1>2, <1>3
<1> QED
  BY <1>3, <1>4 DEF Frames, Trusted, u

LEMMA RepairIsTrusted ==
  ASSUME cache \in Trusted
  PROVE  [t \in DOMAIN cache |-> Ui!Repair(cache[t])] \in Trusted
<1>1. DOMAIN cache \in SUBSET Tasks /\ cache \in [DOMAIN cache -> Ui!Views]
  BY FrameIs DEF Trusted
<1> DEFINE u == [t \in DOMAIN cache |-> Ui!Repair(cache[t])]
<1>2. ASSUME NEW t \in DOMAIN cache PROVE u[t] \in Ui!Views /\ (Claims(u[t]) => t \in Full)
  <2>1. u[t] = Ui!Repair(cache[t]) /\ cache[t] \in Ui!Views /\ (Claims(cache[t]) => t \in Full)
    BY <1>1 DEF Trusted
  <2> QED
    BY <2>1, NoNewClaims
<1>3. u \in [DOMAIN cache -> Ui!Views] /\ DOMAIN u = DOMAIN cache
  BY <1>2
<1> HIDE DEF u
<1>4. u \in Trusted
  BY <1>1, <1>2, <1>3 DEF Frames, Trusted
<1> QED
  BY <1>4 DEF u

LEMMA TypesInit == Init => Types
<1> SUFFICES ASSUME Init PROVE Types
  OBVIOUS
<1>1. PoolType
  BY DEF Init, Pool!Init, PoolType
<1> LoopType
  BY DEF Init, LoopType
<1>2. TaskType
  BY DEF Init, TaskType, Phases, Ui!Views
<1>3. ChanType
  BY DEF Init, ChanType
<1>4. ScreenType
  BY NothingIsTrusted DEF Init, Ui!Init, ScreenType
<1>5. TaskSound
  BY DEF Init, Pool!Init, TaskSound, Claims
<1> QED
  BY <1>1, <1>2, <1>3, <1>4, <1>5 DEF Types

\* What goes through the channels.
LEMMA ReadLiveTypes ==
  ASSUME Types, NEW e \in Emitters, ReadLive(e)
  PROVE  /\ live' \in [Emitters -> Seq(Trusted)]
         /\ snap' \in Seq(Trusted) /\ qSnap' \in Seq(Trusted)
<1>1. ViewsOf(running) \in Trusted
  BY ViewsAreTrusted DEF Types, PoolType
<1> QED
  BY <1>1 DEF Types, ChanType, ReadLive

LEMMA PublishTypes ==
  ASSUME Types, NEW e \in Emitters, Publish(e)
  PROVE  /\ live' \in [Emitters -> Seq(Trusted)]
         /\ snap' \in Seq(Trusted) /\ qSnap' \in Seq(Trusted)
<1>1. live[e] \in Seq(Trusted) /\ live[e] # <<>>
  BY DEF Types, ChanType, Publish
<1>2. live[e][1] \in Trusted
  BY <1>1
<1>3. ToSet(waiting) \in SUBSET Tasks
  BY DEF Types, PoolType, ToSet
<1>4. ViewsOf(ToSet(waiting)) \in Trusted
  BY <1>3, ViewsAreTrusted DEF Types
<1>5. snap' \in Seq(Trusted) /\ qSnap' \in Seq(Trusted)
  BY <1>2, <1>4, OfferedIsAQueue DEF Types, ChanType, Publish
<1> QED
  BY <1>5 DEF Types, ChanType, Publish

\* A step of a task, whose view stays sound and loses no bytes.
LEMMA BecomeTypes ==
  ASSUME Types, NEW t \in Tasks, NEW v \in Ui!Views, NEW p \in Phases, Become(t, v, p),
         UNCHANGED <<loop, running>>, phase[t] # "new" \/ t \in running,
         p # "new", p = "verify" /\ v.sized => v.bytes = "all", Claims(v) => v.bytes = "all",
         task[t].bytes = "all" => v.bytes = "all"
  PROVE  TaskType' /\ TaskSound' /\ Full \in SUBSET Full'
<1>1. TaskType'
  BY DEF Types, TaskType, Become
<1>2. /\ task'[t] = v /\ phase'[t] = p
      /\ \A s \in Tasks : s # t => task'[s] = task[s] /\ phase'[s] = phase[s]
  BY DEF Types, TaskType, Become
<1>3. Full \in SUBSET Full'
  BY <1>2 DEF Full
<1>4. loop' = "off" => running' = {} /\ \A s \in Tasks : phase'[s] = "new"
  BY <1>2 DEF Types, TaskSound
<1>5. ASSUME NEW s \in Tasks
      PROVE  /\ phase'[s] = "new" => task'[s].state = "queued"
             /\ phase'[s] = "verify" /\ task'[s].sized => s \in Full'
             /\ Claims(task'[s]) => s \in Full'
  <2>1. CASE s = t
    BY <1>2, <2>1 DEF Full
  <2>2. CASE s # t
    BY <1>2, <1>3, <2>2 DEF Types, TaskSound
  <2> QED
    BY <2>1, <2>2
<1> QED
  BY <1>1, <1>3, <1>4, <1>5 DEF TaskSound

LEMMA TaskTurnTypes ==
  ASSUME Types, NEW t \in Tasks, TaskTurn(t) \/ TransferTurn(t)
  PROVE  Types'
<1>1. t \in Emitters /\ task[t] \in Ui!Views
  BY DEF Emitters, Types, TaskType
<1>2. PoolType' /\ LoopType' /\ UNCHANGED <<loop, running, screen>>
  BY DEF TaskTurn, TransferTurn, BesideTask, poolVars, loopVars, Types, PoolType, LoopType
<1>3. Full \in SUBSET Full' => Trusted \in SUBSET Trusted' /\ ScreenType'
  BY <1>2, TrustLasts DEF Types, ScreenType, screen
<1>4. CASE /\ task' = task /\ phase' \in [Tasks -> Phases]
           /\ \A s \in Tasks : \/ phase'[s] = phase[s]
                              \/ /\ phase[s] \in {"final", "told"}
                                 /\ phase'[s] \in {"told", "posted"}
           /\ live' \in [Emitters -> Seq(Trusted)]
           /\ snap' \in Seq(Trusted) /\ qSnap' \in Seq(Trusted)
  <2>1. Full' = Full /\ Trusted' = Trusted
    BY <1>4 DEF Full, Trusted
  <2>2. TaskType' /\ ChanType'
    BY <1>4, <2>1 DEF Types, TaskType, ChanType
  <2>3. TaskSound'
    <3>1. loop' = "off" => running' = {} /\ \A s \in Tasks : phase'[s] = "new"
      BY <1>2, <1>4 DEF Types, TaskSound
    <3>2. ASSUME NEW s \in Tasks
          PROVE  /\ phase'[s] = "new" => task'[s].state = "queued"
                 /\ phase'[s] = "verify" /\ task'[s].sized => s \in Full'
                 /\ Claims(task'[s]) => s \in Full'
      <4>1. /\ phase'[s] = "new" => phase[s] = "new"
            /\ phase'[s] = "verify" => phase[s] = "verify"
        BY <1>4
      <4> QED
        BY <1>4, <2>1, <4>1 DEF Types, TaskSound
    <3> QED
      BY <3>1, <3>2 DEF TaskSound
  <2> QED
    BY <1>2, <1>3, <2>1, <2>2, <2>3 DEF Types
<1>5. CASE EmitFinal(t) \/ Report(t)
  <2>1. /\ live' \in [Emitters -> Seq(Trusted)]
        /\ snap' \in Seq(Trusted) /\ qSnap' \in Seq(Trusted)
    BY <1>1, <1>5, ReadLiveTypes DEF EmitFinal, Report
  <2>2. /\ task' = task
        /\ \/ phase' = phase
           \/ phase[t] = "final" /\ phase' = [phase EXCEPT ![t] = "told"]
    BY <1>5 DEF EmitFinal, Report, taskVars
  <2> QED
    BY <1>4, <2>1, <2>2 DEF Types, TaskType, Phases
<1>6. CASE Deliver(t)
  <2>1. /\ live' \in [Emitters -> Seq(Trusted)]
        /\ snap' \in Seq(Trusted) /\ qSnap' \in Seq(Trusted)
    BY <1>1, <1>6, PublishTypes DEF Deliver
  <2>2. task' = task /\ phase' = [phase EXCEPT ![t] = IF @ = "told" THEN "posted" ELSE @]
    BY <1>6 DEF Deliver
  <2> QED
    BY <1>4, <2>1, <2>2 DEF Types, TaskType, Phases
<1>7. CASE UNCHANGED chanVars /\ TaskType' /\ TaskSound' /\ Full \in SUBSET Full'
  <2>1. /\ live' \in [Emitters -> Seq(Trusted)] /\ snap' \in Seq(Trusted) /\ qSnap' \in Seq(Trusted)
        /\ Trusted \in SUBSET Trusted'
    BY <1>3, <1>7 DEF chanVars, Types, ChanType
  <2>2. ChanType'
    BY <2>1 DEF ChanType
  <2> QED
    BY <1>2, <1>3, <1>7, <2>2 DEF Types
<1>8. CASE Begin(t) \/ StopCancelled(t) \/ Verify(t) \/ NoteBytes(t) \/ Stop(t)
  <2>1. UNCHANGED chanVars
    BY <1>8 DEF Begin, StopCancelled, Verify, NoteBytes, Stop
  <2>2. ASSUME NEW s \in {"queued", "active", "paused", "completed", "error"},
               NEW p \in Phases \ {"new"}, Become(t, [task[t] EXCEPT !.state = s], p),
               s = "completed" /\ task[t].sized => task[t].bytes = "all",
               p = "verify" => s = "completed",
               phase[t] # "new" \/ t \in running
        PROVE  TaskType' /\ TaskSound' /\ Full \in SUBSET Full'
    <3> DEFINE v == [task[t] EXCEPT !.state = s]
    <3>1. /\ v \in Ui!Views /\ v.state = s /\ v.sized = task[t].sized
          /\ v.bytes = task[t].bytes
      BY <1>1 DEF Ui!Views
    <3>2. Claims(v) => v.bytes = "all"
      BY <2>2, <3>1 DEF Claims
    <3> HIDE DEF v
    <3>3. Become(t, v, p)
      BY <2>2 DEF v
    <3> QED
      BY <1>2, <2>2, <3>1, <3>2, <3>3, BecomeTypes
  <2>3. CASE NoteBytes(t)
    <3> DEFINE b == IF task[t].bytes = "none" THEN "some" ELSE "all"
               v == [task[t] EXCEPT !.bytes = b]
    <3>1. phase[t] = "active" /\ task[t].bytes # "all" /\ Become(t, v, "active")
      BY <2>3 DEF NoteBytes
    <3>2. /\ v \in Ui!Views /\ v.state = task[t].state /\ v.sized = task[t].sized /\ v.bytes = b
      BY <1>1 DEF Ui!Views
    <3>3. Claims(task[t]) => task[t].bytes = "all"
      BY DEF Types, TaskSound, Full
    <3>4. Claims(v) => v.bytes = "all"
      BY <3>1, <3>2, <3>3 DEF Claims
    <3> HIDE DEF v
    <3> QED
      BY <1>2, <1>7, <2>1, <3>1, <3>2, <3>4, BecomeTypes DEF Phases
  <2>4. CASE Begin(t)
    BY <1>7, <2>1, <2>2, <2>4 DEF Begin, Phases
  <2>5. CASE StopCancelled(t)
    BY <1>7, <2>1, <2>2, <2>5 DEF StopCancelled, Phases
  <2>6. CASE Stop(t)
    BY <1>7, <2>1, <2>2, <2>6 DEF Stop, Phases
  <2>7. CASE Verify(t)
    <3>1. phase[t] = "verify" /\ (task[t].sized => task[t].bytes = "all")
      BY <2>7 DEF Verify, Types, TaskSound, Full
    <3> QED
      BY <1>7, <2>1, <2>2, <2>7, <3>1 DEF Verify, Phases
  <2> QED
    BY <1>8, <2>3, <2>4, <2>5, <2>6, <2>7
<1> QED
  BY <1>5, <1>6, <1>8 DEF TaskTurn, TransferTurn, TaskStep, Transfer

\* Steps that leave the tasks alone.
LEMMA SameTrust ==
  ASSUME UNCHANGED taskVars
  PROVE  Full' = Full /\ Trusted' = Trusted
BY DEF Full, Trusted, taskVars

LEMMA RunTurnTypes ==
  ASSUME Types, RunTurn
  PROVE  Types'
<1>1. TaskType' /\ TaskSound' /\ ScreenType' /\ Trusted' = Trusted
  <2>1. UNCHANGED taskVars /\ UNCHANGED screen
    BY DEF RunTurn, BesideRun
  <2>2. Full' = Full /\ Trusted' = Trusted
    BY <2>1, SameTrust
  <2>3. loop' # "off"
    BY DEF RunTurn, RunStep, AdmitFirst, AdmitNext, Retire, WaitReturns, SeeDone, SeeCancel,
           RunReturns, EmitLoop
  <2> QED
    BY <2>1, <2>2, <2>3 DEF taskVars, screen, Types, TaskType, TaskSound, ScreenType
<1>2. Pool!Begin => PoolType'
  <2> SUFFICES ASSUME Pool!Begin PROVE PoolType'
    OBVIOUS
  <2>1. Head(waiting) \in Tasks /\ Tail(waiting) \in Seq(Tasks)
    BY HeadTailProperties DEF Types, PoolType, Pool!Begin
  <2> QED
    BY <2>1 DEF Types, PoolType, Pool!Begin
<1>3. (UNCHANGED poolVars => PoolType') /\ (UNCHANGED chanVars => ChanType')
  BY <1>1 DEF poolVars, chanVars, Types, PoolType, ChanType
<1>4. CASE AdmitFirst \/ AdmitNext
  BY <1>1, <1>2, <1>3, <1>4 DEF AdmitFirst, AdmitNext, Types, LoopType
<1>5. CASE \E t \in Tasks : Retire(t)
  <2>1. PoolType' /\ UNCHANGED chanVars /\ doneCh' = doneCh
    BY <1>5 DEF Retire, Pool!Finish, Types, PoolType
  <2>2. good' \in Nat /\ bad' \in Nat
    BY <1>5 DEF Retire, Types, LoopType
  <2> QED
    BY <1>1, <1>3, <2>1, <2>2 DEF Types, LoopType
<1>6. CASE WaitReturns \/ SeeDone \/ RunReturns
  BY <1>1, <1>3, <1>6 DEF WaitReturns, SeeDone, RunReturns, Types, LoopType
<1>7. CASE SeeCancel
  <2>1. PoolType' /\ UNCHANGED chanVars
    BY <1>7 DEF SeeCancel, Pool!Close, Types, PoolType
  <2> QED
    BY <1>1, <1>3, <1>7, <2>1 DEF SeeCancel, Types, LoopType
<1>8. CASE EmitLoop
  <2>1. ChanType'
    BY <1>1, <1>8, ReadLiveTypes, PublishTypes DEF EmitLoop, Loop, Emitters, ChanType
  <2> QED
    BY <1>1, <1>3, <1>8, <2>1 DEF EmitLoop, Types, LoopType
<1> QED
  BY <1>4, <1>5, <1>6, <1>7, <1>8 DEF RunTurn, RunStep

LEMMA StartTypes ==
  ASSUME Types, ProbeInv, Flow, Starts
  PROVE  Types'
<1> DEFINE r == Sorted(files)
<1>1. /\ files \in Seq(Results) /\ r \in Seq(Results) /\ Len(r) = Len(files)
  BY SortedIsWhole DEF ProbeInv, ProbeType, ProbePass
<1>2. waiting' \in Seq(Tasks)
  <2>1. waiting' = [i \in DOMAIN files |-> r[i].url]
    BY DEF Starts, StartRun
  <2> HIDE DEF r
  <2>2. DOMAIN files = 1..Len(files) /\ Len(files) \in Nat
    BY <1>1
  <2>3. ASSUME NEW i \in 1..Len(files) PROVE r[i].url \in Tasks
    <3>1. r[i] \in Results
      BY <1>1
    <3> QED
      BY <3>1 DEF Results
  <2> QED
    BY <2>1, <2>2, <2>3
<1>3. PoolType' /\ LoopType'
  BY <1>2 DEF Starts, StartRun, Types, PoolType, LoopType
<1>4. TaskType'
  <2>1. ASSUME NEW t \in Tasks
        PROVE  [task[t] EXCEPT !.sized = Contains(files, [url |-> t, ok |-> TRUE])] \in Ui!Views
    <3>1. task[t] \in Ui!Views
      BY DEF Types, TaskType
    <3>2. Contains(files, [url |-> t, ok |-> TRUE]) \in BOOLEAN
      BY DEF Contains
    <3> QED
      BY <3>1, <3>2 DEF Ui!Views
  <2> QED
    BY <2>1 DEF Starts, StartRun, Types, TaskType
<1>5. Full' = Full /\ Trusted' = Trusted
  <2>1. \A t \in Tasks : task'[t].bytes = task[t].bytes
    BY DEF Starts, StartRun, Types, TaskType, Ui!Views
  <2> QED
    BY <2>1 DEF Full, Trusted
<1>6. ChanType' /\ ScreenType'
  BY <1>5 DEF Starts, StartRun, chanVars, screen, Types, ChanType, ScreenType
<1>7. TaskSound'
  <2>1. loop' = "start" /\ phase' = phase /\ \A t \in Tasks : phase[t] = "new"
    BY DEF Starts, StartRun, Types, TaskSound, Flow
  <2>2. ASSUME NEW t \in Tasks
        PROVE  task'[t].bytes = task[t].bytes /\ task'[t].state = "queued"
    BY <2>1 DEF Starts, StartRun, Types, TaskType, TaskSound, Ui!Views
  <2>3. ASSUME NEW t \in Tasks PROVE Claims(task'[t]) => t \in Full'
    BY <2>2 DEF Claims, Full
  <2> QED
    BY <2>1, <2>2, <2>3 DEF TaskSound
<1> QED
  BY <1>3, <1>4, <1>6, <1>7 DEF Types

LEMMA DrawTypes ==
  ASSUME Types, DrawTurn \/ EndTurn \/ LastFrame
  PROVE  Types'
<1>0. UNCHANGED <<poolVars, loopVars, taskVars>>
  BY DEF DrawTurn, EndTurn, BesideUi, LastFrame
<1>9. Full' = Full /\ Trusted' = Trusted
  BY <1>0, SameTrust
<1>1. PoolType' /\ LoopType' /\ TaskType' /\ TaskSound'
  BY <1>0, <1>9 DEF poolVars, loopVars, taskVars, Types, PoolType, LoopType, TaskType, TaskSound
<1>2. ASSUME NEW l \in Trusted, NEW q \in Trusted, Ui!Frame(l, q) PROVE ScreenType'
  BY <1>9, <1>2, UpdateIsTrusted DEF Ui!Frame, Types, ScreenType
<1>3. CASE TakeSnap
  <2>1. Head(snap) \in Trusted /\ Tail(snap) \in Seq(Trusted)
    BY <1>3, HeadTailProperties DEF TakeSnap, Types, ChanType
  <2>2. ScreenType' /\ ChanType'
    BY <1>9, <1>2, <1>3, <2>1 DEF TakeSnap, Types, ChanType, ScreenType
  <2> QED
    BY <1>1, <2>2 DEF Types
<1>4. CASE TakeQueued
  <2>1. Head(qSnap) \in Trusted /\ Tail(qSnap) \in Seq(Trusted)
    BY <1>4, HeadTailProperties DEF TakeQueued, Types, ChanType
  <2>2. ScreenType' /\ ChanType'
    BY <1>9, <1>2, <1>4, <2>1 DEF TakeQueued, Types, ChanType, ScreenType
  <2> QED
    BY <1>1, <2>2 DEF Types
<1>5. CASE Tick
  BY <1>9, <1>1, <1>2, <1>5 DEF Tick, chanVars, Types, ChanType, ScreenType
<1>6. CASE Log \/ EndLoop \/ CloseDone
  <2>1. UNCHANGED <<cache, lastLive, lastQueue, chanVars>>
    BY <1>6 DEF Log, EndLoop, CloseDone, Ui!Interject, Ui!End, screen
  <2> QED
    BY <1>9, <1>1, <2>1 DEF chanVars, Types, ChanType, ScreenType
<1>7. CASE LastFrame
  <2>1. /\ cache' = [t \in DOMAIN cache |-> Ui!Repair(cache[t])]
        /\ lastLive' = Ui!Nothing /\ lastQueue' = Ui!Nothing /\ UNCHANGED chanVars
    BY <1>7 DEF LastFrame, Ui!FinalFrame
  <2> QED
    BY <1>9, <1>1, <2>1, RepairIsTrusted, NothingIsTrusted DEF chanVars, Types, ChanType, ScreenType
<1> QED
  BY <1>3, <1>4, <1>5, <1>6, <1>7 DEF DrawTurn, EndTurn

LEMMA TypesHold ==
  ASSUME Types, ProbeInv, Flow, [Next]_vars
  PROVE  Types'
<1>1. CASE Aside \/ Leaves
  <2>1. UNCHANGED <<poolVars, loopVars, taskVars, screen>>
    BY <1>1 DEF Aside, Leaves, ExitWith
  <2>2. Full' = Full /\ Trusted' = Trusted
    BY <2>1, SameTrust
  <2>3. PoolType' /\ LoopType' /\ TaskType' /\ TaskSound' /\ ScreenType'
    BY <2>1, <2>2 DEF poolVars, loopVars, taskVars, screen, Types, PoolType, LoopType, TaskType,
                      TaskSound, ScreenType
  <2>4. ChanType'
    <3>1. CASE Aside
      BY <2>2, <3>1 DEF Aside, chanVars, Types, ChanType
    <3>2. CASE Leaves
      BY <3>2 DEF Leaves, ExitWith, ChanType
    <3> QED
      BY <1>1, <3>1, <3>2
  <2> QED
    BY <2>3, <2>4 DEF Types
<1> QED
  BY <1>1, Kinds, StartTypes, DrawTypes, RunTurnTypes, TaskTurnTypes

-----------------------------------------------------------------------------
(* The screen.                                                              *)

\* The renderer knows how many rows stand above the cursor, and there are never
\* more than one for each task, the summary and the blank row of End.
Lines ==
  /\ ~torn /\ lastLines = drawn /\ drawn \in Nat
  /\ drawn <= Cardinality(Tasks) + IF ui \in {"off", "loop"} THEN 1 ELSE 2

LEMMA RowsFit ==
  ASSUME Height >= Cardinality(Tasks) + 3, NEW view, DOMAIN view \in SUBSET Tasks
  PROVE  Ui!Rows(view) \in Nat /\ Ui!Rows(view) <= Cardinality(Tasks) + 1
<1> DEFINE A == {t \in DOMAIN view : Ui!IsActive(view[t])}
           active == Cardinality(A)
           total == IF view = Ui!Nothing THEN 0 ELSE 1
           budget == Ui!Max({Height - total - 1, 0})
<1>1. active \in Nat /\ active <= Cardinality(Tasks) /\ Cardinality(Tasks) \in Nat
  <2>1. A \in SUBSET Tasks
    OBVIOUS
  <2> HIDE DEF A
  <2> QED
    BY <2>1, TasksAreFinite, FS_Subset, FS_CardinalityType
<1>2. total \in {0, 1} /\ Height \in Nat
  BY OneShotAssumption
<1>3. ASSUME NEW a \in Int, a >= 0 PROVE Ui!Max({a, 0}) = a
  <2>1. \E x \in {a, 0} : \A y \in {a, 0} : x >= y
    BY <1>3
  <2>2. Ui!Max({a, 0}) \in {a, 0} /\ \A y \in {a, 0} : Ui!Max({a, 0}) >= y
    BY <2>1 DEF Ui!Max
  <2> QED
    BY <1>3, <2>2
<1>4. ASSUME NEW a \in Int, NEW b \in Int, a <= b PROVE Ui!Min({a, b}) = a
  <2>1. \E x \in {a, b} : \A y \in {a, b} : x <= y
    BY <1>4
  <2>2. Ui!Min({a, b}) \in {a, b} /\ \A y \in {a, b} : Ui!Min({a, b}) <= y
    BY <2>1 DEF Ui!Min
  <2> QED
    BY <1>4, <2>2
<1>5. Ui!Rows(view) = Ui!Min({active, budget}) + total + (IF active > budget THEN 1 ELSE 0)
  BY DEF Ui!Rows, Ui!Cardinality, Cardinality, Ui!IsFiniteSet, IsFiniteSet
<1> HIDE DEF active, total
<1>6. Height - total - 1 \in Int /\ Height - total - 1 >= active /\ Height - total - 1 >= 0
  BY <1>1, <1>2
<1>7. budget = Height - total - 1
  BY <1>3, <1>6
<1> HIDE DEF budget
<1>8. Ui!Min({active, budget}) = active
  BY <1>1, <1>4, <1>6, <1>7
<1> QED
  BY <1>1, <1>2, <1>5, <1>6, <1>7, <1>8

LEMMA RedrawKeepsLines ==
  ASSUME Height >= Cardinality(Tasks) + 3, Lines,
         NEW view, DOMAIN view \in SUBSET Tasks, Ui!Redraw(Ui!Rows(view))
  PROVE  Lines'
<1> DEFINE m == Ui!Rows(view)
<1>1. /\ m \in Nat /\ m <= Cardinality(Tasks) + 1 /\ Cardinality(Tasks) \in Nat
      /\ lastLines \in Nat /\ lastLines = drawn /\ lastLines <= Cardinality(Tasks) + 2
  BY RowsFit, TasksAreFinite DEF Lines
<1>2. Ui!Min({lastLines, Height - 1}) = lastLines
  <2>1. Height - 1 \in Int /\ lastLines <= Height - 1
    BY <1>1, OneShotAssumption
  <2>2. \E x \in {lastLines, Height - 1} : \A y \in {lastLines, Height - 1} : x <= y
    BY <1>1, <2>1
  <2>3. /\ Ui!Min({lastLines, Height - 1}) \in {lastLines, Height - 1}
        /\ \A y \in {lastLines, Height - 1} : Ui!Min({lastLines, Height - 1}) <= y
    BY <2>2 DEF Ui!Min
  <2> QED
    BY <1>1, <2>1, <2>3
<1>3. ~torn'
  BY <1>1, <1>2 DEF Ui!Redraw, Lines
<1>4. drawn' = m /\ lastLines' = m
  BY DEF Ui!Redraw
<1> HIDE DEF m
<1> QED
  BY <1>1, <1>3, <1>4 DEF Lines

LEMMA LinesHold ==
  ASSUME Height >= Cardinality(Tasks) + 3
  PROVE  /\ Init => Lines
         /\ Lines /\ Flow /\ Types /\ [Next]_vars => Lines'
<1>1. Init => Lines
  BY TasksAreFinite DEF Init, Ui!Init, Lines
<1>2. ASSUME Lines, Flow, Types, [Next]_vars PROVE Lines'
  <2>0. Cardinality(Tasks) \in Nat
    BY TasksAreFinite
  <2>1. CASE Aside
    BY <1>2, <2>1 DEF Aside, screen, Lines
  <2>2. CASE Leaves
    BY <1>2, <2>2 DEF Leaves, ExitWith, screen, Lines
  <2>3. CASE Starts
    BY <1>2, <2>0, <2>3 DEF Starts, StartRun, screen, Lines, Flow
  <2>4. CASE LastFrame
    <3> DEFINE c == [t \in DOMAIN cache |-> Ui!Repair(cache[t])]
    <3>1. DOMAIN c \in SUBSET Tasks
      BY <1>2, FrameIs DEF Trusted, Types, ScreenType
    <3>2. Ui!Redraw(Ui!Rows(c))
      BY <2>4 DEF LastFrame, Ui!FinalFrame
    <3> HIDE DEF c
    <3> QED
      BY <1>2, <3>1, <3>2, RedrawKeepsLines
  <2>5. CASE RunTurn
    BY <1>2, <2>5 DEF RunTurn, BesideRun, screen, Lines
  <2>6. CASE \E t \in Tasks : TaskTurn(t) \/ TransferTurn(t)
    BY <1>2, <2>6 DEF TaskTurn, TransferTurn, BesideTask, screen, Lines
  <2>7. ASSUME NEW l \in Trusted, NEW q \in Trusted, Ui!Frame(l, q) PROVE Lines'
    <3> DEFINE v == Ui!Ordered(Ui!UpdateCache(l, q), l)
    <3>1. DOMAIN v = DOMAIN Ui!UpdateCache(l, q) \cup DOMAIN l
      BY DEF Ui!Ordered
    <3>2. DOMAIN v \in SUBSET Tasks
      BY <1>2, <3>1, UpdateIsTrusted, FrameIs DEF Trusted, Types, ScreenType
    <3>3. Ui!Redraw(Ui!Rows(v))
      BY <2>7 DEF Ui!Frame
    <3> HIDE DEF v
    <3> QED
      BY <1>2, <3>2, <3>3, RedrawKeepsLines
  <2>8. CASE DrawTurn
    <3>1. CASE TakeSnap
      <4>1. Head(snap) \in Trusted
        BY <1>2, <3>1, HeadTailProperties DEF TakeSnap, Types, ChanType
      <4> QED
        BY <1>2, <2>7, <3>1, <4>1 DEF TakeSnap, Types, ScreenType
    <3>2. CASE TakeQueued
      <4>1. Head(qSnap) \in Trusted
        BY <1>2, <3>2, HeadTailProperties DEF TakeQueued, Types, ChanType
      <4> QED
        BY <1>2, <2>7, <3>2, <4>1 DEF TakeQueued, Types, ScreenType
    <3>3. CASE Tick
      BY <1>2, <2>7, <3>3 DEF Tick, Types, ScreenType
    <3>4. CASE Log
      <4> DEFINE v == Ui!Ordered(cache, lastLive)
      <4>1. DOMAIN v = DOMAIN cache \cup DOMAIN lastLive
        BY DEF Ui!Ordered
      <4>2. DOMAIN v \in SUBSET Tasks
        BY <1>2, <4>1, FrameIs DEF Trusted, Types, ScreenType
      <4>3. Ui!Redraw(Ui!Rows(v))
        BY <3>4 DEF Log, Ui!Interject
      <4> HIDE DEF v
      <4> QED
        BY <1>2, <4>2, <4>3, RedrawKeepsLines
    <3> QED
      BY <2>8, <3>1, <3>2, <3>3, <3>4 DEF DrawTurn
  <2>9. CASE EndTurn
    <3>1. CASE EndLoop
      BY <1>2, <2>0, <3>1 DEF EndLoop, Ui!End, Lines
    <3>2. CASE CloseDone
      BY <1>2, <3>2 DEF CloseDone, screen, Lines
    <3> QED
      BY <2>9, <3>1, <3>2 DEF EndTurn
  <2> QED
    BY <1>2, <2>1, <2>2, <2>3, <2>4, <2>5, <2>6, <2>8, <2>9, Kinds
<1> QED
  BY <1>1, <1>2

\* No row of an old frame stays on the screen and no log line is overwritten, on
\* any terminal with a row for each task and three more.
THEOREM ScreenStaysIntact ==
  ASSUME Height >= Cardinality(Tasks) + 3
  PROVE  Spec => []ScreenIntact
<1>1. Init => Flow /\ ProbeInv /\ Types /\ Lines
  BY FlowHolds, ProbeInvInit, TypesInit, LinesHold
<1>2. Flow /\ ProbeInv /\ Types /\ Lines /\ [Next]_vars => (Flow /\ ProbeInv /\ Types /\ Lines)'
  BY FlowHolds, ProbeInvHolds, TypesHold, LinesHold
<1>3. Lines => ScreenIntact
  BY DEF Lines, ScreenIntact
<1> QED
  BY <1>1, <1>2, <1>3, PTL DEF Spec

-----------------------------------------------------------------------------
(* The exit code.                                                           *)

\* Nothing has run before Run; a task that has begun is counted as running or
\* finished; what is finished has reported.
Counted ==
  /\ loop = "off" => running = {} /\ finished = {}
  /\ \A t \in Tasks : phase[t] # "new" => t \in running \cup finished
  /\ \A t \in finished : phase[t] = "posted"
  /\ loop = "over" /\ ending = "cancelled" => running = {}

\* The counters say whether a finished task has succeeded and whether one failed.
Scored ==
  /\ good > 0 <=> \E t \in finished : task[t].state = "completed"
  /\ bad > 0 <=> \E t \in finished : task[t].state # "completed"

Coded ==
  /\ main # "exit" => code = "none"
  /\ main = "exit" /\ loop = "off" => code \in {"general", "ok", "cancelled"}
  /\ main = "exit" /\ loop = "over" => code = ExitCode

LEMMA CountedHolds ==
  /\ Init => Counted
  /\ Counted /\ Types /\ Flow /\ [Next]_vars => Counted'
<1>1. Init => Counted
  BY DEF Init, Pool!Init, Counted
<1>2. ASSUME Counted, Types, Flow, [Next]_vars PROVE Counted'
  <2>0. phase \in [Tasks -> Phases] /\ running \in SUBSET Tasks /\ finished \in SUBSET Tasks
    BY <1>2 DEF Types, TaskType, PoolType
  <2>1. CASE UNCHANGED <<loop, ending, running, finished, phase>>
    BY <1>2, <2>1 DEF Counted
  <2>2. CASE Aside \/ Leaves \/ LastFrame \/ DrawTurn \/ EndTurn
    <3>1. UNCHANGED <<loop, ending, running, finished, phase>>
      BY <2>2 DEF Aside, Leaves, ExitWith, LastFrame, DrawTurn, EndTurn, BesideUi, loopVars,
                  poolVars, taskVars
    <3> QED
      BY <2>1, <3>1
  <2>3. CASE Starts
    BY <1>2, <2>3 DEF Starts, StartRun, Counted, Flow
  <2>4. CASE RunTurn
    <3>1. phase' = phase /\ RunStep
      BY <2>4 DEF RunTurn, BesideRun, taskVars
    <3>2. CASE AdmitFirst
      <4>1. running \in SUBSET running' /\ finished' = finished
        BY <3>2 DEF AdmitFirst, Pool!Begin, poolVars
      <4> QED
        BY <1>2, <3>1, <3>2, <4>1 DEF AdmitFirst, Counted
    <3>3. CASE AdmitNext
      <4>1. running \in SUBSET running' /\ finished' = finished
        BY <3>3 DEF AdmitNext, Pool!Begin, poolVars
      <4> QED
        BY <1>2, <3>1, <3>3, <4>1 DEF AdmitNext, Counted
    <3>4. CASE \E t \in Tasks : Retire(t)
      BY <1>2, <3>1, <3>4 DEF Retire, Pool!Finish, Counted
    <3>5. CASE WaitReturns \/ SeeDone \/ EmitLoop
      BY <1>2, <3>1, <3>5 DEF WaitReturns, SeeDone, EmitLoop, poolVars, Counted
    <3>6. CASE SeeCancel
      BY <1>2, <3>1, <3>6 DEF SeeCancel, Pool!Close, Counted
    <3>7. CASE RunReturns
      BY <1>2, <3>1, <3>7 DEF RunReturns, NoneLive, poolVars, Counted
    <3> QED
      BY <3>1, <3>2, <3>3, <3>4, <3>5, <3>6, <3>7 DEF RunStep
  <2>5. ASSUME NEW t \in Tasks, TaskTurn(t) \/ TransferTurn(t) PROVE Counted'
    <3>1. UNCHANGED <<loop, ending, running, finished>>
      BY <2>5 DEF TaskTurn, TransferTurn, BesideTask, loopVars, poolVars
    <3>2. /\ phase' = [phase EXCEPT ![t] = phase'[t]]
          /\ phase'[t] # "new" => phase[t] # "new" \/ t \in running
          /\ phase[t] = "posted" => phase'[t] = "posted"
      BY <2>0, <2>5 DEF TaskTurn, TransferTurn, TaskStep, Transfer, Begin, NoteBytes, Report, Stop,
                        StopCancelled, Verify, EmitFinal, Deliver, Become, taskVars
    <3> QED
      BY <1>2, <2>0, <3>1, <3>2 DEF Counted
  <2> QED
    BY <1>2, <2>2, <2>3, <2>4, <2>5, Kinds
<1> QED
  BY <1>1, <1>2

LEMMA ScoredHolds ==
  /\ Init => Scored
  /\ Scored /\ Counted /\ Types /\ Flow /\ [Next]_vars => Scored'
<1>1. Init => Scored
  BY DEF Init, Pool!Init, Scored
<1>2. ASSUME Scored, Counted, Types, Flow, [Next]_vars PROVE Scored'
  <2>0. /\ phase \in [Tasks -> Phases] /\ task \in [Tasks -> Ui!Views]
        /\ finished \in SUBSET Tasks /\ good \in Nat /\ bad \in Nat
    BY <1>2 DEF Types, TaskType, PoolType, LoopType
  <2>1. CASE UNCHANGED <<good, bad, finished, task>>
    BY <1>2, <2>1 DEF Scored
  <2>2. CASE Aside \/ Leaves \/ LastFrame \/ DrawTurn \/ EndTurn
    <3>1. UNCHANGED <<good, bad, finished, task>>
      BY <2>2 DEF Aside, Leaves, ExitWith, LastFrame, DrawTurn, EndTurn, BesideUi, loopVars,
                  poolVars, taskVars
    <3> QED
      BY <2>1, <3>1
  <2>3. CASE Starts
    BY <1>2, <2>3 DEF Starts, StartRun, Scored, Counted, Flow
  <2>4. CASE RunTurn
    <3>1. task' = task /\ RunStep
      BY <2>4 DEF RunTurn, BesideRun, taskVars
    <3>2. ASSUME NEW t \in Tasks, Retire(t) PROVE Scored'
      <4>1. finished' = finished \cup {t}
        BY <3>2 DEF Retire, Pool!Finish
      <4>2. CASE task[t].state = "completed"
        <5>1. good' = good + 1 /\ bad' = bad
          BY <3>2, <4>2 DEF Retire
        <5>2. good' > 0 /\ (bad' > 0 <=> bad > 0)
          BY <2>0, <5>1
        <5> QED
          BY <1>2, <3>1, <4>1, <4>2, <5>2 DEF Scored
      <4>3. CASE task[t].state # "completed"
        <5>1. bad' = bad + 1 /\ good' = good
          BY <3>2, <4>3 DEF Retire
        <5>2. bad' > 0 /\ (good' > 0 <=> good > 0)
          BY <2>0, <5>1
        <5> QED
          BY <1>2, <3>1, <4>1, <4>3, <5>2 DEF Scored
      <4> QED
        BY <4>2, <4>3
    <3>3. CASE ~\E t \in Tasks : Retire(t)
      <4>1. UNCHANGED <<good, bad, finished>>
        BY <3>1, <3>3 DEF RunStep, AdmitFirst, AdmitNext, WaitReturns, SeeDone, SeeCancel,
                          RunReturns, EmitLoop, Pool!Begin, Pool!Close, poolVars
      <4> QED
        BY <2>1, <3>1, <4>1
    <3> QED
      BY <3>2, <3>3
  <2>5. ASSUME NEW t \in Tasks, TaskTurn(t) \/ TransferTurn(t) PROVE Scored'
    <3>1. UNCHANGED <<good, bad, finished>>
      BY <2>5 DEF TaskTurn, TransferTurn, BesideTask, loopVars, poolVars
    <3>2. phase[t] = "posted" => task' = task
      BY <2>0, <2>5 DEF TaskTurn, TransferTurn, TaskStep, Transfer, Begin, NoteBytes, Report, Stop,
                        StopCancelled, Verify, EmitFinal, Deliver, Become, taskVars
    <3>3. \A s \in Tasks : s # t => task'[s] = task[s]
      BY <2>0, <2>5 DEF TaskTurn, TransferTurn, TaskStep, Transfer, Begin, NoteBytes, Report, Stop,
                        StopCancelled, Verify, EmitFinal, Deliver, Become, taskVars
    <3>4. \A s \in finished : s \in Tasks /\ task'[s] = task[s]
      BY <1>2, <2>0, <3>2, <3>3 DEF Counted
    <3> QED
      BY <1>2, <3>1, <3>4 DEF Scored
  <2> QED
    BY <1>2, <2>2, <2>3, <2>4, <2>5, Kinds
<1> QED
  BY <1>1, <1>2

LEMMA MainExits ==
  ASSUME Flow, Up, [Next]_vars, main' = "exit"
  PROVE  MainTurn \/ AnswerTurn
<1>1. ASSUME RunTurn PROVE FALSE
  BY <1>1, RunStepMoves DEF RunTurn, RunReturns, Up
<1>2. main # "exit"
  BY DEF Up
<1> QED
  BY <1>1, <1>2 DEF Next, ProbeTurn, ReceiveTurn, Receive, SignalTurn, Signal, TaskTurn,
                    TransferTurn, DrawTurn, EndTurn, BesideTask, BesideUi, mainVars, vars

LEMMA CodedHolds ==
  /\ Init => Coded
  /\ Coded /\ Flow /\ [Next]_vars => Coded'
<1>1. Init => Coded
  BY DEF Init, Coded
<1>2. ASSUME Coded, Flow, [Next]_vars PROVE Coded'
  <2>1. CASE UNCHANGED <<main, code, loop, ending, good, bad>>
    BY <1>2, <2>1 DEF Coded, ExitCode, ExitCodeFrom
  <2>2. CASE main # "exit" /\ main' # "exit" /\ code' = code
    BY <1>2, <2>2 DEF Coded
  <2>3. CASE Up /\ Leaves
    <3>1. PICK c : ExitWith(c)
      BY <2>3 DEF Leaves
    <3>2. /\ main' = "exit" /\ code' = c
          /\ UNCHANGED <<loop, ending, good, bad>>
      BY <3>1 DEF ExitWith, loopVars
    <3>3. CASE loop = "off"
      <4>1. MainTurn \/ AnswerTurn
        BY <1>2, <2>3, <3>2, MainExits
      <4>2. c \in {"general", "ok", "cancelled"}
        <5>1. main # "drawn"
          BY <1>2, <3>3 DEF Flow
        <5>2. CASE CancelProbe
          BY <3>2, <5>2 DEF CancelProbe, ExitWith
        <5>3. CASE Plan
          BY <3>2, <5>3 DEF Plan, ExitWith, StartRun
        <5>4. CASE Answer
          BY <3>2, <5>4 DEF Answer, ExitWith, StartRun
        <5> QED
          BY <3>2, <4>1, <5>1, <5>2, <5>3, <5>4 DEF MainTurn, MainStep, AnswerTurn, LastFrame
      <4> QED
        BY <3>2, <3>3, <4>2 DEF Coded
    <3>4. CASE loop # "off"
      <4>1. main \notin {"probe", "plan", "prompt"}
        BY <1>2, <3>4 DEF Flow
      <4>2. code' = ExitCode
        <5>1. MainTurn \/ AnswerTurn
          BY <1>2, <2>3, <3>2, MainExits
        <5> QED
          BY <3>2, <4>1, <5>1 DEF MainTurn, MainStep, CancelProbe, Plan, LastFrame, AnswerTurn,
                                  Answer, ExitWith
      <4>3. ExitCode' = ExitCode
        BY <3>2 DEF ExitCode, ExitCodeFrom
      <4> QED
        BY <3>2, <3>4, <4>2, <4>3 DEF Coded
    <3> QED
      BY <3>3, <3>4
  <2>4. CASE Aside /\ (main' = main \/ (main' # "exit" /\ main \in {"probe", "plan"}))
    BY <2>1, <2>2, <2>4 DEF Aside, loopVars
  <2>5. CASE Starts \/ LastFrame
    BY <2>2, <2>5 DEF Starts, StartRun, LastFrame
  <2>6. CASE RunTurn
    <3>1. main # "exit" /\ main' # "exit"
      BY <1>2, <2>6, RunStepMoves DEF RunTurn, RunReturns, Up
    <3> QED
      BY <2>2, <2>6, <3>1 DEF RunTurn, BesideRun
  <2>7. CASE \E t \in Tasks : TaskTurn(t) \/ TransferTurn(t)
    BY <2>1, <2>7 DEF TaskTurn, TransferTurn, BesideTask, mainVars, loopVars
  <2>8. CASE DrawTurn \/ EndTurn
    BY <2>1, <2>8 DEF DrawTurn, EndTurn, BesideUi, mainVars, loopVars
  <2> QED
    BY <1>2, <2>3, <2>4, <2>5, <2>6, <2>7, <2>8, Kinds
<1> QED
  BY <1>1, <1>2

LEMMA CodeTells ==
  ASSUME Flow, Types, Counted, Scored, Coded
  PROVE  CodeIsOutcome
<1>1. good \in Nat /\ bad \in Nat /\ phase \in [Tasks -> Phases]
  BY DEF Types, LoopType, TaskType
<1>2. ExitCodeFrom \in {"general", "ok", "network", "partial"}
  BY DEF ExitCodeFrom
<1>3. /\ ExitCodeFrom = "ok" => good > 0 /\ ~(bad > 0)
      /\ ExitCodeFrom = "network" => ~(good > 0) /\ bad > 0
      /\ ExitCodeFrom = "partial" => good > 0 /\ bad > 0
  BY <1>1 DEF ExitCodeFrom
<1>4. ExitCode = "cancelled" <=> ending = "cancelled"
  BY <1>2 DEF ExitCode
<1>5. ASSUME main = "exit", ending # "no" PROVE code = "cancelled" <=> ending = "cancelled"
  BY <1>4, <1>5 DEF Coded, Flow
<1>6. ASSUME ending = "cancelled", loop = "over"
      PROVE  /\ running = {} /\ finished = {t \in Tasks : phase[t] = "posted"}
             /\ \A t \in Tasks : phase[t] \in {"new", "posted"}
  <2>1. finished \subseteq Tasks
    BY DEF Types, PoolType
  <2> QED
    BY <1>6, <2>1 DEF Counted
<1>7. ASSUME code = "ok" PROVE ending = "no" \/ (finished # {} /\ finished = Ended("completed"))
  <2>1. CASE loop = "off"
    BY <2>1 DEF Flow
  <2>2. CASE loop # "off"
    <3>1. code = ExitCode
      BY <1>7, <2>2 DEF Coded, Flow
    <3>2. good > 0 /\ ~(bad > 0)
      BY <1>3, <1>7, <3>1 DEF ExitCode
    <3> QED
      BY <3>2 DEF Scored, Ended
  <2> QED
    BY <2>1, <2>2
<1>8. ASSUME code \in {"network", "partial"} PROVE code = ExitCodeFrom
  BY <1>8 DEF Coded, Flow, ExitCode
<1>9. ASSUME code = "network" PROVE finished # {} /\ Ended("completed") = {}
  <2>1. ~(good > 0) /\ bad > 0
    BY <1>3, <1>8, <1>9
  <2> QED
    BY <2>1 DEF Scored, Ended
<1>10. ASSUME code = "partial" PROVE Ended("completed") \notin {{}, finished}
  <2>1. good > 0 /\ bad > 0
    BY <1>3, <1>8, <1>10
  <2> QED
    BY <2>1 DEF Scored, Ended
<1> QED
  BY <1>5, <1>6, <1>7, <1>9, <1>10 DEF CodeIsOutcome

\* The exit code is the outcome: cancelled exactly when Run or the user
\* cancelled, and then nothing runs and the counted tasks are those that have
\* reported; 0, 2 and 3 as the counted tasks have ended.
THEOREM CodeTellsTheOutcome == Spec => []CodeIsOutcome
<1>1. Init => Flow /\ ProbeInv /\ Types /\ Counted /\ Scored /\ Coded
  BY FlowHolds, ProbeInvInit, TypesInit, CountedHolds, ScoredHolds, CodedHolds
<1>2. /\ Flow /\ ProbeInv /\ Types /\ Counted /\ Scored /\ Coded /\ [Next]_vars
      => (Flow /\ ProbeInv /\ Types /\ Counted /\ Scored /\ Coded)'
  BY FlowHolds, ProbeInvHolds, TypesHold, CountedHolds, ScoredHolds, CodedHolds
<1> QED
  BY <1>1, <1>2, CodeTells, PTL DEF Spec

-----------------------------------------------------------------------------
(* The last frame.                                                          *)

\* Once it is drawn, what has all its bytes is finished.
Settled ==
  main \in {"drawn", "exit"} /\ ui # "off" =>
    \A t \in DOMAIN cache : Ui!Whole(cache[t]) => Ui!Terminal(cache[t])

LEMMA SettledHolds ==
  /\ Init => Settled
  /\ Settled /\ Types /\ Flow /\ [Next]_vars => Settled'
<1>1. Init => Settled
  BY DEF Init, Settled
<1>2. ASSUME Settled, Types, Flow, [Next]_vars PROVE Settled'
  <2>1. CASE main' \notin {"drawn", "exit"}
    BY <2>1 DEF Settled
  <2>2. CASE UNCHANGED <<main, cache, ui>>
    BY <1>2, <2>2 DEF Settled
  <2>3. CASE Aside /\ (main' = main \/ (main' # "exit" /\ main \in {"probe", "plan"}))
    <3>1. CASE main' = main
      BY <2>2, <2>3, <3>1 DEF Aside, screen
    <3>2. CASE main \in {"probe", "plan"} /\ main' # main
      BY <1>2, <2>3, <3>2 DEF Aside, Settled, Flow
    <3> QED
      BY <2>3, <3>1, <3>2
  <2>4. CASE Up /\ Leaves
    <3>1. UNCHANGED <<cache, ui>>
      BY <2>4 DEF Leaves, ExitWith, screen
    <3>2. main = "drawn" \/ ui = "off"
      <4>1. main' = "exit"
        BY <2>4 DEF Leaves, ExitWith
      <4>2. MainTurn \/ AnswerTurn
        BY <1>2, <2>4, <4>1, MainExits
      <4> QED
        BY <1>2, <4>1, <4>2 DEF MainTurn, MainStep, CancelProbe, Plan, LastFrame, AnswerTurn, Answer,
                                StartRun, Flow
    <3> QED
      BY <1>2, <3>1, <3>2 DEF Settled
  <2>5. CASE Starts
    BY <2>1, <2>5 DEF Starts, StartRun
  <2>6. CASE LastFrame
    <3>1. cache' = [t \in DOMAIN cache |-> Ui!Repair(cache[t])]
      BY <2>6 DEF LastFrame, Ui!FinalFrame
    <3>2. cache \in [DOMAIN cache -> Ui!Views]
      BY <1>2, FrameIs DEF Types, ScreenType, Trusted
    <3>3. \A v \in Ui!Views : Ui!Whole(Ui!Repair(v)) => Ui!Terminal(Ui!Repair(v))
      BY DEF Ui!Views, Ui!Repair, Ui!Whole, Ui!Terminal
    <3> QED
      BY <3>1, <3>2, <3>3 DEF Settled
  <2>7. CASE RunTurn
    <3>1. \/ main' = main
          \/ main' \notin {"drawn", "exit"}
      BY <1>2, <2>7, RunStepMoves DEF RunTurn, RunReturns
    <3> QED
      BY <2>1, <2>2, <2>7, <3>1 DEF RunTurn, BesideRun, screen
  <2>8. CASE \E t \in Tasks : TaskTurn(t) \/ TransferTurn(t)
    BY <2>2, <2>8 DEF TaskTurn, TransferTurn, BesideTask, mainVars, screen
  <2>9. CASE DrawTurn
    <3>1. CASE ui = "loop"
      BY <1>2, <2>1, <2>9, <3>1 DEF DrawTurn, BesideUi, mainVars, Flow
    <3>2. CASE ui # "loop"
      BY <2>2, <2>9, <3>2 DEF DrawTurn, TakeSnap, TakeQueued, Tick, Log, Ui!Interject, BesideUi,
                              mainVars
    <3> QED
      BY <3>1, <3>2
  <2>10. CASE EndTurn
    <3>1. main' \notin {"drawn", "exit"}
      BY <1>2, <2>10 DEF EndTurn, EndLoop, CloseDone, BesideUi, mainVars, Flow, Up
    <3> QED
      BY <2>1, <3>1
  <2> QED
    BY <1>2, <2>3, <2>4, <2>5, <2>6, <2>7, <2>8, <2>9, <2>10, Kinds
<1> QED
  BY <1>1, <1>2

LEMMA FrameIsSettled == Settled /\ Types => LastFrameSettled
<1> SUFFICES ASSUME Settled, Types, main \in {"drawn", "exit"}, ui # "off", NEW t \in DOMAIN cache
             PROVE  /\ Ui!Whole(cache[t]) => Ui!Terminal(cache[t])
                    /\ cache[t].sized /\ cache[t].state = "completed" => task[t].bytes = "all"
  BY DEF LastFrameSettled
<1>1. Claims(cache[t]) => t \in Full
  BY DEF Types, ScreenType, Trusted
<1> QED
  BY <1>1 DEF Settled, Claims, Full

\* Once the last frame is drawn it stays the last, and it shows no task with all
\* its bytes as under way, nor one of known size as complete without them.
THEOREM LastFrameIsSettled == Spec => []LastFrameSettled
<1>1. Init => Flow /\ ProbeInv /\ Types /\ Settled
  BY FlowHolds, ProbeInvInit, TypesInit, SettledHolds
<1>2. Flow /\ ProbeInv /\ Types /\ Settled /\ [Next]_vars => (Flow /\ ProbeInv /\ Types /\ Settled)'
  BY FlowHolds, ProbeInvHolds, TypesHold, SettledHolds
<1> QED
  BY <1>1, <1>2, FrameIsSettled, PTL DEF Spec
=============================================================================
