--------------------------- MODULE Balancer_proofs --------------------------
(***************************************************************************)
(* The plan of every batch and every rebalancing of the tasks it starts.   *)
(* Distribute is shown to give each open slot its share of the budget (the *)
(* loop of Distribute by induction, DataLemmas), and from that follow what *)
(* each of the three modes and a rebalancing spend.                        *)
(***************************************************************************)
EXTENDS MCBalancer, DataLemmas

-----------------------------------------------------------------------------
(* Distribute.                                                              *)

\* Distribute gives every open slot its share and the others nothing.
LEMMA DistributeIs ==
  ASSUME NEW k \in Nat, NEW conns \in [1..k -> Nat], NEW skip, DOMAIN skip = 1..k,
         NEW budget \in Nat
  PROVE  LET open == Where(skip, FALSE)
         IN Distribute(conns, budget, skip)
              = IF open = <<>> THEN conns ELSE Level(conns, open, budget, 1..k)
<1> DEFINE D == 1..k
           open == Where(skip, FALSE)
           Eq(h) == h = [n \in 0..budget |->
             IF n = 0 THEN conns ELSE [h[n - 1] EXCEPT ![open[((n - 1) % Len(open)) + 1]] = @ + 1]]
<1>1. Distribute(conns, budget, skip)
        = IF open = <<>> \/ budget <= 0 THEN conns ELSE (CHOOSE h : Eq(h))[budget]
  BY DEF Distribute
<1>2. conns \in [D -> Nat] /\ (open # <<>> => Opens(open, D))
  BY WhereFacts DEF Lists
<1> HIDE DEF D, open, Eq
<1>3. CASE open # <<>> /\ ~(budget <= 0)
  <2>1. \E h : Eq(h)
    <3>1. \E h : InTurn(h, conns, open, budget)
      BY <1>2, <1>3, InTurnExists
    <3> QED
      BY <3>1 DEF Eq, InTurn
  <2>2. InTurn(CHOOSE h : Eq(h), conns, open, budget)
    <3>1. Eq(CHOOSE h : Eq(h))
      BY <2>1
    <3> QED
      BY <3>1 DEF Eq, InTurn
  <2>3. (CHOOSE h : Eq(h))[budget] = Level(conns, open, budget, D)
    BY <1>2, <1>3, <2>2, InTurnIs
  <2> QED
    BY <1>1, <1>3, <2>3 DEF D, open
<1>4. CASE open # <<>> /\ budget <= 0
  <2>1. budget = 0
    BY <1>4
  <2>2. Level(conns, open, 0, D) = conns
    <3>1. 0 \in Nat
      OBVIOUS
    <3> QED
      BY <1>2, <1>4, <3>1, LevelFacts
  <2> QED
    BY <1>1, <1>4, <2>1, <2>2 DEF D, open
<1>5. CASE open = <<>>
  BY <1>1, <1>5 DEF open
<1> QED
  BY <1>3, <1>4, <1>5

\* r is conns after budget connections are handed to the slots of D not skipped.
Handed(r, conns, skip, budget, D) ==
  /\ r \in [D -> Nat]
  /\ \A i \in D : r[i] >= conns[i] /\ (skip[i] = TRUE => r[i] = conns[i])
  /\ (\A i \in D : skip[i] = TRUE) => r = conns
  /\ (\E i \in D : skip[i] = FALSE) => Total(r) = Total(conns) + budget
  /\ \A i, j \in D : i < j /\ skip[i] = FALSE /\ skip[j] = FALSE =>
       /\ r[j] + conns[i] <= r[i] + conns[j]
       /\ r[i] + conns[j] <= r[j] + conns[i] + 1

LEMMA DistributeFacts ==
  ASSUME NEW k \in Nat, NEW conns \in [1..k -> Nat], NEW skip \in [1..k -> BOOLEAN],
         NEW budget \in Nat, NEW r, r = Distribute(conns, budget, skip)
  PROVE  Handed(r, conns, skip, budget, 1..k)
<1> DEFINE D == 1..k
           open == Where(skip, FALSE)
           g == Dealt(open, budget, D)
<1>1. r = IF open = <<>> THEN conns ELSE Level(conns, open, budget, D)
  BY DistributeIs
<1>2. /\ open # <<>> => Opens(open, D)
      /\ open # <<>> <=> \E i \in D : skip[i] = FALSE
      /\ \A i \in D : skip[i] = FALSE <=> \E j \in DOMAIN open : open[j] = i
      /\ Increasing(open)
  <2>1. DOMAIN skip = 1..k
    OBVIOUS
  <2>2. Lists(open, skip, FALSE, D)
    <3> DEFINE v == FALSE
    <3> HIDE DEF v
    <3>1. Lists(Where(skip, v), skip, v, 1..k)
      BY <2>1, WhereFacts
    <3> QED
      BY <3>1 DEF v
  <2> HIDE DEF open, D
  <2> QED
    BY <2>2 DEF Lists
<1>3. IsFiniteSet(D) /\ DOMAIN conns = D /\ conns \in [D -> Nat] /\ \A i \in D : i \in Nat
  <2>1. IsFiniteSet(1..k)
    BY FS_Interval
  <2> QED
    BY <2>1
<1>4. \A i \in D : skip[i] = TRUE \/ skip[i] = FALSE
  OBVIOUS
<1>5. CASE open = <<>>
  <2>1. r = conns /\ \A i \in D : skip[i] = TRUE
    BY <1>1, <1>2, <1>4, <1>5
  <2>2. /\ \A i \in D : skip[i] # FALSE
        /\ \A i \in D : conns[i] \in Nat
    BY <1>3, <2>1
  <2> HIDE DEF D
  <2>3. Handed(r, conns, skip, budget, D)
    BY <1>3, <2>1, <2>2 DEF Handed
  <2> QED
    BY <2>3 DEF D
<1>6. CASE open # <<>>
  <2> HIDE DEF D, open, g
  <2>1. /\ \A j \in DOMAIN open : g[open[j]] = ShareOf(budget, Len(open), j)
        /\ \A i \in D : (\A j \in DOMAIN open : open[j] # i) => g[i] = 0
        /\ g \in [D -> Nat]
    BY <1>2, <1>6, DealtAt DEF g
  <2>2. r = [i \in D |-> conns[i] + g[i]]
    BY <1>1, <1>6 DEF Level, g
  <2>3. r \in [D -> Nat] /\ \A i \in D : r[i] = conns[i] + g[i] /\ conns[i] \in Nat /\ g[i] \in Nat
    BY <1>3, <2>1, <2>2
  <2>4. \A i \in D : r[i] >= conns[i] /\ (skip[i] = TRUE => r[i] = conns[i])
    <3>1. \A i \in D : skip[i] = TRUE => g[i] = 0
      BY <1>2, <2>1
    <3> QED
      BY <2>3, <3>1
  <2>5. Total(r) = Total(conns) + budget
    <3>1. Total(r) = SumFunctionOnSet(r, D) /\ Total(conns) = SumFunctionOnSet(conns, D)
      BY <1>3, <2>2, TotalIsSum
    <3>2. SumFunctionOnSet(r, D) = SumFunctionOnSet(conns, D) + SumFunctionOnSet(g, D)
      BY <1>3, <2>3, SumOfSums
    <3>3. SumFunctionOnSet(g, D) = budget
      BY <1>2, <1>3, <1>6, DealtSum DEF g
    <3> QED
      BY <3>1, <3>2, <3>3
  <2>6. ASSUME NEW i \in D, NEW j \in D, i < j, skip[i] = FALSE, skip[j] = FALSE
        PROVE  /\ r[j] + conns[i] <= r[i] + conns[j]
               /\ r[i] + conns[j] <= r[j] + conns[i] + 1
    <3>1. g[j] <= g[i] /\ g[i] <= g[j] + 1
      <4>1. D = 1..k
        BY DEF D
      <4>2. Lists(open, skip, FALSE, D)
        BY <1>2 DEF Lists
      <4> QED
        BY <1>6, <2>6, <4>1, <4>2, DealtEvenly DEF g
    <3>2. /\ r[i] = conns[i] + g[i] /\ conns[i] \in Nat /\ g[i] \in Nat
          /\ r[j] = conns[j] + g[j] /\ conns[j] \in Nat /\ g[j] \in Nat
      BY <2>3, <2>6
    <3> QED
      BY <3>1, <3>2
  <2>7. \E i \in D : skip[i] = FALSE
    BY <1>2, <1>6
  <2>8. ~(\A i \in D : skip[i] = TRUE)
    BY <2>7
  <2>9. Handed(r, conns, skip, budget, D)
    BY <2>3, <2>4, <2>5, <2>6, <2>8 DEF Handed
  <2> QED
    BY <2>9 DEF D
<1> QED
  BY <1>5, <1>6

-----------------------------------------------------------------------------
(* Compute.                                                                 *)

LEMMA ParallelFits ==
  ASSUME NEW C \in Nat \ {0}, NEW N \in Nat \ {0}, NEW ranged \in [1..N -> BOOLEAN],
         NEW SF \in 1..C, NEW max \in Nat \ {0}, NEW n, n = ParallelFiles(C, ranged, SF, max)
  PROVE  n \in 1..N /\ n * SF \in Nat /\ n * SF <= C /\ n <= n * SF
<1> DEFINE q == C \div SF
<1>1. Len(ranged) = N
  OBVIOUS
<1>2. q \in Nat /\ C = SF * q + (C % SF) /\ C % SF \in 0..(SF - 1)
  BY Division
<1>3. n = Most(1, Least(q, Least(N, max)))
  BY <1>1 DEF ParallelFiles
<1> HIDE DEF q
<1>4. n \in 1..N /\ (n <= q \/ n = 1)
  BY <1>2, <1>3 DEF Most, Least
<1>5. q >= 1
  <2> SUFFICES ASSUME q = 0 PROVE FALSE
    BY <1>2
  <2>1. SF * q = 0
    OBVIOUS
  <2> QED
    BY <1>2, <2>1
<1>6. n <= q
  BY <1>4, <1>5
<1>7. SF * n \in Nat /\ SF * n <= SF * q /\ SF * q \in Nat
  <2>1. SF * n \in Nat /\ SF * q \in Nat /\ (n < q => SF * q >= SF * n + SF)
    BY <1>2, <1>4, ProductGrows
  <2> QED
    BY <1>2, <1>4, <1>6, <2>1
<1>8. n * SF = SF * n
  BY <1>4
<1>9. n <= n * SF
  <2>1. SF = 1 \/ (1 < SF /\ n * SF >= n * 1 + n)
    BY <1>4, ProductGrows
  <2> QED
    BY <1>4, <2>1
<1> QED
  BY <1>2, <1>4, <1>7, <1>8, <1>9

\* What every plan promises of its connections: none is lost or spent twice, ...
GoodConns(conns, ranged, n, C, least) ==
  /\ n \in Nat \ {0} /\ conns \in [1..n -> Nat]
  /\ \A i \in 1..n : IF ranged[i] THEN conns[i] >= least ELSE conns[i] = 1
  /\ Total(conns) <= C
  /\ \A i, j \in 1..n : i < j /\ ranged[i] /\ ranged[j] =>
       conns[j] <= conns[i] /\ conns[i] <= conns[j] + 2

\* ... and Mode C spends all of C if a file that starts can use Range.
SplitFiles(m, conns, ranged, n, C, SF) ==
  /\ GoodConns(conns, ranged, n, C, SF)
  /\ (\E i \in 1..n : ranged[i]) => Total(conns) = C
  /\ m.parallel = [i \in 1..n |-> Alloc(i, conns[i], ranged[i])]

LEMMA ModeCFacts ==
  ASSUME NEW C \in Nat \ {0}, NEW N \in Nat \ {0}, NEW ranged \in [1..N -> BOOLEAN],
         NEW SF \in 1..C, NEW max \in Nat \ {0}, NEW n, n = ParallelFiles(C, ranged, SF, max),
         NEW m, m = ModeC(C, ranged, SF, max)
  PROVE  \E conns : SplitFiles(m, conns, ranged, n, C, SF)
<1> DEFINE D == 1..n
           nonRange == [i \in D |-> ~ranged[i]]
           base == [i \in D |-> SF]
           dealt == Distribute(base, C - n * SF, nonRange)
           capped == [i \in D |-> IF nonRange[i] THEN 1 ELSE dealt[i]]
           freed == Total(dealt) - Total(capped)
           conns == Distribute(capped, freed, nonRange)
<1>1. n \in 1..N /\ n * SF \in Nat /\ n * SF <= C /\ n <= n * SF
  BY ParallelFits
<1>2. m.parallel = [i \in 1..n |-> Alloc(i, conns[i], ranged[i])]
  BY DEF ModeC
<1>3. /\ n \in Nat /\ nonRange \in [1..n -> BOOLEAN] /\ base \in [1..n -> Nat]
      /\ C - n * SF \in Nat
  BY <1>1
<1>4. Handed(dealt, base, nonRange, C - n * SF, 1..n)
  <2> HIDE DEF nonRange, base
  <2> QED
    BY <1>3, DistributeFacts
<1>5. /\ IsFiniteSet(D) /\ Cardinality(D) = n
      /\ DOMAIN base = D /\ DOMAIN dealt = D /\ DOMAIN capped = D
  BY <1>3, <1>4, FS_Interval DEF Handed
<1>6. \A i \in D : base[i] = SF
  OBVIOUS
<1>7. \A i \in D : capped[i] = IF nonRange[i] = TRUE THEN 1 ELSE dealt[i]
  OBVIOUS
<1>8. \A i \in D : /\ nonRange[i] = TRUE <=> ~ranged[i]
                   /\ nonRange[i] = FALSE <=> ranged[i]
  BY <1>1
<1> HIDE DEF nonRange, base, dealt
<1>9. capped \in [1..n -> Nat] /\ \A i \in D : capped[i] <= dealt[i] /\ dealt[i] \in Nat /\ capped[i] \in Nat
  <2>1. \A i \in D : dealt[i] \in Nat /\ dealt[i] >= SF /\ SF >= 1
    BY <1>4, <1>6 DEF Handed
  <2>2. \A i \in D : capped[i] <= dealt[i] /\ dealt[i] \in Nat /\ capped[i] \in Nat
    BY <1>7, <2>1
  <2> QED
    BY <2>2
<1> HIDE DEF capped
<1>10. Total(base) = n * SF
  <2>1. Total(base) = SumFunctionOnSet(base, D)
    BY <1>5, TotalIsSum
  <2>2. SF \in Nat
    OBVIOUS
  <2> HIDE DEF D
  <2>3. SumFunctionOnSet(base, D) = Cardinality(D) * SF
    BY <1>5, <1>6, <2>2, SumOfEqual
  <2> QED
    BY <1>5, <2>1, <2>3
<1>11. /\ Total(dealt) \in Nat /\ Total(capped) \in Nat /\ Total(capped) <= Total(dealt)
       /\ freed \in Nat
  <2>1. Total(dealt) = SumFunctionOnSet(dealt, D) /\ Total(capped) = SumFunctionOnSet(capped, D)
    BY <1>5, TotalIsSum
  <2> HIDE DEF D
  <2>2. /\ SumFunctionOnSet(capped, D) \in Nat /\ SumFunctionOnSet(dealt, D) \in Nat
        /\ SumFunctionOnSet(capped, D) <= SumFunctionOnSet(dealt, D)
    BY <1>5, <1>9, SumGrows
  <2> QED
    BY <2>1, <2>2
<1> HIDE DEF freed
<1>12. Handed(conns, capped, nonRange, freed, 1..n)
  BY <1>3, <1>9, <1>11, DistributeFacts
<1> HIDE DEF conns
<1>13. (\E i \in D : ranged[i]) => Total(conns) = C
  <2> SUFFICES ASSUME NEW i \in D, ranged[i] PROVE Total(conns) = C
    OBVIOUS
  <2>1. nonRange[i] = FALSE
    BY <1>8
  <2>2. Total(conns) = Total(capped) + freed /\ Total(dealt) = n * SF + (C - n * SF)
    BY <1>4, <1>10, <1>12, <2>1 DEF Handed
  <2> QED
    BY <1>1, <1>11, <2>2 DEF freed
<1>14. Total(conns) <= C
  <2>1. CASE \E i \in D : ranged[i]
    BY <1>13, <2>1
  <2>2. CASE ~(\E i \in D : ranged[i])
    <3>1. \A i \in D : nonRange[i] = TRUE
      BY <1>8, <2>2
    <3>2. conns = capped /\ dealt = base
      BY <1>4, <1>12, <3>1 DEF Handed
    <3> QED
      BY <1>1, <1>10, <1>11, <3>2
  <2> QED
    BY <2>1, <2>2
<1>15. \A i \in D : IF ranged[i] THEN conns[i] >= SF ELSE conns[i] = 1
  <2> TAKE i \in D
  <2>1. conns[i] \in Nat /\ dealt[i] \in Nat /\ capped[i] \in Nat
    BY <1>9, <1>12 DEF Handed
  <2>2. CASE ranged[i]
    BY <1>4, <1>6, <1>7, <1>8, <1>12, <2>1, <2>2 DEF Handed
  <2>3. CASE ~ranged[i]
    BY <1>7, <1>8, <1>12, <2>3 DEF Handed
  <2> QED
    BY <2>2, <2>3
<1>16. ASSUME NEW i \in D, NEW j \in D, i < j, ranged[i], ranged[j]
       PROVE  conns[j] <= conns[i] /\ conns[i] <= conns[j] + 2
  <2>1. nonRange[i] = FALSE /\ nonRange[j] = FALSE
    BY <1>8, <1>16
  <2>2. capped[i] = dealt[i] /\ capped[j] = dealt[j] /\ base[i] = SF /\ base[j] = SF
    BY <1>6, <1>7, <2>1
  <2>3. /\ conns[i] \in Nat /\ dealt[i] \in Nat /\ conns[j] \in Nat /\ dealt[j] \in Nat /\ SF \in Nat
    BY <1>4, <1>12 DEF Handed
  <2>4. dealt[j] + SF <= dealt[i] + SF /\ dealt[i] + SF <= dealt[j] + SF + 1
    BY <1>4, <1>16, <2>1, <2>2 DEF Handed
  <2>5. conns[j] + dealt[i] <= conns[i] + dealt[j] /\ conns[i] + dealt[j] <= conns[j] + dealt[i] + 1
    BY <1>12, <1>16, <2>1, <2>2 DEF Handed
  <2>6. \A a, b, x, y, z \in Nat :
          x + z <= y + z /\ y + z <= x + z + 1 /\ a + y <= b + x /\ b + x <= a + y + 1
            => a <= b /\ b <= a + 2
    OBVIOUS
  <2> QED
    BY <2>3, <2>4, <2>5, <2>6
<1>17. GoodConns(conns, ranged, n, C, SF)
  BY <1>1, <1>12, <1>14, <1>15, <1>16 DEF GoodConns, Handed
<1> QED
  BY <1>2, <1>13, <1>17 DEF SplitFiles

\* The allocations of n files in the order given, the first of them file first + 1.
InOrder(allocs, first, n) ==
  /\ allocs \in Seq([file : Nat, conns : Nat, range : BOOLEAN]) /\ Len(allocs) = n
  /\ \A i \in 1..n : allocs[i].file = first + i

\* The two parts of a plan are the first n files and the others, all with their allocation.
InTwo(front, back, conns, ranged, n, N) ==
  /\ InOrder(front, 0, n) /\ InOrder(back, n, N - n)
  /\ \A i \in 1..n : front[i].conns = conns[i] /\ front[i].range = ranged[i]

\* What Compute promises of a plan p for the first n of N files.
GoodPlan(p, conns, n, C, ranged, SF, N) ==
  /\ p.budget = C /\ (p.rebalance <=> N # 1 /\ SF # 0)
  /\ n \in 1..N /\ (p.rebalance => n * SF <= C)
  /\ GoodConns(conns, ranged, n, C, IF p.rebalance THEN SF ELSE 1)
  /\ p.rebalance /\ (\E i \in 1..n : ranged[i]) => Total(conns) = C
  /\ InTwo(p.parallel, p.queued, conns, ranged, n, N)

LEMMA AllocsInOrder ==
  ASSUME NEW N \in Nat, NEW ranged \in [1..N -> BOOLEAN], NEW conns \in [1..N -> Nat],
         NEW n \in 0..N, NEW all, all = [i \in 1..N |-> Alloc(i, conns[i], ranged[i])]
  PROVE  InTwo(SubSeq(all, 1, n), SubSeq(all, n + 1, Len(all)), conns, ranged, n, N)
<1> DEFINE R == [file : Nat, conns : Nat, range : BOOLEAN]
<1>1. \A i \in 1..N : /\ Alloc(i, conns[i], ranged[i]) \in R /\ Alloc(i, conns[i], ranged[i]).file = i
                      /\ Alloc(i, conns[i], ranged[i]).conns = conns[i]
                      /\ Alloc(i, conns[i], ranged[i]).range = ranged[i]
  BY DEF Alloc
<1>2. all \in Seq(R) /\ Len(all) = N
  BY <1>1
<1>3. \A i \in 1..N : all[i] = Alloc(i, conns[i], ranged[i])
  OBVIOUS
<1> HIDE DEF R
<1>4. /\ SubSeq(all, 1, n) \in Seq(R) /\ Len(SubSeq(all, 1, n)) = n
      /\ \A i \in 1..n : SubSeq(all, 1, n)[i] = all[i]
  BY <1>2
<1>5. /\ SubSeq(all, n + 1, N) \in Seq(R) /\ Len(SubSeq(all, n + 1, N)) = N - n
      /\ \A i \in 1..(N - n) : SubSeq(all, n + 1, N)[i] = all[n + i]
  BY <1>2
<1>6. (\A i \in 1..(N - n) : n + i \in 1..N) /\ (\A i \in 1..n : i \in 1..N)
  OBVIOUS
<1>7. InOrder(SubSeq(all, 1, n), 0, n)
  BY <1>1, <1>3, <1>4, <1>6 DEF InOrder, R
<1>8. InOrder(SubSeq(all, n + 1, N), n, N - n)
  BY <1>1, <1>3, <1>5, <1>6 DEF InOrder, R
<1>9. \A i \in 1..n : SubSeq(all, 1, n)[i].conns = conns[i] /\ SubSeq(all, 1, n)[i].range = ranged[i]
  BY <1>1, <1>3, <1>4, <1>6
<1> QED
  BY <1>2, <1>7, <1>8, <1>9 DEF InTwo

\* The plan of a single file.
LEMMA ModeAIsGood ==
  ASSUME NEW C \in Nat \ {0}, NEW ranged \in [1..1 -> BOOLEAN], NEW SF \in 0..C,
         NEW max \in Nat \ {0}
  PROVE  \E conns : GoodPlan(Compute(C, ranged, SF, max), conns, 1, C, ranged, SF, 1)
<1> DEFINE c == IF ranged[1] THEN Least(C, max) ELSE 1
           conns == [i \in 1..1 |-> c]
           p == Compute(C, ranged, SF, max)
           R == [file : Nat, conns : Nat, range : BOOLEAN]
<1>1. Len(ranged) = 1 /\ ranged[1] \in BOOLEAN
  OBVIOUS
<1>2. p.parallel = << Alloc(1, c, ranged[1]) >> /\ p.queued = <<>> /\ p.budget = C /\ ~p.rebalance
  BY <1>1 DEF Compute, ModeA
<1>3. c \in Nat /\ 1 <= c /\ c <= C /\ (~ranged[1] => c = 1)
  BY <1>1 DEF Least
<1>4. Total(conns) = c
  <2> HIDE DEF c
  <2>1. Total(conns) = 1 * c
    BY <1>3, TotalOfSame
  <2> QED
    BY <1>3, <2>1
<1>5. Alloc(1, c, ranged[1]) \in R /\ Alloc(1, c, ranged[1]).file = 1
      /\ Alloc(1, c, ranged[1]).conns = c /\ Alloc(1, c, ranged[1]).range = ranged[1]
  BY <1>1, <1>3 DEF Alloc
<1>6. InOrder(p.parallel, 0, 1) /\ InOrder(p.queued, 1, 0)
  <2> HIDE DEF R, c, p
  <2>1. p.parallel \in Seq(R) /\ Len(p.parallel) = 1 /\ p.parallel[1] = Alloc(1, c, ranged[1])
    BY <1>2, <1>5
  <2>2. p.queued \in Seq(R) /\ Len(p.queued) = 0
    BY <1>2
  <2> QED
    BY <1>5, <2>1, <2>2 DEF InOrder, R
<1>7. conns \in [1..1 -> Nat] /\ \A i \in 1..1 : i = 1 /\ conns[i] = c
  BY <1>3
<1>8. GoodConns(conns, ranged, 1, C, 1)
  <2> HIDE DEF conns, c
  <2> QED
    BY <1>3, <1>4, <1>7 DEF GoodConns
<1>9. \A i \in 1..1 : p.parallel[i].conns = conns[i] /\ p.parallel[i].range = ranged[i]
  <2> HIDE DEF conns, c, p
  <2>1. p.parallel[1] = Alloc(1, c, ranged[1])
    BY <1>2
  <2> QED
    BY <1>5, <1>7, <2>1
<1> HIDE DEF conns, c, p
<1>10. GoodPlan(p, conns, 1, C, ranged, SF, 1)
  BY <1>2, <1>6, <1>8, <1>9 DEF GoodPlan, InTwo
<1> QED
  BY <1>10 DEF p

\* The plan of several files at one connection each.
LEMMA ModeBIsGood ==
  ASSUME NEW C \in Nat \ {0}, NEW N \in Nat, N > 1, NEW ranged \in [1..N -> BOOLEAN],
         NEW max \in Nat \ {0}
  PROVE  \E n, conns : GoodPlan(Compute(C, ranged, 0, max), conns, n, C, ranged, 0, N)
<1> DEFINE n == Least(C, Least(N, max))
           ones == [i \in 1..N |-> 1]
           conns == [i \in 1..n |-> 1]
           all == [i \in DOMAIN ranged |-> Alloc(i, 1, ranged[i])]
           p == Compute(C, ranged, 0, max)
<1>1. Len(ranged) = N
  OBVIOUS
<1>2. all = [i \in 1..N |-> Alloc(i, ones[i], ranged[i])]
  OBVIOUS
<1>3. ModeB(C, ranged, max) = [parallel |-> SubSeq(all, 1, n), queued |-> SubSeq(all, n + 1, Len(all))]
  BY <1>1 DEF ModeB
<1> HIDE DEF all
<1>4. n \in 1..N /\ n <= C
  BY DEF Least
<1> HIDE DEF n
<1>5. /\ p.parallel = SubSeq(all, 1, n) /\ p.queued = SubSeq(all, n + 1, Len(all))
      /\ p.budget = C /\ ~p.rebalance
  <2> DEFINE b == ModeB(C, ranged, max)
  <2>1. p = [parallel |-> b.parallel, queued |-> b.queued, budget |-> C, rebalance |-> FALSE]
    <3>1. (Len(ranged) = 1) = FALSE /\ (0 = 0) = TRUE
      BY <1>1
    <3> HIDE DEF b
    <3> QED
      BY <3>1 DEF Compute, b
  <2>2. b.parallel = SubSeq(all, 1, n) /\ b.queued = SubSeq(all, n + 1, Len(all))
    <3> DEFINE front == SubSeq(all, 1, n)
               back == SubSeq(all, n + 1, Len(all))
    <3>1. b = [parallel |-> front, queued |-> back]
      BY <1>3
    <3> HIDE DEF b, front, back
    <3>2. b.parallel = front /\ b.queued = back
      BY <3>1
    <3> QED
      BY <3>2 DEF front, back
  <2> HIDE DEF b, p
  <2> QED
    BY <2>1, <2>2
<1>6. Total(conns) = n * 1
  <2>1. n \in Nat
    BY <1>4
  <2> QED
    BY <2>1, TotalOfSame
<1>7. InTwo(p.parallel, p.queued, ones, ranged, n, N)
  <2>1. ones \in [1..N -> Nat] /\ N \in Nat /\ n \in 0..N
    BY <1>4
  <2> HIDE DEF ones, p
  <2>2. InTwo(SubSeq(all, 1, n), SubSeq(all, n + 1, Len(all)), ones, ranged, n, N)
    BY <1>2, <2>1, AllocsInOrder
  <2> QED
    BY <1>5, <2>2
<1>8. conns \in [1..n -> Nat] /\ \A i \in 1..n : conns[i] = 1 /\ ones[i] = 1
  BY <1>4
<1> HIDE DEF conns, ones, p
<1>9. GoodConns(conns, ranged, n, C, 1)
  BY <1>4, <1>6, <1>8 DEF GoodConns
<1>10. InTwo(p.parallel, p.queued, conns, ranged, n, N)
  BY <1>7, <1>8 DEF InTwo
<1>11. GoodPlan(p, conns, n, C, ranged, 0, N)
  BY <1>4, <1>5, <1>9, <1>10 DEF GoodPlan
<1> QED
  BY <1>11 DEF p

\* The plan of several files at SF connections each.
LEMMA ModeCIsGood ==
  ASSUME NEW C \in Nat \ {0}, NEW N \in Nat, N > 1, NEW ranged \in [1..N -> BOOLEAN],
         NEW SF \in 1..C, NEW max \in Nat \ {0}
  PROVE  \E n, conns : GoodPlan(Compute(C, ranged, SF, max), conns, n, C, ranged, SF, N)
<1> DEFINE n == ParallelFiles(C, ranged, SF, max)
           waiting == [i \in DOMAIN ranged |-> Alloc(i, IF ranged[i] THEN SF ELSE 1, ranged[i])]
           later == [i \in 1..N |-> IF ranged[i] THEN SF ELSE 1]
           m == ModeC(C, ranged, SF, max)
           p == Compute(C, ranged, SF, max)
<1>1. Len(ranged) = N /\ (N = 1) = FALSE /\ (SF = 0) = FALSE
  OBVIOUS
<1>2. n \in 1..N /\ n * SF <= C
  <2>1. N \in Nat \ {0}
    OBVIOUS
  <2> HIDE DEF n
  <2>2. n = ParallelFiles(C, ranged, SF, max)
    BY DEF n
  <2> QED
    BY <2>1, <2>2, ParallelFits
<1>3. PICK conns : SplitFiles(m, conns, ranged, n, C, SF)
  <2>1. N \in Nat \ {0}
    OBVIOUS
  <2> HIDE DEF n, m
  <2>2. n = ParallelFiles(C, ranged, SF, max) /\ m = ModeC(C, ranged, SF, max)
    BY DEF n, m
  <2> QED
    BY <2>1, <2>2, ModeCFacts
<1>4. m.queued = SubSeq(waiting, n + 1, Len(waiting))
  BY DEF ModeC
<1>5. waiting = [i \in 1..N |-> Alloc(i, later[i], ranged[i])] /\ later \in [1..N -> Nat]
  OBVIOUS
<1>6. p = [parallel |-> m.parallel, queued |-> m.queued, budget |-> C, rebalance |-> TRUE]
  <2> HIDE DEF m
  <2> QED
    BY <1>1 DEF Compute, m
<1> HIDE DEF n, waiting, later, m, p
<1>7. p.parallel = m.parallel /\ p.queued = m.queued /\ p.budget = C /\ p.rebalance = TRUE
  BY <1>6
<1>8. InOrder(p.queued, n, N - n)
  <2>1. n \in 0..N /\ N \in Nat
    BY <1>2
  <2>2. InTwo(SubSeq(waiting, 1, n), SubSeq(waiting, n + 1, Len(waiting)), later, ranged, n, N)
    BY <1>5, <2>1, AllocsInOrder
  <2> QED
    BY <1>4, <1>7, <2>2 DEF InTwo
<1>9. /\ InOrder(p.parallel, 0, n)
      /\ \A i \in 1..n : p.parallel[i].conns = conns[i] /\ p.parallel[i].range = ranged[i]
  <2> DEFINE R == [file : Nat, conns : Nat, range : BOOLEAN]
             a == [i \in 1..n |-> Alloc(i, conns[i], ranged[i])]
  <2>1. conns \in [1..n -> Nat] /\ n \in Nat
    BY <1>3 DEF GoodConns, SplitFiles
  <2>2. \A i \in 1..n : ranged[i] \in BOOLEAN /\ conns[i] \in Nat /\ i \in Nat
    BY <1>2, <2>1
  <2>3. \A i \in 1..n : /\ Alloc(i, conns[i], ranged[i]) \in R /\ Alloc(i, conns[i], ranged[i]).file = i
                        /\ Alloc(i, conns[i], ranged[i]).conns = conns[i]
                        /\ Alloc(i, conns[i], ranged[i]).range = ranged[i]
    BY <2>2 DEF Alloc
  <2>4. a \in Seq(R) /\ Len(a) = n /\ \A i \in 1..n : a[i] = Alloc(i, conns[i], ranged[i])
    <3> HIDE DEF R
    <3> QED
      BY <2>1, <2>3
  <2> HIDE DEF a
  <2>5. p.parallel = a
    BY <1>3, <1>7 DEF a, SplitFiles
  <2>6. \A i \in 1..n : 0 + i = i
    BY <2>1
  <2> QED
    BY <2>3, <2>4, <2>5, <2>6 DEF InOrder, R
<1>10. GoodPlan(p, conns, n, C, ranged, SF, N)
  BY <1>1, <1>2, <1>3, <1>7, <1>8, <1>9 DEF GoodPlan, InTwo, SplitFiles
<1> QED
  BY <1>10 DEF p

LEMMA ComputeIsGood ==
  ASSUME BatchAssumption, NEW b \in Batches
  PROVE  /\ Len(b.ranged) \in Nat \ {0} /\ b.ranged \in [1..Len(b.ranged) -> BOOLEAN]
         /\ b.C \in Nat \ {0} /\ b.SF \in 0..b.C
         /\ \E n, conns : GoodPlan(Compute(b.C, b.ranged, b.SF, b.max), conns, n,
                                   b.C, b.ranged, b.SF, Len(b.ranged))
<1> DEFINE C == b.C
           ranged == b.ranged
           SF == b.SF
           max == b.max
<1>1. /\ C \in 1..MaxBudget /\ SF \in 0..MaxBudget /\ SF <= C /\ max \in 1..MaxBudget
      /\ ranged \in UNION {[1..n -> BOOLEAN] : n \in 1..MaxFiles}
  BY DEF Batches
<1>2. MaxBudget \in Nat /\ MaxFiles \in Nat
  BY DEF BatchAssumption
<1> HIDE DEF C, ranged, SF, max
<1>3. C \in Nat \ {0} /\ SF \in 0..C /\ max \in Nat \ {0}
  BY <1>1, <1>2
<1>4. PICK N \in 1..MaxFiles : ranged \in [1..N -> BOOLEAN]
  BY <1>1
<1>5. N \in Nat \ {0} /\ Len(ranged) = N
  BY <1>2, <1>4
<1>6. \E n, conns : GoodPlan(Compute(C, ranged, SF, max), conns, n, C, ranged, SF, N)
  <2>1. CASE N = 1
    BY <1>3, <1>4, <2>1, ModeAIsGood
  <2>2. CASE N > 1 /\ SF = 0
    BY <1>3, <1>4, <1>5, <2>2, ModeBIsGood
  <2>3. CASE N > 1 /\ SF # 0
    <3>1. SF \in 1..C
      BY <1>3, <2>3
    <3> QED
      BY <1>3, <1>4, <1>5, <2>3, <3>1, ModeCIsGood
  <2> QED
    BY <1>5, <2>1, <2>2, <2>3
<1> QED
  BY <1>3, <1>4, <1>5, <1>6 DEF C, ranged, SF, max

LEMMA JoinedAt ==
  ASSUME NEW R, NEW s \in Seq(R), NEW t \in Seq(R), NEW n \in Nat, NEW N \in Nat, n <= N,
         Len(s) = n, Len(t) = N - n
  PROVE  /\ s \o t \in Seq(R) /\ Len(s \o t) = N
         /\ \A i \in 1..N : (s \o t)[i] = IF i <= n THEN s[i] ELSE t[i - n]
<1>1. s \o t \in Seq(R) /\ Len(s \o t) = N
  OBVIOUS
<1>2. ASSUME NEW i \in 1..N PROVE (s \o t)[i] = IF i <= n THEN s[i] ELSE t[i - n]
  OBVIOUS
<1> QED
  BY <1>1, <1>2

\* A good plan has the four parts of PlanIsSound.
LEMMA GoodPlanIsSound ==
  ASSUME NEW n, NEW conns, batch.ranged \in [1..Len(batch.ranged) -> BOOLEAN],
         Len(batch.ranged) \in Nat \ {0}, batch.C \in Nat,
         GoodPlan(plan, conns, n, batch.C, batch.ranged, batch.SF, Len(batch.ranged))
  PROVE  BudgetSpentExactly /\ EveryFileOnce /\ RangeDecidesConnections /\ FrontLoaded
<1> DEFINE N == Len(batch.ranged)
           front == plan.parallel
           back == plan.queued
           R == [file : Nat, conns : Nat, range : BOOLEAN]
<1>1. /\ n \in 1..N /\ GoodConns(conns, batch.ranged, n, batch.C, IF plan.rebalance THEN batch.SF ELSE 1)
      /\ plan.rebalance /\ (\E i \in 1..n : batch.ranged[i]) => Total(conns) = batch.C
      /\ \A i \in 1..n : front[i].conns = conns[i] /\ front[i].range = batch.ranged[i]
  BY DEF GoodPlan, InTwo
<1>2. /\ front \in Seq(R) /\ Len(front) = n /\ \A i \in 1..n : front[i].file = 0 + i
      /\ back \in Seq(R) /\ Len(back) = N - n /\ \A i \in 1..(N - n) : back[i].file = n + i
  BY DEF GoodPlan, InTwo, InOrder
<1> HIDE DEF R
<1>3. DOMAIN front = 1..n /\ N \in Nat /\ n \in Nat /\ DOMAIN batch.ranged = 1..N
  BY <1>1, <1>2
<1>4. conns \in [1..n -> Nat] /\ Total(conns) <= batch.C
      /\ (\A i \in 1..n : IF batch.ranged[i] THEN conns[i] >= (IF plan.rebalance THEN batch.SF ELSE 1)
                                             ELSE conns[i] = 1)
      /\ \A i, j \in 1..n : i < j /\ batch.ranged[i] /\ batch.ranged[j] =>
           conns[j] <= conns[i] /\ conns[i] <= conns[j] + 2
  BY <1>1 DEF GoodConns
<1>5. Conns(front) = conns
  BY <1>1, <1>3, <1>4 DEF Conns
<1> HIDE DEF N, front, back
<1>6. BudgetSpentExactly
  BY <1>1, <1>3, <1>4, <1>5 DEF BudgetSpentExactly, front
<1>7. RangeDecidesConnections
  BY <1>1, <1>3, <1>4 DEF RangeDecidesConnections, front
<1>8. FrontLoaded
  <2> SUFFICES ASSUME NEW i \in 1..n, NEW j \in 1..n, i < j, front[i].range, front[j].range
               PROVE  front[j].conns <= front[i].conns /\ front[i].conns <= front[j].conns + 2
    BY <1>3 DEF FrontLoaded, front
  <2>1. batch.ranged[i] /\ batch.ranged[j] /\ front[i].conns = conns[i] /\ front[j].conns = conns[j]
    BY <1>1
  <2>2. conns[j] <= conns[i] /\ conns[i] <= conns[j] + 2
    BY <1>4, <2>1
  <2> QED
    BY <2>1, <2>2
<1>9. EveryFileOnce
  <2> DEFINE all == front \o back
  <2>1. all \in Seq(R) /\ Len(all) = N /\ (\A i \in 1..N : all[i] = IF i <= n THEN front[i] ELSE back[i - n])
    <3>1. front \in Seq(R) /\ back \in Seq(R) /\ Len(front) = n /\ Len(back) = N - n
      BY <1>2
    <3>2. N \in Nat /\ n \in Nat /\ n <= N
      BY <1>1, <1>3
    <3> QED
      BY <3>1, <3>2, JoinedAt
  <2> HIDE DEF all
  <2>2. \A i \in 1..N : all[i].file = i
    <3> TAKE i \in 1..N
    <3>1. CASE i <= n
      <4>1. all[i] = front[i] /\ i \in 1..n /\ 0 + i = i
        BY <1>3, <2>1, <3>1
      <4> QED
        BY <1>2, <4>1
    <3>2. CASE i > n
      <4>1. all[i] = back[i - n] /\ i - n \in 1..(N - n) /\ n + (i - n) = i
        BY <1>3, <2>1, <3>2
      <4> QED
        BY <1>2, <4>1
    <3> QED
      BY <1>3, <3>1, <3>2
  <2>3. front # <<>>
    BY <1>1, <1>2
  <2>4. DOMAIN all = 1..N
    BY <1>3, <2>1
  <2>5. [i \in DOMAIN all |-> all[i].file] = [i \in DOMAIN batch.ranged |-> i]
    BY <1>3, <2>2, <2>4
  <2> QED
    BY <2>3, <2>5 DEF EveryFileOnce, all, front, back
<1> QED
  BY <1>6, <1>7, <1>8, <1>9

-----------------------------------------------------------------------------
(* RebalanceTargets.                                                        *)

-----------------------------------------------------------------------------
(* The specification.                                                       *)

Result == Compute(batch.C, batch.ranged, batch.SF, batch.max)

\* The inductive invariant: the plan is that of the batch, and what is rebalanced are
\* tasks that a plan with a budget started.
PInv ==
  /\ batch \in Batches
  /\ (plan = <<>> /\ targets = <<>>) \/ plan = Result
  /\ targets # <<>> =>
       /\ plan.rebalance
       /\ \E n \in 1..Len(plan.parallel) : capable \in [1..n -> BOOLEAN]
       /\ targets = RebalanceTargets(capable, plan.budget)

LEMMA PInvStart == Init => PInv
BY DEF Init, PInv

LEMMA PInvStep == PInv /\ [Next]_vars => PInv'
<1> SUFFICES ASSUME PInv, [Next]_vars PROVE PInv'
  OBVIOUS
<1>1. CASE Plan
  <2>1. batch' = batch /\ capable' = capable /\ targets' = targets /\ plan' = Result
    BY <1>1 DEF Plan, Result
  <2>2. Result' = Result
    BY <2>1 DEF Result
  <2>3. targets = <<>> \/ plan = Result
    BY DEF PInv
  <2> QED
    BY <2>1, <2>2, <2>3 DEF PInv
<1>2. CASE Rebalance
  <2>1. batch' = batch /\ plan' = plan /\ plan # <<>> /\ plan.rebalance
    BY <1>2 DEF Rebalance
  <2>2. \E n \in 1..Len(plan.parallel) : capable' \in [1..n -> BOOLEAN]
    BY <1>2 DEF Rebalance
  <2>3. targets' = RebalanceTargets(capable', plan.budget)
    BY <1>2 DEF Rebalance
  <2>4. Result' = Result
    BY <2>1 DEF Result
  <2> QED
    BY <2>1, <2>2, <2>3, <2>4 DEF PInv
<1>3. CASE UNCHANGED vars
  BY <1>3 DEF PInv, vars, Result
<1> QED
  BY <1>1, <1>2, <1>3 DEF Next

LEMMA PInvHolds == Spec => []PInv
BY PInvStart, PInvStep, PTL DEF Spec

LEMMA PInvPlan == PInv => PlanIsSound
<1> SUFFICES ASSUME PInv, plan # <<>>
             PROVE  BudgetSpentExactly /\ EveryFileOnce /\ RangeDecidesConnections /\ FrontLoaded
  BY DEF PlanIsSound, Planned
<1>1. batch \in Batches /\ plan = Result
  BY DEF PInv
<1>2. /\ Len(batch.ranged) \in Nat \ {0} /\ batch.ranged \in [1..Len(batch.ranged) -> BOOLEAN]
      /\ batch.C \in Nat \ {0}
      /\ \E n, conns : GoodPlan(plan, conns, n, batch.C, batch.ranged, batch.SF, Len(batch.ranged))
  BY <1>1, BatchAssumption, ComputeIsGood DEF Result
<1>3. PICK n, conns : GoodPlan(plan, conns, n, batch.C, batch.ranged, batch.SF, Len(batch.ranged))
  BY <1>2
<1>4. batch.C \in Nat
  BY <1>2
<1> QED
  BY <1>2, <1>3, <1>4, GoodPlanIsSound

LEMMA PInvTargets == PInv => RebalanceIsSound
<1> SUFFICES ASSUME PInv, targets # <<>> PROVE TargetsSpendBudget /\ PromiseKept
  BY DEF RebalanceIsSound
<1>1. batch \in Batches /\ plan = Result /\ plan.rebalance /\ targets = RebalanceTargets(capable, plan.budget)
  BY DEF PInv
<1>2. PICK k \in 1..Len(plan.parallel) : capable \in [1..k -> BOOLEAN]
  BY DEF PInv
<1>3. /\ batch.C \in Nat \ {0} /\ batch.SF \in 0..batch.C
      /\ \E n, conns : GoodPlan(plan, conns, n, batch.C, batch.ranged, batch.SF, Len(batch.ranged))
  BY <1>1, BatchAssumption, ComputeIsGood DEF Result
<1>4. PICK n, conns : GoodPlan(plan, conns, n, batch.C, batch.ranged, batch.SF, Len(batch.ranged))
  BY <1>3
<1>5. /\ plan.budget = batch.C /\ batch.SF # 0 /\ n * batch.SF <= batch.C
      /\ n \in Nat /\ Len(plan.parallel) = n
  BY <1>1, <1>4 DEF GoodPlan, GoodConns, InTwo, InOrder
<1> DEFINE D == 1..k
           SF == batch.SF
<1>6. k \in Nat \ {0} /\ k <= n /\ SF \in Nat \ {0} /\ plan.budget \in Nat /\ n * SF <= plan.budget
  BY <1>2, <1>3, <1>5
<1>7. D = 1..k /\ capable \in [D -> BOOLEAN] /\ n \in Nat
  BY <1>2, <1>5
<1> HIDE DEF D, SF
<1>8. GoodTargets(targets, capable, plan.budget, SF, D)
  BY <1>1, <1>6, <1>7, TargetsAreGood
<1>9. DOMAIN targets = D /\ DOMAIN capable = D
  BY <1>7, <1>8 DEF GoodTargets
<1>10. TargetsSpendBudget
  BY <1>8, <1>9 DEF GoodTargets, TargetsSpendBudget
<1>11. PromiseKept
  BY <1>8, <1>9 DEF GoodTargets, PromiseKept, SF
<1> QED
  BY <1>10, <1>11

\* The plan of every batch spends the connections it may, plans every URL once, gives a
\* second connection to ranged files only and serves them from the front (balancer.go:56-223).
THEOREM EveryPlanIsSound == Spec => []PlanIsSound
<1>1. PInv => PlanIsSound
  BY PInvPlan
<1> QED
  BY <1>1, PInvHolds, PTL

\* Whichever tasks are live, rebalancing spends exactly the budget, evenly, and takes no
\* ranged task below the connections it was admitted with (rebalance.go:19-50).
THEOREM EveryRebalancingIsSound == Spec => []RebalanceIsSound
<1>1. PInv => RebalanceIsSound
  BY PInvTargets
<1> QED
  BY <1>1, PInvHolds, PTL
=============================================================================
