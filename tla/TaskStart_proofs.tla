------------------------- MODULE TaskStart_proofs --------------------------
(***************************************************************************)
(* What a destination holds when a run is over, for any file, any options, *)
(* any server and any number of runs, kills, replacements and rotten       *)
(* bytes.                                                                  *)
(***************************************************************************)
EXTENDS TaskStart, FiniteSetTheorems, TLAPS

-----------------------------------------------------------------------------
(* Cutting a stream.                                                        *)

LEMMA Division ==
  ASSUME NEW a \in Nat, NEW b \in Nat \ {0}
  PROVE  /\ a \div b \in Nat
         /\ b * (a \div b) <= a /\ a < b * (a \div b) + b
OBVIOUS

LEMMA Monotone ==
  ASSUME NEW a \in Nat, NEW b \in Nat, NEW s \in Nat, a <= b
  PROVE  s * a <= s * b
OBVIOUS

LEMMA CeilDivFacts ==
  ASSUME NEW a \in Nat \ {0}, NEW b \in Nat \ {0}
  PROVE  /\ CeilDiv(a, b) \in Nat \ {0}
         /\ b * CeilDiv(a, b) >= a /\ b * (CeilDiv(a, b) - 1) < a
<1> DEFINE q == CeilDiv(a, b)
<1>1. q = (a + b - 1) \div b /\ a + b - 1 \in Nat
  BY DEF CeilDiv
<1>2. q \in Nat /\ b * q <= a + b - 1 /\ a + b - 1 < b * q + b
  BY <1>1, Division
<1> HIDE DEF q
<1>3. q # 0
  BY <1>2
<1>4. b * (q - 1) = b * q - b
  BY <1>2
<1> QED
  BY <1>2, <1>3, <1>4 DEF q

\* The chunks lie in lo..hi - 1 and every offset is in one of them.
Tiles(chunks, lo, hi) ==
  /\ \A c \in chunks : /\ c.first \in Nat /\ c.last \in Nat
                       /\ lo <= c.first /\ c.first <= c.last /\ c.last < hi
  /\ \A u \in lo..(hi - 1) : \E c \in chunks : c.first <= u /\ u <= c.last
  /\ \A c, d \in chunks : \A u \in lo..(hi - 1) :
       c.first <= u /\ u <= c.last /\ d.first <= u /\ u <= d.last => c = d

NoLonger(chunks, seg) == \A c \in chunks : c.last < c.first + seg

\* The pieces of Cut cover the stream without overlapping, and none is longer
\* than seg.
LEMMA CutTiles ==
  ASSUME NEW size \in Nat \ {0}, NEW seg \in Nat \ {0}, NEW base \in Nat
  PROVE  /\ Tiles(Range(Cut(size, seg, base)), base, base + size)
         /\ NoLonger(Range(Cut(size, seg, base)), seg)
         /\ IsFiniteSet(Range(Cut(size, seg, base)))
<1> DEFINE k == CeilDiv(size, seg)
           cuts == Cut(size, seg, base)
           piece(i) == [first |-> base + (i - 1) * seg, last |-> base + Lower(i * seg, size) - 1]
<1>1. k \in Nat \ {0} /\ seg * k >= size /\ seg * (k - 1) < size
  BY CeilDivFacts
<1>2. cuts = [i \in 1..k |-> piece(i)]
  BY DEF Cut
<1>3. Range(cuts) = {piece(i) : i \in 1..k}
  BY <1>2 DEF Range
<1>4. ASSUME NEW i \in 1..k
      PROVE  LET c == piece(i) IN
             /\ c.first = base + (i - 1) * seg /\ c.first \in Nat /\ c.last \in Nat
             /\ base <= c.first /\ c.first <= c.last /\ c.last < base + size
             /\ c.last < c.first + seg /\ (c.last + 1 = c.first + seg \/ c.last + 1 = base + size)
  <2>1. seg * (i - 1) <= seg * (k - 1) /\ i - 1 \in Nat
    BY <1>1, Monotone
  <2>2. seg * (i - 1) < size /\ seg * (i - 1) \in Nat /\ (i - 1) * seg = seg * (i - 1)
    BY <1>1, <2>1
  <2>3. i * seg = seg * (i - 1) + seg
    OBVIOUS
  <2> QED
    BY <2>2, <2>3 DEF Lower
<1> HIDE DEF piece, cuts, k
<1>5. ASSUME NEW u \in base..(base + size - 1)
      PROVE  \E i \in 1..k : piece(i).first <= u /\ u <= piece(i).last
  <2> DEFINE i == (u - base) \div seg + 1
  <2>1. /\ u - base \in Nat /\ i \in Nat /\ i >= 1 /\ i - 1 \in Nat
        /\ seg * (i - 1) <= u - base /\ u - base < seg * (i - 1) + seg
    <3>1. u - base \in Nat
      OBVIOUS
    <3>2. i \in Nat /\ i - 1 = (u - base) \div seg
      BY <3>1, Division
    <3> QED
      BY <3>1, <3>2, Division
  <2> HIDE DEF i
  <2>2. i \in 1..k
    <3>1. u - base < size
      OBVIOUS
    <3>2. ~(k <= i - 1)
      <4> SUFFICES ASSUME k <= i - 1 PROVE FALSE
        OBVIOUS
      <4>1. seg * k <= seg * (i - 1)
        BY <1>1, <2>1, Monotone
      <4>2. seg * k \in Nat /\ seg * (i - 1) \in Nat
        BY <1>1, <2>1
      <4> QED
        BY <1>1, <2>1, <3>1, <4>1, <4>2
    <3> QED
      BY <1>1, <2>1, <3>2
  <2>3. /\ piece(i).first = base + (i - 1) * seg
        /\ piece(i).last + 1 = piece(i).first + seg \/ piece(i).last + 1 = base + size
        /\ piece(i).last \in Nat /\ piece(i).first \in Nat
    BY <1>4, <2>2
  <2>4. (i - 1) * seg = seg * (i - 1)
    BY <2>1
  <2>5. piece(i).first <= u
    BY <2>1, <2>3, <2>4
  <2>6. u <= piece(i).last
    BY <2>1, <2>3, <2>4
  <2> QED
    BY <2>2, <2>5, <2>6
<1>6. ASSUME NEW i \in 1..k, NEW j \in 1..k, i < j
      PROVE  piece(i).last < piece(j).first
  <2>1. seg * i <= seg * (j - 1) /\ i \in Nat /\ j - 1 \in Nat /\ k \in Nat
    BY <1>1, <1>6, Monotone
  <2>2. seg * i = seg * (i - 1) + seg /\ (i - 1) * seg = seg * (i - 1) /\ (j - 1) * seg = seg * (j - 1)
    BY <2>1
  <2>3. piece(i).last < piece(i).first + seg /\ piece(i).first = base + (i - 1) * seg
    BY <1>4
  <2>4. piece(j).first = base + (j - 1) * seg /\ piece(i).last \in Nat
    BY <1>4
  <2> QED
    BY <2>1, <2>2, <2>3, <2>4
<1>7. IsFiniteSet(Range(cuts))
  <2>1. IsFiniteSet(1..k)
    BY <1>1, FS_Interval
  <2>2. cuts \in Surjection(1..k, Range(cuts))
    BY <1>2 DEF Surjection, Range
  <2> QED
    BY <2>1, <2>2, FS_Surjection
<1>8. Tiles(Range(cuts), base, base + size)
  <2>1. \A c \in Range(cuts) : /\ c.first \in Nat /\ c.last \in Nat
                       /\ base <= c.first /\ c.first <= c.last /\ c.last < base + size
    BY <1>3, <1>4
  <2>2. \A u \in base..(base + size - 1) : \E c \in Range(cuts) : c.first <= u /\ u <= c.last
    BY <1>3, <1>5
  <2>3. ASSUME NEW i \in 1..k, NEW j \in 1..k, NEW u \in base..(base + size - 1),
               piece(i).first <= u, u <= piece(i).last, piece(j).first <= u, u <= piece(j).last
        PROVE  i = j
    <3>1. /\ piece(i).first \in Nat /\ piece(i).last \in Nat
          /\ piece(j).first \in Nat /\ piece(j).last \in Nat
      BY <1>4
    <3>2. ~(i < j) /\ ~(j < i)
      BY <1>6, <2>3, <3>1
    <3> QED
      BY <3>2, <1>1
  <2> QED
    BY <1>3, <2>1, <2>2, <2>3 DEF Tiles
<1>9. NoLonger(Range(cuts), seg)
  BY <1>3, <1>4 DEF NoLonger
<1> QED
  BY <1>7, <1>8, <1>9 DEF cuts

-----------------------------------------------------------------------------
(* The layout of a file whose length is known.                              *)

\* The options of a run, smart having settled, and what a probe finds.
Settled(o) ==
  /\ o.profile \in {"odm", "aria2c", "both"}
  /\ o.chunk \in Nat \ {0} /\ o.split \in Nat \ {0} /\ o.minSplit \in Nat \ {0}
  /\ o.conns \in Nat \ {0}

LEMMA AriaFacts ==
  ASSUME NEW size \in Nat \ {0}, NEW split \in Nat \ {0}, NEW minSplit \in Nat \ {0}
  PROVE  LET a == AriaSplit(size, split, minSplit) IN
         /\ a.n \in Nat \ {0} /\ a.seg = CeilDiv(size, a.n) /\ a.seg \in Nat \ {0}
<1> DEFINE a == AriaSplit(size, split, minSplit)
           most == size \div (2 * Higher(minSplit, 1))
           n == IF most >= 1 THEN Lower(split, most) ELSE split
<1>1. 2 * Higher(minSplit, 1) \in Nat \ {0}
  BY DEF Higher
<1>2. most \in Nat
  BY <1>1, Division
<1>3. n \in Nat \ {0}
  BY <1>2 DEF Lower
<1>4. a.n = n /\ a.seg = CeilDiv(size, n)
  BY DEF AriaSplit
<1> HIDE DEF a, n
<1> QED
  BY <1>3, <1>4, CeilDivFacts DEF a

\* Two tilings side by side are a tiling.
LEMMA TilesJoin ==
  ASSUME NEW A, NEW B, NEW lo \in Nat, NEW mid \in Nat, NEW hi \in Nat,
         lo <= mid, mid <= hi, Tiles(A, lo, mid), Tiles(B, mid, hi)
  PROVE  Tiles(A \cup B, lo, hi)
<1>1. \A c \in A \cup B : /\ c.first \in Nat /\ c.last \in Nat
                          /\ lo <= c.first /\ c.first <= c.last /\ c.last < hi
  BY DEF Tiles
<1>2. \A u \in lo..(hi - 1) : \E c \in A \cup B : c.first <= u /\ u <= c.last
  <2> TAKE u \in lo..(hi - 1)
  <2>1. u \in lo..(mid - 1) \/ u \in mid..(hi - 1)
    OBVIOUS
  <2> QED
    BY <2>1 DEF Tiles
<1>3. ASSUME NEW c \in A \cup B, NEW d \in A \cup B, NEW u \in lo..(hi - 1),
             c.first <= u, u <= c.last, d.first <= u, u <= d.last
      PROVE  c = d
  <2>1. CASE u < mid
    <3>1. c \notin B /\ d \notin B /\ u \in lo..(mid - 1)
      BY <1>1, <1>3, <2>1 DEF Tiles
    <3> QED
      BY <1>3, <3>1 DEF Tiles
  <2>2. CASE u >= mid
    <3>1. c \notin A /\ d \notin A /\ u \in mid..(hi - 1)
      BY <1>1, <1>3, <2>2 DEF Tiles
    <3> QED
      BY <1>3, <3>1 DEF Tiles
  <2> QED
    BY <2>1, <2>2
<1> QED
  BY <1>1, <1>2, <1>3 DEF Tiles

\* How long chunkSpan takes a chunk to be that starts at u.
SegmentAt(lay, u) == IF lay.splitAt > 0 /\ u >= lay.splitAt THEN lay.seg2 ELSE lay.chunk

LEMMA OneRegion ==
  ASSUME NEW r, NEW lay, lay.regions = <<r>>
  PROVE  ChunksOf(lay) = Range(r)
BY DEF ChunksOf

LEMMA TwoRegions ==
  ASSUME NEW r, NEW s, NEW lay, lay.regions = <<r, s>>
  PROVE  ChunksOf(lay) = Range(r) \cup Range(s)
<1>1. DOMAIN <<r, s>> = {1, 2}
  OBVIOUS
<1> QED
  BY <1>1 DEF ChunksOf

\* The forms a layout of a file of known length takes.
OneQueue(lay, size) ==
  /\ lay.regions = << Cut(size, lay.chunk, 0) >>
  /\ lay.chunk \in Nat \ {0} /\ lay.splitAt = 0

TwoQueues(lay, size) ==
  /\ lay.regions = << Cut(lay.splitAt, lay.chunk, 0), Cut(size - lay.splitAt, lay.seg2, lay.splitAt) >>
  /\ lay.chunk \in Nat \ {0} /\ lay.seg2 \in Nat \ {0}
  /\ lay.splitAt \in Nat \ {0} /\ size - lay.splitAt \in Nat \ {0}

LEMMA LayoutForms ==
  ASSUME NEW o, Settled(o), NEW p, p.single = FALSE, p.size \in Nat \ {0}
  PROVE  LET lay == Layout(o, p) IN
         /\ OneQueue(lay, p.size) \/ (TwoQueues(lay, p.size) /\ lay.chunk = o.chunk)
         /\ o.profile # "aria2c" => lay.chunk = o.chunk
<1> DEFINE lay  == Layout(o, p)
           qs   == p.size
           mid  == Higher(qs \div 2, 1)
           aria == AriaSplit(qs, o.split, o.minSplit)
           far  == AriaSplit(qs - mid, o.split, o.minSplit)
           both == o.profile = "both" /\ qs >= BothMin /\ o.conns >= 2
<1> USE DEF Settled
<1>1. CASE both
  <2>1. lay = [regions |-> << NewChunkQueue(mid, o.chunk), NewStaticQueue(qs - mid, far.n, mid) >>,
               chunk |-> o.chunk, splitAt |-> mid, seg2 |-> far.seg]
    BY <1>1 DEF Layout
  <2>2. mid \in Nat \ {0} /\ qs - mid \in Nat \ {0}
    <3>1. qs >= 2
      BY <1>1, ThresholdAssumption
    <3>2. qs \div 2 \in Nat /\ 2 * (qs \div 2) <= qs
      BY Division
    <3> QED
      BY <3>1, <3>2 DEF Higher
  <2> HIDE DEF mid, lay
  <2>3. far.n \in Nat \ {0} /\ far.seg = CeilDiv(qs - mid, far.n) /\ far.seg \in Nat \ {0}
    BY <2>2, AriaFacts
  <2> HIDE DEF far
  <2>4. lay.regions = <<Cut(mid, o.chunk, 0), Cut(qs - mid, far.seg, mid)>>
    BY <2>1, <2>2, <2>3 DEF NewChunkQueue, NewStaticQueue
  <2>5. lay.splitAt = mid /\ lay.chunk = o.chunk /\ lay.seg2 = far.seg
    BY <2>1
  <2>6. TwoQueues(lay, qs)
    BY <2>2, <2>3, <2>4, <2>5 DEF TwoQueues
  <2> QED
    BY <2>5, <2>6 DEF lay
<1>2. CASE ~both /\ o.profile = "aria2c"
  <2>1. lay = [regions |-> << NewStaticQueue(qs, aria.n, 0) >>,
               chunk |-> aria.seg, splitAt |-> 0, seg2 |-> 0]
    BY <1>2 DEF Layout
  <2>2. aria.n \in Nat \ {0} /\ aria.seg = CeilDiv(qs, aria.n) /\ aria.seg \in Nat \ {0}
    BY AriaFacts
  <2> HIDE DEF lay, aria
  <2> QED
    BY <1>2, <2>1, <2>2 DEF NewStaticQueue, OneQueue, lay
<1>3. CASE ~both /\ o.profile # "aria2c"
  <2>1. lay = [regions |-> << NewChunkQueue(qs, o.chunk) >>,
               chunk |-> o.chunk, splitAt |-> 0, seg2 |-> 0]
    BY <1>3 DEF Layout
  <2> HIDE DEF lay
  <2> QED
    BY <1>3, <2>1 DEF NewChunkQueue, OneQueue, lay
<1> QED
  BY <1>1, <1>2, <1>3

\* Every layout tiles the file, and every chunk lies in the span of its first
\* offset.
LEMMA LayoutTiles ==
  ASSUME NEW o, Settled(o), NEW p, p.single = FALSE, p.size \in Nat \ {0}
  PROVE  LET lay == Layout(o, p) IN
         /\ Tiles(ChunksOf(lay), 0, p.size) /\ IsFiniteSet(ChunksOf(lay))
         /\ \A c \in ChunksOf(lay) : c.last < c.first + SegmentAt(lay, c.first)
         /\ \A c \in ChunksOf(lay) : SegmentAt(lay, c.first) \in Nat
<1> DEFINE lay == Layout(o, p)
           qs  == p.size
<1>1. OneQueue(lay, qs) \/ TwoQueues(lay, qs)
  BY LayoutForms
<1> HIDE DEF lay
<1>2. CASE OneQueue(lay, qs)
  <2> DEFINE A == Range(Cut(qs, lay.chunk, 0))
  <2>1. ChunksOf(lay) = A
    BY <1>2, OneRegion DEF OneQueue
  <2>2. Tiles(A, 0, qs) /\ NoLonger(A, lay.chunk) /\ IsFiniteSet(A)
    <3>1. 0 + qs = qs
      OBVIOUS
    <3> QED
      BY <1>2, <3>1, CutTiles DEF OneQueue
  <2>3. \A u : SegmentAt(lay, u) = lay.chunk
    BY <1>2 DEF SegmentAt, OneQueue
  <2> HIDE DEF A
  <2> QED
    BY <1>2, <2>1, <2>2, <2>3 DEF NoLonger, OneQueue, lay
<1>3. CASE TwoQueues(lay, qs)
  <2> DEFINE mid == lay.splitAt
             A == Range(Cut(mid, lay.chunk, 0))
             B == Range(Cut(qs - mid, lay.seg2, mid))
  <2>1. /\ mid \in Nat \ {0} /\ qs - mid \in Nat \ {0}
        /\ lay.chunk \in Nat \ {0} /\ lay.seg2 \in Nat \ {0}
    BY <1>3 DEF TwoQueues
  <2>2. ChunksOf(lay) = A \cup B
    BY <1>3, TwoRegions DEF TwoQueues
  <2>3. Tiles(A, 0, mid) /\ NoLonger(A, lay.chunk) /\ IsFiniteSet(A)
    <3>1. 0 + mid = mid
      BY <2>1
    <3> QED
      BY <2>1, <3>1, CutTiles
  <2>4. Tiles(B, mid, qs) /\ NoLonger(B, lay.seg2) /\ IsFiniteSet(B)
    <3>1. mid + (qs - mid) = qs
      BY <2>1
    <3> QED
      BY <2>1, <3>1, CutTiles
  <2> HIDE DEF A, B
  <2>5. Tiles(A \cup B, 0, qs)
    BY <2>1, <2>3, <2>4, TilesJoin
  <2>6. /\ \A c \in A : c.first < mid /\ c.first \in Nat
        /\ \A c \in B : c.first >= mid /\ c.first \in Nat
    BY <2>1, <2>3, <2>4 DEF Tiles
  <2>7. /\ \A c \in A : SegmentAt(lay, c.first) = lay.chunk
        /\ \A c \in B : SegmentAt(lay, c.first) = lay.seg2
    BY <2>1, <2>6 DEF SegmentAt
  <2>8. IsFiniteSet(A \cup B)
    BY <2>3, <2>4, FS_Union
  <2>9. \A c \in A \cup B : /\ c.last < c.first + SegmentAt(lay, c.first)
                            /\ SegmentAt(lay, c.first) \in Nat
    BY <2>1, <2>3, <2>4, <2>7 DEF NoLonger
  <2> QED
    BY <2>2, <2>5, <2>8, <2>9 DEF lay
<1> QED
  BY <1>1, <1>2, <1>3

\* A single stream is one chunk.
LEMMA StreamIsOneChunk ==
  ASSUME NEW o, NEW p, p.single \/ p.size < 0, p.size \in Int
  PROVE  ChunksOf(Layout(o, p)) = {[first |-> 0, last |-> ToEOF]}
<1> DEFINE qs == IF p.single THEN -1 ELSE p.size
           c == [first |-> 0, last |-> ToEOF]
<1>1. qs \in Int /\ qs < 0
  OBVIOUS
<1>2. Layout(o, p).regions = << <<c>> >>
  <2>1. ~(qs >= BothMin) /\ ~(qs > 0)
    BY <1>1, ThresholdAssumption
  <2>2. Layout(o, p).regions = <<NewChunkQueue(qs, o.chunk)>>
    BY <2>1 DEF Layout
  <2> QED
    BY <1>1, <2>2 DEF NewChunkQueue
<1> HIDE DEF c
<1>3. Range(<<c>>) = {c}
  BY DEF Range
<1> QED
  BY <1>2, <1>3, OneRegion DEF c

-----------------------------------------------------------------------------
(* A run on its way to a whole file.                                        *)

Busy  == {"probed", "opened", "checked", "running"}
Drawn == {"opened", "checked", "running"}

Probes == [etag : Nat, single : BOOLEAN, size : Int]

\* The options, the probe and the server.
RunTyped ==
  /\ server \in [version : Versions, etags : BOOLEAN, sized : BOOLEAN, ranges : BOOLEAN]
  /\ pc \in Busy \cup {"off", "completed", "skipped"}
  /\ pc \in Busy => Settled(opts) /\ pr \in Probes /\ (pr.size = -1 \/ pr.size > 0)
  /\ pc \in Drawn => todo \subseteq ChunksOf(Lay)

\* Until the file is replaced the server has what the probe found.
ProbeHolds == pc \in Busy /\ ~drifted /\ pr.size > 0 => SizeOf[server.version] = pr.size

\* A hash is of bytes of one version of the server's file.
Sound(table) ==
  \A u \in DOMAIN table : \E v \in Versions : \A x \in DOMAIN table[u] : table[u][x] = v

HashesSound == Sound(hashes) /\ (control # None => Sound(control.hashes))

\* The chunks of this run that count as done.
Trusted == {c \in ChunksOf(Lay) : c.first \in done}

\* Before the download starts every chunk is trusted or to be fetched ...
Ahead ==
  pc \in {"opened", "checked"} =>
    already = Cardinality(BytesTrusted(Trusted)) /\ todo = ChunksOf(Lay) \ Trusted

\* ... and as long as none is given up that stays so.
NoneMissed == pc = "running" /\ ~errored => ChunksOf(Lay) \subseteq todo \cup Trusted

\* No chunk that is done is fetched again.
FetchedOnce == pc \in Drawn /\ pr.size > 0 => todo \cap Trusted = {}

\* What is trusted unseen is in a control file with a hash for everything.
OnItsWord ==
  pc = "opened" /\ ~blind /\ done # {} =>
    control # None /\ Covered(control) /\ done \subseteq control.done

\* The file has the size of the probe, unless a longer one took its place.
Extent ==
  pc \in Drawn /\ pr.size > 0 =>
    /\ 0..(pr.size - 1) \subseteq DOMAIN disk
    /\ (pr.single /\ drifted) \/ DOMAIN disk = 0..(pr.size - 1)

\* What is done is on disk.
DoneIsThere ==
  pc \in {"checked", "running"} /\ pr.size > 0 /\ ~blind =>
    \A c \in Trusted : \A u \in BytesOf(c) : disk[u] \in Versions

WholeInv ==
  /\ RunTyped /\ ProbeHolds /\ HashesSound /\ Ahead /\ NoneMissed /\ FetchedOnce
  /\ OnItsWord /\ Extent /\ DoneIsThere /\ CompleteIsWhole

\* Facts about the chunks of a run over a file of known length.
LEMMA MinOfTwo ==
  ASSUME NEW a \in Int, NEW b \in Int
  PROVE  Min({a, b}) = IF a < b THEN a ELSE b
<1>1. \E x \in {a, b} : \A y \in {a, b} : x <= y
  OBVIOUS
<1> QED
  BY <1>1 DEF Min

LEMMA ChunkFacts ==
  ASSUME Settled(opts), pr \in Probes, pr.size > 0
  PROVE  /\ IsFiniteSet(ChunksOf(Lay))
         /\ \A c \in ChunksOf(Lay) : /\ c.first \in BytesOf(c)
                                     /\ BytesOf(c) \subseteq 0..(pr.size - 1)
                                     /\ BytesOf(c) \subseteq ChunkSpan(c.first)
         /\ \A u \in 0..(pr.size - 1) : \E c \in ChunksOf(Lay) : u \in BytesOf(c)
         /\ \A c, d \in ChunksOf(Lay) : \A u \in BytesOf(c) : u \in BytesOf(d) => c = d
         /\ ~pr.single => \A c \in ChunksOf(Lay) : c.last \in Nat
         /\ pr.single => \A c \in ChunksOf(Lay) : c.first = 0 /\ c.last = ToEOF
<1>1. pr.size \in Nat \ {0} /\ pr.single \in BOOLEAN
  BY DEF Probes
<1>2. CASE pr.single
  <2> DEFINE s == [first |-> 0, last |-> ToEOF]
  <2>1. ChunksOf(Lay) = {s}
    BY <1>1, <1>2, StreamIsOneChunk DEF Lay
  <2>2. BytesOf(s) = 0..(pr.size - 1) /\ s.first = 0 /\ s.last = ToEOF
    BY DEF BytesOf
  <2>3. ChunkSpan(0) = 0..(pr.size - 1)
    BY <1>2 DEF ChunkSpan
  <2> HIDE DEF s
  <2>4. 0 \in 0..(pr.size - 1)
    BY <1>1
  <2> QED
    BY <1>2, <2>1, <2>2, <2>3, <2>4, FS_Singleton
<1>3. CASE ~pr.single
  <2>1. /\ Tiles(ChunksOf(Lay), 0, pr.size) /\ IsFiniteSet(ChunksOf(Lay))
        /\ \A c \in ChunksOf(Lay) : c.last < c.first + SegmentAt(Lay, c.first)
        /\ \A c \in ChunksOf(Lay) : SegmentAt(Lay, c.first) \in Nat
    <3>1. pr.single = FALSE
      BY <1>1, <1>3
    <3> QED
      BY <1>1, <3>1, LayoutTiles DEF Lay
  <2>2. \A c \in ChunksOf(Lay) : /\ c.first \in Nat /\ c.last \in Nat /\ c.first <= c.last
                                 /\ c.last < pr.size
    BY <2>1 DEF Tiles
  <2>3. \A c \in ChunksOf(Lay) : BytesOf(c) = c.first..c.last
    BY <2>2 DEF BytesOf, ToEOF
  <2>4. ASSUME NEW c \in ChunksOf(Lay) PROVE BytesOf(c) \subseteq ChunkSpan(c.first)
    <3> DEFINE seg == SegmentAt(Lay, c.first)
    <3>1. ChunkSpan(c.first) = c.first..(Min({c.first + seg, pr.size}) - 1)
      BY <1>3 DEF ChunkSpan, SegmentAt
    <3>2. seg \in Nat /\ c.last < c.first + seg
      BY <2>1
    <3> HIDE DEF seg
    <3>3. Min({c.first + seg, pr.size}) = IF c.first + seg < pr.size THEN c.first + seg ELSE pr.size
      BY <1>1, <2>2, <3>2, MinOfTwo
    <3> QED
      BY <1>1, <2>2, <2>3, <3>1, <3>2, <3>3
  <2>5. \A u \in 0..(pr.size - 1) : \E c \in ChunksOf(Lay) : u \in BytesOf(c)
    BY <2>1, <2>2, <2>3 DEF Tiles
  <2>6. ASSUME NEW c \in ChunksOf(Lay), NEW d \in ChunksOf(Lay),
               NEW u \in BytesOf(c), u \in BytesOf(d)
        PROVE  c = d
    <3>1. u \in c.first..c.last /\ u \in d.first..d.last
      BY <2>3, <2>6
    <3>2. u \in 0..(pr.size - 1)
      BY <1>1, <2>2, <3>1
    <3> QED
      BY <2>1, <2>2, <3>1, <3>2 DEF Tiles
  <2>7. \A c \in ChunksOf(Lay) : c.first \in BytesOf(c) /\ BytesOf(c) \subseteq 0..(pr.size - 1)
    BY <1>1, <2>2, <2>3
  <2> QED
    BY <1>3, <2>1, <2>2, <2>4, <2>5, <2>6, <2>7
<1> QED
  BY <1>2, <1>3

\* Chunks that have as many bytes as the file are the whole file.
LEMMA EnoughIsAll ==
  ASSUME Settled(opts), pr \in Probes, pr.size > 0,
         NEW S, S \subseteq ChunksOf(Lay), Cardinality(BytesTrusted(S)) >= pr.size,
         NEW u \in 0..(pr.size - 1)
  PROVE  \E c \in S : u \in BytesOf(c)
<1> DEFINE N == pr.size
           B == BytesTrusted(S)
           f == [x \in B |-> x[2]]
<1>1. N \in Nat \ {0}
  BY DEF Probes
<1>2. \A x \in B : \E c \in S : \E v \in BytesOf(c) : x = <<c, v>>
  BY DEF BytesTrusted
<1>3. f \in Injection(B, 0..(N - 1))
  <2>1. \A x \in B : f[x] \in 0..(N - 1)
    BY <1>2, ChunkFacts
  <2>2. ASSUME NEW x \in B, NEW y \in B, f[x] = f[y] PROVE x = y
    <3>1. PICK c \in S : \E v \in BytesOf(c) : x = <<c, v>>
      BY <1>2
    <3>2. PICK d \in S : \E v \in BytesOf(d) : y = <<d, v>>
      BY <1>2
    <3>3. x[2] = y[2] /\ x[2] \in BytesOf(c) /\ y[2] \in BytesOf(d)
      BY <2>2, <3>1, <3>2
    <3>4. c = d
      BY <3>3, ChunkFacts
    <3> QED
      BY <3>1, <3>2, <3>3, <3>4
  <2> QED
    BY <2>1, <2>2 DEF Injection, IsInjective
<1> HIDE DEF f, B
<1>4. IsFiniteSet(0..(N - 1)) /\ Cardinality(0..(N - 1)) = N
  <2> HIDE DEF N
  <2>1. 0 \in Int /\ N - 1 \in Int /\ ~(0 > N - 1) /\ N - 1 - 0 + 1 = N
    BY <1>1
  <2> QED
    BY <2>1, FS_Interval
<1>5. IsFiniteSet(B) /\ Cardinality(B) <= N /\ Cardinality(B) \in Nat
  BY <1>3, <1>4, FS_Injection, FS_CardinalityType
<1>6. Cardinality(B) = Cardinality(0..(N - 1))
  BY <1>1, <1>4, <1>5 DEF B
<1>7. f \in Surjection(B, 0..(N - 1))
  BY <1>3, <1>4, <1>6, FS_Injection
<1>8. PICK x \in B : f[x] = u
  BY <1>7 DEF Surjection
<1>9. f[x] = x[2]
  BY DEF f
<1> QED
  BY <1>2, <1>8, <1>9

-----------------------------------------------------------------------------
(* The steps.                                                               *)

LEMMA SameRun ==
  ASSUME UNCHANGED <<opts, pr>>
  PROVE  /\ Lay' = Lay /\ ChunksOf(Lay)' = ChunksOf(Lay)
         /\ \A c : BytesOf(c)' = BytesOf(c)
         /\ Settled(opts)' <=> Settled(opts)
         /\ done' = done =>
              /\ Trusted' = Trusted
              /\ Cardinality(BytesTrusted(Trusted))' = Cardinality(BytesTrusted(Trusted))
<1>1. Lay' = Lay
  BY DEF Lay
<1>2. ChunksOf(Lay)' = ChunksOf(Lay)
  BY <1>1 DEF ChunksOf
<1>3. \A c : BytesOf(c)' = BytesOf(c)
  BY DEF BytesOf
<1>4. done' = done => Trusted' = Trusted
  BY <1>2 DEF Trusted
<1>5. done' = done => BytesTrusted(Trusted)' = BytesTrusted(Trusted)
  BY <1>3, <1>4 DEF BytesTrusted
<1>6. Settled(opts)' <=> Settled(opts)
  BY DEF Settled
<1> QED
  BY <1>1, <1>2, <1>3, <1>4, <1>5, <1>6

LEMMA RunTypedKept ==
  ASSUME RunTyped, UNCHANGED <<opts, pr, server>>,
         pc' \in Busy \cup {"off", "completed", "skipped"}, pc' \in Busy => pc \in Busy,
         pc' \in Drawn => todo' \subseteq ChunksOf(Lay)
  PROVE  RunTyped'
BY SameRun DEF RunTyped

\* What a checkpoint writes is sound.
LEMMA PersistSound ==
  ASSUME HashesSound, Persist(Snapshot), hashes' = hashes \/ hashes' = NoBytes
  PROVE  HashesSound'
<1>1. Sound(Restrict(hashes, done \cap DOMAIN hashes))
  BY DEF HashesSound, Sound, Restrict
<1>2. Sound(Snapshot.hashes)
  BY <1>1 DEF Snapshot
<1>3. control' # None => Sound(control'.hashes)
  BY <1>2 DEF Persist, HashesSound
<1>4. Sound(hashes)'
  BY DEF HashesSound, Sound, NoBytes
<1>5. Sound(control'.hashes) <=> Sound(control.hashes)'
  BY DEF Sound
<1> QED
  BY <1>3, <1>4, <1>5 DEF HashesSound

LEMMA SoundKept ==
  ASSUME HashesSound, hashes' = hashes \/ hashes' = NoBytes, control' = control \/ control' = None
  PROVE  HashesSound'
BY DEF HashesSound, Sound, NoBytes

\* Nothing is claimed of a run that is over, unless it is complete.
LEMMA OverIsFine ==
  ASSUME pc' \in {"off", "skipped"}, RunTyped', HashesSound'
  PROVE  WholeInv'
BY DEF WholeInv, ProbeHolds, Ahead, NoneMissed, FetchedOnce, OnItsWord, Extent, DoneIsThere,
       CompleteIsWhole, Busy, Drawn

LEMMA BeginWhole ==
  ASSUME WholeInv, Begin
  PROVE  WholeInv'
<1>1. /\ server' = server /\ pr' = Probe /\ pc' = "probed" /\ drifted' = FALSE /\ todo' = {}
      /\ hashes' = NoBytes /\ control' = control
  BY DEF Begin, NothingTrusted
<1>2. server \in [version : Versions, etags : BOOLEAN, sized : BOOLEAN, ranges : BOOLEAN]
  BY DEF WholeInv, RunTyped
<1>3. SizeOf[server.version] \in Nat \ {0} /\ server.version \in Nat
  BY <1>2, SizeAssumption DEF Versions
<1>4. /\ Probe \in Probes /\ (Probe.size = -1 \/ Probe.size > 0)
      /\ Probe.size > 0 => Probe.size = SizeOf[server.version]
  BY <1>2, <1>3 DEF Probe, Probes, ServedETag, NoETag
<1>5. Settled(opts)'
  <2>1. PICK o \in RunOptions : \E h2 \in BOOLEAN :
          opts' = IF o.profile = "smart" THEN [o EXCEPT !.profile = ChooseProfile(Probe, o.conns, h2)]
                  ELSE o
    BY DEF Begin
  <2>2. \A h2 \in BOOLEAN : ChooseProfile(Probe, o.conns, h2) \in {"odm", "aria2c", "both"}
    BY DEF ChooseProfile
  <2>3. CASE o.profile # "smart"
    <3>1. opts' = o
      BY <2>1, <2>3
    <3> QED
      BY <2>3, <3>1, OptionAssumption DEF Settled
  <2>4. CASE o.profile = "smart"
    <3>1. PICK p \in {"odm", "aria2c", "both"} : opts' = [o EXCEPT !.profile = p]
      BY <2>1, <2>2, <2>4
    <3>2. /\ opts'.chunk = o.chunk /\ opts'.split = o.split /\ opts'.minSplit = o.minSplit
          /\ opts'.conns = o.conns
      BY <3>1
    <3>3. opts'.profile \in {"odm", "aria2c", "both"}
      BY <3>1, OptionAssumption
    <3> QED
      BY <3>2, <3>3, OptionAssumption DEF Settled
  <2> QED
    BY <2>3, <2>4
<1>6. RunTyped'
  BY <1>1, <1>2, <1>4, <1>5 DEF RunTyped, Busy, Drawn
<1>7. ProbeHolds'
  BY <1>1, <1>4 DEF ProbeHolds
<1>8. HashesSound'
  BY <1>1, SoundKept DEF WholeInv
<1> QED
  BY <1>1, <1>6, <1>7, <1>8
  DEF WholeInv, Ahead, NoneMissed, FetchedOnce, OnItsWord, Extent, DoneIsThere, CompleteIsWhole, Drawn

LEMMA OpenWhole ==
  ASSUME WholeInv, Open
  PROVE  WholeInv'
<1> DEFINE trusted == IF Usable(control) THEN Accepted(control) ELSE {}
<1>1. /\ pc = "probed" /\ pc' = "opened"
      /\ UNCHANGED <<server, control, opts, pr, errored, drifted>>
      /\ done' = Firsts(trusted) /\ todo' = ChunksOf(Lay) \ trusted
      /\ already' = Cardinality(BytesTrusted(trusted))
      /\ hashes' = IF trusted = {} THEN NoBytes
                   ELSE Restrict(control.hashes, Firsts(trusted) \cap DOMAIN control.hashes)
      /\ blind' = (trusted # {} /\ ~Covered(control))
      /\ disk' = IF pr.size > 0 THEN Truncated(disk, pr.size) ELSE disk
  BY DEF Open
<1>2. /\ trusted \subseteq ChunksOf(Lay)
      /\ trusted # {} => /\ control # None
                         /\ \A c \in ChunksOf(Lay) : c \in trusted <=> c.first \in control.done
  BY DEF Usable, Accepted
<1> HIDE DEF trusted
<1>3. Trusted' = trusted /\ (done' = {} <=> trusted = {})
  <2>1. Trusted' = {c \in ChunksOf(Lay) : c.first \in Firsts(trusted)}
    BY <1>1, SameRun DEF Trusted
  <2>2. \A c \in ChunksOf(Lay) : c.first \in Firsts(trusted) <=> c \in trusted
    BY <1>2 DEF Firsts
  <2>3. Firsts(trusted) = {} <=> trusted = {}
    BY DEF Firsts
  <2> QED
    BY <1>1, <1>2, <2>1, <2>2, <2>3
<1>4. RunTyped'
  BY <1>1, RunTypedKept DEF WholeInv, Busy
<1>5. ProbeHolds'
  BY <1>1 DEF WholeInv, ProbeHolds, Busy
<1>6. HashesSound'
  <2>1. trusted # {} => Sound(Restrict(control.hashes, Firsts(trusted) \cap DOMAIN control.hashes))
    BY <1>2 DEF WholeInv, HashesSound, Sound, Restrict
  <2>2. Sound(hashes)'
    BY <1>1, <2>1 DEF Sound, NoBytes
  <2> QED
    BY <1>1, <2>2 DEF WholeInv, HashesSound, Sound
<1>7. Ahead'
  <2>1. BytesTrusted(Trusted)' = BytesTrusted(trusted)
    BY <1>1, <1>3, SameRun DEF BytesTrusted
  <2> QED
    BY <1>1, <1>3, <2>1, SameRun DEF Ahead
<1>8. OnItsWord'
  <2>1. done' # {} => done' \subseteq control.done
    BY <1>1, <1>2, <1>3 DEF Firsts
  <2> QED
    BY <1>1, <1>2, <1>3, <2>1 DEF OnItsWord, Covered
<1>9. Extent'
  <2>1. pr.size > 0 => DOMAIN Truncated(disk, pr.size) = 0..(pr.size - 1)
    BY DEF Truncated
  <2> QED
    BY <1>1, <2>1 DEF Extent
<1>10. FetchedOnce'
  BY <1>1, <1>3 DEF FetchedOnce
<1> QED
  BY <1>1, <1>10, <1>4, <1>5, <1>6, <1>7, <1>8, <1>9
  DEF WholeInv, NoneMissed, DoneIsThere, CompleteIsWhole

\* A chunk that passes the integrity check has the bytes it has a hash of.
LEMMA HashVouches ==
  ASSUME WholeInv, Verify, pr.size > 0, ~blind, NEW c \in Trusted, NEW u \in BytesOf(c)
  PROVE  /\ control # None /\ c.first \in DOMAIN control.hashes /\ c.first \in done
         /\ u \in DOMAIN control.hashes[c.first] /\ disk[u] = control.hashes[c.first][u]
<1>1. pc = "opened" /\ (already > 0 => HashesAgree(control))
  BY DEF Verify
<1>2. Settled(opts) /\ pr \in Probes
  BY <1>1 DEF WholeInv, RunTyped, Busy
<1>3. c \in ChunksOf(Lay) /\ c.first \in done
  BY DEF Trusted
<1>4. u \in 0..(pr.size - 1) /\ u \in ChunkSpan(c.first)
  BY <1>2, <1>3, ChunkFacts
<1>5. u \in DOMAIN disk
  BY <1>1, <1>4 DEF WholeInv, Extent, Drawn
<1>6. already > 0
  <2>1. <<c, u>> \in BytesTrusted(Trusted)
    BY DEF BytesTrusted
  <2>2. IsFiniteSet(BytesTrusted(Trusted))
    <3>1. BytesTrusted(Trusted) \subseteq ChunksOf(Lay) \X (0..(pr.size - 1))
      BY <1>2, ChunkFacts DEF BytesTrusted, Trusted
    <3>2. IsFiniteSet(ChunksOf(Lay)) /\ IsFiniteSet(0..(pr.size - 1))
      BY <1>2, ChunkFacts, FS_Interval DEF Probes
    <3> QED
      BY <3>1, <3>2, FS_Product, FS_Subset
  <2>3. Cardinality(BytesTrusted(Trusted)) # 0 /\ Cardinality(BytesTrusted(Trusted)) \in Nat
    BY <2>1, <2>2, FS_CardinalityType, FS_EmptySet
  <2> QED
    BY <1>1, <2>3 DEF WholeInv, Ahead
<1>7. control # None /\ Covered(control) /\ c.first \in control.done
  BY <1>1, <1>3 DEF WholeInv, OnItsWord
<1>8. OnDisk(ChunkSpan(c.first)) = control.hashes[c.first] /\ c.first \in DOMAIN control.hashes
  BY <1>1, <1>6, <1>7 DEF HashesAgree, Covered
<1>9. u \in DOMAIN OnDisk(ChunkSpan(c.first)) /\ OnDisk(ChunkSpan(c.first))[u] = disk[u]
  BY <1>4, <1>5 DEF OnDisk
<1> QED
  BY <1>3, <1>7, <1>8, <1>9

LEMMA VerifyWhole ==
  ASSUME WholeInv, Verify
  PROVE  WholeInv'
<1>1. /\ pc = "opened" /\ pc' = "checked" /\ (already > 0 => HashesAgree(control))
      /\ UNCHANGED <<server, disk, control, opts, pr, done, todo, hashes, already, errored,
                     blind, drifted>>
  BY DEF Verify, memory
<1>2. RunTyped'
  BY <1>1, RunTypedKept DEF WholeInv, RunTyped, Busy, Drawn
<1>3. HashesSound'
  BY <1>1, SoundKept DEF WholeInv
<1>4. ProbeHolds' /\ Extent'
  BY <1>1 DEF WholeInv, ProbeHolds, Extent, Busy, Drawn
<1>5. Ahead' /\ FetchedOnce'
  BY <1>1, SameRun DEF WholeInv, Ahead, FetchedOnce, Drawn
<1>6. DoneIsThere'
  <2> SUFFICES ASSUME pr.size > 0, ~blind, NEW c \in Trusted, NEW u \in BytesOf(c)
               PROVE  disk[u] \in Versions
    BY <1>1, SameRun DEF DoneIsThere
  <2>1. /\ control # None /\ c.first \in DOMAIN control.hashes
        /\ u \in DOMAIN control.hashes[c.first] /\ disk[u] = control.hashes[c.first][u]
    BY HashVouches
  <2> QED
    BY <2>1 DEF WholeInv, HashesSound, Sound
<1> QED
  BY <1>1, <1>2, <1>3, <1>4, <1>5, <1>6
  DEF WholeInv, NoneMissed, OnItsWord, CompleteIsWhole

LEMMA DistrustWhole ==
  ASSUME WholeInv, Distrust
  PROVE  WholeInv'
<1>1. /\ pc = "opened" /\ pc' = "checked"
      /\ done' = {} /\ todo' = ChunksOf(Lay) /\ already' = 0 /\ hashes' = NoBytes
      /\ UNCHANGED <<server, disk, control, opts, pr, errored, drifted>>
  BY DEF Distrust
<1>2. RunTyped'
  BY <1>1, RunTypedKept DEF WholeInv, Busy
<1>3. HashesSound'
  BY <1>1, SoundKept DEF WholeInv
<1>4. ProbeHolds' /\ Extent'
  BY <1>1 DEF WholeInv, ProbeHolds, Extent, Busy, Drawn
<1>5. Trusted' = {}
  BY <1>1 DEF Trusted
<1>6. Ahead'
  <2>1. BytesTrusted(Trusted)' = {}
    BY <1>5 DEF BytesTrusted
  <2> QED
    BY <1>1, <1>5, <2>1, SameRun, FS_EmptySet DEF Ahead
<1> QED
  BY <1>1, <1>2, <1>3, <1>4, <1>5, <1>6
  DEF WholeInv, NoneMissed, FetchedOnce, OnItsWord, DoneIsThere, CompleteIsWhole

\* All bytes are there when every offset belongs to a done chunk.
LEMMA AllDone ==
  ASSUME WholeInv, pc \in {"checked", "running"}, pc' = "completed",
         UNCHANGED <<disk, opts, pr, blind, drifted>>,
         pr.size > 0 => \A u \in 0..(pr.size - 1) : \E c \in Trusted : u \in BytesOf(c)
  PROVE  CompleteIsWhole'
<1> SUFFICES ASSUME pr.size > 0, ~blind
             PROVE  /\ \A u \in 0..(pr.size - 1) : u \in DOMAIN disk /\ disk[u] \in Versions
                    /\ (pr.single /\ drifted) \/ DOMAIN disk = 0..(pr.size - 1)
  BY DEF CompleteIsWhole
<1>1. Extent /\ DoneIsThere
  BY DEF WholeInv
<1> QED
  BY <1>1 DEF Extent, DoneIsThere, Drawn

LEMMA EndAtOnceWhole ==
  ASSUME WholeInv, EndAtOnce
  PROVE  WholeInv'
<1>1. /\ pc = "checked" /\ pc' = "completed" /\ pr.size > 0 /\ already >= pr.size
      /\ control' = None
      /\ UNCHANGED <<server, disk, opts, pr, done, todo, hashes, already, errored, blind, drifted>>
  BY DEF EndAtOnce, NothingMissing, memory
<1>2. RunTyped' /\ HashesSound'
  BY <1>1, RunTypedKept, SoundKept DEF WholeInv, RunTyped, Busy, Drawn
<1>3. Settled(opts) /\ pr \in Probes
  BY <1>1 DEF WholeInv, RunTyped, Busy
<1>4. Trusted \subseteq ChunksOf(Lay) /\ Cardinality(BytesTrusted(Trusted)) >= pr.size
  BY <1>1 DEF WholeInv, Ahead, Trusted
<1>5. \A u \in 0..(pr.size - 1) : \E c \in Trusted : u \in BytesOf(c)
  BY <1>1, <1>3, <1>4, EnoughIsAll
<1>6. CompleteIsWhole'
  BY <1>1, <1>5, AllDone
<1> QED
  BY <1>1, <1>2, <1>6
  DEF WholeInv, ProbeHolds, Ahead, NoneMissed, FetchedOnce, OnItsWord, Extent, DoneIsThere,
      Busy, Drawn

LEMMA EndCompleteWhole ==
  ASSUME WholeInv, EndComplete
  PROVE  WholeInv'
<1>1. /\ pc = "running" /\ pc' = "completed" /\ todo = {} /\ ~errored /\ control' = None
      /\ UNCHANGED <<server, disk, opts, pr, done, todo, hashes, already, errored, blind, drifted>>
  BY DEF EndComplete, memory
<1>2. RunTyped' /\ HashesSound'
  BY <1>1, RunTypedKept, SoundKept DEF WholeInv, RunTyped, Busy, Drawn
<1>3. Settled(opts) /\ pr \in Probes
  BY <1>1 DEF WholeInv, RunTyped, Busy
<1>4. ChunksOf(Lay) \subseteq Trusted
  BY <1>1 DEF WholeInv, NoneMissed
<1>5. pr.size > 0 => \A u \in 0..(pr.size - 1) : \E c \in Trusted : u \in BytesOf(c)
  BY <1>3, <1>4, ChunkFacts
<1>6. CompleteIsWhole'
  BY <1>1, <1>5, AllDone
<1> QED
  BY <1>1, <1>2, <1>6
  DEF WholeInv, ProbeHolds, Ahead, NoneMissed, FetchedOnce, OnItsWord, Extent, DoneIsThere,
      Busy, Drawn

LEMMA LaunchWhole ==
  ASSUME WholeInv, Launch
  PROVE  WholeInv'
<1>1. /\ pc = "checked" /\ pc' = "running" /\ Persist(Snapshot)
      /\ UNCHANGED <<server, disk, opts, pr, done, todo, hashes, already, errored, blind, drifted>>
  BY DEF Launch, memory
<1>2. RunTyped' /\ HashesSound'
  BY <1>1, RunTypedKept, PersistSound DEF WholeInv, RunTyped, Busy, Drawn
<1>3. ProbeHolds' /\ Extent'
  BY <1>1 DEF WholeInv, ProbeHolds, Extent, Busy, Drawn
<1>4. NoneMissed' /\ FetchedOnce' /\ DoneIsThere'
  BY <1>1, SameRun DEF WholeInv, Ahead, NoneMissed, FetchedOnce, DoneIsThere, Drawn
<1> QED
  BY <1>1, <1>2, <1>3, <1>4 DEF WholeInv, Ahead, OnItsWord, CompleteIsWhole

\* The download: checkpoints, and chunks given up.
LEMMA QuietWhole ==
  ASSUME WholeInv, Checkpoint \/ \E c \in todo : GiveUp(c)
  PROVE  WholeInv'
<1>1. /\ pc = "running" /\ pc' = "running"
      /\ UNCHANGED <<server, disk, opts, pr, done, hashes, already, blind, drifted>>
      /\ todo' \subseteq todo /\ ((todo' = todo /\ errored' = errored) \/ errored')
      /\ Persist(Snapshot) \/ control' = control
  BY DEF Checkpoint, GiveUp, memory
<1>2. RunTyped'
  BY <1>1, RunTypedKept DEF WholeInv, RunTyped, Busy, Drawn
<1>3. HashesSound'
  BY <1>1, PersistSound, SoundKept DEF WholeInv
<1>4. ProbeHolds' /\ Extent'
  BY <1>1 DEF WholeInv, ProbeHolds, Extent, Busy, Drawn
<1>5. NoneMissed' /\ FetchedOnce' /\ DoneIsThere'
  BY <1>1, SameRun DEF WholeInv, NoneMissed, FetchedOnce, DoneIsThere, Drawn
<1> QED
  BY <1>1, <1>2, <1>3, <1>4, <1>5 DEF WholeInv, Ahead, OnItsWord, CompleteIsWhole

\* An attempt writes in its chunk, and past the end only if a stream outgrew it.
LEMMA AttemptWithin ==
  ASSUME WholeInv, pc = "running", NEW c \in todo, pr.size > 0
  PROVE  /\ Settled(opts) /\ pr \in Probes /\ c \in ChunksOf(Lay)
         /\ ~pr.single => Span(c) = BytesOf(c)
         /\ pr.single => Span(c) = 0..(SizeOf[server.version] - 1) /\ c.first = 0
         /\ InFull(c) => Span(c) = BytesOf(c)
<1>1. Settled(opts) /\ pr \in Probes /\ c \in ChunksOf(Lay)
  BY DEF WholeInv, RunTyped, Busy, Drawn
<1>2. CASE pr.single
  <2>1. c.first = 0 /\ c.last = ToEOF
    BY <1>1, <1>2, ChunkFacts
  <2>2. Span(c) = 0..(SizeOf[server.version] - 1) /\ BytesOf(c) = 0..(pr.size - 1)
    BY <2>1 DEF Span, BytesOf
  <2>3. InFull(c) => SizeOf[server.version] = pr.size
    BY <1>1, <1>2 DEF InFull, Whole, Probes
  <2> QED
    BY <1>1, <1>2, <2>1, <2>2, <2>3
<1>3. CASE ~pr.single
  <2>1. c.last \in Nat
    BY <1>1, <1>3, ChunkFacts
  <2>2. Span(c) = c.first..c.last /\ BytesOf(c) = c.first..c.last
    BY <2>1 DEF Span, BytesOf, ToEOF
  <2> QED
    BY <1>1, <1>3, <2>2
<1> QED
  BY <1>2, <1>3

LEMMA FetchWhole ==
  ASSUME WholeInv, NEW c \in todo, FetchChunk(c)
  PROVE  WholeInv'
<1> DEFINE v == server.version
<1>1. /\ pc = "running" /\ pc' = "running" /\ InFull(c)
      /\ disk' = Written(disk, Span(c), v)
      /\ hashes' = [u \in DOMAIN hashes \cup {c.first} |->
                      IF u = c.first THEN Content(Span(c), v) ELSE hashes[u]]
      /\ done' = done \cup {c.first} /\ todo' = todo \ {c}
      /\ UNCHANGED <<server, control, opts, pr, errored, blind, drifted>>
  BY DEF FetchChunk
<1>2. v \in Versions
  BY DEF WholeInv, RunTyped
<1> HIDE DEF v
<1>3. RunTyped'
  BY <1>1, RunTypedKept DEF WholeInv, RunTyped, Busy, Drawn
<1>4. ProbeHolds'
  BY <1>1 DEF WholeInv, ProbeHolds, Busy
<1>5. HashesSound'
  <2>1. \A x \in DOMAIN Content(Span(c), v) : Content(Span(c), v)[x] = v
    BY DEF Content
  <2>2. Sound(hashes)'
    BY <1>1, <1>2, <2>1 DEF WholeInv, HashesSound, Sound
  <2>3. (control # None => Sound(control.hashes))'
    BY <1>1 DEF WholeInv, HashesSound, Sound
  <2> QED
    BY <2>2, <2>3 DEF HashesSound
<1>6. ChunksOf(Lay)' = ChunksOf(Lay) /\ Trusted \subseteq Trusted' /\ c \in ChunksOf(Lay) /\ c \in Trusted'
  <2>1. c \in ChunksOf(Lay)
    BY <1>1 DEF WholeInv, RunTyped, Drawn
  <2> QED
    BY <1>1, <2>1, SameRun DEF Trusted
<1>7. NoneMissed'
  BY <1>1, <1>6 DEF WholeInv, NoneMissed
<1>8. /\ DOMAIN disk' = DOMAIN disk \cup Span(c)
      /\ \A u \in Span(c) : disk'[u] = v
      /\ \A u \in DOMAIN disk : u \notin Span(c) => disk'[u] = disk[u]
  BY <1>1 DEF Written
<1>9. ASSUME pr.size > 0
      PROVE  /\ Settled(opts) /\ pr \in Probes /\ Span(c) = BytesOf(c)
             /\ Span(c) \subseteq 0..(pr.size - 1)
  BY <1>1, <1>6, <1>9, AttemptWithin, ChunkFacts
<1>10. Extent'
  BY <1>1, <1>8, <1>9 DEF WholeInv, Extent, Drawn
<1>11. DoneIsThere'
  <2> SUFFICES ASSUME pr.size > 0, ~blind, NEW d \in Trusted', NEW u \in BytesOf(d)
               PROVE  disk'[u] \in Versions
    BY <1>1, SameRun DEF DoneIsThere
  <2>1. d \in ChunksOf(Lay) /\ (d.first \in done \/ d.first = c.first)
    BY <1>1, SameRun DEF Trusted
  <2>2. CASE u \in Span(c)
    BY <2>2, <1>2, <1>8
  <2>3. CASE u \notin Span(c)
    <3>1. d.first # c.first
      <4> SUFFICES ASSUME d.first = c.first PROVE FALSE
        OBVIOUS
      <4>1. d.first \in BytesOf(d) /\ c.first \in BytesOf(c)
        BY <1>6, <1>9, <2>1, ChunkFacts
      <4>2. d = c
        BY <1>6, <1>9, <2>1, <4>1, ChunkFacts
      <4> QED
        BY <1>9, <2>3, <4>2
    <3>2. d \in Trusted
      BY <2>1, <3>1 DEF Trusted
    <3>3. u \in 0..(pr.size - 1)
      BY <1>9, <2>1, ChunkFacts
    <3>4. u \in DOMAIN disk /\ disk[u] \in Versions
      BY <1>1, <3>2, <3>3 DEF WholeInv, Extent, DoneIsThere, Drawn
    <3> QED
      BY <1>8, <2>3, <3>4
  <2> QED
    BY <2>2, <2>3
<1>12. ASSUME pr.size > 0 PROVE Trusted' = Trusted \cup {c}
  <2>1. Trusted' = {d \in ChunksOf(Lay) : d.first \in done \/ d.first = c.first}
    BY <1>1, SameRun DEF Trusted
  <2>2. ASSUME NEW d \in ChunksOf(Lay), d.first = c.first PROVE d = c
    <3>1. d.first \in BytesOf(d) /\ c.first \in BytesOf(c)
      BY <1>6, <1>9, <1>12, ChunkFacts
    <3> QED
      BY <1>6, <1>9, <1>12, <2>2, <3>1, ChunkFacts
  <2> QED
    BY <1>6, <2>1, <2>2 DEF Trusted
<1>13. FetchedOnce'
  BY <1>1, <1>12 DEF WholeInv, FetchedOnce, Drawn
<1> QED
  BY <1>1, <1>3, <1>4, <1>5, <1>7, <1>10, <1>11, <1>13
  DEF WholeInv, Ahead, OnItsWord, CompleteIsWhole

LEMMA VainWhole ==
  ASSUME WholeInv, NEW c \in todo, WriteInVain(c)
  PROVE  WholeInv'
<1> DEFINE v == server.version
<1>1. /\ pc = "running" /\ pc' = "running"
      /\ UNCHANGED <<server, control, opts, pr, done, todo, hashes, already, errored, blind, drifted>>
  BY DEF WriteInVain, memory
<1>2. PICK n \in Span(c) : n < SizeOf[v] /\ disk' = Written(disk, c.first..n, v)
  BY DEF WriteInVain
<1>3. v \in Versions /\ SizeOf[v] \in Nat
  BY SizeAssumption DEF WholeInv, RunTyped, Versions
<1> HIDE DEF v
<1>4. RunTyped'
  BY <1>1, RunTypedKept DEF WholeInv, RunTyped, Busy, Drawn
<1>5. ProbeHolds'
  BY <1>1 DEF WholeInv, ProbeHolds, Busy
<1>6. HashesSound'
  BY <1>1, SoundKept DEF WholeInv
<1>7. NoneMissed' /\ FetchedOnce'
  BY <1>1, SameRun DEF WholeInv, NoneMissed, FetchedOnce, Drawn
<1>8. /\ DOMAIN disk' = DOMAIN disk \cup c.first..n
      /\ \A u \in c.first..n : disk'[u] = v
      /\ \A u \in DOMAIN disk : u \notin c.first..n => disk'[u] = disk[u]
  BY <1>2 DEF Written
<1>9. Extent'
  <2> SUFFICES ASSUME pr.size > 0
               PROVE  /\ 0..(pr.size - 1) \subseteq DOMAIN disk'
                      /\ (pr.single /\ drifted) \/ DOMAIN disk' = 0..(pr.size - 1)
    BY <1>1 DEF Extent
  <2>1. /\ 0..(pr.size - 1) \subseteq DOMAIN disk
        /\ (pr.single /\ drifted) \/ DOMAIN disk = 0..(pr.size - 1)
    BY <1>1 DEF WholeInv, Extent, Drawn
  <2>2. Settled(opts) /\ pr \in Probes /\ c \in ChunksOf(Lay)
    BY <1>1, AttemptWithin
  <2>3. CASE ~pr.single
    <3>1. c.first \in 0..(pr.size - 1) /\ n \in 0..(pr.size - 1)
      BY <1>1, <1>2, <2>2, <2>3, AttemptWithin, ChunkFacts
    <3>2. c.first..n \subseteq 0..(pr.size - 1)
      BY <3>1, <2>2 DEF Probes
    <3> QED
      BY <1>8, <2>1, <2>3, <3>2
  <2>4. CASE pr.single /\ ~drifted
    <3>1. SizeOf[v] = pr.size
      BY <1>1, <2>4 DEF WholeInv, ProbeHolds, Busy, v
    <3>2. c.first = 0 /\ n \in 0..(SizeOf[v] - 1)
      BY <1>1, <1>2, <2>4, AttemptWithin DEF v
    <3>3. c.first..n \subseteq 0..(pr.size - 1)
      BY <3>1, <3>2, <2>2 DEF Probes
    <3> QED
      BY <1>8, <2>1, <2>4, <3>3
  <2>5. CASE pr.single /\ drifted
    BY <1>8, <2>1, <2>5
  <2> QED
    BY <2>3, <2>4, <2>5
<1>10. DoneIsThere'
  <2> SUFFICES ASSUME pr.size > 0, ~blind, NEW d \in Trusted, NEW u \in BytesOf(d)
               PROVE  disk'[u] \in Versions
    BY <1>1, SameRun DEF DoneIsThere
  <2>1. Settled(opts) /\ pr \in Probes /\ d \in ChunksOf(Lay)
    BY <1>1, AttemptWithin DEF Trusted
  <2>2. u \in 0..(pr.size - 1)
    BY <2>1, ChunkFacts
  <2>3. u \in DOMAIN disk /\ disk[u] \in Versions
    BY <1>1, <2>2 DEF WholeInv, Extent, DoneIsThere, Drawn
  <2> QED
    BY <1>3, <1>8, <2>3
<1> QED
  BY <1>1, <1>4, <1>5, <1>6, <1>7, <1>9, <1>10
  DEF WholeInv, Ahead, OnItsWord, CompleteIsWhole

\* A run that ends before it is complete, one that is skipped, and what happens
\* between two runs.
LEMMA OverWhole ==
  ASSUME WholeInv, Skip \/ EndUnfinished \/ Kill \/ ToggleRanges \/ Rot
  PROVE  WholeInv'
<1>1. pc' \in {"off", "skipped"}
  BY DEF Skip, EndUnfinished, Kill, ToggleRanges, Rot
<1>2. RunTyped'
  <2>1. CASE Skip \/ EndUnfinished \/ Kill \/ Rot
    <3>1. server' = server
      BY <2>1 DEF Skip, EndUnfinished, Kill, Rot
    <3> QED
      BY <1>1, <3>1 DEF WholeInv, RunTyped, Busy, Drawn
  <2>2. CASE ToggleRanges
    <3>1. \E r \in BOOLEAN : server' = [server EXCEPT !.ranges = r]
      BY <2>2 DEF ToggleRanges
    <3> QED
      BY <1>1, <3>1 DEF WholeInv, RunTyped, Busy, Drawn
  <2> QED
    BY <2>1, <2>2
<1>3. HashesSound'
  <2>1. CASE Skip \/ Kill \/ ToggleRanges \/ Rot
    <3>1. control' = control /\ (hashes' = hashes \/ hashes' = NoBytes)
      BY <2>1 DEF Skip, Kill, ToggleRanges, Rot, Forget, NothingTrusted, memory
    <3> QED
      BY <3>1, SoundKept DEF WholeInv
  <2>2. CASE EndUnfinished
    BY <2>2, PersistSound DEF WholeInv, EndUnfinished, Forget, NothingTrusted
  <2> QED
    BY <2>1, <2>2
<1> QED
  BY <1>1, <1>2, <1>3, OverIsFine

\* The server replaces the file.
LEMMA ReplaceWhole ==
  ASSUME WholeInv, Replace
  PROVE  WholeInv'
<1>1. /\ server.version < Len(SizeOf) /\ server' = [server EXCEPT !.version = @ + 1]
      /\ drifted' = (pc \in {"probed", "opened", "checked", "running"} \/ drifted)
      /\ UNCHANGED <<disk, control, pc, opts, pr, done, todo, hashes, already, errored, blind>>
  BY DEF Replace
<1>2. RunTyped'
  <2>1. server' \in [version : Versions, etags : BOOLEAN, sized : BOOLEAN, ranges : BOOLEAN]
    <3>1. server.version \in 1..Len(SizeOf) /\ Versions = 1..Len(SizeOf) /\ Len(SizeOf) \in Nat
      BY SizeAssumption DEF WholeInv, RunTyped, Versions
    <3>2. server.version + 1 \in Versions
      BY <1>1, <3>1
    <3> QED
      BY <1>1, <3>2 DEF WholeInv, RunTyped
  <2> QED
    BY <1>1, <2>1, SameRun DEF WholeInv, RunTyped
<1>3. ProbeHolds'
  BY <1>1 DEF ProbeHolds, Busy
<1>4. HashesSound'
  BY <1>1, SoundKept DEF WholeInv
<1>5. Ahead' /\ NoneMissed' /\ FetchedOnce' /\ DoneIsThere'
  BY <1>1, SameRun DEF WholeInv, Ahead, NoneMissed, FetchedOnce, DoneIsThere
<1>6. OnItsWord'
  BY <1>1 DEF WholeInv, OnItsWord, Covered
<1>7. Extent' /\ CompleteIsWhole'
  BY <1>1 DEF WholeInv, Extent, CompleteIsWhole
<1> QED
  BY <1>2, <1>3, <1>4, <1>5, <1>6, <1>7 DEF WholeInv

LEMMA StutterWhole ==
  ASSUME WholeInv, UNCHANGED vars
  PROVE  WholeInv'
<1>1. UNCHANGED <<server, disk, control, pc, opts, pr, done, todo, hashes, already, errored,
                  blind, drifted>>
  BY DEF vars, memory
<1>2. RunTyped' /\ HashesSound'
  BY <1>1, RunTypedKept, SoundKept DEF WholeInv, RunTyped
<1>3. ProbeHolds' /\ Extent' /\ OnItsWord' /\ CompleteIsWhole'
  BY <1>1 DEF WholeInv, ProbeHolds, Extent, OnItsWord, Covered, CompleteIsWhole
<1>4. Ahead' /\ NoneMissed' /\ FetchedOnce' /\ DoneIsThere'
  BY <1>1, SameRun DEF WholeInv, Ahead, NoneMissed, FetchedOnce, DoneIsThere
<1> QED
  BY <1>2, <1>3, <1>4 DEF WholeInv

LEMMA NextWhole == WholeInv /\ [Next]_vars => WholeInv'
<1> SUFFICES ASSUME WholeInv, [Next]_vars PROVE WholeInv'
  OBVIOUS
<1>1. CASE StartStep
  BY <1>1, BeginWhole, OpenWhole, VerifyWhole, DistrustWhole, EndAtOnceWhole, LaunchWhole,
     QuietWhole, EndCompleteWhole, OverWhole
  DEF StartStep
<1>2. CASE \E c \in todo : FetchChunk(c) \/ WriteInVain(c) \/ GiveUp(c)
  BY <1>2, FetchWhole, VainWhole, QuietWhole
<1>3. CASE Replace \/ ToggleRanges \/ Rot
  BY <1>3, ReplaceWhole, OverWhole
<1> QED
  BY <1>1, <1>2, <1>3, StutterWhole DEF Next

LEMMA InitWhole == Init => WholeInv
<1> SUFFICES ASSUME Init PROVE WholeInv
  OBVIOUS
<1>1. /\ server \in Servers /\ pc = "off" /\ hashes = NoBytes
      /\ \E f \in OldFiles : control = f.control
  BY DEF Init
<1>2. RunTyped
  BY <1>1, ServerAssumption DEF RunTyped, Busy, Drawn
<1>3. HashesSound
  BY <1>1, OldFileAssumption DEF HashesSound, Sound, NoBytes
<1> QED
  BY <1>1, <1>2, <1>3
  DEF WholeInv, ProbeHolds, Ahead, NoneMissed, FetchedOnce, OnItsWord, Extent, DoneIsThere,
      CompleteIsWhole, Busy, Drawn

LEMMA WholeAlways == Spec => []WholeInv
BY InitWhole, NextWhole, PTL DEF Spec

-----------------------------------------------------------------------------
(* One version of the file, from a server that sends ETags.                 *)

\* Every byte hashed is of version v.
Pure(table, v) == \A u \in DOMAIN table : \A x \in DOMAIN table[u] : table[u][x] = v

\* The ETag of a run is the version it started with, and If-Range carries it.
Tagged ==
  /\ server.etags
  /\ pc \in Busy => /\ pr.etag \in Versions /\ pr.etag <= server.version
                    /\ ~drifted => pr.etag = server.version
  /\ pc \in Drawn => pin \in {NoETag, pr.etag}

\* The hashes of a control file are of one version, if a probe could still find its
\* ETag: a run that missed a replacement saves the ETag it started with.
ControlPure ==
  control # None /\ control.hashes # NoBytes =>
    /\ control.etag \in Versions /\ control.etag <= server.version
    /\ control.etag = server.version => Pure(control.hashes, control.etag)
    /\ pc \in {"probed", "opened", "checked"} /\ control.etag = pr.etag
         => Pure(control.hashes, control.etag)

HashesPure == pc \in Drawn /\ pr.etag = server.version => Pure(hashes, pr.etag)

\* What is trusted is from a control file of the same version, or of an unknown one.
SameOrUnknown == pc = "opened" /\ done # {} => SameETag(control)

\* If-Range is sent, or the file was not replaced.
Guarded == drifted => pin # NoETag

\* What is done is of one version, of a ranged download that of the probe.
DoneIsOne ==
  pc \in {"checked", "running"} /\ pr.size > 0 /\ ~blind /\ Guarded =>
    \E v \in Versions : /\ ~pr.single => v = pr.etag
                        /\ \A c \in Trusted : \A u \in BytesOf(c) : disk[u] = v

EndsAsOne ==
  pc = "completed" /\ pr.size > 0 /\ ~blind /\ Guarded =>
    \E v \in Versions : \A u \in 0..(pr.size - 1) : disk[u] = v

OneInv ==
  /\ Tagged /\ ControlPure /\ HashesPure /\ SameOrUnknown /\ DoneIsOne /\ EndsAsOne

LEMMA VersionIsNat ==
  ASSUME NEW v \in Versions
  PROVE  v \in Nat /\ v # NoETag
BY SizeAssumption DEF Versions, NoETag

LEMMA RestrictPure ==
  ASSUME NEW table, NEW v, NEW S, Pure(table, v) \/ table = NoBytes
  PROVE  Pure(Restrict(table, S \cap DOMAIN table), v)
BY DEF Pure, Restrict, NoBytes

LEMMA TaggedKept ==
  ASSUME Tagged, UNCHANGED <<server, pr, drifted, pin>>,
         pc' \in Busy => pc \in Busy, pc' \in Drawn => pc \in Drawn
  PROVE  Tagged'
BY DEF Tagged

\* A checkpoint is of one version.
LEMMA PersistPure ==
  ASSUME WholeInv, OneInv, pc \in {"checked", "running"}, Persist(Snapshot), server' = server,
         pc' \in {"running", "off"}
  PROVE  ControlPure'
<1>1. CASE control' = control
  BY <1>1 DEF OneInv, ControlPure
<1>2. CASE control' = Snapshot
  <2>1. control'.etag = pr.etag /\ control'.hashes = Restrict(hashes, done \cap DOMAIN hashes)
    BY <1>2 DEF Snapshot
  <2>2. pr.etag \in Versions /\ pr.etag <= server.version
    BY DEF OneInv, Tagged, Busy
  <2>3. ASSUME pr.etag = server.version PROVE Pure(control'.hashes, pr.etag)
    <3>1. Pure(hashes, pr.etag)
      BY <2>3 DEF OneInv, HashesPure, Drawn
    <3>2. Pure(Restrict(hashes, done \cap DOMAIN hashes), pr.etag)
      BY <3>1, RestrictPure
    <3> QED
      BY <2>1, <3>2
  <2> QED
    BY <2>1, <2>2, <2>3 DEF ControlPure
<1> QED
  BY <1>1, <1>2 DEF Persist

LEMMA ControlKept ==
  ASSUME ControlPure, UNCHANGED <<control, server>>,
         \/ pc' \notin {"probed", "opened", "checked"}
         \/ pc \in {"probed", "opened", "checked"} /\ pr' = pr
  PROVE  ControlPure'
BY DEF ControlPure

\* Nothing is claimed of a run that is over, unless it is complete.
LEMMA OverIsOne ==
  ASSUME pc' \in {"off", "skipped"}, server'.etags, ControlPure'
  PROVE  OneInv'
BY DEF OneInv, Tagged, HashesPure, SameOrUnknown, DoneIsOne, EndsAsOne, Busy, Drawn

\* A run on which only the progress of Start changes.
LEMMA SameChunks ==
  ASSUME OneInv, UNCHANGED <<server, disk, opts, pr, done, todo, hashes, pin, blind, drifted>>,
         pc \in {"checked", "running"}, pc' \in {"checked", "running"}
  PROVE  Tagged' /\ HashesPure' /\ SameOrUnknown' /\ DoneIsOne' /\ EndsAsOne'
<1>1. Tagged'
  BY TaggedKept DEF OneInv, Busy, Drawn
<1>2. HashesPure'
  BY DEF OneInv, HashesPure, Drawn
<1>3. DoneIsOne'
  <2>1. Guarded' <=> Guarded
    BY DEF Guarded
  <2> QED
    BY <2>1, SameRun DEF OneInv, DoneIsOne
<1> QED
  BY <1>1, <1>2, <1>3 DEF SameOrUnknown, EndsAsOne

LEMMA BeginOne ==
  ASSUME WholeInv, OneInv, Begin
  PROVE  OneInv'
<1>1. /\ server' = server /\ pr' = Probe /\ pc' = "probed" /\ drifted' = FALSE
      /\ control' = control
  BY DEF Begin, NothingTrusted
<1>2. server.version \in Versions /\ server.version \in Nat /\ server.etags
  BY VersionIsNat DEF WholeInv, RunTyped, OneInv, Tagged
<1>3. pr'.etag = server.version
  BY <1>1, <1>2 DEF Probe, ServedETag
<1>4. Tagged'
  BY <1>1, <1>2, <1>3 DEF Tagged, Drawn
<1>5. ControlPure'
  BY <1>1, <1>3 DEF OneInv, ControlPure
<1> QED
  BY <1>1, <1>4, <1>5
  DEF OneInv, HashesPure, SameOrUnknown, DoneIsOne, EndsAsOne, Drawn

LEMMA OpenOne ==
  ASSUME WholeInv, OneInv, Open
  PROVE  OneInv'
<1> DEFINE trusted == IF Usable(control) THEN Accepted(control) ELSE {}
<1>1. /\ pc = "probed" /\ pc' = "opened"
      /\ UNCHANGED <<server, control, opts, pr, drifted>>
      /\ done' = Firsts(trusted) /\ todo' = ChunksOf(Lay) \ trusted
      /\ hashes' = IF trusted = {} THEN NoBytes
                   ELSE Restrict(control.hashes, Firsts(trusted) \cap DOMAIN control.hashes)
      /\ pin' = IF Usable(control) THEN control.etag ELSE NoETag
  BY DEF Open
<1>2. pr.etag \in Versions /\ pr.etag \in Nat /\ pr.etag # NoETag
  BY <1>1, VersionIsNat DEF OneInv, Tagged, Busy
<1>3. Usable(control) => control.etag \in {NoETag, pr.etag}
  BY <1>2 DEF Usable, SameETag
<1>4. trusted # {} => Usable(control)
  OBVIOUS
<1> HIDE DEF trusted
<1>6. Tagged'
  BY <1>1, <1>3 DEF OneInv, Tagged, Busy
<1>7. ControlPure'
  BY <1>1, ControlKept DEF OneInv
<1>8. HashesPure'
  <2>1. Pure(NoBytes, pr.etag)
    BY DEF Pure, NoBytes
  <2>2. ASSUME trusted # {}
        PROVE  Pure(Restrict(control.hashes, Firsts(trusted) \cap DOMAIN control.hashes), pr.etag)
    <3>1. control # None /\ control.etag \in {NoETag, pr.etag}
      BY <1>3, <1>4, <2>2 DEF Usable
    <3>2. CASE control.hashes = NoBytes
      BY <3>2, RestrictPure
    <3>3. CASE control.hashes # NoBytes
      <4>1. control.etag \in Versions
        BY <3>1, <3>3 DEF OneInv, ControlPure
      <4>2. control.etag = pr.etag
        BY <3>1, <4>1, VersionIsNat
      <4>3. Pure(control.hashes, pr.etag)
        BY <1>1, <3>1, <3>3, <4>2 DEF OneInv, ControlPure
      <4> QED
        BY <4>3, RestrictPure
    <3> QED
      BY <3>2, <3>3
  <2> QED
    BY <1>1, <2>1, <2>2 DEF HashesPure
<1>9. SameOrUnknown'
  <2>1. done' # {} => SameETag(control)
    BY <1>1, <1>4 DEF Firsts, Usable
  <2> QED
    BY <1>1, <2>1 DEF SameOrUnknown, SameETag
<1> QED
  BY <1>1, <1>6, <1>7, <1>8, <1>9 DEF OneInv, DoneIsOne, EndsAsOne

LEMMA VerifyOne ==
  ASSUME WholeInv, OneInv, Verify
  PROVE  OneInv'
<1>1. /\ pc = "opened" /\ pc' = "checked"
      /\ UNCHANGED <<server, disk, control, opts, pr, done, todo, hashes, pin, blind, drifted>>
  BY DEF Verify, memory
<1>2. Tagged' /\ ControlPure'
  BY <1>1, TaggedKept, ControlKept DEF OneInv, Busy, Drawn
<1>3. HashesPure'
  BY <1>1 DEF OneInv, HashesPure, Drawn
<1>4. pr.etag \in Versions /\ pr.etag # NoETag
  BY <1>1, VersionIsNat DEF OneInv, Tagged, Busy
<1>5. ASSUME pr.size > 0, ~blind, NEW c \in Trusted, NEW u \in BytesOf(c)
      PROVE  disk[u] = pr.etag
  <2>1. /\ control # None /\ c.first \in DOMAIN control.hashes /\ c.first \in done
        /\ u \in DOMAIN control.hashes[c.first] /\ disk[u] = control.hashes[c.first][u]
    BY <1>5, HashVouches
  <2>2. control.hashes # NoBytes
    BY <2>1 DEF NoBytes
  <2>3. control.etag \in Versions
    BY <2>1, <2>2 DEF OneInv, ControlPure
  <2>4. control.etag = pr.etag
    BY <1>1, <1>4, <2>1, <2>3, VersionIsNat DEF OneInv, SameOrUnknown, SameETag
  <2>5. Pure(control.hashes, pr.etag)
    BY <1>1, <2>1, <2>2, <2>4 DEF OneInv, ControlPure
  <2> QED
    BY <2>1, <2>5 DEF Pure
<1>6. DoneIsOne'
  BY <1>1, <1>4, <1>5, SameRun DEF DoneIsOne
<1> QED
  BY <1>1, <1>2, <1>3, <1>6 DEF OneInv, SameOrUnknown, EndsAsOne

LEMMA DistrustOne ==
  ASSUME WholeInv, OneInv, Distrust
  PROVE  OneInv'
<1>1. /\ pc = "opened" /\ pc' = "checked" /\ done' = {} /\ hashes' = NoBytes
      /\ UNCHANGED <<server, control, opts, pr, pin, drifted>>
  BY DEF Distrust
<1>2. Tagged' /\ ControlPure'
  BY <1>1, TaggedKept, ControlKept DEF OneInv, Busy, Drawn
<1>3. HashesPure'
  BY <1>1 DEF HashesPure, Pure, NoBytes
<1>4. Trusted' = {}
  BY <1>1 DEF Trusted
<1>5. pr.etag \in Versions
  BY <1>1 DEF OneInv, Tagged, Busy
<1>6. DoneIsOne'
  BY <1>1, <1>4, <1>5 DEF DoneIsOne
<1> QED
  BY <1>1, <1>2, <1>3, <1>4, <1>6 DEF OneInv, SameOrUnknown, EndsAsOne

\* A run is complete when every offset belongs to a chunk that is done.
LEMMA AllDoneIsOne ==
  ASSUME WholeInv, OneInv, pc \in {"checked", "running"}, pc' = "completed", control' = None,
         UNCHANGED <<server, disk, opts, pr, pin, blind, drifted>>,
         pr.size > 0 => \A u \in 0..(pr.size - 1) : \E c \in Trusted : u \in BytesOf(c)
  PROVE  OneInv'
<1>1. Guarded' <=> Guarded
  BY DEF Guarded
<1>2. EndsAsOne'
  <2> SUFFICES ASSUME pr.size > 0, ~blind, Guarded
               PROVE  \E v \in Versions : \A u \in 0..(pr.size - 1) : disk[u] = v
    BY <1>1 DEF EndsAsOne
  <2>1. PICK v \in Versions : \A c \in Trusted : \A u \in BytesOf(c) : disk[u] = v
    BY DEF OneInv, DoneIsOne
  <2> QED
    BY <2>1
<1>3. Tagged'
  BY DEF OneInv, Tagged, Busy, Drawn
<1> QED
  BY <1>2, <1>3
  DEF OneInv, ControlPure, HashesPure, SameOrUnknown, DoneIsOne, Drawn

LEMMA EndAtOnceOne ==
  ASSUME WholeInv, OneInv, EndAtOnce
  PROVE  OneInv'
<1>1. /\ pc = "checked" /\ pc' = "completed" /\ pr.size > 0 /\ already >= pr.size
      /\ control' = None /\ UNCHANGED <<server, disk, opts, pr, pin, blind, drifted>>
  BY DEF EndAtOnce, NothingMissing, memory
<1>2. Settled(opts) /\ pr \in Probes
  BY <1>1 DEF WholeInv, RunTyped, Busy
<1>3. Trusted \subseteq ChunksOf(Lay) /\ Cardinality(BytesTrusted(Trusted)) >= pr.size
  BY <1>1 DEF WholeInv, Ahead, Trusted
<1>4. \A u \in 0..(pr.size - 1) : \E c \in Trusted : u \in BytesOf(c)
  BY <1>1, <1>2, <1>3, EnoughIsAll
<1> QED
  BY <1>1, <1>4, AllDoneIsOne

LEMMA EndCompleteOne ==
  ASSUME WholeInv, OneInv, EndComplete
  PROVE  OneInv'
<1>1. /\ pc = "running" /\ pc' = "completed" /\ todo = {} /\ ~errored /\ control' = None
      /\ UNCHANGED <<server, disk, opts, pr, pin, blind, drifted>>
  BY DEF EndComplete, memory
<1>2. Settled(opts) /\ pr \in Probes
  BY <1>1 DEF WholeInv, RunTyped, Busy
<1>3. ChunksOf(Lay) \subseteq Trusted
  BY <1>1 DEF WholeInv, NoneMissed
<1>4. pr.size > 0 => \A u \in 0..(pr.size - 1) : \E c \in Trusted : u \in BytesOf(c)
  BY <1>2, <1>3, ChunkFacts
<1> QED
  BY <1>1, <1>4, AllDoneIsOne

LEMMA LaunchOne ==
  ASSUME WholeInv, OneInv, Launch
  PROVE  OneInv'
<1>1. /\ pc = "checked" /\ pc' = "running" /\ Persist(Snapshot)
      /\ UNCHANGED <<server, disk, opts, pr, done, todo, hashes, pin, blind, drifted>>
  BY DEF Launch, memory
<1> QED
  BY <1>1, SameChunks, PersistPure DEF OneInv

\* Checkpoints, and chunks given up.
LEMMA QuietOne ==
  ASSUME WholeInv, OneInv, Checkpoint \/ \E c \in todo : GiveUp(c)
  PROVE  OneInv'
<1>1. CASE Checkpoint
  <2>1. /\ pc = "running" /\ pc' = "running" /\ Persist(Snapshot)
        /\ UNCHANGED <<server, disk, opts, pr, done, todo, hashes, pin, blind, drifted>>
    BY <1>1 DEF Checkpoint, memory
  <2> QED
    BY <2>1, SameChunks, PersistPure DEF OneInv
<1>2. CASE \E c \in todo : GiveUp(c)
  <2>1. /\ pc = "running" /\ pc' = "running" /\ todo' \subseteq todo
        /\ UNCHANGED <<server, disk, control, opts, pr, done, hashes, pin, blind, drifted>>
    BY <1>2 DEF GiveUp
  <2>2. Tagged' /\ ControlPure' /\ HashesPure'
    BY <2>1, TaggedKept, ControlKept DEF OneInv, HashesPure, Busy, Drawn
  <2>3. DoneIsOne'
    <3>1. Guarded' <=> Guarded
      BY <2>1 DEF Guarded
    <3> QED
      BY <2>1, <3>1, SameRun DEF OneInv, DoneIsOne
  <2> QED
    BY <2>1, <2>2, <2>3 DEF OneInv, SameOrUnknown, EndsAsOne
<1> QED
  BY <1>1, <1>2

\* A stream is read while nothing is done yet.
LEMMA StreamAlone ==
  ASSUME WholeInv, pc = "running", NEW c \in todo, pr.size > 0, pr.single
  PROVE  Trusted = {} /\ ChunksOf(Lay) = {c}
<1>1. Settled(opts) /\ pr \in Probes /\ c \in ChunksOf(Lay)
  BY AttemptWithin
<1>2. ASSUME NEW d \in ChunksOf(Lay) PROVE d = c
  <2>1. d.first \in BytesOf(d) /\ c.first \in BytesOf(c) /\ d.first = c.first
    BY <1>1, ChunkFacts
  <2> QED
    BY <1>1, <2>1, ChunkFacts
<1>3. c \notin Trusted
  BY DEF WholeInv, FetchedOnce, Drawn
<1> QED
  BY <1>1, <1>2, <1>3 DEF Trusted

\* A response to a run with If-Range is of the version of the probe.  A stream is
\* read while nothing is done yet.
LEMMA AnsweredIsOne ==
  ASSUME WholeInv, OneInv, pc = "running", NEW c \in todo, Answered(c), pr.size > 0, Guarded
  PROVE  /\ ~pr.single => server.version = pr.etag
         /\ pr.single => Trusted = {} /\ ChunksOf(Lay) = {c}
<1>1. Settled(opts) /\ pr \in Probes /\ c \in ChunksOf(Lay)
  BY AttemptWithin
<1>2. CASE ~pr.single
  <2>1. pin \in {NoETag, server.version}
    BY <1>1, <1>2 DEF Answered, Whole, ServedETag, OneInv, Tagged, Probes
  <2>2. pin \in {NoETag, pr.etag} /\ (~drifted => pr.etag = server.version)
    BY DEF OneInv, Tagged, Busy, Drawn
  <2> QED
    BY <1>2, <2>1, <2>2 DEF Guarded
<1>3. CASE pr.single
  BY <1>3, StreamAlone
<1> QED
  BY <1>2, <1>3

LEMMA FetchOne ==
  ASSUME WholeInv, OneInv, NEW c \in todo, FetchChunk(c)
  PROVE  OneInv'
<1> DEFINE v == server.version
<1>1. /\ pc = "running" /\ pc' = "running" /\ Answered(c) /\ InFull(c)
      /\ disk' = Written(disk, Span(c), v)
      /\ hashes' = [u \in DOMAIN hashes \cup {c.first} |->
                      IF u = c.first THEN Content(Span(c), v) ELSE hashes[u]]
      /\ done' = done \cup {c.first} /\ todo' = todo \ {c}
      /\ UNCHANGED <<server, control, opts, pr, pin, blind, drifted>>
  BY DEF FetchChunk
<1>2. v \in Versions
  BY DEF WholeInv, RunTyped
<1>3. Tagged' /\ ControlPure'
  BY <1>1, TaggedKept, ControlKept DEF OneInv, Busy, Drawn
<1>4. HashesPure'
  <2> SUFFICES ASSUME pr.etag = v PROVE Pure(hashes', pr.etag)
    BY <1>1 DEF HashesPure
  <2>1. Pure(hashes, pr.etag)
    BY <1>1 DEF OneInv, HashesPure, Drawn
  <2>2. \A x \in DOMAIN Content(Span(c), v) : Content(Span(c), v)[x] = pr.etag
    BY DEF Content
  <2> QED
    BY <1>1, <2>1, <2>2 DEF Pure
<1> HIDE DEF v
<1>5. c \in ChunksOf(Lay) /\ Trusted' = {d \in ChunksOf(Lay) : d.first \in done \/ d.first = c.first}
  <2>1. c \in ChunksOf(Lay)
    BY <1>1 DEF WholeInv, RunTyped, Drawn
  <2> QED
    BY <1>1, <2>1, SameRun DEF Trusted
<1>6. ASSUME pr.size > 0 PROVE Trusted' = Trusted \cup {c}
  <2>1. Settled(opts) /\ pr \in Probes
    BY <1>1, <1>6, AttemptWithin
  <2>2. ASSUME NEW d \in ChunksOf(Lay), d.first = c.first PROVE d = c
    <3>1. d.first \in BytesOf(d) /\ c.first \in BytesOf(c)
      BY <1>5, <1>6, <2>1, ChunkFacts
    <3> QED
      BY <1>5, <1>6, <2>1, <2>2, <3>1, ChunkFacts
  <2> QED
    BY <1>5, <2>2 DEF Trusted
<1>8. /\ \A u \in Span(c) : disk'[u] = v
      /\ \A u \in DOMAIN disk : u \notin Span(c) => disk'[u] = disk[u]
  BY <1>1 DEF Written
<1>9. DoneIsOne'
  <2>1. Guarded' <=> Guarded
    BY <1>1 DEF Guarded
  <2> SUFFICES ASSUME pr.size > 0, ~blind, Guarded
               PROVE  \E w \in Versions : /\ ~pr.single => w = pr.etag
                                          /\ \A d \in Trusted' : \A u \in BytesOf(d) : disk'[u] = w
    BY <1>1, <2>1, SameRun DEF DoneIsOne
  <2>2. Settled(opts) /\ pr \in Probes /\ Span(c) = BytesOf(c)
    BY <1>1, AttemptWithin
  <2>3. CASE pr.single
    <3>1. Trusted' = {c}
      BY <1>1, <1>6, <2>3, AnsweredIsOne
    <3> QED
      BY <1>2, <1>8, <2>2, <2>3, <3>1
  <2>4. CASE ~pr.single
    <3>1. v = pr.etag
      BY <1>1, <2>4, AnsweredIsOne DEF v
    <3>2. \A d \in Trusted : \A u \in BytesOf(d) : disk[u] = pr.etag
      BY <1>1, <2>4 DEF OneInv, DoneIsOne
    <3>3. ASSUME NEW d \in Trusted, NEW u \in BytesOf(d) PROVE disk'[u] = v
      <4>1. d \in ChunksOf(Lay)
        BY DEF Trusted
      <4>2. u \in DOMAIN disk
        BY <1>1, <2>2, <4>1, ChunkFacts DEF WholeInv, Extent, Drawn
      <4> QED
        BY <1>8, <3>1, <3>2, <4>2
    <3> QED
      BY <1>2, <1>6, <1>8, <2>2, <3>1, <3>3
  <2> QED
    BY <2>3, <2>4
<1> QED
  BY <1>1, <1>3, <1>4, <1>9 DEF OneInv, SameOrUnknown, EndsAsOne

LEMMA VainOne ==
  ASSUME WholeInv, OneInv, NEW c \in todo, WriteInVain(c)
  PROVE  OneInv'
<1> DEFINE v == server.version
<1>1. /\ pc = "running" /\ pc' = "running" /\ Answered(c)
      /\ UNCHANGED <<server, control, opts, pr, done, todo, hashes, pin, blind, drifted>>
  BY DEF WriteInVain, memory
<1>2. PICK n \in Span(c) : disk' = Written(disk, c.first..n, v)
  BY DEF WriteInVain
<1>3. v \in Versions
  BY DEF WholeInv, RunTyped
<1> HIDE DEF v
<1>4. Tagged' /\ ControlPure' /\ HashesPure'
  BY <1>1, TaggedKept, ControlKept DEF OneInv, HashesPure, Busy, Drawn
<1>6. \A u \in DOMAIN disk : disk'[u] = v \/ disk'[u] = disk[u]
  BY <1>2 DEF Written
<1>7. DoneIsOne'
  <2>1. Guarded' <=> Guarded
    BY <1>1 DEF Guarded
  <2> SUFFICES ASSUME pr.size > 0, ~blind, Guarded
               PROVE  \E w \in Versions : /\ ~pr.single => w = pr.etag
                                          /\ \A d \in Trusted : \A u \in BytesOf(d) : disk'[u] = w
    BY <1>1, <2>1, SameRun DEF DoneIsOne
  <2>2. CASE pr.single
    <3>1. Trusted = {}
      BY <1>1, <2>2, AnsweredIsOne
    <3> QED
      BY <1>3, <2>2, <3>1
  <2>3. CASE ~pr.single
    <3>1. v = pr.etag
      BY <1>1, <2>3, AnsweredIsOne DEF v
    <3>2. \A d \in Trusted : \A u \in BytesOf(d) : disk[u] = pr.etag
      BY <1>1, <2>3 DEF OneInv, DoneIsOne
    <3>3. ASSUME NEW d \in Trusted, NEW u \in BytesOf(d) PROVE disk'[u] = v
      <4>1. d \in ChunksOf(Lay) /\ Settled(opts) /\ pr \in Probes
        BY <1>1, AttemptWithin DEF Trusted
      <4>2. u \in DOMAIN disk
        BY <1>1, <4>1, ChunkFacts DEF WholeInv, Extent, Drawn
      <4> QED
        BY <1>6, <3>1, <3>2, <4>2
    <3> QED
      BY <1>3, <3>1, <3>3
  <2> QED
    BY <2>2, <2>3
<1> QED
  BY <1>1, <1>4, <1>7 DEF OneInv, SameOrUnknown, EndsAsOne

LEMMA OverOne ==
  ASSUME WholeInv, OneInv, Skip \/ EndUnfinished \/ Kill \/ ToggleRanges \/ Rot
  PROVE  OneInv'
<1>1. pc' \in {"off", "skipped"}
  BY DEF Skip, EndUnfinished, Kill, ToggleRanges, Rot
<1>2. CASE Skip \/ Kill \/ Rot
  <2>1. UNCHANGED <<control, server>>
    BY <1>2 DEF Skip, Kill, Rot
  <2>2. server'.etags
    BY <2>1 DEF OneInv, Tagged
  <2>3. ControlPure'
    BY <1>1, <2>1, ControlKept DEF OneInv
  <2> QED
    BY <1>1, <2>2, <2>3, OverIsOne
<1>3. CASE EndUnfinished
  <2>1. pc = "running" /\ Persist(Snapshot) /\ server' = server
    BY <1>3 DEF EndUnfinished
  <2>2. server'.etags
    BY <2>1 DEF OneInv, Tagged
  <2>3. ControlPure'
    BY <1>3, <2>1, PersistPure DEF EndUnfinished
  <2> QED
    BY <1>1, <2>2, <2>3, OverIsOne
<1>4. CASE ToggleRanges
  <2>1. server'.etags = server.etags /\ server'.version = server.version /\ control' = control
    BY <1>4 DEF ToggleRanges, WholeInv, RunTyped
  <2>2. server'.etags
    BY <2>1 DEF OneInv, Tagged
  <2>3. ControlPure'
    BY <1>1, <2>1 DEF OneInv, ControlPure
  <2> QED
    BY <1>1, <2>2, <2>3, OverIsOne
<1> QED
  BY <1>2, <1>3, <1>4

LEMMA ReplaceOne ==
  ASSUME WholeInv, OneInv, Replace
  PROVE  OneInv'
<1>1. /\ server' = [server EXCEPT !.version = @ + 1]
      /\ drifted' = (pc \in {"probed", "opened", "checked", "running"} \/ drifted)
      /\ UNCHANGED <<disk, control, pc, opts, pr, done, todo, hashes, pin, blind>>
  BY DEF Replace
<1>2. /\ server'.version = server.version + 1 /\ server'.etags = server.etags
      /\ server.version \in Nat
  BY <1>1, VersionIsNat DEF WholeInv, RunTyped
<1>3. Tagged'
  <2>1. server'.etags
    BY <1>2 DEF OneInv, Tagged
  <2>2. ASSUME pc \in Busy
        PROVE  pr.etag \in Versions /\ pr.etag <= server.version + 1 /\ drifted'
    <3>1. pr.etag \in Versions /\ pr.etag <= server.version
      BY <2>2 DEF OneInv, Tagged
    <3>2. pr.etag \in Nat
      BY <3>1, VersionIsNat
    <3>3. drifted'
      BY <1>1, <2>2 DEF Busy
    <3> QED
      BY <1>2, <3>1, <3>2, <3>3
  <2>3. pc \in Drawn => pin \in {NoETag, pr.etag}
    BY DEF OneInv, Tagged
  <2> QED
    BY <1>1, <1>2, <2>1, <2>2, <2>3 DEF Tagged
<1>4. ControlPure'
  <2>1. control # None /\ control.hashes # NoBytes => control.etag \in Nat
    BY VersionIsNat DEF OneInv, ControlPure
  <2> QED
    BY <1>1, <1>2, <2>1 DEF OneInv, ControlPure
<1>5. HashesPure'
  <2>1. pc \in Drawn => pr.etag \in Nat /\ pr.etag <= server.version
    BY VersionIsNat DEF OneInv, Tagged, Busy, Drawn
  <2> QED
    BY <1>1, <1>2, <2>1 DEF HashesPure
<1>6. SameOrUnknown'
  BY <1>1 DEF OneInv, SameOrUnknown, SameETag
<1>7. Guarded' => Guarded
  BY <1>1 DEF Guarded
<1>8. DoneIsOne' /\ EndsAsOne'
  BY <1>1, <1>7, SameRun DEF OneInv, DoneIsOne, EndsAsOne
<1> QED
  BY <1>3, <1>4, <1>5, <1>6, <1>8 DEF OneInv

LEMMA StutterOne ==
  ASSUME OneInv, UNCHANGED vars
  PROVE  OneInv'
<1>1. UNCHANGED <<server, disk, control, pc, opts, pr, done, todo, hashes, pin, blind, drifted>>
  BY DEF vars, memory
<1>2. Tagged' /\ ControlPure' /\ HashesPure'
  BY <1>1 DEF OneInv, Tagged, ControlPure, HashesPure
<1>3. SameOrUnknown'
  BY <1>1 DEF OneInv, SameOrUnknown, SameETag
<1>4. Guarded' <=> Guarded
  BY <1>1 DEF Guarded
<1>5. DoneIsOne' /\ EndsAsOne'
  BY <1>1, <1>4, SameRun DEF OneInv, DoneIsOne, EndsAsOne
<1> QED
  BY <1>2, <1>3, <1>5 DEF OneInv

LEMMA NextOne == WholeInv /\ OneInv /\ [Next]_vars => OneInv'
<1> SUFFICES ASSUME WholeInv, OneInv, [Next]_vars PROVE OneInv'
  OBVIOUS
<1>1. CASE StartStep
  BY <1>1, BeginOne, OpenOne, VerifyOne, DistrustOne, EndAtOnceOne, LaunchOne, QuietOne,
     EndCompleteOne, OverOne
  DEF StartStep
<1>2. CASE \E c \in todo : FetchChunk(c) \/ WriteInVain(c) \/ GiveUp(c)
  BY <1>2, FetchOne, VainOne, QuietOne
<1>3. CASE Replace \/ ToggleRanges \/ Rot
  BY <1>3, ReplaceOne, OverOne
<1> QED
  BY <1>1, <1>2, <1>3, StutterOne DEF Next

\* A server that sends ETags goes on sending them, and one that does not never starts.
LEMMA SameServer ==
  ASSUME WholeInv, [Next]_vars
  PROVE  server'.etags = server.etags
<1>1. CASE Replace \/ ToggleRanges
  BY <1>1 DEF Replace, ToggleRanges, WholeInv, RunTyped
<1>2. CASE ~(Replace \/ ToggleRanges)
  <2>1. server' = server
    BY <1>2
    DEF Next, StartStep, Begin, Skip, Open, Verify, Distrust, EndAtOnce, Launch, Checkpoint,
        EndUnfinished, EndComplete, Kill, FetchChunk, WriteInVain, GiveUp, Rot, vars
  <2> QED
    BY <2>1
<1> QED
  BY <1>1, <1>2

LEMMA InitOne == Init /\ server.etags => OneInv
<1> SUFFICES ASSUME Init, server.etags PROVE OneInv
  OBVIOUS
<1>1. pc = "off" /\ \E f \in OldFiles : control = f.control
  BY DEF Init
<1>2. ControlPure
  BY <1>1, OldFileAssumption DEF ControlPure
<1> QED
  BY <1>1, <1>2
  DEF OneInv, Tagged, HashesPure, SameOrUnknown, DoneIsOne, EndsAsOne, Busy, Drawn

-----------------------------------------------------------------------------
(* What one run saves the next one accepts.                                 *)

\* Every piece of Cut but the last one has seg bytes.
LEMMA CutEnds ==
  ASSUME NEW size \in Nat \ {0}, NEW seg \in Nat \ {0}, NEW base \in Nat,
         NEW c \in Range(Cut(size, seg, base))
  PROVE  /\ c.first \in base..(base + size - 1) /\ c.first \in Nat /\ c.last \in Nat
         /\ c.last + 1 <= base + size
         /\ c.last + 1 = IF c.first + seg < base + size THEN c.first + seg ELSE base + size
         /\ size % seg = 0 => c.last + 1 = c.first + seg
<1> DEFINE k == CeilDiv(size, seg)
<1>1. k \in Nat \ {0} /\ seg * k >= size /\ seg * (k - 1) < size
  BY CeilDivFacts
<1>2. Cut(size, seg, base) =
        [i \in 1..k |-> [first |-> base + (i - 1) * seg, last |-> base + Lower(i * seg, size) - 1]]
  BY DEF Cut
<1> HIDE DEF k
<1>3. PICK i \in 1..k : /\ c.first = base + (i - 1) * seg
                        /\ c.last = base + Lower(i * seg, size) - 1
  BY <1>2 DEF Range
<1>4. /\ seg * (i - 1) \in Nat /\ (i - 1) * seg = seg * (i - 1)
      /\ i * seg = seg * (i - 1) + seg /\ i - 1 \in Nat
  BY <1>1
<1>5. seg * (i - 1) < size
  <2>1. seg * (i - 1) <= seg * (k - 1)
    BY <1>1, <1>4, Monotone
  <2> QED
    BY <1>1, <1>4, <2>1
<1>6. c.last + 1 = IF c.first + seg < base + size THEN c.first + seg ELSE base + size
  BY <1>3, <1>4, <1>5 DEF Lower
<1>7. ASSUME size % seg = 0 PROVE c.last + 1 = c.first + seg
  <2> DEFINE q == size \div seg
  <2>1. q \in Nat /\ size = seg * q
    BY <1>7
  <2> HIDE DEF q
  <2>2. ~(q <= i - 1)
    <3> SUFFICES ASSUME q <= i - 1 PROVE FALSE
      OBVIOUS
    <3>1. seg * q <= seg * (i - 1)
      BY <1>4, <2>1, Monotone
    <3> QED
      BY <1>4, <1>5, <2>1, <3>1
  <2>3. seg * i <= seg * q /\ seg * i = i * seg
    <3>1. i <= q /\ i \in Nat
      BY <1>1, <1>4, <2>1, <2>2
    <3> QED
      BY <2>1, <3>1, Monotone
  <2> QED
    BY <1>3, <1>4, <2>1, <2>3 DEF Lower
<1>8. c.first \in Nat /\ c.first \in base..(base + size - 1)
  BY <1>3, <1>4, <1>5
<1>9. c.last \in Int /\ c.last + 1 <= base + size /\ c.last + 1 > c.first
  BY <1>3, <1>4, <1>5 DEF Lower
<1> QED
  BY <1>6, <1>7, <1>8, <1>9

\* The first region ends with a whole chunk.
Aligned(lay) == lay.splitAt % lay.chunk = 0

\* What chunkSpan takes for a chunk is that chunk.
LEMMA SpansAreChunks ==
  ASSUME Settled(opts), pr \in Probes, pr.size > 0, ~pr.single, Aligned(Lay),
         NEW c \in ChunksOf(Lay)
  PROVE  ChunkSpan(c.first) = c.first..c.last
<1> DEFINE lay == Lay
           N == pr.size
           span(seg) == c.first..(Min({c.first + seg, N}) - 1)
<1>1. N \in Nat \ {0} /\ pr.single = FALSE
  BY DEF Probes
<1>2. OneQueue(lay, N) \/ TwoQueues(lay, N)
  BY <1>1, LayoutForms DEF Lay
<1>3. ChunkSpan(c.first) = span(IF lay.splitAt > 0 /\ c.first >= lay.splitAt THEN lay.seg2 ELSE lay.chunk)
  BY DEF ChunkSpan
<1>4. \A seg \in Nat : c.first \in Nat =>
        span(seg) = c.first..((IF c.first + seg < N THEN c.first + seg ELSE N) - 1)
  BY <1>1, MinOfTwo
<1> HIDE DEF span, lay, N
<1>5. CASE OneQueue(lay, N)
  <2>1. c \in Range(Cut(N, lay.chunk, 0))
    BY <1>5, OneRegion DEF OneQueue, lay
  <2>2. /\ c.first \in Nat /\ c.last \in Nat
        /\ c.last + 1 = IF c.first + lay.chunk < 0 + N THEN c.first + lay.chunk ELSE 0 + N
    BY <1>1, <1>5, <2>1, CutEnds DEF OneQueue
  <2>3. span(lay.chunk) = c.first..((IF c.first + lay.chunk < N THEN c.first + lay.chunk ELSE N) - 1)
    BY <1>4, <1>5, <2>2 DEF OneQueue
  <2>4. ChunkSpan(c.first) = span(lay.chunk)
    BY <1>3, <1>5 DEF OneQueue
  <2> QED
    BY <1>1, <1>5, <2>2, <2>3, <2>4 DEF OneQueue
<1>6. CASE TwoQueues(lay, N)
  <2> DEFINE mid == lay.splitAt
             A == Range(Cut(mid, lay.chunk, 0))
             B == Range(Cut(N - mid, lay.seg2, mid))
  <2>1. c \in A \/ c \in B
    BY <1>6, TwoRegions DEF TwoQueues, lay
  <2>2. CASE c \in A
    <3>1. /\ c.first \in Nat /\ c.last \in Nat /\ c.first \in 0..(0 + mid - 1)
          /\ c.last + 1 <= 0 + mid /\ c.last + 1 = c.first + lay.chunk
      BY <1>6, <2>2, CutEnds DEF TwoQueues, Aligned, lay
    <3>2. ChunkSpan(c.first) = span(lay.chunk)
      BY <1>3, <1>6, <3>1 DEF TwoQueues
    <3>3. span(lay.chunk) = c.first..((IF c.first + lay.chunk < N THEN c.first + lay.chunk ELSE N) - 1)
      BY <1>4, <1>6, <3>1 DEF TwoQueues
    <3>4. c.first + lay.chunk < N
      BY <1>1, <1>6, <3>1 DEF TwoQueues
    <3> QED
      BY <3>1, <3>2, <3>3, <3>4
  <2>3. CASE c \in B
    <3>1. /\ c.first \in Nat /\ c.last \in Nat /\ c.first \in mid..(mid + (N - mid) - 1)
          /\ c.last + 1 = IF c.first + lay.seg2 < mid + (N - mid) THEN c.first + lay.seg2
                          ELSE mid + (N - mid)
      BY <1>6, <2>3, CutEnds DEF TwoQueues
    <3>2. mid + (N - mid) = N /\ c.first >= mid /\ mid > 0
      BY <1>1, <1>6, <3>1 DEF TwoQueues
    <3>3. ChunkSpan(c.first) = span(lay.seg2)
      BY <1>3, <3>2
    <3>4. span(lay.seg2) = c.first..((IF c.first + lay.seg2 < N THEN c.first + lay.seg2 ELSE N) - 1)
      BY <1>4, <1>6, <3>1 DEF TwoQueues
    <3> QED
      BY <3>1, <3>2, <3>3, <3>4
  <2> QED
    BY <2>1, <2>2, <2>3
<1> QED
  BY <1>2, <1>5, <1>6

\* A sequence of k chunks starts at no more than k offsets.
LEMMA FewFirsts ==
  ASSUME NEW k \in Nat, NEW r, DOMAIN r = 1..k, NEW S, S \subseteq {r[i].first : i \in 1..k}
  PROVE  Cardinality(S) <= k
<1> DEFINE D == 1..k
           F == {r[i].first : i \in 1..k}
           f == [i \in D |-> r[i].first]
<1>1. IsFiniteSet(D) /\ Cardinality(D) = k
  BY FS_Interval
<1>2. f \in Surjection(D, F)
  BY DEF Surjection
<1> HIDE DEF D, F, f
<1>3. IsFiniteSet(F) /\ Cardinality(F) <= k
  BY <1>1, <1>2, FS_Surjection
<1>4. S \subseteq F
  BY DEF F
<1>5. Cardinality(S) <= Cardinality(F) /\ Cardinality(S) \in Nat /\ Cardinality(F) \in Nat
  BY <1>3, <1>4, FS_Subset, FS_CardinalityType
<1> QED
  BY <1>3, <1>5

LEMMA CutLength ==
  ASSUME NEW size \in Nat \ {0}, NEW seg \in Nat \ {0}, NEW base,
         NEW r, r = Cut(size, seg, base)
  PROVE  Len(r) \in Nat /\ DOMAIN r = 1..Len(r) /\ Range(r) = {r[i] : i \in 1..Len(r)}
<1> DEFINE k == CeilDiv(size, seg)
<1>1. k \in Nat
  BY CeilDivFacts
<1>2. DOMAIN r = 1..k
  BY DEF Cut
<1> HIDE DEF k
<1>3. Len(r) = k
  BY <1>1, <1>2
<1> QED
  BY <1>1, <1>2, <1>3 DEF Range

\* The first queue has a chunk for every offset that is saved.
LEMMA SavedFits ==
  ASSUME Settled(opts), pr \in Probes, pr.size = -1 \/ pr.size > 0,
         NEW cf, cf.done \subseteq Firsts(ChunksOf(Lay))
  PROVE  Fits(cf)
<1> DEFINE lay == Lay
           front == {u \in cf.done : lay.splitAt = 0 \/ u < lay.splitAt}
<1>1. CASE pr.single \/ pr.size < 0
  <2> DEFINE s == [first |-> 0, last |-> ToEOF]
  <2>1. lay.regions = << <<s>> >>
    <3> DEFINE qs == IF pr.single THEN -1 ELSE pr.size
    <3>1. qs \in Int /\ qs < 0 /\ ~(qs >= BothMin) /\ ~(qs > 0)
      BY <1>1, ThresholdAssumption DEF Probes
    <3>2. lay.regions = << NewChunkQueue(qs, opts.chunk) >>
      BY <3>1 DEF Layout, Lay
    <3> QED
      BY <3>1, <3>2 DEF NewChunkQueue
  <2>2. ChunksOf(lay) = {s}
    BY <1>1, StreamIsOneChunk DEF Lay, Probes
  <2>3. front \subseteq {s.first}
    BY <2>2 DEF Firsts
  <2> HIDE DEF s, lay
  <2>4. <<s>>[1].first = s.first /\ DOMAIN <<s>> = 1..1 /\ Len(<<s>>) = 1
    OBVIOUS
  <2>5. front \subseteq {<<s>>[i].first : i \in 1..1}
    BY <2>3, <2>4
  <2> HIDE DEF front
  <2>6. Cardinality(front) <= 1
    <3> DEFINE r == <<s>>
    <3>1. DOMAIN r = 1..1 /\ front \subseteq {r[i].first : i \in 1..1} /\ 1 \in Nat
      BY <2>4, <2>5
    <3> HIDE DEF r
    <3> QED
      BY <3>1, FewFirsts
  <2>7. Len(lay.regions[1]) = 1
    BY <2>1, <2>4
  <2> QED
    BY <2>6, <2>7 DEF Fits, front, lay
<1>2. CASE ~pr.single /\ pr.size > 0
  <2> DEFINE r == lay.regions[1]
  <2>1. pr.size \in Nat \ {0} /\ pr.single = FALSE
    BY <1>2 DEF Probes
  <2>2. OneQueue(lay, pr.size) \/ TwoQueues(lay, pr.size)
    BY <2>1, LayoutForms DEF Lay
  <2>3. /\ Len(r) \in Nat /\ DOMAIN r = 1..Len(r) /\ Range(r) = {r[i] : i \in 1..Len(r)}
        /\ \A u \in front : \E c \in Range(r) : c.first = u
    <3> HIDE DEF lay
    <3>1. CASE OneQueue(lay, pr.size)
      <4>1. r = Cut(pr.size, lay.chunk, 0) /\ lay.chunk \in Nat \ {0}
        BY <3>1 DEF OneQueue
      <4>2. ChunksOf(lay) = Range(r)
        BY <3>1, OneRegion DEF OneQueue
      <4>3. \A u \in front : \E c \in Range(r) : c.first = u
        BY <4>2 DEF Firsts, lay
      <4> HIDE DEF r
      <4> QED
        BY <2>1, <4>1, <4>3, CutLength
    <3>2. CASE TwoQueues(lay, pr.size)
      <4> DEFINE mid == lay.splitAt
                 s == Cut(pr.size - mid, lay.seg2, mid)
      <4>1. r = Cut(mid, lay.chunk, 0) /\ lay.chunk \in Nat \ {0} /\ mid \in Nat \ {0}
        BY <3>2 DEF TwoQueues
      <4>2. ChunksOf(lay) = Range(r) \cup Range(s)
        BY <3>2, <4>1, TwoRegions DEF TwoQueues
      <4>3. \A c \in Range(s) : c.first >= mid /\ c.first \in Nat
        BY <2>1, <3>2, CutEnds DEF TwoQueues
      <4>4. ASSUME NEW u \in front PROVE \E c \in Range(r) : c.first = u
        <5>1. PICK c \in ChunksOf(lay) : c.first = u
          BY DEF Firsts, lay
        <5>2. u < mid
          BY <4>1
        <5> QED
          BY <4>1, <4>2, <4>3, <5>1, <5>2
      <4> HIDE DEF r, mid
      <4> QED
        BY <4>1, <4>4, CutLength
    <3> QED
      BY <2>2, <3>1, <3>2 DEF lay
  <2> HIDE DEF r
  <2>4. front \subseteq {r[i].first : i \in 1..Len(r)}
    BY <2>3
  <2> HIDE DEF front
  <2>5. Cardinality(front) <= Len(r)
    BY <2>3, <2>4, FewFirsts
  <2> QED
    BY <2>5 DEF Fits, front, r, lay
<1> QED
  BY <1>1, <1>2 DEF Probes

\* What chunkSpan made of the offset u when the control file was written.
FileSpan(cf, single, u) ==
  IF single THEN 0..(cf.size - 1)
  ELSE LET size == IF cf.splitAt > 0 /\ u >= cf.splitAt THEN cf.seg2 ELSE cf.chunk
       IN u..(Min({u + size, cf.size}) - 1)

\* The control file of a run with options o after probe p: it records the layout, lists
\* chunks of it only, and has hashes of whole chunks.
WrittenBy(cf, o, p) ==
  LET lay == Layout(o, p) IN
  /\ Settled(o) /\ p \in Probes /\ (p.size = -1 \/ p.size > 0)
  /\ cf.etag = p.etag /\ cf.size = p.size /\ cf.profile = o.profile
  /\ cf.chunk = lay.chunk /\ cf.splitAt = lay.splitAt /\ cf.seg2 = lay.seg2
  /\ cf.done \subseteq Firsts(ChunksOf(lay)) /\ DOMAIN cf.hashes \subseteq cf.done
  /\ cf.size > 0 /\ Aligned(lay) =>
       \A u \in DOMAIN cf.hashes : DOMAIN cf.hashes[u] = FileSpan(cf, p.single, u)

FileIsWritten ==
  control # None =>
    \/ WrittenBy(control, saver[1], saver[2])
    \/ saver = <<None, None>> /\ control.hashes = NoBytes

\* What a run takes from the control file.
TakenOver == IF Usable(control) THEN Accepted(control) ELSE {}

AsTaken ==
  pc = "opened" =>
    /\ done = Firsts(TakenOver)
    /\ hashes = IF TakenOver = {} THEN NoBytes
                ELSE Restrict(control.hashes, Firsts(TakenOver) \cap DOMAIN control.hashes)

\* Only chunks of the layout are done.
DoneAreChunks == pc \in Drawn => done \subseteq Firsts(ChunksOf(Lay))

\* A run that has something to fetch has hashes of whole chunks.
HashSpans ==
  /\ pc = "running" => ~NothingMissing
  /\ pc \in {"checked", "running"} /\ pr.size > 0 /\ ~NothingMissing /\ Aligned(Lay) =>
       \A u \in DOMAIN hashes : DOMAIN hashes[u] = ChunkSpan(u)

SavedInv == FileIsWritten /\ AsTaken /\ DoneAreChunks /\ HashSpans

LEMMA FileKept ==
  ASSUME FileIsWritten, UNCHANGED <<control, saver>> \/ control' = None
  PROVE  FileIsWritten'
BY DEF FileIsWritten

\* A checkpoint writes such a control file.
LEMMA PersistWrites ==
  ASSUME WholeInv, SavedInv, pc \in {"checked", "running"}, ~NothingMissing, Persist(Snapshot)
  PROVE  FileIsWritten'
<1>1. CASE control' = control /\ saver' = saver
  BY <1>1, FileKept DEF SavedInv
<1>2. CASE control' = Snapshot /\ saver' = <<opts, pr>>
  <2> DEFINE cf == Snapshot
             table == Restrict(hashes, done \cap DOMAIN hashes)
  <2>1. Settled(opts) /\ pr \in Probes /\ (pr.size = -1 \/ pr.size > 0)
    BY DEF WholeInv, RunTyped, Busy
  <2>2. /\ cf.etag = pr.etag /\ cf.size = pr.size /\ cf.profile = opts.profile
        /\ cf.chunk = Lay.chunk /\ cf.splitAt = Lay.splitAt /\ cf.seg2 = Lay.seg2
        /\ cf.done = done /\ cf.hashes = table
    BY DEF Snapshot
  <2>3. /\ DOMAIN table = done \cap DOMAIN hashes
        /\ \A u \in DOMAIN table : table[u] = hashes[u]
    BY DEF Restrict
  <2>4. done \subseteq Firsts(ChunksOf(Lay))
    BY DEF SavedInv, DoneAreChunks, Drawn
  <2> HIDE DEF cf, table
  <2>5. \A u : FileSpan(cf, pr.single, u) = ChunkSpan(u)
    BY <2>2 DEF FileSpan, ChunkSpan
  <2>6. cf.size > 0 /\ Aligned(Lay) =>
          \A u \in DOMAIN cf.hashes : DOMAIN cf.hashes[u] = FileSpan(cf, pr.single, u)
    BY <2>2, <2>3, <2>5 DEF SavedInv, HashSpans
  <2>7. WrittenBy(cf, opts, pr)
    BY <2>1, <2>2, <2>3, <2>4, <2>6 DEF WrittenBy, Lay
  <2> QED
    BY <1>2, <2>7 DEF FileIsWritten, cf
<1> QED
  BY <1>1, <1>2 DEF Persist

\* Nothing is claimed of a run that is over.
LEMMA OverIsSaved ==
  ASSUME pc' \notin Drawn, FileIsWritten'
  PROVE  SavedInv'
BY DEF SavedInv, AsTaken, DoneAreChunks, HashSpans, Drawn

LEMMA OpenSaved ==
  ASSUME WholeInv, SavedInv, Open
  PROVE  SavedInv'
<1>1. /\ pc' = "opened" /\ UNCHANGED <<control, saver, opts, pr>>
      /\ done' = Firsts(TakenOver)
      /\ hashes' = IF TakenOver = {} THEN NoBytes
                   ELSE Restrict(control.hashes, Firsts(TakenOver) \cap DOMAIN control.hashes)
  BY DEF Open, TakenOver
<1>2. TakenOver' = TakenOver
  BY <1>1, SameRun DEF TakenOver, Usable, SameETag, SameLayout, Fits, Accepted
<1>3. AsTaken'
  BY <1>1, <1>2 DEF AsTaken
<1>4. DoneAreChunks'
  <2>1. TakenOver \subseteq ChunksOf(Lay)
    BY DEF TakenOver, Accepted
  <2> QED
    BY <1>1, <2>1, SameRun DEF DoneAreChunks, Firsts
<1> QED
  BY <1>1, <1>3, <1>4, FileKept DEF SavedInv, HashSpans

\* What is trusted counts.
LEMMA TrustedCounts ==
  ASSUME WholeInv, pc = "opened", pr.size > 0, NEW c \in Trusted
  PROVE  already > 0 /\ (pr.single => already = pr.size)
<1>1. Settled(opts) /\ pr \in Probes
  BY DEF WholeInv, RunTyped, Busy
<1>2. IsFiniteSet(ChunksOf(Lay)) /\ c \in ChunksOf(Lay) /\ c.first \in BytesOf(c)
  BY <1>1, ChunkFacts DEF Trusted
<1>3. IsFiniteSet(BytesTrusted(Trusted)) /\ already = Cardinality(BytesTrusted(Trusted))
  <2>1. BytesTrusted(Trusted) \subseteq ChunksOf(Lay) \X (0..(pr.size - 1))
    BY <1>1, ChunkFacts DEF BytesTrusted, Trusted
  <2>2. IsFiniteSet(0..(pr.size - 1))
    BY <1>1, FS_Interval DEF Probes
  <2> QED
    BY <1>2, <2>1, <2>2, FS_Product, FS_Subset DEF WholeInv, Ahead
<1>4. already > 0
  <2>1. <<c, c.first>> \in BytesTrusted(Trusted)
    BY <1>2 DEF BytesTrusted
  <2> QED
    BY <1>3, <2>1, FS_CardinalityType, FS_EmptySet
<1>5. ASSUME pr.single PROVE already = pr.size
  <2> DEFINE N == pr.size
             B == 0..(N - 1)
             s == [first |-> 0, last |-> ToEOF]
  <2>1. ChunksOf(Lay) = {s}
    BY <1>1, <1>5, StreamIsOneChunk DEF Lay, Probes
  <2>2. Trusted = {s} /\ BytesOf(s) = B
    BY <1>2, <2>1 DEF Trusted, BytesOf
  <2> HIDE DEF s
  <2>3. BytesTrusted(Trusted) = {s} \X B
    BY <2>2 DEF BytesTrusted
  <2>4. IsFiniteSet(B) /\ Cardinality(B) = N
    <3>1. N \in Nat \ {0}
      BY <1>1 DEF Probes
    <3> HIDE DEF N
    <3>2. 0 \in Int /\ N - 1 \in Int /\ ~(0 > N - 1) /\ N - 1 - 0 + 1 = N
      BY <3>1
    <3> QED
      BY <3>2, FS_Interval
  <2>5. N \in Nat
    BY <1>1 DEF Probes
  <2> DEFINE A == {s}
  <2>6. IsFiniteSet(A) /\ Cardinality(A) = 1
    BY FS_Singleton
  <2> HIDE DEF A, B, N
  <2>7. Cardinality(A \X B) = Cardinality(A) * Cardinality(B)
    BY <2>4, <2>6, FS_Product
  <2>8. Cardinality(A \X B) = N
    BY <2>4, <2>5, <2>6, <2>7
  <2> QED
    BY <1>3, <2>3, <2>8 DEF A, N
<1> QED
  BY <1>4, <1>5

LEMMA VerifySaved ==
  ASSUME WholeInv, SavedInv, Verify
  PROVE  SavedInv'
<1>1. /\ pc = "opened" /\ pc' = "checked" /\ (already > 0 => HashesAgree(control))
      /\ UNCHANGED <<disk, control, saver, opts, pr, done, already, hashes>>
  BY DEF Verify, memory
<1>2. Settled(opts) /\ pr \in Probes
  BY <1>1 DEF WholeInv, RunTyped, Busy
<1>3. DoneAreChunks'
  BY <1>1, SameRun DEF SavedInv, DoneAreChunks, Drawn
<1>4. ASSUME pr.size > 0, ~NothingMissing, Aligned(Lay), NEW u \in DOMAIN hashes
      PROVE  DOMAIN hashes[u] = ChunkSpan(u)
  <2>1. /\ TakenOver # {} /\ u \in Firsts(TakenOver)
        /\ u \in DOMAIN control.hashes /\ hashes[u] = control.hashes[u]
    BY <1>1, <1>4 DEF SavedInv, AsTaken, NoBytes, Restrict
  <2>2. Usable(control) /\ \E c \in ChunksOf(Lay) : c.first = u /\ u \in control.done
    BY <2>1 DEF TakenOver, Accepted, Firsts
  <2>3. PICK c \in Trusted : c.first = u
    BY <1>1, <2>1, <2>2 DEF Trusted, SavedInv, AsTaken
  <2>4. HashesAgree(control) /\ ~pr.single
    BY <1>1, <1>2, <1>4, <2>3, TrustedCounts DEF NothingMissing, Probes
  <2>5. CASE Covered(control)
    <3>1. OnDisk(ChunkSpan(u)) = control.hashes[u]
      BY <2>2, <2>4, <2>5 DEF HashesAgree
    <3>2. ChunkSpan(u) \subseteq DOMAIN disk
      <4>1. c \in ChunksOf(Lay) /\ c.last < pr.size /\ c.first \in Nat /\ c.last \in Nat
        <5>1. pr.single = FALSE /\ pr.size \in Nat \ {0}
          BY <1>2, <1>4, <2>4 DEF Probes
        <5>2. Tiles(ChunksOf(Lay), 0, pr.size)
          BY <1>2, <5>1, LayoutTiles DEF Lay
        <5> QED
          BY <2>3, <5>2 DEF Trusted, Tiles
      <4>2. ChunkSpan(u) = u..c.last
        BY <1>2, <1>4, <2>3, <2>4, <4>1, SpansAreChunks
      <4> QED
        BY <1>1, <1>2, <1>4, <2>3, <4>1, <4>2 DEF WholeInv, Extent, Drawn, Probes
    <3> QED
      BY <2>1, <3>1, <3>2 DEF OnDisk
  <2>6. CASE ~Covered(control)
    <3> DEFINE o == saver[1]
               p == saver[2]
               lay == Layout(o, p)
    <3>1. control # None /\ control.hashes # NoBytes
      BY <2>1, <2>2 DEF Usable, NoBytes
    <3>2. WrittenBy(control, o, p)
      BY <3>1 DEF SavedInv, FileIsWritten
    <3>3. SameLayout(control)
      BY <2>2 DEF Usable
    <3> HIDE DEF o, p
    <3>4. CASE p.single
      <4>1. control.done \subseteq {0}
        <5>1. ChunksOf(lay) = {[first |-> 0, last |-> ToEOF]}
          BY <3>2, <3>4, StreamIsOneChunk DEF WrittenBy, Probes
        <5> QED
          BY <3>2, <5>1 DEF WrittenBy, Firsts
      <4>2. u = 0 /\ control.done \subseteq DOMAIN control.hashes
        BY <2>1, <2>2, <4>1
      <4> QED
        BY <2>6, <3>1, <4>2 DEF Covered
    <3>5. CASE ~p.single
      <4>1. /\ control.size > 0 /\ control.chunk = Lay.chunk /\ control.splitAt = Lay.splitAt
            /\ control.seg2 = Lay.seg2 /\ control.size = pr.size
        BY <1>4, <3>3 DEF SameLayout
      <4>2. Aligned(lay)
        BY <1>4, <3>2, <4>1 DEF WrittenBy, Aligned
      <4>3. DOMAIN control.hashes[u] = FileSpan(control, p.single, u)
        BY <2>1, <3>2, <4>1, <4>2 DEF WrittenBy
      <4>4. FileSpan(control, p.single, u) = ChunkSpan(u)
        BY <2>4, <3>5, <4>1 DEF FileSpan, ChunkSpan
      <4> QED
        BY <2>1, <4>3, <4>4
    <3> QED
      BY <3>4, <3>5
  <2> QED
    BY <2>5, <2>6
<1>5. HashSpans'
  <2>1. /\ NothingMissing' <=> NothingMissing
        /\ Aligned(Lay)' <=> Aligned(Lay)
        /\ \A u : ChunkSpan(u)' = ChunkSpan(u)
    BY <1>1, SameRun DEF NothingMissing, Aligned, ChunkSpan
  <2> QED
    BY <1>1, <1>4, <2>1 DEF HashSpans
<1> QED
  BY <1>1, <1>3, <1>5, FileKept DEF SavedInv, AsTaken

LEMMA DistrustSaved ==
  ASSUME SavedInv, Distrust
  PROVE  SavedInv'
<1>1. pc' = "checked" /\ done' = {} /\ hashes' = NoBytes /\ UNCHANGED <<control, saver>>
  BY DEF Distrust
<1>2. HashSpans'
  BY <1>1 DEF HashSpans, NoBytes
<1> QED
  BY <1>1, <1>2, FileKept DEF SavedInv, AsTaken, DoneAreChunks

\* A run on which nothing changes but where Start is and what is to be fetched.
LEMMA QuietSaved ==
  ASSUME WholeInv, SavedInv,
         \/ Launch \/ Checkpoint \/ Replace
         \/ \E c \in todo : GiveUp(c) \/ WriteInVain(c)
         \/ UNCHANGED vars
  PROVE  SavedInv'
<1>1. /\ UNCHANGED <<opts, pr, done, hashes, already>>
      /\ pc' = pc \/ (pc = "checked" /\ pc' = "running" /\ ~NothingMissing)
      /\ UNCHANGED <<control, saver>> \/ (pc' = "running" /\ Persist(Snapshot))
      /\ pc' = "running" => pc \in {"checked", "running"}
  BY DEF Launch, Checkpoint, Replace, GiveUp, WriteInVain, vars, memory
<1>2. /\ NothingMissing' <=> NothingMissing
      /\ Aligned(Lay)' <=> Aligned(Lay)
      /\ \A u : ChunkSpan(u)' = ChunkSpan(u)
  BY <1>1, SameRun DEF NothingMissing, Aligned, ChunkSpan
<1>3. HashSpans'
  BY <1>1, <1>2 DEF SavedInv, HashSpans
<1>4. DoneAreChunks'
  BY <1>1, SameRun DEF SavedInv, DoneAreChunks, Drawn
<1>5. FileIsWritten'
  BY <1>1, FileKept, PersistWrites DEF SavedInv, HashSpans
<1>6. AsTaken'
  <2> SUFFICES ASSUME pc' = "opened" PROVE AsTaken'
    BY DEF AsTaken
  <2>1. pc = "opened" /\ UNCHANGED <<control, opts, pr>>
    BY <1>1
  <2>2. TakenOver' = TakenOver
    BY <2>1, SameRun DEF TakenOver, Usable, SameETag, SameLayout, Fits, Accepted
  <2> QED
    BY <1>1, <2>1, <2>2 DEF SavedInv, AsTaken
<1> QED
  BY <1>3, <1>4, <1>5, <1>6 DEF SavedInv

LEMMA FetchSaved ==
  ASSUME WholeInv, SavedInv, NEW c \in todo, FetchChunk(c)
  PROVE  SavedInv'
<1>1. /\ pc = "running" /\ pc' = "running" /\ InFull(c)
      /\ hashes' = [u \in DOMAIN hashes \cup {c.first} |->
                      IF u = c.first THEN Content(Span(c), server.version) ELSE hashes[u]]
      /\ done' = done \cup {c.first}
      /\ UNCHANGED <<control, saver, opts, pr, already>>
  BY DEF FetchChunk
<1>2. Settled(opts) /\ pr \in Probes /\ c \in ChunksOf(Lay)
  BY <1>1 DEF WholeInv, RunTyped, Busy, Drawn
<1>3. DoneAreChunks'
  BY <1>1, <1>2, SameRun DEF SavedInv, DoneAreChunks, Drawn, Firsts
<1>4. /\ NothingMissing' <=> NothingMissing
      /\ Aligned(Lay)' <=> Aligned(Lay)
      /\ \A u : ChunkSpan(u)' = ChunkSpan(u)
  BY <1>1, SameRun DEF NothingMissing, Aligned, ChunkSpan
<1>5. ASSUME pr.size > 0, Aligned(Lay) PROVE Span(c) = ChunkSpan(c.first)
  <2>1. CASE pr.single
    <3>1. c.first = 0 /\ c.last = ToEOF
      BY <1>2, <1>5, <2>1, ChunkFacts
    <3>2. SizeOf[server.version] = pr.size
      BY <1>1, <1>5, <2>1, <1>2 DEF InFull, Whole, Probes
    <3> QED
      BY <2>1, <3>1, <3>2 DEF Span, ChunkSpan
  <2>2. CASE ~pr.single
    <3>1. c.last \in Nat
      BY <1>2, <1>5, <2>2, ChunkFacts
    <3>2. Span(c) = c.first..c.last
      BY <3>1 DEF Span, ToEOF
    <3> QED
      BY <1>2, <1>5, <2>2, <3>2, SpansAreChunks
  <2> QED
    BY <2>1, <2>2
<1>6. HashSpans'
  <2>1. ASSUME pr.size > 0, ~NothingMissing, Aligned(Lay), NEW u \in DOMAIN hashes'
        PROVE  DOMAIN hashes'[u] = ChunkSpan(u)
    <3>1. CASE u = c.first
      BY <1>1, <1>5, <2>1, <3>1 DEF Content
    <3>2. CASE u # c.first
      BY <1>1, <2>1, <3>2 DEF SavedInv, HashSpans
    <3> QED
      BY <3>1, <3>2
  <2> QED
    BY <1>1, <1>4, <2>1 DEF SavedInv, HashSpans
<1> QED
  BY <1>1, <1>3, <1>6, FileKept DEF SavedInv, AsTaken

LEMMA NextSaved == WholeInv /\ SavedInv /\ [Next]_vars => SavedInv'
<1> SUFFICES ASSUME WholeInv, SavedInv, [Next]_vars PROVE SavedInv'
  OBVIOUS
<1>1. CASE Begin \/ Skip \/ EndAtOnce \/ EndComplete \/ Kill \/ ToggleRanges \/ Rot
  <2>1. pc' \notin Drawn /\ (UNCHANGED <<control, saver>> \/ control' = None)
    BY <1>1 DEF Begin, Skip, EndAtOnce, EndComplete, Kill, ToggleRanges, Rot, Drawn
  <2> QED
    BY <2>1, FileKept, OverIsSaved DEF SavedInv
<1>2. CASE EndUnfinished
  <2>1. pc = "running" /\ pc' = "off" /\ Persist(Snapshot)
    BY <1>2 DEF EndUnfinished
  <2> QED
    BY <2>1, PersistWrites, OverIsSaved DEF SavedInv, HashSpans, Drawn
<1>3. CASE Open \/ Verify \/ Distrust
  BY <1>3, OpenSaved, VerifySaved, DistrustSaved
<1>4. CASE \/ Launch \/ Checkpoint \/ Replace
           \/ \E c \in todo : GiveUp(c) \/ WriteInVain(c)
           \/ UNCHANGED vars
  BY <1>4, QuietSaved
<1>5. CASE \E c \in todo : FetchChunk(c)
  BY <1>5, FetchSaved
<1> QED
  BY <1>1, <1>2, <1>3, <1>4, <1>5 DEF Next, StartStep

LEMMA InitSaved == Init => SavedInv
<1> SUFFICES ASSUME Init PROVE SavedInv
  OBVIOUS
<1>1. pc = "off" /\ saver = <<None, None>> /\ \E f \in OldFiles : control = f.control
  BY DEF Init
<1>2. FileIsWritten
  BY <1>1, OldFileAssumption DEF FileIsWritten
<1> QED
  BY <1>1, <1>2 DEF SavedInv, AsTaken, DoneAreChunks, HashSpans, Drawn

\* A single stream has no second region, and a chunk size.
LEMMA StreamIsWhole ==
  ASSUME Settled(opts), pr \in Probes, pr.single
  PROVE  Lay.splitAt = 0 /\ Lay.chunk \in Nat \ {0}
<1>1. ~(-1 >= BothMin) /\ ~(-1 > 0)
  BY ThresholdAssumption
<1> QED
  BY <1>1 DEF Lay, Layout, Settled

\* Only chunks that are done are sampled, each at its first byte.
LEMMA SamplesAreDone ==
  ASSUME NEW u \in Samples
  PROVE  u \in done
BY DEF Samples, Sampled

LEMMA SavedIsTaken == WholeInv /\ SavedInv => SavedIsAccepted
<1> SUFFICES ASSUME WholeInv, SavedInv,
                    pc = "opened", control # None, opts.continue, saver = <<opts, pr>>, pr = Probe,
                    \A c \in Accepted(control) :
                      OnDisk(Span(c)) = Content(Span(c), server.version),
                    \A u \in DOMAIN control.hashes :
                      OnDisk(DOMAIN control.hashes[u]) = control.hashes[u],
                    Lay.splitAt % opts.chunk = 0
             PROVE  done = control.done /\ (already > 0 => HashesAgree(control) /\ SamplesAgree)
  BY DEF SavedIsAccepted
<1>1. Settled(opts) /\ pr \in Probes /\ (pr.size = -1 \/ pr.size > 0)
  BY DEF WholeInv, RunTyped, Busy
<1>2. WrittenBy(control, opts, pr)
  <2>1. pr # None
    BY <1>1, NoneAssumption DEF Probes
  <2> QED
    BY <2>1 DEF SavedInv, FileIsWritten
<1>3. control.done \subseteq Firsts(ChunksOf(Lay)) /\ DOMAIN control.hashes \subseteq control.done
  BY <1>2 DEF WrittenBy, Lay
<1>4. Usable(control)
  <2>1. Fits(control)
    BY <1>1, <1>3, SavedFits
  <2> QED
    BY <1>2, <2>1 DEF Usable, SameETag, SameLayout, WrittenBy, Lay
<1>5. done = control.done
  BY <1>3, <1>4 DEF SavedInv, AsTaken, TakenOver, Accepted, Firsts
<1>6. Trusted = Accepted(control)
  BY <1>5 DEF Trusted, Accepted
<1>7. ASSUME already > 0 PROVE pr.size > 0
  <2> SUFFICES ASSUME pr.size = -1 PROVE FALSE
    BY <1>1
  <2>1. ChunksOf(Lay) = {[first |-> 0, last |-> ToEOF]}
    BY <1>1, StreamIsOneChunk DEF Lay, Probes
  <2>2. \A c \in Trusted : BytesOf(c) = {}
    BY <2>1 DEF Trusted, BytesOf
  <2>3. BytesTrusted(Trusted) = {}
    BY <2>2 DEF BytesTrusted
  <2> QED
    BY <1>7, <2>3, FS_EmptySet DEF WholeInv, Ahead
<1>8. ASSUME already > 0 PROVE HashesAgree(control)
  <2>1. Aligned(Lay)
    <3>1. CASE pr.single
      BY <1>1, <3>1, StreamIsWhole DEF Aligned, Probes
    <3>2. CASE ~pr.single
      <4>1. pr.single = FALSE /\ pr.size \in Nat \ {0}
        BY <1>1, <1>7, <1>8, <3>2 DEF Probes
      <4>2. OneQueue(Lay, pr.size) \/ (TwoQueues(Lay, pr.size) /\ Lay.chunk = opts.chunk)
        BY <1>1, <4>1, LayoutForms DEF Lay
      <4> QED
        BY <4>2 DEF Aligned, OneQueue
    <3> QED
      BY <3>1, <3>2
  <2>2. control.size > 0
    BY <1>2, <1>7, <1>8 DEF WrittenBy
  <2>3. \A u \in DOMAIN control.hashes : DOMAIN control.hashes[u] = FileSpan(control, pr.single, u)
    BY <1>2, <2>1, <2>2 DEF WrittenBy, Lay
  <2>4. \A u : FileSpan(control, pr.single, u) = ChunkSpan(u)
    BY <1>2 DEF WrittenBy, Lay, FileSpan, ChunkSpan
  <2> QED
    BY <2>3, <2>4 DEF HashesAgree, Covered
<1>9. ASSUME already > 0, ~pr.single, NEW u \in Samples
      PROVE  /\ u < SizeOf[server.version] /\ (server.ranges \/ u = 0)
             /\ disk[u] = server.version
  <2>1. pr.single = ~server.ranges /\ pr.size = SizeOf[server.version]
    BY <1>7, <1>9 DEF Probe
  <2>2. PICK c \in Accepted(control) : c.first = u
    <3>1. u \in done
      BY SamplesAreDone
    <3> QED
      BY <1>3, <1>5, <3>1 DEF Accepted, Firsts
  <2>3. c \in ChunksOf(Lay) /\ c.first \in BytesOf(c) /\ c.last \in Nat
    BY <1>1, <1>7, <1>9, <2>2, ChunkFacts DEF Accepted
  <2>4. u \in Span(c) /\ BytesOf(c) \subseteq 0..(pr.size - 1)
    BY <1>1, <1>7, <1>9, <2>2, <2>3, ChunkFacts DEF Span, BytesOf, ToEOF
  <2>5. disk[u] = server.version
    BY <2>2, <2>4 DEF OnDisk, Content
  <2> QED
    BY <1>1, <1>9, <2>1, <2>2, <2>3, <2>4, <2>5 DEF Probes
<1> QED
  BY <1>5, <1>8, <1>9 DEF SamplesAgree

-----------------------------------------------------------------------------
(* One version without ETags.                                               *)

\* Every chunk can be sampled.
InSample == Cardinality(ChunksOf(Lay)) <= SampleChunks

\* What is done is of one version, of a ranged download the one that was sampled.
DoneIsSampled ==
  pc \in {"checked", "running"} /\ pr.size > 0 /\ ~blind /\ Guarded /\ InSample =>
    \E v \in Versions : /\ ~pr.single /\ ~drifted => v = server.version
                        /\ \A c \in Trusted : \A u \in BytesOf(c) : disk[u] = v

EndsSampled ==
  pc = "completed" /\ pr.size > 0 /\ ~blind /\ Guarded /\ InSample =>
    \E v \in Versions : \A u \in 0..(pr.size - 1) : disk[u] = v

PlainInv == ~server.etags /\ DoneIsSampled /\ EndsSampled

\* If there are enough samples, each chunk that is done is one.
LEMMA AllSampled ==
  ASSUME Settled(opts), pr \in Probes, pr.size > 0, InSample, NEW c \in Trusted
  PROVE  c.first \in Samples
<1>1. c \in ChunksOf(Lay) /\ c.first \in done
  BY DEF Trusted
<1>2. PICK i \in DOMAIN Lay.regions : c \in Range(Lay.regions[i])
  BY <1>1 DEF ChunksOf
<1> DEFINE region == Lay.regions[i]
           firsts == done \cap {region[j].first : j \in DOMAIN region}
           all == Cardinality(firsts)
           before(u) == Cardinality({x \in firsts : x < u})
<1>3. c.first \in firsts
  BY <1>1, <1>2 DEF Range
<1>4. IsFiniteSet(firsts) /\ all \in Nat /\ all <= SampleChunks
  <2> DEFINE C == ChunksOf(Lay)
             F == {d.first : d \in C}
             f == [d \in C |-> d.first]
  <2>1. IsFiniteSet(C) /\ Cardinality(C) <= SampleChunks
    BY ChunkFacts DEF InSample
  <2>2. f \in Surjection(C, F)
    BY DEF Surjection
  <2>3. firsts \subseteq F
    <3>1. \A j \in DOMAIN region : region[j] \in C
      BY DEF ChunksOf, Range
    <3> QED
      BY <3>1
  <2> HIDE DEF C, F, f, firsts
  <2>4. IsFiniteSet(F) /\ Cardinality(F) <= Cardinality(C)
    BY <2>1, <2>2, FS_Surjection
  <2>5. IsFiniteSet(firsts) /\ Cardinality(firsts) <= Cardinality(F)
    BY <2>3, <2>4, FS_Subset
  <2> QED
    BY <2>1, <2>4, <2>5, FS_CardinalityType, SizeAssumption
<1>5. \A n \in Int, m \in Int : before(c.first) < n \/ before(c.first) >= m \/ m > n
  <2> DEFINE B == {x \in firsts : x < c.first}
  <2>1. B \subseteq firsts
    OBVIOUS
  <2> HIDE DEF firsts, B
  <2>2. Cardinality(B) \in Nat
    BY <1>4, <2>1, FS_Subset, FS_CardinalityType
  <2> QED
    BY <2>2 DEF B
<1> DEFINE static == i = 2 \/ opts.profile = "aria2c"
           n == Lower(SampleChunks, all)
           front == IF static THEN n ELSE CeilDiv(n, 2)
<1>6. Sampled(region, static) =
        {u \in firsts : before(u) < front \/ before(u) >= all - (n - front)}
  BY DEF Sampled
<1>7. n = all /\ front \in Int
  BY <1>4, SizeAssumption DEF Lower, CeilDiv
<1>8. all - (n - front) = front
  <2> HIDE DEF front, n, all
  <2> QED
    BY <1>4, <1>7
<1>9. c.first \in Sampled(region, static)
  <2> HIDE DEF front, n, all, firsts, before
  <2> QED
    BY <1>3, <1>5, <1>6, <1>7, <1>8
<1> QED
  BY <1>2, <1>9 DEF Samples

\* Nothing is claimed of a run that is over, unless it is complete.
LEMMA OverIsPlain ==
  ASSUME pc' \notin {"checked", "running", "completed"}, ~server'.etags
  PROVE  PlainInv'
BY DEF PlainInv, DoneIsSampled, EndsSampled

LEMMA VerifyPlain ==
  ASSUME WholeInv, PlainInv, Verify
  PROVE  PlainInv'
<1>1. /\ pc = "opened" /\ pc' = "checked"
      /\ UNCHANGED <<server, disk, opts, pr, done, pin, blind, drifted>>
      /\ already > 0 => SamplesAgree
  BY DEF Verify, memory
<1>2. Settled(opts) /\ pr \in Probes /\ server.version \in Versions
  BY <1>1 DEF WholeInv, RunTyped, Busy
<1>3. ASSUME pr.size > 0, ~blind, InSample
      PROVE  \E v \in Versions : /\ ~pr.single => v = server.version
                                 /\ \A c \in Trusted : \A u \in BytesOf(c) : disk[u] = v
  <2>1. ASSUME NEW c \in Trusted
        PROVE  \E v \in Versions : /\ ~pr.single => v = server.version
                                   /\ \A u \in BytesOf(c) : disk[u] = v
    <3>1. c \in ChunksOf(Lay) /\ c.first \in BytesOf(c)
      BY <1>2, <1>3, ChunkFacts DEF Trusted
    <3>2. /\ control # None /\ c.first \in DOMAIN control.hashes
          /\ \A u \in BytesOf(c) : /\ u \in DOMAIN control.hashes[c.first]
                                   /\ disk[u] = control.hashes[c.first][u]
      BY <1>3, <3>1, HashVouches
    <3>3. PICK v \in Versions : \A u \in BytesOf(c) : disk[u] = v
      BY <3>2 DEF WholeInv, HashesSound, Sound
    <3>4. ASSUME ~pr.single PROVE v = server.version
      <4>1. SamplesAgree
        BY <1>1, <1>3, TrustedCounts
      <4>2. c.first \in Samples
        BY <1>2, <1>3, AllSampled
      <4> QED
        BY <3>1, <3>3, <3>4, <4>1, <4>2 DEF SamplesAgree
    <3> QED
      BY <3>3, <3>4
  <2>2. CASE ~pr.single
    BY <1>2, <2>1, <2>2
  <2>3. CASE pr.single
    <3>1. ChunksOf(Lay) = {[first |-> 0, last |-> ToEOF]}
      BY <1>2, <2>3, StreamIsOneChunk DEF Lay, Probes
    <3>2. \A c, d \in Trusted : c = d
      BY <3>1 DEF Trusted
    <3> QED
      BY <1>2, <2>1, <2>3, <3>2
  <2> QED
    BY <2>2, <2>3
<1>4. Guarded' <=> Guarded
  BY <1>1 DEF Guarded
<1>5. DoneIsSampled'
  BY <1>1, <1>3, <1>4, SameRun DEF DoneIsSampled, InSample
<1> QED
  BY <1>1, <1>5 DEF PlainInv, EndsSampled

LEMMA DistrustPlain ==
  ASSUME WholeInv, PlainInv, Distrust
  PROVE  PlainInv'
<1>1. /\ pc = "opened" /\ pc' = "checked" /\ done' = {} /\ UNCHANGED <<server, opts, pr>>
  BY DEF Distrust
<1>2. Trusted' = {} /\ server.version \in Versions
  BY <1>1 DEF Trusted, WholeInv, RunTyped
<1>3. DoneIsSampled'
  BY <1>1, <1>2 DEF DoneIsSampled
<1> QED
  BY <1>1, <1>3 DEF PlainInv, EndsSampled

\* Launch, checkpoints, chunks given up, and a file replaced.
LEMMA QuietPlain ==
  ASSUME WholeInv, PlainInv,
         Launch \/ Checkpoint \/ Replace \/ (\E c \in todo : GiveUp(c)) \/ UNCHANGED vars
  PROVE  PlainInv'
<1>1. /\ UNCHANGED <<disk, opts, pr, done, pin, blind>> /\ server'.etags = server.etags
      /\ pc' = pc \/ (pc = "checked" /\ pc' = "running")
      /\ \/ UNCHANGED <<server, drifted>>
         \/ drifted' = (pc \in {"probed", "opened", "checked", "running"} \/ drifted)
  BY DEF Launch, Checkpoint, Replace, GiveUp, vars, memory, WholeInv, RunTyped
<1>2. Guarded' => Guarded
  BY <1>1 DEF Guarded
<1>3. DoneIsSampled'
  <2> SUFFICES ASSUME pc' \in {"checked", "running"}, pr.size > 0, ~blind, Guarded', InSample
               PROVE  \E v \in Versions : /\ ~pr.single /\ ~drifted' => v = server'.version
                                          /\ \A c \in Trusted : \A u \in BytesOf(c) : disk[u] = v
    BY <1>1, SameRun DEF DoneIsSampled, InSample
  <2>1. PICK v \in Versions : /\ ~pr.single /\ ~drifted => v = server.version
                              /\ \A c \in Trusted : \A u \in BytesOf(c) : disk[u] = v
    BY <1>1, <1>2 DEF PlainInv, DoneIsSampled
  <2>2. ~drifted' => ~drifted /\ server' = server
    BY <1>1
  <2> QED
    BY <2>1, <2>2
<1>4. EndsSampled'
  BY <1>1, <1>2, SameRun DEF PlainInv, EndsSampled, InSample
<1> QED
  BY <1>1, <1>3, <1>4 DEF PlainInv

\* A range is answered only if the file was not replaced, unless If-Range tells.
LEMMA AnsweredIsPlain ==
  ASSUME WholeInv, PlainInv, pc = "running", NEW c \in todo, Answered(c), pr.size > 0, Guarded,
         ~pr.single
  PROVE  ~drifted
<1>1. pr \in Probes
  BY AttemptWithin
<1>2. pin = NoETag
  BY <1>1 DEF Answered, Whole, ServedETag, PlainInv, Probes
<1> QED
  BY <1>2 DEF Guarded

LEMMA FetchPlain ==
  ASSUME WholeInv, PlainInv, NEW c \in todo, FetchChunk(c)
  PROVE  PlainInv'
<1> DEFINE v == server.version
<1>1. /\ pc = "running" /\ pc' = "running" /\ Answered(c) /\ InFull(c)
      /\ disk' = Written(disk, Span(c), v) /\ done' = done \cup {c.first}
      /\ UNCHANGED <<server, opts, pr, pin, blind, drifted>>
  BY DEF FetchChunk
<1>2. v \in Versions
  BY DEF WholeInv, RunTyped
<1> SUFFICES ASSUME pr.size > 0, ~blind, Guarded, InSample
             PROVE  \A d \in Trusted' : \A u \in BytesOf(d) : disk'[u] = v
  <2>1. Guarded' <=> Guarded
    BY <1>1 DEF Guarded
  <2> QED
    BY <1>1, <1>2, <2>1, SameRun DEF PlainInv, DoneIsSampled, EndsSampled, InSample
<1>3. Settled(opts) /\ pr \in Probes /\ Span(c) = BytesOf(c) /\ c \in ChunksOf(Lay)
  BY <1>1, AttemptWithin
<1>4. /\ \A u \in Span(c) : disk'[u] = v
      /\ \A u \in DOMAIN disk : u \notin Span(c) => disk'[u] = disk[u]
  BY <1>1 DEF Written
<1>5. Trusted' \subseteq Trusted \cup {c}
  <2>1. Trusted' = {d \in ChunksOf(Lay) : d.first \in done \/ d.first = c.first}
    BY <1>1, SameRun DEF Trusted
  <2>2. ASSUME NEW d \in ChunksOf(Lay), d.first = c.first PROVE d = c
    <3>1. d.first \in BytesOf(d) /\ c.first \in BytesOf(c)
      BY <1>3, ChunkFacts
    <3> QED
      BY <1>3, <2>2, <3>1, ChunkFacts
  <2> QED
    BY <2>1, <2>2 DEF Trusted
<1>6. CASE pr.single
  BY <1>1, <1>3, <1>4, <1>5, <1>6, StreamAlone
<1>7. CASE ~pr.single
  <2>1. \A d \in Trusted : \A u \in BytesOf(d) : disk[u] = v
    BY <1>1, <1>7, AnsweredIsPlain DEF PlainInv, DoneIsSampled
  <2>2. ASSUME NEW d \in Trusted, NEW u \in BytesOf(d) PROVE disk'[u] = v
    <3>1. d \in ChunksOf(Lay)
      BY DEF Trusted
    <3>2. u \in DOMAIN disk
      BY <1>1, <1>3, <3>1, ChunkFacts DEF WholeInv, Extent, Drawn
    <3> QED
      BY <1>4, <2>1, <3>2
  <2> QED
    BY <1>3, <1>4, <1>5, <2>2
<1> QED
  BY <1>6, <1>7

LEMMA VainPlain ==
  ASSUME WholeInv, PlainInv, NEW c \in todo, WriteInVain(c)
  PROVE  PlainInv'
<1> DEFINE v == server.version
<1>1. /\ pc = "running" /\ pc' = "running" /\ Answered(c)
      /\ UNCHANGED <<server, opts, pr, done, pin, blind, drifted>>
  BY DEF WriteInVain, memory
<1>2. PICK n \in Span(c) : disk' = Written(disk, c.first..n, v)
  BY DEF WriteInVain
<1>3. v \in Versions
  BY DEF WholeInv, RunTyped
<1> SUFFICES ASSUME pr.size > 0, ~blind, Guarded, InSample
             PROVE  \A d \in Trusted : \A u \in BytesOf(d) : disk'[u] = v
  <2>1. Guarded' <=> Guarded
    BY <1>1 DEF Guarded
  <2> QED
    BY <1>1, <1>3, <2>1, SameRun DEF PlainInv, DoneIsSampled, EndsSampled, InSample
<1>4. CASE pr.single
  BY <1>1, <1>4, StreamAlone
<1>5. CASE ~pr.single
  <2>1. \A d \in Trusted : \A u \in BytesOf(d) : disk[u] = v
    BY <1>1, <1>5, AnsweredIsPlain DEF PlainInv, DoneIsSampled
  <2> SUFFICES ASSUME NEW d \in Trusted, NEW u \in BytesOf(d) PROVE disk'[u] = v
    OBVIOUS
  <2>2. d \in ChunksOf(Lay) /\ Settled(opts) /\ pr \in Probes
    BY <1>1, AttemptWithin DEF Trusted
  <2>3. u \in DOMAIN disk
    BY <1>1, <2>2, ChunkFacts DEF WholeInv, Extent, Drawn
  <2> QED
    BY <1>2, <2>1, <2>3 DEF Written
<1> QED
  BY <1>4, <1>5

LEMMA EndPlain ==
  ASSUME WholeInv, PlainInv, EndAtOnce \/ EndComplete
  PROVE  PlainInv'
<1>1. /\ pc \in {"checked", "running"} /\ pc' = "completed"
      /\ UNCHANGED <<server, disk, opts, pr, pin, blind, drifted>>
  BY DEF EndAtOnce, EndComplete, memory
<1>2. Settled(opts) /\ pr \in Probes
  BY <1>1 DEF WholeInv, RunTyped, Busy
<1> SUFFICES ASSUME pr.size > 0, ~blind, Guarded, InSample
             PROVE  \E v \in Versions : \A u \in 0..(pr.size - 1) : disk[u] = v
  <2>1. Guarded' <=> Guarded
    BY <1>1 DEF Guarded
  <2> QED
    BY <1>1, <2>1, SameRun DEF PlainInv, DoneIsSampled, EndsSampled, InSample
<1>3. \A u \in 0..(pr.size - 1) : \E c \in Trusted : u \in BytesOf(c)
  <2>1. CASE EndAtOnce
    <3>1. Trusted \subseteq ChunksOf(Lay) /\ Cardinality(BytesTrusted(Trusted)) >= pr.size
      BY <2>1 DEF EndAtOnce, NothingMissing, WholeInv, Ahead, Trusted
    <3> QED
      BY <1>2, <3>1, EnoughIsAll
  <2>2. CASE EndComplete
    <3>1. ChunksOf(Lay) \subseteq Trusted
      BY <2>2 DEF EndComplete, WholeInv, NoneMissed
    <3> QED
      BY <1>2, <3>1, ChunkFacts
  <2> QED
    BY <2>1, <2>2
<1>4. PICK v \in Versions : \A c \in Trusted : \A u \in BytesOf(c) : disk[u] = v
  BY <1>1 DEF PlainInv, DoneIsSampled
<1> QED
  BY <1>3, <1>4

LEMMA NextPlain == WholeInv /\ PlainInv /\ [Next]_vars => PlainInv'
<1> SUFFICES ASSUME WholeInv, PlainInv, [Next]_vars PROVE PlainInv'
  OBVIOUS
<1>1. CASE Begin \/ Skip \/ Open \/ EndUnfinished \/ Kill \/ ToggleRanges \/ Rot
  <2>1. pc' \notin {"checked", "running", "completed"}
    BY <1>1 DEF Begin, Skip, Open, EndUnfinished, Kill, ToggleRanges, Rot
  <2>2. ~server'.etags
    BY SameServer DEF PlainInv
  <2> QED
    BY <2>1, <2>2, OverIsPlain
<1>2. CASE Verify \/ Distrust \/ EndAtOnce \/ EndComplete
  BY <1>2, VerifyPlain, DistrustPlain, EndPlain
<1>3. CASE Launch \/ Checkpoint \/ Replace \/ (\E c \in todo : GiveUp(c)) \/ UNCHANGED vars
  BY <1>3, QuietPlain
<1>4. CASE \E c \in todo : FetchChunk(c) \/ WriteInVain(c)
  BY <1>4, FetchPlain, VainPlain
<1> QED
  BY <1>1, <1>2, <1>3, <1>4 DEF Next, StartStep

LEMMA InitPlain == Init /\ ~server.etags => PlainInv
BY DEF Init, PlainInv, DoneIsSampled, EndsSampled

-----------------------------------------------------------------------------
(* The theorems.                                                            *)

\* Whatever is killed, rots or is replaced, in however many runs with whatever
\* options: a file that Start calls complete has every byte, and every byte came
\* from the server, unless chunks were trusted that no hash vouches for
\* (task_start.go:299-348, resume_impl.go:144-175).
THEOREM CompleteMeansWhole == Spec => []CompleteIsWhole
<1>1. WholeInv => CompleteIsWhole
  BY DEF WholeInv
<1> QED
  BY <1>1, WholeAlways, PTL

\* A file that Start calls complete is one version of the server's file, however often
\* it was replaced and whatever was resumed, if the server sends ETags or every chunk
\* can be sampled: unless it was replaced during a run that sent no If-Range, or chunks
\* were trusted that no hash vouches for (task_start.go:243-290, task_io.go:289-324,
\* resume_impl.go:60-107).
THEOREM CompleteIsOneVersion == Spec => []OneVersion
<1> DEFINE Inv == WholeInv /\ (server.etags => OneInv) /\ (~server.etags => PlainInv)
<1>1. Init => Inv
  BY InitWhole, InitOne, InitPlain
<1>2. Inv /\ [Next]_vars => Inv'
  <2> SUFFICES ASSUME Inv, [Next]_vars PROVE Inv'
    OBVIOUS
  <2>1. WholeInv'
    BY NextWhole
  <2>2. ASSUME server'.etags PROVE OneInv'
    BY <2>2, SameServer, NextOne
  <2>3. ASSUME ~server'.etags PROVE PlainInv'
    BY <2>3, SameServer, NextPlain
  <2> QED
    BY <2>1, <2>2, <2>3
<1>3. Inv => OneVersion
  BY DEF OneInv, PlainInv, EndsAsOne, EndsSampled, InSample, Guarded, OneVersion
<1> QED
  BY <1>1, <1>2, <1>3, PTL DEF Spec

\* What one run saves the next one with the same options accepts, whatever the profile,
\* the length of the file and the moment the first one was stopped at, if the server
\* and the copy are unchanged (resume_impl.go:274-323, task_start.go:248-290).
THEOREM SavesAreAccepted == Spec => []SavedIsAccepted
<1> DEFINE Inv == WholeInv /\ SavedInv
<1>1. Init => Inv
  BY InitWhole, InitSaved
<1>2. Inv /\ [Next]_vars => Inv'
  BY NextWhole, NextSaved
<1>3. Inv => SavedIsAccepted
  BY SavedIsTaken
<1> QED
  BY <1>1, <1>2, <1>3, PTL DEF Spec

\* The chunks of every profile, chunk size and number of connections are a
\* partition of the file, whatever its length (chunkqueue.go:40-69,
\* engine.go:88-136, task_start.go:177-232).
THEOREM LayoutsPartition == Spec => []LayoutPartitions
<1>1. WholeInv => LayoutPartitions
  <2> SUFFICES ASSUME WholeInv, pc = "opened", ~pr.single, pr.size > 0
               PROVE  /\ \A u \in 0..(pr.size - 1) :
                           Cardinality({c \in ChunksOf(Lay) : u \in c.first..c.last}) = 1
                      /\ \A c \in ChunksOf(Lay) : 0 <= c.first /\ c.last < pr.size
    BY DEF LayoutPartitions
  <2>1. Settled(opts) /\ pr \in Probes
    BY DEF WholeInv, RunTyped, Busy
  <2>2. /\ pr.single = FALSE /\ pr.size \in Nat \ {0}
    BY <2>1 DEF Probes
  <2>3. Tiles(ChunksOf(Lay), 0, pr.size)
    BY <2>1, <2>2, LayoutTiles DEF Lay
  <2>4. ASSUME NEW u \in 0..(pr.size - 1)
        PROVE  Cardinality({c \in ChunksOf(Lay) : u \in c.first..c.last}) = 1
    <3>1. PICK d \in ChunksOf(Lay) : d.first <= u /\ u <= d.last
      BY <2>3 DEF Tiles
    <3>2. \A c \in ChunksOf(Lay) : c.first \in Nat /\ c.last \in Nat
      BY <2>3 DEF Tiles
    <3>3. \A c \in ChunksOf(Lay) : u \in c.first..c.last <=> c.first <= u /\ u <= c.last
      BY <2>2, <3>2
    <3>4. {c \in ChunksOf(Lay) : u \in c.first..c.last} = {d}
      BY <2>3, <3>1, <3>3 DEF Tiles
    <3> QED
      BY <3>4, FS_Singleton
  <2>5. \A c \in ChunksOf(Lay) : 0 <= c.first /\ c.last < pr.size
    BY <2>3 DEF Tiles
  <2> QED
    BY <2>4, <2>5
<1> QED
  BY <1>1, WholeAlways, PTL
=============================================================================
