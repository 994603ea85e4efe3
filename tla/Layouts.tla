------------------------------ MODULE Layouts ------------------------------
(***************************************************************************)
(* How ODM cuts a file into chunks (download/engine.go, chunkqueue.go,     *)
(* smart.go and the layout part of Start in task_start.go): pure           *)
(* functions.  A chunk is the interval of its byte offsets in the file;    *)
(* offsets of the second region are absolute.                              *)
(*                                                                         *)
(* Operators whose name ends in Mut are faulty variants of the operator    *)
(* that follows them.  They are used nowhere here.                         *)
(***************************************************************************)
EXTENDS Integers, Sequences

CONSTANTS
  SmallFile,   \* 8 MiB: smart does not split smaller files
  LargeFile,   \* 256 MiB: from here on smart takes both engines
  BothMin      \* 4 MiB: the both profile does not split smaller files

ASSUME ThresholdAssumption ==
  /\ SmallFile \in Nat \ {0} /\ LargeFile \in Nat \ {0} /\ BothMin \in Nat \ {0, 1}

Lower(a, b)  == IF a < b THEN a ELSE b
Higher(a, b) == IF a < b THEN b ELSE a

\* The end of a chunk that reaches to the end of the stream.
ToEOF == -1

CeilDiv(a, b) == (a + b - 1) \div b

\* Mutant of Cut: the last, short chunk is missing.
CutMut(size, seg, base) ==
  [i \in 1..(size \div seg) |->
     [first |-> base + (i - 1) * seg, last |-> base + Lower(i * seg, size) - 1]]

\* Pieces of seg bytes from base on, the last one possibly shorter.
Cut(size, seg, base) ==
  [i \in 1..CeilDiv(size, seg) |->
     [first |-> base + (i - 1) * seg, last |-> base + Lower(i * seg, size) - 1]]

\* The work-stealing queue; a stream of unknown size is a single chunk.
NewChunkQueue(size, chunk) ==
  IF size < 0 THEN << [first |-> 0, last |-> ToEOF] >> ELSE Cut(size, chunk, 0)

\* The static queue of n segments.
NewStaticQueue(size, n, base) == Cut(size, CeilDiv(size, n), base)

\* How many segments, and how long: a range is split only if it is at least
\* 2 * minSplit long.
AriaSplit(size, split, minSplit) ==
  IF size <= 0 \/ split < 1
  THEN [n |-> 1, seg |-> size]
  ELSE LET most == size \div (2 * Higher(minSplit, 1))
           n    == IF most >= 1 THEN Lower(split, most) ELSE split
       IN [n |-> n, seg |-> CeilDiv(size, n)]

\* The engine of the smart profile.
ChooseProfile(pr, conns, h2) ==
  CASE pr.single \/ pr.size <= 0 \/ pr.size < SmallFile -> "odm"
    [] ~h2 \/ conns <= 2                               -> "odm"
    [] pr.size >= LargeFile /\ conns >= 6              -> "both"
    [] OTHER                                           -> "aria2c"

(* The layout of a file with probe pr (its size, -1 if unknown, and whether  *)
(* it must be fetched as a single stream) under the options o: the regions   *)
(* with their chunks, and what the control file records of it (chunk size,   *)
(* region boundary, segment size of the second region).                     *)
Layout(o, pr) ==
  LET qs   == IF pr.single THEN -1 ELSE pr.size
      mid  == Higher(qs \div 2, 1)
      aria == AriaSplit(qs, o.split, o.minSplit)
      far  == AriaSplit(qs - mid, o.split, o.minSplit)
      both == o.profile = "both" /\ qs >= BothMin /\ o.conns >= 2
  IN CASE both ->
            [regions |-> << NewChunkQueue(mid, o.chunk), NewStaticQueue(qs - mid, far.n, mid) >>,
             chunk   |-> o.chunk, splitAt |-> mid, seg2 |-> far.seg]
       [] o.profile = "aria2c" /\ qs > 0 ->
            [regions |-> << NewStaticQueue(qs, aria.n, 0) >>,
             chunk   |-> aria.seg, splitAt |-> 0, seg2 |-> 0]
       [] OTHER ->
            [regions |-> << NewChunkQueue(qs, o.chunk) >>,
             chunk   |-> o.chunk, splitAt |-> 0, seg2 |-> 0]
=============================================================================
