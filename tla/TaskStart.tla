------------------------------ MODULE TaskStart ------------------------------
(***************************************************************************)
(* One destination file of ODM over several runs of the program            *)
(* (Task.Start in download/task_start.go, resume_impl.go, storage/): the   *)
(* probe, the collision policy, the control file of an earlier run and     *)
(* what of it is trusted, the integrity checks, the download of what is    *)
(* missing, and the end.  Between any two steps the process may be killed  *)
(* and the server may replace the file; between runs the local copy may    *)
(* rot, the server may lose or gain support for ranges, and the user may   *)
(* choose other options.                                                   *)
(*                                                                         *)
(* The workers are those of Download: a chunk is fetched by one response   *)
(* and done at once, or some of it is written in vain (WorkerPool shows    *)
(* what goes on inside).  A byte on disk is the version of the server's    *)
(* file it came from; a hash is the bytes it is the hash of.  With         *)
(* --auto-rename a run that finds the file goes elsewhere: it is not a     *)
(* run on this destination.                                                *)
(*                                                                         *)
(* Operators whose name ends in Mut are faulty variants of the operator    *)
(* that follows them.  They are used nowhere here.                         *)
(***************************************************************************)
EXTENDS Layouts, SequencesExt, FiniteSetsExt

CONSTANTS
  SizeOf,       \* the size of each version of the file on the server
  Servers,      \* servers: whether it sends ETags, a length, supports ranges
  RunOptions,   \* the options a run may be started with
  SampleChunks, \* resumeVerifyChunks
  OldFiles,     \* what an older release may have left: disk and control file
  None,         \* no control file, no run
  MaxRuns,      \* bound: runs of the program
  MaxRot        \* bound: bytes that rot

Versions == DOMAIN SizeOf

\* A byte nobody has written, and one that rotted.
Blank == 0
Rotten == -1

NoETag == 0

ASSUME SizeAssumption ==
  /\ SizeOf \in Seq(Nat \ {0}) /\ SizeOf # <<>>
  /\ SampleChunks \in Nat \ {0} /\ MaxRuns \in Nat /\ MaxRot \in Nat

\* Validate lets through only options like these.
ASSUME OptionAssumption ==
  \A o \in RunOptions :
    /\ o.profile \in {"odm", "aria2c", "both", "smart"}
    /\ o.chunk \in Nat \ {0} /\ o.split \in Nat \ {0} /\ o.minSplit \in Nat \ {0}
    /\ o.conns \in Nat \ {0} /\ o.continue \in BOOLEAN /\ o.skip \in BOOLEAN

\* No control file and no run are not mistaken for one.
ASSUME NoneAssumption == None \notin [etag : Nat, single : BOOLEAN, size : Int]

ASSUME ServerAssumption ==
  Servers \subseteq [version : Versions, etags : BOOLEAN, sized : BOOLEAN, ranges : BOOLEAN]

VARIABLES
  server,    \* which version it serves, and whether it sends ETags, a length, ranges
  disk,      \* the destination: the bytes, from offset 0
  control,   \* the control file
  saver,     \* options and probe of the run that wrote it (history)
  pc,        \* where Start is
  opts, pr,  \* the options and the probe of this run
  done,      \* the offsets of the chunks that are completed
  todo,      \* the chunks in the queues or in hand
  hashes,    \* t.chunkHashes
  already,   \* alreadyDone: the bytes trusted on resume
  pin,       \* t.resumeETag
  errored,   \* t.errors is not 0
  blind,     \* chunks were trusted without a hash (history)
  drifted,   \* the file was replaced since the probe (history)
  runs, rot

memory == <<opts, pr, done, todo, hashes, already, pin, errored, blind, drifted>>
vars   == <<server, disk, control, saver, pc, memory, runs, rot>>

NoBytes == [u \in {} |-> Blank]

\* An older release kept no hashes.
ASSUME OldFileAssumption == \A f \in OldFiles : f.control # None => f.control.hashes = NoBytes

-----------------------------------------------------------------------------
(* Files.                                                                    *)

Length(bytes) == Cardinality(DOMAIN bytes)

\* Mutant of Truncated: the file is only ever extended.
TruncatedMut(bytes, n) ==
  [u \in 0..(Max({n, Length(bytes)}) - 1) |-> IF u \in DOMAIN bytes THEN bytes[u] ELSE Blank]

\* ftruncate to n bytes.
Truncated(bytes, n) == [u \in 0..(n - 1) |-> IF u \in DOMAIN bytes THEN bytes[u] ELSE Blank]

\* WriteAt: version v at the offsets U.
Written(bytes, U, v) ==
  [u \in DOMAIN bytes \cup U |-> IF u \in U THEN v ELSE bytes[u]]

Content(U, v) == [u \in U |-> v]

\* What a reader finds at the offsets U of the destination.
OnDisk(U) == [u \in U \cap DOMAIN disk |-> disk[u]]

-----------------------------------------------------------------------------
(* The server and its probe.                                                 *)

ServedETag == IF server.etags THEN server.version ELSE NoETag

Probe ==
  [etag |-> ServedETag, single |-> ~server.ranges,
   size |-> IF server.sized THEN SizeOf[server.version] ELSE -1]

-----------------------------------------------------------------------------
(* The layout of this run.                                                   *)

Lay == Layout(opts, pr)

ChunksOf(layout) == UNION {Range(layout.regions[i]) : i \in DOMAIN layout.regions}

\* The offsets of a chunk; a stream to the end has those of the current version.
Span(c) == c.first..(IF c.last = ToEOF THEN SizeOf[server.version] - 1 ELSE c.last)

\* chunkBytes: the bytes a trusted chunk adds to alreadyDone, which counts them
\* chunk by chunk.
BytesOf(c) == IF c.last # ToEOF THEN c.first..c.last ELSE 0..(pr.size - 1)

BytesTrusted(chunks) == UNION {{c} \X BytesOf(c) : c \in chunks}

\* The control file persistControl writes.
Snapshot ==
  [etag |-> pr.etag, size |-> pr.size, profile |-> opts.profile,
   chunk |-> Lay.chunk, splitAt |-> Lay.splitAt, seg2 |-> Lay.seg2,
   done |-> done, hashes |-> Restrict(hashes, done \cap DOMAIN hashes)]

\* Writing it may fail (a full disk): then the old one stays.
Persist(cf) == \/ control' = cf /\ saver' = <<opts, pr>>
               \/ UNCHANGED <<control, saver>>

-----------------------------------------------------------------------------
(* What of a control file is trusted.                                        *)

\* The server is not known to have replaced the file.
SameETag(cf) == cf.etag = NoETag \/ pr.etag = NoETag \/ cf.etag = pr.etag

\* The chunks have the same boundaries.
SameLayout(cf) ==
  /\ cf.size = pr.size /\ cf.chunk = Lay.chunk /\ cf.profile \in {"", opts.profile}
  /\ cf.splitAt = Lay.splitAt /\ cf.seg2 = Lay.seg2

\* ResetCompletedOffsets of the first queue: a work-stealing one refuses more
\* offsets than it has chunks.  The code then trusts nothing of the first region
\* but keeps what the second queue has accepted (task_start.go:269-279); here
\* nothing is trusted.  No control file that a run saves comes to that (lemma
\* SavedFits of TaskStart_proofs).
Fits(cf) ==
  \/ opts.profile = "aria2c" /\ ~pr.single /\ pr.size > 0
  \/ Cardinality({u \in cf.done : Lay.splitAt = 0 \/ u < Lay.splitAt}) <= Len(Lay.regions[1])

Usable(cf) == cf # None /\ opts.continue /\ SameETag(cf) /\ SameLayout(cf) /\ Fits(cf)

Accepted(cf) == {c \in ChunksOf(Lay) : c.first \in cf.done}

Firsts(chunks) == {c.first : c \in chunks}

-----------------------------------------------------------------------------
(* The checks of a resumed download.                                         *)

\* Mutant of ChunkSpan: every chunk has the size of the first region's.
ChunkSpanMut(u) == u..(Min({u + opts.chunk, pr.size}) - 1)

\* The offsets chunkSpan takes the chunk at u to have.
ChunkSpan(u) ==
  IF pr.single THEN 0..(pr.size - 1)
  ELSE LET size == IF Lay.splitAt > 0 /\ u >= Lay.splitAt THEN Lay.seg2 ELSE Lay.chunk
       IN u..(Min({u + size, pr.size}) - 1)

\* hasFullHashCoverage.
Covered(cf) == cf.hashes # NoBytes /\ cf.done \subseteq DOMAIN cf.hashes

HashesAgree(cf) == Covered(cf) => \A u \in cf.done : OnDisk(ChunkSpan(u)) = cf.hashes[u]

\* CompletedSpans: up to SampleChunks chunks, of a static queue the first ones,
\* of the other the first and the last ones.
Sampled(region, static) ==
  LET firsts == done \cap {region[i].first : i \in DOMAIN region}
      all    == Cardinality(firsts)
      n      == Lower(SampleChunks, all)
      front  == IF static THEN n ELSE CeilDiv(n, 2)
      before(u) == Cardinality({x \in firsts : x < u})
  IN {u \in firsts : before(u) < front \/ before(u) >= all - (n - front)}

Samples ==
  UNION {Sampled(Lay.regions[i], i = 2 \/ opts.profile = "aria2c") : i \in DOMAIN Lay.regions}

\* verifyResumedChunks: the beginning of each sample against the server's file.
SamplesAgree ==
  ~pr.single =>
    \A u \in Samples : /\ u < SizeOf[server.version] /\ (server.ranges \/ u = 0)
                       /\ disk[u] = server.version

-----------------------------------------------------------------------------
(* Start.                                                                    *)

NothingTrusted == /\ done' = {} /\ todo' = {} /\ hashes' = NoBytes /\ already' = 0
                  /\ pin' = NoETag /\ errored' = FALSE /\ blind' = FALSE /\ drifted' = FALSE

Forget == opts' = None /\ pr' = None /\ NothingTrusted

\* A run begins with the probe; smart settles on an engine.
Begin ==
  /\ pc \in {"off", "completed", "skipped"} /\ runs < MaxRuns
  /\ runs' = runs + 1 /\ pc' = "probed"
  /\ pr' = Probe
  /\ \E o \in RunOptions, h2 \in BOOLEAN :
       opts' = IF o.profile = "smart" THEN [o EXCEPT !.profile = ChooseProfile(Probe, o.conns, h2)]
               ELSE o
  /\ NothingTrusted
  /\ UNCHANGED <<server, disk, control, saver, rot>>

\* A control file that can be read keeps the collision policy away.
Resumable == opts.continue /\ control # None

PresentInFull == pr.size > 0 /\ Length(disk) = pr.size

\* --skip-existing.
Skip ==
  /\ pc = "probed" /\ ~Resumable /\ opts.skip /\ PresentInFull
  /\ pc' = "skipped"
  /\ UNCHANGED <<server, disk, control, saver, memory, runs, rot>>

\* Lay out the file, take from the control file what can be trusted, open the
\* destination (OpenForWrite).
Open ==
  /\ pc = "probed" /\ ~(~Resumable /\ opts.skip /\ PresentInFull)
  /\ LET trusted == IF Usable(control) THEN Accepted(control) ELSE {} IN
       /\ done' = Firsts(trusted)
       /\ todo' = ChunksOf(Lay) \ trusted
       /\ already' = Cardinality(BytesTrusted(trusted))
       /\ hashes' = IF trusted = {} THEN NoBytes
                    ELSE Restrict(control.hashes, Firsts(trusted) \cap DOMAIN control.hashes)
       /\ pin' = IF Usable(control) THEN control.etag ELSE NoETag
       /\ blind' = (trusted # {} /\ ~Covered(control))
  /\ disk' = IF pr.size > 0 THEN Truncated(disk, pr.size) ELSE disk
  /\ pc' = "opened"
  /\ UNCHANGED <<server, control, saver, opts, pr, errored, drifted, runs, rot>>

\* verifyResumedData accepts what was trusted ...
Verify ==
  /\ pc = "opened"
  /\ already > 0 => HashesAgree(control) /\ SamplesAgree
  /\ pc' = "checked"
  /\ UNCHANGED <<server, disk, control, saver, memory, runs, rot>>

\* ... or not, also if the server does not answer: nothing is trusted then.
Distrust ==
  /\ pc = "opened" /\ already > 0
  /\ HashesAgree(control) /\ SamplesAgree => ~pr.single
  /\ done' = {} /\ todo' = ChunksOf(Lay) /\ already' = 0 /\ hashes' = NoBytes
  /\ blind' = FALSE
  /\ pc' = "checked"
  /\ UNCHANGED <<server, disk, control, saver, opts, pr, pin, errored, drifted, runs, rot>>

NothingMissing == pr.size > 0 /\ already >= pr.size

\* The file was complete already.
EndAtOnce ==
  /\ pc = "checked" /\ NothingMissing
  /\ pc' = "completed" /\ control' = None
  /\ UNCHANGED <<server, disk, saver, memory, runs, rot>>

\* The control file is written before the first byte.
Launch ==
  /\ pc = "checked" /\ ~NothingMissing
  /\ Persist(Snapshot)
  /\ pc' = "running"
  /\ UNCHANGED <<server, disk, memory, runs, rot>>

-----------------------------------------------------------------------------
(* The download.                                                             *)

Whole(c) == pr.size < 0 \/ pr.single

\* Mutant of Answered: If-Range is not sent.
AnsweredMut(c) == Whole(c) \/ server.ranges

\* The server answers with the bytes asked for: all of a stream, or the range,
\* unless it ignores ranges or If-Range tells that the file was replaced.
Answered(c) ==
  \/ Whole(c)
  \/ server.ranges /\ pin \in {NoETag, ServedETag}

\* The response reaches to the end of the chunk, and a stream not beyond it.
InFull(c) ==
  IF Whole(c) THEN pr.size < 0 \/ SizeOf[server.version] = pr.size
  ELSE c.last < SizeOf[server.version]

FetchChunk(c) ==
  /\ pc = "running" /\ c \in todo /\ Answered(c) /\ InFull(c)
  /\ disk' = Written(disk, Span(c), server.version)
  /\ hashes' = [u \in DOMAIN hashes \cup {c.first} |->
                  IF u = c.first THEN Content(Span(c), server.version) ELSE hashes[u]]
  /\ done' = done \cup {c.first} /\ todo' = todo \ {c}
  /\ UNCHANGED <<server, control, saver, pc, opts, pr, already, pin, errored, blind,
                 drifted, runs, rot>>

\* An attempt that fails after some bytes.
WriteInVain(c) ==
  /\ pc = "running" /\ c \in todo /\ Answered(c)
  /\ \E n \in Span(c) :
       /\ n < SizeOf[server.version]
       /\ disk' = Written(disk, c.first..n, server.version)
  /\ UNCHANGED <<server, control, saver, pc, memory, runs, rot>>

\* A chunk is given up: refused for good, or tried often enough.
GiveUp(c) ==
  /\ pc = "running" /\ c \in todo
  /\ todo' = todo \ {c} /\ errored' = TRUE
  /\ UNCHANGED <<server, disk, control, saver, pc, opts, pr, done, hashes, already, pin,
                 blind, drifted, runs, rot>>

Checkpoint ==
  /\ pc = "running" /\ Persist(Snapshot)
  /\ UNCHANGED <<server, disk, pc, memory, runs, rot>>

\* Cancelled, or some chunk was given up, or the checksum is wrong: what is done
\* is kept.
EndUnfinished ==
  /\ pc = "running" /\ Persist(Snapshot)
  /\ pc' = "off" /\ Forget
  /\ UNCHANGED <<server, disk, runs, rot>>

EndComplete ==
  /\ pc = "running" /\ todo = {} /\ ~errored
  /\ pc' = "completed" /\ control' = None
  /\ UNCHANGED <<server, disk, saver, memory, runs, rot>>

\* A kill, or an error that ends Start early.
Kill ==
  /\ pc \in {"probed", "opened", "checked", "running"}
  /\ pc' = "off" /\ Forget
  /\ UNCHANGED <<server, disk, control, saver, runs, rot>>

-----------------------------------------------------------------------------
(* The world around.                                                         *)

\* The server replaces the file.
Replace ==
  /\ server.version < Len(SizeOf)
  /\ server' = [server EXCEPT !.version = @ + 1]
  /\ drifted' = (pc \in {"probed", "opened", "checked", "running"} \/ drifted)
  /\ UNCHANGED <<disk, control, saver, pc, opts, pr, done, todo, hashes, already, pin,
                 errored, blind, runs, rot>>

\* It stops or starts to support ranges.
ToggleRanges ==
  /\ pc = "off"
  /\ \E r \in BOOLEAN : /\ [server EXCEPT !.ranges = r, !.version = 1] \in Servers
                        /\ server' = [server EXCEPT !.ranges = r]
  /\ UNCHANGED <<disk, control, saver, pc, memory, runs, rot>>

\* A byte of the local copy rots between two runs.
Rot ==
  /\ pc = "off" /\ rot < MaxRot
  /\ \E u \in DOMAIN disk : disk' = [disk EXCEPT ![u] = Rotten]
  /\ rot' = rot + 1
  /\ UNCHANGED <<server, control, saver, pc, memory, runs>>

-----------------------------------------------------------------------------
Init ==
  /\ server \in Servers
  /\ \E f \in OldFiles : disk = f.disk /\ control = f.control
  /\ saver = <<None, None>> /\ pc = "off"
  /\ opts = None /\ pr = None /\ done = {} /\ todo = {} /\ hashes = NoBytes
  /\ already = 0 /\ pin = NoETag /\ errored = FALSE /\ blind = FALSE
  /\ drifted = FALSE /\ runs = 0 /\ rot = 0

StartStep ==
  \/ Begin \/ Skip \/ Open \/ Verify \/ Distrust \/ EndAtOnce \/ Launch \/ Checkpoint
  \/ EndUnfinished \/ EndComplete \/ Kill

Next ==
  \/ StartStep
  \/ \E c \in todo : FetchChunk(c) \/ WriteInVain(c) \/ GiveUp(c)
  \/ Replace \/ ToggleRanges \/ Rot

Spec == Init /\ [][Next]_vars

-----------------------------------------------------------------------------
\* A file that was downloaded, or resumed on the word of hashes, is there in full:
\* no byte unwritten, none rotten, and none left over from a longer file, unless
\* that file took its place on the server while a single stream was read
\* (task_start.go:299-348, resume_impl.go:144-175, task_io.go:361-387).
CompleteIsWhole ==
  pc = "completed" /\ pr.size > 0 /\ ~blind =>
    /\ \A u \in 0..(pr.size - 1) : u \in DOMAIN disk /\ disk[u] \in Versions
    /\ (pr.single /\ drifted) \/ DOMAIN disk = 0..(pr.size - 1)

\* It is one version of the server's file, unless the file was replaced during a
\* run without If-Range, or between runs without ETags and outside the samples
\* (task_start.go:243-290, task_io.go:289-324, resume_impl.go:60-107).
OneVersion ==
  /\ pc = "completed" /\ pr.size > 0 /\ ~blind
  /\ drifted => pin # NoETag
  /\ server.etags \/ Cardinality(ChunksOf(Lay)) <= SampleChunks
  => \E v \in Versions : \A u \in 0..(pr.size - 1) : disk[u] = v

\* What one run saved, the next one with the same options accepts, if neither the
\* server nor the copy has changed (resume_impl.go:274-323, task_start.go:248-290).
\* A region of the both profile that does not end with a whole chunk is left out:
\* ChunkSpan then reaches into the other region, and the save is thrown away.
SavedIsAccepted ==
  /\ pc = "opened" /\ control # None /\ opts.continue
  /\ saver = <<opts, pr>> /\ pr = Probe
  /\ \A c \in Accepted(control) : OnDisk(Span(c)) = Content(Span(c), server.version)
  /\ \A u \in DOMAIN control.hashes : OnDisk(DOMAIN control.hashes[u]) = control.hashes[u]
  /\ Lay.splitAt % opts.chunk = 0
  => done = control.done /\ (already > 0 => HashesAgree(control) /\ SamplesAgree)

\* Every byte of the file belongs to exactly one chunk (chunkqueue.go:40-69,
\* engine.go:88-136, task_start.go:177-232).
LayoutPartitions ==
  pc = "opened" /\ ~pr.single /\ pr.size > 0 =>
    /\ \A u \in 0..(pr.size - 1) : Cardinality({c \in ChunksOf(Lay) : u \in c.first..c.last}) = 1
    /\ \A c \in ChunksOf(Lay) : 0 <= c.first /\ c.last < pr.size
=============================================================================
