---------------------------- MODULE MCTaskStart ----------------------------
(* Small instances of TaskStart for TLC.                                    *)
EXTENDS TaskStart

Opt(profile, chunk, conns, continue, skip) ==
  [profile |-> profile, chunk |-> chunk, split |-> 2, minSplit |-> 1, conns |-> conns,
   continue |-> continue, skip |-> skip]

Aria  == Opt("aria2c", 2, 2, TRUE, FALSE)
Smart == Opt("smart", 2, 6, TRUE, FALSE)
Fresh == Opt("odm", 2, 2, FALSE, TRUE)

\* Smart settles on odm, aria2c or both.
AnyOptions == {Aria, Smart, Fresh}

Sizes == <<4, 5, 4>>

\* A server that does not tell the length has no ETags here.
AnyServer ==
  {s \in [version : {1}, etags : BOOLEAN, sized : BOOLEAN, ranges : BOOLEAN] :
     s.sized \/ ~s.etags}

NoFile == [disk |-> NoBytes, control |-> None]
\* An older release, which kept no hashes and no profile, left a first chunk.
Legacy ==
  [disk |-> [u \in 0..3 |-> IF u < 2 THEN 1 ELSE Blank],
   control |-> [etag |-> NoETag, size |-> 4, profile |-> "", chunk |-> 2, splitAt |-> 0,
                seg2 |-> 0, done |-> {0}, hashes |-> NoBytes]]

Some == {NoFile, Legacy}
=============================================================================
