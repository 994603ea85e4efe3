------------------------------ MODULE Download ------------------------------
(***************************************************************************)
(* What one run of Task.Start promises to whoever called it, and to the    *)
(* run that may have to resume it: which chunks the file holds, which of   *)
(* them the control file vouches for, and how the run ended.  Nothing is   *)
(* said of workers, queues, retries or connections.                        *)
(***************************************************************************)
CONSTANTS
  Chunks,   \* the chunks of the file
  Resumed   \* those a resume found on disk

VARIABLES done, control, onDisk, result
vars == <<done, control, onDisk, result>>

Init ==
  /\ done = Resumed /\ control = Resumed /\ onDisk = TRUE
  /\ result = "none"

\* One more chunk is on disk.
ChunkDone(c) ==
  /\ result = "none"
  /\ c \notin done /\ done' = done \cup {c}
  /\ UNCHANGED <<control, onDisk, result>>

\* The control file catches up with the chunks that are done.
Checkpoint ==
  /\ result = "none"
  /\ control' = done
  /\ UNCHANGED <<done, onDisk, result>>

\* Success is for whole files only.  The control file is gone, or lists
\* everything (the task was paused at the last moment).
Succeed ==
  /\ result = "none" /\ done = Chunks
  /\ result' = "completed"
  /\ \/ onDisk' = FALSE /\ control' = {}
     \/ UNCHANGED onDisk /\ control' = done
  /\ UNCHANGED done

\* A failed or cancelled run leaves all its progress in the control file.
Fail(r) ==
  /\ result = "none"
  /\ result' = r /\ control' = done
  /\ UNCHANGED <<done, onDisk>>

Next ==
  \/ \E c \in Chunks : ChunkDone(c)
  \/ Checkpoint
  \/ Succeed
  \/ \E r \in {"error", "cancelled"} : Fail(r)

Spec == Init /\ [][Next]_vars
=============================================================================
