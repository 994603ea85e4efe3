------------------------------ MODULE Renderer ------------------------------
(* The progress renderer on a terminal (ui/progress.go): what it remembers  *)
(* of each task, and where its rows stand on the screen.  A frame goes over *)
(* the one before: the cursor goes up lastLines rows, clearing each, and    *)
(* the new rows are printed.  The rows of a frame stand right above the     *)
(* cursor, at most Height - 1 of them: what has scrolled off the screen is  *)
(* out of its reach.  Every operation runs under Renderer.mu and is one     *)
(* step.  Widths, colours and wording are left out.                         *)
EXTENDS Integers, FiniteSets, FiniteSetsExt

CONSTANTS
  Tasks,
  Height  \* rows of the terminal

VARIABLES
  cache,      \* the last view of each task seen so far: a function on those tasks
  lastLive, lastQueue,
  lastLines,
  drawn,      \* rows the last frame has printed
  torn        \* a row of an old frame was left behind, or another row was eaten

vars == <<cache, lastLive, lastQueue, lastLines, drawn, torn>>

Nothing == [t \in {} |-> 0]

\* A view says which state a task is in, whether its size is known and how many
\* of its bytes it has.
Views == [state : {"queued", "active", "paused", "completed", "error"},
          sized : BOOLEAN, bytes : {"none", "some", "all"}]

Terminal(v) == v.state \in {"completed", "error"}

Whole(v) == v.sized /\ v.bytes = "all"

IsActive(v) == Terminal(v) \/ v.bytes # "none"

Init ==
  /\ cache = Nothing /\ lastLive = Nothing /\ lastQueue = Nothing
  /\ lastLines = 0 /\ drawn = 0 /\ torn = FALSE

\* ordered: the live view of a task goes before the cached one.
Ordered(c, live) ==
  [t \in DOMAIN c \cup DOMAIN live |-> IF t \in DOMAIN live THEN live[t] ELSE c[t]]

\* composeLines: as many rows as the budget allows, the summary, "n more...".
Rows(view) ==
  LET active == Cardinality({t \in DOMAIN view : IsActive(view[t])})
      total  == IF view = Nothing THEN 0 ELSE 1
      budget == Max({Height - total - 1, 0})
  IN Min({active, budget}) + total + (IF active > budget THEN 1 ELSE 0)

\* Clears the old rows and prints m rows.
Redraw(m) ==
  /\ torn' = (torn \/ Min({lastLines, Height - 1}) # drawn)
  /\ drawn' = m /\ lastLines' = m

\* updateCache: a task that is in neither list is taken for finished when it
\* has its bytes or no size.
Clamp(v) == IF v.state = "active" THEN [v EXCEPT !.state = "queued"] ELSE v

Retired(v) ==
  IF ~Terminal(v) /\ (Whole(v) \/ ~v.sized) THEN [v EXCEPT !.state = "completed"] ELSE v

UpdateCache(live, queued) ==
  [t \in DOMAIN cache \cup DOMAIN live \cup DOMAIN queued |->
    IF t \in DOMAIN queued THEN Clamp(queued[t])
    ELSE IF t \in DOMAIN live THEN live[t]
    ELSE Retired(cache[t])]

Frame(live, queued) ==
  LET c == UpdateCache(live, queued) IN
  /\ cache' = c
  /\ lastLive' = live /\ lastQueue' = queued
  /\ Redraw(Rows(Ordered(c, live)))

\* Frame(nil, nil): what has all its bytes is finished.
Repair(v) ==
  IF ~Terminal(v) /\ Whole(v) THEN [v EXCEPT !.state = "completed"] ELSE v

FinalFrame ==
  LET c == [t \in DOMAIN cache |-> Repair(cache[t])] IN
  /\ cache' = c
  /\ lastLive' = Nothing /\ lastQueue' = Nothing
  /\ Redraw(Rows(c))

\* A log line goes above the frame.
Interject ==
  /\ Redraw(Rows(Ordered(cache, lastLive)))
  /\ UNCHANGED <<cache, lastLive, lastQueue>>

\* Mutant: the blank row is not counted.
EndMut ==
  /\ drawn' = drawn + 1
  /\ UNCHANGED <<cache, lastLive, lastQueue, lastLines, torn>>

\* End leaves the cursor below a blank row.
End ==
  /\ lastLines' = lastLines + 1
  /\ drawn' = drawn + 1
  /\ UNCHANGED <<cache, lastLive, lastQueue, torn>>
=============================================================================
