----------------------------- MODULE Migration -----------------------------
(***************************************************************************)
(* scripts/migrate-schema3.py: one run edits several files, or none.  Every *)
(* edit of a text file replaces an anchor that must match exactly once; the *)
(* two data files are rewritten by shape; every file is planned before the *)
(* first one is written, and a snapshot is regenerated at the end.  People *)
(* edit the tree between runs, and a run may be killed.                    *)
(***************************************************************************)
EXTENDS Naturals, Sequences

CONSTANTS
  Files,      \* text file -> how many edits it has
  DataFiles,  \* files migrated by their shape
  Refresh,    \* the text file that is a generator, run at the end
  Slips,      \* sets of <<file, edit>>: what a script's author may overlook
  MaxCopies,  \* bound: copies of an anchor, or of a replacement, in a file
  Runs        \* bound: runs

VARIABLES
  contained, \* the edits of this script whose anchor survives its replacement
  text,      \* text file -> edit -> [anchor, done]: how often each occurs
  data,      \* data file -> "old", "new" or "strange"
  snapshot,  \* phases.json: "old" or "new"
  planned,   \* what the run is going to write: file -> its content
  pc,        \* "idle", "writing", "refresh"
  exit,      \* the last run's exit code, or Unknown: killed, or edited since
  before,    \* history: <<text, data, snapshot>> at the start of the last run
  runs       \* runs so far

vars == <<contained, text, data, snapshot, planned, pc, exit, before, runs>>
tree == <<text, data, snapshot>>

Unknown  == 9
AllFiles == DOMAIN Files \cup DataFiles

-----------------------------------------------------------------------------
(* The plan                                                                *)

Here(f)  == {i \in 1..Files[f] : text[f][i].anchor = 1}
There(f) == {i \in 1..Files[f] : text[f][i].anchor = 0 /\ text[f][i].done > 0}

\* A file refuses when an edit of it matches some other number of times than
\* once, when some of its edits are there already, or at such an anchor.
Refuses(f) ==
  IF f \in DataFiles THEN data[f] = "strange"
  ELSE \/ Here(f) # 1..Files[f] /\ There(f) # 1..Files[f]
       \/ \E i \in 1..Files[f] : <<f, i>> \in contained

Replaced(content, f, i) ==
  [content EXCEPT ![i] = [anchor |-> IF <<f, i>> \in contained THEN @.anchor ELSE @.anchor - 1,
                          done   |-> @.done + 1]]

\* Bug: every replacement is computed from the original text, so the last one
\* is the only one written.
PlanTextFromOriginal(f) ==
  IF Here(f) = 1..Files[f] THEN Replaced(text[f], f, Files[f]) ELSE text[f]

\* All the edits of one file, applied to one string in sequence; the text as it
\* is when all of them are there already.
PlanText(f) ==
  LET after[i \in 0..Files[f]] ==
        IF i = 0 THEN text[f]
        ELSE IF i \in Here(f) THEN Replaced(after[i - 1], f, i) ELSE after[i - 1]
  IN  after[Files[f]]

Now(f)   == IF f \in DataFiles THEN data[f] ELSE text[f]
Plans(f) == IF f \in DataFiles THEN "new" ELSE PlanText(f)

-----------------------------------------------------------------------------
(* A run                                                                   *)

Begin == /\ UNCHANGED contained /\ pc = "idle" /\ runs < Runs /\ runs' = runs + 1 /\ before' = tree
Done(code) == pc' = "idle" /\ exit' = code

\* Everything is planned; a file that refuses, or a tree half of which is
\* already migrated, stops the run, and so does a dry run.
Run(dry) ==
  /\ Begin
  /\ LET refused == {f \in AllFiles : Refuses(f)}
         changed == {f \in AllFiles \ refused : Plans(f) # Now(f)}
     IN  IF refused # {} \/ changed # AllFiles \/ dry
         THEN /\ Done(IF refused = {} /\ changed = {} THEN 3
                      ELSE IF refused # {} \/ changed # AllFiles THEN 2 ELSE 0)
              /\ UNCHANGED planned
         ELSE /\ planned' = [f \in AllFiles |-> Plans(f)] /\ pc' = "writing"
              /\ exit' = Unknown
  /\ UNCHANGED tree

Write(f) ==
  /\ pc = "writing" /\ f \in DOMAIN planned
  /\ text' = IF f \in DataFiles THEN text ELSE [text EXCEPT ![f] = planned[f]]
  /\ data' = IF f \in DataFiles THEN [data EXCEPT ![f] = planned[f]] ELSE data
  /\ planned' = [g \in DOMAIN planned \ {f} |-> planned[g]]
  /\ pc' = IF DOMAIN planned' = {} THEN "refresh" ELSE "writing"
  /\ UNCHANGED <<contained, snapshot, exit, before, runs>>

\* The generator is run as it now is; it fails, or changes nothing, or works.
RunRefresh(works) ==
  /\ pc = "refresh"
  /\ snapshot' = IF works THEN "new" ELSE snapshot
  /\ Done(IF works /\ snapshot = "old" THEN 0 ELSE 2)
  /\ UNCHANGED <<contained, text, data, planned, before, runs>>

\* The script is killed, or a write fails.
Kill ==
  /\ pc # "idle" /\ Done(Unknown) /\ planned' = << >>
  /\ UNCHANGED <<contained, text, data, snapshot, before, runs>>

-----------------------------------------------------------------------------
(* The tree changes between runs                                           *)

Edited == exit' = Unknown /\ before' = tree'

EditText(f, i, change) ==
  /\ pc = "idle"
  /\ text' = [text EXCEPT ![f][i] = change]
  /\ UNCHANGED <<contained, data, snapshot, planned, pc, runs>>
  /\ Edited

EditData(f, shape) ==
  /\ pc = "idle" /\ data' = [data EXCEPT ![f] = shape]
  /\ UNCHANGED <<contained, text, snapshot, planned, pc, runs>>
  /\ Edited

\* git checkout of the tree as it was before the migration.
Restore ==
  /\ pc = "idle" /\ snapshot' = "old"
  /\ text' = [f \in DOMAIN Files |-> [i \in 1..Files[f] |-> [anchor |-> 1, done |-> 0]]]
  /\ data' = [f \in DataFiles |-> "old"]
  /\ UNCHANGED <<contained, planned, pc, runs>>
  /\ Edited

Init ==
  /\ contained \in Slips
  /\ text = [f \in DOMAIN Files |-> [i \in 1..Files[f] |-> [anchor |-> 1, done |-> 0]]]
  /\ data = [f \in DataFiles |-> "old"]
  /\ snapshot = "old" /\ planned = << >> /\ pc = "idle" /\ exit = Unknown
  /\ before = tree /\ runs = 0

Contents == [anchor : 0..MaxCopies, done : 0..MaxCopies]

Next ==
  \/ \E dry \in BOOLEAN : Run(dry)
  \/ \E f \in AllFiles : Write(f)
  \/ \E works \in BOOLEAN : RunRefresh(works)
  \/ Kill \/ Restore
  \/ \E f \in DOMAIN Files : \E i \in 1..Files[f], c \in Contents : EditText(f, i, c)
  \/ \E f \in DataFiles, shape \in {"old", "new", "strange"} : EditData(f, shape)

Spec == Init /\ [][Next]_vars

TypeOK ==
  /\ \A f \in DOMAIN Files : text[f] \in [1..Files[f] -> [anchor : 0..MaxCopies, done : 0..MaxCopies + 1]]
  /\ contained \in Slips
  /\ data \in [DataFiles -> {"old", "new", "strange"}]
  /\ DOMAIN planned \subseteq AllFiles /\ snapshot \in {"old", "new"}
  /\ pc \in {"idle", "writing", "refresh"} /\ exit \in {0, 2, 3, Unknown} /\ runs \in 0..Runs

-----------------------------------------------------------------------------
Was(f) == IF f \in DataFiles THEN before[2][f] ELSE before[1][f]

\* "An anchor matches 0 or 2+ times -> NOTHING is written" (migrate-schema3.py:
\* 43-48): a run that exits 2 or 3 leaves the tree it found, whichever file it
\* was that refused; or all of it is written, and the generator failed.
RefusalWritesNothing ==
  exit \in {2, 3} => tree = before \/ \A f \in AllFiles : Now(f) # Was(f)

\* Phase 19g's defect (migrate-schema3.py:35-41) and its opposite: after a run
\* that wrote, every edit of every file is there, once; none was discarded by a
\* later one, and no run finds its own work and does it again.
EachEditOnce ==
  exit = 0 /\ tree # before =>
    \A f \in DOMAIN Files : \A i \in 1..Files[f] :
      text[f][i].done = Was(f)[i].done + 1 /\ text[f][i].anchor = 0

Migrated(f) == IF f \in DataFiles THEN data[f] = "new" ELSE \A i \in 1..Files[f] : text[f][i].anchor = 0

\* "A half-migrated tree is never a state this script can leave behind"
\* (migrate-schema3.py:52-53).  A run killed between two writes leaves one, and
\* the next run refuses it for good.
NeverHalfMigrated ==
  pc = "idle" /\ tree # before /\ runs > 0 =>
    \/ \A f \in AllFiles : Migrated(f)
    \/ \A f \in AllFiles : ~Migrated(f)
=============================================================================
