------------------------- MODULE MCReportScenarios -------------------------
(* Two instances of CycleReport share a run, and the initial state picks   *)
(* one.  "nodes", whose constants the configuration gives: an apply that   *)
(* may be rolled back, replacing a target group, and a teardown in two     *)
(* operations, each of which may be cancelled at any line, watched at      *)
(* every instant.  "bands": the same two jobs of another estate, with the  *)
(* instants at which AWS charges.  The other instance stays as it began.   *)
EXTENDS MCCycleReport

VARIABLES scenario,
          bEstate, bBorn, bDied, bClock, bJob, bTodo, bFlight, bStreams, bSite

bandVars == <<bEstate, bBorn, bDied, bClock, bJob, bTodo, bFlight, bStreams, bSite>>

\* With its theorems, so that what they say of this estate can be cited.
Bands == INSTANCE ReportProofs WITH
  Resources <- {"lb", "db", "task"}, DataSources <- {}, Replaceable <- {"task"},
  Metered <- {"db"}, AlbFirst <- {"lb"}, Killable <- {"apply", "destroy"}, Lossy <- TRUE, Watched <- FALSE,
  estate <- bEstate, born <- bBorn, died <- bDied, clock <- bClock, job <- bJob, todo <- bTodo,
  flight <- bFlight, streams <- bStreams, site <- bSite

scenarioVars == <<vars, bandVars, scenario>>

Began == \E begun \in {"bands", "nodes"} : scenario = begun /\ Init /\ Bands!Init

GoesOn ==
  \/ scenario = "nodes" /\ Next /\ UNCHANGED <<scenario, bandVars>>
  \/ scenario = "bands" /\ Bands!Next /\ UNCHANGED <<scenario, vars>>

Scenarios == Began /\ [][GoesOn]_scenarioVars

\* Bounds: in "bands" a teardown follows an apply that left an anchor (no other is
\* priced), the runner is lost in the apply only (a lost teardown is not priced
\* either), and a teardown is cancelled only between its two operations, where
\* what it leaves is priced as complete.
StepBounds ==
  /\ bJob.kind = "apply" /\ bJob'.kind = "destroy" => bSite.anchor # NoDoc
  /\ bJob.kind = "destroy" =>
       /\ bJob'.phase = "idle" => bJob.phase = "cost"
       /\ bJob.phase \in {"planning", "working"} /\ bJob'.phase = "report"
            => bStreams'[Len(bStreams)].rc = 1

\* What a finished cycle was charged is in its band, and everything is priced.
BandsHold == Bands!TypeOK /\ Bands!BandHoldsTheCharge /\ Bands!NothingGoesUnpriced
=============================================================================
