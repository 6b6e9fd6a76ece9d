------------------------------- MODULE Cycle -------------------------------
(***************************************************************************)
(* The unattended cycle: the job graph of .github/workflows/               *)
(* self-service.yml over the three environments it stands up and tears     *)
(* down, with promote-prod.yml as its promote job (module Promotion) and   *)
(* destroy.yml as its teardown jobs (module Teardown has their steps).     *)
(*                                                                         *)
(* A run may be cancelled: jobs that have not started are skipped unless   *)
(* they always() run, and a running one is stopped, but for its always()   *)
(* steps.  A runner may be lost in the middle of a job, and a run may be   *)
(* force-cancelled or lost as a whole.  A press takes the public lock      *)
(* (module LaunchControl), and the last job gives it back.                 *)
(***************************************************************************)
EXTENDS Promotion

CONSTANTS
  Cycles,        \* runs of self-service.yml, in the order they are dispatched
  Visitors,      \* those a visitor's press dispatched; the owner's take no lock
  Losses         \* bound: runners, runs and removals of the countdown lost

ASSUME CycleAssumption ==
  /\ Cycles \subseteq Nat \ {0} /\ Cycles \subseteq Promotions /\ Visitors \subseteq Cycles
  /\ Losses \in Nat

VARIABLES
  job,        \* job[c][j]: where each job of each cycle is
  cancelled,  \* cycles whose cancellation was asked for
  standing,   \* environment -> the cycles whose resources it still holds
  lock,       \* the public lock: at most one cycle
  released,   \* history: cycles whose last job deleted the lock
  countdown,  \* status/countdown.json: at most one cycle's
  tested,     \* history: releases stage tested green
  swept,      \* history: [cycle, env] whose teardown job ended
  lost        \* what was lost so far

cycles == <<job, cancelled, standing, lock, released, countdown, tested, swept, lost>>
vars   == <<promotion, cycles>>

-----------------------------------------------------------------------------
(* The job graph                                                           *)

Needs ==
  [launch       |-> {},
   promote      |-> {"launch"},
   lab          |-> {"launch"},
   destroy      |-> {"launch", "promote"},
   hold         |-> {"launch", "promote", "destroy"},
   destroy_prod |-> {"promote", "hold"},
   destroy_lab  |-> {"launch", "lab"},
   release_lock |-> {"launch", "promote", "destroy", "hold", "destroy_prod", "lab",
                     "destroy_lab"}]
JobNames == DOMAIN Needs

Always == {"destroy", "hold", "destroy_prod", "destroy_lab", "release_lock"}

Env == [launch |-> "stage", destroy |-> "stage", lab |-> "lab", destroy_lab |-> "lab",
        destroy_prod |-> "prod"]
Teardowns == {"destroy", "destroy_lab", "destroy_prod"}

Finished == {"success", "failure", "cancelled", "skipped"}
Started(c) == \E j \in JobNames : job[c][j] # "none"
Over(c)    == \A j \in JobNames : job[c][j] \in Finished

CycleTypeOK ==
  /\ job \in [Cycles -> [JobNames -> Finished \cup {"none", "waiting", "running"}]]
  /\ cancelled \subseteq Cycles /\ released \subseteq Visitors
  /\ standing \in [{"stage", "lab", "prod"} -> SUBSET Cycles]
  /\ Cardinality(lock) <= 1 /\ lock \subseteq Visitors
  /\ Cardinality(countdown) <= 1 /\ countdown \subseteq Cycles
  /\ tested \subseteq Releases
  /\ lost \in 0..Losses
TypeOK == PromotionTypeOK /\ CycleTypeOK

Init ==
  /\ PromotionInit
  /\ job = [c \in Cycles |-> [j \in JobNames |-> "none"]]
  /\ standing = [e \in {"stage", "lab", "prod"} |-> {}]
  /\ cancelled = {} /\ lock = {} /\ released = {} /\ countdown = {}
  /\ tested = {} /\ swept = {} /\ lost = 0

Set(c, j, to) == job' = [job EXCEPT ![c][j] = to]
OnlyJobs  == UNCHANGED <<promotion, cancelled, standing, lock, released, countdown, tested, swept, lost>>

\* A press takes the lock, which is free or has expired (Overrun); the owner
\* takes none.  Runs of the workflow queue behind one another.
Dispatch(c) ==
  /\ ~Started(c) /\ \A d \in Cycles : d < c => Started(d)
  /\ job' = [job EXCEPT ![c] = [j \in JobNames |-> "waiting"]]
  /\ lock' = IF c \in Visitors THEN {c} ELSE lock
  /\ UNCHANGED <<promotion, cancelled, standing, released, countdown, tested, swept, lost>>

Turn(c) == \A d \in Cycles : d < c => Over(d)

\* Bug: prod is torn down only after a promotion that succeeded.
ConditionOfPromoted(c, j) ==
  CASE j \in {"promote", "lab", "destroy_lab"} -> job[c]["launch"] = "success"
    [] j \in {"hold", "destroy_prod"} -> job[c]["promote"] = "success"
    [] OTHER -> TRUE

\* Bug: the promotion does not ask how stage went.
ConditionAnyway(c, j) ==
  CASE j \in {"lab", "destroy_lab"} -> job[c]["launch"] = "success"
    [] j = "hold" -> job[c]["promote"] = "success"
    [] OTHER -> TRUE

Condition(c, j) ==
  CASE j \in {"promote", "lab", "destroy_lab"} -> job[c]["launch"] = "success"
    [] j = "hold" -> job[c]["promote"] = "success"
    [] OTHER -> TRUE

\* A job starts when all it needs have ended, if its condition holds.
StartJob(c, j) ==
  /\ Turn(c) /\ job[c][j] = "waiting"
  /\ \A n \in Needs[j] : job[c][n] \in Finished
  /\ Condition(c, j) /\ (c \in cancelled => j \in Always)
  /\ Set(c, j, "running")
  /\ IF j = "promote"
     THEN BeginPromotion(c)
     ELSE UNCHANGED promotion
  /\ UNCHANGED <<cancelled, standing, lock, released, countdown, tested, swept, lost>>

SkipJob(c, j) ==
  /\ Turn(c) /\ job[c][j] = "waiting"
  /\ \A n \in Needs[j] : job[c][n] \in Finished
  /\ ~Condition(c, j) \/ (c \in cancelled /\ j \notin Always)
  /\ Set(c, j, "skipped")
  /\ OnlyJobs

-----------------------------------------------------------------------------
(* What the jobs do                                                        *)

Running(c, j) == job[c][j] = "running"
Stands(e, c) == standing' = [standing EXCEPT ![e] = @ \cup {c}]

\* The launch job builds the images under the commit's tag.
Build(c, s) ==
  /\ Running(c, "launch") /\ Tag[c] \notin images[s]
  /\ Push(s, Tag[c])
  /\ UNCHANGED cycles

\* terraform apply in stage or in the lab: from its first resource on.
Apply(c, j) ==
  /\ j \in {"launch", "lab"} /\ Running(c, j)
  /\ j = "launch" => \A s \in Services : Tag[c] \in images[s]
  /\ c \notin standing[Env[j]]
  /\ Stands(Env[j], c)
  /\ UNCHANGED <<promotion, job, cancelled, lock, released, countdown, tested, swept, lost>>

\* Its suites are green, and the job with them.
Pass(c, j) ==
  /\ j \in {"launch", "lab"} /\ Running(c, j) /\ c \in standing[Env[j]]
  /\ Set(c, j, "success")
  /\ tested' = IF j = "launch" THEN tested \cup {Tag[c]} ELSE tested
  /\ UNCHANGED <<promotion, cancelled, standing, lock, released, countdown, swept, lost>>

\* Any step failed, or the job's timeout has passed.
Fail(c, j) ==
  /\ j \in {"launch", "lab"} /\ Running(c, j)
  /\ Set(c, j, "failure")
  /\ OnlyJobs

PromoteStep(c) ==
  /\ Running(c, "promote") /\ Promote(c)
  /\ standing' = IF prod' # prod THEN [standing EXCEPT !["prod"] = @ \cup {c}] ELSE standing
  /\ job' = IF at'[c] = "over" THEN [job EXCEPT ![c]["promote"] = verdict'[c]] ELSE job
  /\ UNCHANGED <<cancelled, lock, released, countdown, tested, swept, lost>>

\* The owner's own run of promote-prod.yml, with a tag a stage has tested.
OwnerPromotes(p) ==
  /\ p \in Promotions \ Cycles
  /\ \/ Tag[p] \in tested \cup {OldRelease} /\ BeginPromotion(p)
     \/ Promote(p)
  /\ UNCHANGED cycles

\* The deadline is published; whatever ends the sleep, the document is taken
\* down, unless the runner is lost.
PublishCountdown(c) ==
  /\ Running(c, "hold") /\ countdown # {c}
  /\ countdown' = {c}
  /\ UNCHANGED <<promotion, job, cancelled, standing, lock, released, tested, swept, lost>>

\* Whatever ended the sleep, the countdown is taken down, or the call failed
\* (`|| true`).
HoldEnds(c, how) ==
  /\ Running(c, "hold")
  /\ how = "success" => countdown = {c}
  /\ Set(c, "hold", how)
  /\ \/ countdown' = {} /\ UNCHANGED lost
     \/ lost < Losses /\ lost' = lost + 1 /\ UNCHANGED countdown
  /\ UNCHANGED <<promotion, cancelled, standing, lock, released, tested, swept>>

\* A teardown: it removes everything and is green, or fails half way, or at
\* once (module Teardown has the steps).
TearDown(c, j) ==
  /\ j \in Teardowns /\ Running(c, j)
  /\ \E how \in {"success", "failure"} :
       /\ IF Env[j] = "prod"
          THEN \/ \E gone \in SUBSET Services :
                    TearDownProd(gone) /\ (how = "success" => gone = Services)
               \/ how = "failure" /\ UNCHANGED promotion
          ELSE UNCHANGED promotion
       /\ Set(c, j, how)
       /\ standing' = IF how = "success" THEN [standing EXCEPT ![Env[j]] = {}] ELSE standing
  /\ swept' = swept \cup {[cycle |-> c, env |-> Env[j]]}
  /\ UNCHANGED <<cancelled, lock, released, countdown, tested, lost>>

\* Bug: the lock is released however the teardown of stage ended.
ReleaseAlways(c) ==
  /\ Running(c, "release_lock")
  /\ lock' = lock \ {c}
  /\ released' = released \cup (lock \cap {c})
  /\ Set(c, "release_lock", "success")
  /\ UNCHANGED <<promotion, cancelled, standing, countdown, tested, swept, lost>>

\* release-lock: after a teardown of stage that succeeded, and only the lock
\* that carries this cycle's launch id.
ReleaseLock(c) ==
  /\ Running(c, "release_lock")
  /\ \/ /\ job[c]["destroy"] = "success"
        /\ lock' = lock \ {c}
        /\ released' = released \cup (lock \cap {c})
        /\ Set(c, "release_lock", "success")
     \/ /\ Set(c, "release_lock", IF job[c]["destroy"] = "success" THEN "failure" ELSE "success")
        /\ UNCHANGED <<lock, released>>
  /\ UNCHANGED <<promotion, cancelled, standing, countdown, tested, swept, lost>>

-----------------------------------------------------------------------------
(* Cancellations and losses                                                *)

Cancel(c) ==
  /\ Started(c) /\ ~Over(c) /\ c \notin cancelled
  /\ cancelled' = cancelled \cup {c}
  /\ UNCHANGED <<promotion, job, standing, lock, released, countdown, tested, swept, lost>>

\* A cancelled run stops its running jobs.  Those that always() run may go on.
StopJob(c, j) ==
  /\ c \in cancelled /\ Running(c, j) /\ j \notin {"hold", "release_lock"}
  /\ IF j = "promote" THEN StopPromotion(c, "cancelled") ELSE UNCHANGED promotion
  /\ Set(c, j, "cancelled")
  /\ swept' = IF j \in Teardowns THEN swept \cup {[cycle |-> c, env |-> Env[j]]} ELSE swept
  /\ UNCHANGED <<cancelled, standing, lock, released, countdown, tested, lost>>

StopHold(c) == c \in cancelled /\ HoldEnds(c, "cancelled")

\* The runner of one job is lost, and its last steps with it.
LoseRunner(c, j) ==
  /\ lost < Losses /\ Running(c, j)
  /\ lost' = lost + 1
  /\ IF j = "promote" THEN StopPromotion(c, "failure") ELSE UNCHANGED promotion
  /\ Set(c, j, "failure")
  /\ swept' = IF j \in Teardowns THEN swept \cup {[cycle |-> c, env |-> Env[j]]} ELSE swept
  /\ UNCHANGED <<cancelled, standing, lock, released, countdown, tested>>

\* Force-cancelled, or GitHub away: no job of the run runs any more.
LoseRun(c) ==
  /\ lost < Losses /\ Started(c) /\ ~Over(c)
  /\ lost' = lost + 1
  /\ IF Running(c, "promote") THEN StopPromotion(c, "cancelled") ELSE UNCHANGED promotion
  /\ job' = [job EXCEPT ![c] =
               [j \in JobNames |-> IF job[c][j] \in Finished THEN job[c][j] ELSE "cancelled"]]
  /\ swept' = swept \cup {[cycle |-> c, env |-> e] : e \in DOMAIN standing}
  /\ UNCHANGED <<cancelled, standing, lock, released, countdown, tested>>

\* What the owner or the watchdog does about what a run left: destroy.yml.
DestroyByHand(e) ==
  /\ standing[e] # {} /\ \A c \in Cycles : Started(c) => Over(c)
  /\ IF e = "prod" THEN TearDownProd(Services) ELSE UNCHANGED promotion
  /\ standing' = [standing EXCEPT ![e] = {}]
  /\ UNCHANGED <<job, cancelled, lock, released, countdown, tested, swept, lost>>

Next ==
  \/ \E c \in Cycles :
       \/ Dispatch(c) \/ PromoteStep(c) \/ PublishCountdown(c) \/ ReleaseLock(c)
       \/ HoldEnds(c, "success") \/ HoldEnds(c, "failure") \/ StopHold(c)
       \/ Cancel(c) \/ LoseRun(c)
       \/ \E s \in Services : Build(c, s)
       \/ \E j \in JobNames : \/ StartJob(c, j) \/ SkipJob(c, j) \/ Apply(c, j) \/ Pass(c, j)
                              \/ Fail(c, j) \/ TearDown(c, j) \/ StopJob(c, j) \/ LoseRunner(c, j)
  \/ \E p \in Promotions : OwnerPromotes(p)
  \/ \E e \in DOMAIN standing : DestroyByHand(e)
  \/ \E s \in Services, r \in Releases : Expire(s, r) /\ UNCHANGED cycles

Spec == Init /\ [][Next]_vars

-----------------------------------------------------------------------------
\* Nothing a cycle created is left by chance (self-service.yml:20-21, 615-638):
\* when its run is over, what still stands in an environment was met by that
\* environment's teardown job, which failed or was stopped, or the run was lost
\* as a whole - however it failed, was cancelled or skipped jobs on the way.
NothingForgotten ==
  \A c \in Cycles, e \in DOMAIN standing :
    Over(c) /\ c \in standing[e] => [cycle |-> c, env |-> e] \in swept

\* A lock the run itself gave back is one whose stage is gone: the next visitor
\* does not start a cycle on top of this one's (self-service.yml:660-663, ADR-0036).
ReleasedMeansBare == \A c \in released : c \notin standing["stage"]

\* "AFTER PROD IS GONE TOO [...] releasing it while prod was still up would let
\* the next visitor start a cycle on top of a live one" (self-service.yml:861-863).
\* The job asks for the result of the stage teardown alone.
ReleasedMeansAllGone == \A c \in released, e \in DOMAIN standing : c \notin standing[e]

\* Prod runs only what a stage was green about, and the lab's install of the
\* same digests is not mistaken for it (self-service.yml:503-508): whoever
\* promotes, fails or rolls back.
OnlyTestedRuns ==
  \A s \in Services : prod[s] \in tested \cup {OldRelease, Nothing}

\* The page counts down to a teardown that is still ahead: no job that tears
\* prod down runs under a published countdown, unless the runner or the call
\* that was to take it down was lost (self-service.yml:597-605).
CountdownIsAhead ==
  \A c \in countdown : Running(c, "destroy_prod") => lost > 0

\* What a run tells those outside it: its lock is gone, its countdown runs.
ToldIsTrue == ReleasedMeansBare /\ CountdownIsAhead
=============================================================================
