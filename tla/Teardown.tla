------------------------------ MODULE Teardown ------------------------------
(***************************************************************************)
(* One environment between the jobs that apply it and the jobs that        *)
(* destroy it: the resources in AWS, Terraform's state and its lock, the   *)
(* tagging API that finds what the state forgot, and the steps of          *)
(* destroy.yml with the scripts they call (break-stale-state-lock.sh,      *)
(* adopt-orphans.sh, sweep-orphans.sh).                                    *)
(*                                                                         *)
(* A job is killed between any two steps: a cancelled run leaves the lock  *)
(* held and whatever it had not saved out of the state.  Lock ids are      *)
(* fresh with respect to every id anybody still remembers, as UUIDs are.   *)
(***************************************************************************)
EXTENDS Orphans, Naturals

CONSTANTS
  Applies,      \* jobs that run terraform apply
  Destroys,     \* jobs of destroy.yml
  Desks,        \* the owner's devbox, which is no run of the repository
  RunOf,        \* the workflow run a job belongs to
  LockIds,      \* ids of state locks
  Needs,        \* Needs[r]: what AWS refuses to delete while r exists
  Indexed,      \* resources of the kinds the tagging API knows
  Billable,     \* kinds the verification lists directly
  Config,       \* Config[r]: the address the configuration gives r
  Failing,      \* calls that may fail: get-object, runs, tagging, describe
  Restarting,   \* destroy jobs that are run again after they ended
  Deaths        \* bound: jobs killed

Runners == Applies \cup Destroys
Jobs == Runners \cup Desks

ASSUME JobAssumption ==
  /\ Applies \cap Destroys = {} /\ Runners \cap Desks = {}
  /\ Restarting \subseteq Destroys
  /\ LockIds # {} /\ Deaths \in Nat

VARIABLES
  live,     \* resources that exist in AWS
  index,    \* resources the tagging API answers with
  state,    \* resources in Terraform's state
  lock,     \* the .tflock object: at most one [id, user]
  pc,       \* where each job is
  held,     \* lock ids a job took and has not released: at most one
  built,    \* what an apply created and has not saved into the state
  seen,     \* the lock a destroy read: at most one
  plan,     \* addresses a destroy has left to import
  ok,       \* no step of this destroy has failed
  deaths,   \* jobs killed so far
  since,    \* history: created or adopted since this job's terraform destroy
  after,    \* history: created since its verification
  hidden,   \* history: live and not in the index when it swept
  torn      \* history: a job was killed between a role and its dependents

aws    == <<live, index>>
tf     == <<state, lock, held>>
mine   == <<built, seen, plan, ok>>
ghosts == <<since, after, hidden, torn>>
vars   == <<aws, tf, mine, pc, deaths, ghosts>>

\* WHO, up to the @.
User(j) == IF j \in Desks THEN "ubuntu" ELSE "runner"
Active == {"apply", "applying", "break", "ask", "unlock", "adopt", "import",
           "destroy", "destroying", "verify", "sweep"}

Init ==
  /\ live = {} /\ index = {} /\ state = {} /\ lock = {}
  /\ pc = [j \in Jobs |-> "idle"]
  /\ held = [j \in Jobs |-> {}]
  /\ built = [j \in Jobs |-> {}]
  /\ seen = [j \in Destroys |-> {}]
  /\ plan = [j \in Destroys |-> {}]
  /\ ok = [j \in Destroys |-> TRUE]
  /\ deaths = 0
  /\ since = [j \in Destroys |-> {}]
  /\ after = [j \in Destroys |-> {}]
  /\ hidden = [j \in Destroys |-> {}]
  /\ torn = FALSE

\* Ids nobody will meet again.
Fresh == LockIds \ ( {l.id : l \in lock} \cup (UNION {held[j] : j \in Jobs})
                     \cup {l.id : l \in UNION {seen[d] : d \in Destroys}} )

\* terraform takes the lock before it writes, or gives up.
Take(j, from, to) ==
  /\ pc[j] = from
  /\ lock = {}
  /\ \E i \in Fresh : /\ lock' = {[id |-> i, user |-> User(j)]}
                      /\ held' = [held EXCEPT ![j] = {i}]
  /\ pc' = [pc EXCEPT ![j] = to]

Release(j) ==
  /\ lock' = {l \in lock : l.id \notin held[j]}
  /\ held' = [held EXCEPT ![j] = {}]

----------------------------------------------------------------------------
(* The jobs that apply, and the devbox.                                    *)

\* The jobs of one run that write the same environment follow one another.
StartApply(a) ==
  /\ pc[a] = "idle"
  /\ \A j \in Runners : RunOf[j] = RunOf[a] => pc[j] \notin Active
  /\ pc' = [pc EXCEPT ![a] = "apply"]
  /\ UNCHANGED <<aws, tf, mine, deaths, ghosts>>

LockForApply(a) ==
  /\ Take(a, "apply", "applying")
  /\ UNCHANGED <<aws, state, mine, deaths, ghosts>>

ApplyFindsLock(a) ==
  /\ pc[a] = "apply" /\ lock # {}
  /\ pc' = [pc EXCEPT ![a] = "over"]
  /\ UNCHANGED <<aws, tf, mine, deaths, ghosts>>

\* Terraform refreshes first: what the state holds and AWS no longer has is
\* created again, what both have is left alone.  A name taken by a resource
\* outside the state fails the apply (FinishApply).
Create(a, r) ==
  LET known == (state \cap live) \cup built[a] IN
  /\ pc[a] = "applying"
  /\ r \notin live /\ Needs[r] \subseteq known
  /\ \A m \in known : Config[m] # Config[r]
  /\ live' = live \cup {r}
  /\ built' = [built EXCEPT ![a] = @ \cup {r}]
  /\ since' = [d \in Destroys |-> since[d] \cup {r}]
  /\ after' = [d \in Destroys |-> after[d] \cup {r}]
  /\ UNCHANGED <<index, tf, seen, plan, ok, pc, deaths, hidden, torn>>

\* Terraform persists what it has every so often.
Save(a) ==
  /\ pc[a] = "applying" /\ built[a] # {}
  /\ state' = state \cup built[a]
  /\ built' = [built EXCEPT ![a] = {}]
  /\ UNCHANGED <<aws, lock, held, seen, plan, ok, pc, deaths, ghosts>>

FinishApply(a) ==
  /\ pc[a] = "applying"
  /\ state' = state \cup built[a]
  /\ built' = [built EXCEPT ![a] = {}]
  /\ Release(a)
  /\ pc' = [pc EXCEPT ![a] = "over"]
  /\ UNCHANGED <<aws, seen, plan, ok, deaths, ghosts>>

DeskTakes(k)  == Take(k, "idle", "applying") /\ UNCHANGED <<aws, state, mine, deaths, ghosts>>
DeskLeaves(k) == /\ pc[k] = "applying" /\ Release(k)
                 /\ pc' = [pc EXCEPT ![k] = "idle"]
                 /\ UNCHANGED <<aws, state, mine, deaths, ghosts>>

\* A role: nothing finds its policies but its own adoption.
Hung(r) == Arn[r].kind \in UnindexedKinds

\* Cancelled or timed out: the lock stays, what was not saved is an orphan.
Die(j) ==
  /\ pc[j] \in Active /\ deaths < Deaths
  /\ deaths' = deaths + 1
  /\ pc' = [pc EXCEPT ![j] = "over"]
  /\ held' = [held EXCEPT ![j] = {}]
  /\ built' = [built EXCEPT ![j] = {}]
  /\ seen' = [d \in Destroys |-> IF d = j THEN {} ELSE seen[d]]
  /\ plan' = [d \in Destroys |-> IF d = j THEN {} ELSE plan[d]]
  /\ torn' = (torn \/ \E r \in state, p \in live \ state : r \in Needs[p] /\ Hung(r))
  /\ UNCHANGED <<aws, state, lock, ok, since, after, hidden>>

IndexCatchesUp ==
  /\ \/ \E r \in Indexed \cap (live \ index) : index' = index \cup {r}
     \/ \E r \in index \ live : index' = index \ {r}
  /\ UNCHANGED <<live, tf, mine, pc, deaths, ghosts>>

----------------------------------------------------------------------------
(* destroy.yml, step by step.  A step that fails skips to those marked     *)
(* if: always(), the verification and the sweep.                           *)

Start(d) ==
  /\ pc[d] = "idle" \/ (d \in Restarting /\ pc[d] \in {"over", "green", "red"})
  /\ \A j \in Runners \ {d} : RunOf[j] = RunOf[d] => pc[j] \notin Active
  /\ pc' = [pc EXCEPT ![d] = "break"]
  /\ ok' = [ok EXCEPT ![d] = TRUE]
  /\ since' = [since EXCEPT ![d] = {}]
  /\ after' = [after EXCEPT ![d] = {}]
  /\ hidden' = [hidden EXCEPT ![d] = {}]
  /\ UNCHANGED <<aws, tf, built, seen, plan, deaths, torn>>

\* The step d is at ends: with failure, or going on to the step next.
Ends(d, good, next) ==
  /\ pc' = [pc EXCEPT ![d] = IF good THEN next ELSE "verify"]
  /\ ok' = [ok EXCEPT ![d] = @ /\ good]

\* break-stale-state-lock.sh reads the lock.  A read that fails counts as no
\* lock; a lock of another user is refused.
ReadLock(d) ==
  /\ pc[d] = "break"
  /\ \/ /\ lock = {} \/ "get-object" \in Failing
        /\ Ends(d, TRUE, "adopt")
        /\ UNCHANGED seen
     \/ \E l \in lock :
          IF l.user = User(d)
          THEN Ends(d, TRUE, "ask") /\ seen' = [seen EXCEPT ![d] = {l}]
          ELSE Ends(d, FALSE, "ask") /\ UNCHANGED seen
  /\ UNCHANGED <<aws, tf, built, plan, deaths, ghosts>>

OthersInProgress(d) ==
  \E j \in Runners : RunOf[j] # RunOf[d] /\ pc[j] \in Active

\* It asks for other runs in progress; no answer is a refusal.
AskRuns(d) ==
  /\ pc[d] = "ask"
  /\ \/ Ends(d, ~OthersInProgress(d), "unlock")
     \/ "runs" \in Failing /\ Ends(d, FALSE, "unlock")
  /\ seen' = [seen EXCEPT ![d] = IF pc'[d] = "unlock" THEN @ ELSE {}]
  /\ UNCHANGED <<aws, tf, built, plan, deaths, ghosts>>

\* Bug: unlocks whatever is held by now.
UnlockAny(d) ==
  /\ pc[d] = "unlock"
  /\ lock' = {}
  /\ Ends(d, TRUE, "adopt")
  /\ seen' = [seen EXCEPT ![d] = {}]
  /\ UNCHANGED <<aws, state, held, built, plan, deaths, ghosts>>

\* terraform force-unlock names the id, and fails when it is not the one held.
ForceUnlock(d) ==
  /\ pc[d] = "unlock"
  /\ lock' = lock \ seen[d]
  /\ Ends(d, seen[d] \cap lock # {}, "adopt")
  /\ seen' = [seen EXCEPT ![d] = {}]
  /\ UNCHANGED <<aws, state, held, built, plan, deaths, ghosts>>

----------------------------------------------------------------------------
(* sweep-orphans.sh and adopt-orphans.sh.                                  *)

Discovered == index \cup Declared

\* Each discovered resource is put to the service that owns it; a call that
\* fails leaves a role unconfirmed and reads as "not there" for every other kind.
Swept(silent, lost) ==
  DecideSweep(Discovered, silent, state, (Discovered \cap live) \ lost,
              {r \in lost : Arn[r].kind \in UnindexedKinds})

\* The decisions the sweep may come to.
Decisions ==
  {Swept(silent, lost) :
     silent \in {FALSE} \cup (IF "tagging" \in Failing THEN {TRUE} ELSE {}),
     lost \in IF "describe" \in Failing THEN SUBSET Discovered ELSE {{}}}

\* adopt-orphans.sh plans the imports of what the sweep reports, and of what
\* must travel with it; a sweep that refuses ends the step.
Adopt(d) ==
  /\ pc[d] = "adopt"
  /\ \E decision \in Decisions :
       LET p == Plan(decision.orphans) IN
       /\ plan' = [plan EXCEPT ![d] =
                     p.adopt \cup {r \in Resource : Config[r] \in p.dependents}]
       /\ Ends(d, decision.verdict # "refuse", "import")
  /\ UNCHANGED <<aws, tf, built, seen, deaths, ghosts>>

\* One terraform import; it needs the lock, and one that fails is skipped.
Import(d, r) ==
  /\ pc[d] = "import" /\ r \in plan[d]
  /\ plan' = [plan EXCEPT ![d] = @ \ {r}]
  /\ IF lock = {} /\ r \in live /\ \A m \in state : Config[m] # Config[r]
     THEN /\ state' = state \cup {r}
          /\ since' = [e \in Destroys |-> since[e] \cup {r}]
     ELSE UNCHANGED <<state, since>>
  /\ UNCHANGED <<aws, lock, held, built, seen, ok, pc, deaths, after, hidden, torn>>

ImportsDone(d) ==
  /\ pc[d] = "import" /\ plan[d] = {}
  /\ pc' = [pc EXCEPT ![d] = "destroy"]
  /\ UNCHANGED <<aws, tf, mine, deaths, ghosts>>

----------------------------------------------------------------------------
(* The destroy itself, and the two gates after it.                         *)

LockForDestroy(d) ==
  /\ Take(d, "destroy", "destroying")
  /\ UNCHANGED <<aws, state, mine, deaths, ghosts>>

DestroyFindsLock(d) ==
  /\ pc[d] = "destroy" /\ lock # {}
  /\ Ends(d, FALSE, "verify")
  /\ UNCHANGED <<aws, tf, built, seen, plan, deaths, ghosts>>

\* What AWS would not refuse to delete.
Deletable(r) == \A s \in live : r \notin Needs[s]

\* Saved at once, or with the end of the command: a job killed in between
\* leaves a resource in the state that exists no more.
Delete(d, r) ==
  /\ pc[d] = "destroying" /\ r \in state \cap live /\ Deletable(r)
  /\ live' = live \ {r}
  /\ state' \in {state, state \ {r}}
  /\ UNCHANGED <<index, lock, held, mine, pc, deaths, ghosts>>

\* Nothing more can be deleted; anything that is left is an error.
FinishDestroy(d) ==
  /\ pc[d] = "destroying"
  /\ \A r \in state \cap live : ~Deletable(r)
  /\ state' = state \cap live
  /\ Release(d)
  /\ Ends(d, state \cap live = {}, "verify")
  /\ since' = [since EXCEPT ![d] = {}]
  /\ UNCHANGED <<aws, built, seen, plan, deaths, after, hidden, torn>>

\* Lists what bills, without asking the state.
Verify(d) ==
  /\ pc[d] = "verify"
  /\ pc' = [pc EXCEPT ![d] = "sweep"]
  /\ ok' = [ok EXCEPT ![d] = @ /\ live \cap Billable = {}]
  /\ after' = [after EXCEPT ![d] = {}]
  /\ UNCHANGED <<aws, tf, built, seen, plan, deaths, since, hidden, torn>>

FinalSweep(d) ==
  /\ pc[d] = "sweep"
  /\ \E decision \in Decisions :
       pc' = [pc EXCEPT ![d] = IF ok[d] /\ decision.verdict = "clean"
                               THEN "green" ELSE "red"]
  /\ hidden' = [hidden EXCEPT ![d] = (live \cap Indexed) \ index]
  /\ UNCHANGED <<aws, tf, mine, deaths, since, after, torn>>

----------------------------------------------------------------------------
Apply(a) == \/ StartApply(a) \/ LockForApply(a) \/ ApplyFindsLock(a)
            \/ (\E r \in Resource : Create(a, r)) \/ Save(a) \/ FinishApply(a)
Destroy(d) == \/ Start(d) \/ ReadLock(d) \/ AskRuns(d) \/ ForceUnlock(d)
              \/ Adopt(d) \/ (\E r \in Resource : Import(d, r)) \/ ImportsDone(d)
              \/ LockForDestroy(d) \/ DestroyFindsLock(d)
              \/ (\E r \in Resource : Delete(d, r)) \/ FinishDestroy(d)
              \/ Verify(d) \/ FinalSweep(d)
Desk(k) == DeskTakes(k) \/ DeskLeaves(k)

Next == \/ \E a \in Applies : Apply(a)
        \/ \E d \in Destroys : Destroy(d)
        \/ \E k \in Desks : Desk(k)
        \/ \E j \in Runners : Die(j)
        \/ IndexCatchesUp

Spec == Init /\ [][Next]_vars

\* A job that has started goes on until it ends or dies (an ended one is
\* run again if it is in Restarting), and the tagging API catches up.
FairSpec == /\ Spec
            /\ \A a \in Applies : WF_vars(Apply(a))
            /\ \A d \in Destroys : WF_vars(Destroy(d))
            /\ WF_vars(IndexCatchesUp)

----------------------------------------------------------------------------
(* Properties.                                                             *)

TypeOK ==
  /\ live \subseteq Resource /\ index \subseteq Resource /\ state \subseteq Resource
  /\ lock \subseteq [id : LockIds, user : {"runner", "ubuntu"}]
  /\ pc \in [Jobs -> Active \cup {"idle", "over", "green", "red"}]
  /\ held \in [Jobs -> SUBSET LockIds]
  /\ built \in [Jobs -> SUBSET Resource]
  /\ seen \in [Destroys -> SUBSET [id : LockIds, user : {"runner", "ubuntu"}]]
  /\ plan \in [Destroys -> SUBSET Resource]
  /\ ok \in [Destroys -> BOOLEAN]
  /\ deaths \in 0..Deaths
  /\ since \in [Destroys -> SUBSET Resource]
  /\ after \in [Destroys -> SUBSET Resource]
  /\ hidden \in [Destroys -> SUBSET Resource]
  /\ torn \in BOOLEAN

\* Two jobs never write one state file at once, although a teardown breaks
\* locks it did not take: the lock is read before the other runs are asked
\* for, and force-unlock names the id that was read
\* (break-stale-state-lock.sh:17-34).
Writing(j) == pc[j] \in {"applying", "destroying"}
OneWriter == \A j, k \in Jobs : Writing(j) /\ Writing(k) => j = k

\* A green teardown left nothing behind: what exists was created after its
\* destroy, or brought into the state after it by another teardown, or was not
\* yet in the tagging API's index when it swept, or was taken for one of the
\* former by the end of its ARN; or it hangs on such a one.  And nothing that
\* bills predates the verification (destroy.yml:223-343).
Mistaken(r, known) == Arn[r].tail \in Identifiers(known)
Explained(d) == since[d] \cup hidden[d] \cup {r \in Resource : Mistaken(r, since[d])}
GreenMeansGone ==
  \A d \in Destroys : pc[d] = "green" =>
    /\ \A r \in live \ Explained(d) : Needs[r] \cap Explained(d) # {}
    /\ live \cap Billable \subseteq after[d]

\* The same, and every variable has its type.
GreenHolds == TypeOK /\ GreenMeansGone

\* Whatever killed jobs left, running the teardown again and again removes it
\* all, unless a job died between a role and what hangs on it
\* (adopt-orphans.sh:1-19).
Recovers == <>[](live = {} \/ torn)

\* "So the destroy that follows can remove them and everything that depends
\* on them" (adopt-orphans.sh:3-4), whenever the jobs before it were killed.
AlwaysRecovers == <>[](live = {})

\* A lock object nobody could read is refused, not taken for no lock
\* (break-stale-state-lock.sh:31).
UnreadableRefuses ==
  [][\A d \in Destroys : pc[d] = "break" /\ pc'[d] = "adopt" => lock = {}]_vars

\* The sweep names what exists, was found and is not in the state, and is
\* not talked out of it (sweep_orphans.py:162-173).
SweepNamesOrphans ==
  \A d \in Destroys : pc[d] = "adopt" =>
    \A decision \in Decisions :
      {r \in (Discovered \cap live) \ state : HasAddress(r)} \subseteq decision.orphans
=============================================================================
