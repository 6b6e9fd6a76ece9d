----------------------------- MODULE Promotion -----------------------------
(***************************************************************************)
(* Releases reaching prod: .github/workflows/promote-prod.yml, as the      *)
(* promote job of a cycle and as a run of the owner's own.  The workflow   *)
(* declares no concurrency group, so two of its jobs may run at once; only *)
(* terraform's state lock keeps their applies apart.                       *)
(*                                                                         *)
(* A release is one digest per service under one tag.  Terraform replaces  *)
(* the services one after the other, any step may fail, and a job may be   *)
(* cancelled or lose its runner between two of its calls.                  *)
(***************************************************************************)
EXTENDS FiniteSets, Naturals

CONSTANTS
  Promotions,    \* jobs that run the workflow
  Services,      \* services.json
  Tag,           \* Tag[p]: the release p is asked to promote
  OldRelease,    \* the release the rollback pointer may name at the start
  Nothing        \* no task definition; no pointer

ASSUME PromotionAssumption ==
  /\ Services # {} /\ DOMAIN Tag = Promotions
  /\ Nothing \notin {Tag[p] : p \in Promotions} \cup {OldRelease}

VARIABLES
  prod,      \* service -> the release its task definition names
  holder,    \* the job that holds prod's state lock: at most one
  pointer,   \* the SSM parameter: service -> release, or nobody
  images,    \* service -> the releases whose image is in its repository
  at,        \* where each job is
  target,    \* the pointer each job read, if it arms a rollback
  todo,      \* the services an apply has left to replace
  smoke,     \* "none", "green" or "red": the outcome of the smoke step
  verdict,   \* "none", or how the job ended
  proven,    \* history: what prod ran when a smoke was green
  meddled,   \* history: jobs between whose apply and record prod was changed
  torn       \* history: the last apply to prod ended half way

promotion == <<prod, holder, pointer, images, at, target, todo, smoke, verdict,
               proven, meddled, torn>>

Releases == {Tag[p] : p \in Promotions} \cup {OldRelease}
Whole(r) == [s \in Services |-> r]
Down     == Whole(Nothing)

At == {"idle", "resolve", "pointer", "apply", "applying", "settle", "smoke",
       "record", "tag", "rollback", "reapply", "reapplying", "prove", "over"}

PromotionTypeOK ==
  /\ prod \in [Services -> Releases \cup {Nothing}]
  /\ holder \subseteq Promotions /\ Cardinality(holder) <= 1
  /\ \A t \in target : t.job \in Promotions /\ t.set \in [Services -> Releases]
  /\ DOMAIN pointer \subseteq Services
  /\ images \in [Services -> SUBSET Releases]
  /\ at \in [Promotions -> At]
  /\ todo \in [Promotions -> SUBSET Services]
  /\ smoke \in [Promotions -> {"none", "green", "red"}]
  /\ verdict \in [Promotions -> {"none", "success", "failure", "cancelled"}]

\* The pointer may be of an earlier shape, before the application was split.
PromotionInit ==
  /\ prod = Down /\ holder = {} /\ torn = FALSE
  /\ \E named \in SUBSET Services : pointer = [s \in named |-> OldRelease]
  /\ images = [s \in Services |-> {OldRelease}]
  /\ at = [p \in Promotions |-> "idle"]
  /\ target = {} /\ proven = {} /\ meddled = {}
  /\ todo = [p \in Promotions |-> {}]
  /\ smoke = [p \in Promotions |-> "none"]
  /\ verdict = [p \in Promotions |-> "none"]

Goto(p, next) == at' = [at EXCEPT ![p] = next]
End(p, how)   == /\ at' = [at EXCEPT ![p] = "over"]
                 /\ verdict' = [verdict EXCEPT ![p] = how]

-----------------------------------------------------------------------------
(* The registry                                                            *)

\* A build pushes one image per service; a killed one pushed some of them.
Push(s, r) ==
  /\ images' = [images EXCEPT ![s] = @ \cup {r}]
  /\ UNCHANGED <<prod, holder, pointer, at, target, todo, smoke, verdict, proven, meddled, torn>>

\* The lifecycle policy expires images by count.
Expire(s, r) ==
  /\ r \in images[s]
  /\ images' = [images EXCEPT ![s] = @ \ {r}]
  /\ UNCHANGED <<prod, holder, pointer, at, target, todo, smoke, verdict, proven, meddled, torn>>

-----------------------------------------------------------------------------
(* The job, step by step                                                   *)

BeginPromotion(p) ==
  /\ at[p] = "idle" /\ Goto(p, "resolve")
  /\ UNCHANGED <<prod, holder, pointer, images, target, todo, smoke, verdict, proven, meddled, torn>>

\* Bug: the smoke's outcome is not asked for, any failure after the apply
\* rolls back.
ArmedByFailure(p) == TRUE

\* Prod was changed, and did not prove itself healthy.
ArmedBy(p) == smoke[p] # "green"

\* A failed step skips the rest, and after a successful apply arms the rollback.
StepFails(p) ==
  /\ at[p] \in {"resolve", "pointer", "settle", "record"}
  /\ IF at[p] \in {"settle", "record"} /\ ArmedBy(p)
     THEN Goto(p, "rollback") /\ UNCHANGED verdict
     ELSE End(p, "failure")
  /\ UNCHANGED <<prod, holder, pointer, images, target, todo, smoke, proven, meddled, torn>>

\* service-images.sh tag: the tag is in every repository, or the step fails.
Resolve(p) ==
  /\ at[p] = "resolve" /\ \A s \in Services : Tag[p] \in images[s]
  /\ Goto(p, "pointer")
  /\ UNCHANGED <<prod, holder, pointer, images, target, todo, smoke, verdict, proven, meddled, torn>>

\* Read before the apply; only a release of every service arms a rollback.
ReadPointer(p) ==
  /\ at[p] = "pointer"
  /\ target' = target \cup (IF DOMAIN pointer = Services
                            THEN {[job |-> p, set |-> pointer]} ELSE {})
  /\ Goto(p, "apply")
  /\ UNCHANGED <<prod, holder, pointer, images, todo, smoke, verdict, proven, meddled, torn>>

\* Bug: terraform runs with -lock=false.
LockAnyway(p, from, to) ==
  /\ at[p] = from
  /\ holder' = holder \cup {p} /\ Goto(p, to)
  /\ todo' = [todo EXCEPT ![p] = Services]
  /\ UNCHANGED <<prod, pointer, images, target, smoke, verdict, proven, meddled, torn>>

\* terraform takes the state lock, or fails before it changes anything: the
\* lock is held, or the plan is stale.
Lock(p, from, to) ==
  /\ at[p] = from
  /\ \/ /\ holder = {} /\ holder' = {p} /\ Goto(p, to)
        /\ todo' = [todo EXCEPT ![p] = Services]
        /\ UNCHANGED verdict
     \/ /\ End(p, "failure")
        /\ UNCHANGED <<holder, todo>>
  /\ UNCHANGED <<prod, pointer, images, target, smoke, proven, meddled, torn>>

Given(p, s) ==
  IF at[p] = "applying" THEN Tag[p] ELSE (CHOOSE t \in target : t.job = p).set[s]

\* One service is replaced.
Replace(p, s) ==
  /\ at[p] \in {"applying", "reapplying"} /\ s \in todo[p]
  /\ prod' = [prod EXCEPT ![s] = Given(p, s)]
  /\ todo' = [todo EXCEPT ![p] = @ \ {s}]
  /\ meddled' = meddled \cup {q \in Promotions \ {p} : at[q] \in {"settle", "smoke", "record"}}
  /\ UNCHANGED <<holder, pointer, images, at, target, smoke, verdict, proven, torn>>

\* A failed apply arms nothing: what it replaced stays replaced.
EndApply(p) ==
  /\ at[p] \in {"applying", "reapplying"}
  /\ \/ /\ todo[p] = {} /\ Goto(p, IF at[p] = "applying" THEN "settle" ELSE "prove")
        /\ UNCHANGED verdict
     \/ End(p, "failure")
  /\ torn' = (todo[p] # {})
  /\ holder' = {}
  /\ todo' = [todo EXCEPT ![p] = {}]
  /\ UNCHANGED <<prod, pointer, images, target, smoke, proven, meddled>>

\* Bug: the release is recorded before it is smoked.
RecordEarly(p) ==
  /\ at[p] = "settle" /\ Goto(p, "smoke")
  /\ pointer' = Whole(Tag[p])
  /\ UNCHANGED <<prod, holder, images, target, todo, smoke, verdict, proven, meddled, torn>>

\* Outputs, the two waits, the migrations and the seed.
Settle(p) ==
  /\ at[p] = "settle" /\ Goto(p, "smoke")
  /\ UNCHANGED <<prod, holder, pointer, images, target, todo, smoke, verdict, proven, meddled, torn>>

\* The smoke sees what prod runs by now.
Smoke(p) ==
  /\ at[p] = "smoke"
  /\ \/ /\ \A s \in Services : prod[s] # Nothing
        /\ smoke' = [smoke EXCEPT ![p] = "green"]
        /\ proven' = proven \cup {prod}
        /\ Goto(p, "record")
     \/ /\ smoke' = [smoke EXCEPT ![p] = "red"]
        /\ Goto(p, "rollback")
        /\ UNCHANGED proven
  /\ UNCHANGED <<prod, holder, pointer, images, target, todo, verdict, meddled, torn>>

\* The set becomes the pointer, in one put.
Record(p) ==
  /\ at[p] = "record" /\ Goto(p, "tag")
  /\ pointer' = Whole(Tag[p])
  /\ UNCHANGED <<prod, holder, images, target, todo, smoke, verdict, proven, meddled, torn>>

\* A record, not a gate: continue-on-error.
TagRelease(p) ==
  /\ at[p] = "tag" /\ End(p, "success")
  /\ UNCHANGED <<prod, holder, pointer, images, target, todo, smoke, proven, meddled, torn>>

\* Bug: the services whose image is gone are left as they are.
RollbackRest(p) ==
  /\ at[p] = "rollback"
  /\ IF \E t \in target : t.job = p
     THEN Goto(p, "reapply") /\ UNCHANGED verdict /\ target' =
            {IF t.job # p THEN t
             ELSE [t EXCEPT !.set = [s \in Services |-> IF @[s] \in images[s] THEN @[s] ELSE Tag[p]]]
             : t \in target}
     ELSE End(p, "failure") /\ UNCHANGED target
  /\ UNCHANGED <<prod, holder, pointer, images, todo, smoke, proven, meddled, torn>>

\* The set rolls back or nothing does: every digest must still exist.
ResolveRollback(p) ==
  /\ at[p] = "rollback"
  /\ IF \E t \in target : t.job = p /\ \A s \in Services : t.set[s] \in images[s]
     THEN Goto(p, "reapply") /\ UNCHANGED verdict
     ELSE End(p, "failure")
  /\ UNCHANGED <<prod, holder, pointer, images, target, todo, smoke, proven, meddled, torn>>

\* Nothing turns this run green again, whatever the second smoke says.
Prove(p) ==
  /\ at[p] = "prove" /\ End(p, "failure")
  /\ proven' \in {proven} \cup (IF Nothing \in {prod[s] : s \in Services}
                                THEN {} ELSE {proven \cup {prod}})
  /\ UNCHANGED <<prod, holder, pointer, images, target, todo, smoke, meddled, torn>>

\* Cancelled, or the runner is lost: failure() is false, so nothing is rolled
\* back, and an apply may leave the state lock behind.
StopPromotion(p, how) ==
  /\ at[p] \notin {"idle", "over"}
  /\ End(p, how)
  /\ torn' = IF at[p] \in {"applying", "reapplying"} THEN todo[p] # {} ELSE torn
  /\ holder' \in {holder, holder \ {p}}
  /\ todo' = [todo EXCEPT ![p] = {}]
  /\ UNCHANGED <<prod, pointer, images, target, smoke, proven, meddled>>

Promote(p) ==
  \/ StepFails(p) \/ Resolve(p) \/ ReadPointer(p)
  \/ Lock(p, "apply", "applying") \/ Lock(p, "reapply", "reapplying")
  \/ (\E s \in Services : Replace(p, s)) \/ EndApply(p)
  \/ Settle(p) \/ Smoke(p) \/ Record(p) \/ TagRelease(p)
  \/ ResolveRollback(p) \/ Prove(p)

\* destroy.yml over prod: a stale lock is broken first, and a live one refuses.
ProdInUse == \E p \in holder : at[p] # "over"
TearDownProd(gone) ==
  /\ ~ProdInUse
  /\ prod' = [s \in Services |-> IF s \in gone THEN Nothing ELSE prod[s]]
  /\ holder' = {}
  /\ meddled' = meddled \cup {q \in Promotions : at[q] \in {"settle", "smoke", "record"}}
  /\ UNCHANGED <<pointer, images, at, target, todo, smoke, verdict, proven, torn>>

\* The promotions by themselves: what jobs, builds, teardowns and the registry do.
PromotionNext ==
  \/ \E p \in Promotions :
       \/ BeginPromotion(p) \/ Promote(p)
       \/ \E how \in {"failure", "cancelled"} : StopPromotion(p, how)
  \/ \E gone \in SUBSET Services : TearDownProd(gone)
  \/ \E s \in Services, r \in Releases : Push(s, r) \/ Expire(s, r)

PromotionSpec == PromotionInit /\ [][PromotionNext]_promotion

-----------------------------------------------------------------------------
\* A rollback pointer names a release that prod ran as a whole when a smoke was
\* green (promote-prod.yml:273-294), and never a digest that was only about to
\* be proved; two promotions at once are the exception, since one of them may
\* smoke what the other one applied.
PointerProven ==
  \/ \A s \in DOMAIN pointer : pointer[s] = OldRelease
  \/ pointer \in proven
  \/ meddled # {}

\* Prod never stands on services of two releases, "a combination nobody ever
\* tested" (promote-prod.yml:130-137, 402-413): a rollback restores the set or
\* nothing.  Only an apply that is going on, or that ended half way, mixes.
ProdWhole ==
  (\A p \in Promotions : at[p] \notin {"applying", "reapplying"}) /\ ~torn
    => \A s, t \in Services : Nothing \in {prod[s], prod[t]} \/ prod[s] = prod[t]

\* A release that proved itself is not rolled back by the run that proved it,
\* whatever fails in that run afterwards (promote-prod.yml:405-411).
GreenStays ==
  [][\A p \in Promotions :
       smoke[p] = "green" /\ (at'[p] # at[p] \/ todo'[p] # todo[p]) => prod' = prod]_promotion
=============================================================================
