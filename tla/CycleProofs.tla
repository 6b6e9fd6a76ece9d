----------------------------- MODULE CycleProofs -----------------------------
(***************************************************************************)
(* Promotions and the unattended cycle, for any number of jobs, cycles,    *)
(* services, releases and losses.                                          *)
(*                                                                         *)
(* First the promotions beside each other: prod is never left on services  *)
(* of two releases, the rollback pointer names what a smoke proved, and a  *)
(* green release stays.  The invariant follows a release from terraform's  *)
(* lock, which lets one job replace services at a time, through what is    *)
(* replaced so far and the pointer read before, to the smoke and the       *)
(* record.                                                                 *)
(*                                                                         *)
(* A cycle is a run of promotions like any other, so all that holds of it. *)
(* On top of that: prod runs tested releases only, nothing a cycle created *)
(* is forgotten, and what a cycle tells those outside it is true.  That    *)
(* invariant is about the order the job graph imposes: a job that has left *)
(* "waiting" has seen the end of all it needs.                             *)
(***************************************************************************)
EXTENDS Cycle, TLAPS, FiniteSetTheorems

-----------------------------------------------------------------------------
(* The promotions                                                          *)

Changing(p) == at[p] \in {"applying", "reapplying"}
Judging(p)  == at[p] \in {"settle", "smoke", "record"}

\* Who replaces services holds the state lock, alone.
Locked ==
  /\ holder = {} \/ \E p \in Promotions : holder = {p}
  /\ \A p \in Promotions : Changing(p) => holder = {p}

\* The pointer is one release for all services, but for what it was at first.
PointerOfOne ==
  \/ \E named \in SUBSET Services : pointer = [s \in named |-> OldRelease]
  \/ \E p \in Promotions : pointer = Whole(Tag[p])

\* What a job read of it arms its rollback, once and for a whole release.
Armed ==
  /\ \A t \in target : /\ t.job \in Promotions
                       /\ at[t.job] \notin {"idle", "resolve", "pointer"}
                       /\ \E r \in Releases : t.set = Whole(r)
  /\ \A t, u \in target : t.job = u.job => t = u
  /\ \A p \in Promotions : at[p] \in {"reapply", "reapplying"} => \E t \in target : t.job = p

\* What an apply has replaced so far is what it was given.
Replaced ==
  \A p \in Promotions :
    /\ at[p] = "applying" => \A s \in Services \ todo[p] : prod[s] = Tag[p]
    /\ at[p] = "reapplying" =>
         \A t \in target : t.job = p => \A s \in Services \ todo[p] : prod[s] = t.set[s]

\* Between its apply and its record nobody else changed prod under a job.
Judged ==
  meddled = {} =>
    \A p \in Promotions :
      /\ Judging(p) => \A s \in Services : prod[s] = Tag[p]
      /\ at[p] = "record" => Whole(Tag[p]) \in proven

\* A job whose smoke was green goes on to its end without touching prod.
GreenGoesOn ==
  \A p \in Promotions : smoke[p] = "green" => at[p] \in {"record", "tag", "over"}

Ranges ==
  /\ prod \in [Services -> Releases \cup {Nothing}]
  /\ images \in [Services -> SUBSET Releases]
  /\ at \in [Promotions -> At]
  /\ todo \in [Promotions -> SUBSET Services]
  /\ smoke \in [Promotions -> {"none", "green", "red"}]
  /\ verdict \in [Promotions -> {"none", "success", "failure", "cancelled"}]

PromotionInv ==
  /\ Ranges /\ Locked /\ PointerOfOne /\ Armed /\ Replaced /\ Judged /\ GreenGoesOn
  /\ PointerProven /\ ProdWhole

-----------------------------------------------------------------------------
(* What the invariant says                                                 *)

LEMMA WholeOf ==
  ASSUME NEW R
  PROVE  \A r \in R : Whole(r) \in [Services -> R] /\ \A s \in Services : Whole(r)[s] = r
BY DEF Whole

LEMMA ReleaseOf ==
  /\ \A p \in Promotions : Tag[p] \in Releases
  /\ OldRelease \in Releases /\ Nothing \notin Releases
BY PromotionAssumption DEF Releases

LEMMA AtMostOne ==
  ASSUME NEW S, NEW T, S = {} \/ \E x \in T : S = {x}
  PROVE  Cardinality(S) <= 1 /\ S \subseteq T
<1>1. CASE S = {}
  BY <1>1, FS_EmptySet
<1>2. ASSUME NEW x \in T, S = {x}
      PROVE  Cardinality(S) <= 1 /\ S \subseteq T
  BY <1>2, FS_Singleton
<1> QED
  BY <1>1, <1>2

LEMMA InvTypes == PromotionInv => PromotionTypeOK
<1> SUFFICES ASSUME PromotionInv PROVE PromotionTypeOK
  OBVIOUS
<1>1. holder \subseteq Promotions /\ Cardinality(holder) <= 1
  BY AtMostOne DEF PromotionInv, Locked
<1>2. \A t \in target : t.job \in Promotions /\ t.set \in [Services -> Releases]
  BY WholeOf DEF PromotionInv, Armed
<1>3. DOMAIN pointer \subseteq Services
  BY DEF PromotionInv, PointerOfOne, Whole
<1> QED
  BY <1>1, <1>2, <1>3 DEF PromotionInv, Ranges, PromotionTypeOK

LEMMA InvInit == PromotionInit => PromotionInv
<1> SUFFICES ASSUME PromotionInit PROVE PromotionInv
  OBVIOUS
<1> USE DEF PromotionInit
<1>1. Ranges
  BY ReleaseOf DEF Ranges, Down, Whole, At
<1>2. Locked /\ Armed /\ Replaced /\ Judged /\ GreenGoesOn
  BY DEF Locked, Armed, Replaced, Judged, GreenGoesOn, Changing, Judging
<1>3. PointerOfOne /\ PointerProven
  BY DEF PointerOfOne, PointerProven
<1>4. ProdWhole
  BY DEF ProdWhole, Down, Whole
<1> QED
  BY <1>1, <1>2, <1>3, <1>4 DEF PromotionInv

-----------------------------------------------------------------------------
(* The steps                                                               *)

\* A job that is not replacing services goes on to another step; a smoke may
\* have proved something on the way.
LEMMA Moves ==
  ASSUME PromotionInv, NEW p \in Promotions, NEW x \in At,
         ~Changing(p), x \notin {"idle", "applying", "reapplying"},
         at' = [at EXCEPT ![p] = x],
         UNCHANGED <<prod, holder, pointer, images, target, todo, meddled, torn>>,
         proven \subseteq proven',
         smoke' \in [Promotions -> {"none", "green", "red"}],
         verdict' \in [Promotions -> {"none", "success", "failure", "cancelled"}],
         x \in {"resolve", "pointer"} => at[p] \in {"idle", "resolve", "pointer"},
         x = "reapply" => \E t \in target : t.job = p,
         x \in {"settle", "smoke", "record"} => Judging(p),
         x = "record" => Judging(p) /\ (meddled = {} => Whole(Tag[p]) \in proven'),
         \A q \in Promotions \ {p} : smoke'[q] = smoke[q],
         smoke'[p] = "green" => x \in {"record", "tag", "over"}
  PROVE  PromotionInv'
<1>0. at \in [Promotions -> At] /\ \A q \in Promotions : at'[q] = IF q = p THEN x ELSE at[q]
  BY DEF PromotionInv, Ranges
<1>1. Ranges' /\ PointerOfOne' /\ PointerProven'
  BY <1>0 DEF PromotionInv, Ranges, PointerOfOne, PointerProven, Whole
<1>2. Locked'
  BY <1>0 DEF PromotionInv, Locked, Changing
<1>3. Armed'
  BY <1>0 DEF PromotionInv, Armed, Whole, Releases
<1>4. Replaced'
  BY <1>0 DEF PromotionInv, Replaced
<1>5. Judged'
  BY <1>0 DEF PromotionInv, Judged, Judging, Whole
<1>6. GreenGoesOn'
  BY <1>0 DEF PromotionInv, GreenGoesOn
<1>7. ProdWhole'
  BY <1>0 DEF PromotionInv, ProdWhole, Changing
<1> QED
  BY <1>1, <1>2, <1>3, <1>4, <1>5, <1>6, <1>7 DEF PromotionInv

LEMMA BeginStep == ASSUME PromotionInv, NEW p \in Promotions, BeginPromotion(p) PROVE PromotionInv'
<1>1. smoke[p] # "green"
  BY DEF PromotionInv, GreenGoesOn, BeginPromotion
<1> QED
  BY <1>1, Moves DEF BeginPromotion, Goto, Changing, At, PromotionInv, Ranges

LEMMA FailStep == ASSUME PromotionInv, NEW p \in Promotions, StepFails(p) PROVE PromotionInv'
<1>1. ~Changing(p) /\ smoke \in [Promotions -> {"none", "green", "red"}]
  BY DEF PromotionInv, Ranges, StepFails, Changing
<1>2. CASE Goto(p, "rollback") /\ UNCHANGED verdict /\ ArmedBy(p)
  BY <1>1, <1>2, Moves DEF StepFails, Goto, ArmedBy, At, PromotionInv, Ranges
<1>3. CASE End(p, "failure")
  <2>1. verdict' \in [Promotions -> {"none", "success", "failure", "cancelled"}]
    BY <1>3 DEF End, PromotionInv, Ranges
  <2> QED
    BY <1>1, <1>3, <2>1, Moves DEF StepFails, End, At
<1> QED
  BY <1>2, <1>3 DEF StepFails

LEMMA ResolveStep == ASSUME PromotionInv, NEW p \in Promotions, Resolve(p) PROVE PromotionInv'
<1>1. smoke[p] # "green"
  BY DEF PromotionInv, GreenGoesOn, Resolve
<1> QED
  BY <1>1, Moves DEF Resolve, Goto, Changing, At, PromotionInv, Ranges

LEMMA SettleStep == ASSUME PromotionInv, NEW p \in Promotions, Settle(p) PROVE PromotionInv'
<1>1. smoke[p] # "green"
  BY DEF PromotionInv, GreenGoesOn, Settle
<1> QED
  BY <1>1, Moves DEF Settle, Goto, Changing, Judging, At, PromotionInv, Ranges

\* A smoke that is green under no other job's change saw the release alone.
LEMMA SmokeStep == ASSUME PromotionInv, NEW p \in Promotions, Smoke(p) PROVE PromotionInv'
<1>0. ~Changing(p) /\ Judging(p) /\ smoke \in [Promotions -> {"none", "green", "red"}]
  BY DEF PromotionInv, Ranges, Smoke, Changing, Judging
<1>1. CASE smoke' = [smoke EXCEPT ![p] = "green"] /\ proven' = proven \cup {prod} /\ Goto(p, "record")
  <2>1. meddled = {} => Whole(Tag[p]) \in proven'
    <3>1. meddled = {} => prod = Whole(Tag[p])
      BY <1>0 DEF PromotionInv, Ranges, Judged, Whole
    <3> QED
      BY <1>1, <3>1
  <2> QED
    BY <1>0, <1>1, <2>1, Moves DEF Smoke, Goto, At, PromotionInv, Ranges
<1>2. CASE smoke' = [smoke EXCEPT ![p] = "red"] /\ proven' = proven /\ Goto(p, "rollback")
  BY <1>0, <1>2, Moves DEF Smoke, Goto, At, PromotionInv, Ranges
<1> QED
  BY <1>1, <1>2 DEF Smoke

LEMMA TagStep == ASSUME PromotionInv, NEW p \in Promotions, TagRelease(p) PROVE PromotionInv'
<1>1. verdict' \in [Promotions -> {"none", "success", "failure", "cancelled"}]
  BY DEF TagRelease, End, PromotionInv, Ranges
<1> QED
  BY <1>1, Moves DEF TagRelease, End, Changing, At, PromotionInv, Ranges

LEMMA ResolveRollbackStep ==
  ASSUME PromotionInv, NEW p \in Promotions, ResolveRollback(p) PROVE PromotionInv'
<1>1. smoke[p] # "green" /\ ~Changing(p)
  BY DEF PromotionInv, GreenGoesOn, ResolveRollback, Changing
<1>2. CASE Goto(p, "reapply") /\ UNCHANGED verdict /\ \E t \in target : t.job = p
  BY <1>1, <1>2, Moves DEF ResolveRollback, Goto, At, PromotionInv, Ranges
<1>3. CASE End(p, "failure")
  <2>1. verdict' \in [Promotions -> {"none", "success", "failure", "cancelled"}]
    BY <1>3 DEF End, PromotionInv, Ranges
  <2> QED
    BY <1>1, <1>3, <2>1, Moves DEF ResolveRollback, End, At, PromotionInv, Ranges
<1> QED
  BY <1>2, <1>3 DEF ResolveRollback

LEMMA ProveStep == ASSUME PromotionInv, NEW p \in Promotions, Prove(p) PROVE PromotionInv'
<1>1. smoke[p] # "green" /\ ~Changing(p)
  BY DEF PromotionInv, GreenGoesOn, Prove, Changing
<1>2. verdict' \in [Promotions -> {"none", "success", "failure", "cancelled"}]
  BY DEF Prove, End, PromotionInv, Ranges
<1>3. proven \subseteq proven'
  BY DEF Prove
<1> QED
  BY <1>1, <1>2, <1>3, Moves DEF Prove, End, At, PromotionInv, Ranges

\* Only a release of every service arms a rollback, and it is read once.
LEMMA ReadPointerStep ==
  ASSUME PromotionInv, NEW p \in Promotions, ReadPointer(p) PROVE PromotionInv'
<1>0. /\ at \in [Promotions -> At] /\ "apply" \in At
      /\ \A q \in Promotions : at'[q] = IF q = p THEN "apply" ELSE at[q]
  BY DEF PromotionInv, Ranges, ReadPointer, Goto, At
<1>1. Ranges'
  BY <1>0 DEF PromotionInv, Ranges, ReadPointer, Goto, Releases
<1>2. PointerOfOne' /\ PointerProven' /\ Locked' /\ Judged' /\ ProdWhole'
  BY <1>0 DEF ReadPointer, PromotionInv, PointerOfOne, PointerProven, Locked, Judged, ProdWhole,
       Changing, Judging, Whole
<1>3. Armed'
  <2> DEFINE new == [job |-> p, set |-> pointer]
  <2>1. target' = target \/ (target' = target \cup {new} /\ DOMAIN pointer = Services)
    BY DEF ReadPointer
  <2>2. DOMAIN pointer = Services => \E r \in Releases : pointer = Whole(r)
    BY ReleaseOf DEF PromotionInv, PointerOfOne, Whole
  <2>3. \A t \in target : t.job # p
    BY DEF PromotionInv, Armed, ReadPointer
  <2>4. new.job = p /\ new.set = pointer
    OBVIOUS
  <2> HIDE DEF new
  <2>5. \A t \in target' : \/ t \in target
                           \/ t = new /\ \E r \in Releases : pointer = Whole(r)
    BY <2>1, <2>2
  <2>6. \A t \in target' : /\ t.job \in Promotions
                           /\ at'[t.job] \notin {"idle", "resolve", "pointer"}
                           /\ \E r \in Releases : t.set = Whole(r)
    BY <1>0, <2>4, <2>5 DEF PromotionInv, Armed
  <2>7. \A t, u \in target' : t.job = u.job => t = u
    BY <2>3, <2>4, <2>5 DEF PromotionInv, Armed
  <2>8. \A q \in Promotions : at'[q] \in {"reapply", "reapplying"} => \E t \in target' : t.job = q
    BY <1>0, <2>1 DEF PromotionInv, Armed
  <2> QED
    BY <2>6, <2>7, <2>8 DEF Armed, Releases, Whole
<1>4. Replaced'
  <2>1. \A t \in target' : t \in target \/ t.job = p
    BY DEF ReadPointer
  <2> QED
    BY <1>0, <2>1 DEF PromotionInv, Replaced, ReadPointer
<1>5. GreenGoesOn'
  BY <1>0 DEF PromotionInv, GreenGoesOn, ReadPointer
<1> QED
  BY <1>1, <1>2, <1>3, <1>4, <1>5 DEF PromotionInv

\* Terraform takes the lock while nobody holds it, with all services to do.
LEMMA LockStep ==
  ASSUME PromotionInv, NEW p \in Promotions,
         Lock(p, "apply", "applying") \/ Lock(p, "reapply", "reapplying")
  PROVE  PromotionInv'
<1>0. at[p] \in {"apply", "reapply"} /\ ~Changing(p)
  BY DEF Lock, Changing
<1>1. CASE End(p, "failure") /\ UNCHANGED <<holder, todo>>
  <2>1. verdict' \in [Promotions -> {"none", "success", "failure", "cancelled"}]
    BY <1>1 DEF End, PromotionInv, Ranges
  <2> QED
    BY <1>0, <1>1, <2>1, Moves DEF Lock, End, At, PromotionInv, Ranges
<1>2. ASSUME NEW to \in {"applying", "reapplying"},
             to = "reapplying" => at[p] = "reapply",
             holder = {}, holder' = {p}, Goto(p, to), todo' = [todo EXCEPT ![p] = Services],
             UNCHANGED <<prod, pointer, images, target, smoke, verdict, proven, meddled, torn>>
      PROVE  PromotionInv'
  <2>0. /\ at \in [Promotions -> At] /\ to \in At
        /\ \A q \in Promotions : at'[q] = IF q = p THEN to ELSE at[q]
        /\ \A q \in Promotions : todo'[q] = IF q = p THEN Services ELSE todo[q]
    BY <1>2 DEF PromotionInv, Ranges, Goto, At
  <2>1. Ranges'
    BY <1>2, <2>0 DEF PromotionInv, Ranges, Goto, Releases
  <2>2. Locked'
    BY <1>2, <2>0 DEF PromotionInv, Locked, Changing
  <2>3. PointerOfOne' /\ PointerProven'
    BY <1>2 DEF PromotionInv, PointerOfOne, PointerProven, Whole
  <2>4. Armed'
    BY <1>0, <1>2, <2>0 DEF PromotionInv, Armed, Releases, Whole
  <2>5. Replaced'
    BY <1>2, <2>0 DEF PromotionInv, Replaced
  <2>6. Judged' /\ ProdWhole'
    BY <1>2, <2>0 DEF PromotionInv, Judged, Judging, ProdWhole, Whole
  <2>7. GreenGoesOn'
    BY <1>0, <1>2, <2>0 DEF PromotionInv, GreenGoesOn
  <2> QED
    BY <2>1, <2>2, <2>3, <2>4, <2>5, <2>6, <2>7 DEF PromotionInv
<1>3. CASE Lock(p, "apply", "applying")
  BY <1>1, <1>2, <1>3 DEF Lock
<1>4. CASE Lock(p, "reapply", "reapplying")
  BY <1>1, <1>2, <1>4 DEF Lock
<1> QED
  BY <1>3, <1>4

\* What a job gives a service: its own release, or the one it read before.
LEMMA GivenRelease ==
  ASSUME PromotionInv, NEW p \in Promotions, Changing(p), NEW s \in Services
  PROVE  /\ at[p] = "applying" => Given(p, s) = Tag[p]
         /\ at[p] = "reapplying" => \A t \in target : t.job = p => Given(p, s) = t.set[s]
         /\ Given(p, s) \in Releases
<1>1. CASE at[p] = "applying"
  BY <1>1, ReleaseOf DEF Given
<1>2. CASE at[p] = "reapplying"
  <2> DEFINE mine == CHOOSE t \in target : t.job = p
  <2>1. mine \in target /\ mine.job = p
    BY <1>2 DEF PromotionInv, Armed
  <2>2. Given(p, s) = mine.set[s]
    BY <1>2 DEF Given
  <2>3. PICK r \in Releases : mine.set = Whole(r)
    BY <2>1 DEF PromotionInv, Armed
  <2>4. mine.set[s] \in Releases
    BY <2>3, WholeOf
  <2>5. \A t \in target : t.job = p => t = mine
    BY <2>1 DEF PromotionInv, Armed
  <2> HIDE DEF mine
  <2> QED
    BY <1>2, <2>2, <2>4, <2>5
<1> QED
  BY <1>1, <1>2 DEF Changing

\* One more service of the one job that holds the lock.
LEMMA ReplaceStep ==
  ASSUME PromotionInv, NEW p \in Promotions, NEW s \in Services, Replace(p, s)
  PROVE  PromotionInv'
<1>0. /\ Changing(p) /\ s \in todo[p]
      /\ \A q \in Promotions : Changing(q) => q = p
      /\ \A t \in Services : prod'[t] = IF t = s THEN Given(p, s) ELSE prod[t]
      /\ \A q \in Promotions : todo'[q] = IF q = p THEN todo[p] \ {s} ELSE todo[q]
      /\ \A q \in Promotions : Judging(q) => meddled' # {}
  BY DEF PromotionInv, Ranges, Locked, Replace, Changing, Judging
<1>1. Ranges'
  BY <1>0, GivenRelease DEF PromotionInv, Ranges, Replace, Releases
<1>2. Locked' /\ PointerOfOne' /\ Armed' /\ GreenGoesOn'
  BY DEF Replace, PromotionInv, Locked, PointerOfOne, Armed, GreenGoesOn, Changing, Whole, Releases
<1>3. PointerProven'
  BY DEF Replace, PromotionInv, PointerProven
<1>4. Replaced'
  <2>1. at[p] = "applying" => \A t \in Services \ todo'[p] : prod'[t] = Tag[p]
    BY <1>0, GivenRelease DEF PromotionInv, Replaced
  <2>2. at[p] = "reapplying" =>
          \A t \in target : t.job = p => \A u \in Services \ todo'[p] : prod'[u] = t.set[u]
    BY <1>0, GivenRelease DEF PromotionInv, Replaced
  <2> QED
    BY <1>0, <2>1, <2>2 DEF Replace, Replaced, Changing
<1>5. Judged'
  BY <1>0 DEF Replace, Judged, Judging
<1>6. ProdWhole'
  BY DEF Replace, ProdWhole
<1> QED
  BY <1>1, <1>2, <1>3, <1>4, <1>5, <1>6 DEF PromotionInv

\* An apply with nothing left to do has made prod one release.
LEMMA DoneIsWhole ==
  ASSUME PromotionInv, NEW p \in Promotions, Changing(p), todo[p] = {}
  PROVE  /\ at[p] = "applying" => \A s \in Services : prod[s] = Tag[p]
         /\ \A s, t \in Services : prod[s] = prod[t]
<1>1. CASE at[p] = "applying"
  BY <1>1 DEF PromotionInv, Replaced
<1>2. CASE at[p] = "reapplying"
  <2>1. PICK t \in target : t.job = p
    BY <1>2 DEF PromotionInv, Armed
  <2>2. PICK r \in Releases : t.set = Whole(r)
    BY <2>1 DEF PromotionInv, Armed
  <2>3. \A s \in Services : prod[s] = r
    BY <1>2, <2>1, <2>2, WholeOf DEF PromotionInv, Replaced
  <2> QED
    BY <1>2, <2>3
<1> QED
  BY <1>1, <1>2 DEF Changing

\* Terraform ends, or is stopped: what it left half way is recorded as torn.
LEMMA Unlocks ==
  ASSUME PromotionInv, NEW p \in Promotions, NEW x \in {"settle", "prove", "over"},
         at[p] # "idle", Judging(p) => x = "over",
         at' = [at EXCEPT ![p] = x],
         x \in {"settle", "prove"} => Changing(p) /\ todo[p] = {},
         x = "settle" => at[p] = "applying",
         Changing(p) => torn' = (todo[p] # {}),
         ~Changing(p) => torn' = torn,
         holder' = {} \/ holder' = holder, Changing(p) \/ holder' \in {holder, holder \ {p}},
         todo' = [todo EXCEPT ![p] = {}],
         verdict' \in [Promotions -> {"none", "success", "failure", "cancelled"}],
         UNCHANGED <<prod, pointer, images, target, smoke, proven, meddled>>
  PROVE  PromotionInv'
<1>0. /\ at \in [Promotions -> At] /\ x \in At
      /\ \A q \in Promotions : at'[q] = IF q = p THEN x ELSE at[q]
      /\ \A q \in Promotions : q # p => todo'[q] = todo[q]
  BY DEF PromotionInv, Ranges, At
<1>1. Ranges'
  BY <1>0 DEF PromotionInv, Ranges, Releases
<1>2. Locked'
  BY <1>0 DEF PromotionInv, Locked, Changing
<1>3. PointerOfOne' /\ PointerProven'
  BY DEF PromotionInv, PointerOfOne, PointerProven, Whole
<1>4. Armed'
  BY <1>0 DEF PromotionInv, Armed, Releases, Whole, Changing
<1>5. Replaced'
  BY <1>0 DEF PromotionInv, Replaced
<1>6. Judged'
  BY <1>0, DoneIsWhole DEF PromotionInv, Judged, Judging, Whole
<1>7. GreenGoesOn'
  <2>1. smoke[p] = "green" => ~Changing(p)
    BY DEF PromotionInv, GreenGoesOn, Changing
  <2> QED
    BY <1>0, <2>1 DEF PromotionInv, GreenGoesOn
<1>8. ProdWhole'
  <2>1. CASE Changing(p)
    BY <2>1, DoneIsWhole DEF ProdWhole
  <2>2. CASE ~Changing(p)
    BY <1>0, <2>2 DEF PromotionInv, ProdWhole, Changing
  <2> QED
    BY <2>1, <2>2
<1> QED
  BY <1>1, <1>2, <1>3, <1>4, <1>5, <1>6, <1>7, <1>8 DEF PromotionInv

LEMMA EndApplyStep == ASSUME PromotionInv, NEW p \in Promotions, EndApply(p) PROVE PromotionInv'
<1>0. Changing(p) /\ ~Judging(p) /\ at[p] # "idle"
  BY DEF EndApply, Changing, Judging
<1>1. CASE todo[p] = {} /\ Goto(p, IF at[p] = "applying" THEN "settle" ELSE "prove") /\ UNCHANGED verdict
  <2>1. CASE at[p] = "applying"
    BY <1>0, <1>1, <2>1, Unlocks DEF EndApply, Goto, PromotionInv, Ranges
  <2>2. CASE at[p] # "applying"
    BY <1>0, <1>1, <2>2, Unlocks DEF EndApply, Goto, PromotionInv, Ranges
  <2> QED
    BY <2>1, <2>2
<1>2. CASE End(p, "failure")
  <2>1. verdict' \in [Promotions -> {"none", "success", "failure", "cancelled"}]
    BY <1>2 DEF End, PromotionInv, Ranges
  <2> QED
    BY <1>0, <1>2, <2>1, Unlocks DEF EndApply, End
<1> QED
  BY <1>1, <1>2 DEF EndApply

LEMMA StopStep ==
  ASSUME PromotionInv, NEW p \in Promotions, NEW how \in {"failure", "cancelled"},
         StopPromotion(p, how)
  PROVE  PromotionInv'
<1>1. verdict' \in [Promotions -> {"none", "success", "failure", "cancelled"}]
  BY DEF StopPromotion, End, PromotionInv, Ranges
<1>2. holder' = {} \/ holder' = holder
  BY DEF StopPromotion, PromotionInv, Locked
<1>3. /\ at[p] # "idle" /\ at' = [at EXCEPT ![p] = "over"]
      /\ Changing(p) => torn' = (todo[p] # {})
      /\ ~Changing(p) => torn' = torn
      /\ holder' \in {holder, holder \ {p}} /\ todo' = [todo EXCEPT ![p] = {}]
      /\ UNCHANGED <<prod, pointer, images, target, smoke, proven, meddled>>
  BY DEF StopPromotion, End, Changing
<1> QED
  BY <1>1, <1>2, <1>3, Unlocks

\* The record: what the smoke proved becomes the pointer.
LEMMA RecordStep == ASSUME PromotionInv, NEW p \in Promotions, Record(p) PROVE PromotionInv'
<1>0. /\ at \in [Promotions -> At] /\ "tag" \in At
      /\ \A q \in Promotions : at'[q] = IF q = p THEN "tag" ELSE at[q]
  BY DEF PromotionInv, Ranges, Record, Goto, At
<1>1. Ranges' /\ GreenGoesOn'
  BY <1>0 DEF PromotionInv, Ranges, Record, Goto, GreenGoesOn, Releases
<1>2. Locked' /\ Armed' /\ Replaced' /\ ProdWhole'
  BY <1>0 DEF Record, PromotionInv, Locked, Armed, Replaced, ProdWhole, Changing, Releases, Whole
<1>3. Judged'
  BY <1>0 DEF Record, PromotionInv, Judged, Judging, Whole
<1>4. PointerOfOne'
  BY DEF Record, PointerOfOne, Whole
<1>5. PointerProven'
  BY DEF Record, PromotionInv, Judged, PointerProven, Whole
<1> QED
  BY <1>1, <1>2, <1>3, <1>4, <1>5 DEF PromotionInv

\* A teardown finds no apply going on, and only takes services away.
LEMMA TearDownStep ==
  ASSUME PromotionInv, NEW gone \in SUBSET Services, TearDownProd(gone)
  PROVE  PromotionInv'
<1>0. \A p \in Promotions : ~Changing(p)
  BY DEF TearDownProd, ProdInUse, PromotionInv, Locked, Changing
<1>1. Ranges' /\ GreenGoesOn'
  BY DEF PromotionInv, Ranges, TearDownProd, GreenGoesOn, Releases
<1>2. Locked' /\ Armed' /\ Replaced' /\ PointerOfOne' /\ PointerProven'
  BY <1>0 DEF TearDownProd, PromotionInv, Locked, Armed, Replaced, PointerOfOne, PointerProven,
       Changing, Releases, Whole
<1>3. Judged'
  BY DEF TearDownProd, PromotionInv, Judged, Judging
<1>4. ProdWhole'
  BY DEF TearDownProd, PromotionInv, ProdWhole
<1> QED
  BY <1>1, <1>2, <1>3, <1>4 DEF PromotionInv

\* Only the registry changes, if anything does.
LEMMA RestStands ==
  ASSUME PromotionInv, images' \in [Services -> SUBSET Releases],
         UNCHANGED <<prod, holder, pointer, at, target, todo, smoke, verdict, proven, meddled, torn>>
  PROVE  PromotionInv'
<1>1. Ranges' /\ GreenGoesOn' /\ Locked' /\ Judged'
  BY DEF PromotionInv, Ranges, GreenGoesOn, Locked, Judged, Changing, Judging, Releases, Whole
<1>2. Armed' /\ Replaced' /\ ProdWhole'
  BY DEF PromotionInv, Armed, Replaced, ProdWhole, Releases, Whole
<1>3. PointerOfOne' /\ PointerProven'
  BY DEF PromotionInv, PointerOfOne, PointerProven, Whole
<1> QED
  BY <1>1, <1>2, <1>3 DEF PromotionInv

LEMMA RegistryStep ==
  ASSUME PromotionInv, NEW s \in Services, NEW r \in Releases, Push(s, r) \/ Expire(s, r)
  PROVE  PromotionInv'
<1>1. images' \in [Services -> SUBSET Releases]
  BY DEF Push, Expire, PromotionInv, Ranges
<1>2. UNCHANGED <<prod, holder, pointer, at, target, todo, smoke, verdict, proven, meddled, torn>>
  BY DEF Push, Expire
<1> QED
  BY <1>1, <1>2, RestStands

LEMMA StandsStill == ASSUME PromotionInv, UNCHANGED promotion PROVE PromotionInv'
BY RestStands DEF promotion, PromotionInv, Ranges

LEMMA PromoteStepKeeps ==
  ASSUME PromotionInv, NEW p \in Promotions, Promote(p) PROVE PromotionInv'
BY FailStep, ResolveStep, ReadPointerStep, LockStep, ReplaceStep, EndApplyStep, SettleStep,
   SmokeStep, RecordStep, TagStep, ResolveRollbackStep, ProveStep DEF Promote

LEMMA InvStep == PromotionInv /\ [PromotionNext]_promotion => PromotionInv'
<1> SUFFICES ASSUME PromotionInv, [PromotionNext]_promotion PROVE PromotionInv'
  OBVIOUS
<1>1. ASSUME NEW p \in Promotions,
             \/ BeginPromotion(p) \/ Promote(p)
             \/ \E how \in {"failure", "cancelled"} : StopPromotion(p, how)
      PROVE  PromotionInv'
  BY <1>1, BeginStep, PromoteStepKeeps, StopStep
<1>2. CASE \E gone \in SUBSET Services : TearDownProd(gone)
  BY <1>2, TearDownStep
<1>3. CASE \E s \in Services, r \in Releases : Push(s, r) \/ Expire(s, r)
  BY <1>3, RegistryStep
<1> QED
  BY <1>1, <1>2, <1>3, StandsStill DEF PromotionNext

-----------------------------------------------------------------------------
(* What holds of every run of promotions                                   *)

\* The invariant behind all that follows.
THEOREM PromotionSafe == PromotionSpec => []PromotionInv
BY InvInit, InvStep, PTL DEF PromotionSpec

\* A job that proved its release healthy changes nothing in prod afterwards.
LEMMA GreenStep ==
  ASSUME PromotionInv, [PromotionNext]_promotion, NEW p \in Promotions,
         smoke[p] = "green", at'[p] # at[p] \/ todo'[p] # todo[p]
  PROVE  prod' = prod
<1>0. /\ at \in [Promotions -> At] /\ todo \in [Promotions -> SUBSET Services]
      /\ ~Changing(p)
  BY DEF PromotionInv, Ranges, GreenGoesOn, Changing
<1>1. ASSUME NEW q \in Promotions, NEW s \in Services, Replace(q, s)
      PROVE  FALSE
  BY <1>0, <1>1 DEF Replace, Changing
<1>2. ASSUME NEW gone \in SUBSET Services, TearDownProd(gone)
      PROVE  FALSE
  BY <1>2 DEF TearDownProd
<1>3. ASSUME NEW q \in Promotions, Promote(q)
      PROVE  prod' = prod
  BY <1>1, <1>3 DEF Promote, StepFails, Resolve, ReadPointer, Lock, EndApply, Settle, Smoke,
       Record, TagRelease, ResolveRollback, Prove
<1>4. ASSUME NEW q \in Promotions,
             BeginPromotion(q) \/ \E how \in {"failure", "cancelled"} : StopPromotion(q, how)
      PROVE  prod' = prod
  BY <1>4 DEF BeginPromotion, StopPromotion
<1>5. ASSUME NEW s \in Services, NEW r \in Releases, Push(s, r) \/ Expire(s, r)
      PROVE  prod' = prod
  BY <1>5 DEF Push, Expire
<1>6. CASE UNCHANGED promotion
  BY <1>6 DEF promotion
<1> QED
  BY <1>2, <1>3, <1>4, <1>5, <1>6 DEF PromotionNext

\* GreenStays holds of the promotions by themselves, whoever runs them.
THEOREM GreenIsFinal == PromotionSpec => GreenStays
<1>1. PromotionInv /\ [PromotionNext]_promotion
        => [\A p \in Promotions :
              smoke[p] = "green" /\ (at'[p] # at[p] \/ todo'[p] # todo[p]) => prod' = prod]_promotion
  BY GreenStep
<1> QED
  BY <1>1, PromotionSafe, PTL DEF PromotionSpec, GreenStays

-----------------------------------------------------------------------------
(* The cycle                                                               *)

Status   == Finished \cup {"none", "waiting", "running"}
Envs     == {"stage", "lab", "prod"}
Teardown == [stage |-> "destroy", lab |-> "destroy_lab", prod |-> "destroy_prod"]
Entry(c, e) == [cycle |-> c, env |-> e]

\* CycleTypeOK, with what is at most one written as what it may be.
CycleRanges ==
  /\ job \in [Cycles -> [JobNames -> Status]]
  /\ cancelled \subseteq Cycles /\ released \subseteq Visitors
  /\ standing \in [Envs -> SUBSET Cycles]
  /\ lock = {} \/ \E c \in Visitors : lock = {c}
  /\ countdown = {} \/ \E c \in Cycles : countdown = {c}
  /\ tested \subseteq Releases
  /\ lost \in 0..Losses

InOrder ==
  \A c \in Cycles, j \in JobNames :
    job[c][j] \notin {"none", "waiting"} => \A n \in Needs[j] : job[c][n] \in Finished

\* What still stands after its teardown job ended is on record.
OnRecord ==
  \A c \in Cycles, e \in Envs :
    c \in standing[e] /\ job[c][Teardown[e]] \in Finished => Entry(c, e) \in swept

LabAfterLaunch ==
  \A c \in Cycles :
    job[c]["lab"] = "running" \/ c \in standing["lab"] => job[c]["launch"] = "success"

StageIsDown ==
  /\ \A c \in Cycles : job[c]["destroy"] = "success" => c \notin standing["stage"]
  /\ \A c \in released : job[c]["destroy"] = "success"

Announced == \A c \in countdown : Running(c, "hold") \/ lost > 0

\* Where the releases in prod, and those that may get there, come from.
Known == tested \cup {OldRelease}
Sourced ==
  /\ \A p \in Promotions : at[p] # "idle" => Tag[p] \in Known
  /\ \A s \in DOMAIN pointer : pointer[s] \in Known
  /\ \A t \in target, s \in Services : t.set[s] \in Known
  /\ \A s \in Services : prod[s] \in Known \cup {Nothing}
LaunchTested == \A c \in Cycles : job[c]["launch"] = "success" => Tag[c] \in tested

CycleInv ==
  /\ CycleRanges /\ InOrder /\ OnRecord /\ LabAfterLaunch /\ StageIsDown /\ Announced
  /\ LaunchTested

-----------------------------------------------------------------------------
(* A cycle's promotions are promotions                                     *)

LEMMA StepIsPromotion == [Next]_vars => [PromotionNext]_promotion
<1> SUFFICES ASSUME [Next]_vars PROVE [PromotionNext]_promotion
  OBVIOUS
<1>0. Cycles \subseteq Promotions /\ \A c \in Cycles : Tag[c] \in Releases
  BY CycleAssumption, ReleaseOf
<1>1. ASSUME NEW c \in Cycles,
             \/ Dispatch(c) \/ PublishCountdown(c) \/ ReleaseLock(c) \/ Cancel(c) \/ StopHold(c)
             \/ \E how \in {"success", "failure"} : HoldEnds(c, how)
      PROVE  UNCHANGED promotion
  BY <1>1 DEF Dispatch, PublishCountdown, ReleaseLock, Cancel, StopHold, HoldEnds
<1>2. ASSUME NEW c \in Cycles, PromoteStep(c) PROVE PromotionNext
  BY <1>0, <1>2 DEF PromoteStep, PromotionNext
<1>3. ASSUME NEW c \in Cycles, LoseRun(c) PROVE [PromotionNext]_promotion
  BY <1>0, <1>3 DEF LoseRun, PromotionNext
<1>4. ASSUME NEW c \in Cycles, NEW s \in Services, Build(c, s) PROVE PromotionNext
  BY <1>0, <1>4 DEF Build, PromotionNext
<1>5. ASSUME NEW c \in Cycles, NEW j \in JobNames,
             SkipJob(c, j) \/ Apply(c, j) \/ Pass(c, j) \/ Fail(c, j)
      PROVE  UNCHANGED promotion
  BY <1>5 DEF SkipJob, Apply, Pass, Fail, OnlyJobs
<1>6. ASSUME NEW c \in Cycles, NEW j \in JobNames,
             StartJob(c, j) \/ StopJob(c, j) \/ LoseRunner(c, j)
      PROVE  [PromotionNext]_promotion
  BY <1>0, <1>6 DEF StartJob, StopJob, LoseRunner, PromotionNext
<1>7. ASSUME NEW c \in Cycles, NEW j \in JobNames, TearDown(c, j)
      PROVE  [PromotionNext]_promotion
  BY <1>7 DEF TearDown, PromotionNext
<1>8. ASSUME NEW p \in Promotions, OwnerPromotes(p) PROVE PromotionNext
  BY <1>8 DEF OwnerPromotes, PromotionNext
<1>9. ASSUME NEW e, DestroyByHand(e) PROVE [PromotionNext]_promotion
  BY <1>9 DEF DestroyByHand, PromotionNext
<1>10. ASSUME NEW s \in Services, NEW r \in Releases, Expire(s, r) PROVE PromotionNext
  BY <1>10 DEF PromotionNext
<1>11. CASE UNCHANGED vars
  BY <1>11 DEF vars
<1> QED
  BY <1>1, <1>2, <1>3, <1>4, <1>5, <1>6, <1>7, <1>8, <1>9, <1>10, <1>11 DEF Next

\* The cycle, its losses and the owner's hand implement the promotions alone.
THEOREM CyclePromotes == Spec => PromotionSpec
<1>1. Init => PromotionInit
  BY DEF Init
<1> QED
  BY <1>1, StepIsPromotion, PTL DEF Spec, PromotionSpec

\* Prod is never left on services of two releases.
THEOREM ProdStaysWhole == Spec => []ProdWhole
BY CyclePromotes, PromotionSafe, PTL DEF PromotionInv

\* The pointer names what a smoke proved, unless two promotions met.
THEOREM PointerIsProven == Spec => []PointerProven
BY CyclePromotes, PromotionSafe, PTL DEF PromotionInv

\* A release that proved itself is not rolled back by the run that proved it.
THEOREM GreenKept == Spec => GreenStays
BY CyclePromotes, GreenIsFinal

-----------------------------------------------------------------------------
(* The job graph                                                           *)

LEMMA JobGraph ==
  /\ JobNames = {"launch", "promote", "lab", "destroy", "hold", "destroy_prod",
                 "destroy_lab", "release_lock"}
  /\ Needs["promote"] = {"launch"} /\ Needs["lab"] = {"launch"}
  /\ Needs["destroy"] = {"launch", "promote"}
  /\ Needs["destroy_lab"] = {"launch", "lab"}
  /\ Needs["destroy_prod"] = {"promote", "hold"}
  /\ \A j \in JobNames : Needs[j] \subseteq JobNames /\ j \notin Needs[j]
BY DEF JobNames, Needs

LEMMA TeardownOf ==
  /\ \A e \in Envs : Teardown[e] \in JobNames \cap Teardowns /\ Env[Teardown[e]] = e
  /\ \A j \in Teardowns : Env[j] \in Envs /\ Teardown[Env[j]] = j
  /\ Env["launch"] = "stage" /\ Env["lab"] = "lab" /\ Env["destroy"] = "stage"
BY JobGraph DEF Envs, Teardown, Teardowns, Env

\* Jobs after one of them was set.
LEMMA OneJob ==
  ASSUME CycleRanges, NEW c \in Cycles, NEW j \in JobNames, NEW to, Set(c, j, to)
  PROVE  \A d \in Cycles, k \in JobNames :
           job'[d][k] = IF d = c /\ k = j THEN to ELSE job[d][k]
BY DEF CycleRanges, Set

\* One job leaves "waiting" or "running", or goes on; nothing new stands, unless it
\* is the promotion, and the history grows as the job says.
LEMMA JobTurns ==
  ASSUME CycleInv, NEW c \in Cycles, NEW j \in JobNames, NEW to \in Status, Set(c, j, to),
         job[c][j] \in {"waiting", "running"}, to # "waiting",
         job[c][j] = "waiting" => \A n \in Needs[j] : job[c][n] \in Finished,
         CycleRanges',
         \A e \in Envs : \A d \in standing'[e] :
           d \in standing[e] \/ (d = c /\ e = "prod" /\ j = "promote"),
         swept \subseteq swept', tested \subseteq tested', lost' >= lost,
         j \in Teardowns /\ to \in Finished =>
           Entry(c, Env[j]) \in swept' \/ c \notin standing'[Env[j]],
         j = "lab" /\ to = "running" => job[c]["launch"] = "success",
         j = "launch" /\ to = "success" => Tag[c] \in tested',
         j = "destroy" /\ to = "success" => c \notin standing'["stage"],
         \A d \in released' : d \in released \/ (d = c /\ job[c]["destroy"] = "success"),
         \A d \in countdown' : d \in countdown,
         j = "hold" /\ job[c][j] = "running" => countdown' = {} \/ lost' > 0
  PROVE  CycleInv'
<1>0. /\ \A d \in Cycles, k \in JobNames : job'[d][k] = IF d = c /\ k = j THEN to ELSE job[d][k]
      /\ lost \in Nat /\ lost' \in Nat
  BY OneJob, CycleAssumption DEF CycleInv, CycleRanges
<1>1. InOrder'
  BY <1>0, JobGraph DEF CycleInv, InOrder, Finished, Status
<1>2. OnRecord'
  <2> SUFFICES ASSUME NEW d \in Cycles, NEW e \in Envs,
                      d \in standing'[e], job'[d][Teardown[e]] \in Finished
               PROVE  Entry(d, e) \in swept'
    BY DEF OnRecord, Entry
  <2>1. CASE d = c /\ Teardown[e] = j
    BY <1>0, <2>1, TeardownOf
  <2>2. CASE d \in standing[e] /\ ~(d = c /\ Teardown[e] = j)
    BY <1>0, <2>2, TeardownOf DEF CycleInv, OnRecord
  <2>3. CASE d = c /\ e = "prod" /\ j = "promote"
    <3>1. job[c]["destroy_prod"] \in Finished => job[c]["promote"] \in Finished
      BY JobGraph DEF CycleInv, InOrder, Finished
    <3>2. job[c]["destroy_prod"] \notin Finished
      BY <2>3, <3>1 DEF Finished
    <3> QED
      BY <1>0, <2>3, <3>2, JobGraph DEF Teardown
  <2> QED
    BY <2>1, <2>2, <2>3
<1>3. LabAfterLaunch'
  <2>1. \A d \in Cycles : job[d]["launch"] = "success" => job'[d]["launch"] = "success"
    BY <1>0, JobGraph
  <2> QED
    BY <1>0, <2>1, JobGraph DEF CycleInv, LabAfterLaunch, Envs
<1>4. StageIsDown'
  BY <1>0, JobGraph, CycleAssumption DEF CycleInv, StageIsDown, CycleRanges, Envs
<1>5. Announced'
  <2> SUFFICES ASSUME NEW d \in countdown', ~(lost' > 0)
               PROVE  job'[d]["hold"] = "running"
    BY DEF Announced, Running
  <2>1. d \in Cycles /\ job[d]["hold"] = "running"
    BY <1>0 DEF CycleInv, Announced, Running, CycleRanges
  <2> QED
    BY <1>0, <2>1, JobGraph
<1>6. LaunchTested'
  BY <1>0, JobGraph DEF CycleInv, LaunchTested
<1> QED
  BY <1>1, <1>2, <1>3, <1>4, <1>5, <1>6 DEF CycleInv

LEMMA TurnRanges ==
  ASSUME CycleRanges, NEW c \in Cycles, NEW j \in JobNames, NEW to \in Status, Set(c, j, to)
  PROVE  job' \in [Cycles -> [JobNames -> Status]]
BY DEF CycleRanges, Set

LEMMA StartStep ==
  ASSUME CycleInv, NEW c \in Cycles, NEW j \in JobNames, StartJob(c, j) PROVE CycleInv'
<1>1. /\ Set(c, j, "running") /\ job[c][j] = "waiting" /\ "running" \in Status
      /\ \A n \in Needs[j] : job[c][n] \in Finished
      /\ UNCHANGED <<cancelled, standing, lock, released, countdown, tested, swept, lost>>
      /\ j = "lab" => job[c]["launch"] = "success"
      /\ "running" \notin Finished
  BY DEF StartJob, Condition, Status, Finished
<1>2. CycleRanges'
  BY <1>1, TurnRanges DEF CycleInv, CycleRanges, Releases
<1>3. lost' >= lost
  BY <1>1, CycleAssumption DEF CycleInv, CycleRanges
<1> QED
  BY <1>1, <1>2, <1>3, JobTurns

LEMMA SkipStep ==
  ASSUME CycleInv, NEW c \in Cycles, NEW j \in JobNames, SkipJob(c, j) PROVE CycleInv'
<1>1. /\ Set(c, j, "skipped") /\ job[c][j] = "waiting" /\ "skipped" \in Status
      /\ \A n \in Needs[j] : job[c][n] \in Finished
      /\ UNCHANGED <<cancelled, standing, lock, released, countdown, tested, swept, lost>>
  BY DEF SkipJob, Status, Finished, OnlyJobs
<1>2. CycleRanges'
  BY <1>1, TurnRanges DEF CycleInv, CycleRanges, Releases
<1>3. lost' >= lost
  BY <1>1, CycleAssumption DEF CycleInv, CycleRanges
    \* A teardown is skipped only where its environment was never applied.
<1>4. j \in Teardowns => c \notin standing[Env[j]]
  BY DEF SkipJob, Condition, Always, Teardowns, CycleInv, LabAfterLaunch, Env
<1> QED
  BY <1>1, <1>2, <1>3, <1>4, TeardownOf, JobTurns

LEMMA ApplyStep ==
  ASSUME CycleInv, NEW c \in Cycles, NEW j \in JobNames, Apply(c, j) PROVE CycleInv'
<1>1. /\ j \in {"launch", "lab"} /\ job[c][j] = "running"
      /\ UNCHANGED <<job, cancelled, lock, released, countdown, tested, swept, lost>>
      /\ standing' = [standing EXCEPT ![Env[j]] = @ \cup {c}]
      /\ Env[j] \in Envs
  BY TeardownOf DEF Apply, Running, Stands, Envs
<1>2. \A e \in Envs, d \in Cycles : d \in standing'[e] => d \in standing[e] \/ (d = c /\ e = Env[j])
  BY <1>1 DEF CycleInv, CycleRanges
<1>3. CycleRanges'
  BY <1>1 DEF CycleInv, CycleRanges, Releases
<1>4. job[c][Teardown[Env[j]]] \notin Finished \cup {"running"}
  BY <1>1, JobGraph DEF CycleInv, InOrder, CycleRanges, Status, Finished, Teardown, Env
<1>5. OnRecord'
  BY <1>1, <1>2, <1>4 DEF CycleInv, OnRecord, Entry
<1>6. LabAfterLaunch'
  BY <1>1, <1>2 DEF CycleInv, LabAfterLaunch, Env, Envs
<1>7. StageIsDown'
  BY <1>1, <1>2, <1>4 DEF CycleInv, StageIsDown, Env, Envs, Teardown, Finished
<1>8. InOrder' /\ Announced' /\ LaunchTested'
  BY <1>1 DEF CycleInv, InOrder, Announced, LaunchTested, Running
<1> QED
  BY <1>3, <1>5, <1>6, <1>7, <1>8 DEF CycleInv

LEMMA PassStep ==
  ASSUME CycleInv, NEW c \in Cycles, NEW j \in JobNames, Pass(c, j) \/ Fail(c, j)
  PROVE  CycleInv'
<1>0. c \in Promotions /\ Tag[c] \in Releases
  BY CycleAssumption, ReleaseOf
<1>1. PICK to \in {"success", "failure"} :
        /\ Set(c, j, to) /\ job[c][j] = "running" /\ j \in {"launch", "lab"}
        /\ tested' = tested \/ tested' = tested \cup {Tag[c]}
        /\ j = "launch" /\ to = "success" => Tag[c] \in tested'
        /\ UNCHANGED <<cancelled, standing, lock, released, countdown, swept, lost>>
  <2>1. CASE Pass(c, j)
    BY <2>1 DEF Pass, Running
  <2>2. CASE Fail(c, j)
    BY <2>2 DEF Fail, Running, OnlyJobs
  <2> QED
    BY <2>1, <2>2
<1>2. CycleRanges'
  <2>1. to \in Status
    BY DEF Status, Finished
  <2> QED
    BY <1>0, <1>1, <2>1, TurnRanges DEF CycleInv, CycleRanges, Releases
<1>3. lost' >= lost /\ to \in Status /\ j \notin Teardowns
  BY <1>1, CycleAssumption DEF CycleInv, CycleRanges, Status, Finished, Teardowns
<1> QED
  BY <1>1, <1>2, <1>3, JobTurns

LEMMA HoldStep ==
  ASSUME CycleInv, NEW c \in Cycles, NEW how \in {"success", "failure", "cancelled"},
         HoldEnds(c, how)
  PROVE  CycleInv'
<1>1. /\ Set(c, "hold", how) /\ job[c]["hold"] = "running"
      /\ \/ countdown' = {} /\ lost' = lost
         \/ lost < Losses /\ lost' = lost + 1 /\ countdown' = countdown
      /\ UNCHANGED <<cancelled, standing, lock, released, tested, swept>>
      /\ how \in Status /\ "hold" \in JobNames /\ "hold" \notin Teardowns
  BY JobGraph DEF HoldEnds, Running, Status, Finished, Teardowns
<1>2. lost \in Nat /\ lost' \in 0..Losses /\ lost' >= lost /\ (countdown' = {} \/ lost' > 0)
  BY <1>1, CycleAssumption DEF CycleInv, CycleRanges
<1>3. CycleRanges'
  BY <1>1, <1>2, TurnRanges DEF CycleInv, CycleRanges, Releases
<1> QED
  BY <1>1, <1>2, <1>3, JobTurns

LEMMA TearDownEnvStep ==
  ASSUME CycleInv, NEW c \in Cycles, NEW j \in JobNames, TearDown(c, j) PROVE CycleInv'
<1>1. PICK how \in {"success", "failure"} :
        /\ Set(c, j, how)
        /\ standing' = IF how = "success" THEN [standing EXCEPT ![Env[j]] = {}] ELSE standing
  BY DEF TearDown
<1>2. /\ j \in Teardowns /\ job[c][j] = "running" /\ how \in Status /\ Env[j] \in Envs
      /\ swept' = swept \cup {Entry(c, Env[j])}
      /\ UNCHANGED <<cancelled, lock, released, countdown, tested, lost>>
  BY TeardownOf DEF TearDown, Running, Status, Finished, Entry
<1>3. \A e \in Envs : /\ standing'[e] \subseteq standing[e]
                      /\ how = "success" /\ e = Env[j] => standing'[e] = {}
  BY <1>1 DEF CycleInv, CycleRanges
<1>4. CycleRanges'
  BY <1>1, <1>2, TurnRanges DEF CycleInv, CycleRanges, Releases
<1>5. lost' >= lost
  BY <1>2, CycleAssumption DEF CycleInv, CycleRanges
<1>6. j = "destroy" /\ how = "success" => c \notin standing'["stage"]
  <2>1. "stage" \in Envs
    BY DEF Envs
  <2>2. ASSUME j = "destroy", how = "success" PROVE standing'["stage"] = {}
    BY <1>3, <2>1, <2>2, TeardownOf
  <2> QED
    BY <2>2
<1>7. j # "lab" /\ j # "launch" /\ j # "hold"
  BY <1>2 DEF Teardowns
<1> QED
  BY <1>1, <1>2, <1>3, <1>4, <1>5, <1>6, <1>7, JobTurns

LEMMA ReleaseStep ==
  ASSUME CycleInv, NEW c \in Cycles, ReleaseLock(c) PROVE CycleInv'
<1>1. PICK to \in {"success", "failure"} : Set(c, "release_lock", to)
  BY DEF ReleaseLock
<1>2. /\ job[c]["release_lock"] = "running" /\ to \in Status
      /\ "release_lock" \in JobNames /\ "release_lock" \notin Teardowns
      /\ UNCHANGED <<cancelled, standing, countdown, tested, swept, lost>>
  BY JobGraph DEF ReleaseLock, Running, Status, Finished, Teardowns
<1>3. /\ released' \subseteq released \cup lock
      /\ lock' = lock \/ lock' = lock \ {c}
      /\ \A d \in released' : d \in released \/ (d = c /\ job[c]["destroy"] = "success")
  BY DEF ReleaseLock
<1>4. CycleRanges'
  <2>1. lock' = {} \/ \E d \in Visitors : lock' = {d}
    BY <1>3 DEF CycleInv, CycleRanges
  <2>2. released' \subseteq Visitors
    BY <1>3 DEF CycleInv, CycleRanges
  <2> QED
    BY <1>1, <1>2, <2>1, <2>2, TurnRanges DEF CycleInv, CycleRanges, Releases
<1>5. lost' >= lost
  BY <1>2, CycleAssumption DEF CycleInv, CycleRanges
<1> QED
  BY <1>1, <1>2, <1>3, <1>4, <1>5, JobTurns

\* A job that is stopped, or whose runner is lost.
LEMMA StopJobStep ==
  ASSUME CycleInv, NEW c \in Cycles, NEW j \in JobNames, StopJob(c, j) \/ LoseRunner(c, j)
  PROVE  CycleInv'
<1>0. lost \in Nat /\ Losses \in Nat
  BY CycleAssumption DEF CycleInv, CycleRanges
<1>1. PICK to \in {"cancelled", "failure"} :
        /\ Set(c, j, to) /\ job[c][j] = "running"
        /\ swept' = IF j \in Teardowns THEN swept \cup {Entry(c, Env[j])} ELSE swept
        /\ UNCHANGED <<cancelled, standing, lock, released, countdown, tested>>
        /\ \/ lost' = lost /\ j # "hold"
           \/ lost' = lost + 1 /\ lost < Losses
  <2>1. CASE StopJob(c, j)
    BY <2>1 DEF StopJob, Running, Entry
  <2>2. CASE LoseRunner(c, j)
    BY <2>2 DEF LoseRunner, Running, Entry
  <2> QED
    BY <2>1, <2>2
<1>2. lost' \in 0..Losses /\ lost' >= lost /\ (j = "hold" => lost' > 0) /\ to \in Status
  BY <1>0, <1>1 DEF CycleInv, CycleRanges, Status, Finished
<1>3. CycleRanges'
  BY <1>1, <1>2, TurnRanges DEF CycleInv, CycleRanges, Releases
<1>4. swept \subseteq swept' /\ (j \in Teardowns => Entry(c, Env[j]) \in swept')
  BY <1>1
<1> QED
  BY <1>1, <1>2, <1>3, <1>4, JobTurns

LEMMA PromoteJobStep ==
  ASSUME CycleInv, PromotionInv', NEW c \in Cycles, PromoteStep(c) PROVE CycleInv'
<1> DEFINE to == IF at'[c] = "over" THEN verdict'[c] ELSE "running"
<1>1. /\ job[c]["promote"] = "running"
      /\ UNCHANGED <<cancelled, lock, released, countdown, tested, swept, lost>>
      /\ "promote" \in JobNames /\ "promote" \notin Teardowns
  BY JobGraph DEF PromoteStep, Running, Teardowns
<1>2. to \in Status /\ to # "waiting"
  BY CycleAssumption DEF PromotionInv, Ranges, Status, Finished
<1>3. Set(c, "promote", to)
  <2>1. CASE at'[c] = "over"
    BY <2>1 DEF PromoteStep, Set
  <2>2. CASE at'[c] # "over"
    <3>1. job' = job
      BY <2>2 DEF PromoteStep
    <3>2. job[c] \in [JobNames -> Status]
      BY DEF CycleInv, CycleRanges
    <3>3. [job[c] EXCEPT !["promote"] = "running"] = job[c]
      BY <1>1, <3>2
    <3>4. [job EXCEPT ![c]["promote"] = "running"] = job
      BY <3>3 DEF CycleInv, CycleRanges
    <3> QED
      BY <2>2, <3>1, <3>4 DEF Set
  <2> QED
    BY <2>1, <2>2
<1>4. /\ standing' \in [Envs -> SUBSET Cycles]
      /\ \A e \in Envs : \A d \in standing'[e] : d \in standing[e] \/ (d = c /\ e = "prod")
  BY DEF PromoteStep, CycleInv, CycleRanges, Envs
<1> HIDE DEF to
<1>5. CycleRanges'
  BY <1>1, <1>2, <1>3, <1>4, TurnRanges DEF CycleInv, CycleRanges, Releases
<1>6. lost' >= lost
  BY <1>1, CycleAssumption DEF CycleInv, CycleRanges
<1> QED
  BY <1>1, <1>2, <1>3, <1>4, <1>5, <1>6, JobTurns

LEMMA DispatchStep == ASSUME CycleInv, NEW c \in Cycles, Dispatch(c) PROVE CycleInv'
<1>1. /\ \A j \in JobNames : job[c][j] = "none"
      /\ \A d \in Cycles, j \in JobNames : job'[d][j] = IF d = c THEN "waiting" ELSE job[d][j]
      /\ UNCHANGED <<cancelled, standing, released, countdown, tested, swept, lost>>
  BY DEF Dispatch, Started, CycleInv, CycleRanges
<1>2. CycleRanges'
  <2>1. job' \in [Cycles -> [JobNames -> Status]]
    BY DEF Dispatch, CycleInv, CycleRanges, Status
  <2>2. lock' = {} \/ \E v \in Visitors : lock' = {v}
    BY DEF Dispatch, CycleInv, CycleRanges
  <2> QED
    BY <1>1, <2>1, <2>2 DEF CycleInv, CycleRanges, Releases
<1>3. InOrder'
  BY <1>1, JobGraph DEF CycleInv, InOrder
<1>4. OnRecord'
  BY <1>1, TeardownOf DEF CycleInv, OnRecord, Entry, Finished
<1>5. LabAfterLaunch'
  BY <1>1, JobGraph DEF CycleInv, LabAfterLaunch
<1>6. StageIsDown' /\ LaunchTested'
  BY <1>1, JobGraph, CycleAssumption DEF CycleInv, StageIsDown, LaunchTested, CycleRanges
<1>7. Announced'
  BY <1>1, JobGraph DEF CycleInv, Announced, Running, CycleRanges
<1> QED
  BY <1>2, <1>3, <1>4, <1>5, <1>6, <1>7 DEF CycleInv

LEMMA PublishStep == ASSUME CycleInv, NEW c \in Cycles, PublishCountdown(c) PROVE CycleInv'
<1>1. /\ job[c]["hold"] = "running" /\ countdown' = {c}
      /\ UNCHANGED <<job, cancelled, standing, lock, released, tested, swept, lost>>
  BY DEF PublishCountdown, Running
<1>2. CycleRanges'
  BY <1>1 DEF CycleInv, CycleRanges, Releases
<1>3. InOrder' /\ OnRecord' /\ LabAfterLaunch' /\ StageIsDown' /\ LaunchTested'
  BY <1>1 DEF CycleInv, InOrder, OnRecord, LabAfterLaunch, StageIsDown, LaunchTested, Entry
<1>4. Announced'
  BY <1>1 DEF Announced, Running
<1> QED
  BY <1>2, <1>3, <1>4 DEF CycleInv

\* A whole run is lost: what it leaves in any environment is on record.
LEMMA LoseRunStep == ASSUME CycleInv, NEW c \in Cycles, LoseRun(c) PROVE CycleInv'
<1>0. /\ lost \in Nat /\ lost' = lost + 1 /\ lost' \in 0..Losses
      /\ UNCHANGED <<cancelled, standing, lock, released, countdown, tested>>
  BY CycleAssumption DEF LoseRun, CycleInv, CycleRanges
<1>1. \A d \in Cycles, j \in JobNames :
        job'[d][j] = IF d = c /\ job[d][j] \notin Finished THEN "cancelled" ELSE job[d][j]
  BY DEF LoseRun, CycleInv, CycleRanges
<1>2. job' \in [Cycles -> [JobNames -> Status]]
  BY DEF LoseRun, CycleInv, CycleRanges, Status, Finished
<1>3. CycleRanges'
  BY <1>0, <1>2 DEF CycleInv, CycleRanges, Releases
<1>4. InOrder'
  <2>1. "cancelled" \in Finished
    BY DEF Finished
  <2> QED
    BY <1>1, <2>1, JobGraph DEF CycleInv, InOrder
<1>5. OnRecord'
  <2>1. \A e \in Envs : Entry(c, e) \in swept' /\ swept \subseteq swept'
    BY DEF LoseRun, CycleInv, CycleRanges, Entry
  <2> QED
    BY <1>0, <1>1, <2>1, TeardownOf DEF CycleInv, OnRecord, Entry
<1>6. \A d \in Cycles, j \in JobNames :
        /\ job[d][j] = "success" <=> job'[d][j] = "success"
        /\ job'[d][j] = "running" => job[d][j] = "running"
  BY <1>1 DEF Finished
<1>7. LabAfterLaunch'
  BY <1>0, <1>6, JobGraph DEF CycleInv, LabAfterLaunch
<1>8. StageIsDown' /\ LaunchTested'
  BY <1>0, <1>6, JobGraph, CycleAssumption DEF CycleInv, StageIsDown, LaunchTested, CycleRanges
<1>9. Announced'
  BY <1>0 DEF Announced
<1> QED
  BY <1>3, <1>4, <1>5, <1>7, <1>8, <1>9 DEF CycleInv

LEMMA ByHandStep == ASSUME CycleInv, NEW e \in Envs, DestroyByHand(e) PROVE CycleInv'
<1>1. /\ standing' = [standing EXCEPT ![e] = {}]
      /\ UNCHANGED <<job, cancelled, lock, released, countdown, tested, swept, lost>>
  BY DEF DestroyByHand
<1>2. standing' \in [Envs -> SUBSET Cycles] /\ \A f \in Envs : standing'[f] \subseteq standing[f]
  BY <1>1 DEF CycleInv, CycleRanges
<1>3. CycleRanges'
  BY <1>1, <1>2 DEF CycleInv, CycleRanges, Releases
<1>4. InOrder' /\ Announced' /\ LaunchTested'
  BY <1>1 DEF CycleInv, InOrder, Announced, LaunchTested, Running
<1>5. OnRecord' /\ LabAfterLaunch' /\ StageIsDown'
  BY <1>1, <1>2 DEF CycleInv, OnRecord, LabAfterLaunch, StageIsDown, Entry, Envs
<1> QED
  BY <1>3, <1>4, <1>5 DEF CycleInv

\* Steps of the promotions, of the registry, and a cancellation.
LEMMA QuietStep ==
  ASSUME CycleInv, UNCHANGED <<job, standing, lock, released, countdown, tested, swept, lost>>,
         cancelled' \subseteq Cycles
  PROVE  CycleInv'
<1>1. CycleRanges'
  BY DEF CycleInv, CycleRanges, Releases
<1>2. InOrder' /\ OnRecord' /\ LabAfterLaunch' /\ StageIsDown' /\ Announced' /\ LaunchTested'
  BY DEF CycleInv, InOrder, OnRecord, LabAfterLaunch, StageIsDown, Announced, LaunchTested,
     Running, Entry
<1> QED
  BY <1>1, <1>2 DEF CycleInv

LEMMA CycleInit == Init => CycleInv
<1> SUFFICES ASSUME Init PROVE CycleInv
  OBVIOUS
<1>1. CycleRanges
  BY CycleAssumption DEF Init, CycleRanges, Status, Envs
<1>2. InOrder /\ OnRecord
  BY TeardownOf DEF Init, InOrder, OnRecord, Envs, Finished
<1>3. LabAfterLaunch /\ StageIsDown /\ Announced /\ LaunchTested
  BY JobGraph DEF Init, LabAfterLaunch, StageIsDown, Announced, LaunchTested
<1> QED
  BY <1>1, <1>2, <1>3 DEF CycleInv

LEMMA CycleStep == ASSUME CycleInv, PromotionInv', [Next]_vars PROVE CycleInv'
<1>1. ASSUME NEW c \in Cycles,
             \/ Dispatch(c) \/ PromoteStep(c) \/ PublishCountdown(c) \/ ReleaseLock(c)
             \/ HoldEnds(c, "success") \/ HoldEnds(c, "failure") \/ StopHold(c) \/ LoseRun(c)
      PROVE  CycleInv'
  BY <1>1, DispatchStep, PromoteJobStep, PublishStep, ReleaseStep, HoldStep, LoseRunStep DEF StopHold
<1>2. ASSUME NEW c \in Cycles, NEW j \in JobNames,
             \/ StartJob(c, j) \/ SkipJob(c, j) \/ Apply(c, j) \/ Pass(c, j) \/ Fail(c, j)
             \/ TearDown(c, j) \/ StopJob(c, j) \/ LoseRunner(c, j)
      PROVE  CycleInv'
  BY <1>2, StartStep, SkipStep, ApplyStep, PassStep, TearDownEnvStep, StopJobStep
<1>3. ASSUME NEW c \in Cycles, Cancel(c) PROVE CycleInv'
  BY <1>3, QuietStep DEF Cancel, CycleInv, CycleRanges
<1>4. CASE \/ \E c \in Cycles, s \in Services : Build(c, s)
           \/ \E p \in Promotions : OwnerPromotes(p)
           \/ \E s \in Services, r \in Releases : Expire(s, r) /\ UNCHANGED cycles
           \/ UNCHANGED vars
  BY <1>4, QuietStep DEF Build, OwnerPromotes, cycles, vars, CycleInv, CycleRanges
<1>5. CASE \E e \in DOMAIN standing : DestroyByHand(e)
  BY <1>5, ByHandStep DEF CycleInv, CycleRanges
<1> QED
  BY <1>1, <1>2, <1>3, <1>4, <1>5 DEF Next

-----------------------------------------------------------------------------
(* Where what prod runs comes from                                         *)

\* A step that begins no promotion of an unknown release brings none to prod.
LEMMA SourcedStep ==
  ASSUME PromotionInv, Sourced, [PromotionNext]_promotion, tested \subseteq tested',
         \A p \in Promotions : BeginPromotion(p) => Tag[p] \in Known'
  PROVE  Sourced'
<1>0. /\ Known \subseteq Known'
      /\ at \in [Promotions -> At] /\ prod \in [Services -> Releases \cup {Nothing}]
  BY DEF Known, PromotionInv, Ranges
<1>1. ASSUME UNCHANGED <<prod, pointer, target>>,
             \A p \in Promotions : at'[p] # "idle" => at[p] # "idle" \/ Tag[p] \in Known'
      PROVE  Sourced'
  BY <1>0, <1>1 DEF Sourced
<1>2. ASSUME NEW p \in Promotions, BeginPromotion(p) PROVE Sourced'
  BY <1>0, <1>1, <1>2 DEF BeginPromotion, Goto
<1>3. ASSUME NEW p \in Promotions,
             \/ StepFails(p) \/ Resolve(p) \/ Settle(p) \/ Smoke(p) \/ TagRelease(p)
             \/ ResolveRollback(p) \/ Prove(p) \/ EndApply(p)
             \/ Lock(p, "apply", "applying") \/ Lock(p, "reapply", "reapplying")
             \/ \E how \in {"failure", "cancelled"} : StopPromotion(p, how)
      PROVE  Sourced'
  <2>1. UNCHANGED <<prod, pointer, target>> /\ at[p] # "idle"
    BY <1>3 DEF StepFails, Resolve, Settle, Smoke, TagRelease, ResolveRollback, Prove, EndApply,
         Lock, StopPromotion
  <2>2. \E x : at' = [at EXCEPT ![p] = x]
    BY <1>3 DEF StepFails, Resolve, Settle, Smoke, TagRelease, ResolveRollback, Prove, EndApply,
         Lock, StopPromotion, Goto, End
  <2> QED
    BY <1>0, <1>1, <2>1, <2>2
<1>4. ASSUME NEW p \in Promotions, ReadPointer(p) PROVE Sourced'
  <2>1. \A t \in target' : t \in target \/ (t.set = pointer /\ DOMAIN pointer = Services)
    BY <1>4 DEF ReadPointer
  <2> QED
    BY <1>0, <1>4, <2>1 DEF Sourced, ReadPointer, Goto
<1>5. ASSUME NEW p \in Promotions, NEW s \in Services, Replace(p, s) PROVE Sourced'
  <2>1. Given(p, s) \in Known
    <3>1. CASE at[p] = "applying"
      BY <1>5, <3>1, GivenRelease DEF Sourced, Changing
    <3>2. CASE at[p] = "reapplying"
      <4>1. PICK t \in target : t.job = p
        BY <3>2 DEF PromotionInv, Armed
      <4> QED
        BY <1>5, <3>2, <4>1, GivenRelease DEF Sourced, Changing
    <3> QED
      BY <1>5, <3>1, <3>2 DEF Replace
  <2>2. \A t \in Services : prod'[t] = prod[t] \/ prod'[t] = Given(p, s)
    BY <1>0, <1>5 DEF Replace
  <2> QED
    BY <1>0, <1>5, <2>1, <2>2 DEF Sourced, Replace
<1>6. ASSUME NEW p \in Promotions, Record(p) PROVE Sourced'
  <2>1. \A s \in DOMAIN pointer' : pointer'[s] = Tag[p]
    BY <1>6 DEF Record, Whole
  <2> QED
    BY <1>0, <1>6, <2>1 DEF Sourced, Record, Goto
<1>7. ASSUME NEW gone \in SUBSET Services, TearDownProd(gone) PROVE Sourced'
  BY <1>0, <1>7 DEF Sourced, TearDownProd
<1>8. ASSUME NEW s \in Services, NEW r \in Releases, Push(s, r) \/ Expire(s, r) PROVE Sourced'
  BY <1>1, <1>8 DEF Push, Expire
<1>9. CASE UNCHANGED promotion
  BY <1>1, <1>9 DEF promotion
<1> QED
  BY <1>2, <1>3, <1>4, <1>5, <1>6, <1>7, <1>8, <1>9 DEF PromotionNext, Promote

\* A cycle promotes what its launch job tested, the owner what some stage did.
LEMMA BegunIsTested ==
  ASSUME CycleInv, PromotionInv, [Next]_vars, NEW p \in Promotions, BeginPromotion(p)
  PROVE  Tag[p] \in tested \cup {OldRelease}
<1>0. at[p] = "idle" /\ at'[p] = "resolve" /\ \A q \in Promotions \ {p} : at'[q] = at[q]
  BY DEF BeginPromotion, Goto, PromotionInv, Ranges
<1>1. ASSUME NEW q \in Promotions, Promote(q) \/ \E how : StopPromotion(q, how) PROVE FALSE
  <2>1. at[q] # "idle" /\ q # p
    BY <1>0, <1>1 DEF Promote, StepFails, Resolve, ReadPointer, Lock, Replace, EndApply, Settle,
         Smoke, Record, TagRelease, ResolveRollback, Prove, StopPromotion
  <2>2. at' = at \/ \E x : at' = [at EXCEPT ![q] = x]
    BY <1>1 DEF Promote, StepFails, Resolve, ReadPointer, Lock, Replace, EndApply, Settle,
         Smoke, Record, TagRelease, ResolveRollback, Prove, StopPromotion, Goto, End
  <2> QED
    BY <1>0, <2>1, <2>2 DEF PromotionInv, Ranges
<1>2. ASSUME NEW q \in Promotions, BeginPromotion(q) PROVE q = p
  BY <1>0, <1>2 DEF BeginPromotion, Goto, PromotionInv, Ranges
<1>3. ASSUME at' = at PROVE FALSE
  BY <1>0, <1>3
<1>4. ASSUME NEW c \in Cycles, NEW j \in JobNames, StartJob(c, j)
      PROVE  Tag[p] \in tested
  <2>1. j = "promote" /\ BeginPromotion(c) /\ job[c]["launch"] = "success"
    BY <1>3, <1>4 DEF StartJob, Condition, promotion
  <2> QED
    BY <1>2, <2>1, CycleAssumption DEF CycleInv, LaunchTested
<1>5. ASSUME NEW q \in Promotions, OwnerPromotes(q)
      PROVE  Tag[p] \in tested \cup {OldRelease}
  BY <1>1, <1>2, <1>5 DEF OwnerPromotes
<1>6. ASSUME NEW c \in Cycles,
             \/ Dispatch(c) \/ PublishCountdown(c) \/ ReleaseLock(c) \/ Cancel(c) \/ StopHold(c)
             \/ PromoteStep(c) \/ LoseRun(c)
             \/ \E how \in {"success", "failure"} : HoldEnds(c, how)
      PROVE  FALSE
  BY <1>1, <1>3, <1>6, CycleAssumption DEF Dispatch, PublishCountdown, ReleaseLock, Cancel, StopHold,
     HoldEnds, PromoteStep, LoseRun, promotion
<1>7. ASSUME NEW c \in Cycles, NEW j \in JobNames,
             \/ SkipJob(c, j) \/ Apply(c, j) \/ Pass(c, j) \/ Fail(c, j)
             \/ TearDown(c, j) \/ StopJob(c, j) \/ LoseRunner(c, j)
      PROVE  FALSE
  BY <1>1, <1>3, <1>7, CycleAssumption DEF SkipJob, Apply, Pass, Fail, OnlyJobs, TearDown, StopJob,
     LoseRunner, TearDownProd, promotion
<1>8. CASE \/ \E c \in Cycles, s \in Services : Build(c, s)
           \/ \E e \in DOMAIN standing : DestroyByHand(e)
           \/ \E s \in Services, r \in Releases : Expire(s, r) /\ UNCHANGED cycles
           \/ UNCHANGED vars
  BY <1>3, <1>8 DEF Build, Push, DestroyByHand, TearDownProd, Expire, vars, promotion
<1> QED
  BY <1>4, <1>5, <1>6, <1>7, <1>8 DEF Next

-----------------------------------------------------------------------------
(* What holds of every run of cycles                                       *)

\* The invariants of the promotions and of the job graph, together.
THEOREM CycleSafe == Spec => [](PromotionInv /\ CycleInv /\ Sourced)
<1>1. Init => PromotionInv /\ CycleInv /\ Sourced
  <2>1. Init => Sourced
    BY DEF Init, PromotionInit, Sourced, Known, Down, Whole
  <2> QED
    BY <2>1, InvInit, CycleInit DEF Init
<1>2. PromotionInv /\ CycleInv /\ Sourced /\ [Next]_vars => (PromotionInv /\ CycleInv /\ Sourced)'
  <2> SUFFICES ASSUME PromotionInv, CycleInv, Sourced, [Next]_vars
               PROVE  (PromotionInv /\ CycleInv /\ Sourced)'
    OBVIOUS
  <2>1. [PromotionNext]_promotion
    BY StepIsPromotion
  <2>2. PromotionInv'
    BY <2>1, InvStep
  <2>3. CycleInv'
    BY <2>2, CycleStep
  <2>4. tested \subseteq tested'
    BY DEF Next, Dispatch, PromoteStep, PublishCountdown, ReleaseLock, HoldEnds, StopHold, Cancel,
       LoseRun, Build, StartJob, SkipJob, OnlyJobs, Apply, Pass, Fail, TearDown, StopJob, LoseRunner,
       OwnerPromotes, DestroyByHand, cycles, vars
  <2>5. \A p \in Promotions : BeginPromotion(p) => Tag[p] \in Known'
    BY <2>4, BegunIsTested DEF Known
  <2> QED
    BY <2>1, <2>2, <2>3, <2>4, <2>5, SourcedStep
<1> QED
  BY <1>1, <1>2, PTL DEF Spec

\* Every variable of the cycle and of its promotions keeps its type.
THEOREM TypeCorrect == Spec => []TypeOK
<1>1. CycleInv => CycleTypeOK
  <2> SUFFICES ASSUME CycleInv PROVE CycleTypeOK
    OBVIOUS
  <2>1. Cardinality(lock) <= 1 /\ lock \subseteq Visitors
    BY AtMostOne DEF CycleInv, CycleRanges
  <2>2. Cardinality(countdown) <= 1 /\ countdown \subseteq Cycles
    BY AtMostOne DEF CycleInv, CycleRanges
  <2> QED
    BY <2>1, <2>2 DEF CycleInv, CycleRanges, CycleTypeOK, Status, Envs
<1> QED
  BY <1>1, CycleSafe, InvTypes, PTL DEF TypeOK

\* Whoever promotes, fails or rolls back: prod runs tested releases only.
THEOREM OnlyTested == Spec => []OnlyTestedRuns
<1>1. Sourced => OnlyTestedRuns
  BY DEF Sourced, Known, OnlyTestedRuns
<1> QED
  BY <1>1, CycleSafe, PTL

\* What a run that is over left standing, its teardown met, or the run was lost.
THEOREM NothingIsForgotten == Spec => []NothingForgotten
<1>1. CycleInv => NothingForgotten
  <2> SUFFICES ASSUME CycleInv, NEW c \in Cycles, NEW e \in DOMAIN standing,
                      Over(c), c \in standing[e]
               PROVE  [cycle |-> c, env |-> e] \in swept
    BY DEF NothingForgotten
  <2>1. e \in Envs
    BY DEF CycleInv, CycleRanges
  <2> QED
    BY <2>1, TeardownOf DEF Over, CycleInv, OnRecord, Entry
<1> QED
  BY <1>1, CycleSafe, PTL

\* A lock given back is one whose stage is gone, and the countdown is ahead.
THEOREM WhatIsToldIsTrue == Spec => []ToldIsTrue
<1>1. CycleInv => ToldIsTrue
  <2> SUFFICES ASSUME CycleInv PROVE ToldIsTrue
    OBVIOUS
  <2>1. ReleasedMeansBare
    BY CycleAssumption DEF CycleInv, StageIsDown, CycleRanges, ReleasedMeansBare
  <2>2. CountdownIsAhead
    <3> SUFFICES ASSUME NEW c \in countdown, Running(c, "destroy_prod") PROVE lost > 0
      BY DEF CountdownIsAhead
    <3>1. c \in Cycles
      BY DEF CycleInv, CycleRanges
    <3>2. job[c]["hold"] \in Finished
      BY <3>1, JobGraph DEF CycleInv, InOrder, Running
    <3> QED
      BY <3>2 DEF CycleInv, Announced, Running, Finished
  <2> QED
    BY <2>1, <2>2 DEF ToldIsTrue
<1> QED
  BY <1>1, CycleSafe, PTL
=============================================================================
