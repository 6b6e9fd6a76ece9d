--------------------------- MODULE TeardownProofs ---------------------------
(***************************************************************************)
(* Proofs about Teardown, for any number of jobs, any grouping of them     *)
(* into runs, any resources and any number of killed jobs.                 *)
(***************************************************************************)
EXTENDS Teardown, TLAPS

LEMMA JobFacts ==
  /\ Runners \subseteq Jobs /\ Destroys \subseteq Runners /\ Applies \subseteq Runners
  /\ Desks \subseteq Jobs
  /\ \A j \in Runners : j \notin Desks /\ User(j) = "runner"
  /\ \A k \in Desks : User(k) = "ubuntu"
  /\ \A a \in Applies : a \notin Destroys
BY JobAssumption DEF Runners, Jobs, User

(***************************************************************************)
(* Types                                                                   *)
(***************************************************************************)
PCs == Active \cup {"idle", "over", "green", "red"}
LockType == [id : LockIds, user : {"runner", "ubuntu"}]

LEMMA InitType == ASSUME Init PROVE TypeOK
<1>1. deaths \in 0..Deaths
  BY JobAssumption DEF Init
<1>2. torn \in BOOLEAN /\ ok \in [Destroys -> BOOLEAN]
  BY Zenon DEF Init
<1> QED
  BY <1>1, <1>2 DEF Init, TypeOK

LEMMA TakeType ==
  ASSUME TypeOK, NEW j \in Jobs, NEW from, NEW to \in PCs, Take(j, from, to)
  PROVE  /\ lock' \subseteq LockType /\ held' \in [Jobs -> SUBSET LockIds]
         /\ pc' \in [Jobs -> PCs]
<1>1. PICK i \in Fresh : /\ lock' = {[id |-> i, user |-> User(j)]}
                         /\ held' = [held EXCEPT ![j] = {i}]
  BY DEF Take
<1>2. i \in LockIds /\ User(j) \in {"runner", "ubuntu"}
  BY <1>1 DEF Fresh, User
<1> QED
  BY <1>1, <1>2 DEF Take, TypeOK, LockType, PCs

LEMMA EndsType ==
  ASSUME TypeOK, NEW d \in Destroys, NEW good \in BOOLEAN, NEW next \in PCs,
         Ends(d, good, next)
  PROVE  pc' \in [Jobs -> PCs] /\ ok' \in [Destroys -> BOOLEAN]
<1>1. pc' \in [Jobs -> PCs]
  BY DEF Ends, TypeOK, PCs, Active
<1>2. (ok[d] /\ good) \in BOOLEAN
  BY DEF TypeOK
<1>3. ok' \in [Destroys -> BOOLEAN]
  BY <1>2, Zenon DEF Ends, TypeOK
<1> QED
  BY <1>1, <1>3

LEMMA DecisionType ==
  ASSUME TypeOK, NEW decision \in Decisions
  PROVE  decision.orphans \subseteq Resource
<1>1. \E silent, lost : decision = Swept(silent, lost)
  <2> DEFINE silences == {FALSE} \cup (IF "tagging" \in Failing THEN {TRUE} ELSE {})
             losses   == IF "describe" \in Failing THEN SUBSET Discovered ELSE {{}}
  <2>1. Decisions = {Swept(silent, lost) : silent \in silences, lost \in losses}
    BY DEF Decisions
  <2> HIDE DEF silences, losses
  <2> QED
    BY <2>1, SMT
<1>2. \A silent, lost : Swept(silent, lost).orphans \subseteq Discovered
  BY DEF Swept, DecideSweep
<1>3. Discovered \subseteq Resource
  BY DEF Discovered, Declared, TypeOK
<1> QED
  BY <1>1, <1>2, <1>3

LEMMA ApplyType ==
  ASSUME TypeOK, NEW a \in Applies, Apply(a)
  PROVE  TypeOK'
<1> USE DEF aws, tf, mine, ghosts
<1>0. a \in Jobs
  BY JobFacts
<1>1. CASE StartApply(a) \/ ApplyFindsLock(a)
  BY <1>0, <1>1 DEF StartApply, ApplyFindsLock, TypeOK, Active
<1>2. CASE LockForApply(a)
  BY <1>0, <1>2, TakeType DEF LockForApply, TypeOK, LockType, PCs, Active
<1>3. ASSUME NEW r \in Resource, Create(a, r)
      PROVE  TypeOK'
  BY <1>0, <1>3 DEF Create, TypeOK
<1>4. CASE Save(a)
  BY <1>0, <1>4 DEF Save, TypeOK
<1>5. CASE FinishApply(a)
  BY <1>0, <1>5 DEF FinishApply, Release, TypeOK
<1> QED
  BY <1>1, <1>2, <1>3, <1>4, <1>5 DEF Apply

LEMMA DestroyType ==
  ASSUME TypeOK, NEW d \in Destroys, Destroy(d)
  PROVE  TypeOK'
<1> USE DEF aws, tf, mine, ghosts
<1>0. d \in Jobs /\ TRUE \in BOOLEAN /\ FALSE \in BOOLEAN
  BY JobFacts
<1>1. CASE Start(d)
  <2>1. ok' \in [Destroys -> BOOLEAN]
    BY <1>1, Zenon DEF Start, TypeOK
  <2> QED
    BY <1>0, <1>1, <2>1 DEF Start, TypeOK, Active
<1>2. CASE ReadLock(d)
  <2>1. \E good \in BOOLEAN, next \in PCs : Ends(d, good, next)
    BY <1>0, <1>2, Zenon DEF ReadLock, PCs, Active
  <2>2. pc' \in [Jobs -> PCs] /\ ok' \in [Destroys -> BOOLEAN]
    BY <2>1, EndsType
  <2>3. seen' \in [Destroys -> SUBSET LockType]
    <3>1. \/ UNCHANGED seen
          \/ \E l \in lock : seen' = [seen EXCEPT ![d] = {l}]
      BY <1>2, Zenon DEF ReadLock
    <3> QED
      BY <3>1 DEF TypeOK, LockType
  <2> QED
    BY <1>2, <2>2, <2>3 DEF ReadLock, TypeOK, LockType, PCs
<1>3. CASE AskRuns(d)
  <2>1. \E good \in BOOLEAN, next \in PCs : Ends(d, good, next)
    <3>1. (~OthersInProgress(d)) \in BOOLEAN
      BY DEF OthersInProgress
    <3> QED
      BY <1>0, <1>3, <3>1, Zenon DEF AskRuns, PCs, Active
  <2>2. pc' \in [Jobs -> PCs] /\ ok' \in [Destroys -> BOOLEAN]
    BY <2>1, EndsType
  <2>3. seen' \in [Destroys -> SUBSET LockType]
    BY <1>3 DEF AskRuns, TypeOK, LockType
  <2> QED
    BY <1>3, <2>2, <2>3 DEF AskRuns, TypeOK, LockType, PCs
<1>4. CASE ForceUnlock(d)
  <2>1. \E good \in BOOLEAN, next \in PCs : Ends(d, good, next)
    <3>1. (seen[d] \cap lock # {}) \in BOOLEAN /\ "adopt" \in PCs
      BY DEF PCs, Active
    <3> QED
      BY <1>4, <3>1, Zenon DEF ForceUnlock
  <2>2. pc' \in [Jobs -> PCs] /\ ok' \in [Destroys -> BOOLEAN]
    BY <2>1, EndsType
  <2> QED
    BY <1>4, <2>2 DEF ForceUnlock, TypeOK, PCs
<1>5. CASE Adopt(d)
  <2>1. PICK decision \in Decisions :
          LET p == Plan(decision.orphans) IN
          /\ plan' = [plan EXCEPT ![d] =
                        p.adopt \cup {r \in Resource : Config[r] \in p.dependents}]
          /\ Ends(d, decision.verdict # "refuse", "import")
    BY <1>5 DEF Adopt
  <2>2. Plan(decision.orphans).adopt \subseteq Resource
    BY DecisionType DEF Plan
  <2>3. plan' \in [Destroys -> SUBSET Resource]
    BY <2>1, <2>2 DEF TypeOK
  <2>4. (decision.verdict # "refuse") \in BOOLEAN /\ "import" \in PCs
    BY DEF PCs, Active
  <2>5. pc' \in [Jobs -> PCs] /\ ok' \in [Destroys -> BOOLEAN]
    BY <2>1, <2>4, EndsType
  <2> QED
    BY <1>5, <2>3, <2>5 DEF Adopt, TypeOK, PCs
<1>6. ASSUME NEW r \in Resource, Import(d, r)
      PROVE  TypeOK'
  BY <1>6 DEF Import, TypeOK
<1>7. CASE ImportsDone(d)
  BY <1>0, <1>7 DEF ImportsDone, TypeOK, Active
<1>8. CASE LockForDestroy(d)
  BY <1>0, <1>8, TakeType DEF LockForDestroy, TypeOK, LockType, PCs, Active
<1>9. CASE DestroyFindsLock(d)
  <2>1. pc' \in [Jobs -> PCs] /\ ok' \in [Destroys -> BOOLEAN]
    BY <1>0, <1>9, EndsType DEF DestroyFindsLock, PCs, Active
  <2> QED
    BY <1>9, <2>1 DEF DestroyFindsLock, TypeOK, PCs
<1>10. ASSUME NEW r \in Resource, Delete(d, r)
       PROVE  TypeOK'
  BY <1>10 DEF Delete, TypeOK
<1>11. CASE FinishDestroy(d)
  <2>1. (state \cap live = {}) \in BOOLEAN /\ "verify" \in PCs
    BY DEF PCs, Active
  <2>2. pc' \in [Jobs -> PCs] /\ ok' \in [Destroys -> BOOLEAN]
    BY <1>11, <2>1, EndsType DEF FinishDestroy
  <2> QED
    BY <1>0, <1>11, <2>2 DEF FinishDestroy, Release, TypeOK, PCs
<1>12. CASE Verify(d)
  <2>1. (ok[d] /\ live \cap Billable = {}) \in BOOLEAN
    BY DEF TypeOK
  <2>2. ok' \in [Destroys -> BOOLEAN]
    BY <1>12, <2>1, Zenon DEF Verify, TypeOK
  <2> QED
    BY <1>0, <1>12, <2>2 DEF Verify, TypeOK, Active
<1>13. CASE FinalSweep(d)
  BY <1>0, <1>13 DEF FinalSweep, TypeOK
<1> QED
  BY <1>1, <1>2, <1>3, <1>4, <1>5, <1>6, <1>7, <1>8, <1>9, <1>10, <1>11, <1>12, <1>13
     DEF Destroy

LEMMA RestType ==
  ASSUME TypeOK,
         \/ \E k \in Desks : Desk(k)
         \/ \E j \in Runners : Die(j)
         \/ IndexCatchesUp
         \/ UNCHANGED vars
  PROVE  TypeOK'
<1> USE DEF aws, tf, mine, ghosts
<1>1. ASSUME NEW k \in Desks, Desk(k)
      PROVE  TypeOK'
  <2>0. k \in Jobs
    BY JobFacts
  <2>1. CASE DeskTakes(k)
    BY <2>0, <2>1, TakeType DEF DeskTakes, TypeOK, LockType, PCs, Active
  <2>2. CASE DeskLeaves(k)
    BY <2>0, <2>2 DEF DeskLeaves, Release, TypeOK
  <2> QED
    BY <1>1, <2>1, <2>2 DEF Desk
<1>2. ASSUME NEW j \in Runners, Die(j)
      PROVE  TypeOK'
  <2>0. j \in Jobs
    BY JobFacts
  <2>1. torn' \in BOOLEAN
    BY <1>2, Zenon DEF Die, TypeOK
  <2>2. deaths' \in 0..Deaths
    BY <1>2, JobAssumption DEF Die, TypeOK
  <2> QED
    BY <1>2, <2>0, <2>1, <2>2 DEF Die, TypeOK
<1>3. CASE IndexCatchesUp
  BY <1>3 DEF IndexCatchesUp, TypeOK
<1>4. CASE UNCHANGED vars
  BY <1>4 DEF vars, TypeOK
<1> QED
  BY <1>1, <1>2, <1>3, <1>4

\* Every variable keeps its type whatever the jobs, the devbox and AWS do.
THEOREM TypeCorrect == Spec => []TypeOK
<1>1. Init => TypeOK
  BY InitType
<1>2. TypeOK /\ [Next]_vars => TypeOK'
  BY ApplyType, DestroyType, RestType DEF Next
<1> QED
  BY <1>1, <1>2, PTL DEF Spec

(***************************************************************************)
(* One writer.  A teardown breaks a lock it did not take, so exclusion     *)
(* rests on what the ids it remembers may still name: from the moment the  *)
(* lock is read until force-unlock, such an id is held by nobody, or by a  *)
(* job of another run, which the question about other runs will find.      *)
(***************************************************************************)
Holds(j) == \E i \in LockIds : /\ held[j] = {i}
                               /\ lock = {[id |-> i, user |-> User(j)]}
Reading(d) == \A l \in seen[d] :
  /\ pc[d] \in {"ask", "unlock"}
  /\ \A j \in Jobs : l.id \in held[j] =>
       j \in Runners /\ RunOf[j] # RunOf[d] /\ pc[d] = "ask"

OneRun == \A j, k \in Runners :
            j # k /\ RunOf[j] = RunOf[k] => pc[j] \notin Active \/ pc[k] \notin Active
LockHeld == \A j \in Jobs : IF Writing(j) THEN Holds(j) ELSE held[j] = {}
Readers  == \A d \in Destroys : Reading(d)

Locking == OneWriter /\ OneRun /\ LockHeld /\ Readers

(***************************************************************************)
(* A green teardown.  After a terraform destroy that left nothing, the     *)
(* state holds only what came since; what is live rests on live resources; *)
(* so what the sweep finds managed is from after the destroy.              *)
(***************************************************************************)
Done(d) == pc[d] \in {"verify", "sweep"} /\ ok[d]

StateIsNew == \A d \in Destroys : Done(d) =>
                state \subseteq since[d] /\ \A a \in Jobs : built[a] \subseteq since[d]
BuiltBy == \A j \in Jobs : built[j] # {} => j \in Applies /\ pc[j] = "applying"
BuiltLive == \A j \in Jobs : built[j] \subseteq live
Grounded == \A r \in live : Needs[r] \subseteq live
BillsAreNew == \A d \in Destroys :
                 pc[d] = "green" \/ (pc[d] = "sweep" /\ ok[d])
                   => live \cap Billable \subseteq after[d]
NothingMissed == \A d \in Destroys : pc[d] = "green" =>
                   \A r \in live \ Explained(d) : Needs[r] \cap Explained(d) # {}

Leaving == /\ StateIsNew /\ BuiltBy /\ BuiltLive /\ Grounded
           /\ BillsAreNew /\ NothingMissed

\* What the sweep does not look for hangs on what it does look for: every
\* resource is of a kind the tagging API knows, or a declared name, or needs one.
Discoverable ==
  \A r \in Resource \ (Indexed \cup Declared) : Needs[r] \cap (Indexed \cup Declared) # {}

LEMMA LockingInit == ASSUME Init PROVE Locking
<1>1. \A j \in Jobs : pc[j] = "idle" /\ held[j] = {}
  BY DEF Init
<1>2. \A d \in Destroys : seen[d] = {}
  BY DEF Init
<1> QED
  BY <1>1, <1>2, JobFacts DEF Locking, OneWriter, Writing, OneRun, Active, LockHeld, Readers, Reading

\* Steps that leave the locks alone and wake nobody up.
LEMMA LockingFrame ==
  ASSUME TypeOK, Locking, UNCHANGED <<lock, held>>,
         \A j \in Jobs : Writing(j)' <=> Writing(j),
         \A j \in Runners : pc'[j] \in Active => pc[j] \in Active,
         \A d \in Destroys : seen'[d] = seen[d] /\ (pc'[d] = pc[d] \/ seen[d] = {})
  PROVE  Locking'
<1>1. OneWriter'
  BY DEF Locking, OneWriter
<1>2. OneRun'
  BY DEF Locking, OneRun
<1>3. LockHeld'
  BY DEF Locking, LockHeld, Holds, User
<1>4. Readers'
  BY DEF Locking, Readers, Reading
<1> QED
  BY <1>1, <1>2, <1>3, <1>4 DEF Locking

\* Outside the break no teardown remembers a lock.
LEMMA NothingSeen ==
  ASSUME Locking, NEW d \in Destroys, pc[d] \notin {"ask", "unlock"}
  PROVE  seen[d] = {}
BY DEF Locking, Readers, Reading

LEMMA LockingTake ==
  ASSUME TypeOK, Locking, NEW j \in Jobs, NEW from, NEW to, Take(j, from, to),
         from \notin {"ask", "unlock"}, to \in {"applying", "destroying"},
         j \in Runners => from \in Active, UNCHANGED seen
  PROVE  Locking'
<1>1. PICK i \in Fresh : /\ lock' = {[id |-> i, user |-> User(j)]}
                         /\ held' = [held EXCEPT ![j] = {i}]
  BY DEF Take
<1>2. /\ i \in LockIds /\ \A k \in Jobs : i \notin held[k]
      /\ \A d \in Destroys : \A l \in seen[d] : l.id # i
  <2> DEFINE held_ == UNION {held[k] : k \in Jobs}
             seen_ == UNION {seen[d] : d \in Destroys}
  <2>0. Fresh = LockIds \ ({l.id : l \in lock} \cup held_ \cup {l.id : l \in seen_})
    BY DEF Fresh
  <2>1. i \in LockIds /\ i \notin held_ /\ i \notin {l.id : l \in seen_}
    <3> HIDE DEF held_, seen_
    <3> QED
      BY <1>1, <2>0
  <2>2. \A k \in Jobs : i \notin held[k]
    BY <2>1
  <2>3. ASSUME NEW d \in Destroys, NEW l \in seen[d]
        PROVE  l.id # i
    <3>1. l \in UNION {seen[e] : e \in Destroys}
      BY <2>3
    <3> QED
      BY <2>1, <3>1
  <2> QED
    BY <2>1, <2>2, <2>3
<1>3. /\ lock = {} /\ pc[j] = from /\ pc'[j] = to /\ held'[j] = {i}
      /\ \A k \in Jobs \ {j} : pc'[k] = pc[k] /\ held'[k] = held[k]
  BY <1>1 DEF Take, TypeOK
<1>4. \A k \in Jobs : ~Writing(k)
  BY <1>3 DEF Locking, LockHeld, Holds
<1>5. \A k \in Jobs : Writing(k)' <=> k = j
  BY <1>3, <1>4 DEF Writing
<1>6. OneWriter'
  BY <1>5 DEF OneWriter
<1>7. OneRun'
  <2>1. \A k \in Runners : pc'[k] \in Active => pc[k] \in Active
    BY <1>3, JobFacts
  <2> QED
    BY <2>1 DEF Locking, OneRun
<1>8. LockHeld'
  <2>1. Holds(j)'
    BY <1>1, <1>2, <1>3 DEF Holds, User
  <2>2. \A k \in Jobs \ {j} : held'[k] = {}
    BY <1>3, <1>4 DEF Locking, LockHeld
  <2> QED
    BY <1>5, <2>1, <2>2 DEF LockHeld
<1>9. Readers'
  <2> SUFFICES ASSUME NEW d \in Destroys, NEW l \in seen[d]
               PROVE  /\ pc'[d] \in {"ask", "unlock"}
                      /\ \A k \in Jobs : l.id \in held'[k] =>
                           k \in Runners /\ RunOf[k] # RunOf[d] /\ pc'[d] = "ask"
    BY DEF Readers, Reading
  <2>1. pc[d] \in {"ask", "unlock"}
    BY DEF Locking, Readers, Reading
  <2>2. d \in Jobs /\ pc'[d] = pc[d]
    BY <1>3, <2>1, JobFacts
  <2>3. \A k \in Jobs : l.id \in held'[k] => l.id \in held[k]
    BY <1>2, <1>3
  <2> QED
    BY <2>1, <2>2, <2>3 DEF Locking, Readers, Reading
<1> QED
  BY <1>6, <1>7, <1>8, <1>9 DEF Locking

\* A job that is done writing, or dies: whoever it was, it holds nothing more.
LEMMA LockingLeaves ==
  ASSUME TypeOK, Locking, NEW j \in Jobs, NEW to,
         pc' = [pc EXCEPT ![j] = to], to \notin {"applying", "destroying"},
         j \in Runners => pc[j] \in Active, to \notin {"ask", "unlock"},
         held' = [held EXCEPT ![j] = {}],
         lock' = lock \/ (Writing(j) /\ Release(j)),
         \A d \in Destroys : seen'[d] = IF d = j THEN {} ELSE seen[d]
  PROVE  Locking'
<1>1. /\ pc'[j] = to /\ held'[j] = {}
      /\ \A k \in Jobs \ {j} : pc'[k] = pc[k] /\ held'[k] = held[k]
  BY DEF TypeOK
<1>2. ~Writing(j)' /\ \A k \in Jobs \ {j} : Writing(k)' <=> Writing(k)
  BY <1>1 DEF Writing
<1>3. OneWriter'
  BY <1>2 DEF Locking, OneWriter
<1>4. OneRun'
  <2>1. \A k \in Runners : pc'[k] \in Active => pc[k] \in Active
    BY <1>1, JobFacts
  <2> QED
    BY <2>1 DEF Locking, OneRun
<1>5. ASSUME NEW k \in Jobs
      PROVE  IF Writing(k)' THEN Holds(k)' ELSE held'[k] = {}
  <2>1. CASE k # j /\ Writing(k)
    <3>1. ~Writing(j)
      BY <2>1 DEF Locking, OneWriter
    <3>2. Holds(k)
      BY <2>1 DEF Locking, LockHeld
    <3> QED
      BY <1>1, <1>2, <2>1, <3>1, <3>2 DEF Holds, User
  <2>2. CASE k = j \/ ~Writing(k)
    BY <1>1, <1>2, <2>2 DEF Locking, LockHeld
  <2> QED
    BY <2>1, <2>2
<1>6. Readers'
  <2> SUFFICES ASSUME NEW d \in Destroys, NEW l \in seen'[d]
               PROVE  /\ pc'[d] \in {"ask", "unlock"}
                      /\ \A k \in Jobs : l.id \in held'[k] =>
                           k \in Runners /\ RunOf[k] # RunOf[d] /\ pc'[d] = "ask"
    BY DEF Readers, Reading
  <2>1. d # j /\ l \in seen[d] /\ d \in Jobs
    BY JobFacts
  <2> QED
    BY <1>1, <2>1 DEF Locking, Readers, Reading
<1> QED
  BY <1>3, <1>4, <1>5, <1>6 DEF Locking, LockHeld

\* A job starts: no other of its run is active.
LEMMA LockingStart ==
  ASSUME TypeOK, Locking, NEW j \in Runners, NEW to, UNCHANGED <<lock, held, seen>>,
         pc' = [pc EXCEPT ![j] = to], to \in {"apply", "break"}, pc[j] \notin Active,
         \A k \in Runners \ {j} : RunOf[k] = RunOf[j] => pc[k] \notin Active
  PROVE  Locking'
<1>0. j \in Jobs /\ pc'[j] = to /\ \A k \in Jobs \ {j} : pc'[k] = pc[k]
  BY JobFacts DEF TypeOK
<1>1. \A k \in Jobs : Writing(k)' <=> Writing(k)
  BY <1>0 DEF Writing, Active
<1>2. OneWriter' /\ LockHeld'
  BY <1>1 DEF Locking, OneWriter, LockHeld, Holds, User
<1>3. OneRun'
  BY <1>0, JobFacts DEF Locking, OneRun
<1>4. \A d \in Destroys : pc'[d] = pc[d] \/ seen[d] = {}
  <2>1. j \in Destroys => seen[j] = {}
    BY NothingSeen DEF Active
  <2> QED
    BY <1>0, <2>1, JobFacts
<1>5. Readers'
  BY <1>4 DEF Locking, Readers, Reading
<1> QED
  BY <1>2, <1>3, <1>5 DEF Locking

LEMMA LockingApply ==
  ASSUME TypeOK, Locking, NEW a \in Applies, Apply(a)
  PROVE  Locking'
<1> USE DEF aws, tf, mine, ghosts
<1>0. a \in Jobs /\ a \in Runners /\ a \notin Destroys /\ Destroys \subseteq Jobs
  BY JobFacts
<1>1. CASE StartApply(a)
  BY <1>0, <1>1, LockingStart DEF StartApply, Active
<1>2. CASE LockForApply(a)
  BY <1>0, <1>2, LockingTake DEF LockForApply, Active
<1>3. CASE ApplyFindsLock(a)
  <2>1. pc' = [pc EXCEPT ![a] = "over"] /\ pc[a] = "apply" /\ UNCHANGED <<lock, held, seen>>
    BY <1>3 DEF ApplyFindsLock
  <2>2. \A j \in Jobs : Writing(j)' <=> Writing(j)
    BY <1>0, <2>1 DEF Writing, TypeOK
  <2>3. \A j \in Runners : pc'[j] \in Active => pc[j] \in Active
    BY <1>0, <2>1, JobFacts DEF Active, TypeOK
  <2> QED
    BY <1>0, <2>1, <2>2, <2>3, LockingFrame DEF TypeOK
<1>4. ASSUME (\E r \in Resource : Create(a, r)) \/ Save(a)
      PROVE  Locking'
  <2>1. UNCHANGED <<pc, lock, held, seen>>
    BY <1>4 DEF Create, Save
  <2> QED
    BY <2>1, LockingFrame DEF Writing
<1>5. CASE FinishApply(a)
  <2>1. /\ pc' = [pc EXCEPT ![a] = "over"] /\ Writing(a) /\ Release(a) /\ pc[a] \in Active
        /\ held' = [held EXCEPT ![a] = {}]
        /\ "over" \notin {"applying", "destroying", "ask", "unlock"}
    BY <1>5 DEF FinishApply, Release, Writing, Active
  <2>2. \A d \in Destroys : seen'[d] = IF d = a THEN {} ELSE seen[d]
    BY <1>0, <1>5 DEF FinishApply
  <2> QED
    BY <1>0, <2>1, <2>2, LockingLeaves
<1> QED
  BY <1>1, <1>2, <1>3, <1>4, <1>5 DEF Apply

\* A teardown goes on to another step without touching a lock.
LEMMA LockingGoesOn ==
  ASSUME TypeOK, Locking, NEW d \in Destroys, NEW to, pc' = [pc EXCEPT ![d] = to],
         pc[d] \in Active \ {"applying", "destroying", "ask", "unlock"},
         to \notin {"applying", "destroying"}, UNCHANGED <<lock, held, seen>>
  PROVE  Locking'
<1>0. /\ d \in Jobs /\ d \in Runners /\ Runners \subseteq Jobs /\ Destroys \subseteq Jobs
      /\ pc'[d] = to /\ \A j \in Jobs \ {d} : pc'[j] = pc[j]
  BY JobFacts DEF TypeOK
<1>1. \A j \in Jobs : Writing(j)' <=> Writing(j)
  BY <1>0 DEF Writing
<1>2. \A j \in Runners : pc'[j] \in Active => pc[j] \in Active
  BY <1>0
<1>3. \A e \in Destroys : pc'[e] = pc[e] \/ seen[e] = {}
  BY <1>0, NothingSeen
<1> QED
  BY <1>1, <1>2, <1>3, LockingFrame

\* The lock is read: a runner's lock that is held belongs to another run.
LEMMA LockingRead ==
  ASSUME TypeOK, Locking, NEW d \in Destroys, ReadLock(d)
  PROVE  Locking'
<1> USE DEF aws, tf, mine, ghosts
<1>0. /\ d \in Jobs /\ d \in Runners /\ User(d) = "runner" /\ pc[d] = "break"
      /\ UNCHANGED <<lock, held>>
  BY JobFacts DEF ReadLock
<1>1. CASE UNCHANGED seen
  <2>1. PICK to \in {"adopt", "verify"} : pc' = [pc EXCEPT ![d] = to]
    <3>1. Ends(d, TRUE, "ask") => seen' # seen
      <4>1. seen[d] = {}
        BY <1>0, NothingSeen
      <4>2. Ends(d, TRUE, "ask") /\ UNCHANGED seen => FALSE
        <5>1. CASE \E l \in lock : Ends(d, TRUE, "ask") /\ seen' = [seen EXCEPT ![d] = {l}]
          BY <1>1, <4>1, <5>1 DEF TypeOK
        <5>2. CASE Ends(d, TRUE, "adopt") \/ Ends(d, FALSE, "ask")
          BY <1>0, <5>2 DEF Ends, TypeOK
        <5> QED
          BY <5>1, <5>2 DEF ReadLock
      <4> QED
        BY <4>2
    <3>2. Ends(d, TRUE, "adopt") => pc' = [pc EXCEPT ![d] = "adopt"]
      BY DEF Ends
    <3>3. Ends(d, FALSE, "ask") => pc' = [pc EXCEPT ![d] = "verify"]
      BY DEF Ends
    <3> QED
      BY <1>1, <3>1, <3>2, <3>3 DEF ReadLock
  <2> QED
    BY <1>0, <1>1, <2>1, LockingGoesOn DEF Active
<1>2. ASSUME NEW l \in lock, l.user = User(d), Ends(d, TRUE, "ask"),
             seen' = [seen EXCEPT ![d] = {l}]
      PROVE  Locking'
  <2>1. /\ pc'[d] = "ask" /\ seen'[d] = {l}
        /\ \A j \in Jobs \ {d} : pc'[j] = pc[j]
        /\ \A e \in Destroys \ {d} : seen'[e] = seen[e]
    BY <1>0, <1>2 DEF Ends, TypeOK
  <2>2. \A j \in Jobs : Writing(j)' <=> Writing(j)
    BY <1>0, <2>1 DEF Writing
  <2>3. OneWriter' /\ LockHeld'
    BY <1>0, <2>2 DEF Locking, OneWriter, LockHeld, Holds, User
  <2>4. OneRun'
    BY <1>0, <2>1, JobFacts DEF Locking, OneRun, Active
  <2>5. ASSUME NEW j \in Jobs, l.id \in held[j]
        PROVE  j \in Runners /\ RunOf[j] # RunOf[d]
    <3>1. Writing(j)
      BY <2>5 DEF Locking, LockHeld
    <3>2. l.user = User(j)
      BY <3>1 DEF Locking, LockHeld, Holds
    <3>3. j \in Runners
      BY <1>0, <1>2, <3>2, JobFacts DEF Jobs
    <3>4. j # d /\ pc[j] \in Active /\ pc[d] \in Active
      BY <1>0, <3>1 DEF Writing, Active
    <3> QED
      BY <1>0, <3>3, <3>4 DEF Locking, OneRun
  <2>6. Readers'
    BY <1>0, <2>1, <2>5, JobFacts DEF Locking, Readers, Reading
  <2> QED
    BY <2>3, <2>4, <2>6 DEF Locking
<1>3. \/ UNCHANGED seen
      \/ \E l \in lock : /\ l.user = User(d) /\ Ends(d, TRUE, "ask")
                         /\ seen' = [seen EXCEPT ![d] = {l}]
  BY DEF ReadLock
<1> QED
  BY <1>1, <1>2, <1>3

\* No other run is in progress: what was read is held by nobody any more.
LEMMA LockingAsk ==
  ASSUME TypeOK, Locking, NEW d \in Destroys, AskRuns(d)
  PROVE  Locking'
<1> USE DEF aws, tf, mine, ghosts
<1>0. /\ d \in Jobs /\ d \in Runners /\ pc[d] = "ask" /\ UNCHANGED <<lock, held>>
      /\ pc'[d] \in {"unlock", "verify"}
      /\ pc'[d] = "unlock" => ~OthersInProgress(d)
      /\ seen'[d] = IF pc'[d] = "unlock" THEN seen[d] ELSE {}
      /\ \A j \in Jobs \ {d} : pc'[j] = pc[j]
      /\ \A e \in Destroys \ {d} : seen'[e] = seen[e]
  BY JobFacts DEF AskRuns, Ends, TypeOK
<1>1. \A j \in Jobs : Writing(j)' <=> Writing(j)
  BY <1>0 DEF Writing
<1>2. OneWriter' /\ LockHeld'
  BY <1>0, <1>1 DEF Locking, OneWriter, LockHeld, Holds, User
<1>3. OneRun'
  BY <1>0, JobFacts DEF Locking, OneRun, Active
<1>4. ASSUME NEW l \in seen[d], NEW j \in Jobs, l.id \in held[j]
      PROVE  pc'[d] # "unlock"
  <2>1. j \in Runners /\ RunOf[j] # RunOf[d]
    BY <1>4 DEF Locking, Readers, Reading
  <2>2. pc[j] \in Active
    BY <1>4 DEF Locking, LockHeld, Writing, Active
  <2> QED
    BY <1>0, <2>1, <2>2 DEF OthersInProgress
<1>5. Readers'
  BY <1>0, <1>4, JobFacts DEF Locking, Readers, Reading
<1> QED
  BY <1>2, <1>3, <1>5 DEF Locking

\* force-unlock: the id that was read is nobody's, so no writer loses a lock.
LEMMA LockingUnlock ==
  ASSUME TypeOK, Locking, NEW d \in Destroys, ForceUnlock(d)
  PROVE  Locking'
<1> USE DEF aws, tf, mine, ghosts
<1>0. /\ d \in Jobs /\ d \in Runners /\ pc[d] = "unlock" /\ held' = held
      /\ pc'[d] \in {"adopt", "verify"} /\ seen'[d] = {} /\ lock' = lock \ seen[d]
      /\ \A j \in Jobs \ {d} : pc'[j] = pc[j]
      /\ \A e \in Destroys \ {d} : seen'[e] = seen[e]
  BY JobFacts DEF ForceUnlock, Ends, TypeOK
<1>1. \A j \in Jobs : Writing(j)' <=> Writing(j)
  BY <1>0 DEF Writing
<1>2. ASSUME NEW j \in Jobs, Writing(j)
      PROVE  Holds(j)'
  <2>1. PICK i \in LockIds : held[j] = {i} /\ lock = {[id |-> i, user |-> User(j)]}
    BY <1>2 DEF Locking, LockHeld, Holds
  <2>2. \A l \in seen[d] : l.id # i
    BY <1>0, <2>1 DEF Locking, Readers, Reading
  <2>3. lock' = lock
    BY <1>0, <2>1, <2>2
  <2> QED
    BY <1>0, <2>1, <2>3 DEF Holds, User
<1>3. OneWriter' /\ LockHeld'
  BY <1>0, <1>1, <1>2 DEF Locking, OneWriter, LockHeld
<1>4. OneRun'
  BY <1>0, JobFacts DEF Locking, OneRun, Active
<1>5. Readers'
  BY <1>0, JobFacts DEF Locking, Readers, Reading
<1> QED
  BY <1>3, <1>4, <1>5 DEF Locking

LEMMA LockingDestroy ==
  ASSUME TypeOK, Locking, NEW d \in Destroys, Destroy(d)
  PROVE  Locking'
<1> USE DEF aws, tf, mine, ghosts
<1>0. d \in Jobs /\ d \in Runners
  BY JobFacts
<1>1. CASE Start(d)
  BY <1>0, <1>1, LockingStart DEF Start, Active
<1>2. CASE ReadLock(d) \/ AskRuns(d) \/ ForceUnlock(d)
  BY <1>2, LockingRead, LockingAsk, LockingUnlock
<1>3. CASE Adopt(d)
  <2>1. \E to \in {"import", "verify"} : pc' = [pc EXCEPT ![d] = to]
    BY <1>3 DEF Adopt, Ends
  <2> QED
    BY <1>3, <2>1, LockingGoesOn DEF Adopt, Active
<1>4. CASE ImportsDone(d) \/ DestroyFindsLock(d) \/ Verify(d)
  BY <1>4, LockingGoesOn DEF ImportsDone, DestroyFindsLock, Verify, Ends, Active
<1>5. CASE FinalSweep(d)
  <2>1. \E to \in {"green", "red"} : pc' = [pc EXCEPT ![d] = to]
    BY <1>5 DEF FinalSweep
  <2> QED
    BY <1>5, <2>1, LockingGoesOn DEF FinalSweep, Active
<1>6. ASSUME \E r \in Resource : Import(d, r) \/ Delete(d, r)
      PROVE  Locking'
  BY <1>6, LockingFrame DEF Import, Delete, Writing
<1>7. CASE LockForDestroy(d)
  BY <1>0, <1>7, LockingTake DEF LockForDestroy, Active
<1>8. CASE FinishDestroy(d)
  <2>1. /\ pc' = [pc EXCEPT ![d] = "verify"] /\ Release(d) /\ pc[d] = "destroying"
        /\ seen' = seen
    BY <1>8 DEF FinishDestroy, Ends
  <2>2. \A e \in Destroys : seen'[e] = IF e = d THEN {} ELSE seen[e]
    BY <2>1, NothingSeen
  <2>3. /\ Writing(d) /\ pc[d] \in Active /\ held' = [held EXCEPT ![d] = {}]
        /\ "verify" \notin {"applying", "destroying", "ask", "unlock"}
    BY <2>1 DEF Release, Writing, Active
  <2> QED
    BY <1>0, <2>1, <2>2, <2>3, LockingLeaves
<1> QED
  BY <1>1, <1>2, <1>3, <1>4, <1>5, <1>6, <1>7, <1>8 DEF Destroy

LEMMA LockingRest ==
  ASSUME TypeOK, Locking,
         \/ \E k \in Desks : Desk(k)
         \/ \E j \in Runners : Die(j)
         \/ IndexCatchesUp
         \/ UNCHANGED vars
  PROVE  Locking'
<1> USE DEF aws, tf, mine, ghosts
<1>1. ASSUME NEW k \in Desks, Desk(k)
      PROVE  Locking'
  <2>0. k \in Jobs /\ k \notin Runners /\ k \notin Destroys
    BY JobFacts
  <2>1. CASE DeskTakes(k)
    BY <2>0, <2>1, LockingTake DEF DeskTakes
  <2>2. CASE DeskLeaves(k)
    <3>1. /\ pc' = [pc EXCEPT ![k] = "idle"] /\ Writing(k) /\ Release(k) /\ seen' = seen
          /\ held' = [held EXCEPT ![k] = {}]
      BY <2>2 DEF DeskLeaves, Release, Writing
    <3>2. /\ \A d \in Destroys : seen'[d] = IF d = k THEN {} ELSE seen[d]
          /\ "idle" \notin {"applying", "destroying", "ask", "unlock"}
      BY <2>0, <3>1
    <3> QED
      BY <2>0, <3>1, <3>2, LockingLeaves
  <2> QED
    BY <1>1, <2>1, <2>2 DEF Desk
<1>2. ASSUME NEW j \in Runners, Die(j)
      PROVE  Locking'
  <2>1. \A d \in Destroys : seen'[d] = IF d = j THEN {} ELSE seen[d]
    BY <1>2 DEF Die
  <2>2. j \in Jobs /\ "over" \notin {"applying", "destroying", "ask", "unlock"}
    BY JobFacts
  <2>3. /\ pc' = [pc EXCEPT ![j] = "over"] /\ pc[j] \in Active
        /\ held' = [held EXCEPT ![j] = {}] /\ lock' = lock
    BY <1>2 DEF Die
  <2> QED
    BY <2>1, <2>2, <2>3, LockingLeaves
<1>3. CASE IndexCatchesUp \/ UNCHANGED vars
  BY <1>3, LockingFrame DEF IndexCatchesUp, vars, Writing
<1> QED
  BY <1>1, <1>2, <1>3

LEMMA LockingInvariant == Spec => [](TypeOK /\ Locking)
<1>1. Init => Locking
  BY LockingInit
<1>2. TypeOK /\ Locking /\ [Next]_vars => Locking'
  BY LockingApply, LockingDestroy, LockingRest DEF Next
<1> QED
  BY <1>1, <1>2, TypeCorrect, PTL DEF Spec

\* Two jobs never write one state file at once, whatever locks are broken and
\* whoever is killed.
THEOREM WritersExclude == Spec => []OneWriter
<1>1. Locking => OneWriter
  BY DEF Locking
<1> QED
  BY <1>1, LockingInvariant, PTL

LEMMA LeavingInit == ASSUME Init PROVE Leaving
<1>1. /\ live = {} /\ \A j \in Jobs : pc[j] = "idle" /\ built[j] = {}
  BY DEF Init
<1> QED
  BY <1>1, JobFacts DEF Leaving, StateIsNew, Done, BuiltBy, BuiltLive, Grounded,
                        BillsAreNew, NothingMissed

\* Whoever writes is alone, so while one destroys nothing is being built.
LEMMA NothingBuilt ==
  ASSUME Locking, BuiltBy, NEW d \in Destroys, pc[d] = "destroying"
  PROVE  \A j \in Jobs : built[j] = {}
<1> SUFFICES ASSUME NEW j \in Jobs, built[j] # {}
             PROVE  FALSE
  OBVIOUS
<1>1. pc[j] = "applying"
  BY DEF BuiltBy
<1>2. Writing(j) /\ Writing(d) /\ d \in Jobs /\ j # d
  BY <1>1, JobFacts DEF Writing
<1> QED
  BY <1>2 DEF Locking, OneWriter

\* What a step leaves of a teardown that has got as far as the verification.
Same(d) == /\ pc'[d] = pc[d] /\ ok'[d] = ok[d]
           /\ since'[d] = since[d] /\ after'[d] = after[d] /\ hidden'[d] = hidden[d]
Aside(d) == pc'[d] \notin {"verify", "sweep", "green"} \/ (pc'[d] = "verify" /\ ~ok'[d])

\* Steps that create, delete and save nothing.
LEMMA LeavingFrame ==
  ASSUME TypeOK, Leaving, UNCHANGED <<live, state>>,
         \A j \in Jobs : \/ built'[j] = {}
                         \/ built'[j] = built[j] /\ (pc[j] = "applying" => pc'[j] = "applying"),
         \A d \in Destroys : Same(d) \/ Aside(d)
  PROVE  Leaving'
<1>1. BuiltBy' /\ BuiltLive' /\ Grounded'
  BY DEF Leaving, BuiltBy, BuiltLive, Grounded
<1>2. StateIsNew'
  <2> SUFFICES ASSUME NEW d \in Destroys, Done(d)'
               PROVE  state \subseteq since'[d] /\ \A a \in Jobs : built'[a] \subseteq since'[d]
    BY DEF StateIsNew
  <2>1. Same(d) /\ Done(d)
    BY DEF Done, Same, Aside
  <2> QED
    BY <2>1 DEF Leaving, StateIsNew, Same
<1>3. BillsAreNew' /\ NothingMissed'
  <2> SUFFICES ASSUME NEW d \in Destroys
               PROVE  /\ pc'[d] = "green" \/ (pc'[d] = "sweep" /\ ok'[d])
                           => live \cap Billable \subseteq after'[d]
                      /\ pc'[d] = "green" =>
                           \A r \in live \ Explained(d)' : Needs[r] \cap Explained(d)' # {}
    BY DEF BillsAreNew, NothingMissed
  <2>1. CASE Same(d)
    <3>1. Explained(d)' = Explained(d)
      BY <2>1 DEF Same, Explained, Mistaken, Identifiers
    <3> QED
      BY <2>1, <3>1 DEF Same, Leaving, BillsAreNew, NothingMissed
  <2>2. CASE Aside(d)
    BY <2>2 DEF Aside
  <2> QED
    BY <2>1, <2>2
<1> QED
  BY <1>1, <1>2, <1>3 DEF Leaving

\* What is explained stays explained while the history only grows.
LEMMA ExplainedGrows ==
  ASSUME NEW d \in Destroys, since[d] \subseteq since'[d], hidden'[d] = hidden[d]
  PROVE  Explained(d) \subseteq Explained(d)'
BY DEF Explained, Mistaken, Identifiers

\* Steps of the terraforms that are under way: what appears is noted as new,
\* and what was live and is gone was in nobody's way.
LEMMA LeavingWork ==
  ASSUME TypeOK, Leaving, BuiltBy', BuiltLive', Grounded',
         UNCHANGED hidden,
         \A d \in Destroys :
           /\ since[d] \subseteq since'[d] /\ after[d] \subseteq after'[d]
           /\ live' \ live \subseteq since'[d] \cap after'[d]
           /\ pc'[d] = pc[d] /\ ok'[d] = ok[d]
           /\ Done(d) => state' \subseteq since'[d] /\ \A a \in Jobs : built'[a] \subseteq since'[d]
  PROVE  Leaving'
<1>1. StateIsNew'
  BY DEF StateIsNew, Done
<1>2. BillsAreNew'
  BY DEF Leaving, BillsAreNew
<1>3. NothingMissed'
  <2> SUFFICES ASSUME NEW d \in Destroys, pc[d] = "green", NEW r \in live',
                      r \notin Explained(d)'
               PROVE  Needs[r] \cap Explained(d)' # {}
    BY DEF NothingMissed
  <2>1. Explained(d) \subseteq Explained(d)'
    BY ExplainedGrows
  <2>2. since'[d] \subseteq Explained(d)'
    BY DEF Explained
  <2>3. r \in live /\ r \notin Explained(d)
    BY <2>1, <2>2
  <2> QED
    BY <2>1, <2>3 DEF Leaving, NothingMissed
<1> QED
  BY <1>1, <1>2, <1>3 DEF Leaving

LEMMA LeavingApply ==
  ASSUME TypeOK, Locking, Leaving, NEW a \in Applies, Apply(a)
  PROVE  Leaving'
<1> USE DEF aws, tf, mine, ghosts
<1>0. a \in Jobs /\ a \notin Destroys /\ Destroys \subseteq Jobs
  BY JobFacts
<1>1. CASE StartApply(a) \/ LockForApply(a) \/ ApplyFindsLock(a)
  <2>1. /\ UNCHANGED <<live, state, built, ok, since, after, hidden>> /\ pc[a] # "applying"
        /\ \A j \in Jobs \ {a} : pc'[j] = pc[j]
    BY <1>0, <1>1 DEF StartApply, LockForApply, ApplyFindsLock, Take, TypeOK
  <2>2. \A d \in Destroys : Same(d)
    BY <1>0, <2>1 DEF Same
  <2>3. \A j \in Jobs : built'[j] = built[j] /\ (pc[j] = "applying" => pc'[j] = "applying")
    BY <2>1
  <2> QED
    BY <2>1, <2>2, <2>3, LeavingFrame
<1>2. ASSUME NEW r \in Resource, Create(a, r)
      PROVE  Leaving'
  <2>1. /\ live' = live \cup {r} /\ UNCHANGED <<state, pc, ok, hidden>>
        /\ built' = [built EXCEPT ![a] = @ \cup {r}] /\ pc[a] = "applying"
        /\ Needs[r] \subseteq (state \cap live) \cup built[a]
        /\ \A d \in Destroys : since'[d] = since[d] \cup {r} /\ after'[d] = after[d] \cup {r}
    BY <1>2 DEF Create
  <2>2. /\ \A j \in Jobs \ {a} : built'[j] = built[j]
        /\ built'[a] = built[a] \cup {r}
    BY <1>0, <2>1 DEF TypeOK
  <2>3. BuiltBy' /\ BuiltLive'
    BY <1>0, <2>1, <2>2 DEF Leaving, BuiltBy, BuiltLive
  <2>4. Grounded'
    <3>1. Needs[r] \subseteq live
      BY <1>0, <2>1 DEF Leaving, BuiltLive
    <3> QED
      BY <2>1, <3>1 DEF Leaving, Grounded
  <2>5. \A d \in Destroys : Done(d) =>
          state' \subseteq since'[d] /\ \A j \in Jobs : built'[j] \subseteq since'[d]
    BY <1>0, <2>1, <2>2 DEF Leaving, StateIsNew
  <2> QED
    BY <2>1, <2>3, <2>4, <2>5, LeavingWork
<1>3. CASE Save(a) \/ FinishApply(a)
  <2>1. /\ state' = state \cup built[a] /\ built' = [built EXCEPT ![a] = {}]
        /\ UNCHANGED <<live, ok, since, after, hidden>>
        /\ \A j \in Jobs \ {a} : pc'[j] = pc[j]
    BY <1>3 DEF Save, FinishApply, TypeOK
  <2>2. built'[a] = {} /\ \A j \in Jobs \ {a} : built'[j] = built[j]
    BY <1>0, <2>1 DEF TypeOK
  <2>3. BuiltBy' /\ BuiltLive' /\ Grounded'
    BY <2>1, <2>2 DEF Leaving, BuiltBy, BuiltLive, Grounded
  <2>4. \A d \in Destroys :
          /\ pc'[d] = pc[d]
          /\ Done(d) => state' \subseteq since[d] /\ \A j \in Jobs : built'[j] \subseteq since[d]
    BY <1>0, <2>1, <2>2 DEF Leaving, StateIsNew
  <2> QED
    BY <2>1, <2>3, <2>4, LeavingWork
<1> QED
  BY <1>1, <1>2, <1>3 DEF Apply

\* A clean sweep, when every service answers: whatever was found and exists
\* was taken for the state's.
LEMMA CleanSweep ==
  ASSUME TypeOK, "describe" \notin Failing,
         NEW decision \in Decisions, decision.verdict = "clean"
  PROVE  \A r \in Discovered \cap live : IsManaged(r, state)
<1>1. PICK silent : decision = Swept(silent, {})
  <2> DEFINE silences == {FALSE} \cup (IF "tagging" \in Failing THEN {TRUE} ELSE {})
             losses   == IF "describe" \in Failing THEN SUBSET Discovered ELSE {{}}
  <2>1. Decisions = {Swept(silent, lost) : silent \in silences, lost \in losses}
    BY DEF Decisions
  <2>2. losses = {{}}
    OBVIOUS
  <2> HIDE DEF silences, losses
  <2>3. \E silent, lost : decision = Swept(silent, lost) /\ lost \in losses
    BY <2>1, SMT
  <2> QED
    BY <2>2, <2>3
<1> DEFINE orphans == {r \in Discovered \cap ((Discovered \cap live) \ {}) : ~IsManaged(r, state)}
           unsure  == {r \in {} : Arn[r].kind \in UnindexedKinds}
<1>2. decision.verdict = IF silent THEN "refuse"
                         ELSE IF orphans \cup unsure # {} THEN "orphans" ELSE "clean"
  BY <1>1 DEF Swept, DecideSweep
<1>3. orphans \cup unsure = {}
  <2> HIDE DEF orphans, unsure
  <2> QED
    BY <1>2
<1> QED
  BY <1>3

\* It leaves what is explained, and what hangs on that.
LEMMA LeavingSweep ==
  ASSUME TypeOK, Leaving, "describe" \notin Failing, Discoverable,
         NEW d \in Destroys, FinalSweep(d)
  PROVE  Leaving'
<1> USE DEF aws, tf, mine, ghosts
<1>0. /\ d \in Jobs /\ Destroys \subseteq Jobs /\ pc[d] = "sweep"
      /\ UNCHANGED <<live, index, state, built, ok, since, after>>
      /\ hidden'[d] = (live \cap Indexed) \ index
      /\ pc'[d] \in {"green", "red"}
      /\ \A j \in Jobs \ {d} : pc'[j] = pc[j]
      /\ \A e \in Destroys \ {d} : hidden'[e] = hidden[e]
  BY JobFacts DEF FinalSweep, TypeOK
<1>1. CASE pc'[d] = "red"
  <2>1. \A e \in Destroys : Same(e) \/ Aside(e)
    BY <1>0, <1>1 DEF Same, Aside
  <2>2. \A j \in Jobs : built'[j] = built[j] /\ (pc[j] = "applying" => pc'[j] = "applying")
    BY <1>0
  <2> QED
    BY <1>0, <2>1, <2>2, LeavingFrame
<1>2. CASE pc'[d] = "green"
  <2>1. PICK decision \in Decisions : ok[d] /\ decision.verdict = "clean"
    <3>1. PICK decision \in Decisions :
            pc' = [pc EXCEPT ![d] = IF ok[d] /\ decision.verdict = "clean"
                                    THEN "green" ELSE "red"]
      BY DEF FinalSweep
    <3>2. pc'[d] = IF ok[d] /\ decision.verdict = "clean" THEN "green" ELSE "red"
      BY <1>0, <3>1 DEF TypeOK
    <3> QED
      BY <1>2, <3>2
  <2>2. \A r \in Discovered \cap live : IsManaged(r, state)
    BY <2>1, CleanSweep
  <2>3. state \subseteq since[d] /\ live \cap Billable \subseteq after[d]
    BY <1>0, <2>1 DEF Leaving, StateIsNew, BillsAreNew, Done
  <2>4. \A r \in live : r \in Indexed \cup Declared => r \in Explained(d)'
    <3> SUFFICES ASSUME NEW r \in live, r \in Indexed \cup Declared, r \notin hidden'[d]
                 PROVE  r \in Explained(d)'
      BY DEF Explained
    <3>1. r \in Discovered /\ r \in Resource
      BY <1>0 DEF Discovered, TypeOK
    <3>2. r \in state \/ Arn[r].tail \in Identifiers(state)
      BY <2>2, <3>1 DEF IsManaged
    <3>3. r \in since'[d] \/ Arn[r].tail \in Identifiers(since'[d])
      BY <1>0, <2>3, <3>2 DEF Identifiers
    <3> QED
      BY <3>1, <3>3 DEF Explained, Mistaken
  <2>5. \A r \in live : r \notin Explained(d)' => Needs[r] \cap Explained(d)' # {}
    <3> SUFFICES ASSUME NEW r \in live, r \notin Explained(d)'
                 PROVE  Needs[r] \cap Explained(d)' # {}
      OBVIOUS
    <3>1. r \in Resource \ (Indexed \cup Declared)
      BY <2>4 DEF TypeOK
    <3>2. PICK p \in Needs[r] : p \in Indexed \cup Declared
      BY <3>1 DEF Discoverable
    <3>3. p \in live
      BY DEF Leaving, Grounded
    <3> QED
      BY <2>4, <3>2, <3>3
  <2>6. \A e \in Destroys \ {d} : Explained(e)' = Explained(e)
    BY <1>0 DEF Explained, Mistaken, Identifiers
  <2>7. NothingMissed'
    BY <1>0, <2>5, <2>6 DEF Leaving, NothingMissed
  <2>8. BillsAreNew' /\ StateIsNew'
    BY <1>0, <2>3 DEF Leaving, BillsAreNew, StateIsNew, Done
  <2>9. BuiltBy' /\ BuiltLive' /\ Grounded'
    BY <1>0 DEF Leaving, BuiltBy, BuiltLive, Grounded
  <2> QED
    BY <2>7, <2>8, <2>9 DEF Leaving
<1> QED
  BY <1>0, <1>1, <1>2

\* Steps of one teardown that touch no resource and do not bring it to its end.
LEMMA LeavingStep ==
  ASSUME TypeOK, Leaving, NEW d \in Destroys,
         UNCHANGED <<live, state, built>>, Aside(d), pc[d] # "applying",
         \A j \in Jobs \ {d} : pc'[j] = pc[j],
         \A e \in Destroys \ {d} : Same(e)
  PROVE  Leaving'
<1>1. \A j \in Jobs : built'[j] = built[j] /\ (pc[j] = "applying" => pc'[j] = "applying")
  OBVIOUS
<1> QED
  BY <1>1, LeavingFrame

LEMMA LeavingImport ==
  ASSUME TypeOK, Leaving, NEW d \in Destroys, NEW r \in Resource, Import(d, r)
  PROVE  Leaving'
<1>1. /\ UNCHANGED <<live, built, ok, pc, after, hidden>>
      /\ \/ UNCHANGED <<state, since>>
         \/ /\ state' = state \cup {r}
            /\ \A e \in Destroys : since'[e] = since[e] \cup {r}
  BY DEF Import, aws
<1>2. BuiltBy' /\ BuiltLive' /\ Grounded'
  BY <1>1 DEF Leaving, BuiltBy, BuiltLive, Grounded
<1>3. \A e \in Destroys : since[e] \subseteq since'[e]
  BY <1>1
<1>4. \A e \in Destroys : Done(e) =>
        state' \subseteq since'[e] /\ \A a \in Jobs : built'[a] \subseteq since'[e]
  BY <1>1 DEF Leaving, StateIsNew
<1> QED
  BY <1>1, <1>2, <1>3, <1>4, LeavingWork

LEMMA LeavingDelete ==
  ASSUME TypeOK, Locking, Leaving, NEW d \in Destroys, NEW r \in Resource, Delete(d, r)
  PROVE  Leaving'
<1>1. /\ live' = live \ {r} /\ state' \subseteq state /\ Deletable(r) /\ pc[d] = "destroying"
      /\ UNCHANGED <<built, ok, pc, since, after, hidden>>
  BY DEF Delete, mine, ghosts
<1>2. \A j \in Jobs : built[j] = {}
  BY <1>1, NothingBuilt DEF Leaving
<1>3. BuiltBy' /\ BuiltLive'
  BY <1>1, <1>2 DEF BuiltBy, BuiltLive
<1>4. Grounded'
  BY <1>1 DEF Leaving, Grounded, Deletable
<1>5. \A e \in Destroys : Done(e) =>
        state' \subseteq since'[e] /\ \A a \in Jobs : built'[a] \subseteq since'[e]
  BY <1>1 DEF Leaving, StateIsNew
<1> QED
  BY <1>1, <1>3, <1>4, <1>5, LeavingWork

LEMMA LeavingFinish ==
  ASSUME TypeOK, Locking, Leaving, NEW d \in Destroys, FinishDestroy(d)
  PROVE  Leaving'
<1>0. /\ d \in Jobs /\ Destroys \subseteq Jobs /\ pc[d] = "destroying"
      /\ UNCHANGED <<live, built, after, hidden>> /\ state' = state \cap live
      /\ pc'[d] = "verify" /\ ok'[d] = (ok[d] /\ state \cap live = {})
      /\ \A j \in Jobs \ {d} : pc'[j] = pc[j]
      /\ \A e \in Destroys \ {d} : ok'[e] = ok[e] /\ since'[e] = since[e]
  BY JobFacts DEF FinishDestroy, Ends, TypeOK, aws
<1>1. \A j \in Jobs : built[j] = {}
  BY <1>0, NothingBuilt DEF Leaving
<1>2. BuiltBy' /\ BuiltLive' /\ Grounded'
  BY <1>0, <1>1 DEF Leaving, BuiltBy, BuiltLive, Grounded
<1>3. StateIsNew'
  BY <1>0, <1>1 DEF Leaving, StateIsNew, Done
<1>4. BillsAreNew'
  BY <1>0 DEF Leaving, BillsAreNew
<1>5. \A e \in Destroys \ {d} : Explained(e)' = Explained(e)
  BY <1>0 DEF Explained, Mistaken, Identifiers
<1>6. NothingMissed'
  BY <1>0, <1>5 DEF Leaving, NothingMissed
<1> QED
  BY <1>2, <1>3, <1>4, <1>6 DEF Leaving

LEMMA LeavingVerify ==
  ASSUME TypeOK, Leaving, NEW d \in Destroys, Verify(d)
  PROVE  Leaving'
<1>0. /\ d \in Jobs /\ Destroys \subseteq Jobs /\ pc[d] = "verify"
      /\ UNCHANGED <<live, state, built, since, hidden>>
      /\ pc'[d] = "sweep" /\ ok'[d] = (ok[d] /\ live \cap Billable = {})
      /\ \A j \in Jobs \ {d} : pc'[j] = pc[j]
      /\ \A e \in Destroys \ {d} : ok'[e] = ok[e] /\ after'[e] = after[e]
  BY JobFacts DEF Verify, TypeOK, aws, tf
<1>1. BuiltBy' /\ BuiltLive' /\ Grounded'
  BY <1>0 DEF Leaving, BuiltBy, BuiltLive, Grounded
<1>2. StateIsNew'
  BY <1>0 DEF Leaving, StateIsNew, Done
<1>3. BillsAreNew'
  BY <1>0 DEF Leaving, BillsAreNew
<1>4. \A e \in Destroys : Explained(e)' = Explained(e)
  BY <1>0 DEF Explained, Mistaken, Identifiers
<1>5. NothingMissed'
  BY <1>0, <1>4 DEF Leaving, NothingMissed
<1> QED
  BY <1>1, <1>2, <1>3, <1>5 DEF Leaving

LEMMA LeavingDestroy ==
  ASSUME TypeOK, Locking, Leaving, "describe" \notin Failing, Discoverable,
         NEW d \in Destroys, Destroy(d)
  PROVE  Leaving'
<1> USE DEF aws, tf, mine, ghosts
<1>0. d \in Jobs /\ Destroys \subseteq Jobs
  BY JobFacts
<1>1. CASE Start(d)
  <2>1. /\ UNCHANGED <<live, state, built>> /\ pc[d] # "applying" /\ pc'[d] = "break"
        /\ \A j \in Jobs \ {d} : pc'[j] = pc[j]
        /\ \A e \in Destroys \ {d} : Same(e)
    BY <1>0, <1>1 DEF Start, Same, TypeOK
  <2>2. Aside(d)
    BY <2>1 DEF Aside
  <2> QED
    BY <2>1, <2>2, LeavingStep
<1>2. CASE \/ ReadLock(d) \/ AskRuns(d) \/ ForceUnlock(d) \/ Adopt(d) \/ DestroyFindsLock(d)
  <2>1. /\ UNCHANGED <<live, state, built, since, after, hidden>> /\ pc[d] # "applying"
        /\ \E good, next : /\ next \in {"ask", "adopt", "unlock", "import", "verify"}
                           /\ next = "verify" => good = FALSE
                           /\ Ends(d, good, next)
    BY <1>2 DEF ReadLock, AskRuns, ForceUnlock, Adopt, DestroyFindsLock
  <2>2. PICK good, next : /\ next \in {"ask", "adopt", "unlock", "import", "verify"}
                          /\ next = "verify" => good = FALSE
                          /\ Ends(d, good, next)
    BY <2>1
  <2>3. /\ \A j \in Jobs \ {d} : pc'[j] = pc[j]
        /\ \A e \in Destroys \ {d} : Same(e)
    BY <1>0, <2>1, <2>2 DEF Ends, Same, TypeOK
  <2>4. Aside(d)
    BY <1>0, <2>2 DEF Ends, Aside, TypeOK
  <2> QED
    BY <2>1, <2>3, <2>4, LeavingStep
<1>3. CASE ImportsDone(d) \/ LockForDestroy(d)
  <2>1. /\ UNCHANGED <<live, state, built>> /\ pc[d] # "applying"
        /\ pc'[d] \in {"destroy", "destroying"}
        /\ \A j \in Jobs \ {d} : pc'[j] = pc[j]
        /\ \A e \in Destroys \ {d} : Same(e)
    BY <1>0, <1>3 DEF ImportsDone, LockForDestroy, Take, Same, TypeOK
  <2>2. Aside(d)
    BY <2>1 DEF Aside
  <2> QED
    BY <2>1, <2>2, LeavingStep
<1>4. ASSUME NEW r \in Resource, Import(d, r) \/ Delete(d, r)
      PROVE  Leaving'
  BY <1>4, LeavingImport, LeavingDelete
<1>5. CASE FinishDestroy(d) \/ Verify(d) \/ FinalSweep(d)
  BY <1>5, LeavingFinish, LeavingVerify, LeavingSweep
<1> QED
  BY <1>1, <1>2, <1>3, <1>4, <1>5 DEF Destroy

LEMMA LeavingRest ==
  ASSUME TypeOK, Leaving,
         \/ \E k \in Desks : Desk(k)
         \/ \E j \in Runners : Die(j)
         \/ IndexCatchesUp
         \/ UNCHANGED vars
  PROVE  Leaving'
<1> USE DEF aws, tf, mine, ghosts
<1>1. ASSUME NEW k \in Desks, Desk(k)
      PROVE  Leaving'
  <2>1. k \in Jobs /\ k \notin Applies /\ k \notin Destroys /\ Destroys \subseteq Jobs
    BY JobFacts
  <2>2. /\ UNCHANGED <<live, state, built, ok, since, after, hidden>>
        /\ \A j \in Jobs \ {k} : pc'[j] = pc[j]
    BY <1>1, <2>1 DEF Desk, DeskTakes, DeskLeaves, Take, TypeOK
  <2>3. built[k] = {}
    BY <2>1 DEF Leaving, BuiltBy
  <2>4. \A j \in Jobs : \/ built'[j] = {}
                        \/ built'[j] = built[j] /\ (pc[j] = "applying" => pc'[j] = "applying")
    BY <2>2, <2>3
  <2>5. \A d \in Destroys : Same(d)
    BY <2>1, <2>2 DEF Same
  <2> QED
    BY <2>2, <2>4, <2>5, LeavingFrame
<1>2. ASSUME NEW j \in Runners, Die(j)
      PROVE  Leaving'
  <2>1. j \in Jobs /\ Destroys \subseteq Jobs
    BY JobFacts
  <2>2. /\ UNCHANGED <<live, state, ok, since, after, hidden>> /\ pc'[j] = "over"
        /\ built'[j] = {}
        /\ \A k \in Jobs \ {j} : pc'[k] = pc[k] /\ built'[k] = built[k]
    BY <1>2, <2>1 DEF Die, TypeOK
  <2>3. \A d \in Destroys : Same(d) \/ Aside(d)
    BY <2>1, <2>2 DEF Same, Aside
  <2>4. \A k \in Jobs : \/ built'[k] = {}
                        \/ built'[k] = built[k] /\ (pc[k] = "applying" => pc'[k] = "applying")
    BY <2>2
  <2> QED
    BY <2>2, <2>3, <2>4, LeavingFrame
<1>3. CASE IndexCatchesUp \/ UNCHANGED vars
  <2>1. UNCHANGED <<live, state, built, pc, ok, since, after, hidden>>
    BY <1>3 DEF IndexCatchesUp, vars
  <2>2. /\ \A d \in Destroys : Same(d)
        /\ \A j \in Jobs : built'[j] = built[j] /\ (pc[j] = "applying" => pc'[j] = "applying")
    BY <2>1 DEF Same
  <2> QED
    BY <2>1, <2>2, LeavingFrame
<1> QED
  BY <1>1, <1>2, <1>3

\* A green teardown left nothing it could have found, and nothing that bills
\* predates its verification, whatever is applied, destroyed, unlocked, adopted
\* or killed besides.  Two things are taken for granted: every service answers
\* when asked whether one resource exists (the sweep reads no answer as "not
\* there" for every kind but a role, sweep-orphans.sh), and what the sweep does
\* not look for hangs on what it does (Discoverable, true of the resources the
\* runs have).
THEOREM GreenLeavesNothing ==
  ASSUME "describe" \notin Failing, Discoverable
  PROVE  Spec => []GreenHolds
<1>1. Init => Leaving
  BY LeavingInit
<1>2. TypeOK /\ Locking /\ Leaving /\ [Next]_vars => Leaving'
  BY LeavingApply, LeavingDestroy, LeavingRest DEF Next
<1>3. TypeOK /\ Leaving => GreenHolds
  BY DEF Leaving, BillsAreNew, NothingMissed, GreenHolds, GreenMeansGone
<1> QED
  BY <1>1, <1>2, <1>3, LockingInvariant, PTL DEF Spec
=============================================================================
