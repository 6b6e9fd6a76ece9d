------------------------ MODULE LaunchControl_proofs ------------------------
(***************************************************************************)
(* Proofs about LaunchControl, for any number of presses, watchdogs,       *)
(* nonces and launch ids, any cap and any deadlines.                       *)
(***************************************************************************)
EXTENDS LaunchControl, TLAPS, FiniteSetTheorems

LEMMA DayTypes ==
  ASSUME NEW t \in Time
  PROVE  t \in Nat /\ Day(t) \in Days
<1>1. t \in Nat /\ t <= MaxTime
  BY BoundAssumption DEF Time
<1>2. DayLength \in Nat /\ DayLength > 0 /\ MaxTime \in Nat
  BY BoundAssumption
<1>3. t \div DayLength \in Nat /\ MaxTime \div DayLength \in Nat
  BY <1>1, <1>2, Z3
<1>4. t \div DayLength <= MaxTime \div DayLength
  BY <1>1, <1>2, Z3
<1> QED
  BY <1>1, <1>3, <1>4 DEF Days, Day

(***************************************************************************)
(* Types                                                                   *)
(***************************************************************************)
LEMMA PlanType ==
  ASSUME NEW alive, NEW lk, NEW rec, NEW t, ScopeOf(alive) \in SUBSET Ids
  PROVE  DecideSweep(alive, lk, rec, t) \in Plan
<1>1. TidyUp(lk, rec, t) \in Plan
  BY DEF TidyUp, Decision, Plan, Actions
<1>2. \A a \in Actions, c \in BOOLEAN : Decision(a, ScopeOf(alive), c) \in Plan
  BY DEF Decision, Plan
<1> DEFINE scope == ScopeOf(alive)
           asked_ == AskedFor(rec, scope)
<1>3. \/ DecideSweep(alive, lk, rec, t) = TidyUp(lk, rec, t)
      \/ DecideSweep(alive, lk, rec, t) = Decision("within_deadline", scope, FALSE)
      \/ DecideSweep(alive, lk, rec, t) = Decision("dispatched_destroy", scope, FALSE)
      \/ DecideSweep(alive, lk, rec, t) = Decision("waiting_for_destroy", scope, FALSE)
      \/ DecideSweep(alive, lk, rec, t) = Decision("blunt_teardown", scope, TRUE)
  BY Zenon DEF DecideSweep
<1> QED
  BY <1>1, <1>2, <1>3 DEF Actions

LEMMA InitType == ASSUME Init PROVE TypeOK
<1>1. 0 \in Time /\ 0 \in 0..Cap /\ 0 \in Nat
  BY BoundAssumption DEF Time
<1>2. Idle \in Plan
  BY DEF Idle, Decision, Plan, Actions
<1>3. Asleep \in Dog
  BY <1>1, <1>2 DEF Asleep, Dog, DogState
<1> QED
  BY <1>1, <1>3 DEF Init, AtRest, TypeOK, NonceState, RunStatus

LEMMA StoreType == ASSUME TypeOK, Tick \/ StoreStep PROVE TypeOK'
<1> USE DEF store, lambda, actions, history
<1>1. CASE Tick
  BY <1>1, BoundAssumption DEF Tick, TypeOK, Time
<1>2. CASE EngageKillSwitch
  BY <1>2 DEF EngageKillSwitch, TypeOK
<1>3. CASE ReapRecord
  BY <1>3 DEF ReapRecord, TypeOK
<1>4. ASSUME NEW i \in Nonces, AskForNonce(i) \/ IssueNonce(i) \/ ReapNonce(i)
      PROVE  TypeOK'
  <2>1. now + NonceTTL \in Nat
    BY BoundAssumption DEF TypeOK, Time
  <2>2. nonces' \in [Nonces -> NonceState] /\ until' \in [Nonces -> Nat]
    BY <1>4, <2>1 DEF AskForNonce, IssueNonce, ReapNonce, TypeOK, NonceState
  <2> QED
    BY <1>4, <2>2 DEF AskForNonce, IssueNonce, ReapNonce, TypeOK
<1> QED
  BY <1>1, <1>2, <1>3, <1>4 DEF StoreStep

LEMMA LaunchType ==
  ASSUME TypeOK, NEW p \in Presses, LaunchStep(p)
  PROVE  TypeOK'
<1> USE DEF store, lambda, actions, history
<1> DEFINE PC == {"idle"} \cup PressActive \cup PressDone
<1>0. /\ started[p] \in Time /\ started[p] + TTL \in Nat /\ Day(started[p]) \in Days
      /\ \A s \in PC : Goto(p, s) => pc' \in [Presses -> PC]
      /\ Rob(p) => robbed' \subseteq [victim : Presses, thief : Presses \cup Watchdogs]
  <2>1. started[p] \in Time
    BY DEF TypeOK
  <2>2. Rob(p) => robbed' \subseteq [victim : Presses, thief : Presses \cup Watchdogs]
    BY DEF Rob, TypeOK, Lock
  <2> QED
    BY <2>1, <2>2, DayTypes, BoundAssumption DEF TypeOK, Time, Goto
<1>1. CASE Press(p)
  BY <1>0, <1>1 DEF Press, TypeOK, PressActive, PressDone
<1>2. CASE ReadSwitch(p)
  BY <1>0, <1>2 DEF ReadSwitch, TypeOK, PressActive, PressDone
<1>3. CASE RedeemNonce(p)
  <2>1. nonces' \in [Nonces -> NonceState]
    BY <1>3 DEF RedeemNonce, TypeOK, NonceState
  <2> QED
    BY <1>0, <1>3, <2>1 DEF RedeemNonce, TypeOK, PressActive, PressDone
<1>4. CASE AskInFlight(p)
  BY <1>0, <1>4 DEF AskInFlight, TypeOK, PressActive, PressDone
<1>5. CASE TakeLock(p)
  <2>1. lock' \subseteq Lock
    BY <1>0, <1>5 DEF TakeLock, TypeOK, Lock
  <2> QED
    BY <1>0, <1>5, <2>1 DEF TakeLock, TypeOK, PressActive, PressDone
<1>6. CASE IncrementDay(p)
  <2>1. count' \in [Days -> 0..Cap]
    BY <1>0, <1>6, BoundAssumption DEF IncrementDay, TypeOK
  <2> QED
    BY <1>0, <1>6, <2>1 DEF IncrementDay, TypeOK, PressActive, PressDone
<1>7. CASE Dispatch(p)
  BY <1>0, <1>7 DEF Dispatch, TypeOK, PressActive, PressDone, RunStatus
<1>8. CASE ReleaseQuietly(p)
  BY <1>0, <1>8 DEF ReleaseQuietly, TypeOK, PressActive, PressDone
<1>9. CASE Crash(p)
  BY <1>0, <1>9 DEF Crash, TypeOK, PressActive, PressDone
<1> QED
  BY <1>1, <1>2, <1>3, <1>4, <1>5, <1>6, <1>7, <1>8, <1>9 DEF LaunchStep

LEMMA RunType ==
  ASSUME TypeOK, (\E p \in Presses : RunStep(p)) \/ OwnerStep \/ DestroyWorkflow
  PROVE  TypeOK'
<1> USE DEF store, lambda, actions, history
<1>0. /\ now + TTL \in Nat
      /\ \A k \in Kinds, i \in Ids \cup {NoId}, e \in Nat :
           Retag(k, i, e) => stage' \subseteq Resource
      /\ {} \subseteq Resource
  BY BoundAssumption DEF TypeOK, Time, Retag, Resource
<1>1. ASSUME NEW p \in Presses, RunAppears(p) \/ RunStarts(p) \/ RunDies(p)
      PROVE  TypeOK'
  BY <1>0, <1>1 DEF RunAppears, RunStarts, RunDies, Advance, TypeOK, RunStatus
<1>2. ASSUME NEW p \in Presses, NEW k \in Kinds, RunApplies(p, k)
      PROVE  TypeOK'
  <2>1. chosen[p] \in Ids /\ expiry[p] \in Nat
    BY DEF TypeOK
  <2>2. stage' \subseteq Resource
    BY <1>0, <1>2, <2>1 DEF RunApplies
  <2> QED
    BY <1>2, <2>2 DEF RunApplies, TypeOK
<1>3. ASSUME NEW p \in Presses, RunDestroys(p)
      PROVE  TypeOK'
  BY <1>0, <1>3 DEF RunDestroys, Advance, TypeOK, RunStatus
<1>4. ASSUME NEW p \in Presses, ReleaseLock(p)
      PROVE  TypeOK'
  <2>1. lock' \subseteq Lock
    BY <1>4 DEF ReleaseLock, TypeOK
  <2>2. robbed' \subseteq [victim : Presses, thief : Presses \cup Watchdogs]
    BY <1>4 DEF ReleaseLock, Rob, TypeOK, Lock
  <2>3. run' \in [Presses -> RunStatus]
    BY <1>4 DEF ReleaseLock, Advance, TypeOK, RunStatus
  <2> QED
    BY <1>4, <2>1, <2>2, <2>3 DEF ReleaseLock, TypeOK
<1>5. CASE OwnerDispatches \/ OwnerStarts \/ OwnerFinishes \/ DestroyWorkflow
  BY <1>0, <1>5 DEF OwnerDispatches, OwnerStarts, OwnerFinishes, DestroyWorkflow, TypeOK
<1>6. ASSUME NEW k \in Kinds, OwnerApplies(k)
      PROVE  TypeOK'
  <2>1. stage' \subseteq Resource
    BY <1>0, <1>6 DEF OwnerApplies
  <2> QED
    BY <1>6, <2>1 DEF OwnerApplies, TypeOK
<1> QED
  BY <1>1, <1>2, <1>3, <1>4, <1>5, <1>6 DEF RunStep, OwnerStep

LEMMA DogType ==
  ASSUME TypeOK, NEW w \in Watchdogs, WatchdogStep(w)
  PROVE  TypeOK'
<1> USE DEF store, lambda, actions, history
<1>0. /\ dog[w] \in Dog /\ now \in Time
      /\ \A d \in Dog : dog' = [dog EXCEPT ![w] = d] => dog' \in [Watchdogs -> Dog]
  BY DEF TypeOK
<1>a. Asleep \in Dog
  <2>1. 0 \in Time
    BY BoundAssumption DEF Time
  <2> QED
    BY <2>1 DEF Asleep, Dog, DogState, Idle, Decision, Plan, Actions
<1>b. /\ Return(w) => dog' \in [Watchdogs -> Dog]
      /\ \A s \in DogState : DogGoto(w, s) => dog' \in [Watchdogs -> Dog]
  <2>1. ASSUME NEW s \in DogState, DogGoto(w, s)
        PROVE  dog' \in [Watchdogs -> Dog]
    BY <1>0, <2>1 DEF DogGoto, TypeOK, Dog
  <2> QED
    BY <1>0, <1>a, <2>1 DEF Return
<1>1. CASE WakeUp(w)
  <2>1. [Asleep EXCEPT !.pc = "lock", !.started = now] \in Dog
    BY <1>0, <1>a DEF Dog, DogState
  <2> QED
    BY <1>0, <1>1, <2>1 DEF WakeUp, TypeOK
<1>2. CASE ReadLock(w)
  <2>1. dog' \in [Watchdogs -> Dog]
    BY <1>0, <1>2 DEF ReadLock, TypeOK, Dog, DogState
  <2> QED
    BY <1>2, <2>1 DEF ReadLock, TypeOK
<1>3. CASE ReadSweep(w)
  <2>1. dog' \in [Watchdogs -> Dog]
    BY <1>0, <1>3 DEF ReadSweep, TypeOK, Dog, DogState
  <2> QED
    BY <1>3, <2>1 DEF ReadSweep, TypeOK
<1>4. CASE Decide(w)
  <2> DEFINE d == DecideSweep(dog[w].seen, dog[w].lock, dog[w].record, dog[w].started)
             after == [pc |-> FirstEffect(d), started |-> dog[w].started,
                       lock |-> {}, record |-> {}, looked |-> {},
                       seen |-> dog[w].seen, plan |-> d]
  <2>0. dog[w].seen \in SUBSET Tagged
    BY <1>0 DEF Dog
  <2>1. ScopeOf(dog[w].seen) \subseteq Ids
    BY <2>0 DEF ScopeOf, Tagged
  <2>2. d \in Plan
    BY <2>1, PlanType
  <2>3. FirstEffect(d) \in DogState
    BY DEF FirstEffect, DogState
  <2>4. after \in Dog
    <3> HIDE DEF d
    <3> QED
      BY <1>0, <2>2, <2>3 DEF Dog
  <2>5. Return(w) \/ dog' = [dog EXCEPT ![w] = after]
    BY <1>4 DEF Decide
  <2>6. dog' \in [Watchdogs -> Dog]
    BY <1>0, <1>b, <2>4, <2>5
  <2> QED
    BY <1>4, <2>6 DEF Decide, TypeOK
<1>10. ASSUME NEW k \in Kinds, Observe(w, k)
       PROVE  TypeOK'
  <2>1. {r \in Alive : r.kind = k} \subseteq Tagged
    BY DEF Alive, TypeOK, Resource, Tagged
  <2>2. dog' \in [Watchdogs -> Dog]
    BY <1>0, <1>10, <2>1 DEF Observe, TypeOK, Dog
  <2> QED
    BY <1>10, <2>2 DEF Observe, TypeOK
<1>5. CASE DispatchDestroy(w)
  <2>1. dog[w].plan.scope \in SUBSET Ids /\ dog[w].started \in Time
    BY <1>0 DEF Dog, Plan
  <2>2. teardown' \in BOOLEAN
    BY <1>5, Zenon DEF DispatchDestroy, TypeOK
  <2>3. asked' \subseteq [scope : SUBSET Ids, at : Time]
    BY <1>5, <2>1 DEF DispatchDestroy, TypeOK
  <2>4. dog' \in [Watchdogs -> Dog]
    BY <1>b, <1>5 DEF DispatchDestroy, DogState
  <2> QED
    BY <1>5, <2>2, <2>3, <2>4 DEF DispatchDestroy, TypeOK
<1>6. CASE NoteSweep(w)
  <2>1. /\ dog[w].plan.scope \in SUBSET Ids /\ dog[w].started \in Time
        /\ dog[w].started + RecordTTL \in Nat
    BY <1>0, BoundAssumption DEF Dog, Plan, Time
  <2>2. record' \subseteq Record
    BY <1>6, <2>1 DEF NoteSweep, TypeOK, Record
  <2> QED
    BY <1>b, <1>6, <2>2 DEF NoteSweep, TypeOK
<1>7. CASE BluntTeardown(w)
  <2>1. stage' \subseteq Resource
    BY <1>7 DEF BluntTeardown, TypeOK
  <2> QED
    BY <1>b, <1>7, <2>1 DEF BluntTeardown, TypeOK, DogState
<1>8. CASE Unlock(w)
  <2>1. Rob(w) => robbed' \subseteq [victim : Presses, thief : Presses \cup Watchdogs]
    BY DEF Rob, TypeOK, Lock
  <2> QED
    BY <1>b, <1>8, <2>1 DEF Unlock, TypeOK, DogState
<1>9. CASE ClearRecord(w) \/ Die(w)
  BY <1>b, <1>9 DEF ClearRecord, Die, TypeOK
<1> QED
  BY <1>1, <1>2, <1>3, <1>4, <1>5, <1>6, <1>7, <1>8, <1>9, <1>10 DEF WatchdogStep

\* Every variable keeps its type whatever the Lambdas, the runs and the clock do.
THEOREM TypeCorrect == Spec => []TypeOK
<1>1. Init => TypeOK
  BY InitType
<1>2. TypeOK /\ [Next]_vars => TypeOK'
  <2>1. TypeOK /\ UNCHANGED vars => TypeOK'
    BY DEF vars, store, lambda, actions, history, TypeOK
  <2> QED
    BY <2>1, StoreType, LaunchType, RunType, DogType DEF Next
<1> QED
  BY <1>1, <1>2, PTL DEF Spec

(***************************************************************************)
(* The ledger: what a press has used up by the time it reaches GitHub.     *)
(* The daily cap, the single use of a nonce and the kill switch follow     *)
(* from it; none of them is inductive by itself.                           *)
(***************************************************************************)
BeforeDispatch ==
  {"idle", "switch", "nonce", "inflight", "lock", "count", "release", "dispatch"}
PastNonce == {"inflight", "lock", "count", "release", "dispatch", "undo"}

Redeemed(p) == pc[p] \in PastNonce \/ run[p] # "none"
Charged(d) == {p \in Presses : /\ pc[p] = "dispatch" \/ run[p] # "none"
                               /\ Day(started[p]) = d}

NoEarlyRun == \A p \in Presses : pc[p] \in BeforeDispatch => run[p] = "none"
NonceSpent == \A p \in Presses : Redeemed(p) => nonces[nonce[p]] = "gone"
NoSharing  == \A p, q \in Presses :
                p # q /\ Redeemed(p) /\ Redeemed(q) => nonce[p] # nonce[q]
Accounts   == \A d \in Days : Cardinality(Charged(d)) <= count[d]
LateInert  == /\ late # {} => killed
              /\ \A p \in late : pc[p] \in {"idle", "switch", "done"} /\ run[p] = "none"

Ledger == NoEarlyRun /\ NonceSpent /\ NoSharing /\ Accounts /\ LateInert

LEMMA ChargedFinite ==
  ASSUME NEW d
  PROVE  /\ IsFiniteSet(Charged(d)) /\ Cardinality(Charged(d)) \in Nat
         /\ IsFiniteSet(RunsOf(d)) /\ Cardinality(RunsOf(d)) \in Nat
         /\ Cardinality(RunsOf(d)) <= Cardinality(Charged(d))
<1>1. Charged(d) \subseteq Presses /\ RunsOf(d) \subseteq Charged(d)
  BY DEF Charged, RunsOf
<1> QED
  BY <1>1, BoundAssumption, FS_Subset, FS_CardinalityType

LEMMA LedgerInit == ASSUME Init PROVE Ledger
<1>1. \A d \in Days : Charged(d) = {}
  BY DEF Init, AtRest, Charged
<1>2. Accounts
  <2>1. \A d \in Days : Cardinality(Charged(d)) = 0
    BY <1>1, FS_EmptySet, Zenon
  <2>2. \A d \in Days : count[d] = 0
    BY DEF Init, AtRest
  <2> QED
    BY <2>1, <2>2 DEF Accounts
<1> QED
  <2>1. \A p \in Presses : run[p] = "none" /\ ~Redeemed(p)
    BY DEF Redeemed, PastNonce, Init, AtRest
  <2>2. late = {}
    BY DEF Init, AtRest
  <2> QED
    BY <1>2, <2>1, <2>2 DEF Ledger, NoEarlyRun, NonceSpent, NoSharing, LateInert

\* Steps of everybody but the launch Lambda and the kill switch.
LEMMA LedgerFrame ==
  ASSUME TypeOK, Ledger,
         UNCHANGED <<pc, started, nonce, count, killed, late>>,
         \A p \in Presses : run'[p] = "none" <=> run[p] = "none",
         \A i \in Nonces : nonces[i] = "gone" => nonces'[i] = "gone"
  PROVE  Ledger'
<1>1. \A p \in Presses : Redeemed(p)' <=> Redeemed(p)
  BY DEF Redeemed
<1>2. \A d \in Days : Charged(d)' = Charged(d)
  BY DEF Charged
<1>3. NoEarlyRun'
  BY DEF Ledger, NoEarlyRun
<1>4. NonceSpent'
  BY <1>1 DEF Ledger, NonceSpent, TypeOK
<1>5. NoSharing'
  BY <1>1 DEF Ledger, NoSharing
<1>6. Accounts'
  BY <1>2 DEF Ledger, Accounts
<1>7. LateInert'
  BY DEF Ledger, LateInert, TypeOK
<1> QED
  BY <1>3, <1>4, <1>5, <1>6, <1>7 DEF Ledger

LEMMA LedgerOthers ==
  ASSUME TypeOK, Ledger,
         \/ Tick \/ StoreStep \/ OwnerStep \/ DestroyWorkflow
         \/ \E p \in Presses : RunStep(p)
         \/ \E w \in Watchdogs : WatchdogStep(w)
         \/ UNCHANGED vars
  PROVE  Ledger'
<1> USE DEF store, lambda, actions, history
<1>1. CASE Tick \/ OwnerStep \/ DestroyWorkflow \/ ReapRecord
  BY <1>1, LedgerFrame DEF Tick, OwnerStep, OwnerDispatches, OwnerStarts, OwnerApplies,
                           OwnerFinishes, DestroyWorkflow, ReapRecord
<1>2. CASE EngageKillSwitch
  <2>1. \A d \in Days : Charged(d)' = Charged(d)
    BY <1>2 DEF EngageKillSwitch, Charged
  <2>2. \A p \in Presses : Redeemed(p)' <=> Redeemed(p)
    BY <1>2 DEF EngageKillSwitch, Redeemed
  <2>3. LateInert'
    BY <1>2 DEF EngageKillSwitch, LateInert, Ledger, NoEarlyRun, BeforeDispatch
  <2> QED
    BY <1>2, <2>1, <2>2, <2>3 DEF EngageKillSwitch, Ledger, NoEarlyRun, NonceSpent,
                                  NoSharing, Accounts
<1>3. ASSUME NEW i \in Nonces, AskForNonce(i) \/ IssueNonce(i) \/ ReapNonce(i)
      PROVE  Ledger'
  <2>1. \A j \in Nonces : nonces[j] = "gone" => nonces'[j] = "gone"
    BY <1>3 DEF AskForNonce, IssueNonce, ReapNonce, TypeOK, NonceState
  <2> QED
    BY <1>3, <2>1, LedgerFrame DEF AskForNonce, IssueNonce, ReapNonce
<1>4. ASSUME NEW p \in Presses, RunStep(p)
      PROVE  Ledger'
  <2>1. \A q \in Presses : run'[q] = "none" <=> run[q] = "none"
    BY <1>4 DEF RunStep, RunAppears, RunStarts, RunApplies, RunDestroys, ReleaseLock,
                RunDies, Advance, TypeOK
  <2> QED
    BY <1>4, <2>1, LedgerFrame DEF RunStep, RunAppears, RunStarts, RunApplies,
                                   RunDestroys, ReleaseLock, RunDies
<1>5. ASSUME NEW w \in Watchdogs, WatchdogStep(w)
      PROVE  Ledger'
  BY <1>5, LedgerFrame DEF WatchdogStep, WakeUp, ReadLock, ReadSweep, Observe, Decide,
       DispatchDestroy, NoteSweep, BluntTeardown, Unlock, ClearRecord, Die
<1>6. CASE UNCHANGED vars
  BY <1>6, LedgerFrame DEF vars
<1> QED
  BY <1>1, <1>2, <1>3, <1>4, <1>5, <1>6 DEF StoreStep

\* A step of one press leaves the others where they are.
LEMMA OnlyOnePress ==
  ASSUME TypeOK, NEW p \in Presses, LaunchStep(p)
  PROVE  /\ nonce' = nonce /\ chosen' = chosen /\ killed' = killed /\ late' = late
         /\ \A q \in Presses \ {p} : /\ pc'[q] = pc[q] /\ run'[q] = run[q]
                                      /\ started'[q] = started[q]
         /\ pc[p] # "idle" => started'[p] = started[p]
         /\ pc[p] # "dispatch" => run'[p] = run[p]
         /\ pc[p] # "count" => count' = count
         /\ pc[p] # "nonce" => nonces' = nonces
<1> USE DEF store, lambda, actions, history, Goto, TypeOK
<1>1. CASE Press(p)
  BY <1>1 DEF Press
<1>2. CASE ReadSwitch(p)
  BY <1>2 DEF ReadSwitch
<1>3. CASE RedeemNonce(p)
  BY <1>3 DEF RedeemNonce
<1>4. CASE AskInFlight(p)
  BY <1>4 DEF AskInFlight
<1>5. CASE TakeLock(p)
  BY <1>5 DEF TakeLock
<1>6. CASE IncrementDay(p)
  BY <1>6 DEF IncrementDay
<1>7. CASE Dispatch(p)
  BY <1>7 DEF Dispatch
<1>8. CASE ReleaseQuietly(p)
  BY <1>8 DEF ReleaseQuietly
<1>9. CASE Crash(p)
  BY <1>9 DEF Crash, PressActive
<1> QED
  BY <1>1, <1>2, <1>3, <1>4, <1>5, <1>6, <1>7, <1>8, <1>9 DEF LaunchStep

\* Where the step of a press leads.
LEMMA PressMoves ==
  ASSUME TypeOK, NEW p \in Presses, LaunchStep(p)
  PROVE  \/ pc[p] = "idle" /\ pc'[p] \in {"switch", "done"}
         \/ pc[p] = "switch" /\ ~killed /\ pc'[p] = "nonce"
         \/ /\ pc[p] = "nonce" /\ pc'[p] = "inflight"
            /\ nonces[nonce[p]] = "live"
            /\ nonces' = [nonces EXCEPT ![nonce[p]] = "gone"]
         \/ pc[p] = "inflight" /\ pc'[p] = "lock"
         \/ pc[p] = "lock" /\ pc'[p] = "count"
         \/ /\ pc[p] = "count" /\ pc'[p] = "dispatch"
            /\ count[Day(started[p])] < Cap
            /\ \E n \in Nat : /\ n > count[Day(started[p])]
                              /\ count' = [count EXCEPT ![Day(started[p])] = n]
         \/ /\ pc[p] = "count" /\ pc'[p] = "release"
            /\ \/ count' = count
               \/ \E n \in Nat : /\ n > count[Day(started[p])]
                                 /\ count' = [count EXCEPT ![Day(started[p])] = n]
         \/ pc[p] = "dispatch" /\ pc'[p] \in {"done", "undo"} /\ run'[p] = "accepted"
         \/ pc[p] = "dispatch" /\ pc'[p] = "undo" /\ run'[p] = run[p]
         \/ pc[p] = "release" /\ pc'[p] = "done"
         \/ pc[p] = "undo" /\ pc'[p] = "failed"
         \/ /\ pc[p] \in PressActive /\ pc'[p] = "done" /\ run'[p] = run[p]
            /\ count' = count
            /\ \/ nonces' = nonces
               \/ nonces' = [nonces EXCEPT ![nonce[p]] = "gone"]
<1> USE DEF store, lambda, actions, history, Goto, TypeOK
<1>1. CASE Press(p)
  BY <1>1 DEF Press
<1>2. CASE ReadSwitch(p)
  BY <1>2 DEF ReadSwitch, PressActive
<1>3. CASE RedeemNonce(p)
  BY <1>3 DEF RedeemNonce, NonceValid, PressActive
<1>4. CASE AskInFlight(p)
  BY <1>4 DEF AskInFlight, PressActive
<1>5. CASE TakeLock(p)
  BY <1>5 DEF TakeLock, PressActive
<1>6. CASE IncrementDay(p)
  <2> DEFINE d == Day(started[p])
  <2>1. pc[p] = "count" /\ pc' \in {[pc EXCEPT ![p] = "dispatch"], [pc EXCEPT ![p] = "release"]}
    BY <1>6 DEF IncrementDay
  <2>2. d \in Days /\ count[d] \in Nat
    BY DayTypes, BoundAssumption
  <2>3. CASE count' = count /\ Goto(p, "release")
    BY <2>1, <2>3
  <2>4. CASE /\ count[d] < Cap
             /\ \E n \in {count[d] + 1, count[d] + 2} :
                  n <= Cap /\ count' = [count EXCEPT ![d] = n]
    <3>1. \E n \in Nat : n > count[d] /\ count' = [count EXCEPT ![d] = n]
      <4>1. PICK n \in {count[d] + 1, count[d] + 2} : count' = [count EXCEPT ![d] = n]
        BY <2>4
      <4>2. n \in Nat /\ n > count[d]
        BY <2>2
      <4> QED
        BY <4>1, <4>2
    <3> QED
      BY <2>1, <2>4, <3>1
  <2> QED
    BY <1>6, <2>3, <2>4 DEF IncrementDay
<1>7. CASE Dispatch(p)
  BY <1>7 DEF Dispatch
<1>8. CASE ReleaseQuietly(p)
  BY <1>8 DEF ReleaseQuietly
<1>9. CASE Crash(p)
  BY <1>9 DEF Crash
<1> QED
  BY <1>1, <1>2, <1>3, <1>4, <1>5, <1>6, <1>7, <1>8, <1>9 DEF LaunchStep

LEMMA LedgerLaunch ==
  ASSUME TypeOK, Ledger, NEW p \in Presses, LaunchStep(p)
  PROVE  Ledger'
<1>1. NoEarlyRun'
  BY OnlyOnePress, PressMoves DEF Ledger, NoEarlyRun, BeforeDispatch, PressActive
<1>2. \A q \in Presses : Redeemed(q)' => Redeemed(q) \/ (q = p /\ pc[p] = "nonce")
  BY OnlyOnePress, PressMoves DEF Redeemed, PastNonce, PressActive
<1>3. \A i \in Nonces : nonces[i] = "gone" => nonces'[i] = "gone"
  BY OnlyOnePress, PressMoves DEF TypeOK, NonceState
<1>4. nonce' = nonce /\ nonce \in [Presses -> Nonces]
  BY OnlyOnePress DEF TypeOK
<1>5. NonceSpent' /\ NoSharing'
  <2>1. CASE \A q \in Presses : Redeemed(q)' => Redeemed(q)
    BY <2>1, <1>3, <1>4 DEF Ledger, NonceSpent, NoSharing
  <2>2. CASE pc[p] = "nonce" /\ Redeemed(p)' /\ ~Redeemed(p)
    <3>1. /\ nonces[nonce[p]] = "live"
          /\ nonces' = [nonces EXCEPT ![nonce[p]] = "gone"]
      BY <2>2, OnlyOnePress, PressMoves DEF Redeemed, PastNonce, PressActive
    <3>2. nonces'[nonce[p]] = "gone"
      BY <3>1, <1>4 DEF TypeOK, NonceState
    <3>3. \A q \in Presses : q # p /\ Redeemed(q)' => nonce[q] # nonce[p]
      BY <2>2, <3>1, <1>2 DEF Ledger, NonceSpent
    <3>4. \A q \in Presses : q # p /\ Redeemed(q)' => Redeemed(q)
      BY <1>2
    <3> QED
      BY <3>2, <3>3, <3>4, <1>3, <1>4 DEF Ledger, NonceSpent, NoSharing
  <2> QED
    BY <2>1, <2>2, <1>2
<1>6. Accounts'
  <2> SUFFICES ASSUME NEW d \in Days
               PROVE  Cardinality(Charged(d)') <= count'[d]
    BY DEF Accounts
  <2>1. /\ IsFiniteSet(Charged(d)) /\ Cardinality(Charged(d)) \in Nat
        /\ Cardinality(Charged(d)) <= count[d] /\ count[d] \in Nat
    BY ChargedFinite, BoundAssumption DEF Ledger, Accounts, TypeOK
  <2>2. Day(started[p]) \in Days
    BY DayTypes DEF TypeOK
  <2>3. count'[d] \in Nat /\ count'[d] >= count[d]
    BY <2>1, <2>2, OnlyOnePress, PressMoves DEF TypeOK
  <2>4. CASE Charged(d)' \subseteq Charged(d)
    <3>1. Cardinality(Charged(d)') <= Cardinality(Charged(d)) /\ Cardinality(Charged(d)') \in Nat
      BY <2>1, <2>4, FS_Subset, FS_CardinalityType
    <3> QED
      BY <2>1, <2>3, <3>1
  <2>5. CASE pc[p] = "count" /\ pc'[p] = "dispatch" /\ Day(started[p]) = d
    <3>1. Charged(d)' \subseteq Charged(d) \cup {p}
      BY <2>5, OnlyOnePress DEF Charged
    <3>2. count'[d] >= count[d] + 1
      BY <2>1, <2>2, <2>5, PressMoves DEF TypeOK, PressActive
    <3>3. /\ IsFiniteSet(Charged(d) \cup {p})
          /\ Cardinality(Charged(d) \cup {p}) <= Cardinality(Charged(d)) + 1
          /\ Cardinality(Charged(d) \cup {p}) \in Nat
      <4>1. IsFiniteSet(Charged(d) \cup {p})
        BY <2>1, FS_AddElement, Zenon
      <4>2. \/ Cardinality(Charged(d) \cup {p}) = Cardinality(Charged(d))
            \/ Cardinality(Charged(d) \cup {p}) = Cardinality(Charged(d)) + 1
        BY <2>1, FS_AddElement, Zenon
      <4> QED
        BY <2>1, <4>1, <4>2
    <3>4. Cardinality(Charged(d)') <= Cardinality(Charged(d) \cup {p}) /\ Cardinality(Charged(d)') \in Nat
      BY <3>1, <3>3, FS_Subset, FS_CardinalityType
    <3> QED
      BY <2>1, <2>3, <3>2, <3>3, <3>4
  <2>6. CASE ~(pc[p] = "count" /\ pc'[p] = "dispatch" /\ Day(started[p]) = d)
    <3>1. \A q \in Presses \ {p} : q \in Charged(d)' => q \in Charged(d)
      BY OnlyOnePress DEF Charged
    <3>2. p \in Charged(d)' => p \in Charged(d)
      BY <2>6, OnlyOnePress, PressMoves DEF Charged, PressActive, Ledger, NoEarlyRun, BeforeDispatch
    <3>3. Charged(d)' \subseteq Presses
      BY DEF Charged
    <3> QED
      BY <3>1, <3>2, <3>3, <2>4
  <2> QED
    BY <2>5, <2>6
<1>7. LateInert'
  <2>1. \A q \in late : q # p => pc'[q] = pc[q] /\ run'[q] = run[q]
    BY OnlyOnePress DEF TypeOK
  <2>2. p \in late => pc'[p] \in {"idle", "switch", "done"} /\ run'[p] = "none"
    BY OnlyOnePress, PressMoves DEF Ledger, LateInert, PressActive
  <2> QED
    BY <2>1, <2>2, OnlyOnePress DEF Ledger, LateInert
<1> QED
  BY <1>1, <1>5, <1>6, <1>7 DEF Ledger

LEMMA LedgerInvariant == Spec => [](TypeOK /\ Ledger)
<1>1. Init => Ledger
  BY LedgerInit
<1>2. TypeOK /\ Ledger /\ [Next]_vars => Ledger'
  BY LedgerLaunch, LedgerOthers DEF Next
<1> QED
  BY <1>1, <1>2, TypeCorrect, PTL DEF Spec

\* No day starts more public runs than it was charged for, and none is charged
\* more than the cap, however many presses race, crash or lose their answers.
THEOREM CapHolds == Spec => []RunsWithinCap
<1>1. TypeOK /\ Ledger => RunsWithinCap
  <2> SUFFICES ASSUME TypeOK, Ledger, NEW d \in Days
               PROVE  Cardinality(RunsOf(d)) <= count[d] /\ count[d] <= Cap
    BY DEF RunsWithinCap
  <2>1. count[d] \in Nat /\ count[d] <= Cap
    BY BoundAssumption DEF TypeOK
  <2>2. Cardinality(Charged(d)) <= count[d]
    BY DEF Ledger, Accounts
  <2> QED
    BY <2>1, <2>2, ChargedFinite
<1> QED
  BY <1>1, LedgerInvariant, PTL

\* A nonce buys at most one run, whatever launch id is presented with it: it is
\* redeemed once.
THEOREM OneRunPerNonce == Spec => []NonceBuysOneRun
<1>1. Ledger => NonceBuysOneRun
  BY DEF Ledger, NoSharing, Redeemed, NonceBuysOneRun
<1> QED
  BY <1>1, LedgerInvariant, PTL

\* Once the kill switch is engaged, a press that has not read it becomes no run.
THEOREM SwitchHolds == Spec => []SwitchStopsNext
<1>1. Ledger => SwitchStopsNext
  BY DEF Ledger, LateInert, SwitchStopsNext
<1> QED
  BY <1>1, LedgerInvariant, PTL

(***************************************************************************)
(* The lock.  A press between its conditional put and the end of its run   *)
(* holds the lock item until its deadline or a failed dispatch, unless the *)
(* unexpired item was deleted by another: a watchdog, a press, or the run  *)
(* of a launch that carries the same launch id.                            *)
(***************************************************************************)
Critical == {"count", "release", "dispatch"}
Holding(p) == /\ pc[p] \in Critical \/ Unfinished(p)
              /\ Protected(p)
LockOf(p) == [launch_id |-> chosen[p], expires_at |-> started[p] + TTL, by |-> p]

Prompt == \A p \in Presses :
            /\ started[p] <= now
            /\ pc[p] \in PressActive => now <= started[p] + LambdaTimeout
Held == \A p \in Presses : Holding(p) /\ p \notin Victims => lock = {LockOf(p)}

LEMMA HeldExcludes ==
  ASSUME Held, NEW p \in Presses, NEW q \in Presses, Holding(p), Holding(q),
         p \notin Victims, q \notin Victims
  PROVE  p = q
<1>1. LockOf(p) = LockOf(q)
  BY DEF Held
<1> QED
  BY <1>1 DEF LockOf

LEMMA LockInit == ASSUME Init PROVE Prompt /\ Held
<1>1. \A p \in Presses : ~Holding(p)
  BY DEF Init, AtRest, Holding, Critical, Unfinished
<1> QED
  BY <1>1, BoundAssumption DEF Init, AtRest, Prompt, Held, PressActive, Time

\* Steps that neither touch the lock nor start or revive a run.
LEMMA LockFrame ==
  ASSUME TypeOK, TypeOK', Prompt, Held,
         UNCHANGED <<pc, started, chosen, lock, robbed>>,
         now' = now \/ Tick,
         \A p \in Presses : Unfinished(p)' => Unfinished(p)
  PROVE  Prompt' /\ Held'
<1>1. now \in Nat /\ now' \in Nat /\ now' >= now
  BY BoundAssumption DEF Tick, TypeOK, Time
<1>2. Prompt'
  BY <1>1, BoundAssumption DEF Prompt, Tick, TypeOK, Time
<1>3. \A p \in Presses : started[p] + TTL \in Nat
  BY BoundAssumption DEF TypeOK, Time
<1>4. \A p \in Presses : Holding(p)' => Holding(p)
  BY <1>1, <1>3 DEF Holding, Protected
<1> QED
  BY <1>2, <1>4 DEF Held, LockOf, Victims

\* What another deletes of the item makes a victim of its holder.
LEMMA HeldDelete ==
  ASSUME TypeOK, Held, NEW x, Rob(x), lock' \subseteq lock,
         UNCHANGED <<now, started, chosen>>,
         \A p \in Presses : Holding(p)' => Holding(p) /\ p # x
  PROVE  Held'
<1> SUFFICES ASSUME NEW p \in Presses, Holding(p)', p \notin Victims'
             PROVE  lock' = {LockOf(p)'}
  BY DEF Held
<1>1. robbed \subseteq robbed'
  BY DEF Rob
<1>2. p \notin Victims
  BY <1>1 DEF Victims
<1>3. lock = {LockOf(p)}
  BY <1>2 DEF Held
<1>4. LockOf(p).by = p /\ LockOf(p).expires_at = started[p] + TTL /\ LockOf(p)' = LockOf(p)
  BY DEF LockOf
<1>5. started[p] + TTL > now
  BY BoundAssumption DEF Holding, Protected, TypeOK, Time
<1>6. ASSUME LockOf(p) \notin lock'
      PROVE  FALSE
  <2>1. [victim |-> p, thief |-> x] \in robbed'
    BY <1>3, <1>4, <1>5, <1>6 DEF Rob
  <2> QED
    BY <2>1 DEF Victims
<1> QED
  BY <1>3, <1>4, <1>6

LEMMA LockOthers ==
  ASSUME TypeOK, TypeOK', Ledger, Prompt, Held,
         \/ Tick \/ StoreStep \/ OwnerStep \/ DestroyWorkflow
         \/ \E p \in Presses : RunStep(p)
         \/ \E w \in Watchdogs : WatchdogStep(w)
         \/ UNCHANGED vars
  PROVE  Prompt' /\ Held'
<1> USE DEF store, lambda, actions, history
<1>1. CASE Tick \/ StoreStep
  BY <1>1, LockFrame DEF Tick, StoreStep, ReapRecord, EngageKillSwitch, AskForNonce,
                         IssueNonce, ReapNonce, Unfinished
<1>2. CASE OwnerStep \/ DestroyWorkflow
  BY <1>2, LockFrame DEF OwnerStep, OwnerDispatches, OwnerStarts, OwnerApplies,
                         OwnerFinishes, DestroyWorkflow, Unfinished
<1>3. ASSUME NEW p \in Presses, RunStep(p), ~ReleaseLock(p)
      PROVE  Prompt' /\ Held'
  <2>1. \A q \in Presses : Unfinished(q)' => Unfinished(q)
    BY <1>3 DEF RunStep, RunAppears, RunStarts, RunApplies, RunDestroys, RunDies,
                Advance, TypeOK, Unfinished
  <2> QED
    BY <1>3, <2>1, LockFrame DEF RunStep, RunAppears, RunStarts, RunApplies,
                                 RunDestroys, RunDies
<1>4. ASSUME NEW p \in Presses, ReleaseLock(p)
      PROVE  Prompt' /\ Held'
  <2>1. Prompt'
    BY <1>4 DEF ReleaseLock, Prompt
  <2>2. run' = [run EXCEPT ![p] = "finished"] /\ run[p] # "none"
    BY <1>4 DEF ReleaseLock, Advance
  <2>3. \A q \in Presses : Holding(q)' => Holding(q) /\ q # p
    BY <1>4, <2>2 DEF ReleaseLock, Holding, Critical, Protected, Unfinished, TypeOK,
                      Ledger, NoEarlyRun, BeforeDispatch
  <2>4. lock' \subseteq lock /\ Rob(p) /\ UNCHANGED <<now, started, chosen>>
    BY <1>4 DEF ReleaseLock
  <2> QED
    BY <2>1, <2>3, <2>4, HeldDelete
<1>5. ASSUME NEW w \in Watchdogs, WatchdogStep(w), ~Unlock(w)
      PROVE  Prompt' /\ Held'
  BY <1>5, LockFrame DEF WatchdogStep, WakeUp, ReadLock, ReadSweep, Observe, Decide,
       DispatchDestroy, NoteSweep, BluntTeardown, ClearRecord, Die, Unfinished
<1>6. ASSUME NEW w \in Watchdogs, Unlock(w)
      PROVE  Prompt' /\ Held'
  <2>1. Prompt'
    BY <1>6 DEF Unlock, Prompt
  <2>2. \A p \in Presses : Holding(p)' => Holding(p) /\ p # w
    BY <1>6, ProcessAssumption DEF Unlock, Holding, Protected, Unfinished
  <2>3. lock' \subseteq lock /\ Rob(w) /\ UNCHANGED <<now, started, chosen>>
    BY <1>6 DEF Unlock
  <2> QED
    BY <2>1, <2>2, <2>3, HeldDelete
<1>7. CASE UNCHANGED vars
  BY <1>7, LockFrame DEF vars, Unfinished
<1> QED
  BY <1>1, <1>2, <1>3, <1>4, <1>5, <1>6, <1>7

LEMMA LockLaunch ==
  ASSUME TypeOK, TypeOK', Ledger, Prompt, Held, NEW p \in Presses, LaunchStep(p)
  PROVE  Prompt' /\ Held'
<1> USE DEF store, lambda, actions, history
<1>0. /\ now \in Nat /\ now' = now /\ started[p] \in Nat /\ started[p] + TTL \in Nat
      /\ chosen' = chosen
      /\ \A q \in Presses \ {p} : /\ pc'[q] = pc[q] /\ started'[q] = started[q]
                                   /\ run'[q] = run[q]
      /\ \A q \in Presses \ {p} : Holding(q)' => Holding(q)
  <2>1. now' = now
    BY DEF LaunchStep, Press, ReadSwitch, RedeemNonce, AskInFlight, TakeLock,
           IncrementDay, Dispatch, ReleaseQuietly, Crash
  <2>2. now \in Nat /\ started[p] \in Nat /\ started[p] + TTL \in Nat
    BY BoundAssumption DEF TypeOK, Time
  <2> QED
    BY <2>1, <2>2, OnlyOnePress DEF Holding, Protected, Unfinished
<1>1. Prompt'
  <2>1. CASE Press(p)
    <3>1. started'[p] = now
      BY <2>1 DEF Press, TypeOK
    <3> QED
      BY <1>0, <3>1, BoundAssumption DEF Prompt
  <2>2. CASE ~Press(p)
    <3>1. pc[p] \in PressActive /\ started'[p] = started[p]
      BY <2>2, OnlyOnePress DEF LaunchStep, ReadSwitch, RedeemNonce, AskInFlight, TakeLock,
           IncrementDay, Dispatch, ReleaseQuietly, Crash, PressActive
    <3> QED
      BY <1>0, <3>1 DEF Prompt
  <2> QED
    BY <2>1, <2>2
<1>2. CASE UNCHANGED <<lock, robbed>> /\ (Holding(p)' => Holding(p) /\ started'[p] = started[p])
  BY <1>0, <1>1, <1>2 DEF Held, LockOf, Victims
<1>3. CASE Press(p) \/ ReadSwitch(p) \/ RedeemNonce(p) \/ AskInFlight(p) \/ Crash(p)
  <2>1. pc'[p] \notin Critical /\ pc[p] # "failed"
    <3>1. pc'[p] \in {"switch", "done", "nonce", "inflight", "lock"}
      BY <1>3 DEF TypeOK, Goto, Press, ReadSwitch, RedeemNonce, AskInFlight, Crash
    <3>2. pc[p] # "failed"
      BY <1>3 DEF Press, ReadSwitch, RedeemNonce, AskInFlight, Crash, PressActive
    <3> QED
      BY <3>1, <3>2 DEF Critical
  <2>2. run' = run /\ UNCHANGED <<lock, robbed>>
    BY <1>3 DEF Press, ReadSwitch, RedeemNonce, AskInFlight, Crash
  <2>3. Holding(p)' => Unfinished(p) /\ ~Press(p)
    BY <2>1, <2>2 DEF Holding, Unfinished, Ledger, NoEarlyRun, BeforeDispatch, Press
  <2>4. ~Press(p) => started' = started
    BY <1>3 DEF ReadSwitch, RedeemNonce, AskInFlight, Crash
  <2>5. Holding(p)' => started' = started /\ Holding(p)
    BY <1>0, <2>1, <2>2, <2>3, <2>4 DEF Holding, Protected, Unfinished
  <2> QED
    BY <1>2, <2>2, <2>5
<1>4. CASE TakeLock(p)
  <2>1. CASE Goto(p, "done") /\ UNCHANGED lock
    <3>1. pc'[p] = "done" /\ pc[p] = "lock" /\ UNCHANGED <<started, run, robbed>>
      BY <1>4, <2>1 DEF TakeLock, Goto, TypeOK
    <3> QED
      BY <1>0, <1>2, <2>1, <3>1 DEF Holding, Protected, Critical, Unfinished
  <2>2. CASE LockFree(started[p]) /\ lock' = {LockOf(p)}
    <3>1. ASSUME NEW q \in Presses \ {p}, Holding(q), q \notin Victims
          PROVE  FALSE
      <4>1. lock = {LockOf(q)}
        BY <3>1 DEF Held
      <4>2. started[q] + TTL <= started[p]
        BY <2>2, <4>1 DEF LockFree, LockOf
      <4>3. started[p] <= now /\ now < started[q] + TTL
        BY <3>1 DEF Prompt, Holding, Protected
      <4> QED
        BY <1>0, <4>2, <4>3, BoundAssumption DEF TypeOK, Time
    <3>2. UNCHANGED <<started, robbed>>
      BY <1>4 DEF TakeLock
    <3> QED
      BY <1>0, <1>1, <2>2, <3>1, <3>2 DEF Held, LockOf, Victims
  <2> QED
    BY <1>4, <2>1, <2>2 DEF TakeLock, LockOf, Goto
<1>5. CASE IncrementDay(p)
  <2>1. pc[p] = "count" /\ UNCHANGED <<lock, robbed, started, run>>
    BY <1>5 DEF IncrementDay
  <2> QED
    BY <1>0, <1>2, <2>1 DEF Holding, Protected, Critical
<1>6. CASE Dispatch(p)
  <2>1. pc[p] = "dispatch" /\ UNCHANGED <<lock, robbed, started>>
    BY <1>6 DEF Dispatch
  <2> QED
    BY <1>0, <1>2, <2>1 DEF Holding, Protected, Critical
<1>7. CASE ReleaseQuietly(p)
  <2>1. /\ UNCHANGED <<started, run>>
        /\ \/ pc[p] = "release" /\ pc'[p] = "done"
           \/ pc[p] = "undo" /\ pc'[p] = "failed"
    BY <1>7 DEF ReleaseQuietly, Goto, TypeOK
  <2>2. ~Holding(p)'
    BY <2>1 DEF Holding, Protected, Critical, Unfinished, Ledger, NoEarlyRun, BeforeDispatch
  <2>3. lock' \subseteq lock /\ Rob(p) /\ UNCHANGED <<now, started, chosen>>
    BY <1>7 DEF ReleaseQuietly
  <2>4. \A q \in Presses : Holding(q)' => Holding(q) /\ q # p
    BY <1>0, <2>2
  <2> QED
    BY <1>1, <2>3, <2>4, HeldDelete
<1> QED
  BY <1>3, <1>4, <1>5, <1>6, <1>7 DEF LaunchStep

\* The item says whose it is: its launch id is the one its owner carries.
Signed == \A l \in lock : l.launch_id = chosen[l.by]

LEMMA SignedStep ==
  ASSUME Signed, [Next]_vars
  PROVE  Signed'
<1> USE DEF store, lambda, actions, history
<1>1. ASSUME lock' \subseteq lock, chosen' = chosen
      PROVE  Signed'
  BY <1>1 DEF Signed
<1>2. CASE Tick \/ StoreStep \/ OwnerStep \/ DestroyWorkflow \/ UNCHANGED vars
  BY <1>1, <1>2 DEF Tick, StoreStep, ReapRecord, EngageKillSwitch, AskForNonce, IssueNonce,
       ReapNonce, OwnerStep, OwnerDispatches, OwnerStarts, OwnerApplies, OwnerFinishes,
       DestroyWorkflow, vars
<1>3. ASSUME NEW p \in Presses, RunStep(p)
      PROVE  Signed'
  BY <1>1, <1>3 DEF RunStep, RunAppears, RunStarts, RunApplies, RunDestroys, ReleaseLock,
       RunDies
<1>4. ASSUME NEW w \in Watchdogs, WatchdogStep(w)
      PROVE  Signed'
  BY <1>1, <1>4 DEF WatchdogStep, WakeUp, ReadLock, ReadSweep, Observe, Decide,
       DispatchDestroy, NoteSweep, BluntTeardown, Unlock, ClearRecord, Die
<1>5. ASSUME NEW p \in Presses, TakeLock(p)
      PROVE  Signed'
  BY <1>1, <1>5 DEF TakeLock, Signed
<1>6. ASSUME NEW p \in Presses, LaunchStep(p), ~TakeLock(p)
      PROVE  Signed'
  BY <1>1, <1>6 DEF LaunchStep, Press, ReadSwitch, RedeemNonce, AskInFlight,
       IncrementDay, Dispatch, ReleaseQuietly, Crash
<1> QED
  BY <1>2, <1>3, <1>4, <1>5, <1>6 DEF Next

LEMMA LockInvariant == Spec => [](TypeOK /\ Ledger /\ Prompt /\ Held /\ Signed)
<1>1. Init => Prompt /\ Held /\ Signed
  BY LockInit DEF Signed, Init, AtRest
<1>2. TypeOK /\ TypeOK' /\ Ledger /\ Prompt /\ Held /\ Signed /\ [Next]_vars
        => (Prompt /\ Held /\ Signed)'
  <2> SUFFICES ASSUME TypeOK, TypeOK', Ledger, Prompt, Held, Signed, [Next]_vars
               PROVE  (Prompt /\ Held /\ Signed)'
    OBVIOUS
  <2>1. ASSUME NEW p \in Presses, LaunchStep(p)
        PROVE  (Prompt /\ Held)'
    BY <2>1, LockLaunch
  <2> QED
    BY <2>1, LockOthers, SignedStep DEF Next
<1> QED
  BY <1>1, <1>2, TypeCorrect, LedgerInvariant, PTL DEF Spec

\* Two of the endpoint's own runs are unfinished together only past a lock's
\* deadline, after a dispatch reported as failed, or after the unexpired lock
\* of one of them was deleted by another, whatever launch ids they carry.
THEOREM LaunchesExclude == Spec => []OneLaunchAtATime
<1>1. Held => OneLaunchAtATime
  BY HeldExcludes DEF OneLaunchAtATime, Holding
<1> QED
  BY <1>1, LockInvariant, PTL

(***************************************************************************)
(* The release that follows a refusal.  A press that has taken the lock    *)
(* and has no run yet owns the lock item, whatever its age, because no     *)
(* invocation outlives its lock; so the unconditional delete of a press    *)
(* without a run only ever removes its own.  This holds until the first    *)
(* robbery, and the first robbery excuses all later ones: it was a         *)
(* watchdog's, a failed dispatch's, or a run's with the same launch id.    *)
(***************************************************************************)
Runless(p) == pc[p] \in {"count", "release", "dispatch", "undo"} /\ run[p] = "none"
Excuse(x) == \/ x.thief \in Watchdogs
             \/ /\ x.thief \in Presses /\ run[x.thief] # "none"
                /\ pc[x.thief] = "failed" \/ SameId(x.thief, x.victim)
Excused == \E x \in robbed : Excuse(x)
Spared == Excused \/ (robbed = {} /\ \A p \in Presses : Runless(p) => lock = {LockOf(p)})

\* The lock of a press without a run is never past its deadline.
LEMMA RunlessFresh ==
  ASSUME TypeOK, Prompt, NEW p \in Presses, Runless(p)
  PROVE  /\ now \in Nat /\ started[p] \in Nat /\ started[p] + TTL \in Nat
         /\ started[p] + TTL > now
<1>1. pc[p] \in PressActive
  BY DEF Runless, PressActive
<1>2. /\ now \in Nat /\ started[p] \in Nat /\ LambdaTimeout \in Nat /\ TTL \in Nat
      /\ LambdaTimeout < TTL
  BY BoundAssumption, TimeoutAssumption DEF TypeOK, Time
<1> QED
  BY <1>1, <1>2 DEF Prompt

\* Robberies are not forgotten, and neither are runs and failures.
LEMMA ExcusedStays ==
  ASSUME TypeOK, Excused, robbed \subseteq robbed', chosen' = chosen,
         \A p \in Presses : /\ run[p] # "none" => run'[p] # "none"
                            /\ pc[p] = "failed" => pc'[p] = "failed"
  PROVE  Excused'
<1>1. PICK x \in robbed : Excuse(x)
  BY DEF Excused
<1>2. Excuse(x)'
  BY <1>1 DEF Excuse, SameId
<1> QED
  BY <1>2 DEF Excused

LEMMA SparedFrame ==
  ASSUME TypeOK, Spared, UNCHANGED <<started, chosen, lock, robbed>>,
         \A p \in Presses : /\ run[p] # "none" => run'[p] # "none"
                            /\ pc[p] = "failed" => pc'[p] = "failed",
         \A p \in Presses : Runless(p)' => Runless(p)
  PROVE  Spared'
<1>1. CASE Excused
  BY <1>1, ExcusedStays DEF Spared
<1>2. CASE robbed = {} /\ \A p \in Presses : Runless(p) => lock = {LockOf(p)}
  BY <1>2 DEF Spared, LockOf
<1> QED
  BY <1>1, <1>2 DEF Spared

\* A delete of the item: by a watchdog, by a press that owns what it deletes, or
\* by one that has a run and an excuse.
LEMMA SparedDelete ==
  ASSUME TypeOK, Prompt, Spared, NEW x, lock' \subseteq lock, Rob(x),
         UNCHANGED <<now, started, chosen>>,
         \A p \in Presses : /\ run[p] # "none" => run'[p] # "none"
                            /\ pc[p] = "failed" => pc'[p] = "failed",
         \/ x \in Watchdogs
         \/ x \in Presses /\ Runless(x)
         \/ /\ x \in Presses /\ run'[x] # "none"
            /\ pc'[x] = "failed" \/ \A l \in lock \ lock' : SameId(x, l.by),
         \A p \in Presses : Runless(p)' => Runless(p) /\ p # x
  PROVE  Spared'
<1>0. robbed \subseteq robbed'
  BY DEF Rob
<1>1. CASE Excused
  BY <1>0, <1>1, ExcusedStays DEF Spared
<1>2. CASE robbed = {} /\ \A p \in Presses : Runless(p) => lock = {LockOf(p)}
  <2>1. CASE robbed' = {}
    <3>1. ASSUME NEW p \in Presses, Runless(p), p # x
          PROVE  lock' = {LockOf(p)}
      <4>1. lock = {LockOf(p)}
        BY <1>2, <3>1
      <4>2. LockOf(p).by # x /\ LockOf(p).expires_at > now
        BY <3>1, RunlessFresh DEF LockOf
      <4> QED
        BY <2>1, <4>1, <4>2 DEF Rob
    <3> QED
      BY <2>1, <3>1 DEF Spared, LockOf
  <2>2. CASE robbed' # {}
    <3>1. PICK l \in lock \ lock' : /\ l.by # x
                                    /\ [victim |-> l.by, thief |-> x] \in robbed'
      BY <1>2, <2>2 DEF Rob
    <3>2. ~(x \in Presses /\ Runless(x))
      BY <1>2, <3>1 DEF LockOf
    <3>3. Excuse([victim |-> l.by, thief |-> x])'
      BY <3>1, <3>2 DEF Excuse, SameId
    <3> QED
      BY <3>1, <3>3 DEF Spared, Excused
  <2> QED
    BY <2>1, <2>2
<1> QED
  BY <1>1, <1>2 DEF Spared

LEMMA SparedOthers ==
  ASSUME TypeOK, Prompt, Signed, Spared,
         \/ Tick \/ StoreStep \/ OwnerStep \/ DestroyWorkflow
         \/ \E p \in Presses : RunStep(p)
         \/ \E w \in Watchdogs : WatchdogStep(w)
         \/ UNCHANGED vars
  PROVE  Spared'
<1> USE DEF store, lambda, actions, history
<1>1. CASE Tick \/ StoreStep \/ OwnerStep \/ DestroyWorkflow \/ UNCHANGED vars
  <2>1. UNCHANGED <<pc, started, chosen, lock, robbed, run>>
    BY <1>1 DEF Tick, StoreStep, ReapRecord, EngageKillSwitch, AskForNonce, IssueNonce,
         ReapNonce, OwnerStep, OwnerDispatches, OwnerStarts, OwnerApplies, OwnerFinishes,
         DestroyWorkflow, vars
  <2> QED
    BY <2>1, SparedFrame DEF Runless
<1>2. ASSUME NEW p \in Presses, RunStep(p)
      PROVE  Spared'
  <2>1. /\ UNCHANGED <<now, pc, started, chosen>>
        /\ run[p] # "none"
        /\ \A q \in Presses : run'[q] = "none" <=> run[q] = "none"
    BY <1>2 DEF RunStep, RunAppears, RunStarts, RunApplies, RunDestroys, ReleaseLock,
                RunDies, Advance, TypeOK
  <2>2. CASE UNCHANGED <<lock, robbed>>
    BY <2>1, <2>2, SparedFrame DEF Runless
  <2>3. CASE ReleaseLock(p)
    <3>1. Rob(p) /\ lock' \in {lock, {l \in lock : l.launch_id # chosen[p]}}
      BY <2>3 DEF ReleaseLock
    <3>2. \A l \in lock \ lock' : SameId(p, l.by)
      BY <3>1 DEF Signed, SameId
    <3>3. \A q \in Presses : Runless(q)' => Runless(q) /\ q # p
      BY <2>1 DEF Runless
    <3> QED
      BY <2>1, <3>1, <3>2, <3>3, SparedDelete
  <2> QED
    BY <1>2, <2>2, <2>3 DEF RunStep, RunAppears, RunStarts, RunApplies, RunDestroys, RunDies
<1>3. ASSUME NEW w \in Watchdogs, WatchdogStep(w)
      PROVE  Spared'
  <2>1. UNCHANGED <<now, pc, started, chosen, run>>
    BY <1>3 DEF WatchdogStep, WakeUp, ReadLock, ReadSweep, Observe, Decide,
         DispatchDestroy, NoteSweep, BluntTeardown, Unlock, ClearRecord, Die
  <2>2. UNCHANGED <<lock, robbed>> \/ (lock' \subseteq lock /\ Rob(w))
    BY <1>3 DEF WatchdogStep, WakeUp, ReadLock, ReadSweep, Observe, Decide,
         DispatchDestroy, NoteSweep, BluntTeardown, Unlock, ClearRecord, Die
  <2>3. \A p \in Presses : Runless(p)' => Runless(p) /\ p # w
    BY <2>1, ProcessAssumption DEF Runless
  <2> QED
    BY <2>1, <2>2, <2>3, SparedFrame, SparedDelete
<1> QED
  BY <1>1, <1>2, <1>3

LEMMA SparedLaunch ==
  ASSUME TypeOK, Ledger, Prompt, Spared, NEW p \in Presses, LaunchStep(p)
  PROVE  Spared'
<1> USE DEF store, lambda, actions, history
<1>0. /\ chosen' = chosen
      /\ \A q \in Presses \ {p} : pc'[q] = pc[q] /\ started'[q] = started[q] /\ run'[q] = run[q]
      /\ pc[p] # "idle" => started'[p] = started[p]
      /\ \A q \in Presses : /\ run[q] # "none" => run'[q] # "none"
                            /\ pc[q] = "failed" => pc'[q] = "failed"
  <2>1. run[p] # "none" => run'[p] # "none"
    BY OnlyOnePress, PressMoves DEF Ledger, NoEarlyRun, BeforeDispatch
  <2>2. pc[p] # "failed"
    BY PressMoves DEF PressActive
  <2> QED
    BY <2>1, <2>2, OnlyOnePress
<1>1. CASE UNCHANGED <<lock, robbed>> /\ (Runless(p)' => Runless(p)) /\ started' = started
  <2>1. \A q \in Presses : Runless(q)' => Runless(q)
    BY <1>0, <1>1 DEF Runless
  <2> QED
    BY <1>0, <1>1, <2>1, SparedFrame
<1>2. CASE Press(p)
  <2>1. /\ pc'[p] \in {"switch", "done"} /\ UNCHANGED <<lock, robbed>>
        /\ pc[p] = "idle"
    BY <1>2 DEF Press, Goto, TypeOK
  <2>2. \A q \in Presses : Runless(q)' => Runless(q) /\ LockOf(q)' = LockOf(q)
    BY <1>0, <2>1 DEF Runless, LockOf
  <2>3. CASE Excused
    BY <1>0, <2>1, <2>3, ExcusedStays DEF Spared
  <2> QED
    BY <2>1, <2>2, <2>3 DEF Spared
<1>3. CASE ReadSwitch(p) \/ RedeemNonce(p) \/ AskInFlight(p) \/ Crash(p)
  <2>1. /\ pc'[p] \in {"done", "nonce", "inflight", "lock"}
        /\ UNCHANGED <<lock, robbed, started>>
    BY <1>3 DEF TypeOK, Goto, ReadSwitch, RedeemNonce, AskInFlight, Crash
  <2> QED
    BY <1>1, <2>1 DEF Runless
<1>4. CASE TakeLock(p)
  <2>0. pc[p] = "lock" /\ UNCHANGED <<started, run, robbed>>
    BY <1>4 DEF TakeLock
  <2>1. CASE Goto(p, "done") /\ UNCHANGED lock
    BY <1>1, <2>0, <2>1 DEF Runless, Goto, TypeOK
  <2>2. CASE LockFree(started[p]) /\ lock' = {LockOf(p)}
    <3>1. CASE Excused
      BY <1>0, <2>0, <3>1, ExcusedStays DEF Spared
    <3>2. CASE robbed = {} /\ \A q \in Presses : Runless(q) => lock = {LockOf(q)}
      <4>1. ASSUME NEW q \in Presses \ {p}, Runless(q)
            PROVE  FALSE
        <5>0. lock = {LockOf(q)} /\ LockOf(q).expires_at = started[q] + TTL
          BY <3>2, <4>1 DEF LockOf
        <5>1. started[q] + TTL <= started[p]
          BY <2>2, <5>0 DEF LockFree
        <5>2. started[p] <= now /\ started[p] \in Nat
          BY BoundAssumption DEF Prompt, TypeOK, Time
        <5> QED
          BY <4>1, <5>1, <5>2, RunlessFresh
      <4>2. \A q \in Presses \ {p} : ~Runless(q)'
        BY <1>0, <4>1 DEF Runless
      <4>3. LockOf(p)' = LockOf(p)
        BY <1>0, <2>0 DEF LockOf
      <4> QED
        BY <2>0, <2>2, <3>2, <4>2, <4>3 DEF Spared
    <3> QED
      BY <3>1, <3>2 DEF Spared
  <2> QED
    BY <1>4, <2>1, <2>2 DEF TakeLock, LockOf, Goto
<1>5. CASE IncrementDay(p) \/ Dispatch(p)
  <2>1. /\ pc[p] \in {"count", "dispatch"} /\ UNCHANGED <<lock, robbed, started>>
    BY <1>5 DEF IncrementDay, Dispatch
  <2>2. run[p] = "none"
    BY <2>1 DEF Ledger, NoEarlyRun, BeforeDispatch
  <2> QED
    BY <1>1, <2>1, <2>2 DEF Runless
<1>6. CASE ReleaseQuietly(p)
  <2>1. /\ UNCHANGED <<now, started, run>>
        /\ lock' \subseteq lock /\ Rob(p)
        /\ \/ pc[p] = "release" /\ pc'[p] = "done"
           \/ pc[p] = "undo" /\ pc'[p] = "failed"
    BY <1>6 DEF ReleaseQuietly, Goto, TypeOK
  <2>2. \A q \in Presses : Runless(q)' => Runless(q) /\ q # p
    BY <1>0, <2>1 DEF Runless
  <2>3. Runless(p) \/ (run'[p] # "none" /\ pc'[p] = "failed")
    BY <2>1 DEF Runless, Ledger, NoEarlyRun, BeforeDispatch
  <2> QED
    BY <1>0, <2>1, <2>2, <2>3, SparedDelete
<1> QED
  BY <1>2, <1>3, <1>4, <1>5, <1>6 DEF LaunchStep

\* A refused press deletes its own lock and nobody else's: an unexpired lock is
\* lost only once a watchdog, a press whose run GitHub had started although the
\* dispatch was reported as failed, or the run of a launch id that was pressed
\* twice has deleted one.
THEOREM RefusalIsHarmless == Spec => []RefusalSparesOthers
<1>1. Init => Spared
  BY DEF Init, AtRest, Spared, Runless
<1>2. TypeOK /\ Ledger /\ Prompt /\ Signed /\ Spared /\ [Next]_vars => Spared'
  BY SparedOthers, SparedLaunch DEF Next
<1>3. Spared => RefusalSparesOthers
  BY DEF Spared, Excused, Excuse, RefusalSparesOthers
<1> QED
  BY <1>1, <1>2, <1>3, LockInvariant, PTL DEF Spec

(***************************************************************************)
(* The refinement of LaunchQuota: every step that creates a run admits a   *)
(* new nonce on a day that had room, every other step is a stutter.    *)
(* The ledger is the inductive part.                                       *)
(***************************************************************************)
Launch(p) == [nonce |-> nonce[p], day |-> Day(started[p])]
Launched  == {p \in Presses : run[p] # "none"}

LEMMA AdmittedIs == Admitted = {Launch(p) : p \in Launched}
BY DEF Admitted, Launch, Launched

\* A day has at most as many admitted launches as presses that became runs.
LEMMA DayFits ==
  ASSUME NEW d
  PROVE  Cardinality(Quota!OfDay(d)) \in Nat
         /\ Cardinality(Quota!OfDay(d)) <= Cardinality(RunsOf(d))
<1> DEFINE f == [p \in RunsOf(d) |-> Launch(p)]
<1>1. \A l \in Quota!OfDay(d) : \E p \in RunsOf(d) : f[p] = l
  <2> SUFFICES ASSUME NEW l \in Quota!OfDay(d)
               PROVE  \E p \in RunsOf(d) : f[p] = l
    OBVIOUS
  <2>1. PICK p \in Launched : l = Launch(p) /\ l.day = d
    BY AdmittedIs DEF Quota!OfDay
  <2>2. p \in RunsOf(d)
    BY <2>1 DEF RunsOf, Launched, Launch
  <2> QED
    BY <2>1, <2>2
<1>2. \A p \in RunsOf(d) : f[p] \in Quota!OfDay(d)
  <2> SUFFICES ASSUME NEW p \in RunsOf(d)
               PROVE  Launch(p) \in Quota!OfDay(d)
    OBVIOUS
  <2>1. p \in Launched /\ Launch(p).day = d
    BY DEF RunsOf, Launched, Launch
  <2> QED
    BY <2>1, AdmittedIs DEF Quota!OfDay
<1>3. f \in Surjection(RunsOf(d), Quota!OfDay(d))
  <2>1. f \in [RunsOf(d) -> Quota!OfDay(d)]
    BY <1>2
  <2> HIDE DEF f
  <2> QED
    BY <1>1, <2>1 DEF Surjection
<1> HIDE DEF f
<1>4. /\ IsFiniteSet(Quota!OfDay(d))
      /\ Cardinality(Quota!OfDay(d)) <= Cardinality(RunsOf(d))
  BY <1>3, ChargedFinite, FS_Surjection
<1> QED
  BY <1>4, FS_CardinalityType

\* What does not create a run changes nothing the promise is about.
LEMMA QuotaStutter ==
  ASSUME nonce' = nonce,
         \A p \in Presses : run'[p] = "none" <=> run[p] = "none",
         \A p \in Presses : run[p] # "none" => started'[p] = started[p]
  PROVE  Admitted' = Admitted
BY DEF Admitted

LEMMA QuotaOthers ==
  ASSUME TypeOK,
         \/ Tick \/ StoreStep \/ OwnerStep \/ DestroyWorkflow
         \/ \E p \in Presses : RunStep(p)
         \/ \E w \in Watchdogs : WatchdogStep(w)
         \/ UNCHANGED vars
  PROVE  Admitted' = Admitted
<1> USE DEF store, lambda, actions, history
<1>1. CASE Tick \/ StoreStep \/ UNCHANGED vars
  BY <1>1, QuotaStutter DEF Tick, StoreStep, EngageKillSwitch, ReapRecord, AskForNonce,
       IssueNonce, ReapNonce, vars
<1>2. CASE OwnerStep \/ DestroyWorkflow
  BY <1>2, QuotaStutter DEF OwnerStep, OwnerDispatches, OwnerStarts, OwnerApplies,
       OwnerFinishes, DestroyWorkflow
<1>3. ASSUME NEW p \in Presses, RunStep(p)
      PROVE  Admitted' = Admitted
  <2>1. \A q \in Presses : run'[q] = "none" <=> run[q] = "none"
    BY <1>3 DEF RunStep, RunAppears, RunStarts, RunApplies, RunDestroys, ReleaseLock,
                RunDies, Advance, TypeOK
  <2>2. nonce' = nonce /\ started' = started
    BY <1>3 DEF RunStep, RunAppears, RunStarts, RunApplies, RunDestroys, ReleaseLock,
                RunDies
  <2> QED
    BY <2>1, <2>2, QuotaStutter
<1>4. ASSUME NEW w \in Watchdogs, WatchdogStep(w)
      PROVE  Admitted' = Admitted
  BY <1>4, QuotaStutter DEF WatchdogStep, WakeUp, ReadLock, ReadSweep, Observe, Decide,
       DispatchDestroy, NoteSweep, BluntTeardown, Unlock, ClearRecord, Die
<1> QED
  BY <1>1, <1>2, <1>3, <1>4

\* A press that becomes a run brings a nonce no run had, on a day with room:
\* it is itself charged for, so the others are fewer than the cap.
LEMMA QuotaDispatch ==
  ASSUME TypeOK, Ledger, NEW p \in Presses, Dispatch(p), run' = [run EXCEPT ![p] = "accepted"]
  PROVE  Quota!Admit(nonce[p], Day(started[p]))
<1> DEFINE d == Day(started[p])
<1> USE DEF lambda
<1>1. pc[p] = "dispatch" /\ run[p] = "none" /\ UNCHANGED <<nonce, started>>
  BY DEF Dispatch, Ledger, NoEarlyRun, BeforeDispatch
<1>2. \A l \in Admitted : l.nonce # nonce[p]
  <2>1. \A q \in Launched : nonce[q] # nonce[p]
    BY <1>1 DEF Launched, Ledger, NoSharing, Redeemed, PastNonce
  <2> QED
    BY <2>1, AdmittedIs DEF Launch
<1>3. d \in Days /\ count[d] \in 0..Cap
  BY DayTypes DEF TypeOK
<1>4. Cardinality(RunsOf(d)) + 1 <= Cardinality(Charged(d))
  <2>1. p \in Charged(d) /\ RunsOf(d) \subseteq Charged(d) \ {p}
    BY <1>1 DEF Charged, RunsOf
  <2>2. /\ IsFiniteSet(Charged(d) \ {p})
        /\ Cardinality(Charged(d) \ {p}) = Cardinality(Charged(d)) - 1
    <3>1. IsFiniteSet(Charged(d))
      BY ChargedFinite
    <3> QED
      BY <2>1, <3>1, FS_RemoveElement, Zenon
  <2>3. Cardinality(RunsOf(d)) <= Cardinality(Charged(d) \ {p})
    BY <2>1, <2>2, FS_Subset
  <2> QED
    BY <2>2, <2>3, ChargedFinite
<1>5. Cardinality(Charged(d)) <= count[d]
  BY <1>3 DEF Ledger, Accounts
<1>6. Cardinality(Quota!OfDay(d)) < Cap
  <2>1. Cap \in Nat /\ count[d] \in Nat /\ count[d] <= Cap
    BY <1>3, BoundAssumption
  <2> QED
    BY <1>4, <1>5, <2>1, ChargedFinite, DayFits
<1>7. Admitted' = Admitted \cup {Launch(p)}
  <2>1. Launched' = Launched \cup {p}
    BY <1>1 DEF Launched, TypeOK
  <2>2. \A q \in Presses : Launch(q)' = Launch(q)
    BY <1>1 DEF Launch
  <2>3. Admitted' = {Launch(q)' : q \in Launched'}
    BY <1>1 DEF Admitted, Launch, Launched
  <2> QED
    BY <2>1, <2>2, <2>3, AdmittedIs DEF Launched
<1>8. Quota!Cardinality(Quota!OfDay(d)) = Cardinality(Quota!OfDay(d))
  BY DEF Quota!Cardinality, Cardinality
<1> QED
  BY <1>2, <1>6, <1>7, <1>8 DEF Quota!Admit, Launch

LEMMA QuotaLaunch ==
  ASSUME TypeOK, Ledger, NEW p \in Presses, LaunchStep(p)
  PROVE  Quota!Next \/ Admitted' = Admitted
<1>1. CASE Dispatch(p) /\ run' = [run EXCEPT ![p] = "accepted"]
  <2>1. Quota!Admit(nonce[p], Day(started[p]))
    BY <1>1, QuotaDispatch
  <2>2. nonce[p] \in Nonces /\ Day(started[p]) \in Days
    BY DayTypes DEF TypeOK
  <2> QED
    BY <2>1, <2>2 DEF Quota!Next
<1>2. CASE run' = run
  <2>1. nonce' = nonce
    BY OnlyOnePress
  <2>2. \A q \in Presses : run[q] # "none" => started'[q] = started[q]
    BY OnlyOnePress DEF Ledger, NoEarlyRun, BeforeDispatch
  <2> QED
    BY <1>2, <2>1, <2>2, QuotaStutter
<1> QED
  BY <1>1, <1>2 DEF LaunchStep, Press, ReadSwitch, RedeemNonce, AskInFlight, TakeLock,
       IncrementDay, Dispatch, ReleaseQuietly, Crash, actions

\* The public launch path implements the promise about spending: one run per
\* nonce, and no day starts more runs than its cap.
THEOREM QuotaRefined == Spec => QuotaSpec
<1>1. Init => Quota!Init
  BY DEF Init, AtRest, Quota!Init, Admitted
<1>2. TypeOK /\ Ledger /\ [Next]_vars => [Quota!Next]_Admitted
  BY QuotaOthers, QuotaLaunch DEF Next
<1> QED
  BY <1>1, <1>2, TypeCorrect, LedgerInvariant, PTL DEF Spec, QuotaSpec, Quota!Spec

(***************************************************************************)
(* The watchdog deletes nothing it did not ask Actions to destroy first:   *)
(* BluntOnlyAsked for every number of overlapping invocations, however     *)
(* stale what they read.  The invariant follows the request from the       *)
(* moment it is made, through the record it is written down in and the     *)
(* copies invocations read of it, to the plan that acts on it.             *)
(***************************************************************************)
Request(r) == [scope |-> r.scope, at |-> r.dispatched_at]

Justified(d) ==
  /\ \A r \in d.record : Request(r) \in asked
  /\ d.pc = "note" => [scope |-> d.plan.scope, at |-> d.started] \in asked
  /\ d.pc = "delete" =>
       \E a \in asked : a.scope = d.plan.scope /\ d.started - a.at >= Grace

Remembered ==
  /\ \A r \in record : Request(r) \in asked
  /\ \A w \in Watchdogs : Justified(dog[w])

\* The blunt decision is taken only on a record of the same scope that is at
\* least a grace period old.
LEMMA BluntNeedsRecord ==
  ASSUME NEW alive, NEW lk, NEW rec \in SUBSET Record, NEW t \in Nat,
         FirstEffect(DecideSweep(alive, lk, rec, t)) = "delete"
  PROVE  \E r \in rec : /\ r.scope = DecideSweep(alive, lk, rec, t).scope
                        /\ t - r.dispatched_at >= Grace
<1> DEFINE d     == DecideSweep(alive, lk, rec, t)
           told  == AskedFor(rec, ScopeOf(alive))
<1>1. d.action = "blunt_teardown"
  BY DEF FirstEffect
<1>2. /\ alive # {} /\ Overdue(alive, lk, t) /\ told # {}
      /\ ~(\E r \in told : t - r.dispatched_at < Grace)
  <2>1. TidyUp(lk, rec, t).action # "blunt_teardown"
    BY DEF TidyUp, Decision
  <2> QED
    BY <1>1, <2>1 DEF DecideSweep, Decision
<1>3. d.scope = ScopeOf(alive)
  BY <1>2 DEF DecideSweep, Decision
<1>4. PICK r \in told : TRUE
  BY <1>2
<1>5. r \in rec /\ r.scope = ScopeOf(alive) /\ r.dispatched_at \in Nat
  BY <1>4, BoundAssumption DEF AskedFor, Record, Time
<1>6. t - r.dispatched_at >= Grace
  BY <1>2, <1>4, <1>5, GraceAssumption
<1> QED
  BY <1>3, <1>5, <1>6

\* Steps of the rest of the system: the record may vanish, requests never do.
LEMMA RememberedFrame ==
  ASSUME Remembered, record' \subseteq record, UNCHANGED <<dog, asked>>
  PROVE  Remembered'
BY DEF Remembered, Justified, Request

LEMMA RememberedOthers ==
  ASSUME Remembered,
         \/ Tick \/ StoreStep \/ OwnerStep \/ DestroyWorkflow
         \/ \E p \in Presses : LaunchStep(p) \/ RunStep(p)
         \/ UNCHANGED vars
  PROVE  Remembered'
<1> USE DEF store, lambda, actions, history
<1>1. CASE Tick \/ StoreStep \/ UNCHANGED vars
  BY <1>1, RememberedFrame DEF Tick, StoreStep, EngageKillSwitch, ReapRecord,
       AskForNonce, IssueNonce, ReapNonce, vars
<1>2. CASE OwnerStep \/ DestroyWorkflow
  BY <1>2, RememberedFrame DEF OwnerStep, OwnerDispatches, OwnerStarts, OwnerApplies,
       OwnerFinishes, DestroyWorkflow
<1>3. ASSUME NEW p \in Presses, LaunchStep(p)
      PROVE  Remembered'
  BY <1>3, RememberedFrame DEF LaunchStep, Press, ReadSwitch, RedeemNonce, AskInFlight,
       TakeLock, IncrementDay, Dispatch, ReleaseQuietly, Crash
<1>4. ASSUME NEW p \in Presses, RunStep(p)
      PROVE  Remembered'
  BY <1>4, RememberedFrame DEF RunStep, RunAppears, RunStarts, RunApplies, RunDestroys,
       ReleaseLock, RunDies
<1> QED
  BY <1>1, <1>2, <1>3, <1>4

\* One invocation's step, given what it does to its own state and the record.
LEMMA RememberedStep ==
  ASSUME TypeOK, Remembered, NEW w \in Watchdogs, NEW d,
         dog' = [dog EXCEPT ![w] = d],
         asked \subseteq asked',
         \A r \in record' : Request(r) \in asked',
         /\ \A r \in d.record : Request(r) \in asked'
         /\ d.pc = "note" => [scope |-> d.plan.scope, at |-> d.started] \in asked'
         /\ d.pc = "delete" =>
              \E a \in asked' : a.scope = d.plan.scope /\ d.started - a.at >= Grace
  PROVE  Remembered'
<1>1. \A v \in Watchdogs : Justified(dog[v]) /\ (v # w => dog'[v] = dog[v])
  BY DEF Remembered, TypeOK
<1>2. \A v \in Watchdogs : v # w => Justified(dog[v])'
  BY <1>1 DEF Justified
<1>3. Justified(dog[w])'
  BY DEF Justified, TypeOK
<1> QED
  BY <1>2, <1>3 DEF Remembered, Request

LEMMA DogFields ==
  ASSUME TypeOK, NEW w \in Watchdogs, NEW s, DogGoto(w, s)
  PROVE  \E d : /\ dog' = [dog EXCEPT ![w] = d]
                /\ d.pc = s /\ d.started = dog[w].started /\ d.plan = dog[w].plan
                /\ d.record = dog[w].record
<1> DEFINE d == [dog[w] EXCEPT !.pc = s]
<1>1. dog[w] \in Dog
  BY DEF TypeOK
<1>2. dog' = [dog EXCEPT ![w] = d]
  BY DEF DogGoto
<1>3. /\ d.pc = s /\ d.started = dog[w].started /\ d.plan = dog[w].plan
      /\ d.record = dog[w].record
  BY <1>1 DEF Dog
<1> QED
  BY <1>2, <1>3

LEMMA RememberedDog ==
  ASSUME TypeOK, Remembered, NEW w \in Watchdogs, WatchdogStep(w)
  PROVE  Remembered'
<1> USE DEF store, lambda, actions, history
<1>0. /\ dog[w] \in Dog /\ now \in Time
      /\ \A r \in record : Request(r) \in asked
      /\ Justified(dog[w])
  BY DEF TypeOK, Remembered
<1>a. ASSUME Return(w), asked' = asked, \A r \in record' : Request(r) \in asked
      PROVE  Remembered'
  <2>1. Asleep.record = {} /\ Asleep.pc = "off"
    BY DEF Asleep
  <2> QED
    BY <1>a, <2>1, RememberedStep DEF Return
<1>1. CASE WakeUp(w)
  <2> DEFINE d == [Asleep EXCEPT !.pc = "lock", !.started = now]
  <2>1. d.record = {} /\ d.pc = "lock"
    BY DEF Asleep
  <2>2. dog' = [dog EXCEPT ![w] = d] /\ UNCHANGED <<asked, record>>
    BY <1>1 DEF WakeUp
  <2> QED
    BY <1>0, <2>1, <2>2, RememberedStep
<1>2. CASE ReadLock(w)
  <2> DEFINE d == [dog[w] EXCEPT !.pc = "record", !.lock = lock]
  <2>1. d.record = dog[w].record /\ d.pc = "record"
    BY <1>0 DEF Dog
  <2>2. dog' = [dog EXCEPT ![w] = d] /\ UNCHANGED <<asked, record>>
    BY <1>2 DEF ReadLock
  <2> QED
    BY <1>0, <2>1, <2>2, RememberedStep DEF Justified
<1>3. CASE ReadSweep(w)
  <2> DEFINE d == [dog[w] EXCEPT !.pc = "observe", !.record = record]
  <2>1. d.record = record /\ d.pc = "observe"
    BY <1>0 DEF Dog
  <2>2. dog' = [dog EXCEPT ![w] = d] /\ UNCHANGED <<asked, record>>
    BY <1>3 DEF ReadSweep
  <2> QED
    BY <1>0, <2>1, <2>2, RememberedStep DEF Justified
<1>10. ASSUME NEW k \in Kinds, Observe(w, k)
       PROVE  Remembered'
  <2> DEFINE d == [dog[w] EXCEPT !.looked = @ \cup {k},
                                 !.seen = @ \cup {r \in Alive : r.kind = k}]
  <2>1. d.record = dog[w].record /\ d.pc = "observe"
    BY <1>0, <1>10 DEF Dog, Observe
  <2>2. dog' = [dog EXCEPT ![w] = d] /\ UNCHANGED <<asked, record>>
    BY <1>10 DEF Observe
  <2> QED
    BY <1>0, <2>1, <2>2, RememberedStep DEF Justified
<1>4. CASE Decide(w)
  <2> DEFINE plan  == DecideSweep(dog[w].seen, dog[w].lock, dog[w].record, dog[w].started)
             after == [pc |-> FirstEffect(plan), started |-> dog[w].started,
                       lock |-> {}, record |-> {}, looked |-> {},
                       seen |-> dog[w].seen, plan |-> plan]
  <2>1. /\ UNCHANGED <<asked, record>>
        /\ Return(w) \/ dog' = [dog EXCEPT ![w] = after]
    BY <1>4 DEF Decide
  <2>2. CASE Return(w)
    BY <1>a, <1>0, <2>1, <2>2
  <2>3. CASE dog' = [dog EXCEPT ![w] = after]
    <3>1. dog[w].record \in SUBSET Record /\ dog[w].started \in Nat
      BY <1>0, BoundAssumption DEF Dog, Time
    <3>2. ASSUME FirstEffect(plan) = "delete"
          PROVE  \E a \in asked : a.scope = plan.scope /\ dog[w].started - a.at >= Grace
      <4>1. PICK r \in dog[w].record : /\ r.scope = plan.scope
                                       /\ dog[w].started - r.dispatched_at >= Grace
        BY <3>1, <3>2, BluntNeedsRecord
      <4>2. /\ Request(r) \in asked /\ Request(r).scope = r.scope
            /\ Request(r).at = r.dispatched_at
        BY <1>0, <4>1 DEF Justified, Request
      <4> HIDE DEF plan
      <4> QED
        BY <4>1, <4>2
    <3>3. FirstEffect(plan) # "note"
      BY DEF FirstEffect
    <3> HIDE DEF plan
    <3>4. after.record = {} /\ after.pc = FirstEffect(plan) /\ after.plan = plan
          /\ after.started = dog[w].started
      OBVIOUS
    <3> HIDE DEF after
    <3> QED
      BY <1>0, <2>1, <2>3, <3>2, <3>3, <3>4, RememberedStep
  <2> QED
    BY <2>1, <2>2, <2>3
<1>5. CASE DispatchDestroy(w)
  <2>1. PICK d : /\ dog' = [dog EXCEPT ![w] = d]
                 /\ d.pc = "note" /\ d.started = dog[w].started
                 /\ d.plan = dog[w].plan /\ d.record = dog[w].record
    BY <1>5, DogFields DEF DispatchDestroy
  <2>2. /\ asked' = asked \cup {[scope |-> dog[w].plan.scope, at |-> dog[w].started]}
        /\ record' = record
    BY <1>5 DEF DispatchDestroy
  <2> QED
    BY <1>0, <2>1, <2>2, RememberedStep DEF Justified
<1>6. CASE NoteSweep(w)
  <2> DEFINE r == [scope |-> dog[w].plan.scope, dispatched_at |-> dog[w].started,
                   ttl |-> dog[w].started + RecordTTL]
  <2>1. Request(r) = [scope |-> dog[w].plan.scope, at |-> dog[w].started]
    BY DEF Request
  <2>2. Request(r) \in asked
    BY <1>0, <1>6, <2>1 DEF Justified, NoteSweep
  <2>3. Return(w) /\ asked' = asked /\ (record' = record \/ record' = {r})
    BY <1>6 DEF NoteSweep
  <2> HIDE DEF r
  <2> QED
    BY <1>0, <1>a, <2>2, <2>3
<1>7. CASE BluntTeardown(w)
  <2>1. PICK d : /\ dog' = [dog EXCEPT ![w] = d]
                 /\ d.pc = "unlock" /\ d.record = dog[w].record
    BY <1>7, DogFields DEF BluntTeardown
  <2> QED
    BY <1>0, <1>7, <2>1, RememberedStep DEF Justified, BluntTeardown
<1>8. CASE Unlock(w)
  <2>1. CASE Return(w)
    BY <1>0, <1>8, <1>a, <2>1 DEF Unlock
  <2>2. CASE DogGoto(w, "clear")
    <3>1. PICK d : /\ dog' = [dog EXCEPT ![w] = d]
                   /\ d.pc = "clear" /\ d.record = dog[w].record
      BY <2>2, DogFields
    <3> QED
      BY <1>0, <1>8, <3>1, RememberedStep DEF Justified, Unlock
  <2> QED
    BY <1>8, <2>1, <2>2 DEF Unlock
<1>9. CASE ClearRecord(w) \/ Die(w)
  <2>1. Return(w) /\ asked' = asked /\ record' \subseteq record
    BY <1>9 DEF ClearRecord, Die
  <2> QED
    BY <1>0, <1>a, <2>1
<1> QED
  BY <1>1, <1>2, <1>3, <1>4, <1>5, <1>6, <1>7, <1>8, <1>9, <1>10 DEF WatchdogStep

\* Never a blunt teardown of a scope Actions was not asked to destroy a grace
\* period earlier, for any number of overlapping invocations.
THEOREM NothingUnasked == Spec => []BluntOnlyAsked
<1>1. Init => Remembered
  <2>1. Asleep.record = {} /\ Asleep.pc = "off"
    BY DEF Asleep
  <2> QED
    BY <2>1 DEF Init, AtRest, Remembered, Justified
<1>2. TypeOK /\ Remembered /\ [Next]_vars => Remembered'
  BY RememberedOthers, RememberedDog DEF Next
<1>3. Remembered => BluntOnlyAsked
  BY DEF Remembered, Justified, BluntOnlyAsked
<1> QED
  BY <1>1, <1>2, <1>3, TypeCorrect, PTL DEF Spec

(***************************************************************************)
(* The watchdog leaves a launch inside its lock's lifetime alone.  The     *)
(* argument follows four facts: what the stage carries of a launch expires *)
(* no sooner than its lock (TagsLast); the lock item outlives the run as   *)
(* long as anything of it is left (Kept); so what an invocation has read   *)
(* is either that lock, or from a time after which nothing of the launch   *)
(* can be seen again (Readings); and a move against one launch is decided  *)
(* on neither (Sweep.DecideSweep).                                         *)
(***************************************************************************)
Belongs(r, p) == run[p] # "none" /\ r.launch = chosen[p]
Lasting(r) == \E p \in Presses : Belongs(r, p) /\ r.expires >= started[p] + TTL

TagsLast ==
  /\ \A p \in Presses :
       run[p] \in {"running", "torn", "leaked"} => expiry[p] >= started[p] + TTL
  /\ \A r \in stage : r.launch # NoId => Lasting(r)
  /\ \A p \in Presses :
       run[p] = "torn" /\ OwnsId(p) => \A r \in stage : r.launch # chosen[p]

Leftover(p) == run[p] = "finished" /\ \E r \in stage : r.launch = chosen[p]
Kept == \A p \in Presses :
  Leftover(p) /\ Protected(p) /\ OwnsId(p) /\ p \notin Victims => lock = {LockOf(p)}

\* A launch that no other was started with the id of, whose lock nobody took
\* away, and the invocation's clock is clear of both ends of its lifetime.
Within(w, p) ==
  /\ OwnsId(p) /\ p \notin Victims
  /\ run[p] # "none" /\ pc[p] # "failed" /\ InItsLifetime(w, p)

\* Nothing of the launch is there, nor was seen, nor can be seen again.
OutOfSight(w, p) ==
  /\ run[p] = "finished"
  /\ \A r \in stage : r.launch # chosen[p]
  /\ \A r \in dog[w].seen : r.launch # chosen[p]

DogPrompt == \A w \in Watchdogs :
  dog[w].pc # "off" => dog[w].started <= now /\ now <= dog[w].started + LambdaTimeout
Observed == \A w \in Watchdogs : \A r \in dog[w].seen : Lasting(r)
Unseen == \A w \in Watchdogs : dog[w].pc = "lock" => dog[w].seen = {}
Readings == \A w \in Watchdogs, p \in Presses :
  Within(w, p) /\ dog[w].pc \in {"record", "observe"}
    => dog[w].lock = {LockOf(p)} \/ OutOfSight(w, p)
Spares == \A w \in Watchdogs, p \in Presses : ~(MovesAgainst(w, p) /\ Within(w, p))

\* The decision itself: no move against one launch whose lock was read and has
\* not expired, when nothing that was seen has.
LEMMA NoMoveInTime ==
  ASSUME NEW alive, NEW l, NEW rec, NEW t \in Nat,
         l.expires_at \in Nat, l.expires_at > t,
         \A r \in alive : r.expires \in Nat /\ r.expires > t,
         FirstEffect(DecideSweep(alive, {l}, rec, t)) \in {"dispatch", "note", "delete"}
  PROVE  FALSE
<1>1. ~Overdue(alive, {l}, t)
  BY DEF Overdue, DeadlinePassed, LockIsExpired
<1>2. /\ alive = {} => DecideSweep(alive, {l}, rec, t) = TidyUp({l}, rec, t)
      /\ alive # {} => DecideSweep(alive, {l}, rec, t)
                         = Decision("within_deadline", ScopeOf(alive), FALSE)
  BY <1>1 DEF DecideSweep
<1>3. TidyUp({l}, rec, t).action \in {"released_stale_lock", "none"}
  BY DEF TidyUp, Decision
<1>4. Decision("within_deadline", ScopeOf(alive), FALSE).action = "within_deadline"
  BY DEF Decision
<1> QED
  BY <1>2, <1>3, <1>4 DEF FirstEffect

LEMMA ScopeOfMove ==
  ASSUME NEW alive, NEW lk, NEW rec, NEW t,
         FirstEffect(DecideSweep(alive, lk, rec, t)) \in {"dispatch", "note", "delete"}
  PROVE  DecideSweep(alive, lk, rec, t).scope = ScopeOf(alive)
<1>1. TidyUp(lk, rec, t).action \in {"released_stale_lock", "none"}
  BY DEF TidyUp, Decision
<1>2. FirstEffect(TidyUp(lk, rec, t)) \notin {"dispatch", "note", "delete"}
  BY <1>1 DEF FirstEffect
<1>3. alive # {}
  BY <1>2 DEF DecideSweep
<1> QED
  BY <1>3, Zenon DEF DecideSweep, Decision

\* What a step does to one invocation.
LEMMA DogMoves ==
  ASSUME TypeOK, NEW w \in Watchdogs, WatchdogStep(w)
  PROVE  /\ UNCHANGED <<now, pc, chosen, started, run, expiry>>
         /\ stage' \subseteq stage
         /\ \A v \in Watchdogs : v # w => dog'[v] = dog[v]
         /\ \/ dog'[w] = Asleep
            \/ /\ dog[w].pc = "off" /\ dog'[w].pc = "lock"
               /\ dog'[w].started = now /\ dog'[w].seen = {}
            \/ /\ dog[w].pc # "off" /\ dog'[w].started = dog[w].started
               /\ \/ /\ dog[w].pc = "lock" /\ dog'[w].pc = "record" /\ dog'[w].lock = lock
                     /\ dog'[w].seen = dog[w].seen /\ UNCHANGED <<lock, robbed, stage>>
                  \/ /\ dog[w].pc = "record" /\ dog'[w].pc = "observe"
                     /\ dog'[w].lock = dog[w].lock /\ dog'[w].seen = dog[w].seen
                  \/ /\ dog[w].pc = "observe" /\ dog'[w].pc = "observe"
                     /\ dog'[w].lock = dog[w].lock
                     /\ dog'[w].seen \subseteq dog[w].seen \cup Alive
                  \/ /\ dog[w].pc = "observe" /\ dog'[w].seen = dog[w].seen
                     /\ UNCHANGED <<lock, robbed>>
                     /\ LET d == DecideSweep(dog[w].seen, dog[w].lock, dog[w].record,
                                             dog[w].started)
                        IN  dog'[w].pc = FirstEffect(d) /\ dog'[w].plan = d
                  \/ /\ dog[w].pc \in {"dispatch", "delete", "unlock"}
                     /\ dog'[w].pc \in {"note", "unlock", "clear"}
                     /\ dog'[w].pc = "note" => dog[w].pc = "dispatch"
                     /\ dog'[w].plan = dog[w].plan /\ dog'[w].seen = dog[w].seen
<1> USE DEF store, lambda, actions, history
<1>0. dog[w] \in Dog /\ dog \in [Watchdogs -> Dog]
  BY DEF TypeOK
<1>a. ASSUME NEW s, DogGoto(w, s)
      PROVE  /\ dog'[w].pc = s /\ dog'[w].started = dog[w].started
             /\ dog'[w].plan = dog[w].plan /\ dog'[w].seen = dog[w].seen
             /\ \A v \in Watchdogs : v # w => dog'[v] = dog[v]
  BY <1>0, <1>a DEF DogGoto, Dog
<1>b. ASSUME Return(w)
      PROVE  dog'[w] = Asleep /\ \A v \in Watchdogs : v # w => dog'[v] = dog[v]
  BY <1>0, <1>b DEF Return
<1>1. CASE WakeUp(w)
  <2>1. [Asleep EXCEPT !.pc = "lock", !.started = now].seen = {}
    BY DEF Asleep
  <2> QED
    BY <1>0, <1>1, <2>1 DEF WakeUp, Asleep
<1>2. CASE ReadLock(w)
  BY <1>0, <1>2 DEF ReadLock, Dog
<1>3. CASE ReadSweep(w)
  BY <1>0, <1>3 DEF ReadSweep, Dog
<1>4. ASSUME NEW k \in Kinds, Observe(w, k)
      PROVE  /\ UNCHANGED <<now, pc, chosen, started, run, expiry, stage>>
             /\ \A v \in Watchdogs : v # w => dog'[v] = dog[v]
             /\ dog[w].pc = "observe" /\ dog'[w].pc = "observe"
             /\ dog'[w].lock = dog[w].lock /\ dog'[w].started = dog[w].started
             /\ dog'[w].seen \subseteq dog[w].seen \cup Alive
  <2>1. dog'[w].seen = dog[w].seen \cup {r \in Alive : r.kind = k}
    BY <1>0, <1>4 DEF Observe, Dog
  <2> QED
    BY <1>0, <1>4, <2>1 DEF Observe, Dog
<1>5. CASE Decide(w)
  <2> DEFINE d == DecideSweep(dog[w].seen, dog[w].lock, dog[w].record, dog[w].started)
             after == [pc |-> FirstEffect(d), started |-> dog[w].started,
                       lock |-> {}, record |-> {}, looked |-> {},
                       seen |-> dog[w].seen, plan |-> d]
  <2>1. /\ dog[w].pc = "observe"
        /\ UNCHANGED <<now, pc, chosen, started, run, expiry, stage, lock, robbed>>
        /\ Return(w) \/ dog' = [dog EXCEPT ![w] = after]
    BY <1>5 DEF Decide
  <2>2. CASE Return(w)
    BY <1>b, <2>1, <2>2
  <2>3. CASE dog' = [dog EXCEPT ![w] = after]
    <3> HIDE DEF d
    <3>1. /\ dog'[w].pc = FirstEffect(d) /\ dog'[w].plan = d
          /\ dog'[w].started = dog[w].started /\ dog'[w].seen = dog[w].seen
          /\ \A v \in Watchdogs : v # w => dog'[v] = dog[v]
      BY <1>0, <2>3
    <3> QED
      BY <2>1, <3>1, Zenon DEF d
  <2> QED
    BY <2>1, <2>2, <2>3
<1>6. CASE DispatchDestroy(w)
  BY <1>a, <1>6 DEF DispatchDestroy
<1>7. CASE NoteSweep(w) \/ ClearRecord(w) \/ Die(w)
  BY <1>b, <1>7 DEF NoteSweep, ClearRecord, Die
<1>8. CASE BluntTeardown(w)
  BY <1>a, <1>8 DEF BluntTeardown
<1>9. CASE Unlock(w)
  BY <1>a, <1>b, <1>9 DEF Unlock
<1> QED
  BY <1>1, <1>2, <1>3, <1>4, <1>5, <1>6, <1>7, <1>8, <1>9 DEF WatchdogStep

\* What any step keeps of a run, and where a new one comes from.
LEMMA RunsKeep ==
  ASSUME TypeOK, Ledger, [Next]_vars
  PROVE  /\ chosen' = chosen
         /\ robbed \subseteq robbed'
         /\ now' >= now
         /\ \A p \in Presses : /\ p \notin Victims' => p \notin Victims
                               /\ OwnsId(p)' => OwnsId(p)
         /\ \A p \in Presses :
              /\ run[p] # "none" => run'[p] # "none" /\ started'[p] = started[p]
              /\ run[p] = "finished" => run'[p] = "finished"
              /\ pc[p] = "failed" => pc'[p] = "failed"
              /\ run[p] = "none" /\ run'[p] # "none"
                   => /\ pc[p] = "dispatch" /\ run'[p] = "accepted"
                      /\ UNCHANGED <<now, started, stage, dog>>
<1> USE DEF store, lambda, actions, history
<1>0. now \in Nat /\ now + 1 >= now
  BY BoundAssumption DEF TypeOK, Time
<1>1. ASSUME Tick \/ StoreStep \/ OwnerStep \/ DestroyWorkflow \/ UNCHANGED vars
      PROVE  UNCHANGED <<pc, chosen, started, run, robbed>> /\ now' >= now
  BY <1>0, <1>1 DEF Tick, StoreStep, ReapRecord, EngageKillSwitch, AskForNonce, IssueNonce,
       ReapNonce, OwnerStep, OwnerDispatches, OwnerStarts, OwnerApplies, OwnerFinishes,
       DestroyWorkflow, vars
<1>2. ASSUME NEW w \in Watchdogs, WatchdogStep(w)
      PROVE  /\ UNCHANGED <<now, pc, chosen, started, run>> /\ robbed \subseteq robbed'
  <2>1. robbed \subseteq robbed'
    BY <1>2 DEF WatchdogStep, WakeUp, ReadLock, ReadSweep, Observe, Decide, Rob,
         DispatchDestroy, NoteSweep, BluntTeardown, Unlock, ClearRecord, Die
  <2> QED
    BY <1>2, <2>1, DogMoves
<1>3. ASSUME NEW p \in Presses, RunStep(p)
      PROVE  /\ UNCHANGED <<now, pc, chosen, started>> /\ robbed \subseteq robbed'
             /\ \A q \in Presses : /\ run[q] = "none" <=> run'[q] = "none"
                                   /\ run[q] = "finished" => run'[q] = "finished"
  BY <1>3 DEF RunStep, RunAppears, RunStarts, RunApplies, RunDestroys, ReleaseLock,
              RunDies, Advance, Rob, TypeOK
<1>4. ASSUME NEW p \in Presses, LaunchStep(p)
      PROVE  /\ UNCHANGED <<now, chosen, stage, dog>> /\ robbed \subseteq robbed'
             /\ \A q \in Presses :
                  /\ run[q] # "none" => run'[q] = run[q] /\ started'[q] = started[q]
                  /\ pc[q] = "failed" => pc'[q] = "failed"
                  /\ run[q] = "none" /\ run'[q] # "none"
                       => pc[q] = "dispatch" /\ run'[q] = "accepted" /\ started' = started
  <2>1. UNCHANGED <<now, chosen, stage, dog>>
    BY <1>4 DEF LaunchStep, Press, ReadSwitch, RedeemNonce, AskInFlight, TakeLock,
         IncrementDay, Dispatch, ReleaseQuietly, Crash
  <2>2. robbed \subseteq robbed'
    BY <1>4 DEF LaunchStep, Press, ReadSwitch, RedeemNonce, AskInFlight, TakeLock,
         IncrementDay, Dispatch, ReleaseQuietly, Crash, Rob
  <2>3. run[p] # "none" => run'[p] = run[p] /\ started'[p] = started[p]
    BY <1>4, OnlyOnePress DEF Ledger, NoEarlyRun, BeforeDispatch
  <2>4. pc[p] # "failed"
    BY <1>4, PressMoves DEF PressActive
  <2>5. run[p] = "none" /\ run'[p] # "none"
          => pc[p] = "dispatch" /\ run'[p] = "accepted" /\ started' = started
    <3>1. run' # run => Dispatch(p)
      BY <1>4 DEF LaunchStep, Press, ReadSwitch, RedeemNonce, AskInFlight, TakeLock,
           IncrementDay, ReleaseQuietly, Crash
    <3> QED
      BY <3>1 DEF Dispatch, TypeOK
  <2> QED
    BY <1>4, <2>1, <2>2, <2>3, <2>4, <2>5, OnlyOnePress
<1>5. /\ chosen' = chosen /\ robbed \subseteq robbed' /\ now' >= now
      /\ \A p \in Presses :
           /\ run[p] # "none" => run'[p] # "none" /\ started'[p] = started[p]
           /\ run[p] = "finished" => run'[p] = "finished"
           /\ pc[p] = "failed" => pc'[p] = "failed"
           /\ run[p] = "none" /\ run'[p] # "none"
                => /\ pc[p] = "dispatch" /\ run'[p] = "accepted"
                   /\ UNCHANGED <<now, started, stage, dog>>
  BY <1>0, <1>1, <1>2, <1>3, <1>4 DEF Next, vars
<1>6. \A p \in Presses : /\ p \notin Victims' => p \notin Victims
                         /\ OwnsId(p)' => OwnsId(p)
  BY <1>5 DEF Victims, OwnsId, SameId
<1> QED
  BY <1>5, <1>6

\* A resource is tagged with the launch id of a run that is going on, and with
\* the deadline that run computed; or it has no launch id.
LEMMA StageGrows ==
  ASSUME TypeOK, [Next]_vars
  PROVE  \A r \in stage' :
           \/ r \in stage
           \/ r.launch = NoId
           \/ \E p \in Presses : /\ run[p] = "running" /\ r.launch = chosen[p]
                                 /\ r.expires = expiry[p]
                                 /\ UNCHANGED <<run, lock, dog, pc>>
<1> USE DEF store, lambda, actions, history
<1>1. CASE stage' \subseteq stage
  BY <1>1
<1>2. ASSUME NEW p \in Presses, NEW k \in Kinds, RunApplies(p, k)
      PROVE  \A r \in stage' : \/ r \in stage
                               \/ /\ run[p] = "running" /\ r.launch = chosen[p]
                                  /\ r.expires = expiry[p]
                                  /\ UNCHANGED <<run, lock, dog, pc>>
  BY <1>2 DEF RunApplies, Retag
<1>3. ASSUME NEW k \in Kinds, OwnerApplies(k)
      PROVE  \A r \in stage' : r \in stage \/ r.launch = NoId
  BY <1>3 DEF OwnerApplies, Retag
<1>4. ASSUME NEW p \in Presses, LaunchStep(p)
      PROVE  stage' = stage
  BY <1>4 DEF LaunchStep, Press, ReadSwitch, RedeemNonce, AskInFlight, TakeLock,
       IncrementDay, Dispatch, ReleaseQuietly, Crash
<1>5. ASSUME NEW p \in Presses,
             RunAppears(p) \/ RunStarts(p) \/ RunDestroys(p) \/ ReleaseLock(p) \/ RunDies(p)
      PROVE  stage' \subseteq stage
  BY <1>5 DEF RunAppears, RunStarts, RunDestroys, ReleaseLock, RunDies
<1>6. ASSUME Tick \/ StoreStep \/ OwnerDispatches \/ OwnerStarts \/ OwnerFinishes
               \/ DestroyWorkflow \/ UNCHANGED vars
      PROVE  stage' \subseteq stage
  BY <1>6 DEF Tick, StoreStep, ReapRecord, EngageKillSwitch, AskForNonce, IssueNonce,
       ReapNonce, OwnerDispatches, OwnerStarts, OwnerFinishes, DestroyWorkflow, vars
<1>7. ASSUME NEW w \in Watchdogs, WatchdogStep(w)
      PROVE  stage' \subseteq stage
  BY <1>7, DogMoves
<1> QED
  BY <1>1, <1>2, <1>3, <1>4, <1>5, <1>6, <1>7 DEF Next, RunStep, OwnerStep

\* Nothing appears any more of a launch whose run has been torn down or is over,
\* when no other was started with its id.
LEMMA NothingNew ==
  ASSUME TypeOK, [Next]_vars, NEW p \in Presses, OwnsId(p), run[p] # "running"
  PROVE  \A r \in stage' : r.launch = chosen[p] => r \in stage
<1> SUFFICES ASSUME NEW r \in stage', r.launch = chosen[p], r \notin stage
             PROVE  FALSE
  OBVIOUS
<1>1. chosen[p] # NoId
  BY IdAssumption DEF TypeOK
<1>2. PICK q \in Presses : run[q] = "running" /\ r.launch = chosen[q]
  BY <1>1, StageGrows
<1> QED
  BY <1>2 DEF OwnsId, SameId

LEMMA LastingStays ==
  ASSUME TypeOK, Ledger, [Next]_vars, NEW r, Lasting(r)
  PROVE  Lasting(r)'
<1>1. PICK p \in Presses : Belongs(r, p) /\ r.expires >= started[p] + TTL
  BY DEF Lasting
<1>2. Belongs(r, p)' /\ started'[p] = started[p]
  BY <1>1, RunsKeep DEF Belongs
<1> QED
  BY <1>1, <1>2 DEF Lasting

LEMMA TagsLastStep ==
  ASSUME TypeOK, TypeOK', Ledger, Prompt, TagsLast, [Next]_vars
  PROVE  TagsLast'
<1> USE DEF store, lambda, actions, history
<1>1. ASSUME NEW p \in Presses, run'[p] \in {"running", "torn", "leaked"}
      PROVE  expiry'[p] >= started'[p] + TTL
  <2>1. run[p] # "none" /\ started'[p] = started[p]
    BY <1>1, RunsKeep
  <2>2. CASE run[p] \in {"running", "torn", "leaked"} /\ expiry'[p] = expiry[p]
    BY <2>1, <2>2 DEF TagsLast
  <2>3. CASE RunStarts(p)
    <3>1. expiry'[p] = now + TTL
      BY <2>3 DEF RunStarts, TypeOK
    <3>2. now \in Nat /\ started[p] \in Nat /\ started[p] <= now /\ TTL \in Nat
      BY BoundAssumption DEF Prompt, TypeOK, Time
    <3> QED
      BY <2>1, <3>1, <3>2
  <2>4. run'[p] # run[p] \/ expiry'[p] # expiry[p] => RunStep(p) \/ LaunchStep(p)
    <3>1. ASSUME Tick \/ StoreStep \/ OwnerStep \/ DestroyWorkflow \/ UNCHANGED vars
          PROVE  UNCHANGED <<run, expiry>>
      BY <3>1 DEF Tick, StoreStep, ReapRecord, EngageKillSwitch, AskForNonce, IssueNonce,
           ReapNonce, OwnerStep, OwnerDispatches, OwnerStarts, OwnerApplies,
           OwnerFinishes, DestroyWorkflow, vars
    <3>2. ASSUME NEW w \in Watchdogs, WatchdogStep(w)
          PROVE  UNCHANGED <<run, expiry>>
      BY <3>2, DogMoves
    <3>3. ASSUME NEW q \in Presses \ {p}, RunStep(q)
          PROVE  run'[p] = run[p] /\ expiry'[p] = expiry[p]
      BY <3>3 DEF RunStep, RunAppears, RunStarts, RunApplies, RunDestroys, ReleaseLock,
                  RunDies, Advance, TypeOK
    <3>4. ASSUME NEW q \in Presses \ {p}, LaunchStep(q)
          PROVE  run'[p] = run[p] /\ expiry'[p] = expiry[p]
      BY <3>4 DEF LaunchStep, Press, ReadSwitch, RedeemNonce, AskInFlight, TakeLock,
           IncrementDay, Dispatch, ReleaseQuietly, Crash, TypeOK
    <3> QED
      BY <3>1, <3>2, <3>3, <3>4 DEF Next
  <2>5. CASE RunStep(p) /\ ~RunStarts(p)
    <3>1. run[p] \in {"running", "torn", "leaked"} /\ expiry'[p] = expiry[p]
      BY <1>1, <2>5 DEF RunStep, RunAppears, RunApplies, RunDestroys, ReleaseLock,
                        RunDies, Advance, TypeOK
    <3> QED
      BY <2>2, <3>1
  <2>6. CASE LaunchStep(p)
    <3>1. run'[p] # run[p] => run'[p] = "accepted"
      BY <2>6 DEF LaunchStep, Press, ReadSwitch, RedeemNonce, AskInFlight, TakeLock,
           IncrementDay, Dispatch, ReleaseQuietly, Crash, TypeOK
    <3>2. expiry' = expiry
      BY <2>6 DEF LaunchStep, Press, ReadSwitch, RedeemNonce, AskInFlight, TakeLock,
           IncrementDay, Dispatch, ReleaseQuietly, Crash
    <3> QED
      BY <1>1, <2>2, <3>1, <3>2
  <2> QED
    BY <1>1, <2>2, <2>3, <2>4, <2>5, <2>6
<1>2. ASSUME NEW r \in stage', r.launch # NoId
      PROVE  Lasting(r)'
  <2>1. CASE r \in stage
    BY <1>2, <2>1, LastingStays DEF TagsLast
  <2>2. CASE r \notin stage
    <3>1. PICK p \in Presses : run[p] = "running" /\ r.launch = chosen[p] /\ r.expires = expiry[p]
      BY <1>2, <2>2, StageGrows
    <3>2. Lasting(r)
      BY <3>1 DEF Lasting, Belongs, TagsLast
    <3> QED
      BY <3>2, LastingStays
  <2> QED
    BY <2>1, <2>2
<1>3. ASSUME NEW p \in Presses, run'[p] = "torn", OwnsId(p)'
      PROVE  \A r \in stage' : r.launch # chosen'[p]
  <2>1. CASE run[p] = "torn"
    <3>1. OwnsId(p)
      BY <1>3, RunsKeep
    <3>2. \A r \in stage : r.launch # chosen[p]
      BY <2>1, <3>1 DEF TagsLast
    <3> QED
      BY <2>1, <3>1, <3>2, NothingNew, RunsKeep
  <2>2. CASE run[p] # "torn"
    <3>1. RunDestroys(p)
      <4>1. ASSUME Tick \/ StoreStep \/ OwnerStep \/ DestroyWorkflow \/ UNCHANGED vars
            PROVE  UNCHANGED run
        BY <4>1 DEF Tick, StoreStep, ReapRecord, EngageKillSwitch, AskForNonce, IssueNonce,
             ReapNonce, OwnerStep, OwnerDispatches, OwnerStarts, OwnerApplies,
             OwnerFinishes, DestroyWorkflow, vars
      <4>2. ASSUME NEW w \in Watchdogs, WatchdogStep(w)
            PROVE  UNCHANGED run
        BY <4>2, DogMoves
      <4>3. ASSUME NEW q \in Presses, RunStep(q)
            PROVE  RunDestroys(p)
        BY <1>3, <2>2, <4>3 DEF RunStep, RunAppears, RunStarts, RunApplies, RunDestroys,
             ReleaseLock, RunDies, Advance, TypeOK
      <4>4. ASSUME NEW q \in Presses, LaunchStep(q)
            PROVE  run'[p] # "torn"
        BY <2>2, <4>4 DEF LaunchStep, Press, ReadSwitch, RedeemNonce, AskInFlight, TakeLock,
             IncrementDay, Dispatch, ReleaseQuietly, Crash, TypeOK
      <4> QED
        BY <1>3, <2>2, <4>1, <4>2, <4>3, <4>4 DEF Next
    <3>2. stage' = {}
      BY <1>3, <3>1 DEF RunDestroys, Advance, TypeOK
    <3> QED
      BY <3>2
  <2> QED
    BY <2>1, <2>2
<1> QED
  BY <1>1, <1>2, <1>3 DEF TagsLast

\* The unexpired lock of a launch that has reached GitHub is not replaced, and
\* is deleted only by the run itself, or else the delete is a robbery.
LEMMA LockStays ==
  ASSUME TypeOK, Ledger, Prompt, [Next]_vars, NEW p \in Presses,
         run[p] # "none", pc'[p] # "failed", lock = {LockOf(p)},
         now < started[p] + TTL, p \notin Victims', ~(run[p] = "torn" /\ ReleaseLock(p))
  PROVE  lock' = {LockOf(p)}
<1> USE DEF store, lambda, actions, history
<1>0. /\ now \in Nat /\ started[p] + TTL \in Nat /\ p \notin Watchdogs
      /\ LockOf(p).by = p /\ LockOf(p).expires_at = started[p] + TTL
      /\ LockOf(p).launch_id = chosen[p]
  BY BoundAssumption, ProcessAssumption DEF TypeOK, Time, LockOf
<1>a. ASSUME NEW x, Rob(x), x # p, lock' \subseteq lock
      PROVE  lock' = lock
  <2>1. ASSUME LockOf(p) \notin lock'
        PROVE  FALSE
    <3>1. [victim |-> p, thief |-> x] \in robbed'
      BY <1>0, <1>a, <2>1 DEF Rob
    <3> QED
      BY <3>1 DEF Victims
  <2> QED
    BY <1>a, <2>1
<1>1. CASE Tick \/ StoreStep \/ OwnerStep \/ DestroyWorkflow \/ UNCHANGED vars
  BY <1>1 DEF Tick, StoreStep, ReapRecord, EngageKillSwitch, AskForNonce, IssueNonce,
       ReapNonce, OwnerStep, OwnerDispatches, OwnerStarts, OwnerApplies, OwnerFinishes,
       DestroyWorkflow, vars
<1>2. ASSUME NEW w \in Watchdogs, WatchdogStep(w)
      PROVE  lock' = lock
  <2>1. UNCHANGED lock \/ (Rob(w) /\ lock' \subseteq lock)
    BY <1>2 DEF WatchdogStep, WakeUp, ReadLock, ReadSweep, Observe, Decide,
         DispatchDestroy, NoteSweep, BluntTeardown, Unlock, ClearRecord, Die
  <2> QED
    BY <1>0, <1>a, <2>1
<1>3. ASSUME NEW q \in Presses, RunStep(q)
      PROVE  lock' = lock
  <2>1. UNCHANGED lock \/ (ReleaseLock(q) /\ run[q] = "torn" /\ Rob(q) /\ lock' \subseteq lock)
    BY <1>3 DEF RunStep, RunAppears, RunStarts, RunApplies, RunDestroys, ReleaseLock, RunDies
  <2> QED
    BY <1>a, <2>1
<1>4. ASSUME NEW q \in Presses, LaunchStep(q)
      PROVE  lock' = lock
  <2>1. ASSUME TakeLock(q), lock' # lock
        PROVE  FALSE
    <3>1. started[p] + TTL <= started[q]
      BY <1>0, <2>1 DEF TakeLock, LockFree
    <3>2. started[q] <= now /\ started[q] \in Nat
      BY BoundAssumption DEF Prompt, TypeOK, Time
    <3> QED
      BY <1>0, <3>1, <3>2
  <2>2. ASSUME ReleaseQuietly(q), lock' # lock
        PROVE  FALSE
    <3>1. q = p
      <4>1. Rob(q) /\ lock' \subseteq lock
        BY <2>2 DEF ReleaseQuietly
      <4> QED
        BY <1>a, <2>2, <4>1
    <3>2. pc[p] # "release"
      BY DEF Ledger, NoEarlyRun, BeforeDispatch
    <3>3. pc'[p] = "failed"
      BY <2>2, <3>1, <3>2 DEF ReleaseQuietly, Goto, TypeOK
    <3> QED
      BY <3>3
  <2> QED
    BY <1>4, <2>1, <2>2 DEF LaunchStep, Press, ReadSwitch, RedeemNonce, AskInFlight,
         IncrementDay, Dispatch, Crash
<1> QED
  BY <1>1, <1>2, <1>3, <1>4 DEF Next

LEMMA KeptStep ==
  ASSUME TypeOK, TypeOK', Ledger, Prompt, Held, TagsLast, Kept, [Next]_vars
  PROVE  Kept'
<1> SUFFICES ASSUME NEW p \in Presses, Leftover(p)', Protected(p)', OwnsId(p)',
                    p \notin Victims'
             PROVE  lock' = {LockOf(p)'}
  BY DEF Kept
<1>1. /\ OwnsId(p) /\ p \notin Victims
      /\ chosen' = chosen /\ now' >= now /\ pc[p] # "failed"
      /\ pc'[p] # "failed" /\ run'[p] = "finished"
  BY RunsKeep DEF Protected, Leftover
<1>2. run[p] # "none" /\ started'[p] = started[p]
  BY <1>1, RunsKeep
<1>3. Protected(p)
  <2>1. /\ now \in Nat /\ now' \in Nat /\ started[p] + TTL \in Nat
        /\ now' < started[p] + TTL
    BY <1>2, BoundAssumption DEF TypeOK, Time, Protected
  <2> QED
    BY <1>1, <2>1 DEF Protected
<1>4. PICK r \in stage' : r.launch = chosen[p]
  BY <1>1 DEF Leftover
<1>5. lock = {LockOf(p)}
  <2>1. CASE run[p] = "finished"
    <3>1. r \in stage
      BY <1>1, <1>4, <2>1, NothingNew
    <3> QED
      BY <1>1, <1>3, <1>4, <2>1, <3>1 DEF Kept, Leftover
  <2>2. CASE run[p] # "finished"
    BY <1>1, <1>2, <1>3, <2>2 DEF Held, Holding, Unfinished
  <2> QED
    BY <2>1, <2>2
<1>6. ~(run[p] = "torn" /\ ReleaseLock(p))
  <2>1. run[p] = "torn" => r \in stage
    BY <1>1, <1>4, NothingNew
  <2> QED
    BY <1>1, <1>4, <2>1 DEF TagsLast
<1>7. lock' = {LockOf(p)}
  BY <1>1, <1>2, <1>3, <1>5, <1>6, LockStays DEF Protected
<1> QED
  BY <1>1, <1>2, <1>7 DEF LockOf

(***************************************************************************)
(* What an invocation has read                                             *)
(***************************************************************************)
LEMMA DogPromptStep ==
  ASSUME TypeOK, TypeOK', DogPrompt, [Next]_vars
  PROVE  DogPrompt'
<1> USE DEF store, lambda, actions, history
<1>0. /\ now \in Nat /\ now' \in Nat /\ LambdaTimeout \in Nat
      /\ \A w \in Watchdogs : dog[w].started \in Nat /\ dog'[w].started \in Nat
  BY BoundAssumption DEF TypeOK, Time, Dog
<1>1. CASE UNCHANGED <<now, dog>>
  BY <1>1 DEF DogPrompt
<1>2. CASE Tick
  BY <1>0, <1>2 DEF Tick, DogPrompt
<1>3. ASSUME NEW w \in Watchdogs, WatchdogStep(w)
      PROVE  DogPrompt'
  <2>1. Asleep.pc = "off"
    BY DEF Asleep
  <2> QED
    BY <1>0, <1>3, <2>1, DogMoves DEF DogPrompt
<1>4. ASSUME NEW p \in Presses, LaunchStep(p)
      PROVE  UNCHANGED <<now, dog>>
  BY <1>4 DEF LaunchStep, Press, ReadSwitch, RedeemNonce, AskInFlight, TakeLock,
       IncrementDay, Dispatch, ReleaseQuietly, Crash
<1>5. ASSUME NEW p \in Presses, RunStep(p)
      PROVE  UNCHANGED <<now, dog>>
  BY <1>5 DEF RunStep, RunAppears, RunStarts, RunApplies, RunDestroys, ReleaseLock, RunDies
<1>6. ASSUME StoreStep \/ OwnerStep \/ DestroyWorkflow \/ UNCHANGED vars
      PROVE  UNCHANGED <<now, dog>>
  BY <1>6 DEF StoreStep, ReapRecord, EngageKillSwitch, AskForNonce, IssueNonce,
       ReapNonce, OwnerStep, OwnerDispatches, OwnerStarts, OwnerApplies, OwnerFinishes,
       DestroyWorkflow, vars
<1> QED
  BY <1>1, <1>2, <1>3, <1>4, <1>5, <1>6 DEF Next

\* Only an invocation's own step changes what it has read.
LEMMA DogStays ==
  ASSUME TypeOK, [Next]_vars, NEW w \in Watchdogs
  PROVE  WatchdogStep(w) \/ dog'[w] = dog[w]
<1> USE DEF store, lambda, actions, history
<1>1. ASSUME NEW p \in Presses, LaunchStep(p) \/ RunStep(p)
      PROVE  dog' = dog
  BY <1>1 DEF LaunchStep, Press, ReadSwitch, RedeemNonce, AskInFlight, TakeLock,
       IncrementDay, Dispatch, ReleaseQuietly, Crash, RunStep, RunAppears, RunStarts,
       RunApplies, RunDestroys, ReleaseLock, RunDies
<1>2. ASSUME Tick \/ StoreStep \/ OwnerStep \/ DestroyWorkflow \/ UNCHANGED vars
      PROVE  dog' = dog
  BY <1>2 DEF Tick, StoreStep, ReapRecord, EngageKillSwitch, AskForNonce, IssueNonce,
       ReapNonce, OwnerStep, OwnerDispatches, OwnerStarts, OwnerApplies, OwnerFinishes,
       DestroyWorkflow, vars
<1>3. ASSUME NEW v \in Watchdogs \ {w}, WatchdogStep(v)
      PROVE  dog'[w] = dog[w]
  BY <1>3, DogMoves
<1> QED
  BY <1>1, <1>2, <1>3 DEF Next

LEMMA ObservedStep ==
  ASSUME TypeOK, Ledger, TagsLast, Observed, Unseen, [Next]_vars
  PROVE  Observed' /\ Unseen'
<1>1. ASSUME NEW w \in Watchdogs, NEW r \in dog'[w].seen
      PROVE  Lasting(r)'
  <2>1. r \in dog[w].seen \/ r \in Alive
    <3>1. Asleep.seen = {}
      BY DEF Asleep
    <3> QED
      BY <1>1, <3>1, DogStays, DogMoves
  <2>2. Lasting(r)
    BY <2>1 DEF Observed, Alive, TagsLast
  <2> QED
    BY <2>2, LastingStays
<1>2. ASSUME NEW w \in Watchdogs, dog'[w].pc = "lock"
      PROVE  dog'[w].seen = {}
  <2>1. CASE dog'[w] = dog[w]
    BY <1>2, <2>1 DEF Unseen
  <2>2. CASE WatchdogStep(w)
    <3>1. Asleep.pc = "off"
      BY DEF Asleep
    <3> QED
      BY <1>2, <2>2, <3>1, DogMoves DEF FirstEffect
  <2> QED
    BY <2>1, <2>2, DogStays
<1> QED
  BY <1>1, <1>2 DEF Observed, Unseen

\* Nobody comes to be within an awake invocation's reach later.
LEMMA WithinBefore ==
  ASSUME TypeOK, TypeOK', Ledger, Prompt, DogPrompt, [Next]_vars,
         NEW w \in Watchdogs, NEW p \in Presses,
         dog[w].pc # "off", dog'[w].started = dog[w].started, Within(w, p)'
  PROVE  Within(w, p) /\ LockOf(p)' = LockOf(p)
<1>1. /\ OwnsId(p) /\ p \notin Victims /\ chosen' = chosen /\ pc[p] # "failed"
  BY RunsKeep DEF Within
<1>2. run[p] # "none" /\ started'[p] = started[p]
  <2>1. CASE run[p] # "none"
    BY <2>1, RunsKeep
  <2>2. CASE run[p] = "none"
    <3>1. pc[p] = "dispatch" /\ UNCHANGED <<now, started, dog>>
      BY <2>2, RunsKeep DEF Within
    <3>2. now <= started[p] + LambdaTimeout
      BY <3>1 DEF Prompt, PressActive
    <3>3. dog[w].started <= now
      BY DEF DogPrompt
    <3>4. dog[w].started > started[p] + LambdaTimeout
      BY <3>1 DEF Within, InItsLifetime
    <3>5. /\ now \in Nat /\ started[p] \in Nat /\ LambdaTimeout \in Nat
          /\ dog[w].started \in Nat
      BY BoundAssumption DEF TypeOK, Time, Dog
    <3> QED
      BY <3>2, <3>3, <3>4, <3>5
  <2> QED
    BY <2>1, <2>2
<1> QED
  BY <1>1, <1>2 DEF Within, InItsLifetime, LockOf

LEMMA OutOfSightStays ==
  ASSUME TypeOK, Ledger, [Next]_vars, NEW w \in Watchdogs, NEW p \in Presses,
         OwnsId(p), OutOfSight(w, p), dog'[w].seen \subseteq dog[w].seen \cup Alive
  PROVE  OutOfSight(w, p)'
<1>1. run'[p] = "finished" /\ chosen' = chosen
  BY RunsKeep DEF OutOfSight
<1>2. \A r \in stage' : r.launch # chosen[p]
  BY NothingNew DEF OutOfSight
<1>3. \A r \in dog'[w].seen : r.launch # chosen[p]
  BY DEF OutOfSight, Alive
<1> QED
  BY <1>1, <1>2, <1>3 DEF OutOfSight

LEMMA ReadingsStep ==
  ASSUME TypeOK, TypeOK', Ledger, Prompt, Held, TagsLast, Kept, DogPrompt, Unseen, Readings,
         [Next]_vars
  PROVE  Readings'
<1> SUFFICES ASSUME NEW w \in Watchdogs, NEW p \in Presses, Within(w, p)',
                    dog'[w].pc \in {"record", "observe"}
             PROVE  dog'[w].lock = {LockOf(p)'} \/ OutOfSight(w, p)'
  BY DEF Readings
<1>1. CASE /\ dog[w].pc \in {"record", "observe"} /\ dog'[w].started = dog[w].started
           /\ dog'[w].lock = dog[w].lock /\ dog'[w].seen \subseteq dog[w].seen \cup Alive
  <2>1. Within(w, p) /\ LockOf(p)' = LockOf(p)
    BY <1>1, WithinBefore
  <2> QED
    BY <1>1, <2>1, OutOfSightStays DEF Readings, Within
<1>2. CASE /\ dog[w].pc = "lock" /\ dog'[w].started = dog[w].started
           /\ dog'[w].lock = lock /\ dog'[w].seen = dog[w].seen
  <2>1. Within(w, p) /\ LockOf(p)' = LockOf(p)
    BY <1>2, WithinBefore
  <2>2. Protected(p)
    <3>1. now <= dog[w].started + LambdaTimeout
      BY <1>2 DEF DogPrompt
    <3>2. /\ now \in Nat /\ started[p] \in Nat /\ LambdaTimeout \in Nat /\ TTL \in Nat
          /\ dog[w].started \in Nat
      BY BoundAssumption DEF TypeOK, Time, Dog
    <3> QED
      BY <2>1, <3>1, <3>2 DEF Within, InItsLifetime, Protected
  <2>3. CASE Unfinished(p) \/ Leftover(p)
    <3>1. lock = {LockOf(p)}
      BY <2>1, <2>2, <2>3 DEF Held, Holding, Kept, Within
    <3> QED
      BY <1>2, <2>1, <3>1
  <2>4. CASE ~Unfinished(p) /\ ~Leftover(p)
    <3>1. dog[w].seen = {}
      BY <1>2 DEF Unseen
    <3>2. OutOfSight(w, p)
      BY <2>1, <2>4, <3>1 DEF OutOfSight, Unfinished, Leftover, Within
    <3> QED
      BY <1>2, <2>1, <3>2, OutOfSightStays DEF Within
  <2> QED
    BY <2>3, <2>4
<1>3. CASE dog'[w] = dog[w]
  BY <1>1, <1>3
<1>4. CASE WatchdogStep(w)
  <2>1. Asleep.pc = "off"
    BY DEF Asleep
  <2>2. \A d : FirstEffect(d) \notin {"record", "observe"}
    BY DEF FirstEffect
  <2> QED
    BY <1>1, <1>2, <1>4, <2>1, <2>2, DogMoves
<1> QED
  BY <1>3, <1>4, DogStays

\* The decision, on what has been read, goes against no launch within reach.
LEMMA DecisionSpares ==
  ASSUME TypeOK, Ledger, Observed, Readings, NEW w \in Watchdogs, NEW p \in Presses,
         Within(w, p), dog[w].pc = "observe", NEW d,
         d = DecideSweep(dog[w].seen, dog[w].lock, dog[w].record, dog[w].started),
         FirstEffect(d) \in {"dispatch", "note", "delete"}, d.scope = {chosen[p]}
  PROVE  FALSE
<1>1. ScopeOf(dog[w].seen) = {chosen[p]}
  BY ScopeOfMove
<1>2. \A r \in dog[w].seen : r.launch = chosen[p]
  BY <1>1 DEF ScopeOf
<1>3. dog[w].seen # {}
  BY <1>1 DEF ScopeOf
<1>4. dog[w].lock = {LockOf(p)}
  BY <1>2, <1>3 DEF Readings, OutOfSight
<1>5. /\ dog[w].started \in Nat /\ started[p] + TTL \in Nat
      /\ dog[w].started < started[p] + TTL
      /\ \A r \in dog[w].seen : r.expires \in Nat
  BY BoundAssumption DEF Within, InItsLifetime, TypeOK, Time, Dog, Tagged
<1>6. ASSUME NEW r \in dog[w].seen
      PROVE  r.expires > dog[w].started
  <2>1. PICK q \in Presses : Belongs(r, q) /\ r.expires >= started[q] + TTL
    BY DEF Observed, Lasting
  <2>2. q = p
    BY <1>2, <2>1 DEF Belongs, Within, OwnsId, SameId
  <2> QED
    BY <1>5, <2>1, <2>2
<1>7. LockOf(p).expires_at = started[p] + TTL
  BY DEF LockOf
<1> DEFINE l == LockOf(p)
<1>8. l.expires_at \in Nat /\ l.expires_at > dog[w].started
  BY <1>5, <1>7
<1>9. \A r \in dog[w].seen : r.expires \in Nat /\ r.expires > dog[w].started
  BY <1>5, <1>6
<1>10. /\ dog[w].lock = {l} /\ dog[w].started \in Nat
       /\ FirstEffect(DecideSweep(dog[w].seen, {l}, dog[w].record, dog[w].started))
            \in {"dispatch", "note", "delete"}
  BY <1>4, <1>5
<1> HIDE DEF l
<1> QED
  BY <1>8, <1>9, <1>10, NoMoveInTime, Zenon

LEMMA SparesStep ==
  ASSUME TypeOK, TypeOK', Ledger, Prompt, DogPrompt, Observed, Readings, Spares, [Next]_vars
  PROVE  Spares'
<1> SUFFICES ASSUME NEW w \in Watchdogs, NEW p \in Presses,
                    MovesAgainst(w, p)', Within(w, p)'
             PROVE  FALSE
  BY DEF Spares
<1>0. chosen' = chosen /\ dog'[w].pc \in {"dispatch", "note", "delete"}
  BY RunsKeep DEF MovesAgainst
<1>1. CASE /\ dog[w].pc \in {"dispatch", "note", "delete"}
           /\ dog'[w].started = dog[w].started /\ dog'[w].plan = dog[w].plan
  <2>1. Within(w, p)
    BY <1>1, WithinBefore
  <2> QED
    BY <1>0, <1>1, <2>1 DEF Spares, MovesAgainst
<1>2. CASE dog'[w] = dog[w]
  BY <1>0, <1>1, <1>2
<1>3. CASE WatchdogStep(w)
  <2> DEFINE d == DecideSweep(dog[w].seen, dog[w].lock, dog[w].record, dog[w].started)
  <2>0. Asleep.pc = "off"
    BY DEF Asleep
  <2>1. CASE /\ dog[w].pc = "observe" /\ dog'[w].started = dog[w].started
             /\ dog'[w].pc = FirstEffect(d) /\ dog'[w].plan = d
    <3>1. Within(w, p)
      BY <2>1, WithinBefore
    <3>2. d.scope = {chosen[p]}
      BY <1>0, <2>1 DEF MovesAgainst
    <3>3. FirstEffect(d) \in {"dispatch", "note", "delete"}
      BY <1>0, <2>1
    <3> QED
      BY <2>1, <3>1, <3>2, <3>3, DecisionSpares
  <2> HIDE DEF d
  <2> QED
    BY <1>0, <1>1, <1>3, <2>0, <2>1, DogMoves DEF d
<1> QED
  BY <1>2, <1>3, DogStays

Judicious == DogPrompt /\ TagsLast /\ Kept /\ Observed /\ Unseen /\ Readings /\ Spares

LEMMA JudiciousInit == ASSUME Init PROVE Judicious
<1>1. /\ \A w \in Watchdogs : dog[w].pc = "off" /\ dog[w].seen = {}
      /\ stage = {} /\ \A p \in Presses : run[p] = "none"
  BY DEF Init, AtRest, Asleep
<1> QED
  BY <1>1 DEF Judicious, DogPrompt, TagsLast, Kept, Leftover, Observed, Unseen, Readings,
              Spares, Within

LEMMA JudiciousInvariant == Spec => [](TypeOK /\ Judicious)
<1>1. Init => Judicious
  BY JudiciousInit
<1>2. TypeOK /\ TypeOK' /\ Ledger /\ Prompt /\ Held /\ Judicious /\ [Next]_vars => Judicious'
  <2> SUFFICES ASSUME TypeOK, TypeOK', Ledger, Prompt, Held, Judicious, [Next]_vars
               PROVE  Judicious'
    OBVIOUS
  <2>1. DogPrompt /\ TagsLast /\ Kept /\ Observed /\ Unseen /\ Readings /\ Spares
    BY DEF Judicious
  <2>2. DogPrompt' /\ TagsLast'
    BY <2>1, DogPromptStep, TagsLastStep
  <2>3. Kept' /\ Observed' /\ Unseen'
    BY <2>1, KeptStep, ObservedStep
  <2>4. Readings' /\ Spares'
    BY <2>1, ReadingsStep, SparesStep
  <2> QED
    BY <2>2, <2>3, <2>4 DEF Judicious
<1> QED
  BY <1>1, <1>2, LockInvariant, PTL DEF Spec

\* A launch inside the lifetime of its lock is left alone by every overlapping
\* invocation of the watchdog, but for the length of an invocation at both
\* ends, until somebody has deleted its unexpired lock or another launch was
\* started with its id.
THEOREM HealthyLaunchesSpared == Spec => []HealthyLeftAlone
<1>1. Judicious => HealthyLeftAlone
  BY DEF Judicious, Spares, Within, HealthyLeftAlone
<1> QED
  BY <1>1, JudiciousInvariant, PTL
=============================================================================
