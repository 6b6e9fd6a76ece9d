--------------------------- MODULE LaunchControl ---------------------------
(***************************************************************************)
(* The public launch path: the control table, the launch Lambda that       *)
(* decides whether a press may start a run (control.py, launch_handler.py, *)
(* store_dynamodb.py), the kill switch, the runs of self-service.yml as    *)
(* this path sees them, the billable stage resources, and the watchdog     *)
(* Lambda that enforces the deadline (watchdog_handler.py, sweep.py).      *)
(*                                                                         *)
(* Every Lambda invocation is a process that takes one step per call it    *)
(* makes to DynamoDB, to GitHub or to AWS, and may be killed between any   *)
(* two.  A call may fail, and a write may be applied although its answer   *)
(* is lost; the SDK then either reports the failure or repeats the call,   *)
(* so a conditional write can be refused by its own first attempt.         *)
(*                                                                         *)
(* The unit of time is the watchdog's interval.                            *)
(***************************************************************************)
EXTENDS Sweep, FiniteSets

CONSTANTS
  Presses,       \* POST requests, each one invocation of the launch Lambda
  Watchdogs,     \* watchdog invocations that may overlap
  Nonces,        \* the nonces GET may issue
  Ids,           \* the launch ids a POST may carry
  NoId,          \* the empty Launch tag of a cycle the owner dispatched
  Kinds,         \* ECS service, load balancer, database
  Cap,           \* var.daily_cap
  TTL,           \* var.ttl_minutes
  NonceTTL,      \* NONCE_TTL_SECONDS
  RecordTTL,     \* RECORD_TTL_SECONDS of the watchdog's record
  LambdaTimeout, \* the longest an invocation lives
  DayLength,     \* from one midnight in the quota's zone to the next
  MaxTime,       \* bound of the clock
  Configured     \* the GitHub App id, installation id and secret are set

ASSUME IdAssumption == NoId \notin Ids

ASSUME ProcessAssumption == Presses \cap Watchdogs = {}

ASSUME BoundAssumption ==
  /\ IsFiniteSet(Presses)
  /\ Cap \in Nat /\ MaxTime \in Nat
  /\ TTL \in Nat /\ NonceTTL \in Nat /\ RecordTTL \in Nat
  /\ LambdaTimeout \in Nat
  /\ DayLength \in Nat \ {0}
  /\ Configured \in BOOLEAN

\* An invocation is killed long before the lock it took expires
\* (infra/self-service: 20 s and 120 s against 150 minutes).
ASSUME TimeoutAssumption == LambdaTimeout < TTL

VARIABLES
  now,        \* the time
  \* -- the control table
  killed,     \* the killswitch item exists and is engaged
  nonces,     \* nonce# items: whether issued, there, or gone
  until,      \* and their ttl
  count,      \* count# items: launches charged to each day
  lock,       \* the lock item
  record,     \* the watchdog item
  \* -- the launch Lambda
  pc,         \* where each press is in decide_launch or _launch
  nonce,      \* the nonce its body carries, and
  chosen,     \* the launch id beside it: nothing in the table ties the two
  started,    \* the clock it read at its start, used throughout
  \* -- GitHub Actions and AWS
  run,        \* the run a press dispatched: its status
  expiry,     \* the ExpiresAt that run computed when its launch job started
  owner,      \* a run of the same workflow the owner dispatched
  teardown,   \* a destroy.yml run the watchdog asked for has not finished
  stage,      \* the billable resources under the stage prefix
  dog,        \* each watchdog invocation: its step, its clock, what it read, its plan
  \* -- history, read by no step
  robbed,     \* unexpired locks deleted by another: [victim, thief]
  asked,      \* the destroy requests made: [scope, at]
  late        \* presses that had not read the switch when it was engaged

store   == <<killed, nonces, until, count, lock, record>>
lambda  == <<pc, nonce, chosen, started>>
actions == <<run, expiry, owner, teardown, stage>>
history == <<robbed, asked, late>>
vars    == <<now, store, lambda, actions, dog, history>>

(***************************************************************************)
(* Types                                                                   *)
(***************************************************************************)
Time == 0..MaxTime
Day(t) == t \div DayLength
Days == 0..Day(MaxTime)

PressActive == {"switch", "nonce", "inflight", "lock", "count",
                "release", "dispatch", "undo"}
PressDone == {"done", "failed"}   \* answered or dead; answered with a 502
RunStatus == {"none", "accepted", "queued", "running", "torn", "leaked", "finished"}
DogState == {"off", "lock", "record", "observe", "dispatch", "note",
             "delete", "unlock", "clear"}

NonceState == {"none", "issuing", "live", "gone"}
Lock      == [launch_id : Ids, expires_at : Nat, by : Presses]
Record    == [scope : SUBSET Ids, dispatched_at : Time, ttl : Nat]
Resource  == [kind : Kinds, launch : Ids \cup {NoId}, expires : Nat]
Tagged    == [kind : Kinds, launch : Ids, expires : Nat]
Plan      == [action : Actions, scope : SUBSET Ids, clear : BOOLEAN]
Dog       == [pc : DogState, started : Time, lock : SUBSET Lock,
              record : SUBSET Record, looked : SUBSET Kinds, seen : SUBSET Tagged,
              plan : Plan]

Asleep == [pc |-> "off", started |-> 0, lock |-> {}, record |-> {},
           looked |-> {}, seen |-> {}, plan |-> Idle]

TypeOK ==
  /\ now \in Time
  /\ killed \in BOOLEAN
  /\ nonces \in [Nonces -> NonceState]
  /\ until \in [Nonces -> Nat]
  /\ count \in [Days -> 0..Cap]
  /\ lock \subseteq Lock
  /\ record \subseteq Record
  /\ pc \in [Presses -> {"idle"} \cup PressActive \cup PressDone]
  /\ nonce \in [Presses -> Nonces]
  /\ chosen \in [Presses -> Ids]
  /\ started \in [Presses -> Time]
  /\ run \in [Presses -> RunStatus]
  /\ expiry \in [Presses -> Nat]
  /\ owner \in {"idle", "queued", "running"}
  /\ teardown \in BOOLEAN
  /\ stage \subseteq Resource
  /\ dog \in [Watchdogs -> Dog]
  /\ robbed \subseteq [victim : Presses, thief : Presses \cup Watchdogs]
  /\ asked \subseteq [scope : SUBSET Ids, at : Time]
  /\ late \subseteq Presses

AtRest ==
  /\ now = 0
  /\ killed = FALSE
  /\ count = [d \in Days |-> 0]
  /\ lock = {} /\ record = {}
  /\ pc = [p \in Presses |-> "idle"]
  /\ nonce \in [Presses -> Nonces]
  /\ chosen \in [Presses -> Ids]
  /\ started = [p \in Presses |-> 0]
  /\ run = [p \in Presses |-> "none"]
  /\ expiry = [p \in Presses |-> 0]
  /\ owner = "idle"
  /\ teardown = FALSE
  /\ stage = {}
  /\ dog = [w \in Watchdogs |-> Asleep]
  /\ robbed = {} /\ asked = {} /\ late = {}

Init == AtRest /\ nonces = [i \in Nonces |-> "none"] /\ until = [i \in Nonces |-> 0]

(***************************************************************************)
(* The clock, the budget alarm and DynamoDB's own expiry                   *)
(***************************************************************************)
\* Time passes; an invocation past its timeout has been killed first.
Tick ==
  /\ now < MaxTime
  /\ \A p \in Presses : pc[p] \in PressActive => now < started[p] + LambdaTimeout
  /\ \A w \in Watchdogs : dog[w].pc # "off" => now < dog[w].started + LambdaTimeout
  /\ now' = now + 1
  /\ UNCHANGED <<store, lambda, actions, dog, history>>

\* The budget alarm, or a hand, throws the switch.  No code turns it off.
EngageKillSwitch ==
  /\ ~killed
  /\ killed' = TRUE
  /\ late' = {p \in Presses : pc[p] \in {"idle", "switch"}}
  /\ UNCHANGED <<now, nonces, until, count, lock, record, lambda,
                 actions, dog, robbed, asked>>

ReapNonce(i) ==
  /\ nonces[i] = "live" /\ until[i] <= now
  /\ nonces' = [nonces EXCEPT ![i] = "gone"]
  /\ UNCHANGED <<now, killed, until, count, lock, record, lambda, actions, dog, history>>

ReapRecord ==
  /\ \E r \in record : r.ttl <= now
  /\ record' = {}
  /\ UNCHANGED <<now, killed, nonces, until, count, lock, lambda, actions, dog, history>>

(***************************************************************************)
(* GET: issue a nonce.  The launch id beside it on the page is drawn at    *)
(* random and never stored.                                                *)
(***************************************************************************)
\* The switch is read, and the clock before it.
AskForNonce(i) ==
  /\ ~killed
  /\ nonces[i] = "none"
  /\ nonces' = [nonces EXCEPT ![i] = "issuing"]
  /\ until' = [until EXCEPT ![i] = now + NonceTTL]
  /\ UNCHANGED <<now, killed, count, lock, record, lambda, actions, dog, history>>

IssueNonce(i) ==
  /\ nonces[i] = "issuing"
  /\ now + NonceTTL <= until[i] + LambdaTimeout
  /\ nonces' = [nonces EXCEPT ![i] = "live"]
  /\ UNCHANGED <<now, killed, until, count, lock, record, lambda, actions, dog, history>>

(***************************************************************************)
(* POST: decide_launch, in the order the guardrails are evaluated, then    *)
(* the dispatch                                                            *)
(***************************************************************************)
Goto(p, step) == pc' = [pc EXCEPT ![p] = step]

\* The body is parsed and the clock read once; a malformed one is refused.  The
\* nonce was issued and the launch id is well formed: any such two are taken.
Press(p) ==
  /\ pc[p] = "idle"
  /\ nonces[nonce[p]] \in {"live", "gone"}
  /\ started' = [started EXCEPT ![p] = now]
  /\ \/ Goto(p, "switch")
     \/ Goto(p, "done")
  /\ UNCHANGED <<now, store, nonce, chosen, actions, dog, history>>

\* Bug: the switch item is read, and its answer not looked at.
SwitchIgnored(p) ==
  /\ pc[p] = "switch"
  /\ Configured /\ Goto(p, "nonce")
  /\ UNCHANGED <<now, store, nonce, chosen, started, actions, dog, history>>

\* 1 and 2: engaged, unreadable or unconfigured, and the press is refused.
ReadSwitch(p) ==
  /\ pc[p] = "switch"
  /\ \/ ~killed /\ Configured /\ Goto(p, "nonce")
     \/ Goto(p, "done")
  /\ UNCHANGED <<now, store, nonce, chosen, started, actions, dog, history>>

NonceValid(p) ==
  /\ nonces[nonce[p]] = "live"
  /\ until[nonce[p]] > started[p]

\* Bug: the nonce is read and compared, and not deleted.
NonceRead(p) ==
  /\ pc[p] = "nonce"
  /\ \/ NonceValid(p) /\ Goto(p, "inflight")
     \/ Goto(p, "done")
  /\ UNCHANGED <<now, store, nonce, chosen, started, actions, dog, history>>

\* 3: one conditional delete, by the nonce alone.  A valid nonce is also lost
\* to a press whose answer was lost.
RedeemNonce(p) ==
  /\ pc[p] = "nonce"
  /\ \/ /\ NonceValid(p)
        /\ nonces' = [nonces EXCEPT ![nonce[p]] = "gone"]
        /\ Goto(p, "inflight") \/ Goto(p, "done")
     \/ /\ Goto(p, "done")
        /\ UNCHANGED nonces
  /\ UNCHANGED <<now, killed, until, count, lock, record, nonce, chosen, started,
                 actions, dog, history>>

\* What the Actions API lists as not finished, whoever dispatched it.  A run
\* appears there some time after its dispatch was accepted.
RunsInFlight ==
  \/ owner # "idle"
  \/ \E p \in Presses : run[p] \in {"queued", "running", "torn", "leaked"}

\* 4: a run in flight refuses, and so does an API that cannot answer.
AskInFlight(p) ==
  /\ pc[p] = "inflight"
  /\ \/ ~RunsInFlight /\ Goto(p, "lock")
     \/ Goto(p, "done")
  /\ UNCHANGED <<now, store, nonce, chosen, started, actions, dog, history>>

\* Bug: the put has no condition.
LockFreeUnasked(t) == TRUE

\* attribute_not_exists(pk) OR expires_at <= :now
LockFree(t) == \A l \in lock : l.expires_at <= t

\* Bug: a refused put is followed by the release every other refusal makes.
RefusalReleases(p) ==
  /\ pc[p] = "lock"
  /\ \/ /\ LockFree(started[p])
        /\ lock' = {[launch_id |-> chosen[p], expires_at |-> started[p] + TTL, by |-> p]}
        /\ Goto(p, "count")
     \/ /\ Goto(p, "release")
        /\ UNCHANGED lock
  /\ UNCHANGED <<now, killed, nonces, until, count, record, nonce, chosen, started,
                 actions, dog, history>>

\* 5: one conditional put.  A put that was applied is still refused when its
\* answer was lost, or when the SDK repeated it and met its own lock.
TakeLock(p) ==
  /\ pc[p] = "lock"
  /\ \/ /\ LockFree(started[p])
        /\ lock' = {[launch_id |-> chosen[p], expires_at |-> started[p] + TTL, by |-> p]}
        /\ Goto(p, "count") \/ Goto(p, "done")
     \/ /\ Goto(p, "done")
        /\ UNCHANGED lock
  /\ UNCHANGED <<now, killed, nonces, until, count, record, nonce, chosen, started,
                 actions, dog, history>>

\* Bug: a counter that cannot be written is taken for a launch within the cap.
CapFailsOpen(p) ==
  LET d == Day(started[p]) IN
  /\ pc[p] = "count"
  /\ count' \in {count, [count EXCEPT ![d] = IF @ < Cap THEN @ + 1 ELSE @]}
  /\ Goto(p, "dispatch")
  /\ UNCHANGED <<now, killed, nonces, until, lock, record, nonce, chosen, started,
                 actions, dog, history>>

\* 6: one conditional increment, charged to the day of the press's clock.  A
\* repeated increment charges twice; at the cap it is refused by itself.
IncrementDay(p) ==
  LET d == Day(started[p]) IN
  /\ pc[p] = "count"
  /\ \/ /\ count[d] < Cap
        /\ \E n \in {count[d] + 1, count[d] + 2} :
             n <= Cap /\ count' = [count EXCEPT ![d] = n]
        /\ Goto(p, "dispatch") \/ Goto(p, "release")
     \/ /\ Goto(p, "release")
        /\ UNCHANGED count
  /\ UNCHANGED <<now, killed, nonces, until, lock, record, nonce, chosen, started,
                 actions, dog, history>>

\* workflow_dispatch: a 204, an error, or an error for a run that was created.
Dispatch(p) ==
  /\ pc[p] = "dispatch"
  /\ \/ /\ run' = [run EXCEPT ![p] = "accepted"]
        /\ Goto(p, "done") \/ Goto(p, "undo")
     \/ /\ Goto(p, "undo")
        /\ UNCHANGED run
  /\ UNCHANGED <<now, store, nonce, chosen, started, expiry, owner, teardown, stage, dog, history>>

\* Whose unexpired lock is lost in this step to somebody else.
Rob(thief) ==
  robbed' = robbed \cup {[victim |-> l.by, thief |-> thief] :
                         l \in {m \in lock \ lock' : m.by # thief /\ m.expires_at > now}}

\* Bug: a dispatch that was reported as failed gives its launch back to the day.
FailureRefunded(p) ==
  LET d == Day(started[p]) IN
  /\ \/ pc[p] = "release" /\ Goto(p, "done") /\ UNCHANGED count
     \/ /\ pc[p] = "undo" /\ Goto(p, "failed")
        /\ count' = [count EXCEPT ![d] = @ - 1]
  /\ lock' = {} /\ Rob(p)
  /\ UNCHANGED <<now, killed, nonces, until, record, nonce, chosen, started,
                 actions, dog, asked, late>>

\* _release_quietly: the lock item is deleted, whoever holds it, or the error
\* is swallowed.
ReleaseQuietly(p) ==
  /\ \/ pc[p] = "release" /\ Goto(p, "done")
     \/ pc[p] = "undo" /\ Goto(p, "failed")
  /\ lock' \in {{}, lock} /\ Rob(p)
  /\ UNCHANGED <<now, killed, nonces, until, count, record, nonce, chosen, started,
                 actions, dog, asked, late>>

\* The invocation times out or its execution environment dies.
Crash(p) ==
  /\ pc[p] \in PressActive
  /\ Goto(p, "done")
  /\ UNCHANGED <<now, store, nonce, chosen, started, actions, dog, history>>

(***************************************************************************)
(* Runs of self-service.yml                                                *)
(***************************************************************************)
Advance(p, status) == run' = [run EXCEPT ![p] = status]

Retag(k, launch, expires) ==
  stage' = {r \in stage : r.kind # k}
             \cup {[kind |-> k, launch |-> launch, expires |-> expires]}

RunAppears(p) ==
  /\ run[p] = "accepted"
  /\ Advance(p, "queued")
  /\ UNCHANGED <<now, store, lambda, expiry, owner, teardown, stage, dog, history>>

\* concurrency: group self-service.  One run at a time, the others queue.
NothingRuns ==
  /\ owner # "running"
  /\ \A q \in Presses : run[q] \notin {"running", "torn", "leaked"}

\* The launch job computes the deadline its resources will carry.
RunStarts(p) ==
  /\ run[p] = "queued" /\ NothingRuns
  /\ Advance(p, "running")
  /\ expiry' = [expiry EXCEPT ![p] = now + TTL]
  /\ UNCHANGED <<now, store, lambda, owner, teardown, stage, dog, history>>

\* terraform apply creates one billable resource, or retags the one it finds.
RunApplies(p, k) ==
  /\ run[p] = "running"
  /\ Retag(k, chosen[p], expiry[p])
  /\ UNCHANGED <<now, store, lambda, run, expiry, owner, teardown, dog, history>>

\* The stage destroy job, which runs whatever happened before it.
RunDestroys(p) ==
  /\ run[p] = "running"
  /\ \/ Advance(p, "torn") /\ stage' = {}
     \/ Advance(p, "leaked") /\ UNCHANGED stage
  /\ UNCHANGED <<now, store, lambda, expiry, owner, teardown, dog, history>>

\* release-lock: only after a destroy that succeeded, and only a lock of this
\* launch id, whichever press took it; a call that fails is taken for a lock
\* that is not ours.
ReleaseLock(p) ==
  /\ \/ run[p] = "torn" /\ lock' \in {lock, {l \in lock : l.launch_id # chosen[p]}}
     \/ run[p] = "leaked" /\ UNCHANGED lock
  /\ Rob(p)
  /\ Advance(p, "finished")
  /\ UNCHANGED <<now, killed, nonces, until, count, record, lambda, expiry, owner,
                 teardown, stage, dog, asked, late>>

\* A startup failure, a force-cancel, a dead runner or GitHub being away: no
\* job of the run runs any more.
RunDies(p) ==
  /\ run[p] \in RunStatus \ {"none", "finished"}
  /\ Advance(p, "finished")
  /\ UNCHANGED <<now, store, lambda, expiry, owner, teardown, stage, dog, history>>

\* The owner's own cycle: no lock, no launch id, the same concurrency group.
OwnerDispatches ==
  /\ owner = "idle" /\ owner' = "queued"
  /\ UNCHANGED <<now, store, lambda, run, expiry, teardown, stage, dog, history>>

OwnerStarts ==
  /\ owner = "queued" /\ NothingRuns /\ owner' = "running"
  /\ UNCHANGED <<now, store, lambda, run, expiry, teardown, stage, dog, history>>

OwnerApplies(k) ==
  /\ owner = "running"
  /\ Retag(k, NoId, now + TTL)
  /\ UNCHANGED <<now, store, lambda, run, expiry, owner, teardown, dog, history>>

OwnerFinishes ==
  /\ owner = "running" /\ owner' = "idle"
  /\ stage' \in {{}, stage}
  /\ UNCHANGED <<now, store, lambda, run, expiry, teardown, dog, history>>

\* The destroy.yml run the watchdog asked for.
DestroyWorkflow ==
  /\ teardown /\ teardown' = FALSE
  /\ stage' \in {{}, stage}
  /\ UNCHANGED <<now, store, lambda, run, expiry, owner, dog, history>>

(***************************************************************************)
(* The watchdog Lambda                                                     *)
(***************************************************************************)
\* Bug: the owner's own environment is kept too.
EverythingAlive == stage

\* What observe() keeps: no Launch tag, no jurisdiction.
Alive == {r \in stage : r.launch # NoId}

DogGoto(w, step) == dog' = [dog EXCEPT ![w].pc = step]

\* The invocation is over: it returned, raised, timed out or died.
Return(w) == dog' = [dog EXCEPT ![w] = Asleep]

WakeUp(w) ==
  /\ dog[w].pc = "off"
  /\ dog' = [dog EXCEPT ![w] = [Asleep EXCEPT !.pc = "lock", !.started = now]]
  /\ UNCHANGED <<now, store, lambda, actions, history>>

\* The two reads; a store that cannot be read fails the invocation (Die).
ReadLock(w) ==
  /\ dog[w].pc = "lock"
  /\ dog' = [dog EXCEPT ![w].pc = "record", ![w].lock = lock]
  /\ UNCHANGED <<now, store, lambda, actions, history>>

ReadSweep(w) ==
  /\ dog[w].pc = "record"
  /\ dog' = [dog EXCEPT ![w].pc = "observe", ![w].record = record]
  /\ UNCHANGED <<now, store, lambda, actions, history>>

FirstEffect(d) ==
  CASE d.action = "dispatched_destroy" -> "dispatch"
    [] d.action = "blunt_teardown"     -> "delete"
    [] d.action = "released_stale_lock" -> "unlock"
    [] d.action = "none" /\ d.clear    -> "clear"
    [] OTHER -> "off"

\* observe() asks ECS, ELB and RDS one after the other.
Observe(w, k) ==
  /\ dog[w].pc = "observe" /\ k \notin dog[w].looked
  /\ dog' = [dog EXCEPT ![w].looked = @ \cup {k},
                        ![w].seen = @ \cup {r \in Alive : r.kind = k}]
  /\ UNCHANGED <<now, store, lambda, actions, history>>

\* decide_sweep, on what was read one thing after the other.
Decide(w) ==
  LET d == DecideSweep(dog[w].seen, dog[w].lock, dog[w].record, dog[w].started) IN
  /\ dog[w].pc = "observe" /\ dog[w].looked = Kinds
  /\ IF FirstEffect(d) = "off"
       THEN Return(w)
       ELSE dog' = [dog EXCEPT ![w] = [pc |-> FirstEffect(d), started |-> dog[w].started,
                                       lock |-> {}, record |-> {}, looked |-> {},
                                       seen |-> dog[w].seen, plan |-> d]]
  /\ UNCHANGED <<now, store, lambda, actions, history>>

\* Path 1.  Whether GitHub could be reached makes no difference here.
DispatchDestroy(w) ==
  /\ dog[w].pc = "dispatch"
  /\ teardown' \in {TRUE, teardown}
  /\ asked' = asked \cup {[scope |-> dog[w].plan.scope, at |-> dog[w].started]}
  /\ DogGoto(w, "note")
  /\ UNCHANGED <<now, store, lambda, run, expiry, owner, stage, robbed, late>>

\* The attempt is written down; an error fails the invocation, written or not.
NoteSweep(w) ==
  /\ dog[w].pc = "note"
  /\ record' \in {record, {[scope |-> dog[w].plan.scope, dispatched_at |-> dog[w].started,
                            ttl |-> dog[w].started + RecordTTL]}}
  /\ Return(w)
  /\ UNCHANGED <<now, killed, nonces, until, count, lock, lambda, actions, history>>

\* Path 2.  Each deletion may fail by itself.  The resources seen are deleted by
\* name, whichever launch has them by now; IAM spares the ones without a tag.
BluntTeardown(w) ==
  /\ dog[w].pc = "delete"
  /\ \E gone \in SUBSET {r.kind : r \in dog[w].seen} :
       stage' = {r \in stage : r.kind \notin gone \/ r.launch = NoId}
  /\ DogGoto(w, "unlock")
  /\ UNCHANGED <<now, store, lambda, run, expiry, owner, teardown, history>>

\* The lock item is deleted, whoever holds it by now, or the error is swallowed.
Unlock(w) ==
  /\ dog[w].pc = "unlock"
  /\ lock' \in {{}, lock} /\ Rob(w)
  /\ IF dog[w].plan.clear THEN DogGoto(w, "clear") ELSE Return(w)
  /\ UNCHANGED <<now, killed, nonces, until, count, record, lambda, actions, asked, late>>

ClearRecord(w) ==
  /\ dog[w].pc = "clear"
  /\ record' \in {{}, record}
  /\ Return(w)
  /\ UNCHANGED <<now, killed, nonces, until, count, lock, lambda, actions, history>>

Die(w) ==
  /\ dog[w].pc # "off"
  /\ Return(w)
  /\ UNCHANGED <<now, store, lambda, actions, history>>

(***************************************************************************)
(* The whole                                                               *)
(***************************************************************************)
LaunchStep(p) ==
  \/ Press(p) \/ ReadSwitch(p) \/ RedeemNonce(p) \/ AskInFlight(p) \/ TakeLock(p)
  \/ IncrementDay(p) \/ Dispatch(p) \/ ReleaseQuietly(p) \/ Crash(p)

RunStep(p) ==
  \/ RunAppears(p) \/ RunStarts(p) \/ (\E k \in Kinds : RunApplies(p, k))
  \/ RunDestroys(p) \/ ReleaseLock(p) \/ RunDies(p)

OwnerStep ==
  \/ OwnerDispatches \/ OwnerStarts \/ (\E k \in Kinds : OwnerApplies(k)) \/ OwnerFinishes

WatchdogStep(w) ==
  \/ WakeUp(w) \/ ReadLock(w) \/ ReadSweep(w) \/ (\E k \in Kinds : Observe(w, k)) \/ Decide(w)
  \/ DispatchDestroy(w) \/ NoteSweep(w) \/ BluntTeardown(w) \/ Unlock(w) \/ ClearRecord(w) \/ Die(w)

StoreStep ==
  \/ EngageKillSwitch \/ ReapRecord
  \/ \E i \in Nonces : AskForNonce(i) \/ IssueNonce(i) \/ ReapNonce(i)

Next ==
  \/ Tick \/ StoreStep \/ OwnerStep \/ DestroyWorkflow
  \/ \E p \in Presses : LaunchStep(p) \/ RunStep(p)
  \/ \E w \in Watchdogs : WatchdogStep(w)

Spec == Init /\ [][Next]_vars

(***************************************************************************)
(* What must not happen                                                    *)
(***************************************************************************)
\* The daily cap (control.py:312-332, 197-199): however presses interleave,
\* crash or lose answers, no day starts more public runs than it was charged
\* for, and none is charged more than the cap.
RunsOf(d) == {p \in Presses : run[p] # "none" /\ Day(started[p]) = d}
RunsWithinCap ==
  \A d \in Days : Cardinality(RunsOf(d)) <= count[d] /\ count[d] <= Cap

\* A nonce buys one run (store_dynamodb.py:50-73): two presses of the same page
\* never both reach GitHub, whatever launch ids they carry.
NonceBuysOneRun ==
  \A p, q \in Presses :
    p # q /\ run[p] # "none" /\ run[q] # "none" => nonce[p] # nonce[q]

\* One run at a time among the endpoint's own launches (control.py:282-286):
\* two of its runs are unfinished together only if the lock of one expired, its
\* dispatch was reported as failed, or its live lock was deleted by another.
Unfinished(p) == run[p] \notin {"none", "finished"}
Protected(p) == /\ pc[p] # "failed"
                /\ now < started[p] + TTL
Victims == {x.victim : x \in robbed}
OneLaunchAtATime ==
  \A p, q \in Presses :
    p # q /\ Unfinished(p) /\ Unfinished(q) /\ Protected(p) /\ Protected(q)
      => p \in Victims \/ q \in Victims

\* A press refused at the cap releases its own lock and nobody else's
\* (control.py:315-317): live locks are deleted by others only once a watchdog
\* did so, or a press whose dispatch was reported as failed while GitHub had
\* started its run, or the run of a launch id that was pressed twice.
SameId(p, q) == chosen[p] = chosen[q]
RefusalSparesOthers ==
  robbed # {} =>
    \E x \in robbed :
      \/ x.thief \in Watchdogs
      \/ /\ x.thief \in Presses /\ run[x.thief] # "none"
         /\ pc[x.thief] = "failed" \/ SameId(x.thief, x.victim)

\* Never a blunt teardown of something nobody asked Actions about a grace
\* period ago (sweep.py:164-171), whatever was read stale on the way.
BluntOnlyAsked ==
  \A w \in Watchdogs :
    dog[w].pc = "delete" =>
      \E a \in asked : a.scope = dog[w].plan.scope /\ dog[w].started - a.at >= Grace

\* A launch inside the lifetime of its lock is left alone (sweep.py:136-144):
\* the watchdog moves against it alone only if its live lock was deleted by
\* another, another launch was started with its id, its dispatch was reported as
\* failed, or the watchdog's clock, read before everything else, was within an
\* invocation's length of either end of that lifetime: it may have read the lock
\* before the press took it, or after it had expired and the next press had
\* taken and released its own.
MovesAgainst(w, p) == /\ dog[w].pc \in {"dispatch", "note", "delete"}
                      /\ dog[w].plan.scope = {chosen[p]}
InItsLifetime(w, p) == /\ dog[w].started > started[p] + LambdaTimeout
                       /\ dog[w].started + LambdaTimeout < started[p] + TTL
OwnsId(p) == \A q \in Presses \ {p} : run[q] # "none" => ~SameId(p, q)
HealthyLeftAlone ==
  \A w \in Watchdogs, p \in Presses :
    MovesAgainst(w, p) /\ run[p] # "none" /\ pc[p] # "failed" /\ InItsLifetime(w, p)
      => p \in Victims \/ ~OwnsId(p)

\* The kill switch stops the next run (control.py:209-212, 346-373): once it is
\* engaged, a press that has not read it yet never becomes a run.
SwitchStopsNext == \A p \in late : run[p] = "none"

\* The whole of it implements the promise about spending (ADR-0035).
Admitted == {[nonce |-> nonce[p], day |-> Day(started[p])] :
               p \in {q \in Presses : run[q] # "none"}}
Quota == INSTANCE LaunchQuota WITH launches <- Admitted
QuotaSpec == Quota!Spec

(***************************************************************************)
(* What the comments say and the code does not do                          *)
(***************************************************************************)
\* "The records are dropped only after the thing they were guarding has been
\* dealt with" (watchdog_handler.py:135-136): the watchdog never deletes the
\* unexpired lock of a launch that is still going on.  The delete is
\* unconditional, so it also hits a launch that took an expired lock over.
WatchdogKeepsLiveLocks ==
  \A x \in robbed :
    x.thief \in Watchdogs => ~(Unfinished(x.victim) /\ Protected(x.victim))

\* A launch id is "generated HERE rather than accepted from the caller", so that
\* it "cannot be chosen by a stranger" (launch_handler.py:139-140): a launch id
\* names one run.  The id a page was given comes back in the POST, and nothing
\* compares the two.
LaunchIdsDistinct ==
  \A p, q \in Presses :
    p # q /\ run[p] # "none" /\ run[q] # "none" => ~SameId(p, q)

\* And its consequence: the watchdog never moves against a launch inside its
\* lifetime alone (sweep.py:136-144), whoever has pressed with its id before.
HealthyWhateverId ==
  \A w \in Watchdogs, p \in Presses :
    MovesAgainst(w, p) /\ run[p] # "none" /\ pc[p] # "failed" /\ InItsLifetime(w, p)
      => p \in Victims

\* The lock is "the record that a launch is in flight, with the same deadline"
\* as the ExpiresAt tags (watchdog_handler.py:19-20).  The lock counts from the
\* press, the tags from the start of the launch job.
SameDeadline ==
  \A r \in stage, l \in lock : r.launch = l.launch_id => r.expires = l.expires_at

\* "The lock has been released; nothing was created" (launch_handler.py:248-249)
\* is the answer to every failed dispatch.
FailureMeansNothing ==
  \A p \in Presses : pc[p] = "failed" => run[p] = "none" /\ \A l \in lock : l.by # p

=============================================================================
