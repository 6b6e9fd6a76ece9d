------------------------------- MODULE Sweep -------------------------------
(***************************************************************************)
(* The watchdog's decision (infra/self-service/src/sweep.py), a pure       *)
(* function of what is alive, the launch lock, the watchdog's own record   *)
(* and the time.                                                           *)
(*                                                                         *)
(* An item of the control table that may be absent is a set of at most one *)
(* record.  A billable resource is [kind, launch, expires]: its Launch and *)
(* ExpiresAt tags.  A missing or unparseable ExpiresAt is the deadline 0,  *)
(* which has passed at any time.                                           *)
(***************************************************************************)
EXTENDS Integers

CONSTANT Grace      \* LOCK_GRACE_MINUTES: from the polite request to the blunt path

ASSUME GraceAssumption == Grace \in Nat

\* A lock older than its deadline is not a lock.
LockIsExpired(lock, t) == \E l \in lock : l.expires_at <= t

\* Bug: the comparison the wrong way round.
DeadlineAhead(r, t) == r.expires >= t

DeadlinePassed(r, t) == r.expires <= t

\* The launch ids a situation is about.
ScopeOf(alive) == {r.launch : r \in alive}

\* Bug: the attempt remembered, and what it was about not compared.
AskedForAnything(record, scope) == record

\* Where the record says, for this very scope, that Actions was already asked.
AskedFor(record, scope) == {r \in record : r.scope = scope}

\* The decision: what to do about which scope, and whether the watchdog's own
\* record is dropped afterwards.  The lock is released by exactly two actions.
Decision(action, scope, clear) == [action |-> action, scope |-> scope, clear |-> clear]

Idle == Decision("none", {}, FALSE)

TidyUp(lock, record, t) ==
  Decision(IF LockIsExpired(lock, t) THEN "released_stale_lock" ELSE "none",
           {}, record # {})

Overdue(alive, lock, t) ==
  \/ \E r \in alive : DeadlinePassed(r, t)
  \/ LockIsExpired(lock, t)
  \/ lock = {}

DecideSweep(alive, lock, record, t) ==
  LET scope == ScopeOf(alive)
      asked == AskedFor(record, scope)
  IN  CASE alive = {} -> TidyUp(lock, record, t)
        [] alive # {} /\ ~Overdue(alive, lock, t) ->
             Decision("within_deadline", scope, FALSE)
        [] alive # {} /\ Overdue(alive, lock, t) /\ asked = {} ->
             Decision("dispatched_destroy", scope, FALSE)
        [] alive # {} /\ Overdue(alive, lock, t)
             /\ (\E r \in asked : t - r.dispatched_at < Grace) ->
             Decision("waiting_for_destroy", scope, FALSE)
        [] OTHER -> \* asked a grace period ago, and the environment is still there
             Decision("blunt_teardown", scope, TRUE)

Actions == {"none", "released_stale_lock", "within_deadline",
            "dispatched_destroy", "waiting_for_destroy", "blunt_teardown"}

=============================================================================
