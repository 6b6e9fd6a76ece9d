-------------------------- MODULE MCLaunchControl --------------------------
(* Small instances of LaunchControl.                                       *)
EXTENDS LaunchControl, TLC

Symmetry == Permutations(Presses) \cup Permutations(Nonces) \cup Permutations(Ids)
              \cup Permutations(Kinds)

\* Bounds: cycles of the owner and the budget alarm stay out of the run; a run is
\* listed in the interval of its press and starts no later than in the next; a
\* press that left neither a run nor a lock is not followed any further.
OnlyPublic ==
  /\ owner = "idle" /\ ~killed
  /\ \A p \in Presses :
       /\ run[p] = "accepted" => now = started[p]
       /\ run[p] = "queued" => now <= started[p] + 1
       /\ pc[p] = "done" => run[p] # "none" \/ \E l \in lock : l.by = p

\* A state the system reaches by GETs alone: every nonce has been issued, and
\* stays valid for the whole run when NonceTTL exceeds MaxTime.
IssuedInit == AtRest /\ nonces = [i \in Nonces |-> "live"] /\ until = [i \in Nonces |-> NonceTTL]

AtMostOne(S) == \A x, y \in S : x = y
Apart(f) == \A p, q \in Presses : p # q => f[p] # f[q]

\* Nobody presses twice on one page: the page of a press, its nonce and its launch
\* id are called like the press, which makes them one under Symmetry.  Every
\* press carries its page's own launch id, or all carry one that is no page's.
OwnNoncesInit ==
  /\ IssuedInit
  /\ nonce = [p \in Presses |-> p]
  /\ chosen = [p \in Presses |-> p] \/ chosen \in [Presses -> Ids \ Presses]
OwnNoncesSpec == OwnNoncesInit /\ [][Next]_vars

\* And every press carries the launch id its page was given.
OwnPagesInit == OwnNoncesInit /\ Apart(chosen)
OwnPagesSpec == OwnPagesInit /\ [][Next]_vars

\* Bounds of a run that asks two questions.  Where all pages are one, a single
\* press meets the watchdog, the resources, the owner's cycles and the switch;
\* where no two nonces are the same the presses are among themselves, and two
\* or three of them carry one launch id.
OnePage == AtMostOne({nonce[p] : p \in Presses}) /\ AtMostOne({chosen[p] : p \in Presses})
TwoQuestionsInit == IssuedInit /\ (OnePage \/ Apart(nonce))
TwoQuestionsSpec == TwoQuestionsInit /\ [][Next]_vars
TwoQuestions ==
  IF OnePage
    THEN /\ AtMostOne({p \in Presses : pc[p] # "idle"})
         /\ \A p \in Presses : pc[p] \in PressActive => started[p] = now
         /\ \A w \in Watchdogs : dog[w].pc # "off" => dog[w].started = now
    ELSE /\ owner = "idle" /\ ~killed /\ stage = {}
         /\ \A w \in Watchdogs : dog[w].pc = "off"
=============================================================================
