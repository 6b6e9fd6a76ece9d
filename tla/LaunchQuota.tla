---------------------------- MODULE LaunchQuota ----------------------------
(***************************************************************************)
(* What the public button promises about spending (ADR-0035): a nonce      *)
(* starts at most one run, and no day starts more runs than its cap,       *)
(* however many visitors press, and whatever fails on the way.             *)
(***************************************************************************)
EXTENDS Integers, FiniteSets

CONSTANTS Nonces, Days, Cap

VARIABLE launches      \* the runs started so far: [nonce, day]

OfDay(d) == {l \in launches : l.day = d}

Init == launches = {}

Admit(n, d) ==
  /\ \A l \in launches : l.nonce # n
  /\ Cardinality(OfDay(d)) < Cap
  /\ launches' = launches \cup {[nonce |-> n, day |-> d]}

Next == \E n \in Nonces, d \in Days : Admit(n, d)

Spec == Init /\ [][Next]_launches
=============================================================================
