---------------------------- MODULE ItemDelivery ----------------------------
(***************************************************************************)
(* What a client of the item API may rely on about the asynchronous side   *)
(* (ADR-0096, ADR-0098).  Work is done for an item that was created, once: *)
(* the first receipt stands.  What the API shows about the work is that    *)
(* receipt, it never changes while the item exists, and it goes with it.   *)
(***************************************************************************)
CONSTANTS Items, Receipts, None

VARIABLES
  row,    \* each item: not created yet, stored, or deleted
  work,   \* the receipt of the work done for it
  shown   \* what the API shows of it

vars == <<row, work, shown>>

Init ==
  /\ row = [i \in Items |-> "none"]
  /\ work = [i \in Items |-> None]
  /\ shown = [i \in Items |-> None]

Create(i) ==
  /\ row[i] = "none"
  /\ row' = [row EXCEPT ![i] = "stored"]
  /\ UNCHANGED <<work, shown>>

\* An item may be deleted before its work is done; the work is done all the same.
Work(i, r) ==
  /\ row[i] # "none" /\ work[i] = None
  /\ work' = [work EXCEPT ![i] = r]
  /\ UNCHANGED <<row, shown>>

Show(i) ==
  /\ row[i] = "stored" /\ shown[i] = None /\ work[i] # None
  /\ shown' = [shown EXCEPT ![i] = work[i]]
  /\ UNCHANGED <<row, work>>

Delete(i) ==
  /\ row[i] = "stored"
  /\ row' = [row EXCEPT ![i] = "deleted"]
  /\ shown' = [shown EXCEPT ![i] = None]
  /\ UNCHANGED work

Next == \E i \in Items : Create(i) \/ (\E r \in Receipts : Work(i, r)) \/ Show(i) \/ Delete(i)

Spec == Init /\ [][Next]_vars
=============================================================================
