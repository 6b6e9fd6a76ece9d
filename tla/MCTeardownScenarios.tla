------------------------ MODULE MCTeardownScenarios ------------------------
(* Three instances of Teardown in one run; the initial state picks one.    *)
(* "writers" is about the state lock: two orphans claim one address, the   *)
(* devbox takes part, and no teardown is run again.  "leftovers" is about  *)
(* what a green teardown leaves of a role and of what hangs on it, and     *)
(* "bills" about a database, which the verification lists: teardowns are   *)
(* run again, and no call of theirs fails.                                 *)
EXTENDS MCTeardown

VARIABLE scenario

Scenarios == /\ Init /\ scenario \in {"writers", "leftovers", "bills"}
             /\ [][Next /\ UNCHANGED scenario]_<<vars, scenario>>

Bounds ==
  /\ live \subseteq CASE scenario = "writers"   -> {"vpc1", "vpc2"}
                      [] scenario = "leftovers" -> {"role", "policy"}
                      [] scenario = "bills"     -> {"db"}
  /\ scenario # "writers" => \A k \in Desks : pc[k] = "idle"

Symmetry == Permutations(LockIds)

StepBounds ==
  IF scenario = "writers"
    THEN \A d \in Destroys : pc'[d] = "break" => pc[d] \in {"idle", "break"}
    ELSE \A d \in Destroys : pc[d] = "ask" /\ pc'[d] = "verify" => OthersInProgress(d)
=============================================================================
