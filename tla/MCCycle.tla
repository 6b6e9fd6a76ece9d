------------------------------ MODULE MCCycle ------------------------------
(* Three instances of Cycle in one run; the initial state picks one.       *)
(* "graph": one cycle and its lab, with losses and cancellations.          *)
(* "next": a cycle dispatched behind another one, without the lab.         *)
(* "owner": a promotion of the owner's beside a cycle's.                   *)
EXTENDS Cycle, TLC

VARIABLE scenario

ScenarioInit == Init /\ scenario \in {"graph", "next", "owner"}
Scenarios    == ScenarioInit /\ [][Next /\ UNCHANGED scenario]_<<vars, scenario>>

MCTag == [p \in Promotions |-> IF p = 1 THEN "r1" ELSE IF p = 2 THEN "r2" ELSE "r0"]

Alone(c) == \A d \in Cycles \ {c} : ~Started(d)
Kept(r)  == \A s \in Services : r \in images[s]
Short(p) == at[p] \notin {"reapply", "reapplying", "prove"}
Calm     == /\ lost = 0 /\ cancelled = {} /\ standing["lab"] = {}
            /\ \A c \in Cycles : "failure" \notin {job[c]["launch"], job[c]["hold"]}
Armed    == DOMAIN pointer = Services

Bounds ==
  CASE scenario = "graph" -> Armed /\ Alone(1) /\ at[3] = "idle" /\ Kept("r0") /\ Short(1)
    [] scenario = "next"  -> Armed /\ Calm /\ at[3] = "idle" /\ Kept("r0") /\ Short(1) /\ Short(2)
    [] scenario = "owner" -> Calm /\ Alone(1) /\ job[1]["destroy"] # "failure"

\* The lab shares nothing with the other jobs of its cycle, and runs after
\* them; images expire before the promotions, and the owner tears down by hand
\* in "graph" only.
StepBounds ==
  /\ \A c \in Cycles : job'[c]["lab"] = "running" =>
       \A j \in {"promote", "destroy", "hold", "destroy_prod"} : job[c][j] \in Finished
  /\ \A s \in Services : images[s] \subseteq images'[s] \/ (~Started(1) /\ at[3] = "idle")
  /\ scenario = "graph" \/ job # job' \/ (\A e \in DOMAIN standing : standing[e] \subseteq standing'[e])

Symmetry == Permutations(Services)
=============================================================================
