--------------------------- MODULE MCItemPipeline ---------------------------
(* Small instances of ItemPipeline.                                        *)
EXTENDS ItemPipeline, TLC

Symmetry == Permutations(Apis) \cup Permutations(Workers)

\* Bound: poison comes before the first item and without a fault.
PoisonAlone ==
  \A j \in Junk : Sent(mail, j) \cup Sent(report, j) # {} =>
    faults = 0 /\ \A i \in Items : row[i] = "none"
=============================================================================
