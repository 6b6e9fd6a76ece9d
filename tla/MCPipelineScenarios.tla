------------------------ MODULE MCPipelineScenarios ------------------------
(* Two small instances of ItemPipeline and one of ItemsApi share a run, and *)
(* the initial state picks one: "replicas" is about batches of two items in *)
(* the hands of two replicas, "poison" about one item, never deleted, among *)
(* bodies nobody can parse, "requests" about two writers and a reader of    *)
(* the list.  What a scenario is not about stays as it began.               *)
EXTENDS ItemPipeline, ItemsApi, TLC

VARIABLE scenario

Symmetry == Permutations(Apis) \cup Permutations(Workers)

\* Bounds: of the three ids one or more are free, names are apart, nothing is
\* described yet.
SomeItems ==
  /\ lastId <= 2
  /\ \A i \in DOMAIN items : items[i] \in [name : {2, 3}, description : {Null}]

Scenarios ==
  /\ \E begun \in {"replicas", "poison", "requests"} :
       /\ scenario = begun /\ Init /\ ApiInit
       /\ IF begun = "requests" THEN SomeItems ELSE items = << >>
  /\ [][\/ scenario # "requests" /\ Next /\ UNCHANGED <<scenario, apiVars>>
        \/ scenario = "requests" /\ ApiNext /\ UNCHANGED <<scenario, vars>>]_<<vars, scenario, apiVars>>

\* Bounds: of the items of "replicas" one may be deleted; one replica relays and
\* consumes in "poison".
Idle(a) == rows[a] = {} /\ inbox[a] = {} /\ done[a] = None /\ up[a]

\* Bound: descriptions come by PATCH, and alone.
Plain == \A r \in Requests :
  "description" \in DOMAIN req[r].sent =>
    \/ "name" \notin DOMAIN req[r].sent
    \/ req[r].sent.description = Null /\ req[r].pc # "patch"

Bounds ==
  CASE scenario = "replicas" ->
         /\ \A j \in Junk : Sent(mail, j) = {} /\ Sent(report, j) = {}
         /\ \A i \in Items : row[i] = "deleted" => i = 1
    [] scenario = "poison" ->
         /\ \A i, j \in Items : row[j] # "none" => j <= i /\ row[j] = "stored"
         /\ \E a \in Apis : \A b \in Apis \ {a} : Idle(b)
    [] scenario = "requests" -> Plain
=============================================================================
