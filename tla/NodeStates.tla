----------------------------- MODULE NodeStates -----------------------------
(***************************************************************************)
(* scripts/node-states.py: the join of a folded timeline onto the nodes of *)
(* the map.  A resource belongs to exactly one of a node, the teardown     *)
(* node, a group the map does not draw, the data sources, or nothing.      *)
(*                                                                         *)
(* Topology is site/data/topology.json as the join reads it: the estate    *)
(* (nodes with their members), the cycle's verb nodes, the touches of its  *)
(* phases and the groups not shown.  Base strips every index of an address.*)
(***************************************************************************)
EXTENDS Timeline

CONSTANTS
  Topology,   \* [estate, verbs, touches, hidden], sets of records
  Base        \* address -> the address its members are listed under

\* What was RUN decides the kind, never what was reached.
CycleKind(timeline) ==
  IF \E i \in DOMAIN timeline.ops : timeline.ops[i].command = "destroy"
  THEN "destroy" ELSE "apply"

EstateNodes(environment) == {n \in Topology.estate : n.env = environment}

\* The nodes whose members list this base address: one, or none.
NodesOf(environment, base) ==
  {n.id : n \in {m \in EstateNodes(environment) : base \in m.members}}

\* The teardown node: a verb node, and one per environment.
DestroyNodes(environment) ==
  {v.id : v \in {w \in Topology.verbs : w.service = "destroy" /\ w.env = environment}}

\* The phases that draw a node: the phase a verb node is listed under, or
\* the phase whose touch of an estate node says "creates".
PhasesOf(environment, node) ==
  {v.phase : v \in {w \in Topology.verbs : w.id = node /\ w.env = environment}}
  \cup {t.phase : t \in {u \in Topology.touches :
          u.node = node /\ u.verb = "creates"
          /\ node \in {n.id : n \in EstateNodes(environment)}}}

\* Where one action on one address is counted.  A delete belongs to the
\* teardown node, which stands for a whole level.
PlaceOf(environment, address, action) ==
  IF action = "delete" THEN DestroyNodes(environment) ELSE NodesOf(environment, Base[address])

Observations(timeline) ==
  UNION {{<<i, a>> : a \in DOMAIN timeline.ops[i].resources} : i \in DOMAIN timeline.ops}
Announcements(timeline) ==
  UNION {{<<i, a>> : a \in DOMAIN timeline.ops[i].planned} : i \in DOMAIN timeline.ops}

RecordOf(timeline, w)  == timeline.ops[w[1]].resources[w[2]]
PlannedOf(timeline, w) == timeline.ops[w[1]].planned[w[2]]

\* The four buckets of what was observed, and the nodes of the first.
Bucket(timeline, w) ==
  LET r == RecordOf(timeline, w)
  IN  IF r.action = "read" THEN "read"
      ELSE IF PlaceOf(timeline.environment, w[2], r.action) # {} THEN "matched"
      ELSE IF Base[w[2]] \in Topology.hidden THEN "not_shown" ELSE "unknown"

Collected(timeline, node) ==
  {w \in Observations(timeline) :
     LET r == RecordOf(timeline, w)
     IN  r.action # "read" /\ node \in PlaceOf(timeline.environment, w[2], r.action)}

\* The deletes again, by the noun they take away.
Deleting(timeline, node) ==
  {w \in Observations(timeline) :
     RecordOf(timeline, w).action = "delete"
     /\ node \in NodesOf(timeline.environment, Base[w[2]])}

\* Bugs: a join that has no denominator (it had none before ADR-0086).
PlannedCountUnread(timeline, node)    == None
DeletingPlannedUnread(timeline, node) == None

\* What the plans said a node would get, or lose.  None is a stream that
\* carried no plan; zero is a plan that held nothing for this node.
PlannedCount(timeline, node) ==
  IF Announcements(timeline) = {} THEN None
  ELSE Cardinality({w \in Announcements(timeline) :
         LET action == PlannedOf(timeline, w)
         IN  action # "read" /\ node \in PlaceOf(timeline.environment, w[2], action)})

DeletingPlanned(timeline, node) ==
  LET deletes == {w \in Announcements(timeline) :
                    PlannedOf(timeline, w) = "delete"
                    /\ NodesOf(timeline.environment, Base[w[2]]) # {}}
  IN  IF deletes = {} THEN None
      ELSE Cardinality({w \in deletes : node \in NodesOf(timeline.environment, Base[w[2]])})

\* The span of a set of records, None where an end is missing.
Starts(timeline, ws) == {RecordOf(timeline, w).started : w \in ws} \ {None}
Ends(timeline, ws)   == {RecordOf(timeline, w).finished : w \in ws} \ {None}
HasSpan(timeline, ws) == Starts(timeline, ws) # {} /\ Ends(timeline, ws) # {}

\* A node is done when as many instances finished as the run said it would
\* touch, and nothing of it is in flight.
Reading(timeline, ws, planned) ==
  LET done == Cardinality({w \in ws : RecordOf(timeline, w).status = "complete"})
  IN  [state    |-> IF done = Cardinality(ws) /\ (planned = None \/ done >= planned)
                    THEN "measured" ELSE "incomplete",
       duration |-> IF HasSpan(timeline, ws)
                    THEN Max(Ends(timeline, ws)) - Min(Starts(timeline, ws)) ELSE None,
       observed |-> Cardinality(ws),
       complete |-> done,
       planned  |-> planned]

NodeIds(environment) == {n.id : n \in EstateNodes(environment)} \cup DestroyNodes(environment)

\* A phase is busy from the first start to the last finish among all the
\* nodes it draws that have both ends.
PhaseSpans(timeline) ==
  LET timed  == {n \in NodeIds(timeline.environment) : HasSpan(timeline, Collected(timeline, n))}
      nodesIn(p) == {n \in timed : p \in PhasesOf(timeline.environment, n)}
      inside(p)  == UNION {Collected(timeline, n) : n \in nodesIn(p)}
  IN  [p \in UNION {PhasesOf(timeline.environment, n) : n \in timed} |->
         [started  |-> Min(Starts(timeline, inside(p))),
          finished |-> Max(Ends(timeline, inside(p))),
          nodes    |-> Cardinality(nodesIn(p))]]

Join(timeline) ==
  LET shown    == {n \in NodeIds(timeline.environment) : Collected(timeline, n) # {}}
      going    == {n \in NodeIds(timeline.environment) : Deleting(timeline, n) # {}}
      inBucket(b) == {w \in Observations(timeline) : Bucket(timeline, w) = b}
      distinct(b) == {w[2] : w \in inBucket(b)}
  IN  [environment |-> timeline.environment,
       run      |-> timeline.run,
       kind     |-> CycleKind(timeline),
       status   |-> timeline.status,
       nodes    |-> [n \in shown |-> Reading(timeline, Collected(timeline, n), PlannedCount(timeline, n))],
       deleting |-> [n \in going |-> Reading(timeline, Deleting(timeline, n), DeletingPlanned(timeline, n))],
       matched  |-> Cardinality(inBucket("matched")),
       notShown |-> distinct("not_shown"),
       read     |-> distinct("read"),
       unknown  |-> distinct("unknown"),
       phases   |-> PhaseSpans(timeline)]
=============================================================================
