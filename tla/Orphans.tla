------------------------------- MODULE Orphans -------------------------------
(***************************************************************************)
(* The two decisions of a teardown, as pure operators:                     *)
(*   scripts/sweep_orphans.py   which live resources are not in the state  *)
(*   scripts/adopt_orphans.py   which of them becomes which Terraform      *)
(*                              address, and what travels with it          *)
(* An ARN is a member of Resource; what the code parses out of it and out  *)
(* of its tags is the record Arn[r]:                                       *)
(*   kind  service:kind; name  the name with this environment's prefix     *)
(*   taken off (a name with another prefix is a name no table has);        *)
(*   named  whether it has a Name tag; tail  the ARN after its last : or / *)
(***************************************************************************)
EXTENDS FiniteSets

CONSTANTS
  Resource,       \* what may exist in AWS for one environment
  Arn,            \* see above
  StateId,        \* StateId[r]: the id Terraform's state holds for r
  Rules,          \* RULES: kind -> [fromTag, addresses: name -> address]
  IndexedKinds,   \* INDEXED_KINDS: counted, so no address can be told
  UnindexedKinds, \* UNINDEXED_KINDS: the tagging API does not know them
  Dependents,     \* DEPENDENTS: address -> addresses imported with it
  Wired           \* the modules infra/envs/<env>/main.tf instantiates

----------------------------------------------------------------------------
(* sweep_orphans.py *)

\* What Terraform's state names its resources by.
Identifiers(state) == {StateId[m] : m \in state}

\* Terraform holds r, or some resource whose id is the tail of r's ARN.
IsManaged(r, state) == r \in state \/ Arn[r].tail \in Identifiers(state)

\* A silent channel refuses before anything is counted; what could not be
\* checked makes the verdict as red as what was found.
DecideSweep(discovered, silent, state, present, unconfirmed) ==
  LET orphans == {r \in discovered \cap present : ~IsManaged(r, state)} IN
  [verdict |-> IF silent THEN "refuse"
               ELSE IF orphans \cup unconfirmed # {} THEN "orphans"
               ELSE "clean",
   orphans |-> IF silent THEN {} ELSE orphans]

----------------------------------------------------------------------------
(* adopt_orphans.py *)

\* Bug: discovery by the tagging API alone, as before ADR-0041.
TagsOnly == {}

\* The names the configuration will need, of the kinds nothing discovers.
Declared ==
  {r \in Resource : /\ Arn[r].kind \in UnindexedKinds
                    /\ Arn[r].name \in DOMAIN Rules[Arn[r].kind].addresses
                    /\ Rules[Arn[r].kind].addresses[Arn[r].name].module \in Wired}

HasAddress(r) ==
  LET a == Arn[r] IN
  /\ a.kind \notin IndexedKinds
  /\ a.kind \in DOMAIN Rules
  /\ Rules[a.kind].fromTag => a.named
  /\ a.name \in DOMAIN Rules[a.kind].addresses

Address(r) == Rules[Arn[r].kind].addresses[Arn[r].name]

DependentsOf(adopt) ==
  UNION {Dependents[Address(r)] : r \in {s \in adopt : Address(s) \in DOMAIN Dependents}}

\* Bug: a parent is adopted and what hangs on it is left behind.
PlanAlone(orphans) ==
  LET adopt == {r \in orphans : HasAddress(r)} IN
  [adopt |-> adopt, dependents |-> {}, unadoptable |-> orphans \ adopt]

\* Two claimants of one address: neither is adopted, and their dependents
\* stay behind with them.
Plan(orphans) ==
  LET mapped == {r \in orphans : HasAddress(r)}
      adopt == {r \in mapped :
                  \A s \in mapped \ {r} : Address(s) # Address(r)}
  IN [adopt |-> adopt,
      dependents |-> DependentsOf(adopt),
      unadoptable |-> orphans \ adopt]
=============================================================================
