---------------------------- MODULE MCRepository ----------------------------
(* Each tool of Repository over a small repository of its own.  The tools   *)
(* share no state, so an initial state picks one of them, and the others    *)
(* stay as they began.                                                      *)
EXTENDS Repository

VARIABLE tool

-----------------------------------------------------------------------------
(* Two cycle levels, one of which calls a service module up to twice under   *)
(* two tiles, a permanent level, and a rule shown in one level and hidden in *)
(* the other.                                                                *)
MCLevels == {"stage", "lab", "dns"}
MCCycleLevels == {"stage", "lab"}
MCKindOf == [api |-> "node", web |-> "node", hid |-> "hidden"]
MCGroups == DOMAIN MCKindOf
MCCalls == {<<"stage", "a", "service">>, <<"stage", "w", "service">>}
MCBlocks == {<<"service", "role">>, <<"stage", "rule">>, <<"lab", "rule">>}
MCMayAssign == {
    <<<<"service", "-", "role">>, "api">>, <<<<"service", "-", "role">>, "hid">>,
    <<<<"service", "a", "role">>, "api">>, <<<<"service", "w", "role">>, "web">>,
    <<<<"stage", "-", "rule">>, "web">>, <<<<"lab", "-", "rule">>, "hid">>}

\* Two workflow files of up to three jobs and two steps, two bindings, and
\* display names on a job that no binding is about and on one that a binding is.
MCBindings == {[workflow |-> "cycle", job |-> "up", steps |-> {"apply"}],
               [workflow |-> "cycle", job |-> "down", steps |-> {"destroy"}]}
MCMayName == {<<"cycle", "other", "Tidy up">>, <<"cycle", "up", "Start">>}

\* One api test, two database checks, a smoke test, two regression tests, and
\* what an edit may do to them.
Test(title, path) == [title |-> title, path |-> path]
Smoke == Test("opens", <<"smoke">>)
Edits == Test("edits", <<"regression">>)
Pages == Test("pages", <<"regression">>)
Base == [api |-> {"create"}, db |-> <<"table", "row">>, localDb |-> <<"table", "row">>,
         specs |-> {Smoke, Edits}]
MCRepos == {
    Base,
    [Base EXCEPT !.db = <<"table">>, !.localDb = <<"table">>, !.specs = {Smoke, Pages}],
    [Base EXCEPT !.specs = {Smoke, Pages}],
    [Base EXCEPT !.localDb = <<"table">>],
    [Base EXCEPT !.specs = {Smoke, Edits, Test("stray", <<"lab">>)}],
    [Base EXCEPT !.specs = {Smoke, Edits, Test("stray", <<"lab", "smoke">>)}],
    [Base EXCEPT !.specs = {Smoke, Edits, Pages}]}
MCAttempts == {<<"passed">>, <<"failed", "passed">>, <<"failed", "failed">>,
               <<"skipped">>, <<"interrupted">>, <<>>}

\* A gate by its name, a scan that only ci.yml names, and rows of every kind.
Row(local, step, needs, requires) ==
    [local |-> local, step |-> step, needs |-> needs, requires |-> requires]
MCCiLines == {<<"gates">>, <<"image-scan">>, <<"page-check">>}
MCEntries == {Row(TRUE, FALSE, FALSE, {}), Row(FALSE, TRUE, TRUE, {}),
              Row(FALSE, FALSE, TRUE, {"docker"}), Row(FALSE, FALSE, TRUE, {"docker", "app"}),
              Row(FALSE, FALSE, TRUE, {}), Row(FALSE, FALSE, FALSE, {"app"}),
              Row(FALSE, FALSE, TRUE, {"vibes"})}

\* An environment on tasks and one on nodes, which may change size, lose a knob
\* or be given a tfvars file; a module with a database; a kind nobody priced.
Task(cpu, class) == [tfvars |-> FALSE, storage |-> TRUE, defaults |->
    [task_cpu |-> {cpu}, task_memory |-> {"number"}, desired_count |-> {"number"},
     db_instance_class |-> {class}]]
Nodes(types) == [tfvars |-> FALSE, storage |-> TRUE, defaults |->
    [node_count |-> {"number"}, node_instance_types |-> types, db_instance_class |-> {"micro"}]]
MCSizes == [stage |-> {Task("number", "micro"), Task("1 / 2", "micro"), Task("number", "small"),
                       [Task("number", "micro") EXCEPT !.tfvars = TRUE]},
            lab |-> {Nodes({"t3"}), Nodes({"t3", "t4"})}]
MCMayDeclare == {<<"stage", "nat">>}
MCMayCall == {<<"stage", "rds">>}
MCMayList == {<<"priced", "db">>, <<"free", "db">>, <<"priced", "nat">>, <<"not_metered", "nat">>}
MCModules == [rds |-> {"db"}]
MCComponents == [k \in Kinds |-> IF k = "db" THEN {"db_hour"} ELSE {"nat_hour"}]
MCQueries == [db_hour |-> "db", node_hour |-> "node"]
MCOffers == {{[usd |-> 2, sku |-> "s"], [usd |-> 0, sku |-> "s"]}, {[usd |-> 3, sku |-> ""]},
             {[usd |-> 2, sku |-> "s"], [usd |-> 3, sku |-> "s"]}}
SomeOffer == {[usd |-> 3, sku |-> ""]}

\* A file of two edits, a generator of one, a data file.
MCTextFiles == [template |-> 2, refresh |-> 1]
MCSlips == {{}, {<<"template", 2>>}}

-----------------------------------------------------------------------------
Init == \E chosen \in {"map", "pulse", "suite", "list", "cost", "schema"} :
    /\ tool = chosen
    /\ Map!Init /\ Pulse!Init /\ Suite!Init /\ List!Init /\ Cost!Init /\ Schema!Init
    /\ chosen # "suite" => repo = Base
    /\ chosen # "cost" => /\ config = [stage |-> Task("number", "micro"), lab |-> Nodes({"t3"})]
                          /\ aws = [q \in DOMAIN Queries |-> SomeOffer]
    /\ chosen # "schema" => contained = {}

Next ==
    \/ /\ tool = "map" /\ Map!Next
       /\ UNCHANGED <<tool, pulseVars, suiteVars, listVars, costVars, schemaVars>>
    \/ /\ tool = "pulse" /\ Pulse!Next
       /\ UNCHANGED <<tool, mapVars, suiteVars, listVars, costVars, schemaVars>>
    \/ /\ tool = "suite" /\ Suite!Next
       /\ UNCHANGED <<tool, mapVars, pulseVars, listVars, costVars, schemaVars>>
    \/ /\ tool = "list" /\ List!Next
       /\ UNCHANGED <<tool, mapVars, pulseVars, suiteVars, costVars, schemaVars>>
    \/ /\ tool = "cost" /\ Cost!Next
       /\ UNCHANGED <<tool, mapVars, pulseVars, suiteVars, listVars, schemaVars>>
    \/ /\ tool = "schema" /\ Schema!Next
       /\ UNCHANGED <<tool, mapVars, pulseVars, suiteVars, listVars, costVars>>

Spec == Init /\ [][Next]_<<tool, mapVars, pulseVars, suiteVars, listVars, costVars, schemaVars>>
=============================================================================
