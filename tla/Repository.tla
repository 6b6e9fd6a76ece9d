----------------------------- MODULE Repository -----------------------------
(***************************************************************************)
(* The repository's own tools beside each other: the map's generator, the  *)
(* bindings of the map to the workflows, the inventory of tests with the   *)
(* runs that are folded onto it, the list of gates, the rate table and the *)
(* migration of the map's schema.  They read different files, so each has  *)
(* variables of its own, and what each promises is stated here.            *)
(***************************************************************************)
EXTENDS Naturals, FiniteSets, Sequences

CONSTANTS
    None,
    Levels, CycleLevels, Calls, Blocks, Groups, KindOf, MayAssign, Root,  \* Topology
    WorkflowFiles, JobKeys, StepNames, Bindings, MayName,                 \* LiveBindings
    Repos, Attempts,                                                      \* TestRun
    Targets, GateLike, Runner, Checker, CiLines, Capabilities, Entries,   \* Gates
    Sizes, MayDeclare, MayCall, MayList, Modules, Kinds, Components,
    Queries, Offers, Captures,                                            \* Rates
    TextFiles, DataFiles, Refresh, Slips, MaxCopies, Runs                 \* Migration

VARIABLES
    declared, called, assign, draws, map,                                 \* Topology
    workflows, live,                                                      \* LiveBindings
    repo, inventory, gate, image, env, at, failed, files, did, doc,       \* TestRun
    makefile, ci, list, machine, run,                                     \* Gates
    config, blocks, calls, buckets, aws, table, captures, verdict,        \* Rates
    contained, text, data, snapshot, planned, pc, exit, before, runs      \* Migration

Map    == INSTANCE Topology
Pulse  == INSTANCE LiveBindings WITH Files <- WorkflowFiles
Suite  == INSTANCE TestRun
List   == INSTANCE Gates WITH NoEntry <- None
Cost   == INSTANCE Rates WITH Levels <- CycleLevels, Nobody <- None
Schema == INSTANCE Migration WITH Files <- TextFiles

mapVars    == <<declared, called, assign, draws, map>>
pulseVars  == <<workflows, live>>
suiteVars  == <<repo, inventory, gate, image, env, at, failed, files, did, doc>>
listVars   == <<makefile, ci, list, machine, run>>
costVars   == <<config, blocks, calls, buckets, aws, table, captures, verdict>>
schemaVars == <<contained, text, data, snapshot, planned, pc, exit, before, runs>>

-----------------------------------------------------------------------------
(* What the files may say.                                                   *)

ASSUME RunnersAreTargets == {Runner, Checker} \subseteq Targets

\* A binding is of a workflow and a job, and a display name of a job.
ASSUME BindingsAssumption ==
    /\ Bindings \subseteq [workflow : WorkflowFiles, job : JobKeys, steps : SUBSET StepNames]
    /\ \A m \in MayName : m[1] \in WorkflowFiles /\ m[2] \in JobKeys

\* Root is no call's name, and a group is of one of three kinds.
ASSUME MapAssumption ==
    /\ CycleLevels \subseteq Levels
    /\ \A c \in Calls : c[2] # Root
    /\ \A g \in Groups : KindOf[g] \in {"node", "hidden", "permanent"}
    /\ \A m \in MayAssign : m[2] \in Groups

\* The database checks are a list, and no spec lies in the directories of both
\* projects ("split by DIRECTORY", playwright.config.ts:8).
ASSUME TestsAssumption ==
    \A r \in Repos :
        /\ r.db \in Seq(Suite!Range(r.db))
        /\ \A spec \in r.specs : \A p, q \in Suite!ProjectsOf(spec) : p = q

ASSUME PricesAssumption ==
    /\ None \notin {"clean", "findings"} /\ Captures \in Nat
    /\ \A offers \in Offers : \A o \in offers : o.usd \in Nat

ASSUME EditsAssumption ==
    /\ DOMAIN TextFiles \cap DataFiles = {}
    /\ \A f \in DOMAIN TextFiles : TextFiles[f] \in Nat
    /\ MaxCopies \in Nat \ {0} /\ Runs \in Nat

-----------------------------------------------------------------------------
(* What each tool promises, by the conjuncts its module states; the          *)
(* variables keep their types.                                               *)

\* The map places what its tables give it, and every node holds its own.
MapHolds == Map!TypeOK /\ Map!DirectoryPlaced /\ Map!NodesHoldTheirOwn

\* A binding that was resolved is one the Actions API can light.
PulseHolds == Pulse!TypeOK /\ Pulse!PulseFires

\* A verdict on the board is one the run reached: green, red and complete.
VerdictsHold ==
    Suite!TypeOK /\ Suite!GreenMeansRan /\ Suite!RedIsReal /\ Suite!NothingUnknown

\* A green run of the list answers for every gate, and tried none blindly.
GatesHold == List!TypeOK /\ List!GreenIsWhole /\ List!NeverBlind

\* No resource costs nothing by silence, and a table is of one capture.
RatesHold == Cost!TypeOK /\ Cost!NoSilentZero /\ Cost!TableIsOneCapture

\* A migration writes every edit once, or nothing.
MigrationHolds == Schema!TypeOK /\ Schema!RefusalWritesNothing /\ Schema!EachEditOnce
=============================================================================
