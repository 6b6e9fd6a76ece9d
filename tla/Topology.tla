------------------------------ MODULE Topology ------------------------------
(***************************************************************************)
(* scripts/generate-topology.py: how the resource blocks declared under    *)
(* infra/ come to the nodes of the map, and which disagreements between    *)
(* infra/ and assets/topology-groups.json the generator refuses.  A level  *)
(* is a terraform root; a site is a directory, a level or a module; Root   *)
(* stands for no module call.  A resource of a level is a record of its    *)
(* address (the call and the block), the site and the block.               *)
(***************************************************************************)
EXTENDS Naturals, FiniteSets

CONSTANTS
    Levels, CycleLevels,    \* the roots, and those under infra/envs
    Calls,                  \* <<level, name, module>>: the calls someone may write
    Blocks,                 \* <<site, block>>: the blocks someone may declare
    Groups, KindOf,         \* the display groups: permanent, node or hidden
    MayAssign,              \* <<key, group>>: the assignments someone may write
    Root, None

VARIABLES
    declared,   \* the blocks under infra/, of Blocks
    called,     \* the module calls, of Calls
    assign,     \* <<site, call or Root, block>> -> group or None
    draws,      \* the groups each cycle level's environment draws
    map         \* site/data/topology.json, NoMap if something was edited since
vars == <<declared, called, assign, draws, map>>

CallNames == {c[2] : c \in Calls}
Keys == {<<b[1], c, b[2]>> : b \in Blocks, c \in CallNames \cup {Root}}
NoMap == [nodes |-> {}, hidden |-> {}, made |-> FALSE]

Resource(call, site, block) == [address |-> <<call, block>>, site |-> site, block |-> block]

\* Every resource the level owns: its own blocks, and those of each call.
Owned(level) ==
    {Resource(Root, level, b[2]) : b \in {x \in declared : x[1] = level}}
    \cup {Resource(p[1][2], p[1][3], p[2][2]) :
            p \in {q \in called \X declared : q[1][1] = level /\ q[1][3] = q[2][1]}}

\* The instance table wins where it names the block.
GroupOf(site, block, call) ==
    IF call # Root /\ assign[<<site, call, block>>] # None
    THEN assign[<<site, call, block>>] ELSE assign[<<site, Root, block>>]

GroupOfResource(r) == GroupOf(r.site, r.block, r.address[1])
\* Bug: a resource is in the group of its directory, whatever its instance.
MembersByDirectory(level, group) ==
    {r.address : r \in {x \in Owned(level) : GroupOf(x.site, x.block, Root) = group}}

MembersIn(level, group) == {r.address : r \in {x \in Owned(level) : GroupOfResource(x) = group}}

-----------------------------------------------------------------------------
Declared(site) == {b[2] : b \in {x \in declared : x[1] = site}}
Instances(site) == {c[2] : c \in {x \in called : x[3] = site}}
TableOf(site, call) == {k[3] : k \in {x \in Keys : x[1] = site /\ x[2] = call /\ assign[x] # None}}
Sites == Levels \cup {c[3] : c \in called}
InstanceTables(site) == {TableOf(site, c) : c \in Instances(site)} \ {{}}

Unassigned == \E site \in Sites : \E block \in Declared(site) :
    /\ block \notin TableOf(site, Root)
    /\ ~(InstanceTables(site) # {} /\ \A t \in InstanceTables(site) : block \in t)

Stale == \E k \in Keys : /\ assign[k] # None
                         /\ \/ k[1] \notin Sites \/ k[3] \notin Declared(k[1])
                            \/ k[2] # Root /\ k[2] \notin Instances(k[1])

\* Asked of the directory tables alone: the call's name is not passed.
PresentIn(level) == {GroupOf(r.site, r.block, Root) : r \in Owned(level)} \ {None}

Undrawn == \E level \in Levels : \E g \in PresentIn(level) :
    KindOf[g] = "node" /\ (level \notin CycleLevels \/ g \notin draws[level])

EmptyNode == \E level \in CycleLevels : \E g \in draws[level] : MembersIn(level, g) = {}

HoldsNothing == \E g \in Groups :
    \/ KindOf[g] = "permanent" /\ \A l \in Levels \ CycleLevels : MembersIn(l, g) = {}
    \/ KindOf[g] = "hidden" /\ \A l \in Levels : MembersIn(l, g) = {}

Refuses == Unassigned \/ Stale \/ Undrawn \/ EmptyNode \/ HoldsNothing

Build ==
    LET node(level, g) == [env |-> level, group |-> g, members |-> MembersIn(level, g)]
    IN  [nodes  |-> UNION {{node(l, g) : g \in draws[l]} : l \in CycleLevels},
         hidden |-> UNION {UNION {MembersIn(l, g) : l \in Levels} :
                           g \in {h \in Groups : KindOf[h] = "hidden"}},
         made   |-> TRUE]

\* The bucket of node-states.py for an address of an environment's stream.
Place(env, address) ==
    IF \E n \in map.nodes : n.env = env /\ address \in n.members THEN "node"
    ELSE IF address \in map.hidden THEN "not_shown" ELSE "unknown"

-----------------------------------------------------------------------------
Edited == map' = NoMap

Declare(b) ==
    /\ declared' = IF b \in declared THEN declared \ {b} ELSE declared \cup {b}
    /\ Edited /\ UNCHANGED <<called, assign, draws>>

\* Two calls of one level have different names.
Call(c) ==
    /\ c \in called \/ \A d \in called : <<d[1], d[2]>> # <<c[1], c[2]>>
    /\ called' = IF c \in called THEN called \ {c} ELSE called \cup {c}
    /\ Edited /\ UNCHANGED <<declared, assign, draws>>

Assign(k, g) ==
    /\ assign[k] # g
    /\ assign' = [assign EXCEPT ![k] = g]
    /\ Edited /\ UNCHANGED <<declared, called, draws>>

Draw(level, g) ==
    /\ draws' = [draws EXCEPT ![level] = IF g \in @ THEN @ \ {g} ELSE @ \cup {g}]
    /\ Edited /\ UNCHANGED <<declared, called, assign>>

\* make site-data: the file is written when nothing is refused.
Generate ==
    /\ ~map.made /\ ~Refuses
    /\ map' = Build
    /\ UNCHANGED <<declared, called, assign, draws>>

Init ==
    /\ declared = {} /\ called = {}
    /\ assign = [k \in Keys |-> None]
    /\ draws = [l \in CycleLevels |-> {}]
    /\ map = NoMap

Next ==
    \/ \E b \in Blocks : Declare(b)
    \/ \E c \in Calls : Call(c)
    \/ \E k \in Keys : Assign(k, None)
    \/ \E m \in MayAssign : Assign(m[1], m[2])
    \/ \E l \in CycleLevels, g \in Groups : Draw(l, g)
    \/ Generate

Spec == Init /\ [][Next]_vars

-----------------------------------------------------------------------------
TypeOK ==
    /\ declared \subseteq Blocks /\ called \subseteq Calls
    /\ \A k \in Keys : assign[k] \in Groups \cup {None}
    /\ \A l \in CycleLevels : draws[l] \subseteq Groups
    /\ \A n \in map.nodes : n.env \in CycleLevels /\ n.group \in draws[n.env]

\* A generated map places every resource of a cycle level that its directory's
\* table gives to a group of the board: an apply of the level never sends it to
\* unknown, whatever calls were added and whatever the environment draws.
DirectoryPlaced == map.made => \A l \in CycleLevels : \A r \in Owned(l) :
    LET g == assign[<<r.site, Root, r.block>>]
    IN  g # None /\ KindOf[g] # "permanent" /\ GroupOfResource(r) = g
        => Place(l, r.address) # "unknown"

\* A node holds what its group was given in its own level and nothing else,
\* while one module is called by several names and assigned per call.
NodesHoldTheirOwn == map.made => \A n \in map.nodes : \A l \in CycleLevels :
    n.env = l => \A r \in Owned(l) : r.address \in n.members => GroupOfResource(r) = n.group

\* "A module instantiated into a level nobody draws is exactly the drift this
\* gate is for" (generate-topology.py:484-485): every resource of a cycle level
\* has its place.
EveryResourceHasAPlace == map.made => \A l \in CycleLevels : \A r \in Owned(l) :
    Place(l, r.address) # "unknown"

\* not_shown names "the group that deliberately does not draw it"
\* (node-states.py, index_hidden): the resource is in a hidden group.
HiddenIsMeant == map.made => \A l \in CycleLevels : \A r \in Owned(l) :
    Place(l, r.address) = "not_shown" => GroupOfResource(r) # None /\ KindOf[GroupOfResource(r)] = "hidden"
=============================================================================
