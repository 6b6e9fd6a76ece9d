--------------------------- MODULE RepositoryProofs ---------------------------
(***************************************************************************)
(* The repository's tools, for every repository they may be given: any     *)
(* gates, levels, modules, workflows, tests, kinds and prices.  The tools  *)
(* share no state, so each theorem is about one of them.                   *)
(***************************************************************************)
EXTENDS Repository, TLAPS, FiniteSetTheorems, WellFoundedInduction

-----------------------------------------------------------------------------
(* The map                                                                 *)

MapTypes ==
  /\ declared \subseteq Blocks /\ called \subseteq Calls
  /\ assign \in [Map!Keys -> Groups \cup {None}]
  /\ draws \in [CycleLevels -> SUBSET Groups]

\* Two calls of one level have different names.
OwnNames == \A c, d \in called : c[1] = d[1] /\ c[2] = d[2] => c = d

\* A generated map is what the tables still say, and they were not refused.
MapInv ==
  /\ MapTypes /\ OwnNames
  /\ map = Map!NoMap \/ (map = Map!Build /\ ~Map!Refuses)

LEMMA MapInit == Map!Init => MapInv
BY DEF Map!Init, MapInv, MapTypes, OwnNames

LEMMA SameTables ==
  ASSUME UNCHANGED <<declared, called, assign, draws>>
  PROVE  Map!Build' = Map!Build /\ (Map!Refuses' <=> Map!Refuses)
<1>1. /\ \A l : Map!Owned(l)' = Map!Owned(l)
      /\ \A s, b, c : Map!GroupOf(s, b, c)' = Map!GroupOf(s, b, c)
      /\ \A s : Map!Declared(s)' = Map!Declared(s) /\ Map!Instances(s)' = Map!Instances(s)
      /\ Map!Sites' = Map!Sites
      /\ \A s, c : Map!TableOf(s, c)' = Map!TableOf(s, c)
  BY DEF Map!Owned, Map!GroupOf, Map!Declared, Map!Instances, Map!Sites, Map!TableOf
<1>2. \A l, g : Map!MembersIn(l, g)' = Map!MembersIn(l, g)
  BY <1>1 DEF Map!MembersIn, Map!GroupOfResource
<1>3. \A l : Map!PresentIn(l)' = Map!PresentIn(l)
  BY <1>1 DEF Map!PresentIn
<1>4. \A s : Map!InstanceTables(s)' = Map!InstanceTables(s)
  BY <1>1 DEF Map!InstanceTables
<1>5. Map!Build' = Map!Build
  <2> DEFINE drawn(l) ==
               {[env |-> l, group |-> g, members |-> Map!MembersIn(l, g)] : g \in draws[l]}
             hidden(g) == UNION {Map!MembersIn(l, g) : l \in Levels}
  <2>1. \A l : drawn(l)' = drawn(l)
    BY <1>2
  <2>2. \A g : hidden(g)' = hidden(g)
    BY <1>2
  <2>3. /\ Map!Build = [nodes  |-> UNION {drawn(l) : l \in CycleLevels},
                        hidden |-> UNION {hidden(g) : g \in {h \in Groups : KindOf[h] = "hidden"}},
                        made   |-> TRUE]
        /\ Map!Build' =
             [nodes  |-> UNION {drawn(l)' : l \in CycleLevels},
              hidden |-> UNION {hidden(g)' : g \in {h \in Groups : KindOf[h] = "hidden"}},
              made   |-> TRUE]
    BY DEF Map!Build
  <2> HIDE DEF drawn, hidden
  <2> QED
    BY <2>1, <2>2, <2>3
<1>6. (Map!Unassigned' <=> Map!Unassigned) /\ (Map!Stale' <=> Map!Stale)
  BY <1>1, <1>4 DEF Map!Unassigned, Map!Stale
<1>7. (Map!Undrawn' <=> Map!Undrawn) /\ (Map!EmptyNode' <=> Map!EmptyNode)
      /\ (Map!HoldsNothing' <=> Map!HoldsNothing)
  BY <1>2, <1>3 DEF Map!Undrawn, Map!EmptyNode, Map!HoldsNothing
<1> QED
  BY <1>5, <1>6, <1>7 DEF Map!Refuses

LEMMA MapStep == MapInv /\ [Map!Next]_(Map!vars) => MapInv'
<1> SUFFICES ASSUME MapInv, [Map!Next]_(Map!vars) PROVE MapInv'
  OBVIOUS
<1> USE DEF MapInv
<1>1. ASSUME NEW b \in Blocks, Map!Declare(b) PROVE MapInv'
  BY <1>1 DEF Map!Declare, Map!Edited, MapTypes, OwnNames, Map!NoMap, Map!Keys, Map!CallNames
<1>2. ASSUME NEW c \in Calls, Map!Call(c) PROVE MapInv'
  <2>1. /\ c \in called \/ \A d \in called : <<d[1], d[2]>> # <<c[1], c[2]>>
        /\ called' = IF c \in called THEN called \ {c} ELSE called \cup {c}
        /\ map' = Map!NoMap /\ UNCHANGED <<declared, assign, draws>>
    BY <1>2 DEF Map!Call, Map!Edited
  <2>2. OwnNames'
    BY <2>1 DEF OwnNames
  <2> QED
    BY <2>1, <2>2 DEF MapTypes, Map!NoMap, Map!Keys, Map!CallNames
<1>3. ASSUME NEW k, NEW g \in Groups \cup {None}, Map!Assign(k, g) PROVE MapInv'
  <2>1. /\ assign' = [assign EXCEPT ![k] = g] /\ map' = Map!NoMap
        /\ UNCHANGED <<declared, called, draws>>
    BY <1>3 DEF Map!Assign, Map!Edited
  <2>2. Map!Keys' = Map!Keys
    BY DEF Map!Keys, Map!CallNames
  <2>3. MapTypes'
    BY <2>1, <2>2 DEF MapTypes
  <2> QED
    BY <2>1, <2>3 DEF OwnNames, Map!NoMap
<1>4. ASSUME NEW l \in CycleLevels, NEW g \in Groups, Map!Draw(l, g) PROVE MapInv'
  BY <1>4 DEF Map!Draw, Map!Edited, MapTypes, OwnNames, Map!NoMap, Map!Keys, Map!CallNames
<1>5. ASSUME UNCHANGED <<declared, called, assign, draws>>,
             map' = map \/ (map' = Map!Build /\ ~Map!Refuses)
      PROVE  MapInv'
  <2>1. MapTypes' /\ OwnNames'
    BY <1>5 DEF MapTypes, OwnNames, Map!Keys, Map!CallNames
  <2> QED
    BY <1>5, <2>1, SameTables DEF Map!NoMap
<1>6. CASE Map!Generate
  BY <1>5, <1>6 DEF Map!Generate
<1>7. CASE UNCHANGED Map!vars
  BY <1>5, <1>7 DEF Map!vars
<1>8. \A m \in MayAssign : m[2] \in Groups
  BY MapAssumption
<1> QED
  BY <1>1, <1>2, <1>3, <1>4, <1>6, <1>7, <1>8 DEF Map!Next

\* Where a resource of a level is declared, and by what call it is there.
LEMMA OwnedFrom ==
  ASSUME MapInv, NEW l \in Levels, NEW r \in Map!Owned(l)
  PROVE  /\ <<r.site, Root, r.block>> \in Map!Keys
         /\ r.address = <<r.address[1], r.block>>
         /\ \/ r.address[1] = Root /\ r.site = l
            \/ /\ r.address[1] # Root
               /\ \E c \in called : c[1] = l /\ c[2] = r.address[1] /\ c[3] = r.site
<1>1. ASSUME NEW b \in declared, b[1] = l, r = Map!Resource(Root, l, b[2])
      PROVE  /\ <<r.site, Root, r.block>> = <<b[1], Root, b[2]>>
             /\ r.address = <<Root, r.block>> /\ r.site = l
  BY <1>1 DEF Map!Resource
<1>2. ASSUME NEW c \in called, NEW b \in declared, c[1] = l, c[3] = b[1],
             r = Map!Resource(c[2], c[3], b[2])
      PROVE  /\ <<r.site, Root, r.block>> = <<b[1], Root, b[2]>>
             /\ r.address = <<c[2], r.block>> /\ r.site = c[3] /\ c[2] # Root
  <2>1. c[2] # Root
    BY MapAssumption DEF MapInv, MapTypes
  <2> QED
    BY <1>2, <2>1 DEF Map!Resource
<1>3. \A b \in declared : <<b[1], Root, b[2]>> \in Map!Keys
  BY DEF MapInv, MapTypes, Map!Keys
<1>4. \/ \E b \in declared : b[1] = l /\ r = Map!Resource(Root, l, b[2])
      \/ \E c \in called, b \in declared :
            c[1] = l /\ c[3] = b[1] /\ r = Map!Resource(c[2], c[3], b[2])
  BY DEF Map!Owned
<1>5. CASE \E b \in declared : b[1] = l /\ r = Map!Resource(Root, l, b[2])
  BY <1>1, <1>3, <1>5
<1>6. CASE \E c \in called, b \in declared :
             c[1] = l /\ c[3] = b[1] /\ r = Map!Resource(c[2], c[3], b[2])
  <2>1. PICK c \in called, b \in declared :
          c[1] = l /\ c[3] = b[1] /\ r = Map!Resource(c[2], c[3], b[2])
    BY <1>6
  <2>2. /\ <<r.site, Root, r.block>> = <<b[1], Root, b[2]>>
        /\ r.address = <<c[2], r.block>> /\ r.site = c[3] /\ c[2] # Root
    BY <1>2, <2>1
  <2> QED
    BY <1>3, <2>1, <2>2
<1> QED
  BY <1>4, <1>5, <1>6

\* A level has no two resources of one address.
LEMMA OneAddress ==
  ASSUME MapInv, NEW l \in Levels, NEW r \in Map!Owned(l), NEW x \in Map!Owned(l),
         r.address = x.address
  PROVE  Map!GroupOfResource(r) = Map!GroupOfResource(x)
<1>1. r.address = <<r.address[1], r.block>> /\ x.address = <<x.address[1], x.block>>
  BY OwnedFrom
<1>2. r.block = x.block
  BY <1>1
<1>3. ASSUME r.address[1] = Root PROVE r.site = x.site
  BY <1>3, OwnedFrom
<1>4. ASSUME r.address[1] # Root PROVE r.site = x.site
  <2>1. PICK c \in called : c[1] = l /\ c[2] = r.address[1] /\ c[3] = r.site
    BY <1>4, OwnedFrom
  <2>2. x.address[1] # Root /\ x.address[1] = r.address[1]
    BY <1>4
  <2>3. PICK d \in called : d[1] = l /\ d[2] = x.address[1] /\ d[3] = x.site
    BY <2>2, OwnedFrom
  <2> QED
    BY <2>1, <2>2, <2>3 DEF MapInv, OwnNames
<1>5. r.site = x.site
  BY <1>3, <1>4
<1> QED
  BY <1>2, <1>5 DEF Map!GroupOfResource

LEMMA MapPromises == MapInv => MapHolds
<1> SUFFICES ASSUME MapInv PROVE MapHolds
  OBVIOUS
<1> DEFINE node(l, g) == [env |-> l, group |-> g, members |-> Map!MembersIn(l, g)]
<1>1. ASSUME NEW n \in map.nodes
      PROVE  \E l \in CycleLevels : \E g \in draws[l] : n = node(l, g)
  <2>1. map = Map!Build
    BY <1>1 DEF MapInv, Map!NoMap
  <2>2. n \in UNION {{node(l, g) : g \in draws[l]} : l \in CycleLevels}
    BY <1>1, <2>1 DEF Map!Build
  <2> QED
    BY <2>2
<1>2. ASSUME NEW n \in map.nodes PROVE n.env \in CycleLevels /\ n.group \in draws[n.env]
  BY <1>1, <1>2
<1>3. Map!TypeOK
  BY <1>2 DEF Map!TypeOK, MapInv, MapTypes
<1>4. ASSUME map.made, NEW l \in CycleLevels, NEW r \in Map!Owned(l),
             assign[<<r.site, Root, r.block>>] # None,
             KindOf[assign[<<r.site, Root, r.block>>]] # "permanent",
             Map!GroupOfResource(r) = assign[<<r.site, Root, r.block>>]
      PROVE  Map!Place(l, r.address) # "unknown"
  <2> DEFINE g == assign[<<r.site, Root, r.block>>]
  <2>1. map = Map!Build /\ ~Map!Refuses /\ l \in Levels
    BY <1>4, MapAssumption DEF MapInv, Map!NoMap
  <2>2. g \in Groups
    BY <1>4, <2>1, OwnedFrom DEF MapInv, MapTypes
  <2>3. r.address \in Map!MembersIn(l, g)
    BY <1>4 DEF Map!MembersIn
  <2>4. CASE KindOf[g] = "node"
    <3>1. g \in Map!PresentIn(l)
      BY <1>4 DEF Map!PresentIn, Map!GroupOf
    <3>2. g \in draws[l]
      BY <2>1, <2>4, <3>1 DEF Map!Refuses, Map!Undrawn
    <3>3. node(l, g) \in UNION {{node(m, h) : h \in draws[m]} : m \in CycleLevels}
      BY <3>2
    <3>4. node(l, g) \in map.nodes
      BY <2>1, <3>3 DEF Map!Build
    <3> QED
      BY <2>3, <3>4 DEF Map!Place
  <2>5. CASE KindOf[g] = "hidden"
    <3>1. r.address \in UNION {Map!MembersIn(m, g) : m \in Levels}
      BY <2>1, <2>3
    <3>2. r.address \in UNION {UNION {Map!MembersIn(m, h) : m \in Levels} :
                                 h \in {k \in Groups : KindOf[k] = "hidden"}}
      BY <2>2, <2>5, <3>1
    <3>3. r.address \in map.hidden
      BY <2>1, <3>2 DEF Map!Build
    <3> QED
      BY <3>3 DEF Map!Place
  <2> QED
    BY <1>4, <2>2, <2>4, <2>5, MapAssumption
<1>5. Map!DirectoryPlaced
  BY <1>4 DEF Map!DirectoryPlaced
<1>6. ASSUME NEW n \in map.nodes, NEW l \in CycleLevels, n.env = l,
             NEW r \in Map!Owned(l), r.address \in n.members
      PROVE  Map!GroupOfResource(r) = n.group
  <2>1. n.members = Map!MembersIn(l, n.group)
    BY <1>1, <1>6
  <2>2. PICK x \in Map!Owned(l) : Map!GroupOfResource(x) = n.group /\ x.address = r.address
    BY <1>6, <2>1 DEF Map!MembersIn
  <2> QED
    BY <2>2, OneAddress, MapAssumption
<1>7. Map!NodesHoldTheirOwn
  BY <1>6 DEF Map!NodesHoldTheirOwn
<1> QED
  BY <1>3, <1>5, <1>7 DEF MapHolds

\* A generated map places every resource its directory gives to a group of the
\* board, and a node holds the resources its own level's tables give it, however
\* the blocks, calls, assignments and drawings were edited.
THEOREM BoardHolds == Map!Spec => []MapHolds
BY MapInit, MapStep, MapPromises, PTL DEF Map!Spec

-----------------------------------------------------------------------------
(* The bindings of the map to the workflows                                *)

Job == [steps : SUBSET StepNames, uses : WorkflowFiles \cup {None},
        name : {m[3] : m \in MayName} \cup {None}]

\* Bindings that were resolved are those of the files as they are.
PulseInv ==
  /\ workflows \in [WorkflowFiles -> [JobKeys -> Job]]
  /\ \/ live = Pulse!Unresolved
     \/ /\ live = [ok |-> TRUE, bound |-> {Pulse!Resolve(b) : b \in Bindings}]
        /\ \A b \in Bindings : ~Pulse!Refused(b)

LEMMA PulseInit == Pulse!Init => PulseInv
BY DEF Pulse!Init, Pulse!NoJob, PulseInv, Job

\* What a binding resolves to, and whether it is refused, is the files' alone.
LEMMA SameBindings ==
  ASSUME UNCHANGED workflows
  PROVE  \A b : /\ Pulse!Resolve(b)' = Pulse!Resolve(b)
                /\ Pulse!Refused(b)' <=> Pulse!Refused(b)
BY DEF Pulse!Resolve, Pulse!Refused, Pulse!JobName, Pulse!Jobs, Pulse!CallsOne,
       Pulse!StepOwner, Pulse!Inner, Pulse!NoJob

LEMMA PulseCardinality == ASSUME NEW S PROVE Pulse!Cardinality(S) = Cardinality(S)
BY DEF Pulse!Cardinality, Cardinality

LEMMA JobPut ==
  ASSUME PulseInv, NEW f \in WorkflowFiles, NEW j \in JobKeys, NEW job \in Job, Pulse!Put(f, j, job)
  PROVE  PulseInv'
BY DEF PulseInv, Pulse!Put

LEMMA PulseStep == PulseInv /\ [Pulse!Next]_(Pulse!vars) => PulseInv'
<1> SUFFICES ASSUME PulseInv, [Pulse!Next]_(Pulse!vars) PROVE PulseInv'
  OBVIOUS
<1>1. \A f \in WorkflowFiles, j \in JobKeys : workflows[f][j] \in Job
  BY DEF PulseInv
<1>2. ASSUME NEW f \in WorkflowFiles, NEW j \in JobKeys, NEW steps \in SUBSET StepNames,
             Pulse!WriteSteps(f, j, steps)
      PROVE  PulseInv'
  <2>1. [workflows[f][j] EXCEPT !.steps = steps] \in Job
    BY <1>1 DEF Job
  <2> QED
    BY <1>2, <2>1, JobPut DEF Pulse!WriteSteps
<1>3. ASSUME NEW f \in WorkflowFiles, NEW j \in JobKeys, NEW callee \in WorkflowFiles,
             Pulse!CallWorkflow(f, j, callee)
      PROVE  PulseInv'
  <2>1. [steps |-> {}, uses |-> callee, name |-> workflows[f][j].name] \in Job
    BY <1>1 DEF Job
  <2> QED
    BY <1>3, <2>1, JobPut DEF Pulse!CallWorkflow
<1>4. ASSUME NEW f \in WorkflowFiles, NEW j \in JobKeys, Pulse!RemoveJob(f, j) PROVE PulseInv'
  <2>1. Pulse!NoJob \in Job
    BY DEF Pulse!NoJob, Job
  <2> QED
    BY <1>4, <2>1, JobPut DEF Pulse!RemoveJob
<1>5. ASSUME NEW m \in MayName, Pulse!NameJob(m[1], m[2], m[3]) PROVE PulseInv'
  <2>1. m[1] \in WorkflowFiles /\ m[2] \in JobKeys
    BY BindingsAssumption
  <2>2. [workflows[m[1]][m[2]] EXCEPT !.name = m[3]] \in Job
    BY <1>1, <2>1 DEF Job
  <2> QED
    BY <1>5, <2>1, <2>2, JobPut DEF Pulse!NameJob
<1>6. ASSUME Pulse!ResolveAll PROVE PulseInv'
  BY <1>6, SameBindings DEF Pulse!ResolveAll, PulseInv
<1>7. CASE UNCHANGED Pulse!vars
  BY <1>7, SameBindings DEF Pulse!vars, PulseInv, Pulse!Unresolved
<1> QED
  BY <1>2, <1>3, <1>4, <1>5, <1>6, <1>7 DEF Pulse!Next

\* A binding that is not refused names its job, or the only job of what it calls.
LEMMA BoundJob ==
  ASSUME PulseInv, NEW b \in Bindings, ~Pulse!Refused(b)
  PROVE  LET job == workflows[b.workflow][b.job]
         IN  /\ b.job \in Pulse!Jobs(b.workflow) /\ b.steps # {}
             /\ job.uses = None => b.steps \subseteq job.steps
             /\ job.uses # None =>
                  /\ Pulse!Inner(job.uses) \in Pulse!Jobs(job.uses)
                  /\ b.steps \subseteq workflows[job.uses][Pulse!Inner(job.uses)].steps
<1> DEFINE job == workflows[b.workflow][b.job]
<1>1. /\ b.job \in Pulse!Jobs(b.workflow) /\ b.steps # {}
      /\ job.uses # None => Pulse!CallsOne(job)
      /\ b.steps \subseteq Pulse!StepOwner(job)
  BY DEF Pulse!Refused
<1>2. ASSUME job.uses # None PROVE Pulse!Inner(job.uses) \in Pulse!Jobs(job.uses)
  <2>1. Cardinality(Pulse!Jobs(job.uses)) = 1
    BY <1>1, <1>2, PulseCardinality DEF Pulse!CallsOne
  <2>2. Pulse!Jobs(job.uses) # {}
    BY <2>1, FS_EmptySet
  <2> QED
    BY <2>2 DEF Pulse!Inner
<1> QED
  BY <1>1, <1>2 DEF Pulse!StepOwner

LEMMA PulsePromises == PulseInv => PulseHolds
<1> SUFFICES ASSUME PulseInv PROVE PulseHolds
  OBVIOUS
<1>1. \A f \in WorkflowFiles, j \in JobKeys : workflows[f][j] \in Job
  BY DEF PulseInv
<1>2. ASSUME NEW b \in live.bound
      PROVE  /\ \A c \in Bindings : ~Pulse!Refused(c)
             /\ \E c \in Bindings : b = Pulse!Resolve(c)
  BY <1>2 DEF PulseInv, Pulse!Unresolved
<1>3. Pulse!TypeOK
  <2>1. ASSUME NEW b \in live.bound PROVE b.path \in WorkflowFiles /\ b.steps # {}
    <3>1. PICK c \in Bindings : b = Pulse!Resolve(c) /\ ~Pulse!Refused(c)
      BY <1>2, <2>1
    <3> QED
      BY <3>1, BoundJob, BindingsAssumption DEF Pulse!Resolve
  <2> QED
    BY <1>1, <2>1 DEF Pulse!TypeOK, Job
<1>4. ASSUME NEW b \in live.bound, Pulse!Unnamed(b), NEW step \in b.steps
      PROVE  \E r \in Pulse!Reported(b.path) :
               step \in r.steps /\ Pulse!Lit(b, b.path, r.name, step)
  <2>1. PICK c \in Bindings : b = Pulse!Resolve(c) /\ ~Pulse!Refused(c)
    BY <1>2
  <2> DEFINE f == c.workflow
             job == workflows[f][c.job]
  <2>2. /\ b.path = f /\ b.steps = c.steps /\ b.job = Pulse!JobName(c, job)
        /\ f \in WorkflowFiles /\ c.job \in JobKeys
    BY <2>1, BindingsAssumption DEF Pulse!Resolve
  <2>3. c.job \in Pulse!Jobs(f)
    BY <2>1, BoundJob
  <2>4. CASE job.uses = None
    <3>1. b.job = <<c.job>>
      BY <2>2, <2>4 DEF Pulse!JobName
    <3>2. job.name = None
      BY <1>4, <2>2, <3>1 DEF Pulse!Unnamed
    <3> DEFINE r == [name |-> <<Pulse!Shown(f, c.job)>>, steps |-> job.steps]
    <3>3. r \in Pulse!Reported(f)
      BY <2>3, <2>4 DEF Pulse!Reported
    <3>4. r.name = <<c.job>> /\ step \in r.steps
      BY <1>4, <2>1, <2>2, <2>4, <3>2, BoundJob DEF Pulse!Shown
    <3> QED
      BY <1>4, <2>2, <3>1, <3>3, <3>4 DEF Pulse!Lit
  <2>5. CASE job.uses # None
    <3> DEFINE g == job.uses
               i == Pulse!Inner(g)
    <3>1. b.job = <<c.job, i>>
      BY <2>2, <2>5 DEF Pulse!JobName
    <3>2. job.name = None /\ workflows[g][i].name = None
      BY <1>4, <2>2, <3>1 DEF Pulse!Unnamed
    <3>3. i \in Pulse!Jobs(g) /\ step \in workflows[g][i].steps
      BY <1>4, <2>1, <2>2, <2>5, BoundJob
    <3> DEFINE r == [name |-> <<Pulse!Shown(f, c.job), Pulse!Shown(g, i)>>,
                     steps |-> workflows[g][i].steps]
    <3>4. r \in Pulse!Reported(f)
      <4> DEFINE shown(j) == {[name |-> <<Pulse!Shown(f, j), Pulse!Shown(workflows[f][j].uses, k)>>,
                               steps |-> workflows[workflows[f][j].uses][k].steps] :
                                 k \in Pulse!Jobs(workflows[f][j].uses)}
      <4>1. r \in shown(c.job)
        BY <3>3
      <4>2. c.job \in {k \in Pulse!Jobs(f) : workflows[f][k].uses # None}
        BY <2>3, <2>5
      <4>3. r \in UNION {shown(j) : j \in {k \in Pulse!Jobs(f) : workflows[f][k].uses # None}}
        BY <4>1, <4>2
      <4> QED
        BY <4>3 DEF Pulse!Reported
    <3>5. r.name = <<c.job, i>> /\ r.steps = workflows[g][i].steps
      BY <3>2 DEF Pulse!Shown
    <3>6. Pulse!Lit(b, b.path, r.name, step) /\ step \in r.steps
      BY <1>4, <3>1, <3>3, <3>5 DEF Pulse!Lit
    <3> HIDE DEF r
    <3> QED
      BY <2>2, <3>4, <3>6
  <2> QED
    BY <2>4, <2>5
<1> QED
  BY <1>3, <1>4 DEF PulseHolds, Pulse!PulseFires

\* Bindings that were resolved light the board: each bound step is run by a job
\* that the Actions API names as the binding does, through any edits of any
\* workflows, as long as no job on the way carries a display name.
THEOREM BindingsFire == Pulse!Spec => []PulseHolds
BY PulseInit, PulseStep, PulsePromises, PTL DEF Pulse!Spec

-----------------------------------------------------------------------------
(* The tests of a run, folded onto the inventory                           *)

Reports  == {"junit", "playwright", "dbLog"}
Statuses == {"passed", "failed", "incomplete", "skipped"}

SuiteTypes ==
  /\ repo \in Repos /\ DOMAIN inventory = Suite!SuiteNames
  /\ gate \in {"unasked", "clean", "drift", "refused"} /\ env \in {"stage", "prod"}
  /\ at \in {"idle", "db", "coverage", "api", "browser", "fold", "done"}
  /\ image \in Seq(Suite!Range(image))
  /\ DOMAIN files = Reports
  /\ \A f \in Reports : files[f].at \in {"absent", "torn", "whole"}

\* A test that the checkout, or the image, of this run has.
Possible(c) ==
  \/ c.suite = "api" /\ c.name \in repo.api
  \/ c.suite = "db" /\ c.name \in Suite!Range(image)
  \/ c.suite \in Suite!Browser /\ \E spec \in Suite!SpecsOf(repo, c.suite) : c.name = spec.title

\* What a report says happened, and nothing failed in a job that goes on.
Happened ==
  /\ \A c \in did : Suite!StatusOf(c) \in Statuses /\ Possible(c)
  /\ \A f \in Reports : /\ files[f].cases \subseteq did
                        /\ \A c \in files[f].cases : Suite!StatusOf(c) = "failed" => failed
  /\ Suite!Running => ~failed

\* A gate's answer is of the files as they are, and so is a fold.
Current ==
  /\ gate = "clean" => inventory = Suite!Collect(repo)
  /\ \/ doc = Suite!NoDoc \/ doc = [kind |-> "refused"]
     \/ at = "done" /\ doc = [kind |-> "folded", fold |-> Suite!Fold(files, env, inventory)]

SuiteInv == SuiteTypes /\ Happened /\ (failed \in BOOLEAN) /\ Current

LEMMA SuiteInit == Suite!Init => SuiteInv
<1> SUFFICES ASSUME Suite!Init PROVE SuiteInv
  OBVIOUS
<1>1. /\ repo \in Repos /\ inventory = Suite!Collect(repo) /\ gate = "unasked" /\ image = repo.db
      /\ env = "stage" /\ at = "idle" /\ failed = FALSE /\ did = {} /\ doc = Suite!NoDoc
      /\ files = [f \in Reports |-> [at |-> "absent", cases |-> {}]]
  BY DEF Suite!Init, Suite!NoFiles, Suite!NoFile, Reports
<1>2. SuiteTypes
  BY <1>1, TestsAssumption DEF SuiteTypes, Suite!Collect
<1> QED
  BY <1>1, <1>2 DEF SuiteInv, Happened, Current, Suite!Running

\* A step of a run that leaves a report on the runner, or none.
LEMMA ReportStep ==
  ASSUME SuiteInv, Suite!Running, UNCHANGED <<repo, inventory, gate, image, env, doc>>,
         NEW f \in Reports, NEW report, NEW cases, NEW bad \in BOOLEAN,
         files' = [files EXCEPT ![f] = report], did' = did \cup cases,
         report.at \in {"absent", "torn", "whole"}, report.cases \subseteq cases,
         \A c \in cases : Suite!StatusOf(c) \in Statuses /\ Possible(c),
         \A c \in report.cases : Suite!StatusOf(c) = "failed" => bad,
         NEW next \in {"coverage", "api", "browser", "fold"}, Suite!Then(next, bad)
  PROVE  SuiteInv'
<1>1. at' = (IF bad THEN "fold" ELSE next) /\ (failed' <=> bad) /\ failed' \in BOOLEAN
  BY DEF Suite!Then
<1>2. ~failed
  BY DEF SuiteInv, Happened
<1>3. SuiteTypes'
  BY <1>1 DEF SuiteInv, SuiteTypes
<1>4. \A c : Possible(c)' <=> Possible(c)
  BY DEF Possible
<1>5. \A c \in did' : Suite!StatusOf(c) \in Statuses /\ Possible(c)'
  BY <1>4 DEF SuiteInv, Happened
<1>6. ASSUME NEW g \in Reports
      PROVE  /\ files'[g].cases \subseteq did'
             /\ \A c \in files'[g].cases : Suite!StatusOf(c) = "failed" => failed'
  <2>1. files'[g] = IF g = f THEN report ELSE files[g]
    BY DEF SuiteInv, SuiteTypes
  <2> QED
    BY <1>1, <1>2, <2>1 DEF SuiteInv, Happened
<1>7. Suite!Running' => ~failed'
  BY <1>1 DEF Suite!Running
<1>8. doc = Suite!NoDoc \/ doc = [kind |-> "refused"]
  BY DEF SuiteInv, Current, Suite!Running
<1> QED
  BY <1>1, <1>3, <1>5, <1>6, <1>7, <1>8 DEF SuiteInv, Happened, Current

\* The lines of the database checks are of checks the image has, and one that
\* failed ends the step.
LEMMA LinesHold ==
  ASSUME image \in Seq(Suite!Range(image)), NEW passing \in 0..Len(image),
         NEW end \in {"ends", "raises"},
         NEW c \in Suite!DbLines(passing, end)
  PROVE  /\ Suite!StatusOf(c) \in Statuses /\ Possible(c)
         /\ Suite!StatusOf(c) = "failed" => end = "raises" \/ passing < Len(image)
<1>1. ASSUME NEW i \in 1..Len(image), NEW raw \in {"passed", "failed", "skipped"},
             c = Suite!DbCase(image[i], raw)
      PROVE  Suite!StatusOf(c) = raw /\ Possible(c)
  <2>1. c.suite = "db" /\ c.name = image[i] /\ c.raw = raw
    BY <1>1 DEF Suite!DbCase
  <2>2. image[i] \in Suite!Range(image)
    BY DEF Suite!Range
  <2> QED
    BY <2>1, <2>2 DEF Suite!StatusOf, Suite!Browser, Possible
<1>2. Len(image) \in Nat /\ passing \in Nat /\ passing <= Len(image)
  OBVIOUS
<1>3. \/ \E i \in 1..passing : c = Suite!DbCase(image[i], "passed")
      \/ passing # Len(image) /\ c = Suite!DbCase(image[passing + 1], "failed")
      \/ \E i \in passing + 2..Len(image) : c = Suite!DbCase(image[i], "skipped")
  BY DEF Suite!DbLines
<1>4. ASSUME NEW i \in 1..passing, c = Suite!DbCase(image[i], "passed")
      PROVE  Suite!StatusOf(c) = "passed" /\ Possible(c)
  BY <1>1, <1>2, <1>4
<1>5. ASSUME passing # Len(image), c = Suite!DbCase(image[passing + 1], "failed")
      PROVE  Suite!StatusOf(c) = "failed" /\ Possible(c) /\ passing < Len(image)
  <2>1. passing + 1 \in 1..Len(image) /\ passing < Len(image)
    BY <1>2, <1>5
  <2> QED
    BY <1>1, <1>5, <2>1
<1>6. ASSUME NEW i \in passing + 2..Len(image), c = Suite!DbCase(image[i], "skipped")
      PROVE  Suite!StatusOf(c) = "skipped" /\ Possible(c)
  <2>1. i \in 1..Len(image)
    BY <1>2
  <2> QED
    BY <1>1, <1>6, <2>1
<1> QED
  BY <1>3, <1>4, <1>5, <1>6 DEF Statuses

LEMMA FetchedHold ==
  ASSUME NEW lines, NEW report \in Suite!Fetched(lines)
  PROVE  report.at \in {"absent", "torn", "whole"} /\ report.cases \subseteq lines
<1> DEFINE inOrder == SelectSeq(image, LAMBDA name : \E c \in lines : c.name = name)
           first(k) == {c \in lines : \E i \in 1..k : inOrder[i] = c.name}
<1>1. Suite!Fetched(lines) =
        {Suite!NoFile} \cup {[at |-> "whole", cases |-> first(k)] :
                               k \in (IF lines = {} THEN 0 ELSE 1)..Len(inOrder)}
  BY DEF Suite!Fetched
<1>2. \A k : first(k) \subseteq lines
  OBVIOUS
<1> HIDE DEF inOrder, first
<1> QED
  BY <1>1, <1>2 DEF Suite!NoFile

LEMMA AttemptsHold == ASSUME NEW results PROVE Suite!PwStatus(results) \in Statuses
BY DEF Suite!PwStatus, Statuses

LEMMA SuiteStep == SuiteInv /\ [Suite!Next]_(Suite!vars) => SuiteInv'
<1> SUFFICES ASSUME SuiteInv, [Suite!Next]_(Suite!vars) PROVE SuiteInv'
  OBVIOUS
<1>1. ASSUME repo' \in Repos, DOMAIN inventory' = Suite!SuiteNames,
             image' \in Seq(Suite!Range(image)'),
             gate' \in {"unasked", "clean", "drift", "refused"}, env' \in {"stage", "prod"},
             gate' = "clean" => inventory' = Suite!Collect(repo)',
             at' \in {"idle", "db"}, failed' = FALSE, files' = Suite!NoFiles, did' = {},
             doc' = Suite!NoDoc
      PROVE  SuiteInv'
  <2>1. files' = [f \in Reports |-> [at |-> "absent", cases |-> {}]]
    BY <1>1 DEF Suite!NoFiles, Suite!NoFile, Reports
  <2>2. SuiteTypes'
    BY <1>1, <2>1 DEF SuiteTypes
  <2>3. \A f \in Reports : files'[f].cases = {}
    BY <2>1
  <2>4. Happened'
    BY <1>1, <2>3 DEF Happened
  <2>5. Current'
    BY <1>1 DEF Current, Suite!NoDoc
  <2> QED
    BY <1>1, <2>2, <2>4, <2>5 DEF SuiteInv
<1>2. ASSUME NEW r \in Repos, Suite!Edit(r) PROVE SuiteInv'
  BY <1>1, <1>2 DEF Suite!Edit, SuiteInv, SuiteTypes, Suite!Range
<1>3. CASE Suite!WriteInventory
  <2>1. DOMAIN Suite!Collect(repo) = Suite!SuiteNames
    BY DEF Suite!Collect
  <2> QED
    BY <1>1, <1>3, <2>1 DEF Suite!WriteInventory, SuiteInv, SuiteTypes, Suite!Range
<1>4. CASE Suite!CheckInventory
  <2>1. /\ UNCHANGED <<repo, inventory, image, env, at, failed, files, did, doc>>
        /\ gate' \in {"clean", "drift", "refused"}
        /\ gate' = "clean" => inventory = Suite!Collect(repo)
    BY <1>4 DEF Suite!CheckInventory, Suite!Checked
  <2>2. SuiteTypes'
    BY <2>1 DEF SuiteInv, SuiteTypes, Suite!Range
  <2>3. Happened'
    BY <2>1 DEF SuiteInv, Happened, Possible, Suite!Running, Suite!Range
  <2> QED
    BY <2>1, <2>2, <2>3 DEF SuiteInv, Current
<1>5. ASSUME NEW e \in {"stage", "prod"}, Suite!StartRun(e) PROVE SuiteInv'
  BY <1>1, <1>5, TestsAssumption DEF Suite!StartRun, Suite!source, SuiteInv, SuiteTypes,
     Current, Suite!Range
<1>6. ASSUME NEW passing \in 0..Len(image), NEW end \in {"ends", "raises"},
             Suite!DbAssert(passing, end)
      PROVE  SuiteInv'
  <2> DEFINE lines == Suite!DbLines(passing, end)
             bad == end = "raises" \/ passing < Len(image)
             next == IF env = "stage" THEN "coverage" ELSE "browser"
  <2>1. /\ at = "db" /\ did' = did \cup lines
        /\ UNCHANGED <<repo, inventory, gate, image, env, doc>>
        /\ Suite!Then(next, bad)
    BY <1>6 DEF Suite!DbAssert, Suite!source
  <2>2. PICK report \in Suite!Fetched(lines) : files' = [files EXCEPT !["dbLog"] = report]
    BY <1>6 DEF Suite!DbAssert, Suite!Report
  <2>3. report.at \in {"absent", "torn", "whole"} /\ report.cases \subseteq lines
    BY <2>2, FetchedHold
  <2>4. \A c \in lines : /\ Suite!StatusOf(c) \in Statuses /\ Possible(c)
                         /\ Suite!StatusOf(c) = "failed" => bad
    BY LinesHold DEF SuiteInv, SuiteTypes
  <2>5. /\ Suite!Running /\ "dbLog" \in Reports /\ bad \in BOOLEAN
        /\ next \in {"coverage", "api", "browser", "fold"}
    BY <2>1 DEF Suite!Running, Reports
  <2> HIDE DEF lines, bad, next
  <2> QED
    BY <2>1, <2>2, <2>3, <2>4, <2>5, ReportStep
<1>7. CASE Suite!SpecCoverage
  <2>1. /\ at = "coverage" /\ UNCHANGED <<repo, inventory, gate, image, env, files, did, doc>>
        /\ Suite!Then("api", ~Suite!Covered(repo))
    BY <1>7 DEF Suite!SpecCoverage, Suite!source
  <2>2. /\ at' \in {"fold", "api"} /\ failed' \in BOOLEAN /\ (at' = "api" => ~failed')
    BY <2>1 DEF Suite!Then
  <2>3. ~failed
    BY <2>1 DEF SuiteInv, Happened, Suite!Running
  <2>4. SuiteTypes'
    BY <2>1, <2>2 DEF SuiteInv, SuiteTypes, Suite!Range
  <2>5. Happened'
    BY <2>1, <2>2, <2>3 DEF SuiteInv, Happened, Possible, Suite!Running, Suite!Range
  <2>6. Current'
    BY <2>1 DEF SuiteInv, Current
  <2> QED
    BY <2>2, <2>4, <2>5, <2>6 DEF SuiteInv
<1>8. ASSUME NEW raw \in [repo.api -> {"passed", "failed", "skipped"}], Suite!ApiTests(raw)
      PROVE  SuiteInv'
  <2> DEFINE cases ==
               {[suite |-> "api", name |-> t, file |-> "api", raw |-> raw[t]] : t \in repo.api}
             bad == \E t \in repo.api : raw[t] = "failed"
             report == [at |-> "whole", cases |-> cases]
  <2>1. /\ at = "api" /\ did' = did \cup cases
        /\ UNCHANGED <<repo, inventory, gate, image, env, doc>>
        /\ files' = [files EXCEPT !["junit"] = report] /\ Suite!Then("browser", bad)
    BY <1>8 DEF Suite!ApiTests, Suite!source, Suite!Report
  <2>2. \A c \in cases : /\ Suite!StatusOf(c) \in Statuses /\ Possible(c)
                         /\ Suite!StatusOf(c) = "failed" => bad
    BY DEF Suite!StatusOf, Suite!Browser, Statuses, Possible
  <2>3. Suite!Running /\ "junit" \in Reports /\ bad \in BOOLEAN
    BY <2>1 DEF Suite!Running, Reports
  <2>4. report.at \in {"absent", "torn", "whole"} /\ report.cases \subseteq cases
    OBVIOUS
  <2> HIDE DEF cases, bad, report
  <2> QED
    BY <2>1, <2>2, <2>3, <2>4, ReportStep
<1>9. ASSUME NEW raw \in [Suite!Ran -> Attempts], Suite!PlaywrightTests(raw) PROVE SuiteInv'
  <2> DEFINE case(r) == [suite |-> r[1], name |-> r[2].title, file |-> r[2].path, raw |-> raw[r]]
             cases == {case(r) : r \in Suite!Ran}
             bad == \E r \in Suite!Ran : Suite!PwStatus(raw[r]) \in {"failed", "incomplete"}
             report == [at |-> "whole", cases |-> cases]
  <2>1. /\ at = "browser" /\ did' = did \cup cases
        /\ UNCHANGED <<repo, inventory, gate, image, env, doc>>
        /\ files' = [files EXCEPT !["playwright"] = report] /\ Suite!Then("fold", bad)
    BY <1>9 DEF Suite!PlaywrightTests, Suite!source, Suite!Report
  <2>2. ASSUME NEW r \in Suite!Ran
        PROVE  r[1] \in Suite!Browser /\ r[2] \in Suite!SpecsOf(repo, r[1])
    BY DEF Suite!Ran, Suite!Selected, Suite!Browser
  <2>3. ASSUME NEW r \in Suite!Ran
        PROVE  /\ Suite!StatusOf(case(r)) = Suite!PwStatus(raw[r])
               /\ Possible(case(r))
    BY <2>2 DEF Suite!StatusOf, Possible
  <2>4. \A c \in cases : /\ Suite!StatusOf(c) \in Statuses /\ Possible(c)
                         /\ Suite!StatusOf(c) = "failed" => bad
    BY <2>3, AttemptsHold
  <2>5. Suite!Running /\ "playwright" \in Reports /\ bad \in BOOLEAN
    BY <2>1 DEF Suite!Running, Reports
  <2>6. report.at \in {"absent", "torn", "whole"} /\ report.cases \subseteq cases
    OBVIOUS
  <2> HIDE DEF cases, bad, report
  <2> QED
    BY <2>1, <2>4, <2>5, <2>6, ReportStep
<1>10. CASE Suite!Die
  <2>1. /\ Suite!Running /\ Suite!Then("fold", TRUE)
        /\ UNCHANGED <<repo, inventory, gate, image, env, did, doc>>
        /\ \/ UNCHANGED files
           \/ \E how \in {"torn", "whole"} :
                files' = [files EXCEPT !["playwright"] = [at |-> how, cases |-> {}]]
    BY <1>10 DEF Suite!Die, Suite!source, Suite!Report
  <2>2. at' = "fold" /\ failed' = TRUE
    BY <2>1 DEF Suite!Then
  <2>3. doc = Suite!NoDoc \/ doc = [kind |-> "refused"]
    BY <2>1 DEF SuiteInv, Current, Suite!Running
  <2>4. DOMAIN files' = Reports
        /\ \A f \in Reports : /\ files'[f].at \in {"absent", "torn", "whole"}
                              /\ files'[f].cases \subseteq did
    BY <2>1 DEF SuiteInv, SuiteTypes, Happened, Reports
  <2>5. SuiteTypes'
    BY <2>1, <2>2, <2>4 DEF SuiteInv, SuiteTypes, Suite!Range
  <2>6. Happened'
    BY <2>1, <2>2, <2>4 DEF SuiteInv, Happened, Possible, Suite!Running, Suite!Range
  <2> QED
    BY <2>1, <2>2, <2>3, <2>5, <2>6 DEF SuiteInv, Current
<1>11. CASE Suite!FoldReports
  <2>1. /\ at' = "done" /\ UNCHANGED <<repo, inventory, gate, image, env, failed, files, did>>
        /\ doc' \in {Suite!NoDoc, [kind |-> "refused"],
                     [kind |-> "folded", fold |-> Suite!Fold(files, env, inventory)]}
    BY <1>11 DEF Suite!FoldReports, Suite!source
  <2>2. SuiteTypes'
    BY <2>1 DEF SuiteInv, SuiteTypes, Suite!Range
  <2>3. Happened'
    BY <2>1 DEF SuiteInv, Happened, Possible, Suite!Running, Suite!Range
  <2> QED
    BY <2>1, <2>2, <2>3 DEF SuiteInv, Current
<1>12. CASE UNCHANGED Suite!vars
  <2>1. UNCHANGED <<repo, inventory, gate, image, env, at, failed, files, did, doc>>
    BY <1>12 DEF Suite!vars
  <2>2. SuiteTypes'
    BY <2>1 DEF SuiteInv, SuiteTypes, Suite!Range
  <2>3. Happened'
    BY <2>1 DEF SuiteInv, Happened, Possible, Suite!Running, Suite!Range
  <2> QED
    BY <2>1, <2>2, <2>3 DEF SuiteInv, Current
<1> QED
  BY <1>2, <1>3, <1>4, <1>5, <1>6, <1>7, <1>8, <1>9, <1>10, <1>11, <1>12 DEF Suite!Next

\* What a fold says of a suite is said of tests that ran.
LEMMA FoldHolds ==
  ASSUME SuiteInv, Suite!Folded
  PROVE  /\ doc.fold = Suite!Fold(files, env, inventory)
         /\ Suite!AllCases(files) \subseteq did
         /\ \A c \in Suite!AllCases(files) : Suite!StatusOf(c) = "failed" => failed
<1>1. doc.fold = Suite!Fold(files, env, inventory)
  BY DEF SuiteInv, Current, Suite!Folded, Suite!NoDoc
<1>2. ASSUME NEW c \in Suite!AllCases(files)
      PROVE  c \in did /\ (Suite!StatusOf(c) = "failed" => failed)
  <2>1. PICK f \in Reports : c \in files[f].cases
    BY DEF Suite!AllCases, SuiteInv, SuiteTypes
  <2> QED
    BY <2>1 DEF SuiteInv, Happened
<1> QED
  BY <1>1, <1>2

\* A node of the fold: its verdict is of the inventory's tests, each joined with
\* the cases that bear its name.
LEMMA NodeHolds ==
  ASSUME SuiteInv, Suite!Folded, NEW s \in DOMAIN doc.fold.nodes
  PROVE  LET tests == Suite!Join(inventory[s], Suite!CasesOf(files, s))
         IN  doc.fold.nodes[s].status = Suite!SuiteStatus(Suite!Range(tests))
<1>1. doc.fold = Suite!Fold(files, env, inventory)
  BY FoldHolds
<1> QED
  BY <1>1 DEF Suite!Fold

\* The verdict on one test is that of a case of its name, or not_run.
LEMMA EntryHolds ==
  ASSUME NEW name, NEW cases, Suite!Entry(name, cases) # "not_run"
  PROVE  \E c \in cases : c.name = name /\ Suite!StatusOf(c) = Suite!Entry(name, cases)
<1> DEFINE said == {c \in cases : c.name = name}
           one == CHOOSE c \in said : TRUE
<1>1. said # {} /\ Suite!Entry(name, cases) = Suite!StatusOf(one)
  BY DEF Suite!Entry
<1>2. one \in said
  BY <1>1
<1> QED
  BY <1>1, <1>2

LEMMA SuitePromises == SuiteInv => VerdictsHold
<1> SUFFICES ASSUME SuiteInv PROVE VerdictsHold
  OBVIOUS
<1> DEFINE tests(s) == Suite!Join(inventory[s], Suite!CasesOf(files, s))
           verdictOn(s, t) == Suite!Entry(t, Suite!CasesOf(files, s))
<1>1. ASSUME NEW s PROVE Suite!Range(tests(s)) = {verdictOn(s, t) : t \in inventory[s]}
  BY DEF Suite!Range, Suite!Join
<1>2. ASSUME Suite!Folded, NEW s \in DOMAIN doc.fold.nodes, NEW t,
             verdictOn(s, t) # "not_run"
      PROVE  \E c \in did : /\ c.suite = s /\ c.name = t
                            /\ Suite!StatusOf(c) = verdictOn(s, t)
                            /\ Suite!StatusOf(c) \in Statuses
                            /\ Suite!StatusOf(c) = "failed" => failed
  <2>1. PICK c \in Suite!CasesOf(files, s) : c.name = t /\ Suite!StatusOf(c) = verdictOn(s, t)
    BY <1>2, EntryHolds
  <2>2. c \in Suite!AllCases(files) /\ c.suite = s
    BY DEF Suite!CasesOf
  <2>3. c \in did /\ (Suite!StatusOf(c) = "failed" => failed)
    BY <1>2, <2>2, FoldHolds
  <2>4. Suite!StatusOf(c) \in Statuses
    BY <2>3 DEF SuiteInv, Happened
  <2> HIDE DEF verdictOn
  <2> QED
    BY <2>1, <2>2, <2>3, <2>4
<1> HIDE DEF tests, verdictOn
<1>3. ASSUME Suite!Folded, NEW s \in DOMAIN doc.fold.nodes
      PROVE  doc.fold.nodes[s].status = Suite!SuiteStatus({verdictOn(s, t) : t \in inventory[s]})
  <2>1. doc.fold.nodes[s].status = Suite!SuiteStatus(Suite!Range(tests(s)))
    BY <1>3, NodeHolds DEF tests
  <2> QED
    BY <1>1, <2>1
<1>4. Suite!TypeOK
  <2>1. ASSUME Suite!Folded, NEW s \in DOMAIN doc.fold.nodes
        PROVE  doc.fold.nodes[s].status \in {"passed", "failed", "incomplete"}
    BY <1>3, <2>1 DEF Suite!SuiteStatus
  <2>2. doc.kind \in {"none", "refused", "folded"}
    BY DEF SuiteInv, Current, Suite!NoDoc
  <2> QED
    BY <2>1, <2>2 DEF Suite!TypeOK, SuiteInv, SuiteTypes
<1>5. Suite!GreenMeansRan
  <2> SUFFICES ASSUME Suite!Folded, NEW s \in DOMAIN doc.fold.nodes,
                      doc.fold.nodes[s].status = "passed"
               PROVE  LET ran == {c \in did : c.suite = s}
                      IN  /\ \A t \in inventory[s] : \E c \in ran :
                               c.name = t /\ Suite!StatusOf(c) \in {"passed", "skipped"}
                          /\ \E c \in ran : Suite!StatusOf(c) = "passed"
    BY DEF Suite!GreenMeansRan
  <2> DEFINE verdicts == {verdictOn(s, t) : t \in inventory[s]}
  <2>1. /\ "failed" \notin verdicts /\ "incomplete" \notin verdicts /\ "not_run" \notin verdicts
        /\ ~(verdicts \subseteq {"skipped"})
    BY <1>3 DEF Suite!SuiteStatus
  <2>2. ASSUME NEW t \in inventory[s]
        PROVE  \E c \in did : /\ c.suite = s /\ c.name = t
                              /\ Suite!StatusOf(c) = verdictOn(s, t)
                              /\ verdictOn(s, t) \in {"passed", "skipped"}
    <3>1. verdictOn(s, t) \in verdicts
      OBVIOUS
    <3>2. verdictOn(s, t) \notin {"failed", "incomplete", "not_run"}
      BY <2>1, <3>1
    <3> QED
      BY <1>2, <3>2 DEF Statuses
  <2>3. PICK t \in inventory[s] : verdictOn(s, t) # "skipped"
    BY <2>1
  <2> HIDE DEF verdicts
  <2> QED
    BY <2>2, <2>3
<1>6. Suite!RedIsReal
  <2> SUFFICES ASSUME Suite!Folded, NEW s \in DOMAIN doc.fold.nodes,
                      doc.fold.nodes[s].status = "failed"
               PROVE  failed /\ \E c \in did : c.suite = s /\ Suite!StatusOf(c) = "failed"
    BY DEF Suite!RedIsReal
  <2>1. PICK t \in inventory[s] : verdictOn(s, t) = "failed"
    BY <1>3 DEF Suite!SuiteStatus
  <2>2. verdictOn(s, t) # "not_run"
    BY <2>1
  <2> QED
    BY <1>2, <2>1, <2>2
<1>7. Suite!NothingUnknown
  <2> SUFFICES ASSUME Suite!Folded, gate = "clean", image = repo.db,
                      NEW s \in DOMAIN doc.fold.unknown
               PROVE  doc.fold.unknown[s] = {}
    BY DEF Suite!NothingUnknown
  <2>1. /\ doc.fold.unknown[s] = Suite!Unknown(inventory[s], Suite!CasesOf(files, s))
        /\ inventory = Suite!Collect(repo)
    BY FoldHolds DEF Suite!Fold, SuiteInv, Current
  <2>2. ASSUME NEW c \in Suite!CasesOf(files, s) PROVE c.name \in inventory[s]
    <3>1. c \in did /\ c.suite = s
      BY FoldHolds DEF Suite!CasesOf
    <3>2. Possible(c) /\ repo \in Repos
      BY <3>1 DEF SuiteInv, Happened, SuiteTypes
    <3>3. CASE s = "api"
      <4>1. inventory[s] = repo.api
        BY <2>1, <3>3 DEF Suite!Collect, Suite!SuiteNames
      <4> QED
        BY <3>1, <3>2, <3>3, <4>1 DEF Possible, Suite!Browser
    <3>4. CASE s = "db"
      <4>1. inventory[s] = Suite!Range(repo.db)
        BY <2>1, <3>4 DEF Suite!Collect, Suite!SuiteNames, Suite!CollectScript
      <4> QED
        BY <3>1, <3>2, <3>4, <4>1 DEF Possible, Suite!Browser
    <3>5. CASE s \in Suite!Browser
      <4>1. inventory[s] = {spec.title : spec \in Suite!OnlyOf(repo, s)}
        BY <2>1, <3>5 DEF Suite!Collect, Suite!SuiteNames, Suite!Browser, Suite!CollectPlaywright
      <4>2. PICK spec \in Suite!SpecsOf(repo, s) : c.name = spec.title
        BY <3>1, <3>2, <3>5 DEF Possible, Suite!Browser
      <4>3. Suite!ProjectsOf(spec) = {s} /\ spec \in repo.specs
        BY <3>2, <4>2, TestsAssumption DEF Suite!SpecsOf
      <4> QED
        BY <4>1, <4>2, <4>3 DEF Suite!OnlyOf
    <3> QED
      BY <3>1, <3>2, <3>3, <3>4, <3>5 DEF Possible
  <2> QED
    BY <2>1, <2>2 DEF Suite!Unknown
<1> QED
  BY <1>4, <1>5, <1>6, <1>7 DEF VerdictsHold

\* A verdict on the board is one the run reached: a green suite had every test
\* of its inventory run and none fail, a red one holds a test that failed in a
\* job that failed, and a clean gate leaves no test unknown; for any repositories
\* and attempts, with logs cut short, steps killed and edits between runs.
THEOREM VerdictsAreReal == Suite!Spec => []VerdictsHold
BY SuiteInit, SuiteStep, SuitePromises, PTL DEF Suite!Spec

-----------------------------------------------------------------------------
(* The list of gates                                                       *)

ListTypes ==
  /\ makefile \subseteq Targets /\ ci \subseteq CiLines /\ machine \subseteq Capabilities
  /\ list \in [Targets -> Entries \cup {None}]
  /\ run \in [at : {"none", "refused", "running", "green", "red"}, full : BOOLEAN,
              have : SUBSET Capabilities, todo : SUBSET Targets, ok : SUBSET Targets,
              bad : SUBSET Targets]

\* The gates a run has tried and those it has yet to try are those it set out
\* for, in a repository nothing was refused of.
Under  == run.at \in {"running", "green", "red"}
SetOut == List!LocalGates \cup (IF run.full THEN List!Extra(run.have) ELSE {})
Tried ==
  /\ Under => ~List!Problems /\ run.todo \cup run.ok \cup run.bad = SetOut
  /\ ~Under => run.todo \cup run.ok \cup run.bad = {}
  /\ run.todo \cap (run.ok \cup run.bad) = {} /\ run.ok \cap run.bad = {}
  /\ run.at = "green" => run.todo = {} /\ run.bad = {}

ListInv == ListTypes /\ Tried

LEMMA ListInit == List!Init => ListInv
BY RunnersAreTargets DEF List!Init, List!NoRun, ListInv, ListTypes, Tried, Under

\* What a run set out for, and whether it was refused, is the files' alone.
LEMMA SameFiles ==
  ASSUME UNCHANGED <<makefile, ci, list>>
  PROVE  /\ List!Problems' <=> List!Problems
         /\ List!LocalGates' = List!LocalGates
         /\ \A have : List!Extra(have)' = List!Extra(have)
BY DEF List!Problems, List!LocalGates, List!Listed, List!RowRefused, List!Discovered,
       List!CiTargets, List!Extra

LEMMA ListStep == ListInv /\ [List!Next]_(List!vars) => ListInv'
<1> SUFFICES ASSUME ListInv, [List!Next]_(List!vars) PROVE ListInv'
  OBVIOUS
<1> USE DEF ListInv
<1>1. ASSUME List!Edited, makefile' \subseteq Targets, ci' \subseteq CiLines,
             list' \in [Targets -> Entries \cup {None}]
      PROVE  ListInv'
  BY <1>1 DEF List!Edited, List!NoRun, ListTypes, Tried, Under
<1>2. ASSUME NEW t \in Targets, List!EditMakefile(t) PROVE ListInv'
  BY <1>1, <1>2 DEF List!EditMakefile, ListTypes
<1>3. ASSUME NEW line \in CiLines, List!EditCi(line) PROVE ListInv'
  BY <1>1, <1>3 DEF List!EditCi, ListTypes
<1>4. ASSUME NEW t \in Targets, NEW entry \in Entries \cup {None}, List!EditList(t, entry)
      PROVE  ListInv'
  BY <1>1, <1>4 DEF List!EditList, ListTypes
<1>5. ASSUME UNCHANGED <<makefile, ci, list>>, UNCHANGED run, machine' \subseteq Capabilities
      PROVE  ListInv'
  BY <1>5, SameFiles DEF ListTypes, Tried, Under, SetOut
<1>6. ASSUME NEW c \in Capabilities, List!MachineChanges(c) PROVE ListInv'
  BY <1>5, <1>6 DEF List!MachineChanges, ListTypes
<1>7. ASSUME NEW full \in BOOLEAN, List!StartRun(full) PROVE ListInv'
  <2>1. UNCHANGED <<makefile, ci, list>> /\ UNCHANGED machine
    BY <1>7 DEF List!StartRun
  <2>2. List!LocalGates \subseteq Targets /\ \A have : List!Extra(have) \subseteq Targets
    BY DEF List!LocalGates, List!Listed, List!Extra
  <2>3. CASE List!Problems
    <3>1. run' = [List!NoRun EXCEPT !.at = "refused"]
      BY <1>7, <2>3 DEF List!StartRun
    <3> QED
      BY <2>1, <3>1 DEF List!NoRun, ListTypes, Tried, Under
  <2>4. CASE ~List!Problems
    <3>1. run' = [at |-> "running", full |-> full, have |-> IF full THEN machine ELSE {},
                  todo |-> List!LocalGates \cup (IF full THEN List!Extra(machine) ELSE {}),
                  ok |-> {}, bad |-> {}]
      BY <1>7, <2>4 DEF List!StartRun
    <3>2. ListTypes'
      BY <2>1, <2>2, <3>1 DEF ListTypes
    <3>3. run'.todo \cup run'.ok \cup run'.bad = SetOut'
      BY <2>1, <3>1, SameFiles DEF SetOut
    <3> QED
      BY <2>1, <2>4, <3>1, <3>2, <3>3, SameFiles DEF Tried, Under
  <2> QED
    BY <2>3, <2>4
<1>8. ASSUME NEW t \in Targets, NEW passes \in BOOLEAN, List!Attempt(t, passes) PROVE ListInv'
  <2>1. UNCHANGED <<makefile, ci, list>> /\ UNCHANGED machine
    BY <1>8 DEF List!Attempt
  <2>2. /\ run.at = "running" /\ t \in run.todo
        /\ run' = [at |-> "running", full |-> run.full, have |-> run.have,
                   todo |-> run.todo \ {t},
                   ok  |-> IF passes THEN run.ok \cup {t} ELSE run.ok,
                   bad |-> IF passes THEN run.bad ELSE run.bad \cup {t}]
    BY <1>8 DEF List!Attempt
  <2>3. ListTypes'
    BY <2>1, <2>2 DEF ListTypes
  <2>4. run'.todo \cup run'.ok \cup run'.bad = run.todo \cup run.ok \cup run.bad
    BY <2>2
  <2>5. SetOut' = SetOut
    BY <2>1, <2>2, SameFiles DEF SetOut
  <2>6. run'.todo \cap (run'.ok \cup run'.bad) = {} /\ run'.ok \cap run'.bad = {}
    BY <2>2 DEF Tried
  <2> QED
    BY <2>1, <2>2, <2>3, <2>4, <2>5, <2>6, SameFiles DEF Tried, Under
<1>9. ASSUME List!Finish PROVE ListInv'
  <2>1. UNCHANGED <<makefile, ci, list>> /\ UNCHANGED machine
    BY <1>9 DEF List!Finish
  <2>2. /\ run.at = "running" /\ run.todo = {}
        /\ run' = [run EXCEPT !.at = IF run.bad = {} THEN "green" ELSE "red"]
    BY <1>9 DEF List!Finish
  <2>3. ListTypes'
    BY <2>1, <2>2 DEF ListTypes
  <2>4. /\ run'.todo = run.todo /\ run'.ok = run.ok /\ run'.bad = run.bad
        /\ run'.full = run.full /\ run'.have = run.have
        /\ run'.at = IF run.bad = {} THEN "green" ELSE "red"
    BY <2>2 DEF ListTypes
  <2>5. SetOut' = SetOut
    BY <2>1, <2>4, SameFiles DEF SetOut
  <2> QED
    BY <2>1, <2>2, <2>3, <2>4, <2>5, SameFiles DEF Tried, Under
<1>10. CASE UNCHANGED List!vars
  BY <1>5, <1>10 DEF List!vars, ListTypes
<1> QED
  BY <1>2, <1>3, <1>4, <1>6, <1>7, <1>8, <1>9, <1>10 DEF List!Next

LEMMA ListPromises == ListInv => GatesHold
<1> SUFFICES ASSUME ListInv PROVE GatesHold
  OBVIOUS
<1> USE DEF ListInv
<1>1. Under => /\ List!Listed \subseteq makefile /\ List!Discovered \subseteq List!Listed
               /\ run.todo \cup run.ok \cup run.bad \subseteq List!Listed
  BY DEF Tried, SetOut, List!Problems, List!LocalGates, List!Extra
<1>2. List!TypeOK
  <2>1. run.todo \cup run.ok \cup run.bad \subseteq makefile
    BY <1>1 DEF Tried
  <2> QED
    BY <2>1 DEF List!TypeOK, ListTypes, Tried
<1>3. ASSUME run.at = "green", NEW t \in Targets \ {Runner, Checker},
             t \in makefile \cap GateLike \/ \E line \in ci : line[1] = t,
             t \notin run.ok
      PROVE  t \in List!Listed /\ ~list[t].local
             /\ (~run.full \/ list[t].step \/ ~(list[t].requires \subseteq run.have))
  <2>1. t \in List!Listed
    BY <1>1, <1>3 DEF Under, List!Discovered, List!CiTargets
  <2>2. t \notin SetOut
    BY <1>3 DEF Tried, Under
  <2> QED
    BY <2>1, <2>2 DEF SetOut, List!LocalGates, List!Extra
<1>4. List!GreenIsWhole
  BY <1>3 DEF List!GreenIsWhole
<1>5. List!NeverBlind
  BY DEF List!NeverBlind, Tried, Under, SetOut, List!LocalGates, List!Extra
<1> QED
  BY <1>2, <1>4, <1>5 DEF GatesHold

\* A green run of the list answers for every gate the repository has, by name,
\* by recipe or by a line of ci.yml, and no gate was tried that the machine was
\* found unable to run, through any edits and changes of the machine.
THEOREM GreenAnswers == List!Spec => []GatesHold
BY ListInit, ListStep, ListPromises, PTL DEF List!Spec

-----------------------------------------------------------------------------
(* The rate table                                                          *)

CostTypes ==
  /\ DOMAIN config = CycleLevels /\ blocks \in [CycleLevels -> SUBSET Kinds]
  /\ calls \in [CycleLevels -> SUBSET DOMAIN Modules]
  /\ buckets \in [Cost!Buckets -> SUBSET Kinds]
  /\ aws \in [DOMAIN Queries -> Offers] /\ captures \in 0..Captures
  /\ verdict \in {None, "clean", "findings"}

\* A table is of one capture, and every figure of it is a price.
TableIsWhole ==
  table # None => /\ DOMAIN table = DOMAIN Queries
                  /\ \E n \in 1..captures : \A q \in DOMAIN Queries :
                       table[q].usd \in Nat /\ table[q].usd > 0 /\ table[q].run = n

\* A verdict is of the repository as it stands.
CostInv == CostTypes /\ TableIsWhole /\ (verdict = "clean" => Cost!Clean)

LEMMA CostInit == Cost!Init => CostInv
BY PricesAssumption DEF Cost!Init, CostInv, CostTypes, TableIsWhole

LEMMA BucketsFinite == IsFiniteSet(Cost!Buckets)
<1>1. IsFiniteSet({"priced"}) /\ IsFiniteSet({"free"}) /\ IsFiniteSet({"not_metered"})
  BY FS_Singleton
<1>2. Cost!Buckets = ({"priced"} \cup {"free"}) \cup {"not_metered"}
  BY DEF Cost!Buckets
<1> QED
  BY <1>1, <1>2, FS_Union

\* The module's own cardinality is the library's.
LEMMA CostCardinality == ASSUME NEW S PROVE Cost!Cardinality(S) = Cardinality(S)
BY DEF Cost!Cardinality, Cardinality

\* The rows of a capture whose queries identified their price.
LEMMA CapturedRows ==
  ASSUME CostInv, \A q \in DOMAIN Queries : Cost!Identified(aws[q]), captures < Captures
  PROVE  LET rows == Cost!Rows(DOMAIN Queries)
         IN  /\ DOMAIN rows = DOMAIN Queries
             /\ \A q \in DOMAIN Queries :
                  rows[q].usd \in Nat /\ rows[q].usd > 0 /\ rows[q].run = captures + 1
<1>1. ASSUME NEW q \in DOMAIN Queries
      PROVE  LET offer == CHOOSE o \in aws[q] : o.usd # 0
             IN  offer.usd \in Nat /\ offer.usd > 0
  <2>1. Cost!Figures(aws[q]) # {}
    BY FS_EmptySet, CostCardinality DEF Cost!Identified
  <2>2. \E o \in aws[q] : o.usd # 0
    BY <2>1 DEF Cost!Figures
  <2>3. \A o \in aws[q] : o.usd \in Nat
    BY PricesAssumption DEF CostInv, CostTypes
  <2> DEFINE offer == CHOOSE o \in aws[q] : o.usd # 0
  <2>4. offer \in aws[q] /\ offer.usd # 0
    BY <2>2
  <2> QED
    BY <2>3, <2>4
<1> QED
  BY <1>1 DEF Cost!Rows

LEMMA CostStep == CostInv /\ [Cost!Next]_(Cost!vars) => CostInv'
<1> SUFFICES ASSUME CostInv, [Cost!Next]_(Cost!vars) PROVE CostInv'
  OBVIOUS
<1>0. ASSUME UNCHANGED <<config, blocks, calls, buckets, table>> PROVE Cost!Clean' <=> Cost!Clean
  <2>1. Cost!Declared' = Cost!Declared
    BY <1>0 DEF Cost!Declared, Cost!KindsOf
  <2>2. Cost!Misplaced' = Cost!Misplaced /\ Cost!Stale' = Cost!Stale
    BY <1>0, <2>1 DEF Cost!Misplaced, Cost!Stale
  <2>3. Cost!Unpriced' = Cost!Unpriced /\ Cost!Unsourced' = Cost!Unsourced
    BY <1>0 DEF Cost!Unpriced, Cost!Unsourced
  <2> QED
    BY <1>0, <2>2, <2>3 DEF Cost!Clean
<1>1. ASSUME NEW failing, Cost!FetchRates(failing) PROVE CostInv'
  <2>1. /\ table' = Cost!Rows(DOMAIN Queries) /\ captures' = captures + 1 /\ verdict' = None
        /\ UNCHANGED <<config, blocks, calls, buckets, aws>> /\ captures < Captures
        /\ \A q \in DOMAIN Queries : Cost!Identified(aws[q])
    BY <1>1 DEF Cost!FetchRates
  <2>2. captures \in Nat /\ captures' \in 0..Captures /\ captures + 1 \in 1..captures'
    BY <2>1, PricesAssumption DEF CostInv, CostTypes
  <2>3. TableIsWhole'
    BY <2>1, <2>2, CapturedRows DEF TableIsWhole
  <2> QED
    BY <2>1, <2>2, <2>3, PricesAssumption DEF CostInv, CostTypes
<1>2. CASE Cost!Check
  <2>1. UNCHANGED <<config, blocks, calls, buckets, aws, table, captures>>
        /\ verdict' = IF Cost!Clean THEN "clean" ELSE "findings"
    BY <1>2 DEF Cost!Check
  <2>2. Cost!Clean' <=> Cost!Clean
    BY <2>1, <1>0
  <2> QED
    BY <2>1, <2>2 DEF CostInv, CostTypes, TableIsWhole
<1>3. ASSUME Cost!Edited, UNCHANGED <<aws, table, captures>>, DOMAIN config' = CycleLevels,
             blocks' \in [CycleLevels -> SUBSET Kinds],
             calls' \in [CycleLevels -> SUBSET DOMAIN Modules],
             buckets' \in [Cost!Buckets -> SUBSET Kinds]
      PROVE  CostInv'
  BY <1>3, PricesAssumption DEF Cost!Edited, CostInv, CostTypes, TableIsWhole
<1>4. ASSUME NEW l \in CycleLevels, NEW c \in Sizes[l], Cost!Resize(l, c) PROVE CostInv'
  BY <1>3, <1>4 DEF Cost!Resize, CostInv, CostTypes
<1>5. ASSUME NEW l \in CycleLevels, NEW k \in Kinds, Cost!EditBlocks(l, k) PROVE CostInv'
  BY <1>3, <1>5 DEF Cost!EditBlocks, Cost!Toggled, CostInv, CostTypes
<1>6. ASSUME NEW l \in CycleLevels, NEW m \in DOMAIN Modules, Cost!EditCalls(l, m) PROVE CostInv'
  BY <1>3, <1>6 DEF Cost!EditCalls, Cost!Toggled, CostInv, CostTypes
<1>7. ASSUME NEW b \in Cost!Buckets, NEW k \in Kinds, Cost!EditModel(b, k) PROVE CostInv'
  BY <1>3, <1>7 DEF Cost!EditModel, Cost!Toggled, CostInv, CostTypes
<1>8. ASSUME UNCHANGED <<config, blocks, calls, buckets, table, captures, verdict>>,
             aws' \in [DOMAIN Queries -> Offers]
      PROVE  CostInv'
  <2>1. Cost!Clean' <=> Cost!Clean
    BY <1>8, <1>0
  <2> QED
    BY <1>8, <2>1 DEF CostInv, CostTypes, TableIsWhole
<1>9. ASSUME NEW q \in DOMAIN Queries, NEW offers \in Offers, Cost!PriceChanges(q, offers)
      PROVE  CostInv'
  BY <1>8, <1>9 DEF Cost!PriceChanges, CostInv, CostTypes
<1>10. CASE UNCHANGED Cost!vars
  BY <1>8, <1>10 DEF Cost!vars, CostInv, CostTypes
<1> QED
  BY <1>1, <1>2, <1>4, <1>5, <1>6, <1>7, <1>9, <1>10 DEF Cost!Next

\* A kind a clean gate has let through is in one bucket.
LEMMA OneBucket ==
  ASSUME CostTypes, Cost!Clean, NEW l \in CycleLevels, NEW k \in Cost!KindsOf(l)
  PROVE  \E b \in Cost!Buckets : \A c \in Cost!Buckets : k \in buckets[c] <=> c = b
<1> DEFINE holds == {b \in Cost!Buckets : k \in buckets[b]}
<1>1. Cardinality(holds) = 1
  BY CostCardinality DEF Cost!Clean, Cost!Misplaced, Cost!Declared
<1>2. IsFiniteSet(holds)
  BY BucketsFinite, FS_Subset
<1>3. PICK b : holds = {b}
  BY <1>1, <1>2, FS_Singleton
<1> QED
  BY <1>3

LEMMA CostPromises == CostInv => RatesHold
<1> SUFFICES ASSUME CostInv PROVE RatesHold
  OBVIOUS
<1>1. Cost!TypeOK
  <2>1. ASSUME table # None, NEW q \in DOMAIN table
        PROVE  table[q].usd > 0 /\ table[q].run <= captures
    BY <2>1, PricesAssumption DEF CostInv, CostTypes, TableIsWhole
  <2> QED
    BY <2>1 DEF Cost!TypeOK, CostInv, CostTypes
<1>2. Cost!TableIsOneCapture
  BY DEF Cost!TableIsOneCapture, CostInv, TableIsWhole
<1>3. ASSUME verdict = "clean", NEW l \in CycleLevels,
             NEW k \in blocks[l] \cup UNION {Modules[m] : m \in calls[l]}
      PROVE  /\ Cost!MeteredAs(k) # "unpriced"
             /\ k \in buckets["priced"] =>
                  Cost!MeteredAs(k) = "priced" /\ Components[k] \subseteq DOMAIN table
  <2>1. Cost!Clean /\ CostTypes /\ k \in Cost!KindsOf(l)
    BY <1>3 DEF CostInv, Cost!KindsOf
  <2>2. PICK b \in Cost!Buckets : \A c \in Cost!Buckets : k \in buckets[c] <=> c = b
    BY <2>1, OneBucket
  <2>3. k \in buckets["priced"] => Components[k] \subseteq DOMAIN table
    BY <2>1 DEF Cost!Clean, Cost!Unpriced
  <2> QED
    BY <2>2, <2>3 DEF Cost!MeteredAs, Cost!Buckets
<1> QED
  BY <1>1, <1>2, <1>3 DEF RatesHold, Cost!NoSilentZero

\* Behind a clean gate no resource of a level is left out of the estimate, taken
\* for free although it has a price, or priced by a figure the table lacks; and
\* no table mixes the figures of two captures, through any edits and prices.
THEOREM NoSilentZeros == Cost!Spec => []RatesHold
BY CostInit, CostStep, CostPromises, PTL DEF Cost!Spec

-----------------------------------------------------------------------------
(* The migration of the map's schema                                       *)

\* A nonempty set of naturals has a least element.
LEMMA Least == ASSUME NEW T \in SUBSET Nat, T # {} PROVE \E x \in T : \A y \in T : ~(y < x)
<1>1. PICK x \in T : \A y \in T : <<y, x>> \notin OpToRel(<, Nat)
  BY NatLessThanWellFounded, WFMin, Zenon
<1> QED
  BY <1>1 DEF OpToRel

\* What an edit applied in sequence leaves after each of the edits.
InTurn(f, g) ==
  [i \in 0..TextFiles[f] |->
     IF i = 0 THEN text[f]
     ELSE IF i \in Schema!Here(f) THEN Schema!Replaced(g[i - 1], f, i) ELSE g[i - 1]]

\* The recursion has one solution: whatever follows the edits is the plan.
LEMMA PlanFollows ==
  ASSUME NEW f, TextFiles[f] \in Nat, NEW g, g = InTurn(f, g)
  PROVE  Schema!PlanText(f) = g[TextFiles[f]]
<1> DEFINE n == TextFiles[f]
           after == CHOOSE h : h = InTurn(f, h)
<1>1. Schema!PlanText(f) = after[n]
  BY DEF Schema!PlanText, InTurn
<1>2. after = InTurn(f, after)
  BY Zenon
<1> HIDE DEF after
<1> DEFINE differ == {k \in 0..n : after[k] # g[k]}
<1>3. ASSUME differ # {} PROVE FALSE
  <2>0. differ \in SUBSET Nat
    OBVIOUS
  <2>1. PICK k \in differ : \A j \in differ : ~(j < k)
    <3> HIDE DEF differ
    <3> QED
      BY <1>3, <2>0, Least
  <2>2. CASE k = 0
    <3>1. after[k] = text[f]
      BY <1>2, <2>2 DEF InTurn
    <3>2. g[k] = text[f]
      BY <2>2 DEF InTurn
    <3> QED
      BY <2>1, <3>1, <3>2
  <2>3. CASE k # 0
    <3>1. k - 1 \in 0..n /\ k - 1 < k /\ k \in 0..n
      BY <2>1, <2>3
    <3>2. after[k - 1] = g[k - 1]
      BY <2>1, <3>1
    <3>3. after[k] = IF k \in Schema!Here(f)
                     THEN Schema!Replaced(after[k - 1], f, k) ELSE after[k - 1]
      BY <1>2, <2>3, <3>1 DEF InTurn
    <3>4. g[k] = IF k \in Schema!Here(f) THEN Schema!Replaced(g[k - 1], f, k) ELSE g[k - 1]
      BY <2>3, <3>1 DEF InTurn
    <3> QED
      BY <2>1, <3>2, <3>3, <3>4
  <2> QED
    BY <2>2, <2>3
<1> QED
  BY <1>1, <1>3

\* How often an anchor and its replacement occur: an edit of the migration's
\* own has removed the anchor.
Counts == [anchor : 0..MaxCopies, done : 0..MaxCopies] \cup [anchor : {0}, done : 0..MaxCopies + 1]
Written(content) == [i \in DOMAIN content |-> [anchor |-> 0, done |-> content[i].done + 1]]

\* A file none of whose edits is there is planned with all of them, each once.
LEMMA PlanWrites ==
  ASSUME NEW f, TextFiles[f] \in Nat, text[f] \in [1..TextFiles[f] -> Counts],
         Schema!Here(f) = 1..TextFiles[f], \A i \in 1..TextFiles[f] : <<f, i>> \notin contained
  PROVE  Schema!PlanText(f) = Written(text[f])
<1> DEFINE n == TextFiles[f]
           g == [k \in 0..n |-> [i \in 1..n |->
                  IF i <= k THEN [anchor |-> 0, done |-> text[f][i].done + 1] ELSE text[f][i]]]
<1>1. g[0] = text[f]
  OBVIOUS
<1>2. ASSUME NEW k \in 1..n PROVE g[k] = Schema!Replaced(g[k - 1], f, k)
  <2>1. text[f][k].anchor = 1
    BY DEF Schema!Here
  <2>2. k - 1 \in 0..n /\ ~(k <= k - 1)
    OBVIOUS
  <2>3. g[k - 1] = [i \in 1..n |->
          IF i <= k - 1 THEN [anchor |-> 0, done |-> text[f][i].done + 1] ELSE text[f][i]]
    BY <2>2
  <2>4. g[k - 1][k] = text[f][k]
    BY <2>2, <2>3
  <2> DEFINE content == g[k - 1]
             new == [anchor |-> 0, done |-> text[f][k].done + 1]
  <2>5. DOMAIN content = 1..n /\ content[k] = text[f][k]
    BY <2>3, <2>4
  <2>6. Schema!Replaced(content, f, k) = [content EXCEPT ![k] = new]
    <3> HIDE DEF content
    <3>1. /\ <<f, k>> \notin contained /\ content[k].anchor - 1 = 0
          /\ content[k].done = text[f][k].done
      BY <2>1, <2>5
    <3>2. Schema!Replaced(content, f, k) = [content EXCEPT ![k] =
             [anchor |-> IF <<f, k>> \in contained THEN content[k].anchor
                         ELSE content[k].anchor - 1,
              done   |-> content[k].done + 1]]
      BY DEF Schema!Replaced
    <3> QED
      BY <3>1, <3>2
  <2>7. ASSUME NEW i \in 1..n PROVE g[k][i] = IF i = k THEN new ELSE content[i]
    BY <2>3
  <2>8. g[k] = [i \in 1..n |->
          IF i <= k THEN [anchor |-> 0, done |-> text[f][i].done + 1] ELSE text[f][i]]
    BY k \in 0..n
  <2>9. \A i \in 1..n : g[k][i] =
          IF i <= k THEN [anchor |-> 0, done |-> text[f][i].done + 1] ELSE text[f][i]
    BY <2>8
  <2> HIDE DEF g, content
  <2>10. [content EXCEPT ![k] = new] = [i \in 1..n |-> IF i = k THEN new ELSE content[i]]
    BY <2>5
  <2> QED
    BY <2>6, <2>7, <2>8, <2>9, <2>10 DEF content
<1>3. g = InTurn(f, g)
  <2>1. ASSUME NEW k \in 0..n, k # 0 PROVE k \in 1..n /\ k \in Schema!Here(f)
    BY <2>1
  <2>2. \A k \in 0..n : g[k] = IF k = 0 THEN text[f] ELSE IF k \in Schema!Here(f)
                               THEN Schema!Replaced(g[k - 1], f, k) ELSE g[k - 1]
    BY <1>1, <1>2, <2>1
  <2>3. g = [k \in 0..n |-> g[k]]
    OBVIOUS
  <2> HIDE DEF g
  <2> QED
    BY <2>2, <2>3 DEF InTurn
<1>4. Schema!PlanText(f) = g[n]
  BY <1>3, PlanFollows
<1>5. g[n] = Written(text[f])
  <2>1. g[n] = [i \in 1..n |->
          IF i <= n THEN [anchor |-> 0, done |-> text[f][i].done + 1] ELSE text[f][i]]
    OBVIOUS
  <2>2. DOMAIN text[f] = 1..n /\ \A i \in 1..n : i <= n
    OBVIOUS
  <2> HIDE DEF g
  <2> QED
    BY <2>1, <2>2 DEF Written
<1> QED
  BY <1>4, <1>5

\* A file all of whose edits are there is planned as it is.
LEMMA PlanLeaves ==
  ASSUME NEW f, TextFiles[f] \in Nat, Schema!There(f) = 1..TextFiles[f]
  PROVE  Schema!PlanText(f) = text[f]
<1> DEFINE g == [k \in 0..TextFiles[f] |-> text[f]]
<1>1. Schema!Here(f) = {}
  BY DEF Schema!There, Schema!Here
<1>2. g = InTurn(f, g)
  BY <1>1 DEF InTurn
<1>3. Schema!PlanText(f) = g[TextFiles[f]]
  BY <1>2, PlanFollows
<1> QED
  BY <1>3

SchemaTypes ==
  /\ contained \in Slips /\ DOMAIN text = DOMAIN TextFiles
  /\ \A f \in DOMAIN TextFiles : text[f] \in [1..TextFiles[f] -> Counts]
  /\ data \in [DataFiles -> {"old", "new", "strange"}] /\ snapshot \in {"old", "new"}
  /\ pc \in {"idle", "writing", "refresh"} /\ exit \in {0, 2, 3, Schema!Unknown}
  /\ runs \in 0..Runs /\ DOMAIN planned \subseteq Schema!AllFiles

\* What a run makes of the file it began with.
Goal(f) == IF f \in DataFiles THEN "new" ELSE Written(Schema!Was(f))

\* While a run is under way, a file is what it was and about to be what is meant,
\* or is that already.
Midway ==
  /\ pc # "writing" => DOMAIN planned = {}
  /\ pc # "idle" =>
       /\ exit = Schema!Unknown
       /\ \A f \in Schema!AllFiles :
            /\ Goal(f) # Schema!Was(f)
            /\ f \notin DataFiles => Goal(f) \in [1..TextFiles[f] -> Counts]
            /\ f \in DOMAIN planned => Schema!Now(f) = Schema!Was(f) /\ planned[f] = Goal(f)
            /\ f \notin DOMAIN planned => Schema!Now(f) = Goal(f)

\* What the last run left, once it has said so.
Outcome ==
  /\ exit \in {2, 3} =>
       Schema!tree = before \/ \A f \in Schema!AllFiles : Schema!Now(f) # Schema!Was(f)
  /\ exit = 0 =>
       Schema!tree = before \/ \A f \in DOMAIN TextFiles : text[f] = Written(Schema!Was(f))

SchemaInv == SchemaTypes /\ Midway /\ Outcome

LEMMA SchemaInit == Schema!Init => SchemaInv
<1> SUFFICES ASSUME Schema!Init PROVE SchemaInv
  OBVIOUS
<1>1. /\ pc = "idle" /\ exit = Schema!Unknown /\ planned = << >> /\ runs = 0 /\ snapshot = "old"
      /\ contained \in Slips /\ data = [f \in DataFiles |-> "old"]
      /\ text = [f \in DOMAIN TextFiles |-> [i \in 1..TextFiles[f] |-> [anchor |-> 1, done |-> 0]]]
  BY DEF Schema!Init
<1>2. [anchor |-> 1, done |-> 0] \in Counts
  BY EditsAssumption DEF Counts
<1>3. SchemaTypes
  BY <1>1, <1>2, EditsAssumption DEF SchemaTypes
<1> QED
  BY <1>1, <1>3 DEF SchemaInv, Midway, Outcome, Schema!Unknown

\* A file that does not refuse and would change is planned with its edits.
LEMMA PlanIsGoal ==
  ASSUME SchemaTypes, NEW f \in Schema!AllFiles, ~Schema!Refuses(f),
         Schema!Plans(f) # Schema!Now(f), f \notin DataFiles
  PROVE  /\ f \in DOMAIN TextFiles /\ Schema!Plans(f) = Written(text[f])
         /\ Written(text[f]) \in [1..TextFiles[f] -> Counts]
<1>1. f \in DOMAIN TextFiles /\ TextFiles[f] \in Nat /\ text[f] \in [1..TextFiles[f] -> Counts]
  BY EditsAssumption DEF Schema!AllFiles, SchemaTypes
<1>2. Schema!Plans(f) = Schema!PlanText(f) /\ Schema!Now(f) = text[f]
  BY DEF Schema!Plans, Schema!Now
<1>3. Schema!There(f) # 1..TextFiles[f]
  BY <1>1, <1>2, PlanLeaves
<1>4. Schema!Here(f) = 1..TextFiles[f] /\ \A i \in 1..TextFiles[f] : <<f, i>> \notin contained
  BY <1>3 DEF Schema!Refuses
<1>5. Schema!PlanText(f) = Written(text[f])
  BY <1>1, <1>4, PlanWrites
<1>6. ASSUME NEW i \in 1..TextFiles[f]
      PROVE  [anchor |-> 0, done |-> text[f][i].done + 1] \in Counts
  <2>1. text[f][i] \in Counts /\ text[f][i].anchor = 1
    BY <1>1, <1>4 DEF Schema!Here
  <2>2. text[f][i].done \in 0..MaxCopies
    BY <2>1 DEF Counts
  <2>3. text[f][i].done + 1 \in 0..MaxCopies + 1
    BY <2>2, EditsAssumption
  <2> QED
    BY <2>3 DEF Counts
<1>7. DOMAIN text[f] = 1..TextFiles[f]
  BY <1>1
<1>8. Written(text[f]) \in [1..TextFiles[f] -> Counts]
  BY <1>6, <1>7 DEF Written
<1> QED
  BY <1>1, <1>2, <1>5, <1>8

LEMMA SchemaStep == SchemaInv /\ [Schema!Next]_(Schema!vars) => SchemaInv'
<1> SUFFICES ASSUME SchemaInv, [Schema!Next]_(Schema!vars) PROVE SchemaInv'
  OBVIOUS
<1> USE DEF SchemaInv
<1>1. ASSUME NEW dry \in BOOLEAN, Schema!Run(dry) PROVE SchemaInv'
  <2> DEFINE refused == {f \in Schema!AllFiles : Schema!Refuses(f)}
             changed == {f \in Schema!AllFiles \ refused : Schema!Plans(f) # Schema!Now(f)}
             ends == refused # {} \/ changed # Schema!AllFiles \/ dry
  <2>1. /\ pc = "idle" /\ runs < Runs /\ runs' = runs + 1 /\ before' = Schema!tree
        /\ UNCHANGED <<contained, text, data, snapshot>>
        /\ ends => /\ pc' = "idle" /\ exit' \in {0, 2, 3} /\ UNCHANGED planned
        /\ ~ends => /\ planned' = [f \in Schema!AllFiles |-> Schema!Plans(f)]
                    /\ pc' = "writing" /\ exit' = Schema!Unknown
    BY <1>1 DEF Schema!Run, Schema!Begin, Schema!Done, Schema!tree
  <2>2. /\ \A f : Schema!Was(f)' = Schema!Now(f) /\ Schema!Now(f)' = Schema!Now(f)
        /\ Schema!tree' = before'
    BY <2>1 DEF Schema!Was, Schema!Now, Schema!tree
  <2>3. runs' \in 0..Runs
    BY <2>1, EditsAssumption DEF SchemaTypes
  <2>4. CASE ends
    <3>1. SchemaTypes'
      BY <2>1, <2>3, <2>4 DEF SchemaTypes, Schema!AllFiles
    <3>2. Midway'
      BY <2>1, <2>4 DEF Midway
    <3> QED
      BY <2>2, <3>1, <3>2 DEF Outcome
  <2>5. CASE ~ends
    <3>1. SchemaTypes'
      BY <2>1, <2>3, <2>5 DEF SchemaTypes, Schema!AllFiles
    <3>2. ASSUME NEW f \in Schema!AllFiles
          PROVE  /\ Goal(f)' = Schema!Plans(f) /\ Goal(f)' # Schema!Was(f)'
                 /\ f \notin DataFiles => Goal(f)' \in [1..TextFiles[f] -> Counts]
      <4>1. ~Schema!Refuses(f) /\ Schema!Plans(f) # Schema!Now(f)
        BY <2>5
      <4>2. CASE f \in DataFiles
        BY <2>2, <4>1, <4>2 DEF Goal, Schema!Plans
      <4>3. CASE f \notin DataFiles
        <5>1. Goal(f)' = Written(text[f])
          BY <2>2, <4>3 DEF Goal, Schema!Now, Written
        <5> QED
          BY <2>2, <4>1, <4>3, <5>1, PlanIsGoal
      <4> QED
        BY <4>2, <4>3
    <3>3. Midway'
      BY <2>1, <2>2, <2>5, <3>2 DEF Midway, Schema!AllFiles, Schema!Unknown
    <3>4. Outcome'
      BY <2>1, <2>5 DEF Outcome, Schema!Unknown
    <3> QED
      BY <3>1, <3>3, <3>4
  <2> QED
    BY <2>4, <2>5
<1>2. ASSUME NEW f \in Schema!AllFiles, Schema!Write(f) PROVE SchemaInv'
  <2>1. /\ pc = "writing" /\ f \in DOMAIN planned /\ exit = Schema!Unknown
        /\ text' = IF f \in DataFiles THEN text ELSE [text EXCEPT ![f] = planned[f]]
        /\ data' = IF f \in DataFiles THEN [data EXCEPT ![f] = planned[f]] ELSE data
        /\ planned' = [g \in DOMAIN planned \ {f} |-> planned[g]]
        /\ pc' = IF DOMAIN planned' = {} THEN "refresh" ELSE "writing"
        /\ UNCHANGED <<contained, snapshot, exit, before, runs>>
    BY <1>2 DEF Schema!Write, Midway
  <2>2. planned[f] = Goal(f) /\ (f \notin DataFiles => Goal(f) \in [1..TextFiles[f] -> Counts])
        /\ (f \in DataFiles => Goal(f) = "new")
    BY <2>1 DEF Midway, Goal
  <2>3. SchemaTypes'
    BY <2>1, <2>2 DEF SchemaTypes, Schema!AllFiles
  <2>4. \A g : Schema!Was(g)' = Schema!Was(g) /\ Goal(g)' = Goal(g)
    BY <2>1 DEF Schema!Was, Goal, Written
  <2>5. ASSUME NEW g \in Schema!AllFiles
        PROVE  Schema!Now(g)' = IF g = f THEN Goal(f) ELSE Schema!Now(g)
    BY <2>1, <2>2 DEF Schema!Now, SchemaTypes, Schema!AllFiles
  <2>6. /\ DOMAIN planned' = DOMAIN planned \ {f}
        /\ \A g \in DOMAIN planned' : planned'[g] = planned[g]
    BY <2>1
  <2>7. pc' # "writing" => DOMAIN planned' = {}
    BY <2>1
  <2>8. ASSUME NEW g \in Schema!AllFiles
        PROVE  /\ (Goal(g) # Schema!Was(g))'
               /\ g \notin DataFiles => Goal(g)' \in [1..TextFiles[g] -> Counts]
               /\ g \in DOMAIN planned' => Schema!Now(g)' = Schema!Was(g)' /\ planned'[g] = Goal(g)'
               /\ g \notin DOMAIN planned' => Schema!Now(g)' = Goal(g)'
    BY <2>1, <2>4, <2>5, <2>6 DEF Midway
  <2>9. Midway'
    BY <2>1, <2>7, <2>8 DEF Midway, Schema!AllFiles, Schema!Unknown
  <2> QED
    BY <2>1, <2>3, <2>9 DEF Outcome, Schema!Unknown
<1>3. ASSUME NEW works \in BOOLEAN, Schema!RunRefresh(works) PROVE SchemaInv'
  <2>1. /\ pc = "refresh" /\ pc' = "idle" /\ exit' \in {0, 2} /\ snapshot' \in {"old", "new"}
        /\ UNCHANGED <<contained, text, data, planned, before, runs>> /\ DOMAIN planned = {}
    BY <1>3 DEF Schema!RunRefresh, Schema!Done, SchemaTypes, Midway
  <2>2. \A f : /\ Schema!Was(f)' = Schema!Was(f) /\ Schema!Now(f)' = Schema!Now(f)
               /\ Goal(f)' = Goal(f)
    BY <2>1 DEF Schema!Was, Schema!Now, Goal, Written
  <2>3. \A f \in Schema!AllFiles : Schema!Now(f) = Goal(f) /\ Goal(f) # Schema!Was(f)
    BY <2>1 DEF Midway
  <2>4. ASSUME NEW f \in DOMAIN TextFiles PROVE text[f] = Written(Schema!Was(f))
    BY <2>3, EditsAssumption DEF Schema!AllFiles, Schema!Now, Goal
  <2>5. SchemaTypes' /\ Midway'
    BY <2>1 DEF SchemaTypes, Midway
  <2>6. Outcome'
    BY <2>1, <2>2, <2>3, <2>4 DEF Outcome, Schema!AllFiles, Written
  <2> QED
    BY <2>5, <2>6
<1>4. CASE Schema!Kill
  BY <1>4 DEF Schema!Kill, Schema!Done, SchemaTypes, Midway, Outcome, Schema!Unknown
<1>5. ASSUME Schema!Edited, pc = "idle", UNCHANGED <<contained, planned, pc, runs>>, SchemaTypes'
      PROVE  SchemaInv'
  BY <1>5 DEF Schema!Edited, Midway, Outcome, Schema!Unknown
<1>6. ASSUME Schema!Restore PROVE SchemaInv'
  <2>1. [anchor |-> 1, done |-> 0] \in Counts
    BY EditsAssumption DEF Counts
  <2>2. SchemaTypes'
    BY <1>6, <2>1 DEF Schema!Restore, Schema!Edited, SchemaTypes
  <2> QED
    BY <1>5, <1>6, <2>2 DEF Schema!Restore
<1>7. ASSUME NEW f \in DOMAIN TextFiles, NEW i \in 1..TextFiles[f], NEW c \in Schema!Contents,
             Schema!EditText(f, i, c)
      PROVE  SchemaInv'
  <2>1. c \in Counts
    BY DEF Schema!Contents, Counts
  <2>2. SchemaTypes'
    BY <1>7, <2>1 DEF Schema!EditText, Schema!Edited, SchemaTypes
  <2> QED
    BY <1>5, <1>7, <2>2 DEF Schema!EditText
<1>8. ASSUME NEW f \in DataFiles, NEW shape \in {"old", "new", "strange"}, Schema!EditData(f, shape)
      PROVE  SchemaInv'
  <2>1. SchemaTypes'
    BY <1>8 DEF Schema!EditData, Schema!Edited, SchemaTypes
  <2> QED
    BY <1>5, <1>8, <2>1 DEF Schema!EditData
<1>9. CASE UNCHANGED Schema!vars
  <2>1. \A f : /\ Schema!Was(f)' = Schema!Was(f) /\ Schema!Now(f)' = Schema!Now(f)
               /\ Goal(f)' = Goal(f)
    BY <1>9 DEF Schema!vars, Schema!Was, Schema!Now, Goal, Written
  <2> QED
    BY <1>9, <2>1 DEF Schema!vars, SchemaTypes, Midway, Outcome, Schema!tree, Schema!AllFiles,
       Written
<1> QED
  BY <1>1, <1>2, <1>3, <1>4, <1>6, <1>7, <1>8, <1>9 DEF Schema!Next

LEMMA SchemaPromises == SchemaInv => MigrationHolds
<1> SUFFICES ASSUME SchemaInv PROVE MigrationHolds
  OBVIOUS
<1>1. Counts \subseteq [anchor : 0..MaxCopies, done : 0..MaxCopies + 1]
  BY EditsAssumption DEF Counts
<1>2. Schema!TypeOK
  BY <1>1 DEF Schema!TypeOK, SchemaInv, SchemaTypes
<1>3. Schema!RefusalWritesNothing
  BY DEF Schema!RefusalWritesNothing, SchemaInv, Outcome
<1>4. ASSUME exit = 0, Schema!tree # before, NEW f \in DOMAIN TextFiles, NEW i \in 1..TextFiles[f]
      PROVE  text[f][i].done = Schema!Was(f)[i].done + 1 /\ text[f][i].anchor = 0
  <2>1. text[f] = Written(Schema!Was(f))
    BY <1>4 DEF SchemaInv, Outcome
  <2>2. i \in DOMAIN Written(Schema!Was(f))
    BY <2>1 DEF SchemaInv, SchemaTypes
  <2>3. DOMAIN Written(Schema!Was(f)) = DOMAIN Schema!Was(f)
    BY DEF Written
  <2>4. Written(Schema!Was(f))[i] = [anchor |-> 0, done |-> Schema!Was(f)[i].done + 1]
    BY <2>2, <2>3 DEF Written
  <2> QED
    BY <2>1, <2>4
<1>5. Schema!EachEditOnce
  BY <1>4 DEF Schema!EachEditOnce
<1> QED
  BY <1>2, <1>3, <1>5 DEF MigrationHolds

\* A run that refuses leaves the tree it found, and a run that wrote has made
\* every edit of every file, once: for any number of files and edits, with the
\* anchors occurring any number of times, edits between runs and runs killed.
THEOREM EveryEditOnce == Schema!Spec => []MigrationHolds
BY SchemaInit, SchemaStep, SchemaPromises, PTL DEF Schema!Spec

=============================================================================
