------------------------------- MODULE Rates -------------------------------
(***************************************************************************)
(* The rate table: scripts/fetch-rates.py captures it from AWS's price     *)
(* list for the sizes that scripts/sizing.py reads out of infra/,          *)
(* scripts/check-rates.py is the gate over it, and fold-cost.py multiplies *)
(* with it (module CostFold).  The four read the repository at four        *)
(* moments, with edits of it and of AWS's prices in between.               *)
(***************************************************************************)
EXTENDS FiniteSets, Naturals

CONSTANTS
  Levels,      \* the per-cycle levels, infra/envs/*
  Sizes,       \* level -> what its terraform may say about its size
  MayDeclare,  \* <<level, kind>>: blocks an edit may add or remove
  MayCall,     \* <<level, module>>: calls an edit may add or remove
  MayList,     \* <<bucket, kind>>: rows an edit may add or remove
  Modules,     \* name -> the kinds of the resource blocks in a module
  Kinds,       \* resource types
  Components,  \* kind -> the unit prices a priced entry of it multiplies
  Queries,     \* unit price -> "-", "db" or "node": what its filters ask for
  Offers,      \* sets of products a query may match: [usd, sku]
  Captures,    \* bound: runs of fetch-rates.py that wrote a table
  Nobody       \* no table, no verdict

VARIABLES
  config,   \* level -> [tfvars, defaults, storage]: its size
  blocks,   \* level -> kinds it declares itself
  calls,    \* level -> modules it calls
  buckets,  \* bucket -> kinds: assets/cost-model.json
  aws,      \* AWS: what a query matches, one answer for every subject
  table,    \* site/data/rates.json, or Nobody
  captures, \* tables written so far
  verdict   \* rates-check over the repository as it stands, or Nobody

vars == <<config, blocks, calls, buckets, aws, table, captures, verdict>>

Buckets == {"priced", "free", "not_metered"}

-----------------------------------------------------------------------------
(* sizing.py                                                               *)

Number == {"number"}
TaskKnobs == {"task_cpu", "task_memory", "desired_count"}
NodeKnobs == {"node_count", "node_instance_types"}

Runtime(c) ==
  CASE TaskKnobs \cap DOMAIN c.defaults # {} -> "ecs"
    [] TaskKnobs \cap DOMAIN c.defaults = {} /\ NodeKnobs \cap DOMAIN c.defaults # {} -> "eks"
    [] OTHER -> "none"

Required == [ecs  |-> TaskKnobs \cup {"db_instance_class"},
             eks  |-> NodeKnobs \cup {"db_instance_class"},
             none |-> {}]

\* What environment_shape does not refuse.  A default is a set of words.
Readable(c) ==
  /\ ~c.tfvars /\ Runtime(c) # "none" /\ c.storage
  /\ Required[Runtime(c)] \subseteq DOMAIN c.defaults
  /\ \A k \in (IF Runtime(c) = "ecs" THEN TaskKnobs ELSE {"node_count"}) : c.defaults[k] = Number
  /\ Runtime(c) = "eks" => Cardinality(c.defaults["node_instance_types"]) = 1

DbClasses == UNION {config[l].defaults["db_instance_class"] : l \in Levels}
NodeTypes == UNION {config[l].defaults["node_instance_types"] :
                      l \in {m \in Levels : Runtime(config[m]) = "eks"}}

-----------------------------------------------------------------------------
(* fetch-rates.py                                                          *)

\* One non-zero price, whatever number of products carry it; a zero dimension
\* is a free tier.
Figures(offers) == {o.usd : o \in offers} \ {0}
Identified(offers) == Cardinality(Figures(offers)) = 1

Subjects == [s \in {"-", "db", "node"} |->
               CASE s = "db" -> DbClasses [] s = "node" -> NodeTypes [] OTHER -> {}]

\* The levels declare one database class and one node type: the table prices one.
Priceable ==
  /\ \A l \in Levels : Readable(config[l])
  /\ Cardinality(DbClasses) = 1 /\ Cardinality(NodeTypes) = 1

\* The rows of a run for the queries that identified their price.
Rows(found) ==
  [q \in found |-> LET offer == CHOOSE o \in aws[q] : o.usd # 0
                   IN  [usd |-> offer.usd, sku |-> offer.sku,
                        subject |-> Subjects[Queries[q]], run |-> captures + 1]]

\* A run writes a whole table, or refuses: "nothing written".
FetchRates(failing) ==
  /\ captures < Captures /\ Priceable
  /\ \A q \in DOMAIN Queries : q \notin failing /\ Identified(aws[q])
  /\ table' = Rows(DOMAIN Queries)
  /\ captures' = captures + 1
  /\ verdict' = Nobody
  /\ UNCHANGED <<config, blocks, calls, buckets, aws>>

-----------------------------------------------------------------------------
(* check-rates.py                                                          *)

\* Bug: the kinds of the level's own blocks, without the modules it calls.
KindsOfBlocks(l) == blocks[l]

\* generate-topology.py's expand: the level's blocks, and those it calls in.
KindsOf(l) == blocks[l] \cup UNION {Modules[m] : m \in calls[l]}

Declared == UNION {KindsOf(l) : l \in Levels}

Misplaced == {k \in Declared : Cardinality({b \in Buckets : k \in buckets[b]}) # 1}
Stale     == (UNION {buckets[b] : b \in Buckets}) \ Declared
Unpriced  == {k \in buckets["priced"] : ~(Components[k] \subseteq DOMAIN table)}
Unsourced == {q \in DOMAIN table : table[q].sku = ""}

Clean ==
  /\ Misplaced = {} /\ Stale = {} /\ table # Nobody
  /\ Unpriced = {} /\ Unsourced = {}
  /\ \A l \in Levels : Readable(config[l])

Check ==
  /\ verdict' = (IF Clean THEN "clean" ELSE "findings")
  /\ UNCHANGED <<config, blocks, calls, buckets, aws, table, captures>>

-----------------------------------------------------------------------------
(* Edits, and AWS                                                          *)

Edited == verdict' = Nobody

Resize(l, c) ==
  /\ config' = [config EXCEPT ![l] = c] /\ Edited
  /\ UNCHANGED <<blocks, calls, buckets, aws, table, captures>>

Toggled(S, x) == IF x \in S THEN S \ {x} ELSE S \cup {x}

EditBlocks(l, k) ==
  /\ blocks' = [blocks EXCEPT ![l] = Toggled(@, k)] /\ Edited
  /\ UNCHANGED <<config, calls, buckets, aws, table, captures>>

EditCalls(l, m) ==
  /\ calls' = [calls EXCEPT ![l] = Toggled(@, m)] /\ Edited
  /\ UNCHANGED <<config, blocks, buckets, aws, table, captures>>

EditModel(b, k) ==
  /\ buckets' = [buckets EXCEPT ![b] = Toggled(@, k)] /\ Edited
  /\ UNCHANGED <<config, blocks, calls, aws, table, captures>>

PriceChanges(q, offers) ==
  /\ aws' = [aws EXCEPT ![q] = offers]
  /\ UNCHANGED <<config, blocks, calls, buckets, table, captures, verdict>>

Init ==
  /\ config \in [Levels -> UNION {Sizes[l] : l \in Levels}]
  /\ \A l \in Levels : config[l] \in Sizes[l] /\ Readable(config[l])
  /\ blocks = [l \in Levels |-> {}] /\ calls = [l \in Levels |-> {}]
  /\ buckets = [b \in Buckets |-> {}]
  /\ aws \in [DOMAIN Queries -> Offers] /\ \A q \in DOMAIN Queries : Identified(aws[q])
  /\ table = Nobody /\ captures = 0 /\ verdict = Nobody

Next ==
  \/ \E failing \in SUBSET DOMAIN Queries : FetchRates(failing)
  \/ Check
  \/ \E l \in Levels :
       \/ \E c \in Sizes[l] : Resize(l, c)
       \/ \E k \in Kinds : <<l, k>> \in MayDeclare /\ EditBlocks(l, k)
       \/ \E m \in DOMAIN Modules : <<l, m>> \in MayCall /\ EditCalls(l, m)
  \/ \E b \in Buckets, k \in Kinds : <<b, k>> \in MayList /\ EditModel(b, k)
  \/ \E q \in DOMAIN Queries, offers \in Offers : PriceChanges(q, offers)

Spec == Init /\ [][Next]_vars

TypeOK ==
  /\ DOMAIN config = Levels /\ blocks \in [Levels -> SUBSET Kinds]
  /\ calls \in [Levels -> SUBSET DOMAIN Modules] /\ buckets \in [Buckets -> SUBSET Kinds]
  /\ aws \in [DOMAIN Queries -> Offers] /\ captures \in 0..Captures
  /\ table # Nobody => \A q \in DOMAIN table : table[q].usd > 0 /\ table[q].run <= captures
  /\ verdict \in {Nobody, "clean", "findings"}

-----------------------------------------------------------------------------
\* How fold-cost.py meters a resource: the first bucket that has its kind.
MeteredAs(k) ==
  CASE k \in buckets["free"] -> "free"
    [] k \notin buckets["free"] /\ k \in buckets["not_metered"] -> "not_metered"
    [] k \notin buckets["free"] \cup buckets["not_metered"] /\ k \in buckets["priced"] -> "priced"
    [] OTHER -> "unpriced"

\* "Never zero by silence" (check-rates.py:2): behind a clean gate no resource a
\* level's apply creates is left out of the estimate, none that has a price is
\* taken for free, and no price of the fold's is missing.
NoSilentZero ==
  verdict = "clean" =>
    \A l \in Levels : \A k \in blocks[l] \cup UNION {Modules[m] : m \in calls[l]} :
      /\ MeteredAs(k) # "unpriced"
      /\ k \in buckets["priced"] => MeteredAs(k) = "priced" /\ Components[k] \subseteq DOMAIN table

\* One capture, one table (fetch-rates.py:256-262): no figure of an earlier run,
\* of another database class or of another node type stands beside a newer one.
TableIsOneCapture ==
  table # Nobody => /\ DOMAIN table = DOMAIN Queries
                    /\ \A p, q \in DOMAIN table : table[p].run = table[q].run

\* "The instance being priced is the instance the repository actually declares"
\* (fetch-rates.py:60-62).  It is, at the moment of the capture; the gate never
\* compares the table's priced_for with the levels.
TableIsOfTheseSizes ==
  verdict = "clean" =>
    \A q \in DOMAIN table : table[q].subject = Subjects[Queries[q]]
=============================================================================
