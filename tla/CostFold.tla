------------------------------ MODULE CostFold ------------------------------
(***************************************************************************)
(* scripts/fold-cost.py: what a cycle cost, out of how long its resources  *)
(* existed.  A lifetime spans two runs, so the fold takes the timeline of  *)
(* the apply and, once there is one, that of the teardown.  Money is in    *)
(* integers: a price is per hour or per month of HoursPerMonth hours, and  *)
(* every amount is a multiple of one unit per second over that month.      *)
(***************************************************************************)
EXTENDS Timeline

CONSTANTS
  Kind,        \* address -> its resource type
  CostModel,   \* [free, notMetered, priced], priced: type -> [components, minimum]
  Prices,      \* unit price -> amount, as captured by fetch-rates.py
  Shape,       \* name -> quantity, as sizing.py reads it out of infra/
  HoursPerMonth

\* A kind is in one bucket (check-rates.py), and a minimum charge is a time.
ASSUME CostAssumption ==
  /\ DOMAIN CostModel.priced \cap (CostModel.free \cup CostModel.notMetered) = {}
  /\ \A kind \in DOMAIN CostModel.priced : CostModel.priced[kind].minimum \in Nat

Span(start, end) == IF start = None \/ end = None \/ end < start THEN 0 ELSE end - start

\* The last record of each address whose action is one of these.
ResourcesOf(timeline, actions) ==
  LET said(i) == {a \in DOMAIN timeline.ops[i].resources :
                    timeline.ops[i].resources[a].action \in actions}
      ops     == DOMAIN timeline.ops
  IN  [a \in UNION {said(i) : i \in ops} |->
         timeline.ops[Max({i \in ops : a \in said(i)})].resources[a]]

Created(timeline) == ResourcesOf(timeline, {"create", "replace"})
Deleted(timeline) == ResourcesOf(timeline, {"delete"})

\* A component cannot be priced from a rate or a quantity nobody captured.
Priceable(component) ==
  component.unit \in DOMAIN Prices /\ component.from \subseteq DOMAIN Shape

ComponentCost(component, seconds) ==
  LET quantity == FoldSet(LAMBDA n, product : product * Shape[n], component.quantity, component.from)
      hours    == IF component.per = "month" THEN seconds ELSE seconds * HoursPerMonth
  IN  quantity * Prices[component.unit] * hours

CostOf(kind, seconds) ==
  MapThenSumSet(LAMBDA c : ComponentCost(c, seconds), CostModel.priced[kind].components)

\* Why two timelines cannot be the two halves of one cycle.
HalfProblems(environment, timeline) ==
  IF timeline.environment = environment THEN {} ELSE {"another environment"}

\* A destroy of None is a cycle that is still open.
PairingRefusals(environment, apply, closed, destroy) ==
  HalfProblems(environment, apply)
  \cup (IF apply.status = "complete" THEN {} ELSE {"the apply is not complete"})
  \cup (IF ~closed THEN {}
        ELSE LET removed == DOMAIN Deleted(destroy)
             IN  HalfProblems(environment, destroy)
                 \cup (IF apply.finished # None /\ destroy.started # None
                          /\ destroy.started < apply.finished
                       THEN {"the teardown started before the apply finished"} ELSE {})
                 \cup (IF removed # {} /\ DOMAIN Created(apply) \cap removed = {}
                       THEN {"nothing in common"} ELSE {}))

Metering(kind) ==
  IF kind \in CostModel.free THEN "free"
  ELSE IF kind \in CostModel.notMetered THEN "not_metered"
  ELSE IF kind \in DOMAIN CostModel.priced THEN "priced" ELSE "unpriced"

\* Bug: both ends of the band are counted from the start of the creation.
PricedRowFromStart(address, made, closed, deleted, asOf) ==
  LET gone    == address \in DOMAIN deleted
      lowEnd  == IF gone THEN deleted[address].started  ELSE asOf
      highEnd == IF gone THEN deleted[address].finished ELSE asOf
      floor   == CostModel.priced[Kind[address]].minimum
      low     == Max({floor, Span(made.started, lowEnd)})
      high    == Max({floor, Span(made.started, highEnd)})
  IN  [state |-> IF gone THEN "closed" ELSE IF closed THEN "never_deleted" ELSE "open",
       low |-> low, high |-> high,
       usdLow |-> CostOf(Kind[address], low), usdHigh |-> CostOf(Kind[address], high),
       rate |-> None]

\* The band of one priced row: create FINISHED to delete STARTED, and create
\* STARTED to delete FINISHED; a row nobody deleted runs to "asOf".
PricedRow(address, made, closed, deleted, asOf) ==
  LET gone    == address \in DOMAIN deleted
      lowEnd  == IF gone THEN deleted[address].started  ELSE asOf
      highEnd == IF gone THEN deleted[address].finished ELSE asOf
      floor   == CostModel.priced[Kind[address]].minimum
      low     == Max({floor, Span(made.finished, lowEnd)})
      high    == Max({floor, Span(made.started, highEnd)})
  IN  [state   |-> IF gone THEN "closed" ELSE IF closed THEN "never_deleted" ELSE "open",
       low     |-> low,
       high    |-> high,
       usdLow  |-> CostOf(Kind[address], low),
       usdHigh |-> CostOf(Kind[address], high),
       rate    |-> IF ~gone /\ ~closed /\ ~(floor > 0 /\ low <= floor)
                   THEN CostOf(Kind[address], 1) ELSE None]

\* Refused when the halves do not pair, or when a price or a quantity is missing.
Refuses(environment, apply, closed, destroy) ==
  \/ PairingRefusals(environment, apply, closed, destroy) # {}
  \/ \E a \in DOMAIN Created(apply) :
       Metering(Kind[a]) = "priced"
       /\ \E c \in CostModel.priced[Kind[a]].components : ~Priceable(c)

Total(amount) == MapThenSumSet(LAMBDA a : amount[a], DOMAIN amount)

\* The document of a cycle that was not refused.
Price(environment, apply, closed, destroy, asOf) ==
  LET created == Created(apply)
      deleted == IF closed THEN Deleted(destroy) ELSE << >>
      inBucket(b) == {a \in DOMAIN created : Metering(Kind[a]) = b}
      rows == [a \in inBucket("priced") |-> PricedRow(a, created[a], closed, deleted, asOf)]
      end == IF closed THEN destroy.finished ELSE asOf
  IN  [environment |-> environment,
       status   |-> IF closed THEN "closed" ELSE "open",
       applyRun |-> apply.run,
       destroyRun |-> IF closed THEN destroy.run ELSE None,
       started  |-> apply.started, finished |-> end,
       low      |-> Total([a \in DOMAIN rows |-> rows[a].usdLow]),
       high     |-> Total([a \in DOMAIN rows |-> rows[a].usdHigh]),
       unpriced |-> inBucket("unpriced"),
       orphans  |-> DOMAIN deleted \ DOMAIN created,
       rows     |-> rows]

=============================================================================
