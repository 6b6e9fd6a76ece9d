------------------------ MODULE ReportScenarioProofs ------------------------
(***************************************************************************)
(* The estate whose charges the report's scenarios follow (a balancer that *)
(* is taken down first, a metered database and a task that an apply may    *)
(* replace) is one that ReportProofs is about: what is proved there of     *)
(* every estate holds of it, for any map, cost model and prices, and of    *)
(* the composition.                                                        *)
(***************************************************************************)
EXTENDS MCReportScenarios, TLAPS, FiniteSetTheorems

\* The estate satisfies what ReportProofs assumes of its constants.
LEMMA BandsAreFinite ==
  Bands!IsFiniteSet({"lb", "db", "task"}) /\ Bands!IsFiniteSet({})
<1>1. IsFiniteSet({}) /\ IsFiniteSet({"lb"})
  BY FS_EmptySet, FS_Singleton
<1>2. IsFiniteSet({"lb"} \cup {"db"})
  BY <1>1, FS_AddElement
<1>3. IsFiniteSet(({"lb"} \cup {"db"}) \cup {"task"})
  BY <1>2, FS_AddElement
<1>4. ({"lb"} \cup {"db"}) \cup {"task"} = {"lb", "db", "task"}
  OBVIOUS
<1>5. \A S : IsFiniteSet(S) => Bands!IsFiniteSet(S)
  BY DEF IsFiniteSet, Bands!IsFiniteSet
<1> QED
  BY <1>1, <1>3, <1>4, <1>5

\* In either scenario the estate of "bands" goes its own way or stays as it began.
LEMMA BandsGoOn == Scenarios => Bands!Spec
<1>1. Began => Bands!Init
  BY DEF Began
<1>2. [GoesOn]_scenarioVars => [Bands!Next]_(Bands!vars)
  BY DEF GoesOn, scenarioVars, Bands!vars, bandVars
<1> QED
  BY <1>1, <1>2, PTL DEF Scenarios, Bands!Spec

\* In the scenario that follows charges, a priced cycle's band holds what AWS
\* charged and its document prices everything the teardown removed, whatever
\* was rolled back, cancelled or lost, and wherever the runner was lost: the
\* run bounds that to the apply, the theorem does not.
THEOREM BandsKept ==
  ASSUME MaxApplies <= 1, MaxDestroys <= 1
  PROVE  Scenarios => []BandsHold
<1>1. Bands!SteadyMeters /\ Bands!OneTeardown /\ Bands!OneApply
  BY DEF Bands!SteadyMeters, Bands!OneTeardown, Bands!OneApply
<1>2. Bands!Spec => []Bands!TypeOK
  BY BandsAreFinite, ReportAssumption, CostAssumption, Bands!ReportTypes
     DEF Bands!ReportTypes, Bands!Nowhere
<1>3. Bands!Spec => []Bands!BandHoldsTheCharge
  BY <1>1, BandsAreFinite, ReportAssumption, CostAssumption, Bands!ChargedIsInBand
     DEF Bands!ChargedIsInBand, Bands!Nowhere
<1>4. Bands!Spec => []Bands!NothingGoesUnpriced
  BY <1>1, BandsAreFinite, ReportAssumption, CostAssumption, Bands!RemovedIsPriced
     DEF Bands!RemovedIsPriced, Bands!Nowhere
<1> QED
  BY <1>2, <1>3, <1>4, BandsGoOn, PTL DEF BandsHold
=============================================================================
