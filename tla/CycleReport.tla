---------------------------- MODULE CycleReport ----------------------------
(***************************************************************************)
(* The record of one environment's cycles, from terraform to the site.     *)
(*                                                                         *)
(* A job runs terraform through scripts/tf-stream.sh, once or twice, and   *)
(* its last steps (which run even when the job failed or was cancelled)    *)
(* fold the captured streams, join them onto the map, price the cycle and  *)
(* publish the documents one object at a time.  While terraform works, the *)
(* watcher folds and joins the same half-written streams.                  *)
(*                                                                         *)
(* The environment's resources are the truth the documents are about.  AWS *)
(* starts charging for a metered resource somewhere between the first and  *)
(* the last event of its creation, and stops somewhere inside its removal. *)
(***************************************************************************)
EXTENDS NodeStates, CostFold

CONSTANTS
  Environment,    \* the environment the jobs are about
  Resources,      \* the addresses its configuration declares
  DataSources,    \* addresses terraform reads on every invocation
  Replaceable,    \* resources an apply over a standing environment replaces
  Metered,        \* resources whose charging instants are told apart
  AlbFirst,       \* what destroy.yml removes in an operation of its own
  Killable,       \* the kinds of job a cancellation may reach
  Lossy,          \* whether a runner may be lost while it publishes
  Watched,        \* whether the live readings are kept
  MaxApplies, MaxDestroys

ASSUME ReportAssumption ==
  /\ IsFiniteSet(Resources) /\ IsFiniteSet(DataSources)
  /\ Nowhere \notin Resources \cup DataSources
  /\ Replaceable \subseteq Resources /\ Metered \subseteq Resources
  /\ AlbFirst \subseteq Resources /\ DataSources \cap Resources = {}
  /\ Killable \subseteq {"apply", "destroy"} /\ Lossy \in BOOLEAN /\ Watched \in BOOLEAN
  /\ MaxApplies \in Nat /\ MaxDestroys \in Nat

VARIABLES
  estate,    \* address -> "live" or "gone": what AWS has
  born,      \* address -> the instant it started to cost, or None
  died,      \* address -> the instant it stopped, or None
  clock,     \* the instant of the last event
  job,       \* [phase, kind, run, ...]: the job that runs, or the last that
             \* did; "built" is the last run whose apply reached terraform
  todo,      \* address -> the actions terraform still owes it, in order
  flight,    \* the addresses whose hook has started and not finished
  streams,   \* what tf-stream.sh captured in this job
  site       \* the published documents

vars == <<estate, born, died, clock, job, todo, flight, streams, site>>

\* The next instant.  Instants are told apart only where a meter runs.
Tick == IF Metered = {} THEN clock ELSE clock + 1

NoDoc == [run |-> 0]

Live == {a \in Resources : estate[a] = "live"}

\* What the fold, and then the join, make of the streams as they stand.
TimelineNow == Build(Environment, job.run, streams)
ReadingNow  == Join(TimelineNow)

TypeOK ==
  /\ estate \in [Resources -> {"live", "gone"}]
  /\ \A a \in Resources : born[a] \in -1..clock /\ died[a] \in -1..clock
  /\ clock \in Nat
  /\ job.phase \in {"idle", "ready", "planning", "working", "done", "report",
                    "nodes", "anchor", "cost"}
  /\ job.kind \in {"none", "apply", "destroy"} /\ job.run \in 0..(MaxApplies + MaxDestroys)
  /\ \A a \in Resources : todo[a] \in Seq({"create", "delete"})
  /\ flight \subseteq {a \in Resources : todo[a] # << >>}
  /\ \A i \in DOMAIN streams : streams[i].rc \in {Torn, None, 0, 1}

-----------------------------------------------------------------------------
(* Jobs and the terraform invocations they make                            *)

Begin(kind) ==
  /\ job.phase = "idle"
  /\ job' = [phase |-> "ready", kind |-> kind, run |-> job.run + 1,
             built |-> job.built,
             applies |-> job.applies + (IF kind = "apply" THEN 1 ELSE 0),
             destroys |-> job.destroys + (IF kind = "destroy" THEN 1 ELSE 0)]
  /\ streams' = << >>
  /\ clock' = Tick
  /\ UNCHANGED <<estate, born, died, todo, flight, site>>

BeginApply   == job.applies < MaxApplies /\ Begin("apply")
BeginDestroy == job.destroys < MaxDestroys /\ Begin("destroy")

\* tf-stream.sh: the stream and what was run are on disk before terraform is.
Open(work) ==
  /\ streams' = Append(streams, [cmd |-> job.kind, rc |-> None, op |-> Unread])
  /\ todo' = work
  /\ job' = [job EXCEPT !.phase = "planning",
                         !.built = IF job.kind = "apply" THEN job.run ELSE @]
  /\ UNCHANGED <<estate, born, died, clock, flight, site>>

Owed(a) ==
  IF estate[a] = "gone" THEN <<"create">>
  ELSE IF a \in Replaceable THEN <<"delete", "create">> ELSE << >>

InvokeApply ==
  /\ job.kind = "apply" /\ job.phase = "ready" /\ streams = << >>
  /\ Open([a \in Resources |-> Owed(a)])

\* promote-prod.yml: the smoke of what was applied failed; the previous set
\* is applied in the same job, so into the same directory of streams.
InvokeRollback ==
  /\ job.kind = "apply" /\ job.phase = "ready" /\ Len(streams) = 1
  /\ Replaceable # {}
  /\ Open([a \in Resources |-> Owed(a)])

\* destroy.yml: the balancer first, then everything (the lab skips the first).
InvokeDestroyAlb ==
  /\ job.kind = "destroy" /\ job.phase = "ready" /\ streams = << >>
  /\ AlbFirst # {}
  /\ Open([a \in Resources |-> IF a \in AlbFirst \cap Live THEN <<"delete">> ELSE << >>])

InvokeDestroy ==
  /\ job.kind = "destroy" /\ job.phase = "ready"
  /\ Len(streams) = (IF AlbFirst = {} THEN 0 ELSE 1)
  /\ Open([a \in Resources |-> IF a \in Live THEN <<"delete">> ELSE << >>])

-----------------------------------------------------------------------------
(* Terraform, writing its stream                                           *)

Event(type, addr, action) == [type |-> type, addr |-> addr, action |-> action, at |-> Tick]

Emit(event) ==
  /\ streams' = [streams EXCEPT ![Len(streams)].op = Consume(@, event)]
  /\ clock' = Tick

PlannedAction(a) ==
  IF Len(todo[a]) = 2 THEN "replace" ELSE todo[a][1]

Written == streams[Len(streams)].op
Erred   == \E a \in DOMAIN Written.resources : Written.resources[a].status = "errored"
Summed  == Written.terminal

\* Before any hook the data sources are read and the plan is announced, a line
\* at a time; what of it a reading finds is any part of it.
ReadData(d) ==
  /\ job.phase = "planning" /\ d \notin DOMAIN Written.resources
  /\ Emit(Event("apply_complete", d, "read"))
  /\ UNCHANGED <<estate, born, died, job, todo, flight, site>>

Announce(a) ==
  /\ job.phase = "planning" /\ todo[a] # << >> /\ a \notin DOMAIN Written.planned
  /\ Emit(Event("planned_change", a, PlannedAction(a)))
  /\ UNCHANGED <<estate, born, died, job, todo, flight, site>>

ClosePlan ==
  /\ job.phase = "planning"
  /\ DataSources \subseteq DOMAIN Written.resources
  /\ {a \in Resources : todo[a] # << >>} \subseteq DOMAIN Written.planned
  /\ Emit(Event("change_summary", Nowhere, "plan"))
  /\ job' = [job EXCEPT !.phase = "working"]
  /\ UNCHANGED <<estate, born, died, todo, flight, site>>

StartHook(a) ==
  /\ job.phase = "working" /\ todo[a] # << >> /\ a \notin flight
  /\ Emit(Event("apply_start", a, Head(todo[a])))
  /\ flight' = flight \cup {a}
  /\ UNCHANGED <<estate, born, died, job, todo, site>>

\* What AWS does to a resource between the two events of its hook.
Comes(a) == /\ estate' = [estate EXCEPT ![a] = "live"]
            /\ born' = [born EXCEPT ![a] = clock']
            /\ died' = [died EXCEPT ![a] = None]
Goes(a)  == /\ estate' = [estate EXCEPT ![a] = "gone"]
            /\ died' = [died EXCEPT ![a] = clock']
            /\ UNCHANGED born

Takes(a) == estate[a] = (IF Head(todo[a]) = "create" THEN "gone" ELSE "live")
Effect(a) == IF Head(todo[a]) = "create" THEN Comes(a) ELSE Goes(a)

Charge(a) ==
  /\ job.phase = "working" /\ a \in flight \cap Metered /\ Takes(a)
  /\ clock' = Tick
  /\ Effect(a)
  /\ UNCHANGED <<job, todo, flight, streams, site>>

FinishHook(a) ==
  /\ job.phase = "working" /\ a \in flight
  /\ Emit(Event("apply_complete", a, Head(todo[a])))
  /\ IF a \in Metered THEN ~Takes(a) /\ UNCHANGED <<estate, born, died>> ELSE Effect(a)
  /\ todo' = [todo EXCEPT ![a] = Tail(@)]
  /\ flight' = flight \ {a}
  /\ UNCHANGED <<job, site>>

\* The provider refused: what the resource is stays as it was.
FailHook(a) ==
  /\ job.phase = "working" /\ a \in flight /\ (a \in Metered => Takes(a))
  /\ Emit(Event("apply_errored", a, Head(todo[a])))
  /\ todo' = [todo EXCEPT ![a] = << >>]
  /\ flight' = flight \ {a}
  /\ UNCHANGED <<estate, born, died, job, site>>

Summarise ==
  /\ job.phase = "working" /\ ~Erred /\ ~Summed
  /\ flight = {} /\ \A a \in Resources : todo[a] = << >>
  /\ Emit(Event("change_summary", Nowhere, job.kind))
  /\ UNCHANGED <<estate, born, died, job, todo, flight, site>>

\* Terraform returned and tf-stream.sh records with what.  After a failure
\* the steps left are those that always run.
Return ==
  /\ job.phase = "working" /\ flight = {} /\ (Erred \/ Summed)
  /\ streams' = [streams EXCEPT ![Len(streams)].rc = IF Erred THEN 1 ELSE 0]
  /\ todo' = [a \in Resources |-> << >>]
  /\ job' = [job EXCEPT !.phase = IF Erred THEN "report" ELSE "ready"]
  /\ UNCHANGED <<estate, born, died, clock, flight, site>>

\* Every operation of the job has run; promote-prod.yml may leave it at one.
Finish ==
  /\ job.phase = "ready"
  /\ streams # << >>
  /\ job.kind = "destroy" /\ AlbFirst # {} => Len(streams) = 2
  /\ job' = [job EXCEPT !.phase = "report"]
  /\ UNCHANGED <<estate, born, died, clock, todo, flight, streams, site>>

\* A cancellation.  Terraform never returns: it leaves half a line, and no
\* exit code or half of one.  The steps that always run still run.
Cancel ==
  /\ job.kind \in Killable /\ job.phase \in {"ready", "planning", "working"}
  /\ \/ job.phase = "ready" /\ streams' = streams
     \/ /\ job.phase # "ready"
        /\ \E rc \in {None, Torn} :
             streams' = [streams EXCEPT ![Len(streams)].rc = rc,
               ![Len(streams)].op = Consume(@, Event("garbled", Nowhere, "none"))]
  /\ todo' = [a \in Resources |-> << >>]
  /\ flight' = {}
  /\ job' = [job EXCEPT !.phase = "report"]
  /\ UNCHANGED <<estate, born, died, clock, site>>

\* watch-progress.sh: a timer that knows nothing of where terraform is.  It
\* publishes what the fold and the join make of the streams as they stand.
Watch ==
  /\ Watched /\ streams # << >> /\ job.phase \in {"ready", "planning", "working"}
  /\ site.progress # ReadingNow
  /\ site' = [site EXCEPT !.progress = ReadingNow]
  /\ UNCHANGED <<estate, born, died, clock, job, todo, flight, streams>>

-----------------------------------------------------------------------------
(* The steps that always run: fold, join, price, publish                   *)

Put(field, doc, next) ==
  /\ site' = [site EXCEPT ![field] = doc]
  /\ job' = [job EXCEPT !.phase = next]
  /\ UNCHANGED <<estate, born, died, clock, todo, flight, streams>>

Skip(next) ==
  /\ job' = [job EXCEPT !.phase = next]
  /\ UNCHANGED <<estate, born, died, clock, todo, flight, streams, site>>

\* latest.json says what happened last; nothing is written of a job in which
\* terraform never ran.
PublishTimeline ==
  /\ job.phase = "report"
  /\ IF streams = << >> THEN Skip("cost") ELSE Put("latest", TimelineNow, "nodes")

\* The numbers of the map, from a cycle that finished and from no other.
PublishNodes ==
  /\ job.phase = "nodes"
  /\ IF TimelineNow.status = "complete"
     THEN Put(IF ReadingNow.kind = "apply" THEN "nodesApply" ELSE "nodesDestroy", ReadingNow,
              IF ReadingNow.kind = "apply" THEN "anchor" ELSE "cost")
     ELSE Skip("cost")

PublishAnchor == job.phase = "anchor" /\ Put("anchor", TimelineNow, "cost")

\* An apply is priced open, from its own timeline; a teardown against the
\* anchor.  A refusal, a missing anchor or timeline leaves no document.
PublishCost ==
  /\ job.phase = "cost"
  /\ LET closed == job.kind = "destroy"
         apply  == IF closed THEN site.anchor ELSE TimelineNow
     IN  IF \/ streams = << >> \/ apply = NoDoc
            \/ Refuses(Environment, apply, closed, TimelineNow)
         THEN Skip("idle")
         ELSE Put("cost", Price(Environment, apply, closed, TimelineNow, clock), "idle")

\* The runner is lost between two of its uploads.
LoseRunner ==
  /\ Lossy /\ job.phase \in {"report", "nodes", "anchor", "cost"}
  /\ Skip("idle")

-----------------------------------------------------------------------------
Init ==
  /\ estate = [a \in Resources |-> "gone"]
  /\ born = [a \in Resources |-> None] /\ died = [a \in Resources |-> None]
  /\ clock = 0
  /\ job = [phase |-> "idle", kind |-> "none", run |-> 0,
            applies |-> 0, destroys |-> 0, built |-> 0]
  /\ todo = [a \in Resources |-> << >>]
  /\ flight = {}
  /\ streams = << >>
  /\ site = [f \in {"latest", "nodesApply", "nodesDestroy", "anchor", "cost",
                   "progress"} |-> NoDoc]

Invoke == InvokeApply \/ InvokeRollback \/ InvokeDestroyAlb \/ InvokeDestroy

Next ==
  \/ BeginApply \/ BeginDestroy
  \/ Invoke
  \/ \E d \in DataSources : ReadData(d)
  \/ \E a \in Resources : Announce(a)
  \/ ClosePlan \/ Summarise \/ Return \/ Finish \/ Cancel \/ Watch
  \/ \E a \in Resources : StartHook(a) \/ Charge(a) \/ FinishHook(a) \/ FailHook(a)
  \/ PublishTimeline \/ PublishNodes \/ PublishAnchor \/ PublishCost \/ LoseRunner

Spec == Init /\ [][Next]_vars

-----------------------------------------------------------------------------
(* What the documents promise                                              *)

OfThisJob(doc) == doc # NoDoc /\ doc.run = job.run

\* Whether every operation destroy.yml makes has been run; an apply makes one,
\* or two.
AllRun == job.kind = "destroy" /\ AlbFirst # {} => Len(streams) = 2

\* A timeline published as complete tells of a job that did all of what its
\* operations do: an apply has made every resource, a teardown has left none,
\* and one cancelled between its two operations has left no balancer.
CompleteMeansDone ==
  OfThisJob(site.latest) /\ site.latest.status = "complete" =>
    IF job.kind = "apply" THEN Live = Resources
    ELSE Live \cap (IF AllRun THEN Resources ELSE AlbFirst) = {}

NounOf(a) == NodesOf(Environment, Base[a])

\* The last stream announced that a is replaced, and its new one is being made,
\* or was when terraform was killed.
Replacing(a) ==
  /\ a \in DOMAIN Written.planned /\ Written.planned[a] = "replace"
  /\ streams[Len(streams)].rc \in {None, Torn}
  /\ job.phase = "working" => a \in flight /\ todo[a] = <<"create">>

\* Whatever line of whatever invocation the watcher reads the streams at, a noun
\* it draws as made is made: each of its resources exists or is just being replaced.
MeasuredMeansMade ==
  streams # << >> /\ job.kind = "apply" /\ job.phase # "idle" =>
    LET nodes == ReadingNow.nodes
    IN  \A n \in DOMAIN nodes \ DestroyNodes(Environment) :
          nodes[n].state = "measured" =>
            \A a \in Resources \ Live : n \in NounOf(a) => Replacing(a)

\* The plan of the job's last operation has been read to its end.
PlanIsRead == AllRun /\ Written.reached # "nothing"

\* Every address that a plan read so far names.
Named == {w[2] : w \in Announcements(TimelineNow)}

\* A noun the board draws as gone is gone: nothing of it that any plan named is
\* left, and from the last line of the last plan on nothing is left at all.
GoneMeansGone ==
  streams # << >> /\ job.kind = "destroy" /\ job.phase # "idle" =>
    LET deleting == ReadingNow.deleting
    IN  \A n \in DOMAIN deleting :
          deleting[n].state = "measured" =>
            \A a \in Live : n \in NounOf(a) => ~PlanIsRead /\ a \notin Named

\* The two, and every variable has its type.
NounsHold == TypeOK /\ MeasuredMeansMade /\ GoneMeansGone

\* The nouns a reading calls done: made by an apply, or gone by a teardown.
Done(readings) == {n \in DOMAIN readings : readings[n].state = "measured"}
MadeIn(reading) == IF reading.kind = "apply"
                   THEN Done(reading.nodes) \ DestroyNodes(Environment) ELSE {}
GoneIn(reading) == IF reading.kind = "apply" THEN {} ELSE Done(reading.deleting)

\* The replacement of something of this noun was refused half way.
HalfReplaced(n) ==
  \E a \in DOMAIN Written.planned \cap DOMAIN Written.resources :
    /\ n \in NounOf(a) /\ Written.planned[a] = "replace"
    /\ Written.resources[a].status = "errored"

\* A later reading of the same job takes back that a noun is done for two
\* reasons only: the plan of the second invocation names more of it, or what
\* was being replaced could not be made again.
MeasuredIsStable ==
  [][site.progress # NoDoc /\ site'.progress.run = site.progress.run =>
       /\ \A n \in MadeIn(site.progress) \ MadeIn(site'.progress) :
            \/ HalfReplaced(n)
            \/ Len(streams) = 2 /\ site.progress.nodes[n].planned < PlannedCount(TimelineNow, n)
       /\ \A n \in GoneIn(site.progress) \ GoneIn(site'.progress) :
            Len(streams) = 2 /\ site.progress.deleting[n].planned < DeletingPlanned(TimelineNow, n)]_vars

\* A live reading of an apply has nothing going away, so nothing is "deleting".
ApplyTakesNothingAway ==
  streams # << >> /\ job.kind = "apply" => ReadingNow.deleting = << >>

-----------------------------------------------------------------------------
Priced == site.cost # NoDoc /\ job.phase = "idle"
          /\ job.run = (IF site.cost.status = "open" THEN site.cost.applyRun ELSE site.cost.destroyRun)
PricedCycle == Priced /\ site.latest.status = "complete"

\* How long AWS charged for a resource, up to now.
Charged(a) ==
  LET life == IF born[a] = None THEN 0
              ELSE (IF died[a] = None THEN clock ELSE died[a]) - born[a]
  IN  Max({CostModel.priced[Kind[a]].minimum, life})

\* The band of a cycle that finished holds what was really charged.
BandHoldsTheCharge ==
  PricedCycle => \A a \in Metered \cap DOMAIN site.cost.rows :
    site.cost.rows[a].low <= Charged(a) /\ Charged(a) <= site.cost.rows[a].high

\* Every figure is a band: its low end is not above its high end.
BandIsABand ==
  Priced => \A a \in DOMAIN site.cost.rows : site.cost.rows[a].low <= site.cost.rows[a].high

\* Everything a finished teardown removed, and that costs money, is priced.
NothingGoesUnpriced ==
  PricedCycle /\ site.cost.status = "closed" =>
    \A a \in DOMAIN Deleted(site.latest) :
      Kind[a] \in DOMAIN CostModel.priced => a \in DOMAIN site.cost.rows

\* A teardown is priced against the apply that made what it removed.
PairIsOneCycle ==
  Priced /\ site.cost.status = "closed" => site.cost.applyRun = job.built

\* A row closed by a delete is about a resource that is gone.
ClosedRowsAreGone ==
  Priced => \A a \in DOMAIN site.cost.rows : site.cost.rows[a].state = "closed" => a \notin Live

\* The apply anchor and the numbers of the map are of the same cycle.
AnchorMatchesNodes ==
  job.phase = "idle" => site.anchor.run = site.nodesApply.run

-----------------------------------------------------------------------------
(* Sentences of the code taken at their word                               *)

\* A timeline is complete only of a job that did all it was meant to: "a
\* teardown cancelled between the two destroys folds into INCOMPLETE".
CompleteIsAllOfIt ==
  OfThisJob(site.latest) /\ site.latest.status = "complete" =>
    Live = (IF job.kind = "apply" THEN Resources ELSE {})

\* A measured noun is made: an apply_start with no answer is incomplete.
MeasuredIsAllMade ==
  streams # << >> /\ job.kind = "apply" /\ job.phase # "idle" =>
    \A n \in MadeIn(ReadingNow) : \A a \in Resources \ Live : n \notin NounOf(a)

\* State is "measured" when the noun is gone.
MeasuredIsAllGone ==
  streams # << >> /\ job.kind = "destroy" /\ job.phase # "idle" =>
    \A n \in GoneIn(ReadingNow) : \A a \in Live : n \notin NounOf(a)

\* What a reading of the job calls done, no later one takes back.
MeasuredIsFinal ==
  [][site.progress # NoDoc /\ site'.progress.run = site.progress.run =>
       /\ MadeIn(site.progress) \subseteq MadeIn(site'.progress)
       /\ GoneIn(site.progress) \subseteq GoneIn(site'.progress)]_vars
=============================================================================
