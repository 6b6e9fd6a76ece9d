---------------------------- MODULE ReportProofs ----------------------------
(***************************************************************************)
(* The report of a cycle, for any estate, map and number of jobs: what is  *)
(* published as complete is done, what a reading draws as made is made and *)
(* as gone is gone, no later reading takes it back, and a cost document    *)
(* holds what AWS charged and prices everything that was removed.          *)
(*                                                                         *)
(* The first part is about reading: what one event does to what was read   *)
(* of a stream.  The second follows a job to a timeline that says          *)
(* complete: what terraform still owes each resource leads where the job   *)
(* is going. The third follows a charged resource from the hook that makes *)
(* it to the document of the teardown that removed it, which is made from  *)
(* the records of two jobs.  The last says that what was read of each      *)
(* operation is no more than what happened, and counts what was planned of *)
(* a noun against what was done of it, over both operations of a job.      *)
(***************************************************************************)
EXTENDS CycleReport, TLAPS, FiniteSetTheorems, WellFoundedInduction

-----------------------------------------------------------------------------
(* Reading                                                                 *)

Partial(S, T) == UNION {[D -> T] : D \in SUBSET S}

Addresses == Resources \cup DataSources
Record == [action : {"create", "delete", "read"}, status : {"incomplete", "complete", "errored"},
           started : Int, finished : Int]
Ops == [planned : Partial(Resources, {"create", "delete", "replace"}),
        resources : Partial(Addresses, Record),
        reached : {"nothing", "plan", "apply", "destroy"}, terminal : BOOLEAN,
        first : Int, last : Int]

\* A nonempty set of naturals has a least element.
LEMMA Least == ASSUME NEW T \in SUBSET Nat, T # {} PROVE \E x \in T : \A y \in T : ~(y < x)
<1>1. PICK x \in T : \A y \in T : <<y, x>> \notin OpToRel(<, Nat)
  BY NatLessThanWellFounded, WFMin, Zenon
<1> QED
  BY <1>1 DEF OpToRel

LEMMA NoEntries == ASSUME NEW S, NEW T PROVE << >> \in Partial(S, T)
<1>1. << >> \in [{} -> T]
  OBVIOUS
<1> QED
  BY <1>1 DEF Partial

LEMMA UnreadIsOp == Unread \in Ops
BY NoEntries DEF Unread, Ops, None

\* The status a hook event leaves of a record.
StatusOf(rs, a) == IF a \in DOMAIN rs THEN rs[a].status ELSE "incomplete"
StartOf(rs, a) == IF a \in DOMAIN rs THEN rs[a].started ELSE None
Verdict(type, status) ==
  CASE type = "apply_complete" -> "complete"
    [] type = "apply_errored" -> "errored"
    [] OTHER -> status

\* What a hook event does to the records: its own address is given its action
\* and an instant and, if it is a verdict, its status.
HookLeaves(rs, type, a, action, new) ==
  /\ new \in Partial(Addresses, Record)
  /\ DOMAIN new = DOMAIN rs \cup {a}
  /\ \A b \in DOMAIN rs \ {a} : new[b] = rs[b]
  /\ new[a].action = action
  /\ new[a].status = Verdict(type, StatusOf(rs, a))
  /\ new[a].started = IF type = "apply_start" THEN Tick ELSE StartOf(rs, a)
  /\ type # "apply_start" => new[a].finished = Tick

LEMMA HookRecords ==
  ASSUME NEW rs \in Partial(Addresses, Record), NEW a \in Addresses,
         NEW e, e.addr = a, e.type \in {"apply_start", "apply_complete", "apply_errored"},
         e.action \in {"create", "delete", "read"}, e.at \in Int, e.at = Tick
  PROVE  HookLeaves(rs, e.type, a, e.action, ConsumeHook(rs, e))
<1> DEFINE type == e.type
           action == e.action
           at == e.at
           seen == IF a \in DOMAIN rs THEN rs[a]
                   ELSE [action |-> action, status |-> "incomplete", started |-> None, finished |-> None]
           named == [seen EXCEPT !.action = action]
           rec == CASE type = "apply_start"    -> [named EXCEPT !.started = at]
                    [] type = "apply_complete" -> [named EXCEPT !.status = "complete", !.finished = at]
                    [] type = "apply_errored"  -> [named EXCEPT !.status = "errored", !.finished = at]
                    [] OTHER -> named
           new == [b \in DOMAIN rs \cup {a} |-> IF b = a THEN rec ELSE rs[b]]
<1>1. PICK D \in SUBSET Addresses : rs \in [D -> Record]
  BY DEF Partial
<1>2. seen \in Record
  BY <1>1 DEF Record, None
<1>3. named \in Record /\ named.action = action /\ named.status = seen.status
      /\ named.started = seen.started
  BY <1>2 DEF Record
<1>4. /\ rec \in Record /\ rec.action = action
      /\ rec.status = Verdict(type, seen.status)
      /\ rec.started = IF type = "apply_start" THEN at ELSE seen.started
      /\ type # "apply_start" => rec.finished = at
  <2> HIDE DEF named, seen
  <2> QED
    BY <1>3 DEF Record, Verdict
<1>5. ConsumeHook(rs, e) = With(rs, a, rec)
  BY DEF ConsumeHook
<1>6. With(rs, a, rec) = new
  <2> HIDE DEF rec
  <2> QED
    BY DEF With
<1>7. new \in [D \cup {a} -> Record]
  <2> HIDE DEF rec
  <2> QED
    BY <1>1, <1>4
<1>8. new \in Partial(Addresses, Record)
  <2> HIDE DEF new
  <2> QED
    BY <1>7 DEF Partial
<1>9. DOMAIN new = DOMAIN rs \cup {a} /\ new[a] = rec /\ \A b \in DOMAIN rs \ {a} : new[b] = rs[b]
  <2> HIDE DEF rec
  <2> QED
    OBVIOUS
<1>10. seen.status = StatusOf(rs, a) /\ seen.started = StartOf(rs, a)
  BY DEF StatusOf, StartOf
<1> HIDE DEF rec, new, seen
<1> QED
  BY <1>4, <1>5, <1>6, <1>8, <1>9, <1>10 DEF HookLeaves

LEMMA NowhereIsNone == \A a \in Addresses : a # Nowhere
BY ReportAssumption DEF Addresses

\* What one event does to what was read of a stream.
Stamped(op, at) == [op EXCEPT !.first = Earlier(@, at), !.last = Later(@, at)]

LEMMA ConsumeCases ==
  ASSUME NEW op, NEW e
  PROVE  /\ e.type = "change_summary" => Consume(op, e) = ConsumeSummary(Stamped(op, e.at), e)
         /\ e.type = "planned_change" /\ e.addr # Nowhere =>
              Consume(op, e) = [Stamped(op, e.at) EXCEPT !.planned = With(@, e.addr, e.action)]
         /\ e.type \in Hooks /\ e.addr # Nowhere =>
              Consume(op, e) = [Stamped(op, e.at) EXCEPT !.resources = ConsumeHook(@, e)]
         /\ e.type = "garbled" => Consume(op, e) = op
BY DEF Consume, Stamped, Hooks

LEMMA StampedIsOp ==
  ASSUME NEW op \in Ops, NEW at \in Int
  PROVE  /\ Stamped(op, at) \in Ops
         /\ Stamped(op, at).planned = op.planned /\ Stamped(op, at).resources = op.resources
         /\ Stamped(op, at).terminal = op.terminal /\ Stamped(op, at).reached = op.reached
<1>1. Earlier(op.first, at) \in Int /\ Later(op.last, at) \in Int
  BY DEF Earlier, Later, Ops
<1> QED
  BY <1>1 DEF Stamped, Ops

LEMMA HookRead ==
  ASSUME NEW op \in Ops, clock \in Nat, NEW a \in Addresses,
         NEW type \in {"apply_start", "apply_complete", "apply_errored"},
         NEW action \in {"create", "delete", "read"}
  PROVE  LET new == Consume(op, Event(type, a, action))
         IN  /\ new \in Ops
             /\ new.planned = op.planned /\ new.terminal = op.terminal
             /\ new.reached = op.reached
             /\ HookLeaves(op.resources, type, a, action, new.resources)
<1> DEFINE e == Event(type, a, action)
           mid == Stamped(op, Tick)
           rs == ConsumeHook(op.resources, e)
<1>1. /\ Tick \in Int
      /\ e.type = type /\ e.addr = a /\ e.action = action /\ e.at = Tick
  BY DEF Tick, Event
<1>2. mid \in Ops /\ mid.planned = op.planned /\ mid.resources = op.resources
      /\ mid.terminal = op.terminal /\ mid.reached = op.reached
  BY <1>1, StampedIsOp
<1>3. op.resources \in Partial(Addresses, Record)
  BY DEF Ops
<1>4. Consume(op, e) = [mid EXCEPT !.resources = ConsumeHook(@, e)]
  BY <1>1, NowhereIsNone, ConsumeCases DEF Hooks
<1>5. HookLeaves(op.resources, type, a, action, rs)
  <2> HIDE DEF e
  <2>1. HookLeaves(op.resources, e.type, a, e.action, ConsumeHook(op.resources, e))
    BY <1>1, <1>3, HookRecords
  <2> QED
    BY <1>1, <2>1
<1>6. rs \in Partial(Addresses, Record)
  BY <1>5 DEF HookLeaves
<1>7. Consume(op, e) = [mid EXCEPT !.resources = rs]
  BY <1>4, <1>2 DEF Ops
<1> HIDE DEF mid, rs, e
<1>8. /\ [mid EXCEPT !.resources = rs] \in Ops
      /\ [mid EXCEPT !.resources = rs].resources = rs
      /\ [mid EXCEPT !.resources = rs].planned = mid.planned
      /\ [mid EXCEPT !.resources = rs].terminal = mid.terminal
      /\ [mid EXCEPT !.resources = rs].reached = mid.reached
  BY <1>2, <1>6 DEF Ops
<1> QED
  BY <1>2, <1>5, <1>7, <1>8 DEF e

LEMMA PlanRead ==
  ASSUME NEW op \in Ops, clock \in Nat, NEW a \in Resources,
         NEW action \in {"create", "delete", "replace"}
  PROVE  LET new == Consume(op, Event("planned_change", a, action))
         IN  /\ new \in Ops
             /\ new.resources = op.resources /\ new.terminal = op.terminal
             /\ new.reached = op.reached
             /\ DOMAIN new.planned = DOMAIN op.planned \cup {a}
             /\ \A b \in DOMAIN op.planned \ {a} : new.planned[b] = op.planned[b]
             /\ new.planned[a] = action
<1> DEFINE e == Event("planned_change", a, action)
           mid == Stamped(op, Tick)
           plan == With(op.planned, a, action)
<1>1. Tick \in Int /\ e = [type |-> "planned_change", addr |-> a, action |-> action, at |-> Tick]
  BY DEF Tick, Event
<1>2. mid \in Ops /\ mid.planned = op.planned /\ mid.resources = op.resources
      /\ mid.terminal = op.terminal /\ mid.reached = op.reached
  BY <1>1, StampedIsOp
<1>3. PICK D \in SUBSET Resources : op.planned \in [D -> {"create", "delete", "replace"}]
  BY DEF Ops, Partial
<1>4. a # Nowhere
  BY NowhereIsNone DEF Addresses
<1>5. Consume(op, e) = [mid EXCEPT !.planned = With(@, a, action)]
  BY <1>1, <1>4, ConsumeCases
<1>6. Consume(op, e) = [mid EXCEPT !.planned = plan]
  BY <1>5, <1>2 DEF Ops
<1>7. plan \in [D \cup {a} -> {"create", "delete", "replace"}]
  BY <1>3 DEF With
<1>8. plan \in Partial(Resources, {"create", "delete", "replace"})
  <2> HIDE DEF plan
  <2> QED
    BY <1>7 DEF Partial
<1>9. /\ DOMAIN plan = DOMAIN op.planned \cup {a} /\ plan[a] = action
      /\ \A b \in DOMAIN op.planned \ {a} : plan[b] = op.planned[b]
  BY DEF With
<1> HIDE DEF mid, plan, e
<1>10. /\ [mid EXCEPT !.planned = plan] \in Ops
       /\ [mid EXCEPT !.planned = plan].planned = plan
       /\ [mid EXCEPT !.planned = plan].resources = mid.resources
       /\ [mid EXCEPT !.planned = plan].terminal = mid.terminal
       /\ [mid EXCEPT !.planned = plan].reached = mid.reached
  BY <1>2, <1>8 DEF Ops
<1> QED
  BY <1>2, <1>6, <1>9, <1>10 DEF e

LEMMA SummaryRead ==
  ASSUME NEW op \in Ops, clock \in Nat, NEW what \in {"plan", "apply", "destroy"}
  PROVE  LET new == Consume(op, Event("change_summary", Nowhere, what))
         IN  /\ new \in Ops
             /\ new.resources = op.resources /\ new.planned = op.planned
             /\ new.reached # "nothing"
             /\ new.terminal = (IF what = "plan" THEN op.terminal ELSE TRUE)
<1> DEFINE e == Event("change_summary", Nowhere, what)
           mid == Stamped(op, Tick)
<1>1. Tick \in Int /\ e = [type |-> "change_summary", addr |-> Nowhere, action |-> what, at |-> Tick]
  BY DEF Tick, Event
<1>2. mid \in Ops /\ mid.planned = op.planned /\ mid.resources = op.resources
      /\ mid.terminal = op.terminal /\ mid.reached = op.reached
  BY <1>1, StampedIsOp
<1>3. Consume(op, e) = ConsumeSummary(mid, e)
  BY <1>1, ConsumeCases
<1> HIDE DEF mid
<1>4. CASE what = "plan"
  <2>1. ConsumeSummary(mid, e) = [mid EXCEPT !.reached = IF @ = "nothing" THEN "plan" ELSE @]
    BY <1>1, <1>4 DEF ConsumeSummary, TerminalOperations
  <2> QED
    BY <1>2, <1>3, <1>4, <2>1 DEF Ops
<1>5. CASE what # "plan"
  <2>1. ConsumeSummary(mid, e) = [mid EXCEPT !.terminal = TRUE, !.reached = what]
    <3>1. e.action = what /\ what \in TerminalOperations
      BY <1>1, <1>5 DEF TerminalOperations
    <3> HIDE DEF e
    <3> QED
      BY <3>1 DEF ConsumeSummary
  <2> QED
    BY <1>2, <1>3, <1>5, <2>1 DEF Ops
<1> QED
  BY <1>4, <1>5

-----------------------------------------------------------------------------
(* The types of a job and of what it leaves                                *)

\* What terraform may still owe a resource.
Owes == {<< >>, <<"create">>, <<"delete">>, <<"delete", "create">>}
Todo == {a \in Resources : todo[a] # << >>}

LEMMA OwedActions ==
  ASSUME todo \in [Resources -> Owes], NEW a \in Todo
  PROVE  /\ Head(todo[a]) \in {"create", "delete"} /\ Tail(todo[a]) \in Owes
         /\ PlannedAction(a) \in {"create", "delete", "replace"}
         /\ todo[a] = <<"create">> => PlannedAction(a) = "create"
         /\ todo[a] = <<"delete">> => PlannedAction(a) = "delete"
<1>1. todo[a] \in {<<"create">>, <<"delete">>, <<"delete", "create">>}
  BY DEF Todo, Owes
<1>2. CASE todo[a] = <<"create">>
  BY <1>2 DEF PlannedAction, Owes
<1>3. CASE todo[a] = <<"delete">>
  BY <1>3 DEF PlannedAction, Owes
<1>4. CASE todo[a] = <<"delete", "create">>
  BY <1>4 DEF PlannedAction, Owes
<1> QED
  BY <1>1, <1>2, <1>3, <1>4

Phases == {"idle", "ready", "planning", "working", "report", "nodes", "anchor", "cost"}
Jobs == [phase : Phases, kind : {"none", "apply", "destroy"}, run : Nat, built : Nat,
         applies : 0..MaxApplies, destroys : 0..MaxDestroys]
Stream == [cmd : {"apply", "destroy"}, rc : {Torn, None, 0, 1}, op : Ops]
Fields == {"latest", "nodesApply", "nodesDestroy", "anchor", "cost", "progress"}

Busy == job.phase \in {"planning", "working"}

\* What has been read of a plan while it is announced: some of the data sources,
\* and some of what is owed.
PlanHeard ==
  /\ ~Written.terminal /\ Written.reached = "nothing"
  /\ DOMAIN Written.resources \subseteq DataSources
  /\ \A d \in DOMAIN Written.resources :
       Written.resources[d].action = "read" /\ Written.resources[d].status = "complete"
  /\ DOMAIN Written.planned \subseteq Todo
  /\ \A a \in DOMAIN Written.planned : Written.planned[a] = PlannedAction(a)

JobTypes ==
  /\ job \in Jobs
  /\ job.run = job.applies + job.destroys
  /\ job.phase # "idle" => job.kind # "none" /\ job.run # 0
EstateTypes ==
  /\ estate \in [Resources -> {"live", "gone"}]
  /\ clock \in Nat
  /\ born \in [Resources -> -1..clock] /\ died \in [Resources -> -1..clock]
WorkTypes ==
  /\ todo \in [Resources -> Owes]
  /\ flight \subseteq Todo
  /\ Busy \/ Todo = {}
StreamTypes ==
  /\ streams \in Seq(Stream)
  /\ Busy => streams # << >>
  /\ job.phase = "planning" => PlanHeard

Types == JobTypes /\ EstateTypes /\ WorkTypes /\ StreamTypes /\ DOMAIN site = Fields

\* What of the streams a step that rewrites the last operation leaves.
OpBecomes(op) ==
  /\ streams' \in Seq(Stream) /\ Len(streams') = Len(streams) /\ streams' # << >>
  /\ Written' = op
  /\ \A i \in 1..Len(streams) : streams'[i].rc = streams[i].rc /\ streams'[i].cmd = streams[i].cmd
  /\ \A i \in 1..Len(streams) : i # Len(streams) => streams'[i].op = streams[i].op

LEMMA Rewritten ==
  ASSUME streams \in Seq(Stream), streams # << >>, NEW op \in Ops,
         streams' = [streams EXCEPT ![Len(streams)].op = op]
  PROVE  OpBecomes(op)
<1>1. Len(streams) \in Nat \ {0} /\ \A i \in 1..Len(streams) : streams[i] \in Stream
  OBVIOUS
<1>2. streams[Len(streams)] \in Stream
  BY <1>1
<1> DEFINE last == [streams[Len(streams)] EXCEPT !.op = op]
<1>3. last \in Stream /\ last.op = op /\ last.rc = streams[Len(streams)].rc
      /\ last.cmd = streams[Len(streams)].cmd
  BY <1>2 DEF Stream
<1>4. streams' = [streams EXCEPT ![Len(streams)] = last]
  OBVIOUS
<1> HIDE DEF last
<1>5. streams' \in Seq(Stream) /\ Len(streams') = Len(streams)
  BY <1>1, <1>3, <1>4
<1>6. streams'[Len(streams)] = last /\ \A i \in 1..Len(streams) : i # Len(streams) => streams'[i] = streams[i]
  BY <1>1, <1>4
<1>7. streams' # << >>
  BY <1>1, <1>5
<1> QED
  BY <1>3, <1>5, <1>6, <1>7 DEF OpBecomes, Written

LEMMA WrittenIsOp == ASSUME streams \in Seq(Stream), streams # << >> PROVE Written \in Ops
<1>1. streams[Len(streams)] \in Stream
  OBVIOUS
<1> QED
  BY <1>1 DEF Written, Stream

LEMMA Ticks == ASSUME clock \in Nat PROVE Tick \in Nat /\ clock <= Tick
BY DEF Tick

\* A hook event: what it makes of the operation terraform is in.
Hooked(type, a) ==
  \E op \in Ops :
    /\ OpBecomes(op)
    /\ op.planned = Written.planned /\ op.terminal = Written.terminal
    /\ op.reached = Written.reached
    /\ HookLeaves(Written.resources, type, a, Head(todo[a]), op.resources)
    /\ clock' = Tick

LEMMA HookEmitted ==
  ASSUME Types, Busy, NEW a \in Todo,
         NEW type \in {"apply_start", "apply_complete", "apply_errored"},
         Emit(Event(type, a, Head(todo[a])))
  PROVE  Hooked(type, a)
<1> DEFINE op == Consume(Written, Event(type, a, Head(todo[a])))
<1>1. Written \in Ops /\ streams \in Seq(Stream) /\ streams # << >> /\ clock \in Nat
  BY WrittenIsOp DEF Types, StreamTypes, EstateTypes
<1>2. a \in Addresses /\ Head(todo[a]) \in {"create", "delete", "read"}
  BY OwedActions DEF Types, WorkTypes, Todo, Addresses
<1>3. /\ op \in Ops
      /\ op.planned = Written.planned /\ op.terminal = Written.terminal
      /\ op.reached = Written.reached
      /\ HookLeaves(Written.resources, type, a, Head(todo[a]), op.resources)
  BY <1>1, <1>2, HookRead
<1>4. streams' = [streams EXCEPT ![Len(streams)].op = op] /\ clock' = Tick
  BY <1>1 DEF Emit, Written
<1> HIDE DEF op
<1>5. OpBecomes(op)
  BY <1>1, <1>3, <1>4, Rewritten
<1> QED
  BY <1>3, <1>4, <1>5 DEF Hooked

LEMMA InitTypes == Init => Types
<1> SUFFICES ASSUME Init PROVE Types
  OBVIOUS
<1>1. JobTypes
  BY ReportAssumption DEF Init, JobTypes, Jobs, Phases
<1>2. EstateTypes
  BY DEF Init, EstateTypes, None
<1>3. WorkTypes
  BY DEF Init, WorkTypes, Todo, Owes
<1>4. StreamTypes
  BY DEF Init, StreamTypes, Busy
<1> QED
  BY <1>1, <1>2, <1>3, <1>4 DEF Types, Init, Fields

\* Nothing is charged before the clock began, however far it has gone.
LEMMA Later1 ==
  ASSUME EstateTypes, clock' \in Nat, clock <= clock', UNCHANGED <<estate, born, died>>
  PROVE  EstateTypes'
BY DEF EstateTypes

LEMMA EffectTypes ==
  ASSUME EstateTypes, clock' = Tick, NEW a \in Resources, Effect(a)
  PROVE  EstateTypes'
<1>1. clock' \in Nat /\ clock <= clock' /\ clock' \in -1..clock' /\ -1 \in -1..clock'
  BY Ticks DEF EstateTypes
<1>2. born \in [Resources -> -1..clock'] /\ died \in [Resources -> -1..clock']
  BY <1>1 DEF EstateTypes
<1>3. estate' \in [Resources -> {"live", "gone"}]
  BY DEF Effect, Comes, Goes, EstateTypes
<1>4. born' \in [Resources -> -1..clock'] /\ died' \in [Resources -> -1..clock']
  BY <1>1, <1>2 DEF Effect, Comes, Goes, None
<1> QED
  BY <1>1, <1>3, <1>4 DEF EstateTypes

LEMMA OwedWork ==
  /\ << >> \in Owes
  /\ \A a \in Resources : Owed(a) \in Owes
  /\ \A S : [a \in Resources |-> IF a \in S THEN <<"delete">> ELSE << >>] \in [Resources -> Owes]
<1>1. << >> \in Owes /\ <<"delete">> \in Owes /\ <<"create">> \in Owes /\ <<"delete", "create">> \in Owes
  BY DEF Owes
<1> QED
  BY <1>1 DEF Owed

LEMMA OpenTypes ==
  ASSUME Types, job.kind \in {"apply", "destroy"}, job.phase = "ready",
         NEW work \in [Resources -> Owes], Open(work)
  PROVE  /\ Types'
         /\ Len(streams') = Len(streams) + 1 /\ streams' # << >>
         /\ Written' = Unread /\ todo' = work
         /\ job'.phase = "planning" /\ job'.kind = job.kind /\ job'.run = job.run
<1> USE DEF Types
<1> DEFINE new == [cmd |-> job.kind, rc |-> None, op |-> Unread]
<1>1. new \in Stream /\ new.op = Unread
  BY UnreadIsOp DEF Stream
<1>2. streams' = Append(streams, new) /\ streams \in Seq(Stream)
  BY DEF Open, StreamTypes
<1> HIDE DEF new
<1>3. streams' \in Seq(Stream) /\ Len(streams') = Len(streams) + 1 /\ streams' # << >>
      /\ streams'[Len(streams')] = new
  BY <1>1, <1>2
<1>4. job' \in Jobs /\ job'.phase = "planning" /\ job'.kind = job.kind /\ job'.run = job.run
      /\ job'.applies = job.applies /\ job'.destroys = job.destroys
  BY DEF Open, JobTypes, Jobs, Phases
<1>5. JobTypes'
  BY <1>4 DEF JobTypes
<1>6. EstateTypes'
  BY DEF Open, EstateTypes
<1>7. WorkTypes'
  <2>1. flight = {} /\ flight' = flight /\ todo' = work
    BY DEF Open, WorkTypes, Busy
  <2> QED
    BY <1>4, <2>1 DEF WorkTypes, Busy
<1>8. Written' = Unread
  BY <1>1, <1>3 DEF Written
<1>9. StreamTypes'
  <2>1. PlanHeard'
    BY <1>8 DEF PlanHeard, Unread
  <2> QED
    BY <1>3, <2>1 DEF StreamTypes
<1> QED
  BY <1>3, <1>4, <1>5, <1>6, <1>7, <1>8, <1>9 DEF Open

\* The last operation is closed with an exit code, or with none; what was read
\* of it stays.
OpClosed(rc) ==
  /\ streams' \in Seq(Stream) /\ Len(streams') = Len(streams) /\ streams' # << >>
  /\ Written' = Written
  /\ streams'[Len(streams)].rc = rc
  /\ \A i \in 1..Len(streams) : streams'[i].op = streams[i].op /\ streams'[i].cmd = streams[i].cmd

LEMMA LastReplaced ==
  ASSUME streams \in Seq(Stream), streams # << >>, NEW new \in Stream,
         new.op = Written, new.cmd = streams[Len(streams)].cmd, streams' = [streams EXCEPT ![Len(streams)] = new]
  PROVE  OpClosed(new.rc)
<1>1. Len(streams) \in Nat \ {0} /\ \A i \in 1..Len(streams) : streams[i] \in Stream
  OBVIOUS
<1>2. streams' \in Seq(Stream) /\ Len(streams') = Len(streams)
  BY <1>1
<1>3. streams'[Len(streams)] = new /\ \A i \in 1..Len(streams) : i # Len(streams) => streams'[i] = streams[i]
  BY <1>1
<1>4. streams' # << >>
  BY <1>1, <1>2
<1> QED
  BY <1>2, <1>3, <1>4 DEF OpClosed, Written

LEMMA ReturnCloses ==
  ASSUME Types, Return
  PROVE  OpClosed(IF Erred THEN 1 ELSE 0)
<1> DEFINE rc == IF Erred THEN 1 ELSE 0
           new == [streams[Len(streams)] EXCEPT !.rc = rc]
<1>1. streams \in Seq(Stream) /\ streams # << >>
  BY DEF Types, StreamTypes, Busy, Return
<1>2. streams[Len(streams)] \in Stream
  BY <1>1
<1>3. rc \in {0, 1}
  OBVIOUS
<1>4. streams' = [streams EXCEPT ![Len(streams)] = new]
  BY DEF Return
<1> HIDE DEF rc
<1>5. new \in Stream /\ new.op = Written /\ new.rc = rc /\ new.cmd = streams[Len(streams)].cmd
  BY <1>2, <1>3 DEF Stream, Written
<1> HIDE DEF new
<1>6. OpClosed(new.rc)
  BY <1>1, <1>4, <1>5, LastReplaced
<1> QED
  BY <1>5, <1>6 DEF rc

LEMMA CancelCloses ==
  ASSUME Types, Cancel, job.phase # "ready"
  PROVE  \E rc \in {None, Torn} : OpClosed(rc)
<1>1. streams \in Seq(Stream) /\ streams # << >>
  BY DEF Types, StreamTypes, Busy, Cancel
<1>2. streams[Len(streams)] \in Stream
  BY <1>1
<1> DEFINE garbled == Event("garbled", Nowhere, "none")
           new(rc) == [streams[Len(streams)] EXCEPT !.rc = rc, !.op = Consume(Written, garbled)]
<1>3. PICK rc \in {None, Torn} : streams' = [streams EXCEPT ![Len(streams)] = new(rc)]
  <2>1. PICK rc \in {None, Torn} :
          streams' = [streams EXCEPT ![Len(streams)].rc = rc, ![Len(streams)].op = Consume(@, garbled)]
    BY DEF Cancel
  <2> HIDE DEF garbled
  <2>2. streams' = [streams EXCEPT ![Len(streams)] = new(rc)]
    BY <1>1, <1>2, <2>1 DEF Written, Stream
  <2> QED
    BY <2>2
<1>4. Consume(Written, garbled) = Written
  BY ConsumeCases DEF Event
<1>5. new(rc) \in Stream /\ new(rc).op = Written /\ new(rc).rc = rc /\ new(rc).cmd = streams[Len(streams)].cmd
  <2> HIDE DEF garbled
  <2> QED
    BY <1>2, <1>4 DEF Stream, Written
<1> DEFINE closed == new(rc)
<1> HIDE DEF new
<1>6. closed \in Stream /\ closed.op = Written /\ closed.rc = rc /\ closed.cmd = streams[Len(streams)].cmd
      /\ streams' = [streams EXCEPT ![Len(streams)] = closed]
  BY <1>3, <1>5
<1> HIDE DEF closed
<1>7. OpClosed(closed.rc)
  BY <1>1, <1>6, LastReplaced
<1> QED
  BY <1>6, <1>7

\* What terraform writes before any hook: the data sources it reads, the lines
\* of its plan, and the line that closes it.
Announcing == (\E d \in DataSources : ReadData(d)) \/ (\E a \in Resources : Announce(a)) \/ ClosePlan

\* What a line of the announcement leaves of the operation.
LEMMA AnnounceReads ==
  ASSUME Types, Announcing
  PROVE  /\ \E op \in Ops :
              /\ OpBecomes(op) /\ ~op.terminal
              /\ DOMAIN op.resources \subseteq DataSources
              /\ \A d \in DOMAIN op.resources :
                   op.resources[d].action = "read" /\ op.resources[d].status = "complete"
              /\ DOMAIN Written.planned \subseteq DOMAIN op.planned /\ DOMAIN op.planned \subseteq Todo
              /\ \A a \in DOMAIN op.planned : op.planned[a] = PlannedAction(a)
              /\ \/ job'.phase = "planning" /\ op.reached = "nothing"
                 \/ job'.phase = "working" /\ op.reached # "nothing" /\ DOMAIN op.planned = Todo
         /\ job' \in Jobs /\ job'.kind = job.kind /\ job'.run = job.run /\ job'.built = job.built
         /\ job'.applies = job.applies /\ job'.destroys = job.destroys
         /\ job.phase = "planning"
         /\ clock' = Tick /\ UNCHANGED <<estate, born, died, todo, flight, site>>
<1>1. streams \in Seq(Stream) /\ streams # << >> /\ Written \in Ops /\ clock \in Nat
  BY WrittenIsOp DEF Types, StreamTypes, EstateTypes, Busy, Announcing, ReadData, Announce, ClosePlan
<1>2. job.phase = "planning" /\ PlanHeard
  BY DEF Types, StreamTypes, Announcing, ReadData, Announce, ClosePlan
<1>3. /\ job' \in Jobs /\ job'.kind = job.kind /\ job'.run = job.run /\ job'.built = job.built
      /\ job'.applies = job.applies /\ job'.destroys = job.destroys
      /\ clock' = Tick /\ UNCHANGED <<estate, born, died, todo, flight, site>>
  BY DEF Types, JobTypes, Jobs, Phases, Announcing, ReadData, Announce, ClosePlan, Emit
<1>4. ASSUME NEW event, Emit(event), Consume(Written, event) \in Ops PROVE OpBecomes(Consume(Written, event))
  <2> DEFINE op == Consume(Written, event)
  <2>1. op \in Ops /\ streams' = [streams EXCEPT ![Len(streams)].op = op]
    BY <1>1, <1>4 DEF Emit, Written
  <2> HIDE DEF op
  <2>2. OpBecomes(op)
    BY <1>1, <2>1, Rewritten
  <2> QED
    BY <2>2 DEF op
<1>5. ASSUME NEW d \in DataSources, ReadData(d)
      PROVE  \E op \in Ops :
               /\ OpBecomes(op) /\ ~op.terminal
               /\ DOMAIN op.resources \subseteq DataSources
               /\ \A b \in DOMAIN op.resources :
                    op.resources[b].action = "read" /\ op.resources[b].status = "complete"
               /\ op.planned = Written.planned
               /\ job'.phase = "planning" /\ op.reached = "nothing"
  <2> DEFINE event == Event("apply_complete", d, "read")
             op == Consume(Written, event)
  <2>1. /\ op \in Ops /\ op.planned = Written.planned /\ op.terminal = Written.terminal
        /\ op.reached = Written.reached
        /\ HookLeaves(Written.resources, "apply_complete", d, "read", op.resources)
    BY <1>1, HookRead DEF Addresses
  <2>2. Emit(event) /\ job'.phase = "planning"
    BY <1>2, <1>5 DEF ReadData
  <2> HIDE DEF event
  <2>3. OpBecomes(op)
    BY <1>4, <2>1, <2>2
  <2> HIDE DEF op
  <2>4. op.resources[d].action = "read" /\ op.resources[d].status = "complete"
    BY <2>1 DEF HookLeaves, Verdict
  <2>5. DOMAIN op.resources = DOMAIN Written.resources \cup {d}
        /\ \A b \in DOMAIN Written.resources \ {d} : op.resources[b] = Written.resources[b]
    BY <2>1 DEF HookLeaves
  <2> QED
    BY <1>2, <2>1, <2>2, <2>3, <2>4, <2>5 DEF PlanHeard
<1>6. ASSUME NEW a \in Resources, Announce(a)
      PROVE  \E op \in Ops :
               /\ OpBecomes(op) /\ ~op.terminal
               /\ op.resources = Written.resources
               /\ DOMAIN Written.planned \subseteq DOMAIN op.planned /\ DOMAIN op.planned \subseteq Todo
               /\ \A b \in DOMAIN op.planned : op.planned[b] = PlannedAction(b)
               /\ job'.phase = "planning" /\ op.reached = "nothing"
  <2> DEFINE event == Event("planned_change", a, PlannedAction(a))
             op == Consume(Written, event)
  <2>1. a \in Todo /\ PlannedAction(a) \in {"create", "delete", "replace"}
    BY <1>6, OwedActions DEF Announce, Todo, Types, WorkTypes
  <2>2. /\ op \in Ops /\ op.resources = Written.resources /\ op.terminal = Written.terminal
        /\ op.reached = Written.reached
        /\ DOMAIN op.planned = DOMAIN Written.planned \cup {a}
        /\ \A b \in DOMAIN Written.planned \ {a} : op.planned[b] = Written.planned[b]
        /\ op.planned[a] = PlannedAction(a)
    BY <1>1, <2>1, PlanRead
  <2>3. Emit(event) /\ job'.phase = "planning"
    BY <1>2, <1>6 DEF Announce
  <2> HIDE DEF event
  <2>4. OpBecomes(op)
    BY <1>4, <2>2, <2>3
  <2> HIDE DEF op
  <2> QED
    BY <1>2, <2>1, <2>2, <2>3, <2>4 DEF PlanHeard
<1>7. CASE ClosePlan
  <2> DEFINE event == Event("change_summary", Nowhere, "plan")
             op == Consume(Written, event)
  <2>1. /\ op \in Ops /\ op.resources = Written.resources /\ op.planned = Written.planned
        /\ op.reached # "nothing" /\ op.terminal = Written.terminal
    BY <1>1, SummaryRead
  <2>2. Emit(event) /\ job'.phase = "working" /\ Todo \subseteq DOMAIN Written.planned
    BY <1>7 DEF ClosePlan, Todo, Types, JobTypes, Jobs
  <2> HIDE DEF event
  <2>3. OpBecomes(op)
    BY <1>4, <2>1, <2>2
  <2> HIDE DEF op
  <2> QED
    BY <1>2, <1>3, <2>1, <2>2, <2>3 DEF PlanHeard
<1> QED
  BY <1>2, <1>3, <1>5, <1>6, <1>7 DEF Announcing, PlanHeard


LEMMA SummariseReads ==
  ASSUME Types, Summarise
  PROVE  \E op \in Ops :
           /\ OpBecomes(op) /\ op.terminal /\ op.reached # "nothing"
           /\ op.resources = Written.resources /\ op.planned = Written.planned
<1> DEFINE op == Consume(Written, Event("change_summary", Nowhere, job.kind))
<1>1. streams \in Seq(Stream) /\ streams # << >> /\ Written \in Ops /\ clock \in Nat
  BY WrittenIsOp DEF Types, StreamTypes, EstateTypes, Busy, Summarise
<1>2. job.kind \in {"apply", "destroy"}
  BY DEF Types, JobTypes, Jobs, Summarise
<1>3. op \in Ops /\ op.terminal = TRUE /\ op.resources = Written.resources /\ op.planned = Written.planned
      /\ op.reached # "nothing"
  <2> DEFINE read(what) == Consume(Written, Event("change_summary", Nowhere, what))
  <2>1. \A what \in {"apply", "destroy"} :
          /\ read(what) \in Ops /\ read(what).terminal = TRUE /\ read(what).reached # "nothing"
          /\ read(what).resources = Written.resources /\ read(what).planned = Written.planned
    <3> SUFFICES ASSUME NEW what \in {"apply", "destroy"}
                 PROVE  /\ read(what) \in Ops /\ read(what).terminal = TRUE /\ read(what).reached # "nothing"
                        /\ read(what).resources = Written.resources /\ read(what).planned = Written.planned
      OBVIOUS
    <3>1. what # "plan" /\ what \in {"plan", "apply", "destroy"}
      OBVIOUS
    <3>2. /\ read(what) \in Ops /\ read(what).reached # "nothing"
          /\ read(what).resources = Written.resources /\ read(what).planned = Written.planned
      BY <1>1, <3>1, SummaryRead
    <3>3. read(what).terminal = (IF what = "plan" THEN Written.terminal ELSE TRUE)
      BY <1>1, <3>1, SummaryRead
    <3> QED
      BY <3>1, <3>2, <3>3
  <2> HIDE DEF read
  <2>2. /\ read(job.kind) \in Ops /\ read(job.kind).terminal = TRUE /\ read(job.kind).reached # "nothing"
        /\ read(job.kind).resources = Written.resources /\ read(job.kind).planned = Written.planned
    BY <1>2, <2>1
  <2> QED
    BY <2>2 DEF read
<1>4. streams' = [streams EXCEPT ![Len(streams)].op = op]
  BY <1>1 DEF Summarise, Emit, Written
<1> HIDE DEF op
<1>5. OpBecomes(op)
  BY <1>1, <1>3, <1>4, Rewritten
<1> QED
  BY <1>3, <1>5

\* The steps that change neither the streams nor the estate, only the phase.
LEMMA PhaseTypes ==
  ASSUME Types, NEW next \in Phases \ {"planning", "working"}, ~Busy,
         job' = [job EXCEPT !.phase = next], job.phase # "idle",
         UNCHANGED <<estate, born, died, clock, todo, flight, streams>>,
         DOMAIN site' = Fields
  PROVE  Types'
<1>1. /\ job' \in Jobs /\ job'.phase = next /\ job'.kind = job.kind /\ job'.run = job.run
      /\ job'.applies = job.applies /\ job'.destroys = job.destroys
  BY DEF Types, JobTypes, Jobs
<1>2. JobTypes'
  BY <1>1 DEF Types, JobTypes
<1>3. EstateTypes' /\ WorkTypes'
  BY <1>1 DEF Types, EstateTypes, WorkTypes, Busy, Todo
<1>4. StreamTypes'
  BY <1>1 DEF Types, StreamTypes, Busy
<1> QED
  BY <1>2, <1>3, <1>4 DEF Types

LEMMA HookTypes ==
  ASSUME Types, job.phase = "working", UNCHANGED <<job, site>>,
         \E op \in Ops : OpBecomes(op),
         EstateTypes', todo' \in [Resources -> Owes], flight' \subseteq Todo'
  PROVE  Types'
<1>1. JobTypes' /\ WorkTypes'
  BY DEF Types, JobTypes, WorkTypes, Busy
<1>2. StreamTypes'
  BY DEF Types, StreamTypes, Busy, OpBecomes
<1> QED
  BY <1>1, <1>2 DEF Types

LEMMA TypesStep == Types /\ [Next]_vars => Types'
<1> SUFFICES ASSUME Types, [Next]_vars PROVE Types'
  OBVIOUS
<1>1. ASSUME NEW kind \in {"apply", "destroy"}, Begin(kind),
             kind = "apply" => job.applies < MaxApplies,
             kind = "destroy" => job.destroys < MaxDestroys
      PROVE  Types'
  <2>1. /\ job' \in Jobs /\ job'.phase = "ready" /\ job'.kind = kind
        /\ job'.run = job'.applies + job'.destroys /\ job'.run # 0
    BY <1>1, ReportAssumption DEF Begin, Types, JobTypes, Jobs, Phases
  <2>2. EstateTypes'
    BY <1>1, Ticks, Later1 DEF Begin, Types, EstateTypes
  <2>3. WorkTypes' /\ StreamTypes'
    BY <1>1, <2>1 DEF Begin, Types, WorkTypes, StreamTypes, Busy, Todo
  <2> QED
    BY <1>1, <2>1, <2>2, <2>3 DEF Types, JobTypes, Begin
<1>2. CASE Invoke
  <2> SUFFICES ASSUME job.kind \in {"apply", "destroy"}, job.phase = "ready",
                      NEW work \in [Resources -> Owes], Open(work)
               PROVE  Types'
    BY <1>2, OwedWork DEF Invoke, InvokeApply, InvokeRollback, InvokeDestroyAlb, InvokeDestroy
  <2> QED
    BY OpenTypes
<1>3. CASE Announcing
  <2>1. PICK op \in Ops :
          /\ OpBecomes(op) /\ ~op.terminal
          /\ DOMAIN op.resources \subseteq DataSources
          /\ \A d \in DOMAIN op.resources :
               op.resources[d].action = "read" /\ op.resources[d].status = "complete"
          /\ DOMAIN op.planned \subseteq Todo
          /\ \A a \in DOMAIN op.planned : op.planned[a] = PlannedAction(a)
          /\ \/ job'.phase = "planning" /\ op.reached = "nothing"
             \/ job'.phase = "working"
    BY <1>3, AnnounceReads
  <2>2. /\ job' \in Jobs /\ job'.kind = job.kind /\ job'.run = job.run
        /\ job'.applies = job.applies /\ job'.destroys = job.destroys
        /\ job.phase = "planning" /\ clock' = Tick
        /\ UNCHANGED <<estate, born, died, todo, flight, site>>
    BY <1>3, AnnounceReads
  <2>3. EstateTypes'
    BY <2>2, Ticks, Later1 DEF Types, EstateTypes
  <2>4. WorkTypes'
    BY <2>1, <2>2 DEF Types, WorkTypes, Busy, Todo
  <2>5. job'.phase = "planning" => PlanHeard'
    BY <2>1, <2>2 DEF OpBecomes, PlanHeard, PlannedAction, Todo
  <2>6. StreamTypes'
    BY <2>1, <2>2, <2>5 DEF OpBecomes, StreamTypes
  <2> QED
    BY <2>2, <2>3, <2>4, <2>6 DEF Types, JobTypes
<1>4. CASE Summarise
  <2>1. EstateTypes'
    BY <1>4, Ticks, Later1 DEF Summarise, Emit, Types, EstateTypes
  <2>2. todo' \in [Resources -> Owes] /\ flight' \subseteq Todo'
    BY <1>4 DEF Summarise, Types, WorkTypes, Todo
  <2> QED
    BY <1>4, <2>1, <2>2, SummariseReads, HookTypes DEF Summarise
<1>5. CASE Return
  <2>1. PICK rc : OpClosed(rc)
    BY <1>5, ReturnCloses
  <2>2. /\ job' \in Jobs /\ job'.phase \in {"report", "ready"} /\ job'.kind = job.kind /\ job'.run = job.run
        /\ job'.applies = job.applies /\ job'.destroys = job.destroys
    BY <1>5 DEF Return, Types, JobTypes, Jobs, Phases
  <2>3. EstateTypes' /\ DOMAIN site' = Fields
    BY <1>5 DEF Return, Types, EstateTypes
  <2>4. WorkTypes'
    BY <1>5, OwedWork DEF Return, WorkTypes, Todo
  <2>5. StreamTypes'
    BY <2>1, <2>2 DEF OpClosed, StreamTypes, Busy
  <2>6. JobTypes'
    BY <1>5, <2>2 DEF Types, JobTypes, Return
  <2> QED
    BY <2>3, <2>4, <2>5, <2>6 DEF Types
<1>6. CASE Finish
  BY <1>6, PhaseTypes DEF Finish, Types, JobTypes, Busy, Phases
<1>7. CASE Cancel
  <2>1. streams' = streams \/ \E rc : OpClosed(rc)
    BY <1>7, CancelCloses DEF Cancel
  <2>2. /\ job' \in Jobs /\ job'.phase = "report" /\ job'.kind = job.kind /\ job'.run = job.run
        /\ job'.applies = job.applies /\ job'.destroys = job.destroys
    BY <1>7 DEF Cancel, Types, JobTypes, Jobs, Phases
  <2>3. EstateTypes' /\ DOMAIN site' = Fields
    BY <1>7 DEF Cancel, Types, EstateTypes
  <2>4. WorkTypes'
    BY <1>7, OwedWork DEF Cancel, WorkTypes, Todo
  <2>5. StreamTypes'
    BY <2>1, <2>2 DEF OpClosed, StreamTypes, Busy, Types
  <2>6. JobTypes'
    BY <1>7, <2>2 DEF Types, JobTypes, Cancel
  <2> QED
    BY <2>3, <2>4, <2>5, <2>6 DEF Types
<1>8. CASE Watch
  BY <1>8 DEF Watch, Types, JobTypes, EstateTypes, WorkTypes, StreamTypes, Busy, Todo, Written,
              PlanHeard, PlannedAction
<1>9. ASSUME NEW a \in Resources, StartHook(a) PROVE Types'
  <2>1. Hooked("apply_start", a)
    BY <1>9, HookEmitted DEF StartHook, Busy, Todo
  <2>2. EstateTypes'
    BY <1>9, Ticks, Later1 DEF StartHook, Emit, Types, EstateTypes
  <2>3. todo' \in [Resources -> Owes] /\ flight' \subseteq Todo'
    BY <1>9 DEF StartHook, Types, WorkTypes, Todo
  <2> QED
    BY <1>9, <2>1, <2>2, <2>3, HookTypes DEF StartHook, Hooked
<1>10. ASSUME NEW a \in Resources, Charge(a) PROVE Types'
  <2>1. EstateTypes'
    BY <1>10, EffectTypes DEF Charge, Types
  <2> QED
    BY <1>10, <2>1 DEF Charge, Types, JobTypes, WorkTypes, StreamTypes, Busy, Todo, Written
<1>11. ASSUME NEW a \in Resources, FinishHook(a) PROVE Types'
  <2>1. a \in Todo /\ a \in flight
    BY <1>11 DEF FinishHook, Types, WorkTypes
  <2>2. Hooked("apply_complete", a)
    BY <1>11, <2>1, HookEmitted DEF FinishHook, Busy
  <2>3. EstateTypes'
    <3>1. clock' = Tick
      BY <2>2 DEF Hooked
    <3> QED
      BY <1>11, <3>1, EffectTypes, Ticks, Later1 DEF FinishHook, Types, EstateTypes
  <2>4. todo' \in [Resources -> Owes] /\ flight' \subseteq Todo'
    BY <1>11, <2>1, OwedActions DEF FinishHook, Types, WorkTypes, Todo
  <2> QED
    BY <1>11, <2>2, <2>3, <2>4, HookTypes DEF FinishHook, Hooked
<1>12. ASSUME NEW a \in Resources, FailHook(a) PROVE Types'
  <2>1. a \in Todo /\ a \in flight
    BY <1>12 DEF FailHook, Types, WorkTypes
  <2>2. Hooked("apply_errored", a)
    BY <1>12, <2>1, HookEmitted DEF FailHook, Busy
  <2>3. EstateTypes'
    BY <1>12, Ticks, Later1 DEF FailHook, Emit, Types, EstateTypes
  <2>4. todo' \in [Resources -> Owes] /\ flight' \subseteq Todo'
    BY <1>12, <2>1, OwedWork DEF FailHook, Types, WorkTypes, Todo
  <2> QED
    BY <1>12, <2>2, <2>3, <2>4, HookTypes DEF FailHook, Hooked
<1>13. CASE PublishTimeline \/ PublishNodes \/ PublishAnchor \/ PublishCost \/ LoseRunner
  <2>1. ~Busy /\ job.phase # "idle"
    BY <1>13 DEF PublishTimeline, PublishNodes, PublishAnchor, PublishCost, LoseRunner, Busy, Types, JobTypes
  <2>2. \E next \in {"idle", "nodes", "anchor", "cost"} : Skip(next) \/ \E field, doc : Put(field, doc, next)
    BY <1>13 DEF PublishTimeline, PublishNodes, PublishAnchor, PublishCost, LoseRunner
  <2>3. PICK next \in {"idle", "nodes", "anchor", "cost"} : Skip(next) \/ \E field, doc : Put(field, doc, next)
    BY <2>2
  <2>4. DOMAIN site' = Fields
    BY <2>3 DEF Skip, Put, Types
  <2>5. next \in Phases \ {"planning", "working"}
    BY DEF Phases
  <2> QED
    BY <2>1, <2>3, <2>4, <2>5, PhaseTypes DEF Skip, Put
<1>14. CASE UNCHANGED vars
  BY <1>14 DEF vars, Types, JobTypes, EstateTypes, WorkTypes, StreamTypes, Busy, Todo, Written,
               PlanHeard, PlannedAction
<1> QED
  BY <1>1, <1>2, <1>3, <1>4, <1>5, <1>6, <1>7, <1>8, <1>9, <1>10, <1>11, <1>12, <1>13, <1>14
     DEF Next, BeginApply, BeginDestroy, Announcing

\* Every variable keeps its type: JobTypes and the others are stronger than
\* what a run checks.
THEOREM ReportTypes == Spec => []TypeOK
<1>1. Types => TypeOK
  <2> SUFFICES ASSUME Types PROVE TypeOK
    OBVIOUS
  <2>1. job.run \in 0..(MaxApplies + MaxDestroys)
    BY ReportAssumption DEF Types, JobTypes, Jobs
  <2>2. \A a \in Resources : todo[a] \in Seq({"create", "delete"})
    <3>1. Owes \subseteq Seq({"create", "delete"})
      <4> DEFINE A == {"create", "delete"}
      <4>1. << >> \in Seq(A) /\ <<"create">> \in Seq(A) /\ <<"delete">> \in Seq(A)
            /\ <<"delete", "create">> \in Seq(A)
        OBVIOUS
      <4> QED
        BY <4>1 DEF Owes
    <3> QED
      BY <3>1 DEF Types, WorkTypes
  <2>3. \A i \in DOMAIN streams : streams[i].rc \in {Torn, None, 0, 1}
    <3>1. \A i \in DOMAIN streams : streams[i] \in Stream
      BY DEF Types, StreamTypes
    <3> QED
      BY <3>1 DEF Stream
  <2> QED
    BY <2>1, <2>2, <2>3 DEF TypeOK, Types, JobTypes, Jobs, Phases, EstateTypes, WorkTypes, Todo
<1> QED
  BY <1>1, InitTypes, TypesStep, PTL DEF Spec

-----------------------------------------------------------------------------
(* Complete means done                                                     *)

Goal == IF job.kind = "apply" THEN "live" ELSE "gone"

\* What the invocation terraform is in, or the last one, is about: the whole
\* estate, or what is removed in an operation of its own.
Aimed == IF AllRun THEN Resources ELSE AlbFirst

\* What a resource will be once terraform has done what it still owes it.
Will(a) == IF todo[a] = << >> THEN estate[a]
           ELSE IF todo[a] = <<"delete">> THEN "gone" ELSE "live"

\* A resource whose hook failed is owed nothing more.
ErrorsAreFinal ==
  job.phase = "working" => \A a \in DOMAIN Written.resources :
    Written.resources[a].status = "errored" => a \in Resources \ Todo
\* While nothing failed, what terraform owes leads where the job is going.
Aims == /\ Busy => Erred \/ \A a \in Aimed : Will(a) = Goal
        /\ job.phase \in {"ready", "planning"} /\ streams # << >> => ~Erred
SummaryIsLast == job.phase = "working" /\ Summed /\ ~Erred => Todo = {}
\* Between two invocations, and after the last, a job is where it was going.
Arrives ==
  ~Busy /\ streams # << >> /\ (job.phase = "ready" \/ streams[Len(streams)].rc = 0)
    => \A a \in Aimed : estate[a] = Goal

Course == ErrorsAreFinal /\ Aims /\ SummaryIsLast /\ Arrives

LEMMA AimedResources == Aimed \in SUBSET Resources
BY ReportAssumption DEF Aimed

LEMMA HookVerdicts ==
  ASSUME Types, ErrorsAreFinal, job.phase = "working", NEW a \in Todo,
         NEW type \in {"apply_start", "apply_complete", "apply_errored"}, Hooked(type, a)
  PROVE  /\ Erred => Erred'
         /\ type = "apply_errored" => Erred'
         /\ \A b \in DOMAIN Written'.resources :
              Written'.resources[b].status = "errored"
                => b \in Resources /\ (b \notin Todo \/ (b = a /\ type = "apply_errored"))
         /\ Summed' = Summed
<1>1. PICK op \in Ops :
        /\ OpBecomes(op)
        /\ op.planned = Written.planned /\ op.terminal = Written.terminal
        /\ HookLeaves(Written.resources, type, a, Head(todo[a]), op.resources)
  BY DEF Hooked
<1> DEFINE rs == Written.resources
<1>2. /\ DOMAIN op.resources = DOMAIN rs \cup {a}
      /\ \A b \in DOMAIN rs \ {a} : op.resources[b] = rs[b]
      /\ op.resources[a].status = Verdict(type, StatusOf(rs, a))
  BY <1>1 DEF HookLeaves
<1>3. Written' = op
  BY <1>1 DEF OpBecomes
<1>4. a \in Resources /\ \A b \in DOMAIN rs : rs[b].status = "errored" => b \in Resources \ Todo
  BY DEF ErrorsAreFinal, Todo
<1>5. StatusOf(rs, a) # "errored"
  BY <1>4 DEF StatusOf
<1>6. op.resources[a].status = "errored" <=> type = "apply_errored"
  BY <1>2, <1>5 DEF Verdict
<1>7. Erred <=> \E b \in DOMAIN rs : rs[b].status = "errored"
  BY DEF Erred
<1>8. Erred' <=> \E b \in DOMAIN op.resources : op.resources[b].status = "errored"
  BY <1>3 DEF Erred
<1>9. Summed' = Summed
  BY <1>1, <1>3 DEF Summed
<1>10. ASSUME NEW b \in DOMAIN op.resources, op.resources[b].status = "errored"
       PROVE  b \in Resources /\ (b \notin Todo \/ (b = a /\ type = "apply_errored"))
  <2>1. CASE b = a
    BY <1>4, <1>6, <1>10, <2>1
  <2>2. CASE b # a
    <3>1. b \in DOMAIN rs /\ rs[b].status = "errored"
      BY <1>2, <1>10, <2>2
    <3> QED
      BY <1>4, <3>1
  <2> QED
    BY <2>1, <2>2
<1>11. Erred => Erred'
  <2> SUFFICES ASSUME NEW b \in DOMAIN rs, rs[b].status = "errored" PROVE Erred'
    BY <1>7
  <2>1. b # a
    BY <1>4
  <2> QED
    BY <1>2, <1>8, <2>1
<1>12. type = "apply_errored" => Erred'
  BY <1>2, <1>6, <1>8
<1> QED
  BY <1>3, <1>9, <1>10, <1>11, <1>12

LEMMA InitCourse == Init => Course
BY DEF Init, Course, ErrorsAreFinal, Aims, SummaryIsLast, Arrives, Busy

\* Where an invocation begins: nothing was read, and what it owes each resource
\* it is about leads to the goal.
LEMMA OpenCourse ==
  ASSUME Types, Invoke
  PROVE  Course'
<1>1. PICK work \in [Resources -> Owes] :
        /\ Open(work) /\ job.phase = "ready" /\ job.kind \in {"apply", "destroy"}
        /\ \/ job.kind = "apply" /\ work = [a \in Resources |-> Owed(a)]
           \/ /\ job.kind = "destroy" /\ AlbFirst # {} /\ streams = << >>
              /\ work = [a \in Resources |-> IF a \in AlbFirst \cap Live THEN <<"delete">> ELSE << >>]
           \/ job.kind = "destroy" /\ work = [a \in Resources |-> IF a \in Live THEN <<"delete">> ELSE << >>]
  BY OwedWork DEF Invoke, InvokeApply, InvokeRollback, InvokeDestroyAlb, InvokeDestroy
<1>2. /\ Len(streams') = Len(streams) + 1 /\ streams' # << >>
      /\ Written' = Unread /\ todo' = work
      /\ job'.phase = "planning" /\ job'.kind = job.kind /\ estate' = estate
  BY <1>1, OpenTypes DEF Open
<1>3. ~Erred'
  BY <1>2 DEF Erred, Unread
<1>4. ASSUME NEW a \in Aimed' PROVE Will(a)' = Goal'
  <2> a \in Resources
    BY ReportAssumption DEF Aimed
  <2>1. estate[a] \in {"live", "gone"}
    BY DEF Types, EstateTypes
  <2>2. CASE job.kind = "apply"
    <3>1. work[a] = Owed(a)
      BY <1>1, <2>2
    <3>2. Goal' = "live"
      BY <1>2, <2>2 DEF Goal
    <3>3. /\ <<"create">> # << >> /\ <<"create">> # <<"delete">>
          /\ <<"delete", "create">> # << >> /\ <<"delete", "create">> # <<"delete">>
      OBVIOUS
    <3>4. todo'[a] = Owed(a) /\ estate'[a] = estate[a]
      BY <1>2, <3>1
    <3>5. Owed(a) # << >> => Owed(a) # <<"delete">>
      BY <3>3 DEF Owed
    <3>6. Owed(a) = << >> => estate[a] = "live"
      BY <2>1, <3>3 DEF Owed
    <3> QED
      BY <2>1, <3>2, <3>4, <3>5, <3>6, Zenon DEF Will
  <2>3. CASE job.kind = "destroy"
    <3>1. work[a] = IF a \in Live THEN <<"delete">> ELSE << >>
      <4>1. CASE work = [b \in Resources |-> IF b \in Live THEN <<"delete">> ELSE << >>]
        BY <4>1
      <4>2. CASE /\ AlbFirst # {} /\ streams = << >>
                 /\ work = [b \in Resources |-> IF b \in AlbFirst \cap Live THEN <<"delete">> ELSE << >>]
        <5>1. ~AllRun'
          BY <1>2, <2>3, <4>2 DEF AllRun
        <5>2. a \in AlbFirst
          BY <5>1 DEF Aimed
        <5> QED
          BY <4>2, <5>2
      <4> QED
        BY <1>1, <2>3, <4>1, <4>2
    <3> QED
      BY <1>2, <2>1, <2>3, <3>1 DEF Will, Goal, Live
  <2> QED
    BY <1>1, <2>2, <2>3
<1> QED
  BY <1>2, <1>3, <1>4 DEF Course, ErrorsAreFinal, Aims, SummaryIsLast, Arrives, Busy

\* A step inside terraform's work that fails nothing keeps the aim.
LEMMA WorkCourse ==
  ASSUME Types, Course, job.phase = "working", UNCHANGED job, Len(streams') = Len(streams),
         Erred => Erred',
         \A b \in DOMAIN Written'.resources :
           Written'.resources[b].status = "errored" => b \in Resources \ Todo',
         Summed' /\ ~Erred' => Todo' = {},
         Erred' \/ \A b \in Resources : Will(b)' = Will(b)
  PROVE  Course'
<1>1. Aimed' = Aimed /\ Goal' = Goal
  BY DEF Aimed, AllRun, Goal
<1>2. \A a \in Aimed : a \in Resources
  BY AimedResources
<1> QED
  BY <1>1, <1>2 DEF Course, ErrorsAreFinal, Aims, SummaryIsLast, Arrives, Busy

LEMMA FinishKeepsAim ==
  ASSUME Types, NEW a \in Todo, FinishHook(a)
  PROVE  /\ \A b \in Resources : Will(b)' = Will(b)
         /\ Todo' \subseteq Todo
<1>1. a \in Resources /\ todo \in [Resources -> Owes] /\ estate \in [Resources -> {"live", "gone"}]
  BY DEF Types, WorkTypes, EstateTypes, Todo
<1>2. todo' = [todo EXCEPT ![a] = Tail(@)]
  BY DEF FinishHook
<1>3. \A b \in Resources \ {a} : todo'[b] = todo[b] /\ estate'[b] = estate[b]
  BY <1>1, <1>2 DEF FinishHook, Effect, Comes, Goes
<1>4. todo'[a] = Tail(todo[a])
  BY <1>1, <1>2
<1>5. estate'[a] = IF Head(todo[a]) = "create" THEN "live" ELSE "gone"
  BY <1>1 DEF FinishHook, Effect, Comes, Goes, Takes
<1>6. Will(a)' = Will(a)
  <2>1. todo[a] \in {<<"create">>, <<"delete">>, <<"delete", "create">>}
    BY <1>1 DEF Todo, Owes
  <2>2. CASE todo[a] = <<"create">>
    <3>1. Tail(<<"create">>) = << >> /\ Head(<<"create">>) = "create"
          /\ <<"create">> # << >> /\ <<"create">> # <<"delete">>
      OBVIOUS
    <3>2. todo'[a] = << >> /\ estate'[a] = "live"
      BY <1>4, <1>5, <2>2, <3>1
    <3> QED
      BY <2>2, <3>1, <3>2, Zenon DEF Will
  <2>3. CASE todo[a] = <<"delete">>
    <3>1. Tail(<<"delete">>) = << >> /\ Head(<<"delete">>) = "delete" /\ <<"delete">> # << >>
      OBVIOUS
    <3>2. todo'[a] = << >> /\ estate'[a] = "gone"
      BY <1>4, <1>5, <2>3, <3>1
    <3> QED
      BY <2>3, <3>1, <3>2, Zenon DEF Will
  <2>4. CASE todo[a] = <<"delete", "create">>
    <3>1. /\ Tail(<<"delete", "create">>) = <<"create">>
          /\ <<"create">> # << >> /\ <<"create">> # <<"delete">>
          /\ <<"delete", "create">> # << >> /\ <<"delete", "create">> # <<"delete">>
      OBVIOUS
    <3>2. todo'[a] = <<"create">>
      BY <1>4, <2>4, <3>1
    <3> QED
      BY <2>4, <3>1, <3>2, Zenon DEF Will
  <2> QED
    BY <2>1, <2>2, <2>3, <2>4
<1>7. \A b \in Resources : Will(b)' = Will(b)
  <2> TAKE b \in Resources
  <2> QED
    BY <1>3, <1>6, Zenon DEF Will
<1>8. Todo' \subseteq Todo
  BY <1>3 DEF Todo
<1> QED
  BY <1>7, <1>8

LEMMA CourseStep ==
  ASSUME Types, Course, [Next]_vars
  PROVE  Course'
<1> DEFINE After == job'.phase \notin {"ready", "planning", "working"}
<1>0. ASSUME After, job'.kind = job.kind, estate' = estate, Len(streams') = Len(streams),
             streams' # << >> /\ streams'[Len(streams')].rc = 0
               => \A a \in Aimed : estate[a] = Goal
      PROVE  Course'
  <2>1. Aimed' = Aimed /\ Goal' = Goal
    BY <1>0 DEF Aimed, AllRun, Goal
  <2> QED
    BY <1>0, <2>1 DEF Course, ErrorsAreFinal, Aims, SummaryIsLast, Arrives, Busy
<1>1. ASSUME NEW kind, Begin(kind) PROVE Course'
  <2>1. job'.phase = "ready" /\ streams' = << >>
    BY <1>1 DEF Begin
  <2> QED
    BY <2>1 DEF Course, ErrorsAreFinal, Aims, SummaryIsLast, Arrives, Busy
<1>2. CASE Invoke
  BY <1>2, OpenCourse
<1>3. CASE Announcing
  <2>1. PICK op \in Ops : /\ OpBecomes(op) /\ ~op.terminal
                          /\ \A d \in DOMAIN op.resources : op.resources[d].status = "complete"
    BY <1>3, AnnounceReads
  <2>2. Written' = op /\ Len(streams') = Len(streams)
    BY <2>1 DEF OpBecomes
  <2>3. ~Erred' /\ ~Summed'
    BY <2>1, <2>2 DEF Erred, Summed
  <2>4. \A a \in DOMAIN Written'.resources : Written'.resources[a].status # "errored"
    BY <2>1, <2>2
  <2>5. job.phase = "planning" /\ job'.phase \in {"planning", "working"} /\ job'.kind = job.kind
        /\ UNCHANGED <<estate, todo>>
    BY <1>3, AnnounceReads
  <2>6. Goal' = Goal /\ Aimed' = Aimed /\ \A a \in Resources : Will(a)' = Will(a)
    BY <2>2, <2>5 DEF Goal, Aimed, AllRun, Will
  <2>7. \A a \in Aimed : Will(a) = Goal /\ a \in Resources
    BY <1>3, <2>5, AimedResources DEF Course, Aims, Busy, Types, StreamTypes
  <2> QED
    BY <2>3, <2>4, <2>5, <2>6, <2>7 DEF Course, ErrorsAreFinal, Aims, SummaryIsLast, Arrives, Busy
<1>4. CASE Summarise
  <2>1. PICK op \in Ops : OpBecomes(op) /\ op.terminal /\ op.resources = Written.resources
    BY <1>4, SummariseReads
  <2>2. Written'.resources = Written.resources /\ Len(streams') = Len(streams)
    BY <2>1 DEF OpBecomes
  <2>3. Erred' = Erred
    BY <2>2 DEF Erred
  <2>4. Todo' = Todo /\ Todo = {} /\ \A b \in Resources : Will(b)' = Will(b)
    BY <1>4 DEF Summarise, Todo, Will
  <2>5. \A b \in DOMAIN Written'.resources :
          Written'.resources[b].status = "errored" => b \in Resources \ Todo'
    BY <1>4, <2>2, <2>4 DEF Summarise, Course, ErrorsAreFinal
  <2> QED
    BY <1>4, <2>2, <2>3, <2>4, <2>5, WorkCourse DEF Summarise
<1>5. CASE Return
  <2>1. OpClosed(IF Erred THEN 1 ELSE 0)
    BY <1>5, ReturnCloses
  <2>2. Len(streams') = Len(streams) /\ streams'[Len(streams)].rc = IF Erred THEN 1 ELSE 0
    BY <2>1 DEF OpClosed
  <2>3. job.phase = "working" /\ job'.phase = (IF Erred THEN "report" ELSE "ready")
        /\ job'.kind = job.kind /\ estate' = estate
    BY <1>5 DEF Return, Types, JobTypes, Jobs
  <2>4. CASE Erred
    BY <1>0, <2>2, <2>3, <2>4
  <2>5. CASE ~Erred
    <3>1. Todo = {}
      BY <1>5, <2>3, <2>5 DEF Return, Course, SummaryIsLast
    <3>2. \A a \in Aimed : estate[a] = Goal
      BY <2>3, <2>5, <3>1, AimedResources DEF Course, Aims, Busy, Will, Todo
    <3>3. Aimed' = Aimed /\ Goal' = Goal
      BY <2>2, <2>3 DEF Aimed, AllRun, Goal
    <3>4. ~Erred'
      BY <2>1, <2>5 DEF OpClosed, Erred
    <3> QED
      BY <2>3, <2>5, <3>2, <3>3, <3>4 DEF Course, ErrorsAreFinal, Aims, SummaryIsLast, Arrives, Busy
  <2> QED
    BY <2>4, <2>5
<1>6. CASE Finish
  <2>1. \A a \in Aimed : estate[a] = Goal
    BY <1>6 DEF Finish, Course, Arrives, Busy
  <2> QED
    BY <1>0, <1>6, <2>1 DEF Finish, Types, JobTypes, Jobs
<1>7. CASE Cancel
  <2>1. job'.phase = "report" /\ job'.kind = job.kind /\ estate' = estate
    BY <1>7 DEF Cancel, Types, JobTypes, Jobs
  <2>2. CASE job.phase = "ready"
    <3>1. streams' = streams
      BY <1>7, <2>2 DEF Cancel
    <3>2. streams # << >> => \A a \in Aimed : estate[a] = Goal
      BY <2>2, <3>1 DEF Course, Arrives, Busy
    <3> QED
      BY <1>0, <2>1, <3>1, <3>2
  <2>3. CASE job.phase # "ready"
    <3>1. PICK rc \in {None, Torn} : OpClosed(rc)
      BY <1>7, <2>3, CancelCloses
    <3>2. streams'[Len(streams')].rc # 0 /\ Len(streams') = Len(streams)
      BY <3>1 DEF OpClosed, None, Torn
    <3> QED
      BY <1>0, <2>1, <3>2
  <2> QED
    BY <2>2, <2>3
<1>8. CASE Watch
  BY <1>8 DEF Watch, Course, ErrorsAreFinal, Aims, SummaryIsLast, Arrives, Busy, Aimed, AllRun, Goal, Will,
              Erred, Summed, Written, Todo
<1>9. ASSUME NEW a \in Resources, StartHook(a) PROVE Course'
  <2>1. Hooked("apply_start", a) /\ a \in Todo /\ job.phase = "working"
    BY <1>9, HookEmitted DEF StartHook, Busy, Todo
  <2>2. Todo' = Todo /\ \A b \in Resources : Will(b)' = Will(b)
    BY <1>9 DEF StartHook, Todo, Will
  <2>3. Len(streams') = Len(streams)
    BY <2>1 DEF Hooked, OpBecomes
  <2>4. /\ Erred => Erred'
        /\ \A b \in DOMAIN Written'.resources :
             Written'.resources[b].status = "errored" => b \in Resources \ Todo'
        /\ Summed' = Summed
    BY <2>1, <2>2, HookVerdicts DEF Course
  <2>5. ~(Summed' /\ ~Erred')
    BY <2>1, <2>4 DEF Course, SummaryIsLast
  <2> QED
    BY <1>9, <2>1, <2>2, <2>3, <2>4, <2>5, WorkCourse DEF StartHook
<1>10. ASSUME NEW a \in Resources, Charge(a) PROVE Course'
  <2>1. a \in Todo /\ UNCHANGED <<job, todo, streams>> /\ job.phase = "working"
    BY <1>10 DEF Charge, Types, WorkTypes
  <2>2. \A b \in Resources : Will(b)' = Will(b)
    BY <1>10, <2>1 DEF Charge, Effect, Comes, Goes, Will, Todo, Types, EstateTypes
  <2>3. Erred' = Erred /\ Summed' = Summed /\ Todo' = Todo /\ Written' = Written
    BY <2>1 DEF Erred, Summed, Written, Todo
  <2>4. /\ \A b \in DOMAIN Written'.resources :
             Written'.resources[b].status = "errored" => b \in Resources \ Todo'
        /\ Summed' /\ ~Erred' => Todo' = {}
    BY <2>1, <2>3 DEF Course, ErrorsAreFinal, SummaryIsLast
  <2> QED
    BY <2>1, <2>2, <2>3, <2>4, WorkCourse
<1>11. ASSUME NEW a \in Resources, FinishHook(a) PROVE Course'
  <2>1. a \in Todo /\ job.phase = "working" /\ UNCHANGED job
    BY <1>11 DEF FinishHook, Types, WorkTypes
  <2>2. Hooked("apply_complete", a)
    BY <1>11, <2>1, HookEmitted DEF FinishHook, Busy
  <2>3. Todo' \subseteq Todo /\ \A b \in Resources : Will(b)' = Will(b)
    BY <1>11, <2>1, FinishKeepsAim
  <2>4. Len(streams') = Len(streams)
    BY <2>2 DEF Hooked, OpBecomes
  <2>5. /\ Erred => Erred'
        /\ \A b \in DOMAIN Written'.resources :
             Written'.resources[b].status = "errored" => b \in Resources \ Todo'
        /\ Summed' = Summed
    BY <2>1, <2>2, <2>3, HookVerdicts DEF Course
  <2>6. ~(Summed' /\ ~Erred')
    BY <2>1, <2>5 DEF Course, SummaryIsLast
  <2> QED
    BY <2>1, <2>3, <2>4, <2>5, <2>6, WorkCourse
<1>12. ASSUME NEW a \in Resources, FailHook(a) PROVE Course'
  <2>1. a \in Todo /\ job.phase = "working" /\ UNCHANGED job
    BY <1>12 DEF FailHook, Types, WorkTypes
  <2>2. Hooked("apply_errored", a)
    BY <1>12, <2>1, HookEmitted DEF FailHook, Busy
  <2>3. Todo' = Todo \ {a}
    BY <1>12 DEF FailHook, Todo, Types, WorkTypes
  <2>4. Len(streams') = Len(streams)
    BY <2>2 DEF Hooked, OpBecomes
  <2>5. /\ Erred'
        /\ \A b \in DOMAIN Written'.resources :
             Written'.resources[b].status = "errored" => b \in Resources \ Todo'
    BY <2>1, <2>2, <2>3, HookVerdicts DEF Course
  <2> QED
    BY <2>1, <2>3, <2>4, <2>5, WorkCourse
<1>13. CASE PublishTimeline \/ PublishNodes \/ PublishAnchor \/ PublishCost \/ LoseRunner
  <2>1. job.phase \in {"report", "nodes", "anchor", "cost"}
    BY <1>13 DEF PublishTimeline, PublishNodes, PublishAnchor, PublishCost, LoseRunner
  <2>2. \E next \in {"idle", "nodes", "anchor", "cost"} : Skip(next) \/ \E field, doc : Put(field, doc, next)
    BY <1>13 DEF PublishTimeline, PublishNodes, PublishAnchor, PublishCost, LoseRunner
  <2>3. /\ job'.phase \in {"idle", "nodes", "anchor", "cost"} /\ job'.kind = job.kind
        /\ UNCHANGED <<estate, streams>>
    BY <2>2 DEF Skip, Put, Types, JobTypes, Jobs
  <2>4. streams # << >> /\ streams[Len(streams)].rc = 0 => \A a \in Aimed : estate[a] = Goal
    BY <2>1 DEF Course, Arrives, Busy
  <2> QED
    BY <1>0, <2>3, <2>4
<1>14. CASE UNCHANGED vars
  BY <1>14 DEF vars, Course, ErrorsAreFinal, Aims, SummaryIsLast, Arrives, Busy, Aimed, AllRun, Goal, Will,
               Erred, Summed, Written, Todo
<1> QED
  BY <1>1, <1>2, <1>3, <1>4, <1>5, <1>6, <1>7, <1>8, <1>9, <1>10, <1>11, <1>12, <1>13, <1>14
     DEF Next, BeginApply, BeginDestroy, Announcing

\* What is published as the latest timeline, once it is of the job that runs,
\* is what the fold makes of the streams it left.
LatestIsRead ==
  site.latest = NoDoc
  \/ /\ site.latest.run \in 1..job.run
     /\ site.latest.run = job.run =>
          job.phase \in {"nodes", "anchor", "cost", "idle"} /\ site.latest = TimelineNow

LEMMA ReadingFields ==
  /\ TimelineNow.run = job.run /\ TimelineNow.environment = Environment
  /\ TimelineNow.ops = [i \in DOMAIN streams |-> ReadOp(streams[i])]
  /\ TimelineNow.status = TimelineStatus([i \in DOMAIN streams |-> ReadOp(streams[i])])
BY DEF TimelineNow, Build

LEMMA LatestStep ==
  ASSUME Types, LatestIsRead, [Next]_vars
  PROVE  LatestIsRead'
<1>1. ASSUME NEW kind, Begin(kind) PROVE LatestIsRead'
  <2>1. job.run \in Nat /\ job'.run = job.run + 1 /\ site' = site
    BY <1>1 DEF Begin, Types, JobTypes, Jobs
  <2> QED
    BY <2>1 DEF LatestIsRead, NoDoc
<1>2. CASE UNCHANGED <<job, streams, site>>
  BY <1>2 DEF LatestIsRead, TimelineNow
<1>3. CASE /\ job.phase \in {"ready", "planning", "working"} /\ job'.run = job.run
           /\ site'.latest = site.latest
  BY <1>3 DEF LatestIsRead, NoDoc
<1>4. CASE PublishTimeline
  <2>1. CASE streams = << >>
    BY <1>4, <2>1 DEF PublishTimeline, Skip, LatestIsRead, NoDoc, Types, JobTypes, Jobs
  <2>2. CASE streams # << >>
    <3>1. /\ site'.latest = TimelineNow /\ job'.phase = "nodes" /\ job'.run = job.run
          /\ streams' = streams
      BY <1>4, <2>2 DEF PublishTimeline, Put, Types, JobTypes, Jobs, Fields
    <3>2. TimelineNow' = TimelineNow
      BY <3>1 DEF TimelineNow
    <3>3. job.run \in 1..job.run
      BY <1>4 DEF PublishTimeline, Types, JobTypes, Jobs
    <3> QED
      BY <3>1, <3>2, <3>3, ReadingFields DEF LatestIsRead
  <2> QED
    BY <2>1, <2>2
<1>5. ASSUME NEW next \in {"idle", "nodes", "anchor", "cost"},
             job.phase \in {"nodes", "anchor", "cost"} \/ (job.phase = "report" /\ next = "idle"),
             Skip(next) \/ \E field \in Fields \ {"latest"} : \E doc : Put(field, doc, next)
      PROVE  LatestIsRead'
  <2>1. /\ job'.phase \in {"idle", "nodes", "anchor", "cost"} /\ job'.run = job.run
        /\ streams' = streams /\ site'.latest = site.latest
    BY <1>5 DEF Skip, Put, Types, JobTypes, Jobs, Fields
  <2>2. TimelineNow' = TimelineNow
    BY <2>1 DEF TimelineNow
  <2> QED
    BY <1>5, <2>1, <2>2 DEF LatestIsRead, NoDoc
<1>6. CASE PublishNodes \/ PublishAnchor \/ PublishCost \/ LoseRunner
  <2>1. CASE PublishNodes
    <3>1. \/ Skip("cost")
          \/ \E doc : Put("nodesApply", doc, "anchor") \/ Put("nodesDestroy", doc, "cost")
      BY <2>1 DEF PublishNodes
    <3> QED
      BY <1>5, <2>1, <3>1 DEF PublishNodes, Fields
  <2>2. CASE PublishAnchor
    BY <1>5, <2>2 DEF PublishAnchor, Fields
  <2>3. CASE PublishCost
    <3>1. Skip("idle") \/ \E doc : Put("cost", doc, "idle")
      BY <2>3 DEF PublishCost
    <3> QED
      BY <1>5, <2>3, <3>1 DEF PublishCost, Fields
  <2>4. CASE LoseRunner
    BY <1>5, <2>4 DEF LoseRunner
  <2> QED
    BY <1>6, <2>1, <2>2, <2>3, <2>4
<1>7. CASE Invoke
  <2>1. PICK work : Open(work) /\ job.phase = "ready"
    BY <1>7 DEF Invoke, InvokeApply, InvokeRollback, InvokeDestroyAlb, InvokeDestroy
  <2>2. job'.run = job.run /\ site' = site
    BY <2>1 DEF Open, Types, JobTypes, Jobs
  <2> QED
    BY <1>3, <2>1, <2>2
<1>8. CASE Announcing \/ Summarise \/ Return \/ Finish \/ Cancel
  <2>1. Announcing => job.phase = "planning" /\ job'.run = job.run /\ site' = site
    BY AnnounceReads
  <2> QED
    BY <1>3, <1>8, <2>1 DEF Summarise, Return, Finish, Cancel, Types, JobTypes, Jobs
<1>9. CASE Watch
  BY <1>3, <1>9 DEF Watch, Types, Fields
<1>10. ASSUME NEW a \in Resources, StartHook(a) \/ Charge(a) \/ FinishHook(a) \/ FailHook(a)
       PROVE  LatestIsRead'
  BY <1>3, <1>10 DEF StartHook, Charge, FinishHook, FailHook
<1>11. CASE UNCHANGED vars
  BY <1>2, <1>11 DEF vars
<1> QED
  BY <1>1, <1>4, <1>6, <1>7, <1>8, <1>9, <1>10, <1>11 DEF Next, BeginApply, BeginDestroy, Announcing

\* A fold calls a run complete only when its last operation returned zero.
LEMMA CompleteReturned ==
  ASSUME Types, TimelineNow.status = "complete"
  PROVE  streams # << >> /\ streams[Len(streams)].rc = 0
<1> DEFINE ops == [i \in DOMAIN streams |-> ReadOp(streams[i])]
           statuses == {op.status : op \in Range(ops)}
<1>1. statuses # {} /\ "incomplete" \notin statuses /\ "errored" \notin statuses
  <2>1. TimelineStatus(ops) = "complete"
    BY ReadingFields
  <2> QED
    BY <2>1 DEF TimelineStatus
<1>2. streams \in Seq(Stream)
  BY DEF Types, StreamTypes
<1>3. streams # << >>
  BY <1>1, <1>2 DEF Range
<1>4. Len(streams) \in DOMAIN streams /\ streams[Len(streams)] \in Stream
  BY <1>2, <1>3
<1> DEFINE last == streams[Len(streams)]
<1>5. ReadOp(last).status \in statuses
  <2>1. Len(streams) \in DOMAIN ops /\ ops[Len(streams)] = ReadOp(last)
    BY <1>4
  <2> HIDE DEF ops
  <2> QED
    BY <2>1 DEF Range
<1>6. ReadOp(last).status = OpStatus(last.op, IF last.rc \in Nat THEN last.rc ELSE None)
  BY DEF ReadOp
<1>7. CASE last.rc \notin Nat
  <2>1. OpStatus(last.op, None) = "incomplete"
    BY DEF OpStatus
  <2> QED
    BY <1>1, <1>5, <1>6, <1>7, <2>1
<1>8. CASE last.rc \in Nat /\ last.rc # 0
  <2>1. OpStatus(last.op, last.rc) = "errored"
    BY <1>8 DEF OpStatus, None
  <2> QED
    BY <1>1, <1>5, <1>6, <1>8, <2>1
<1> QED
  BY <1>3, <1>7, <1>8

\* A timeline published as complete tells of a job that did all of what its
\* operations do, whatever failed, was cancelled or was lost before: an apply
\* has made everything, a teardown left nothing, and one cancelled between its
\* two operations left nothing of the first.
THEOREM PublishedIsDone == Spec => []CompleteMeansDone
<1>1. Init => LatestIsRead
  BY DEF Init, LatestIsRead, Fields
<1>2. Types /\ Course /\ LatestIsRead => CompleteMeansDone
  <2> SUFFICES ASSUME Types, Course, LatestIsRead, OfThisJob(site.latest),
                      site.latest.status = "complete"
               PROVE  IF job.kind = "apply" THEN Live = Resources ELSE Live \cap Aimed = {}
    BY DEF CompleteMeansDone, Aimed
  <2>1. job.phase \in {"nodes", "anchor", "cost", "idle"} /\ site.latest = TimelineNow
    BY DEF OfThisJob, LatestIsRead
  <2>2. streams # << >> /\ streams[Len(streams)].rc = 0
    BY <2>1, CompleteReturned
  <2>3. \A a \in Aimed : estate[a] = Goal
    BY <2>1, <2>2 DEF Course, Arrives, Busy
  <2>4. job.kind = "apply" => Aimed = Resources
    BY DEF Aimed, AllRun
  <2> QED
    BY <2>3, <2>4 DEF Live, Goal
<1>3. Types /\ Course /\ [Next]_vars => Course'
  BY CourseStep
<1>4. Types /\ LatestIsRead /\ [Next]_vars => LatestIsRead'
  BY LatestStep
<1> QED
  BY <1>1, <1>2, <1>3, <1>4, InitTypes, TypesStep, InitCourse, PTL DEF Spec

-----------------------------------------------------------------------------
(* When AWS began and stopped to charge                                    *)

\* The action a job is about.
Verb == IF job.kind = "apply" THEN "create" ELSE "delete"

\* A resource whose charge is told apart is not replaced while it stands.
SteadyMeters == Metered \cap Replaceable = {}

\* The records of the i-th operation of this job.
Has(i, a) == a \in DOMAIN streams[i].op.resources
Rec(i, a) == streams[i].op.resources[a]

\* The instant at which the job's work on a resource took effect.
Turn(a) == IF job.kind = "apply" THEN born[a] ELSE died[a]

Lives == \A a \in Metered :
  /\ estate[a] = "live" => born[a] # None /\ died[a] = None
  /\ estate[a] = "gone" /\ born[a] # None => died[a] # None /\ born[a] <= died[a]
\* What terraform owes a resource, and has begun, is in the last operation.
MeterWork == \A a \in Metered \cap Todo :
  /\ todo[a] = <<Verb>>
  /\ a \notin flight => estate[a] # Goal
  /\ a \in flight => /\ Has(Len(streams), a)
                     /\ estate[a] = Goal => Rec(Len(streams), a).started <= Turn(a)
\* The effect of a hook that completed lies between its two events.
MeterRead == \A i \in 1..Len(streams), a \in Metered : Has(i, a) =>
  /\ Rec(i, a).action = Verb
  /\ Rec(i, a).started \in 0..clock
  /\ Rec(i, a).status = "complete" =>
       /\ a \notin Todo /\ estate[a] = Goal
       /\ Rec(i, a).started <= Turn(a) /\ Turn(a) <= Rec(i, a).finished
Meters == Lives /\ MeterWork /\ MeterRead

\* The steps that neither begin a job or an operation, nor run a hook.
SameRecords ==
  /\ Len(streams') = Len(streams)
  /\ \A i \in 1..Len(streams) : streams'[i].cmd = streams[i].cmd
  /\ \A i \in 1..Len(streams), a \in Resources :
       (Has(i, a)' <=> Has(i, a)) /\ (Has(i, a) => Rec(i, a)' = Rec(i, a))
SameJob == job'.kind = job.kind /\ job'.run = job.run /\ job'.applies = job.applies
           /\ job'.destroys = job.destroys
Quiet ==
  /\ SameRecords /\ SameJob /\ UNCHANGED <<estate, born, died>>
  /\ clock' \in Nat /\ clock <= clock'
  /\ UNCHANGED <<todo, flight>> \/ (Todo' = {} /\ flight' = {})

LEMMA StreamsCount == ASSUME Types PROVE Len(streams) \in Nat /\ (streams # << >> => Len(streams) \in 1..Len(streams))
BY DEF Types, StreamTypes

LEMMA BecomesRecords ==
  ASSUME Types, streams # << >>, NEW op, OpBecomes(op),
         \A a \in Resources : /\ a \in DOMAIN op.resources <=> a \in DOMAIN Written.resources
                              /\ a \in DOMAIN Written.resources => op.resources[a] = Written.resources[a]
  PROVE  SameRecords
<1>1. streams'[Len(streams)].op = op /\ streams[Len(streams)].op = Written /\ Len(streams') = Len(streams)
  BY DEF OpBecomes, Written
<1>2. \A i \in 1..Len(streams) : i # Len(streams) => streams'[i].op = streams[i].op
  BY DEF OpBecomes
<1>3. ASSUME NEW i \in 1..Len(streams), NEW a \in Resources
      PROVE  (Has(i, a)' <=> Has(i, a)) /\ (Has(i, a) => Rec(i, a)' = Rec(i, a))
  <2>1. CASE i = Len(streams)
    BY <1>1, <2>1 DEF Has, Rec
  <2>2. CASE i # Len(streams)
    BY <1>2, <2>2 DEF Has, Rec
  <2> QED
    BY <2>1, <2>2
<1> QED
  BY <1>1, <1>3 DEF SameRecords, OpBecomes

LEMMA UnchangedRecords == ASSUME streams' = streams PROVE SameRecords
BY DEF SameRecords, Has, Rec

LEMMA ClosedRecords == ASSUME NEW rc, OpClosed(rc) PROVE SameRecords
BY DEF OpClosed, SameRecords, Has, Rec

LEMMA QuietSteps ==
  ASSUME Types,
         \/ Announcing \/ Summarise \/ Return \/ Finish \/ Cancel \/ Watch \/ LoseRunner
         \/ PublishTimeline \/ PublishNodes \/ PublishAnchor \/ PublishCost \/ UNCHANGED vars
  PROVE  Quiet
<1>1. clock \in Nat /\ Tick \in Nat /\ clock <= Tick
  BY Ticks DEF Types, EstateTypes
<1>2. CASE Announcing
  <2>1. PICK op \in Ops : OpBecomes(op) /\ DOMAIN op.resources \subseteq DataSources
    BY <1>2, AnnounceReads
  <2>2. /\ job.phase = "planning" /\ SameJob /\ clock' = Tick
        /\ UNCHANGED <<estate, born, died, todo, flight>>
    BY <1>2, AnnounceReads DEF SameJob
  <2>3. DOMAIN Written.resources \subseteq DataSources /\ streams # << >>
    BY <2>2 DEF Types, StreamTypes, Busy, PlanHeard
  <2>4. \A a \in Resources : a \notin DOMAIN op.resources /\ a \notin DOMAIN Written.resources
    BY <2>1, <2>3, ReportAssumption
  <2>5. SameRecords
    BY <2>1, <2>3, <2>4, BecomesRecords
  <2> QED
    BY <1>1, <2>2, <2>5 DEF Quiet
<1>3. CASE Summarise
  <2>1. PICK op \in Ops : OpBecomes(op) /\ op.resources = Written.resources
    BY <1>3, SummariseReads
  <2>2. streams # << >>
    BY <1>3 DEF Summarise, Types, StreamTypes, Busy
  <2>3. SameRecords
    BY <2>1, <2>2, BecomesRecords
  <2> QED
    BY <1>1, <1>3, <2>3 DEF Quiet, SameJob, Summarise, Emit
<1>4. CASE Return
  <2>1. SameRecords
    BY <1>4, ReturnCloses, ClosedRecords
  <2>2. Todo' = {} /\ flight' = {}
    BY <1>4 DEF Return, Todo
  <2> QED
    BY <1>1, <1>4, <2>1, <2>2 DEF Quiet, SameJob, Return, Types, JobTypes, Jobs
<1>5. CASE Finish
  BY <1>1, <1>5, UnchangedRecords DEF Quiet, SameJob, Finish, Types, JobTypes, Jobs
<1>6. CASE Cancel
  <2>1. SameRecords
    BY <1>6, CancelCloses, ClosedRecords, UnchangedRecords DEF Cancel
  <2>2. Todo' = {} /\ flight' = {}
    BY <1>6 DEF Cancel, Todo
  <2> QED
    BY <1>1, <1>6, <2>1, <2>2 DEF Quiet, SameJob, Cancel, Types, JobTypes, Jobs
<1>7. CASE Watch
  BY <1>1, <1>7, UnchangedRecords DEF Quiet, SameJob, Watch
<1>8. CASE PublishTimeline \/ PublishNodes \/ PublishAnchor \/ PublishCost \/ LoseRunner
  <2>1. \E next : Skip(next) \/ \E field, doc : Put(field, doc, next)
    BY <1>8 DEF PublishTimeline, PublishNodes, PublishAnchor, PublishCost, LoseRunner
  <2> QED
    BY <1>1, <2>1, UnchangedRecords DEF Quiet, SameJob, Skip, Put, Types, JobTypes, Jobs
<1>9. CASE UNCHANGED vars
  BY <1>1, <1>9, UnchangedRecords DEF Quiet, SameJob, vars
<1> QED
  BY <1>2, <1>3, <1>4, <1>5, <1>6, <1>7, <1>8, <1>9

LEMMA QuietMeters ==
  ASSUME Types, Meters, Quiet
  PROVE  Meters'
<1>1. Len(streams) \in Nat /\ clock \in Nat /\ Metered \subseteq Resources
  BY StreamsCount, ReportAssumption DEF Types, EstateTypes
<1>2. Verb' = Verb /\ Goal' = Goal /\ \A a : Turn(a)' = Turn(a)
  BY DEF Verb, Goal, Turn, Quiet, SameJob
<1>3. Lives'
  BY DEF Quiet, Meters, Lives
<1>4. Todo' \subseteq Todo
  BY DEF Quiet, Todo
<1>5. \A i \in 1..Len(streams), a \in Metered :
        (Has(i, a)' <=> Has(i, a)) /\ (Has(i, a) => Rec(i, a)' = Rec(i, a))
  BY <1>1 DEF Quiet, SameRecords
<1>6. Len(streams') = Len(streams) /\ estate' = estate /\ clock' \in Nat /\ clock <= clock'
  BY DEF Quiet, SameRecords
<1>7. MeterRead'
  <2> SUFFICES ASSUME NEW i \in 1..Len(streams), NEW a \in Metered, Has(i, a)'
               PROVE  /\ Rec(i, a)'.action = Verb
                      /\ Rec(i, a)'.started \in 0..clock'
                      /\ Rec(i, a)'.status = "complete" =>
                           /\ a \notin Todo' /\ estate[a] = Goal
                           /\ Rec(i, a)'.started <= Turn(a) /\ Turn(a) <= Rec(i, a)'.finished
    BY <1>2, <1>6 DEF MeterRead
  <2>1. Has(i, a) /\ Rec(i, a)' = Rec(i, a)
    BY <1>5
  <2> QED
    BY <1>1, <1>4, <1>6, <2>1 DEF Meters, MeterRead
<1>8. MeterWork'
  <2> SUFFICES ASSUME NEW a \in Metered \cap Todo', UNCHANGED <<todo, flight>>
               PROVE  /\ todo[a] = <<Verb>>
                      /\ a \notin flight => estate[a] # Goal
                      /\ a \in flight => /\ Has(Len(streams), a)'
                                         /\ estate[a] = Goal => Rec(Len(streams), a)'.started <= Turn(a)
    BY <1>2, <1>6 DEF MeterWork, Quiet
  <2>1. a \in Todo /\ streams # << >>
    BY <1>4 DEF Types, WorkTypes, StreamTypes
  <2>2. Len(streams) \in 1..Len(streams)
    BY <2>1, StreamsCount
  <2>3. (Has(Len(streams), a)' <=> Has(Len(streams), a))
        /\ (Has(Len(streams), a) => Rec(Len(streams), a)' = Rec(Len(streams), a))
    BY <1>5, <1>6, <2>2 DEF Has, Rec
  <2> QED
    BY <2>1, <2>3 DEF Meters, MeterWork
<1> QED
  BY <1>3, <1>7, <1>8 DEF Meters

LEMMA BeginMeters ==
  ASSUME Types, Meters, NEW kind, Begin(kind)
  PROVE  Meters'
<1>1. streams' = << >> /\ UNCHANGED <<estate, born, died, todo>> /\ Todo = {}
  BY DEF Begin, Types, WorkTypes, Busy
<1>2. Todo' = {} /\ Len(streams') = 0
  BY <1>1 DEF Todo
<1>3. 1..Len(streams') = {}
  BY <1>2
<1> QED
  BY <1>1, <1>2, <1>3 DEF Meters, Lives, MeterWork, MeterRead

\* Every step that invokes terraform, with what it then owes.
LEMMA Opens ==
  ASSUME Types, Invoke
  PROVE  \E work \in [Resources -> Owes] :
           /\ Open(work) /\ job.phase = "ready" /\ job.kind \in {"apply", "destroy"}
           /\ \A a \in Resources :
                IF job.kind = "apply" THEN work[a] = Owed(a)
                ELSE work[a] = << >> \/ (a \in Live /\ work[a] = <<"delete">>)
<1>1. CASE InvokeApply \/ InvokeRollback
  BY <1>1, OwedWork DEF InvokeApply, InvokeRollback
<1>2. CASE InvokeDestroyAlb
  <2> DEFINE work == [a \in Resources |-> IF a \in AlbFirst \cap Live THEN <<"delete">> ELSE << >>]
  <2>1. work \in [Resources -> Owes]
    BY OwedWork
  <2> QED
    BY <1>2, <2>1 DEF InvokeDestroyAlb
<1>3. CASE InvokeDestroy
  <2> DEFINE work == [a \in Resources |-> IF a \in Live THEN <<"delete">> ELSE << >>]
  <2>1. work \in [Resources -> Owes]
    BY OwedWork
  <2> QED
    BY <1>3, <2>1 DEF InvokeDestroy
<1> QED
  BY <1>1, <1>2, <1>3 DEF Invoke

\* The operations that were there stay; the new one holds nothing yet.
LEMMA OpenedStreams ==
  ASSUME Types, NEW work, Open(work)
  PROVE  /\ Len(streams') = Len(streams) + 1
         /\ \A i \in 1..Len(streams) : streams'[i] = streams[i]
         /\ \A i \in {Len(streams) + 1} : \A a : ~Has(i, a)'
         /\ streams'[Len(streams) + 1].cmd = job.kind
<1> DEFINE new == [cmd |-> job.kind, rc |-> None, op |-> Unread]
<1>1. streams' = Append(streams, new) /\ streams \in Seq(Stream) /\ new.op = Unread /\ new.cmd = job.kind
  BY DEF Open, Types, StreamTypes
<1> HIDE DEF new
<1>2. Len(streams') = Len(streams) + 1 /\ streams'[Len(streams) + 1] = new
      /\ \A i \in 1..Len(streams) : streams'[i] = streams[i]
  BY <1>1
<1>3. DOMAIN new.op.resources = {}
  BY <1>1 DEF Unread
<1>4. \A i \in {Len(streams) + 1} : \A a : ~Has(i, a)'
  BY <1>2, <1>3 DEF Has
<1> QED
  BY <1>1, <1>2, <1>4

LEMMA OpenMeters ==
  ASSUME SteadyMeters, Types, Meters, Invoke
  PROVE  Meters'
<1>1. PICK work \in [Resources -> Owes] :
        /\ Open(work) /\ job.phase = "ready" /\ job.kind \in {"apply", "destroy"}
        /\ \A a \in Resources :
             IF job.kind = "apply" THEN work[a] = Owed(a)
             ELSE work[a] = << >> \/ (a \in Live /\ work[a] = <<"delete">>)
  BY Opens
<1>2. /\ UNCHANGED <<estate, born, died, clock, flight>> /\ todo' = work /\ flight = {}
      /\ job'.kind = job.kind
  BY <1>1 DEF Open, Types, WorkTypes, Busy, JobTypes, Jobs
<1>3. Verb' = Verb /\ Goal' = Goal /\ \A a : Turn(a)' = Turn(a)
  BY <1>2 DEF Verb, Goal, Turn
<1>4. /\ Len(streams') = Len(streams) + 1
      /\ \A i \in 1..Len(streams) : streams'[i] = streams[i]
      /\ \A i \in {Len(streams) + 1} : \A a : ~Has(i, a)'
  BY <1>1, OpenedStreams
<1>5. Len(streams) \in Nat /\ Metered \subseteq Resources
  BY StreamsCount, ReportAssumption
<1>6. \A a \in Metered : work[a] # << >> => work[a] = <<Verb>> /\ estate[a] # Goal
  <2> TAKE a \in Metered
  <2>1. a \in Resources /\ a \notin Replaceable
    BY <1>5 DEF SteadyMeters
  <2> QED
    BY <1>1, <2>1 DEF Owed, Verb, Goal, Live
<1>7. Lives'
  BY <1>2 DEF Meters, Lives
<1>8. MeterWork'
  BY <1>2, <1>3, <1>6 DEF MeterWork, Todo
<1>9. MeterRead'
  <2> SUFFICES ASSUME NEW i \in 1..(Len(streams) + 1), NEW a \in Metered, Has(i, a)'
               PROVE  /\ Rec(i, a)'.action = Verb
                      /\ Rec(i, a)'.started \in 0..clock
                      /\ Rec(i, a)'.status = "complete" =>
                           /\ a \notin Todo' /\ estate[a] = Goal
                           /\ Rec(i, a)'.started <= Turn(a) /\ Turn(a) <= Rec(i, a)'.finished
    BY <1>2, <1>3, <1>4 DEF MeterRead
  <2>1. i # Len(streams) + 1
    BY <1>4
  <2>2. i \in 1..Len(streams)
    BY <1>5, <2>1
  <2>3. Has(i, a) /\ Rec(i, a)' = Rec(i, a)
    BY <1>4, <2>2 DEF Has, Rec
  <2>4. estate[a] = Goal => a \notin Todo'
    BY <1>2, <1>6 DEF Todo
  <2> QED
    BY <2>2, <2>3, <2>4 DEF Meters, MeterRead
<1> QED
  BY <1>7, <1>8, <1>9 DEF Meters

\* What a hook event leaves of the records of this job.
LEMMA HookedRecords ==
  ASSUME Types, NEW a \in Todo, NEW type, Hooked(type, a)
  PROVE  LET n == Len(streams)
         IN  /\ Len(streams') = n /\ n \in 1..n /\ clock' = Tick
             /\ \A i \in 1..n : streams'[i].cmd = streams[i].cmd
             /\ \A i \in 1..n, b \in Resources : i # n \/ b # a =>
                  (Has(i, b)' <=> Has(i, b)) /\ (Has(i, b) => Rec(i, b)' = Rec(i, b))
             /\ \A i \in {n} : /\ Has(i, a)' /\ Rec(i, a)'.action = Head(todo[a])
                               /\ Has(i, a) => Rec(i, a)'.status = Verdict(type, Rec(i, a).status)
                               /\ ~Has(i, a) => Rec(i, a)'.status = Verdict(type, "incomplete")
                               /\ type = "apply_start" => Rec(i, a)'.started = Tick
                               /\ type # "apply_start" /\ Has(i, a) => Rec(i, a)'.started = Rec(i, a).started
                               /\ type # "apply_start" => Rec(i, a)'.finished = Tick
<1> DEFINE n == Len(streams)
<1>1. PICK op \in Ops : /\ OpBecomes(op) /\ clock' = Tick
                        /\ HookLeaves(Written.resources, type, a, Head(todo[a]), op.resources)
  BY DEF Hooked
<1>2. streams # << >> /\ n \in 1..n
  BY StreamsCount DEF Types, WorkTypes, StreamTypes
<1>3. /\ Len(streams') = n /\ streams'[n].op = op /\ streams[n].op = Written
      /\ \A i \in 1..n : streams'[i].cmd = streams[i].cmd
      /\ \A i \in 1..n : i # n => streams'[i].op = streams[i].op
  BY <1>1 DEF OpBecomes, Written
<1>4. ASSUME NEW i \in 1..n, NEW b \in Resources, i # n \/ b # a
      PROVE  (Has(i, b)' <=> Has(i, b)) /\ (Has(i, b) => Rec(i, b)' = Rec(i, b))
  <2>1. CASE i # n
    BY <1>3, <2>1 DEF Has, Rec
  <2>2. CASE i = n /\ b # a
    BY <1>1, <1>3, <2>2 DEF Has, Rec, HookLeaves
  <2> QED
    BY <1>4, <2>1, <2>2
<1>5. ASSUME NEW i \in {n}
      PROVE  /\ Has(i, a)' /\ Rec(i, a)'.action = Head(todo[a])
             /\ Has(i, a) => Rec(i, a)'.status = Verdict(type, Rec(i, a).status)
             /\ ~Has(i, a) => Rec(i, a)'.status = Verdict(type, "incomplete")
             /\ type = "apply_start" => Rec(i, a)'.started = Tick
             /\ type # "apply_start" /\ Has(i, a) => Rec(i, a)'.started = Rec(i, a).started
             /\ type # "apply_start" => Rec(i, a)'.finished = Tick
  <2>1. streams'[i].op = op /\ streams[i].op = Written
    BY <1>3
  <2> QED
    BY <1>1, <2>1 DEF Has, Rec, HookLeaves, StatusOf, StartOf
<1> QED
  BY <1>1, <1>2, <1>3, <1>4, <1>5

\* An event about a resource whose charge is not told apart, or one that does
\* not move the instants: only its hook's record is new.
LEMMA HookMeters ==
  ASSUME Types, Meters, UNCHANGED job,
         NEW a \in Todo, NEW type \in {"apply_start", "apply_complete", "apply_errored"}, Hooked(type, a),
         \A b \in Metered : estate'[b] = estate[b] /\ born'[b] = born[b] /\ died'[b] = died[b],
         \A b \in Resources \ {a} : todo'[b] = todo[b] /\ (b \in flight' <=> b \in flight),
         type = "apply_start" => todo' = todo /\ a \notin flight /\ a \in flight',
         type # "apply_start" => a \in flight /\ (a \in Metered => a \notin Todo'),
         type = "apply_complete" /\ a \in Metered => estate[a] = Goal
  PROVE  Meters'
<1> DEFINE n == Len(streams)
<1>1. /\ Len(streams') = n /\ n \in 1..n /\ clock' = Tick
      /\ \A i \in 1..n, b \in Resources : i # n \/ b # a =>
           (Has(i, b)' <=> Has(i, b)) /\ (Has(i, b) => Rec(i, b)' = Rec(i, b))
      /\ \A i \in {n} : /\ Has(i, a)' /\ Rec(i, a)'.action = Head(todo[a])
                        /\ Has(i, a) => Rec(i, a)'.status = Verdict(type, Rec(i, a).status)
                        /\ ~Has(i, a) => Rec(i, a)'.status = Verdict(type, "incomplete")
                        /\ type = "apply_start" => Rec(i, a)'.started = Tick
                        /\ type # "apply_start" /\ Has(i, a) => Rec(i, a)'.started = Rec(i, a).started
                        /\ type # "apply_start" => Rec(i, a)'.finished = Tick
  BY HookedRecords
<1>2. /\ Metered \subseteq Resources /\ a \in Resources /\ clock \in Nat /\ Tick \in Nat /\ clock <= Tick
      /\ \A b \in Resources : born[b] \in -1..clock /\ died[b] \in -1..clock
  BY ReportAssumption, Ticks DEF Types, EstateTypes, Todo
<1>3. Verb' = Verb /\ Goal' = Goal /\ \A b \in Metered : Turn(b)' = Turn(b) /\ Turn(b) \in -1..clock
  BY <1>2 DEF Verb, Goal, Turn
<1>4. Lives'
  BY DEF Meters, Lives
<1>5. \A b \in Resources : b \in Todo' => b \in Todo
  <2> TAKE b \in Resources
  <2> QED
    BY DEF Todo
<1>6. MeterWork'
  <2> SUFFICES ASSUME NEW b \in Metered, b \in Todo'
               PROVE  /\ todo'[b] = <<Verb>>
                      /\ b \notin flight' => estate[b] # Goal
                      /\ b \in flight' => /\ Has(Len(streams), b)'
                                          /\ estate[b] = Goal => Rec(Len(streams), b)'.started <= Turn(b)
    BY <1>3 DEF MeterWork
  <2>1. b \in Resources /\ b \in Todo
    BY <1>2, <1>5
  <2>2. /\ todo[b] = <<Verb>>
        /\ b \notin flight => estate[b] # Goal
        /\ b \in flight => /\ Has(n, b)
                           /\ estate[b] = Goal => Rec(n, b).started <= Turn(b)
    BY <2>1 DEF Meters, MeterWork
  <2>3. CASE b = a
    <3>1. type = "apply_start" /\ todo'[b] = todo[b] /\ a \notin flight /\ a \in flight'
      BY <2>3
    <3>2. \A i \in {n} : Has(i, a)'
      BY <1>1
    <3>3. Has(Len(streams), a)'
      BY <1>1, <3>2 DEF Has
    <3> QED
      BY <2>2, <2>3, <3>1, <3>3
  <2>4. CASE b # a
    <3>1. (Has(Len(streams), b)' <=> Has(n, b)) /\ (Has(n, b) => Rec(Len(streams), b)' = Rec(n, b))
      BY <1>1, <2>1, <2>4 DEF Has, Rec
    <3>2. todo'[b] = todo[b] /\ (b \in flight' <=> b \in flight)
      BY <2>1, <2>4
    <3> QED
      BY <2>2, <3>1, <3>2
  <2> QED
    BY <2>3, <2>4
<1>7. MeterRead'
  <2> SUFFICES ASSUME NEW i \in 1..n, NEW b \in Metered, Has(i, b)'
               PROVE  /\ Rec(i, b)'.action = Verb
                      /\ Rec(i, b)'.started \in 0..clock'
                      /\ Rec(i, b)'.status = "complete" =>
                           /\ b \notin Todo' /\ estate[b] = Goal
                           /\ Rec(i, b)'.started <= Turn(b) /\ Turn(b) <= Rec(i, b)'.finished
    BY <1>1, <1>3 DEF MeterRead
  <2>1. CASE i # n \/ b # a
    <3>1. Has(i, b) /\ Rec(i, b)' = Rec(i, b)
      BY <1>1, <1>2, <2>1
    <3>2. b \in Resources /\ (b \in Todo' => b \in Todo)
      BY <1>2, <1>5
    <3> QED
      BY <1>1, <1>2, <3>1, <3>2 DEF Meters, MeterRead
  <2>2. CASE i = n /\ b = a
    <3>1. todo[a] = <<Verb>> /\ Head(todo[a]) = Verb
      BY <2>2 DEF Meters, MeterWork
    <3>2. Has(n, a) => Rec(n, a).status # "complete" /\ Rec(n, a).started \in 0..clock
      BY <1>1, <2>2 DEF Meters, MeterRead
    <3>3. Rec(i, a)'.action = Verb
      BY <1>1, <2>2, <3>1
    <3>4. CASE type = "apply_start"
      <4>1. Rec(i, a)'.started = Tick /\ Rec(i, a)'.status # "complete"
        BY <1>1, <2>2, <3>2, <3>4 DEF Verdict
      <4> QED
        BY <1>1, <1>2, <2>2, <3>3, <4>1
    <3>5. CASE type # "apply_start"
      <4>1. Has(n, a) /\ (estate[a] = Goal => Rec(n, a).started <= Turn(a))
        BY <2>2, <3>5 DEF Meters, MeterWork
      <4>2. Rec(i, a)'.started = Rec(n, a).started /\ Rec(i, a)'.finished = Tick
        BY <1>1, <2>2, <3>5, <4>1
      <4>3. Rec(i, a)'.status = "complete" => type = "apply_complete"
        BY <1>1, <2>2, <3>5, <4>1 DEF Verdict
      <4>4. Turn(a) <= Tick
        BY <1>2, <1>3, <2>2
      <4> QED
        BY <1>1, <1>2, <2>2, <3>2, <3>3, <3>5, <4>1, <4>2, <4>3, <4>4
    <3> QED
      BY <3>4, <3>5
  <2> QED
    BY <2>1, <2>2
<1> QED
  BY <1>4, <1>6, <1>7 DEF Meters

LEMMA ChargeMeters ==
  ASSUME SteadyMeters, Types, Meters, NEW a \in Resources, Charge(a)
  PROVE  Meters'
<1>1. /\ a \in Metered /\ a \in flight /\ a \in Todo /\ UNCHANGED <<job, todo, flight, streams>>
      /\ clock' = Tick /\ Takes(a) /\ Effect(a)
  BY DEF Charge, Types, WorkTypes
<1>2. /\ todo[a] = <<Verb>> /\ Head(todo[a]) = Verb /\ Has(Len(streams), a)
  BY <1>1 DEF Meters, MeterWork
<1>3. /\ Metered \subseteq Resources /\ clock \in Nat /\ Tick \in Nat /\ clock <= Tick
      /\ \A b \in Resources : born[b] \in -1..clock /\ died[b] \in -1..clock
      /\ estate \in [Resources -> {"live", "gone"}]
      /\ DOMAIN born = Resources /\ DOMAIN died = Resources
  BY ReportAssumption, Ticks DEF Types, EstateTypes
<1>4. Verb' = Verb /\ Goal' = Goal /\ Todo' = Todo
  BY <1>1 DEF Verb, Goal, Todo
<1>5. \A b \in Resources \ {a} : estate'[b] = estate[b] /\ born'[b] = born[b] /\ died'[b] = died[b]
  BY <1>1, <1>3 DEF Effect, Comes, Goes
<1>6. \A b \in Resources \ {a} : Turn(b)' = Turn(b)
  BY <1>1, <1>5 DEF Turn
<1>7. estate[a] # Goal /\ estate'[a] = Goal /\ Turn(a)' = clock'
  <2>1. Verb = "create" <=> job.kind = "apply"
    BY DEF Verb
  <2> QED
    BY <1>1, <1>2, <1>3, <2>1 DEF Takes, Effect, Comes, Goes, Turn, Goal
<1>8. Lives'
  <2>1. /\ estate'[a] = "live" => born'[a] # None /\ died'[a] = None
        /\ estate'[a] = "gone" /\ born'[a] # None => died'[a] # None /\ born'[a] <= died'[a]
    BY <1>1, <1>3 DEF Effect, Comes, Goes, None
  <2> QED
    BY <1>3, <1>5, <2>1 DEF Meters, Lives
<1>9. \A i \in 1..Len(streams), b \in Metered : (Has(i, b)' <=> Has(i, b)) /\ Rec(i, b)' = Rec(i, b)
  BY <1>1 DEF Has, Rec
<1>10. Has(Len(streams), a)' /\ Rec(Len(streams), a)'.started <= clock
  <2>1. Len(streams) \in 1..Len(streams)
    BY <1>1, StreamsCount DEF Types, WorkTypes, StreamTypes
  <2>2. Rec(Len(streams), a).started \in 0..clock
    BY <1>1, <1>2, <2>1 DEF Meters, MeterRead
  <2> QED
    BY <1>1, <1>2, <1>3, <2>2 DEF Has, Rec
<1>11. MeterWork'
  <2> SUFFICES ASSUME NEW b \in Metered \cap Todo
               PROVE  /\ todo[b] = <<Verb>>
                      /\ b \notin flight => estate'[b] # Goal
                      /\ b \in flight => /\ Has(Len(streams), b)'
                                         /\ estate'[b] = Goal => Rec(Len(streams), b)'.started <= Turn(b)'
    BY <1>1, <1>4 DEF MeterWork
  <2>1. CASE b = a
    <3>1. Rec(Len(streams), a)'.started <= Turn(a)'
      <4>1. Turn(a)' = Tick
        BY <1>1, <1>7
      <4>2. Rec(Len(streams), a)' = Rec(Len(streams), a) /\ Rec(Len(streams), a).started \in 0..clock
        <5>1. Len(streams) \in 1..Len(streams)
          BY <1>1, StreamsCount DEF Types, WorkTypes, StreamTypes
        <5> QED
          BY <1>1, <1>2, <5>1 DEF Meters, MeterRead, Rec
      <4> QED
        BY <1>3, <4>1, <4>2
    <3> QED
      BY <1>1, <1>2, <1>10, <2>1, <3>1
  <2>2. CASE b # a
    <3>1. Has(Len(streams), b)' = Has(Len(streams), b) /\ Rec(Len(streams), b)' = Rec(Len(streams), b)
      BY <1>1 DEF Has, Rec
    <3>2. estate'[b] = estate[b] /\ Turn(b)' = Turn(b)
      BY <1>3, <1>5, <1>6, <2>2
    <3> QED
      BY <3>1, <3>2 DEF Meters, MeterWork
  <2> QED
    BY <2>1, <2>2
<1>12. MeterRead'
  <2> SUFFICES ASSUME NEW i \in 1..Len(streams), NEW b \in Metered, Has(i, b)
               PROVE  /\ Rec(i, b).action = Verb
                      /\ Rec(i, b).started \in 0..clock'
                      /\ Rec(i, b).status = "complete" =>
                           /\ b \notin Todo /\ estate'[b] = Goal
                           /\ Rec(i, b).started <= Turn(b)' /\ Turn(b)' <= Rec(i, b).finished
    BY <1>1, <1>4, <1>9 DEF MeterRead
  <2>1. Rec(i, b).status = "complete" => b # a
    BY <1>1 DEF Meters, MeterRead
  <2>2. b # a => estate'[b] = estate[b] /\ Turn(b)' = Turn(b)
    BY <1>3, <1>5, <1>6
  <2> QED
    BY <1>1, <1>3, <2>1, <2>2 DEF Meters, MeterRead
<1> QED
  BY <1>8, <1>11, <1>12 DEF Meters

LEMMA InitMeters == Init => Meters
<1> SUFFICES ASSUME Init PROVE Meters
  OBVIOUS
<1>1. Todo = {} /\ Metered \subseteq Resources /\ Len(streams) = 0
  BY ReportAssumption DEF Init, Todo
<1>2. 1..Len(streams) = {}
  BY <1>1
<1> QED
  BY <1>1, <1>2 DEF Init, Meters, Lives, MeterWork, MeterRead

\* What one hook does to the instants and to the work of the others.
LEMMA FinishMeters ==
  ASSUME Types, Meters, NEW a \in Resources, FinishHook(a)
  PROVE  Meters'
<1>1. a \in Todo /\ a \in flight /\ job.phase = "working" /\ UNCHANGED job /\ flight' = flight \ {a}
  BY DEF FinishHook, Types, WorkTypes
<1>2. Hooked("apply_complete", a)
  BY <1>1, HookEmitted DEF FinishHook, Busy
<1>3. Metered \subseteq Resources /\ todo' = [todo EXCEPT ![a] = Tail(todo[a])] /\ todo \in [Resources -> Owes]
  BY ReportAssumption DEF FinishHook, Types, WorkTypes
<1>4. \A b \in Metered : estate'[b] = estate[b] /\ born'[b] = born[b] /\ died'[b] = died[b]
  <2>1. CASE a \in Metered
    BY <2>1 DEF FinishHook
  <2>2. CASE a \notin Metered
    BY <1>3, <2>2 DEF FinishHook, Effect, Comes, Goes, Types, EstateTypes
  <2> QED
    BY <2>1, <2>2
<1>5. ASSUME a \in Metered PROVE a \notin Todo' /\ estate[a] = Goal
  <2>1. todo[a] = <<Verb>> /\ ~Takes(a)
    BY <1>1, <1>5 DEF Meters, MeterWork, FinishHook
  <2>2. Head(todo[a]) = Verb /\ todo'[a] = << >>
    BY <1>3, <2>1
  <2>3. Verb = "create" <=> job.kind = "apply"
    BY DEF Verb
  <2> QED
    BY <2>1, <2>2, <2>3 DEF Todo, Takes, Goal, Types, EstateTypes
<1>6. \A b \in Resources \ {a} : todo'[b] = todo[b] /\ (b \in flight' <=> b \in flight)
  BY <1>1, <1>3
<1> QED
  BY <1>1, <1>2, <1>4, <1>5, <1>6, HookMeters

LEMMA FailMeters ==
  ASSUME Types, Meters, NEW a \in Resources, FailHook(a)
  PROVE  Meters'
<1>1. a \in Todo /\ a \in flight /\ job.phase = "working" /\ UNCHANGED <<job, estate, born, died>>
      /\ flight' = flight \ {a}
  BY DEF FailHook, Types, WorkTypes
<1>2. Hooked("apply_errored", a)
  BY <1>1, HookEmitted DEF FailHook, Busy
<1>3. todo' = [todo EXCEPT ![a] = << >>] /\ todo \in [Resources -> Owes]
  BY DEF FailHook, Types, WorkTypes
<1>4. a \notin Todo'
  BY <1>3 DEF Todo
<1>5. \A b \in Resources \ {a} : todo'[b] = todo[b] /\ (b \in flight' <=> b \in flight)
  BY <1>1, <1>3
<1> QED
  BY <1>1, <1>2, <1>4, <1>5, HookMeters

LEMMA StartMeters ==
  ASSUME Types, Meters, NEW a \in Resources, StartHook(a)
  PROVE  Meters'
<1>1. a \in Todo /\ a \notin flight /\ job.phase = "working" /\ UNCHANGED <<job, estate, born, died, todo>>
      /\ flight' = flight \cup {a}
  BY DEF StartHook, Todo
<1>2. Hooked("apply_start", a)
  BY <1>1, HookEmitted DEF StartHook, Busy
<1>3. \A b \in Resources \ {a} : todo'[b] = todo[b] /\ (b \in flight' <=> b \in flight)
  BY <1>1
<1> QED
  BY <1>1, <1>2, <1>3, HookMeters

\* A step is the beginning of a job, an invocation, a hook's, or quiet.
LEMMA StepCases ==
  ASSUME Types, [Next]_vars
  PROVE  \/ \E kind \in {"apply", "destroy"} : Begin(kind)
            /\ (kind = "apply" => job.applies < MaxApplies) /\ (kind = "destroy" => job.destroys < MaxDestroys)
         \/ Invoke
         \/ \E a \in Resources : StartHook(a) \/ Charge(a) \/ FinishHook(a) \/ FailHook(a)
         \/ Quiet
BY QuietSteps DEF Next, BeginApply, BeginDestroy, Announcing

LEMMA MetersStep ==
  ASSUME SteadyMeters, Types, Meters, [Next]_vars
  PROVE  Meters'
<1>1. ASSUME NEW a \in Resources, StartHook(a) \/ Charge(a) \/ FinishHook(a) \/ FailHook(a)
      PROVE  Meters'
  BY <1>1, StartMeters, ChargeMeters, FinishMeters, FailMeters
<1> QED
  BY <1>1, StepCases, BeginMeters, OpenMeters, QuietMeters

\* The greatest element of a nonempty set of naturals with a bound.
LEMMA Greatest ==
  ASSUME NEW n \in Nat, NEW T \in SUBSET (1..n), T # {}
  PROVE  Max(T) \in T /\ \A y \in T : y <= Max(T)
<1> DEFINE below == {n - x : x \in T}
<1>1. below \in SUBSET Nat /\ below # {}
  <2>1. \A x \in T : n - x \in Nat
    OBVIOUS
  <2> QED
    BY <2>1
<1>2. PICK m \in below : \A y \in below : ~(y < m)
  BY <1>1, Least
<1>3. PICK x \in T : m = n - x
  BY <1>2
<1>4. \A y \in T : x >= y
  <2> TAKE y \in T
  <2>1. n - y \in below
    OBVIOUS
  <2>2. ~(n - y < n - x)
    BY <1>2, <1>3, <2>1
  <2> QED
    BY <2>2
<1> HIDE DEF below
<1>5. \E z \in T : \A y \in T : z >= y
  BY <1>4
<1> QED
  BY <1>5 DEF Max

LEMMA GreaterOfTwo ==
  ASSUME NEW x \in Int, NEW y \in Int
  PROVE  Max({x, y}) = IF x >= y THEN x ELSE y
<1> DEFINE top == IF x >= y THEN x ELSE y
<1>1. top \in {x, y} /\ \A z \in {x, y} : top >= z
  OBVIOUS
<1>2. \E t \in {x, y} : \A z \in {x, y} : t >= z
  BY <1>1
<1>3. Max({x, y}) \in {x, y} /\ \A z \in {x, y} : Max({x, y}) >= z
  BY <1>2 DEF Max
<1> QED
  BY <1>3

\* What the cost fold looks up of an address is what some operation says.
LEMMA Recorded ==
  ASSUME Types, NEW actions, NEW a
  PROVE  /\ a \in DOMAIN ResourcesOf(TimelineNow, actions) <=>
              \E i \in 1..Len(streams) : Has(i, a) /\ Rec(i, a).action \in actions
         /\ a \in DOMAIN ResourcesOf(TimelineNow, actions) =>
              \E i \in 1..Len(streams) : /\ Has(i, a) /\ Rec(i, a).action \in actions
                                         /\ ResourcesOf(TimelineNow, actions)[a] = Rec(i, a)
<1> DEFINE t == TimelineNow
           n == Len(streams)
           said(i) == {b \in DOMAIN t.ops[i].resources : t.ops[i].resources[b].action \in actions}
           saying(b) == {i \in 1..n : b \in said(i)}
           dom == UNION {said(i) : i \in 1..n}
<1>1. n \in Nat /\ DOMAIN streams = 1..n
  BY StreamsCount DEF Types, StreamTypes
<1>2. t.ops = [i \in 1..n |-> ReadOp(streams[i])]
  BY <1>1, ReadingFields
<1>3. DOMAIN t.ops = 1..n /\ \A i \in 1..n : t.ops[i].resources = streams[i].op.resources
  BY <1>2 DEF ReadOp
<1>4. \A i \in 1..n : \A b : b \in said(i) <=> Has(i, b) /\ Rec(i, b).action \in actions
  BY <1>3 DEF Has, Rec
<1>5. ResourcesOf(t, actions) = [b \in dom |-> t.ops[Max(saying(b))].resources[b]]
  BY <1>3 DEF ResourcesOf
<1>6. a \in dom <=> \E i \in 1..n : a \in said(i)
  OBVIOUS
<1> HIDE DEF t, said
<1>7. ASSUME a \in dom PROVE Max(saying(a)) \in saying(a)
  BY <1>1, <1>6, <1>7, Greatest
<1>8. ASSUME a \in dom
      PROVE  \E i \in 1..n : a \in said(i) /\ ResourcesOf(t, actions)[a] = Rec(i, a)
  <2>1. Max(saying(a)) \in 1..n /\ a \in said(Max(saying(a)))
    BY <1>7, <1>8
  <2>2. ResourcesOf(t, actions)[a] = t.ops[Max(saying(a))].resources[a]
    BY <1>5, <1>8
  <2> QED
    BY <1>3, <2>1, <2>2 DEF Rec
<1>9. DOMAIN ResourcesOf(t, actions) = dom
  BY <1>5
<1> HIDE DEF n, dom
<1> QED
  BY <1>4, <1>6, <1>8, <1>9 DEF t, n

\* A fold calls a run complete only when every record of it is.
LEMMA CompleteRecords ==
  ASSUME Types, TimelineNow.status = "complete", NEW i \in 1..Len(streams), NEW a, Has(i, a)
  PROVE  Rec(i, a).status = "complete"
<1> DEFINE ops == [j \in DOMAIN streams |-> ReadOp(streams[j])]
           statuses == {op.status : op \in Range(ops)}
           code == IF streams[i].rc \in Nat THEN streams[i].rc ELSE None
           verdicts == {streams[i].op.resources[b].status : b \in DOMAIN streams[i].op.resources}
<1>1. "incomplete" \notin statuses /\ "errored" \notin statuses
  <2>1. TimelineStatus(ops) = "complete"
    BY ReadingFields
  <2> QED
    BY <2>1 DEF TimelineStatus
<1>2. i \in DOMAIN ops /\ ops[i] = ReadOp(streams[i])
  BY DEF Types, StreamTypes
<1>3. ReadOp(streams[i]).status \in statuses
  <2> HIDE DEF ops
  <2> QED
    BY <1>2 DEF Range
<1>4. ReadOp(streams[i]).status = OpStatus(streams[i].op, code)
  BY DEF ReadOp
<1>5. OpStatus(streams[i].op, code) \notin {"incomplete", "errored"}
  BY <1>1, <1>3, <1>4
<1>6. verdicts \subseteq {"complete"}
  BY <1>5 DEF OpStatus
<1>7. Rec(i, a).status \in verdicts
  BY DEF Has, Rec
<1> QED
  BY <1>6, <1>7

\* Every operation of a job is of its kind, and a teardown was counted.
Ours == /\ \A i \in 1..Len(streams) : streams[i].cmd = job.kind
        /\ job.kind = "destroy" => job.destroys # 0

\* What the steps that publish find.
Reporting ==
  /\ job.phase \in {"nodes", "anchor", "cost"} /\ streams # << >> => site.latest = TimelineNow
  /\ job.phase = "anchor" => job.kind = "apply" /\ TimelineNow.status = "complete"

\* The half a cost is made from, and the cost of this job.
Made == IF job.kind = "destroy" THEN site.anchor ELSE TimelineNow
CostRun == IF site.cost.status = "open" THEN site.cost.applyRun ELSE site.cost.destroyRun
Costed ==
  site.cost # NoDoc =>
    /\ CostRun \in 1..job.run
    /\ CostRun = job.run =>
         /\ job.phase = "idle" /\ streams # << >> /\ site.latest = TimelineNow
         /\ ~Refuses(Environment, Made, job.kind = "destroy", TimelineNow)
         /\ site.cost = Price(Environment, Made, job.kind = "destroy", TimelineNow, clock)
         /\ Made # NoDoc

\* What the anchor says was made stands since, until this teardown reaches it.
Anchored ==
  site.anchor # NoDoc /\ (job.destroys = 0 \/ job.kind = "destroy") =>
    \A a \in Metered \cap DOMAIN Created(site.anchor) :
      /\ Created(site.anchor)[a].started \in Nat /\ Created(site.anchor)[a].finished \in Int
      /\ Created(site.anchor)[a].started <= born[a] /\ born[a] <= Created(site.anchor)[a].finished
      /\ \/ estate[a] = "live"
         \/ job.kind = "destroy" /\ \E i \in 1..Len(streams) : Has(i, a)

LEMMA OursStep ==
  ASSUME Types, Ours, [Next]_vars
  PROVE  Ours'
<1>1. ASSUME NEW kind \in {"apply", "destroy"}, Begin(kind) PROVE Ours'
  <2>1. streams' = << >> /\ job'.kind = kind /\ (kind = "destroy" => job'.destroys = job.destroys + 1)
        /\ job.destroys \in Nat
    BY <1>1, ReportAssumption DEF Begin, Types, JobTypes, Jobs
  <2>2. 1..Len(streams') = {}
    BY <2>1
  <2> QED
    BY <2>1, <2>2 DEF Ours
<1>2. CASE Invoke
  <2>1. PICK work : Open(work)
    BY <1>2, Opens
  <2>2. job'.kind = job.kind /\ job'.destroys = job.destroys
    BY <2>1 DEF Open, Types, JobTypes, Jobs
  <2>3. /\ Len(streams') = Len(streams) + 1 /\ Len(streams) \in Nat
        /\ \A i \in 1..Len(streams) : streams'[i] = streams[i]
        /\ streams'[Len(streams) + 1].cmd = job.kind
    BY <2>1, OpenedStreams, StreamsCount
  <2> QED
    BY <2>2, <2>3 DEF Ours
<1>3. ASSUME NEW a \in Resources, StartHook(a) \/ FinishHook(a) \/ FailHook(a) PROVE Ours'
  <2>1. a \in Todo /\ Busy /\ UNCHANGED job
    BY <1>3 DEF StartHook, FinishHook, FailHook, Types, WorkTypes, Todo, Busy
  <2>2. \E type : Hooked(type, a)
    BY <1>3, <2>1, HookEmitted DEF StartHook, FinishHook, FailHook
  <2> QED
    BY <2>1, <2>2 DEF Hooked, OpBecomes, Ours
<1>4. ASSUME NEW a \in Resources, Charge(a) PROVE Ours'
  BY <1>4 DEF Charge, Ours
<1>5. CASE Quiet
  BY <1>5 DEF Quiet, SameRecords, SameJob, Ours
<1> QED
  BY <1>1, <1>2, <1>3, <1>4, <1>5, StepCases

\* What is folded is of the job's kind.
LEMMA KindRead ==
  ASSUME Types, Ours, streams # << >>
  PROVE  CycleKind(TimelineNow) = job.kind /\ ReadingNow.kind = job.kind /\ job.kind \in {"apply", "destroy"}
<1>1. Len(streams) \in 1..Len(streams) /\ DOMAIN streams = 1..Len(streams)
      /\ \A i \in 1..Len(streams) : streams[i] \in Stream
  BY StreamsCount DEF Types, StreamTypes
<1>2. job.kind \in {"apply", "destroy"}
  BY <1>1 DEF Ours, Stream
<1>3. DOMAIN TimelineNow.ops = 1..Len(streams)
      /\ \A i \in 1..Len(streams) : TimelineNow.ops[i].command = job.kind
  BY <1>1, <1>2, ReadingFields DEF ReadOp, Ours
<1>4. CycleKind(TimelineNow) = job.kind
  BY <1>1, <1>2, <1>3 DEF CycleKind
<1> QED
  BY <1>2, <1>4 DEF ReadingNow, Join

\* A step publishes, or it leaves the documents and does not come to publish.
LEMMA PublishCases ==
  ASSUME Types, [Next]_vars
  PROVE  \/ \E kind \in {"apply", "destroy"} : Begin(kind)
         \/ PublishTimeline \/ PublishNodes \/ PublishAnchor \/ PublishCost
         \/ UNCHANGED vars
         \/ /\ job.phase # "idle" /\ job'.phase \notin {"nodes", "anchor", "cost"} /\ job'.run = job.run
            /\ site'.latest = site.latest /\ site'.anchor = site.anchor /\ site'.cost = site.cost
<1> DEFINE Goes0 == /\ job.phase # "idle" /\ job'.phase \notin {"nodes", "anchor", "cost"} /\ job'.run = job.run
                    /\ site'.latest = site.latest /\ site'.anchor = site.anchor /\ site'.cost = site.cost
<1>1. CASE Invoke
  <2>1. PICK work : Open(work) /\ job.phase = "ready"
    BY <1>1, Opens
  <2> QED
    BY <2>1 DEF Open, Types, JobTypes, Jobs
<1>2. CASE Announcing \/ Summarise \/ Return \/ Finish \/ Cancel \/ LoseRunner
  <2>1. CASE Announcing
    BY <2>1, AnnounceReads
  <2>2. CASE ~Announcing
    BY <1>2, <2>2 DEF Summarise, Return, Finish, Cancel, LoseRunner, Skip, Types, JobTypes, Jobs
  <2> QED
    BY <2>1, <2>2
<1>3. CASE Watch
  BY <1>3 DEF Watch, Types, Fields
<1>4. ASSUME NEW a \in Resources, StartHook(a) \/ Charge(a) \/ FinishHook(a) \/ FailHook(a)
      PROVE  Goes0
  BY <1>4 DEF StartHook, Charge, FinishHook, FailHook
<1> QED
  BY <1>1, <1>2, <1>3, <1>4 DEF Next, BeginApply, BeginDestroy, Announcing

LEMMA ReportingStep ==
  ASSUME Types, Ours, Reporting, [Next]_vars
  PROVE  Reporting'
<1>1. ASSUME NEW kind, Begin(kind) PROVE Reporting'
  BY <1>1 DEF Begin, Reporting
<1>2. CASE PublishTimeline
  <2>1. streams' = streams /\ job'.run = job.run
    BY <1>2 DEF PublishTimeline, Put, Skip, Types, JobTypes, Jobs
  <2>2. TimelineNow' = TimelineNow
    BY <2>1 DEF TimelineNow
  <2> QED
    BY <1>2, <2>1, <2>2 DEF PublishTimeline, Put, Skip, Reporting, Types, JobTypes, Jobs, Fields
<1>3. CASE PublishNodes
  <2>1. /\ streams' = streams /\ job'.run = job.run /\ job'.kind = job.kind /\ job'.phase \in {"anchor", "cost"}
        /\ job'.phase = "anchor" => ReadingNow.kind = "apply" /\ TimelineNow.status = "complete"
        /\ site'.latest = site.latest
    BY <1>3 DEF PublishNodes, Put, Skip, Types, JobTypes, Jobs, Fields
  <2>2. TimelineNow' = TimelineNow
    BY <2>1 DEF TimelineNow
  <2>3. job.phase = "nodes" /\ (TimelineNow.status = "complete" => streams # << >>)
    BY <1>3, CompleteReturned DEF PublishNodes
  <2> QED
    BY <2>1, <2>2, <2>3, KindRead DEF Reporting
<1>4. CASE PublishAnchor \/ PublishCost
  <2>1. /\ streams' = streams /\ job'.run = job.run /\ job'.phase \in {"cost", "idle"}
        /\ site'.latest = site.latest /\ job.phase \in {"anchor", "cost"}
    BY <1>4 DEF PublishAnchor, PublishCost, Put, Skip, Types, JobTypes, Jobs, Fields
  <2>2. TimelineNow' = TimelineNow
    BY <2>1 DEF TimelineNow
  <2> QED
    BY <2>1, <2>2 DEF Reporting
<1>5. CASE job'.phase \notin {"nodes", "anchor", "cost"}
  BY <1>5 DEF Reporting
<1>6. CASE UNCHANGED vars
  BY <1>6 DEF vars, Reporting, TimelineNow
<1> QED
  BY <1>1, <1>2, <1>3, <1>4, <1>5, <1>6, PublishCases

LEMMA CostedStep ==
  ASSUME Types, Reporting, Costed, [Next]_vars
  PROVE  Costed'
<1>1. job.run \in Nat /\ (job.phase # "idle" => job.run # 0)
  BY DEF Types, JobTypes, Jobs
<1>2. ASSUME NEW kind, Begin(kind) PROVE Costed'
  <2>1. job'.run = job.run + 1 /\ site' = site
    BY <1>2 DEF Begin
  <2>2. CostRun' = CostRun
    BY <2>1 DEF CostRun
  <2> QED
    BY <1>1, <2>1, <2>2 DEF Costed
<1>3. CASE job.phase # "idle" /\ job'.run = job.run /\ site'.cost = site.cost
  <2>1. CostRun' = CostRun
    BY <1>3 DEF CostRun
  <2> QED
    BY <1>1, <1>3, <2>1 DEF Costed
<1>4. CASE PublishTimeline \/ PublishNodes \/ PublishAnchor
  BY <1>3, <1>4 DEF PublishTimeline, PublishNodes, PublishAnchor, Put, Skip, Types, JobTypes, Jobs, Fields
<1>5. CASE PublishCost
  <2> DEFINE closed == job.kind = "destroy"
             doc == Price(Environment, Made, closed, TimelineNow, clock)
  <2>1. CASE Skip("idle")
    BY <1>3, <1>5, <2>1 DEF PublishCost, Skip, Types, JobTypes, Jobs
  <2>2. CASE ~Skip("idle")
    <3>1. /\ Put("cost", doc, "idle") /\ job.phase = "cost" /\ streams # << >> /\ Made # NoDoc
          /\ ~Refuses(Environment, Made, closed, TimelineNow)
      BY <1>5, <2>2 DEF PublishCost, Made
    <3>2. /\ site'.cost = doc /\ site'.latest = site.latest /\ site'.anchor = site.anchor
          /\ job'.run = job.run /\ job'.kind = job.kind /\ job'.phase = "idle" /\ UNCHANGED <<streams, clock>>
      BY <3>1 DEF Put, Types, JobTypes, Jobs, Fields
    <3>3. TimelineNow' = TimelineNow
      BY <3>2 DEF TimelineNow
    <3>4. Made' = Made
      BY <3>2, <3>3 DEF Made
    <3>5. /\ doc.status = IF closed THEN "closed" ELSE "open"
          /\ closed => doc.destroyRun = job.run
          /\ ~closed => doc.applyRun = job.run
      BY ReadingFields DEF Price, Made
    <3>6. CostRun' = job.run
      BY <3>2, <3>5 DEF CostRun
    <3>7. site'.latest = TimelineNow
      BY <3>1, <3>2 DEF Reporting
    <3> HIDE DEF doc, closed
    <3>8. Refuses(Environment, Made, job.kind = "destroy", TimelineNow)'
            = Refuses(Environment, Made, closed, TimelineNow)
      BY <3>2, <3>3, <3>4 DEF closed
    <3>9. Price(Environment, Made, job.kind = "destroy", TimelineNow, clock)' = doc
      BY <3>2, <3>3, <3>4 DEF closed, doc
    <3> QED
      BY <1>1, <3>1, <3>2, <3>3, <3>4, <3>6, <3>7, <3>8, <3>9 DEF Costed
  <2> QED
    BY <2>1, <2>2
<1>6. CASE UNCHANGED vars
  BY <1>6 DEF vars, Costed, CostRun, Made, TimelineNow
<1> QED
  BY <1>2, <1>3, <1>4, <1>5, <1>6, PublishCases

LEMMA RecordIsRecord ==
  ASSUME Types, NEW i \in 1..Len(streams), NEW a, Has(i, a)
  PROVE  Rec(i, a) \in Record
<1>1. streams[i] \in Stream
  BY DEF Types, StreamTypes
<1>2. streams[i].op.resources \in Partial(Addresses, Record)
  BY <1>1 DEF Stream, Ops
<1>3. PICK D \in SUBSET Addresses : streams[i].op.resources \in [D -> Record]
  BY <1>2 DEF Partial
<1> QED
  BY <1>3 DEF Has, Rec

\* A teardown is begun once.
OneTeardown == MaxDestroys <= 1

\* What an anchor published now says was made stands.
LEMMA AnchoredNow ==
  ASSUME Types, Ours, Meters, Reporting, PublishAnchor
  PROVE  Anchored'
<1>1. /\ job.phase = "anchor" /\ site'.anchor = TimelineNow /\ job'.kind = job.kind
      /\ UNCHANGED <<estate, born, streams>>
  BY DEF PublishAnchor, Put, Types, JobTypes, Jobs, Fields
<1>2. job.kind = "apply" /\ TimelineNow.status = "complete"
  BY <1>1 DEF Reporting
<1>3. ASSUME NEW a \in Metered, a \in DOMAIN Created(TimelineNow)
      PROVE  /\ Created(TimelineNow)[a].started \in Nat /\ Created(TimelineNow)[a].finished \in Int
             /\ Created(TimelineNow)[a].started <= born[a] /\ born[a] <= Created(TimelineNow)[a].finished
             /\ estate[a] = "live"
  <2>1. PICK i \in 1..Len(streams) : Has(i, a) /\ Created(TimelineNow)[a] = Rec(i, a)
    BY <1>3, Recorded DEF Created
  <2>2. Rec(i, a).status = "complete"
    BY <1>2, <2>1, CompleteRecords
  <2>3. /\ Rec(i, a).started \in 0..clock /\ estate[a] = Goal
        /\ Rec(i, a).started <= Turn(a) /\ Turn(a) <= Rec(i, a).finished
    BY <2>1, <2>2 DEF Meters, MeterRead
  <2>4. Rec(i, a).finished \in Int
    BY <2>1, RecordIsRecord DEF Record
  <2> QED
    BY <1>2, <2>1, <2>3, <2>4 DEF Goal, Turn, Types, EstateTypes
<1> QED
  BY <1>1, <1>3 DEF Anchored

LEMMA AnchoredStep ==
  ASSUME OneTeardown, Types, Ours, Meters, Reporting, Anchored, [Next]_vars
  PROVE  Anchored'
<1> DEFINE Kept == DOMAIN Created(site.anchor)
<1>1. Metered \subseteq Resources /\ Len(streams) \in Nat /\ job.destroys \in Nat
      /\ (job.kind = "destroy" => job.destroys # 0)
  BY ReportAssumption, StreamsCount DEF Types, JobTypes, Jobs, Ours
<1>2. ASSUME NEW kind \in {"apply", "destroy"}, Begin(kind), kind = "destroy" => job.destroys < MaxDestroys
      PROVE  Anchored'
  <2>1. /\ UNCHANGED <<estate, born, site>> /\ job'.kind = kind
        /\ job'.destroys = job.destroys + (IF kind = "destroy" THEN 1 ELSE 0)
    BY <1>2 DEF Begin
  <2>2. job'.destroys = 0 \/ job'.kind = "destroy" => job.destroys = 0
    BY <1>1, <1>2, <2>1, ReportAssumption DEF OneTeardown
  <2>3. Created(site.anchor)' = Created(site.anchor)
    BY <2>1
  <2> QED
    BY <1>1, <2>1, <2>2, <2>3 DEF Anchored
\* Any other step keeps what it says, unless a meter turns.
<1>3. ASSUME job'.kind = job.kind, job'.destroys = job.destroys, site'.anchor = site.anchor,
             \A a \in Metered \cap Kept : born'[a] = born[a] \/ site.anchor = NoDoc
                                          \/ ~(job.destroys = 0 \/ job.kind = "destroy"),
             \A a \in Metered \cap Kept :
               estate'[a] = estate[a]
               \/ site.anchor = NoDoc \/ ~(job.destroys = 0 \/ job.kind = "destroy")
               \/ (job.kind = "destroy" /\ \E i \in 1..Len(streams') : Has(i, a)'),
             \A a \in Metered, i \in 1..Len(streams) : Has(i, a) => i \in 1..Len(streams') /\ Has(i, a)'
      PROVE  Anchored'
  <2>1. Created(site.anchor)' = Created(site.anchor)
    BY <1>3
  <2> SUFFICES ASSUME site.anchor # NoDoc, job.destroys = 0 \/ job.kind = "destroy",
                      NEW a \in Metered \cap Kept
               PROVE  /\ Created(site.anchor)[a].started \in Nat /\ Created(site.anchor)[a].finished \in Int
                      /\ Created(site.anchor)[a].started <= born'[a]
                      /\ born'[a] <= Created(site.anchor)[a].finished
                      /\ \/ estate'[a] = "live"
                         \/ job.kind = "destroy" /\ \E i \in 1..Len(streams') : Has(i, a)'
    BY <1>3, <2>1 DEF Anchored
  <2>2. /\ Created(site.anchor)[a].started \in Nat /\ Created(site.anchor)[a].finished \in Int
        /\ Created(site.anchor)[a].started <= born[a] /\ born[a] <= Created(site.anchor)[a].finished
        /\ estate[a] = "live" \/ (job.kind = "destroy" /\ \E i \in 1..Len(streams) : Has(i, a))
    BY DEF Anchored
  <2> HIDE DEF Kept
  <2>3. born'[a] = born[a]
    BY <1>3
  <2>4. (\E i \in 1..Len(streams) : Has(i, a)) => \E i \in 1..Len(streams') : Has(i, a)'
    BY <1>3
  <2>5. estate'[a] = estate[a] \/ (job.kind = "destroy" /\ \E i \in 1..Len(streams') : Has(i, a)')
    BY <1>3
  <2> QED
    BY <2>2, <2>3, <2>4, <2>5
<1>4. site'.anchor = site.anchor \/ PublishAnchor
  <2>1. PublishTimeline \/ PublishNodes \/ PublishCost => site'.anchor = site.anchor
    BY DEF PublishTimeline, PublishNodes, PublishCost, Put, Skip, Types, Fields
  <2> QED
    BY <2>1, PublishCases DEF Begin, vars
<1>5. CASE Invoke
  <2>1. PICK work : Open(work)
    BY <1>5, Opens
  <2>2. /\ job'.kind = job.kind /\ job'.destroys = job.destroys /\ UNCHANGED <<estate, born, site>>
    BY <2>1 DEF Open, Types, JobTypes, Jobs
  <2>3. Len(streams') = Len(streams) + 1 /\ \A i \in 1..Len(streams) : streams'[i] = streams[i]
    BY <2>1, OpenedStreams
  <2>4. \A a \in Metered, i \in 1..Len(streams) : Has(i, a) => i \in 1..Len(streams') /\ Has(i, a)'
    BY <1>1, <2>3 DEF Has
  <2> HIDE DEF Kept
  <2> QED
    BY <1>3, <2>2, <2>4
<1>6. ASSUME NEW a \in Resources, StartHook(a) \/ FinishHook(a) \/ FailHook(a) PROVE Anchored'
  <2>1. a \in Todo /\ Busy /\ UNCHANGED <<job, site>>
    BY <1>6 DEF StartHook, FinishHook, FailHook, Types, WorkTypes, Todo, Busy
  <2>2. PICK type : Hooked(type, a)
    BY <1>6, <2>1, HookEmitted DEF StartHook, FinishHook, FailHook
  <2>3. \A b \in Metered : estate'[b] = estate[b] /\ born'[b] = born[b]
    <3>1. CASE StartHook(a) \/ FailHook(a) \/ (FinishHook(a) /\ a \in Metered)
      BY <3>1 DEF StartHook, FailHook, FinishHook
    <3>2. CASE FinishHook(a) /\ a \notin Metered
      BY <1>1, <3>2 DEF FinishHook, Effect, Comes, Goes, Types, EstateTypes
    <3> QED
      BY <1>6, <3>1, <3>2
  <2>4. ASSUME NEW b \in Metered, NEW i \in 1..Len(streams), Has(i, b)
        PROVE  i \in 1..Len(streams') /\ Has(i, b)'
    <3>1. Len(streams') = Len(streams)
      BY <2>1, <2>2, HookedRecords
    <3>2. CASE i # Len(streams) \/ b # a
      BY <1>1, <2>1, <2>2, <2>4, <3>1, <3>2, HookedRecords
    <3>3. CASE i = Len(streams) /\ b = a
      BY <2>1, <2>2, <3>1, <3>3, HookedRecords
    <3> QED
      BY <3>2, <3>3
  <2> HIDE DEF Kept
  <2> QED
    BY <1>3, <2>1, <2>3, <2>4
<1>7. ASSUME NEW a \in Resources, Charge(a) PROVE Anchored'
  <2>1. a \in Metered /\ a \in Todo /\ a \in flight /\ UNCHANGED <<job, streams, site>> /\ Takes(a) /\ Effect(a)
    BY <1>7 DEF Charge, Types, WorkTypes
  <2>2. Head(todo[a]) = Verb /\ Has(Len(streams), a) /\ Len(streams) \in 1..Len(streams)
    <3>1. todo[a] = <<Verb>> /\ Has(Len(streams), a)
      BY <2>1 DEF Meters, MeterWork
    <3> QED
      BY <2>1, <3>1, StreamsCount DEF Types, WorkTypes, StreamTypes
  <2>3. \A b \in Metered \ {a} : estate'[b] = estate[b] /\ born'[b] = born[b]
    BY <1>1, <2>1 DEF Effect, Comes, Goes, Types, EstateTypes
  <2>4. \A i \in 1..Len(streams) : \A b : Has(i, b)' <=> Has(i, b)
    BY <2>1 DEF Has
  <2>5. CASE job.kind = "destroy"
    <3>1. Verb = "delete"
      BY <2>5 DEF Verb
    <3>2. born' = born /\ \E i \in 1..Len(streams') : Has(i, a)'
      BY <2>1, <2>2, <2>4, <3>1 DEF Effect, Goes
    <3> HIDE DEF Kept
    <3> QED
      BY <1>3, <2>1, <2>3, <2>4, <2>5, <3>2
  <2>6. CASE job.kind # "destroy"
    <3>1. job.phase = "working" /\ job.kind = "apply"
      BY <1>7, <2>6 DEF Charge, Types, JobTypes, Jobs
    <3>2. estate[a] = "gone"
      BY <2>1, <2>2, <3>1 DEF Verb, Takes
    <3>3. a \in Kept => site.anchor = NoDoc \/ ~(job.destroys = 0 \/ job.kind = "destroy")
      BY <2>1, <2>6, <3>2 DEF Anchored
    <3> HIDE DEF Kept
    <3> QED
      BY <1>3, <2>1, <2>3, <2>4, <3>3
  <2> QED
    BY <2>5, <2>6
<1>8. CASE Quiet /\ site'.anchor = site.anchor
  <2>1. /\ job'.kind = job.kind /\ job'.destroys = job.destroys /\ UNCHANGED <<estate, born>>
        /\ Len(streams') = Len(streams)
    BY <1>8 DEF Quiet, SameJob, SameRecords
  <2>2. \A a \in Metered, i \in 1..Len(streams) : Has(i, a) => i \in 1..Len(streams') /\ Has(i, a)'
    BY <1>1, <1>8, <2>1 DEF Quiet, SameRecords
  <2> HIDE DEF Kept
  <2> QED
    BY <1>3, <1>8, <2>1, <2>2
<1> QED
  BY <1>2, <1>4, <1>5, <1>6, <1>7, <1>8, StepCases, AnchoredNow

\* A minimum charge leaves a span between the two others where it was.
LEMMA InBand ==
  ASSUME NEW floor \in Int, NEW low \in Int, NEW life \in Int, NEW high \in Int,
         low <= life, life <= high
  PROVE  /\ Max({floor, low}) <= Max({floor, life})
         /\ Max({floor, life}) <= Max({floor, high})
<1>1. /\ Max({floor, low}) = IF floor >= low THEN floor ELSE low
      /\ Max({floor, life}) = IF floor >= life THEN floor ELSE life
      /\ Max({floor, high}) = IF floor >= high THEN floor ELSE high
  BY GreaterOfTwo
<1> QED
  BY <1>1

\* What the band of one row is compared with.
Life(a) == IF born[a] = None THEN 0 ELSE (IF died[a] = None THEN clock ELSE died[a]) - born[a]

LEMMA RowOf ==
  ASSUME NEW apply, NEW closed, NEW destroy, NEW asOf,
         NEW a \in DOMAIN Price(Environment, apply, closed, destroy, asOf).rows
  PROVE  /\ a \in DOMAIN Created(apply) /\ Metering(Kind[a]) = "priced"
         /\ Price(Environment, apply, closed, destroy, asOf).rows[a]
              = PricedRow(a, Created(apply)[a], closed, IF closed THEN Deleted(destroy) ELSE << >>, asOf)
BY DEF Price

Floor(a) == CostModel.priced[Kind[a]].minimum

LEMMA PricedKinds ==
  ASSUME NEW kind, Metering(kind) = "priced"
  PROVE  kind \in DOMAIN CostModel.priced /\ CostModel.priced[kind].minimum \in Nat
BY CostAssumption DEF Metering

\* The spans of a row whose making and, if there is one, whose removal were
\* read around the instants at which they took effect.
LEMMA SpansHold ==
  ASSUME clock \in Nat, NEW a, born[a] \in 0..clock, died[a] \in -1..clock,
         NEW s \in 0..clock, NEW f \in Int, s <= born[a], born[a] <= f
  PROVE  /\ died[a] = None =>
              /\ Life(a) \in Int /\ Span(f, clock) \in Int /\ Span(s, clock) \in Int
              /\ Span(f, clock) <= Life(a) /\ Life(a) <= Span(s, clock)
         /\ \A ds \in 0..clock, df \in Int :
              died[a] # None /\ born[a] <= died[a] /\ ds <= died[a] /\ died[a] <= df =>
                /\ Life(a) \in Int /\ Span(f, ds) \in Int /\ Span(s, df) \in Int
                /\ Span(f, ds) <= Life(a) /\ Life(a) <= Span(s, df)
BY DEF Life, Span, None

LEMMA BandOfRow ==
  ASSUME clock \in Nat, NEW a, NEW made, NEW closed, NEW deleted,
         Floor(a) \in Nat, born[a] \in 0..clock, died[a] \in -1..clock,
         made.started \in 0..clock, made.finished \in Int,
         made.started <= born[a], born[a] <= made.finished,
         a \in DOMAIN deleted =>
           /\ deleted[a].started \in 0..clock /\ deleted[a].finished \in Int
           /\ died[a] # None /\ born[a] <= died[a]
           /\ deleted[a].started <= died[a] /\ died[a] <= deleted[a].finished,
         a \notin DOMAIN deleted => died[a] = None
  PROVE  /\ PricedRow(a, made, closed, deleted, clock).low <= Charged(a)
         /\ Charged(a) <= PricedRow(a, made, closed, deleted, clock).high
<1>1. Charged(a) = Max({Floor(a), Life(a)})
  BY DEF Charged, Life, Floor
<1>2. ASSUME NEW low, NEW high,
             /\ PricedRow(a, made, closed, deleted, clock).low = Max({Floor(a), low})
             /\ PricedRow(a, made, closed, deleted, clock).high = Max({Floor(a), high}),
             /\ Life(a) \in Int /\ low \in Int /\ high \in Int
             /\ low <= Life(a) /\ Life(a) <= high
      PROVE  /\ PricedRow(a, made, closed, deleted, clock).low <= Charged(a)
             /\ Charged(a) <= PricedRow(a, made, closed, deleted, clock).high
  BY <1>1, <1>2, InBand
<1>3. CASE a \in DOMAIN deleted
  <2> DEFINE low == Span(made.finished, deleted[a].started)
             high == Span(made.started, deleted[a].finished)
  <2>1. /\ PricedRow(a, made, closed, deleted, clock).low = Max({Floor(a), low})
        /\ PricedRow(a, made, closed, deleted, clock).high = Max({Floor(a), high})
    BY <1>3 DEF PricedRow, Floor
  <2>2. /\ Life(a) \in Int /\ low \in Int /\ high \in Int
        /\ low <= Life(a) /\ Life(a) <= high
    BY <1>3, SpansHold
  <2> HIDE DEF low, high
  <2> QED
    BY <1>2, <2>1, <2>2
<1>4. CASE a \notin DOMAIN deleted
  <2> DEFINE low == Span(made.finished, clock)
             high == Span(made.started, clock)
  <2>1. /\ PricedRow(a, made, closed, deleted, clock).low = Max({Floor(a), low})
        /\ PricedRow(a, made, closed, deleted, clock).high = Max({Floor(a), high})
    BY <1>4 DEF PricedRow, Floor
  <2>2. /\ Life(a) \in Int /\ low \in Int /\ high \in Int
        /\ low <= Life(a) /\ Life(a) <= high
    BY <1>4, SpansHold
  <2> HIDE DEF low, high
  <2> QED
    BY <1>2, <2>1, <2>2
<1> QED
  BY <1>3, <1>4

\* The band of the cost of a cycle that finished holds what AWS charged, from
\* the instant it began to the instant it stopped or to now: proved of every
\* estate, cost model and number of applies, with rollbacks, cancellations and
\* lost runners, in which a charged resource is not replaced while it stands
\* and one teardown is begun.
THEOREM ChargedIsInBand ==
  ASSUME SteadyMeters, OneTeardown
  PROVE  Spec => []BandHoldsTheCharge
<1>1. Init => Ours /\ Reporting /\ Costed /\ Anchored
  BY DEF Init, Ours, Reporting, Costed, Anchored, Fields
<1>2. Types /\ Ours /\ Meters /\ Costed /\ Anchored => BandHoldsTheCharge
  <2> SUFFICES ASSUME Types, Ours, Meters, Costed, Anchored, PricedCycle,
                      NEW a \in Metered \cap DOMAIN site.cost.rows
               PROVE  site.cost.rows[a].low <= Charged(a) /\ Charged(a) <= site.cost.rows[a].high
    BY DEF BandHoldsTheCharge
  <2> DEFINE closed == job.kind = "destroy"
             made == Created(Made)[a]
             deleted == IF closed THEN Deleted(TimelineNow) ELSE << >>
             row == PricedRow(a, made, closed, deleted, clock)
  <2>1. /\ streams # << >> /\ site.latest = TimelineNow /\ TimelineNow.status = "complete"
        /\ site.cost = Price(Environment, Made, closed, TimelineNow, clock) /\ Made # NoDoc
    BY DEF PricedCycle, Priced, Costed, CostRun
  <2>2. /\ a \in DOMAIN Created(Made) /\ Metering(Kind[a]) = "priced" /\ site.cost.rows[a] = row
    <3>1. a \in DOMAIN Price(Environment, Made, closed, TimelineNow, clock).rows
      BY <2>1
    <3>2. site.cost.rows[a] = Price(Environment, Made, closed, TimelineNow, clock).rows[a]
      BY <2>1
    <3> HIDE DEF closed
    <3> QED
      BY <3>1, <3>2, RowOf
  <2>3. Floor(a) \in Nat
    BY <2>2, PricedKinds DEF Floor
  <2>4. a \in Resources /\ clock \in Nat /\ born[a] \in -1..clock /\ died[a] \in -1..clock
        /\ estate[a] \in {"live", "gone"}
    BY ReportAssumption DEF Types, EstateTypes
  <2>5. job.kind \in {"apply", "destroy"}
    BY <2>1, KindRead
  <2>6. /\ made.started \in 0..clock /\ made.finished \in Int
        /\ made.started <= born[a] /\ born[a] <= made.finished
        /\ estate[a] = "live" \/ (closed /\ \E i \in 1..Len(streams) : Has(i, a))
    <3>1. CASE job.kind = "apply"
      <4>1. Made = TimelineNow
        BY <3>1 DEF Made
      <4>2. PICK i \in 1..Len(streams) : Has(i, a) /\ made = Rec(i, a)
        BY <2>2, <4>1, Recorded DEF Created
      <4>3. Rec(i, a).status = "complete" /\ Rec(i, a).finished \in Int
        BY <2>1, <4>2, CompleteRecords, RecordIsRecord DEF Record
      <4>4. /\ Rec(i, a).started \in 0..clock /\ estate[a] = Goal
            /\ Rec(i, a).started <= Turn(a) /\ Turn(a) <= Rec(i, a).finished
        BY <4>2, <4>3 DEF Meters, MeterRead
      <4> QED
        BY <3>1, <4>2, <4>3, <4>4 DEF Goal, Turn
    <3>2. CASE job.kind = "destroy"
      <4>1. Made = site.anchor
        BY <3>2 DEF Made
      <4>2. /\ Created(site.anchor)[a].started \in Nat /\ Created(site.anchor)[a].finished \in Int
            /\ Created(site.anchor)[a].started <= born[a] /\ born[a] <= Created(site.anchor)[a].finished
            /\ estate[a] = "live" \/ (closed /\ \E i \in 1..Len(streams) : Has(i, a))
        BY <2>1, <2>2, <3>2, <4>1 DEF Anchored
      <4> QED
        BY <2>4, <4>1, <4>2
    <3> QED
      BY <2>5, <3>1, <3>2
  <2>8. born[a] \in 0..clock
    BY <2>4, <2>6
  <2>9. ASSUME a \in DOMAIN deleted
        PROVE  /\ deleted[a].started \in 0..clock /\ deleted[a].finished \in Int
               /\ died[a] # None /\ born[a] <= died[a]
               /\ deleted[a].started <= died[a] /\ died[a] <= deleted[a].finished
    <3>1. closed /\ deleted = Deleted(TimelineNow)
      BY <2>9
    <3>2. PICK i \in 1..Len(streams) : Has(i, a) /\ deleted[a] = Rec(i, a)
      BY <2>9, <3>1, Recorded DEF Deleted
    <3>3. Rec(i, a).status = "complete" /\ Rec(i, a).finished \in Int
      BY <2>1, <3>2, CompleteRecords, RecordIsRecord DEF Record
    <3>4. /\ Rec(i, a).started \in 0..clock /\ estate[a] = "gone"
          /\ Rec(i, a).started <= died[a] /\ died[a] <= Rec(i, a).finished
      BY <3>1, <3>2, <3>3 DEF Meters, MeterRead, Goal, Turn
    <3>5. died[a] # None /\ born[a] <= died[a]
      BY <2>8, <3>4 DEF Meters, Lives, None
    <3> QED
      BY <3>2, <3>3, <3>4, <3>5
  <2>10. ASSUME a \notin DOMAIN deleted PROVE died[a] = None
    <3>1. estate[a] = "live"
      <4>1. ASSUME closed, NEW i \in 1..Len(streams), Has(i, a) PROVE FALSE
        <5>1. Rec(i, a).action = "delete"
          BY <4>1 DEF Meters, MeterRead, Verb
        <5>2. a \in DOMAIN Deleted(TimelineNow)
          BY <4>1, <5>1, Recorded DEF Deleted
        <5> QED
          BY <2>10, <4>1, <5>2
      <4> QED
        BY <2>6, <4>1
    <3>2. died[a] = None
      BY <3>1 DEF Meters, Lives
    <3> QED
      BY <2>10, <3>2
  <2>11. row.low <= Charged(a) /\ Charged(a) <= row.high
    <3> HIDE DEF made, deleted, closed
    <3> QED
      BY <2>3, <2>4, <2>6, <2>8, <2>9, <2>10, BandOfRow
  <2> HIDE DEF row
  <2> QED
    BY <2>2, <2>11
<1>3. Types /\ Ours /\ [Next]_vars => Ours'
  BY OursStep
<1>4. Types /\ Meters /\ [Next]_vars => Meters'
  BY MetersStep
<1>5. Types /\ Ours /\ Reporting /\ [Next]_vars => Reporting'
  BY ReportingStep
<1>6. Types /\ Reporting /\ Costed /\ [Next]_vars => Costed'
  BY CostedStep
<1>7. Types /\ Ours /\ Meters /\ Reporting /\ Anchored /\ [Next]_vars => Anchored'
  BY AnchoredStep
<1> QED
  BY <1>1, <1>2, <1>3, <1>4, <1>5, <1>6, <1>7, InitTypes, InitMeters, TypesStep, PTL DEF Spec

-----------------------------------------------------------------------------
(* What a teardown removes was made by the apply it is priced against      *)

\* One apply, and the teardowns of what it made.
OneApply == MaxApplies <= 1

\* A data source is read and never removed.
DataIsRead == \A i \in 1..Len(streams), d \in DataSources : Has(i, d) => Rec(i, d).action = "read"

\* Nothing stands before the first apply has invoked terraform.
Bare == job.applies = 0 \/ (job.kind = "apply" /\ streams = << >>) => Live = {}

\* What terraform is to do, by the job that invoked it.
OwnWork ==
  /\ job.kind = "apply" => job.applies # 0
  /\ job.kind = "destroy" => \A a \in Todo : todo[a] = <<"delete">>
  /\ job.kind = "apply" /\ Len(streams) = 1 => \A a \in Todo : todo[a] = <<"create">>
  /\ job.phase = "working" /\ Summed => Todo = {}

\* The first operation of an apply makes everything, unless it stops half way;
\* a second one begins only when it did not.
MadeAtFirst(a) == Has(1, a) /\ Rec(1, a).action = "create"
HalfMade == Len(streams) = 1 /\ ~Busy /\ job.phase # "ready" /\ streams[1].rc # 0
FirstMakes ==
  job.kind = "apply" /\ streams # << >> =>
    HalfMade \/ \A a \in Resources : MadeAtFirst(a) \/ (Len(streams) = 1 /\ a \in Todo)

\* An anchor names every resource.
AnchorWhole == site.anchor # NoDoc => Resources \subseteq DOMAIN Created(site.anchor)

Sidesteps ==
  \/ Announcing \/ Summarise \/ Return \/ Finish \/ Cancel \/ Watch \/ LoseRunner
  \/ PublishTimeline \/ PublishNodes \/ PublishAnchor \/ PublishCost \/ UNCHANGED vars

LEMMA StepKinds ==
  ASSUME [Next]_vars
  PROVE  \/ \E kind \in {"apply", "destroy"} : Begin(kind)
         \/ Invoke
         \/ \E a \in Resources : StartHook(a) \/ Charge(a) \/ FinishHook(a) \/ FailHook(a)
         \/ Sidesteps
BY DEF Next, BeginApply, BeginDestroy, Announcing, Sidesteps

LEMMA BareStep ==
  ASSUME OneApply, Types, OwnWork, Bare, [Next]_vars
  PROVE  Bare'
<1>1. job.applies \in Nat /\ Len(streams) \in Nat /\ streams \in Seq(Stream)
  BY StreamsCount, ReportAssumption DEF Types, JobTypes, Jobs, StreamTypes
<1>2. ASSUME NEW kind \in {"apply", "destroy"}, Begin(kind), kind = "apply" => job.applies < MaxApplies
      PROVE  Bare'
  <2>1. /\ estate' = estate /\ job'.kind = kind
        /\ job'.applies = job.applies + (IF kind = "apply" THEN 1 ELSE 0)
    BY <1>2 DEF Begin
  <2>2. kind = "apply" => job.applies = 0
    BY <1>1, <1>2, ReportAssumption DEF OneApply
  <2>3. Live' = Live
    BY <2>1 DEF Live
  <2> QED
    BY <1>1, <2>1, <2>2, <2>3 DEF Bare
<1>3. CASE Invoke
  <2>1. PICK work : Open(work)
    BY <1>3, Opens
  <2>2. estate' = estate /\ job'.kind = job.kind /\ job'.applies = job.applies /\ Len(streams') = Len(streams) + 1
    BY <2>1, OpenedStreams DEF Open, Types, JobTypes, Jobs
  <2>3. Live' = Live /\ streams' # << >>
    BY <1>1, <2>2 DEF Live
  <2> QED
    BY <2>2, <2>3 DEF Bare
<1>4. ASSUME NEW a \in Resources, StartHook(a) \/ Charge(a) \/ FinishHook(a) \/ FailHook(a) PROVE Bare'
  <2>1. /\ job' = job /\ job.phase = "working" /\ a \in Todo
    BY <1>4 DEF StartHook, Charge, FinishHook, FailHook, Types, WorkTypes, Todo
  <2>2. streams' # << >>
    <3>1. CASE Charge(a)
      BY <2>1, <3>1 DEF Charge, Types, StreamTypes, Busy
    <3>2. CASE StartHook(a) \/ FinishHook(a) \/ FailHook(a)
      <4>1. \E type : Hooked(type, a)
        BY <2>1, <3>2, HookEmitted DEF StartHook, FinishHook, FailHook, Busy
      <4> QED
        BY <4>1 DEF Hooked, OpBecomes
    <3> QED
      BY <1>4, <3>1, <3>2
  <2>3. ASSUME job.applies = 0 PROVE Live' \subseteq Live
    <3>1. job.kind = "destroy"
      BY <2>1, <2>3 DEF OwnWork, Types, JobTypes, Jobs
    <3>2. Head(todo[a]) = "delete"
      <4>1. todo[a] = <<"delete">>
        BY <2>1, <3>1 DEF OwnWork
      <4> QED
        BY <4>1
    <3>3. estate' = estate \/ estate' = [estate EXCEPT ![a] = "gone"]
      BY <1>4, <3>2 DEF StartHook, Charge, FinishHook, FailHook, Effect, Goes
    <3> QED
      BY <3>3 DEF Live, Types, EstateTypes
  <2> QED
    BY <2>1, <2>2, <2>3 DEF Bare
<1>5. CASE Quiet
  <2>1. estate' = estate /\ job'.kind = job.kind /\ job'.applies = job.applies /\ Len(streams') = Len(streams)
    BY <1>5 DEF Quiet, SameJob, SameRecords
  <2>2. Live' = Live /\ (streams' = << >> => streams = << >>)
    BY <1>1, <2>1 DEF Live
  <2> QED
    BY <2>1, <2>2 DEF Bare
<1> QED
  BY <1>2, <1>3, <1>4, <1>5, StepCases

\* What an invocation of an apply owes.
LEMMA OpenWork ==
  ASSUME Types, Bare, FirstMakes, Invoke
  PROVE  \E work \in [Resources -> Owes] :
           /\ Open(work) /\ job.phase = "ready" /\ job.kind \in {"apply", "destroy"}
           /\ job.kind = "destroy" => \A a \in Resources : work[a] \in {<< >>, <<"delete">>}
           /\ job.kind = "apply" => \/ streams = << >> /\ \A a \in Resources : work[a] = <<"create">>
                                    \/ Len(streams) = 1 /\ \A a \in Resources : MadeAtFirst(a)
<1>1. PICK work \in [Resources -> Owes] :
        /\ Open(work) /\ job.phase = "ready" /\ job.kind \in {"apply", "destroy"}
        /\ \A a \in Resources :
             IF job.kind = "apply" THEN work[a] = Owed(a)
             ELSE work[a] = << >> \/ (a \in Live /\ work[a] = <<"delete">>)
  BY Opens
<1>2. job.kind = "apply" => streams = << >> \/ Len(streams) = 1
  BY DEF Invoke, InvokeApply, InvokeRollback, InvokeDestroyAlb, InvokeDestroy
<1>3. job.kind = "apply" /\ streams = << >> => \A a \in Resources : work[a] = <<"create">>
  BY <1>1 DEF Bare, Live, Owed, Types, EstateTypes
<1>4. ASSUME job.kind = "apply", streams # << >> PROVE \A a \in Resources : MadeAtFirst(a)
  <2>1. Todo = {} /\ ~HalfMade
    BY <1>1 DEF Types, WorkTypes, Busy, HalfMade
  <2> QED
    BY <1>4, <2>1 DEF FirstMakes
<1> QED
  BY <1>1, <1>2, <1>3, <1>4

LEMMA OwnWorkStep ==
  ASSUME Types, Bare, FirstMakes, OwnWork, [Next]_vars
  PROVE  OwnWork'
<1>1. job.applies \in Nat /\ Len(streams) \in Nat
  BY StreamsCount, ReportAssumption DEF Types, JobTypes, Jobs
<1>2. ASSUME NEW kind \in {"apply", "destroy"}, Begin(kind) PROVE OwnWork'
  <2>1. /\ job'.kind = kind /\ job'.phase = "ready" /\ todo' = todo
        /\ job'.applies = job.applies + (IF kind = "apply" THEN 1 ELSE 0) /\ Todo = {}
    BY <1>2 DEF Begin, Types, WorkTypes, Busy
  <2>2. Todo' = {}
    BY <2>1 DEF Todo
  <2> QED
    BY <1>1, <2>1, <2>2 DEF OwnWork
<1>3. CASE Invoke
  <2>1. PICK work \in [Resources -> Owes] :
           /\ Open(work) /\ job.phase = "ready" /\ job.kind \in {"apply", "destroy"}
           /\ job.kind = "destroy" => \A a \in Resources : work[a] \in {<< >>, <<"delete">>}
           /\ job.kind = "apply" => \/ streams = << >> /\ \A a \in Resources : work[a] = <<"create">>
                                    \/ Len(streams) = 1 /\ \A a \in Resources : MadeAtFirst(a)
    BY <1>3, OpenWork
  <2>2. /\ job'.kind = job.kind /\ job'.applies = job.applies /\ job'.phase = "planning" /\ todo' = work
        /\ Len(streams') = Len(streams) + 1
    BY <2>1, OpenedStreams DEF Open, Types, JobTypes, Jobs
  <2>3. job.kind = "destroy" => \A a \in Todo' : todo'[a] = <<"delete">>
    BY <2>1, <2>2 DEF Todo
  <2>4. Len(streams') = 1 => Len(streams) # 1
    BY <1>1, <2>2
  <2>5. job.kind = "apply" /\ Len(streams') = 1 => \A a \in Todo' : todo'[a] = <<"create">>
    BY <2>1, <2>2, <2>4 DEF Todo
  <2> QED
    BY <2>2, <2>3, <2>5 DEF OwnWork
<1>4. ASSUME NEW a \in Resources, StartHook(a) \/ FinishHook(a) \/ FailHook(a) PROVE OwnWork'
  <2>1. a \in Todo /\ Busy /\ job' = job /\ job.phase = "working"
    BY <1>4 DEF StartHook, FinishHook, FailHook, Types, WorkTypes, Todo, Busy
  <2>2. PICK type : Hooked(type, a)
    BY <1>4, <2>1, HookEmitted DEF StartHook, FinishHook, FailHook
  <2>3. Len(streams') = Len(streams) /\ Summed' = Summed
    BY <2>2 DEF Hooked, OpBecomes, Summed
  <2>4. \A b \in Todo' : b \in Todo /\ (b # a => todo'[b] = todo[b])
    BY <1>4 DEF StartHook, FinishHook, FailHook, Todo, Types, WorkTypes
  <2>5. ~Summed
    BY <2>1 DEF OwnWork
  <2>6. ASSUME a \in Todo', NEW verb, todo[a] = <<verb>> PROVE todo'[a] = <<verb>>
    <3>1. CASE StartHook(a)
      BY <2>6, <3>1 DEF StartHook
    <3>2. CASE FinishHook(a) \/ FailHook(a)
      <4>1. Tail(todo[a]) = << >>
        BY <2>6
      <4>2. todo'[a] = << >>
        BY <3>2, <4>1 DEF FinishHook, FailHook, Types, WorkTypes
      <4> QED
        BY <2>6, <4>2 DEF Todo
    <3> QED
      BY <1>4, <3>1, <3>2
  <2> QED
    BY <2>1, <2>3, <2>4, <2>5, <2>6 DEF OwnWork
<1>5. ASSUME NEW a \in Resources, Charge(a) PROVE OwnWork'
  <2>1. UNCHANGED <<job, todo, streams>>
    BY <1>5 DEF Charge
  <2>2. Todo' = Todo /\ Summed' = Summed
    BY <2>1 DEF Todo, Summed, Written
  <2> QED
    BY <2>1, <2>2 DEF OwnWork
<1>6. CASE Sidesteps
  <2>0. Quiet
    BY <1>6, QuietSteps DEF Sidesteps
  <2>1. /\ job'.kind = job.kind /\ job'.applies = job.applies /\ Len(streams') = Len(streams)
        /\ UNCHANGED todo \/ Todo' = {}
    BY <2>0 DEF Quiet, SameJob, SameRecords
  <2>2. \A b \in Todo' : b \in Todo /\ todo'[b] = todo[b]
    BY <2>1 DEF Todo
  <2>3. ASSUME job'.phase = "working", Summed' PROVE Todo' = {}
    <3>1. CASE Announcing
      <4>1. \E op \in Ops : OpBecomes(op) /\ ~op.terminal
        BY <3>1, AnnounceReads
      <4> QED
        BY <2>3, <4>1 DEF OpBecomes, Summed
    <3>2. CASE Summarise
      BY <3>2 DEF Summarise, Todo
    <3>3. CASE Return \/ Finish \/ Cancel \/ LoseRunner \/ PublishTimeline \/ PublishNodes
               \/ PublishAnchor \/ PublishCost
      <4>1. job'.phase # "working"
        BY <3>3 DEF Return, Finish, Cancel, LoseRunner, PublishTimeline, PublishNodes, PublishAnchor,
                    PublishCost, Skip, Put, Types, JobTypes, Jobs
      <4> QED
        BY <2>3, <4>1
    <3>4. CASE Watch \/ UNCHANGED vars
      BY <2>2, <2>3, <3>4 DEF OwnWork, Summed, Written, Watch, vars
    <3> QED
      BY <1>6, <3>1, <3>2, <3>3, <3>4 DEF Sidesteps
  <2> QED
    BY <2>1, <2>2, <2>3 DEF OwnWork
<1> QED
  BY <1>2, <1>3, <1>4, <1>5, <1>6, StepKinds

LEMMA FirstMakesStep ==
  ASSUME Types, Bare, OwnWork, FirstMakes, [Next]_vars
  PROVE  FirstMakes'
<1>1. Len(streams) \in Nat /\ (streams # << >> => 1 \in 1..Len(streams))
  BY StreamsCount
<1>2. ASSUME NEW kind \in {"apply", "destroy"}, Begin(kind) PROVE FirstMakes'
  BY <1>2 DEF Begin, FirstMakes
<1>3. CASE Invoke
  <2>1. PICK work \in [Resources -> Owes] :
           /\ Open(work) /\ job.phase = "ready" /\ job.kind \in {"apply", "destroy"}
           /\ job.kind = "apply" => \/ streams = << >> /\ \A a \in Resources : work[a] = <<"create">>
                                    \/ Len(streams) = 1 /\ \A a \in Resources : MadeAtFirst(a)
    BY <1>3, OpenWork
  <2>2. /\ job'.kind = job.kind /\ todo' = work /\ Len(streams') = Len(streams) + 1
        /\ \A i \in 1..Len(streams) : streams'[i] = streams[i]
    BY <2>1, OpenedStreams DEF Open, Types, JobTypes, Jobs
  <2>3. CASE job.kind = "apply" /\ streams = << >>
    <3>1. Len(streams') = 1
      BY <2>2, <2>3
    <3>2. \A a \in Resources : a \in Todo'
      BY <2>1, <2>2, <2>3 DEF Todo
    <3> QED
      BY <3>1, <3>2 DEF FirstMakes
  <2>4. CASE job.kind = "apply" /\ streams # << >>
    <3>1. streams'[1] = streams[1]
      BY <1>1, <2>2, <2>4
    <3>2. \A a \in Resources : MadeAtFirst(a)'
      BY <2>1, <2>4, <3>1 DEF MadeAtFirst, Has, Rec
    <3> QED
      BY <3>2 DEF FirstMakes
  <2> QED
    BY <2>2, <2>3, <2>4 DEF FirstMakes
<1>4. ASSUME NEW a \in Resources, StartHook(a) \/ FinishHook(a) \/ FailHook(a) PROVE FirstMakes'
  <2>1. a \in Todo /\ Busy /\ job' = job /\ streams # << >>
    BY <1>4 DEF StartHook, FinishHook, FailHook, Types, WorkTypes, StreamTypes, Todo, Busy
  <2>2. PICK type : Hooked(type, a)
    BY <1>4, <2>1, HookEmitted DEF StartHook, FinishHook, FailHook
  <2>3. \A b \in Resources \ {a} : todo'[b] = todo[b]
    BY <1>4 DEF StartHook, FinishHook, FailHook, Types, WorkTypes
  <2>4. Len(streams') = Len(streams)
    BY <2>1, <2>2, HookedRecords
  <2> SUFFICES ASSUME job.kind = "apply", NEW b \in Resources
               PROVE  MadeAtFirst(b)' \/ (Len(streams) = 1 /\ b \in Todo')
    BY <2>1, <2>4 DEF FirstMakes
  <2>5. MadeAtFirst(b) \/ (Len(streams) = 1 /\ b \in Todo)
    BY <2>1 DEF FirstMakes, HalfMade
  <2>6. CASE b = a /\ Len(streams) = 1
    <3>1. Has(1, a)' /\ Rec(1, a)'.action = Head(todo[a])
      BY <2>1, <2>2, <2>6, HookedRecords
    <3>2. todo[a] = <<"create">>
      BY <2>1, <2>6 DEF OwnWork
    <3>3. Head(todo[a]) = "create"
      BY <3>2
    <3> QED
      BY <2>6, <3>1, <3>3 DEF MadeAtFirst
  <2>7. CASE b # a \/ Len(streams) # 1
    <3>1. (Has(1, b)' <=> Has(1, b)) /\ (Has(1, b) => Rec(1, b)' = Rec(1, b))
      BY <1>1, <2>1, <2>2, <2>7, HookedRecords
    <3>2. Len(streams) = 1 /\ b \in Todo => b \in Todo'
      BY <2>3, <2>7 DEF Todo
    <3> QED
      BY <2>5, <3>1, <3>2 DEF MadeAtFirst
  <2> QED
    BY <2>6, <2>7
<1>5. ASSUME NEW a \in Resources, Charge(a) PROVE FirstMakes'
  <2>1. UNCHANGED <<job, todo, streams>>
    BY <1>5 DEF Charge
  <2>2. Todo' = Todo /\ HalfMade' = HalfMade /\ \A b \in Resources : MadeAtFirst(b)' = MadeAtFirst(b)
    BY <2>1 DEF Todo, HalfMade, Busy, MadeAtFirst, Has, Rec
  <2> QED
    BY <2>1, <2>2 DEF FirstMakes
<1>6. CASE Sidesteps
  <2>1. Quiet
    BY <1>6, QuietSteps DEF Sidesteps
  <2>2. /\ job'.kind = job.kind /\ Len(streams') = Len(streams)
        /\ UNCHANGED todo \/ Todo' = {}
    BY <2>1 DEF Quiet, SameJob, SameRecords
  <2>3. ASSUME streams # << >>, NEW a \in Resources, MadeAtFirst(a) PROVE MadeAtFirst(a)'
    BY <1>1, <2>1, <2>3 DEF Quiet, SameRecords, MadeAtFirst
  <2> SUFFICES ASSUME job.kind = "apply", streams # << >>
               PROVE  HalfMade' \/ \A a \in Resources : MadeAtFirst(a)' \/ (Len(streams') = 1 /\ a \in Todo')
    BY <1>1, <2>2 DEF FirstMakes
  <2>4. CASE HalfMade
    <3>1. ~(Announcing \/ Summarise \/ Return \/ Finish \/ Cancel \/ Watch)
      BY <2>4, AnnounceReads DEF HalfMade, Busy, Summarise, Return, Finish, Cancel, Watch
    <3>2. /\ streams' = streams
          /\ job'.phase = job.phase \/ job'.phase \in {"idle", "nodes", "anchor", "cost"}
      BY <1>6, <3>1 DEF Sidesteps, LoseRunner, PublishTimeline, PublishNodes, PublishAnchor, PublishCost,
                        Skip, Put, vars, Types, JobTypes, Jobs
    <3> QED
      BY <2>4, <3>2 DEF HalfMade, Busy
  <2>5. CASE ~HalfMade /\ (UNCHANGED todo \/ Todo = {})
    <3>1. \A a \in Resources : a \in Todo => a \in Todo'
      BY <2>5 DEF Todo
    <3>2. \A a \in Resources : MadeAtFirst(a) \/ (Len(streams) = 1 /\ a \in Todo)
      BY <2>5 DEF FirstMakes
    <3> QED
      BY <2>2, <2>3, <3>1, <3>2
  <2>6. CASE ~HalfMade /\ ~UNCHANGED todo /\ Todo # {}
    <3>1. \A a \in Resources : MadeAtFirst(a) \/ (Len(streams) = 1 /\ a \in Todo)
      BY <2>6 DEF FirstMakes
    <3>2. Busy
      BY <2>6 DEF Types, WorkTypes
    <3>3. Return \/ Cancel
      BY <1>6, <2>6, AnnounceReads DEF Sidesteps, Summarise, Finish, Watch, LoseRunner, PublishTimeline, PublishNodes,
                        PublishAnchor, PublishCost, Skip, Put, vars
    <3>4. \E rc \in {1, None, Torn} : OpClosed(rc) /\ job'.phase = "report"
      <4>1. CASE Return
        <5>1. ~Summed /\ Erred
          BY <2>6, <4>1 DEF OwnWork, Return
        <5> QED
          BY <4>1, <5>1, ReturnCloses DEF Return, Types, JobTypes, Jobs
      <4>2. CASE Cancel
        BY <3>2, <4>2, CancelCloses DEF Cancel, Busy, Types, JobTypes, Jobs
      <4> QED
        BY <3>3, <4>1, <4>2
    <3>5. streams'[Len(streams)].rc # 0 /\ job'.phase = "report"
      BY <3>4 DEF OpClosed, None, Torn
    <3>6. CASE Len(streams) = 1
      BY <2>2, <3>5, <3>6 DEF HalfMade, Busy
    <3>7. CASE Len(streams) # 1
      BY <2>3, <3>1, <3>7
    <3> QED
      BY <3>6, <3>7
  <2> QED
    BY <2>2, <2>4, <2>5, <2>6
<1> QED
  BY <1>2, <1>3, <1>4, <1>5, <1>6, StepKinds

\* The streams of a step that reads no event of a data source.
LEMMA DataKept ==
  ASSUME DataIsRead, Len(streams') = Len(streams),
         \A i \in 1..Len(streams), d \in DataSources :
           Has(i, d)' => Has(i, d) /\ Rec(i, d)' = Rec(i, d)
  PROVE  DataIsRead'
BY DEF DataIsRead

LEMMA SidestepsDataIsRead ==
  ASSUME Types, DataIsRead, Sidesteps
  PROVE  DataIsRead'
<1>1. CASE Announcing
  <2>1. PICK op \in Ops : OpBecomes(op) /\ \A d \in DOMAIN op.resources : op.resources[d].action = "read"
    BY <1>1, AnnounceReads
  <2>2. streams'[Len(streams)].op = op /\ Len(streams') = Len(streams)
    BY <2>1 DEF OpBecomes, Written
  <2>3. \A i \in 1..Len(streams) : i # Len(streams) => streams'[i].op = streams[i].op
    BY <2>1 DEF OpBecomes
  <2> SUFFICES ASSUME NEW i \in 1..Len(streams), NEW d \in DataSources, Has(i, d)'
               PROVE  Rec(i, d)'.action = "read"
    BY <2>2 DEF DataIsRead
  <2>4. CASE i = Len(streams)
    BY <2>1, <2>2, <2>4 DEF Has, Rec
  <2>5. CASE i # Len(streams)
    BY <2>3, <2>5 DEF DataIsRead, Has, Rec
  <2> QED
    BY <2>4, <2>5
<1>2. CASE Summarise
  <2>1. PICK op \in Ops : OpBecomes(op) /\ op.resources = Written.resources
    BY <1>2, SummariseReads
  <2>2. Len(streams') = Len(streams) /\ \A i \in 1..Len(streams) : streams'[i].op.resources = streams[i].op.resources
    BY <2>1 DEF OpBecomes, Written
  <2> QED
    BY <2>2, DataKept DEF Has, Rec
<1>3. ASSUME NEW rc, OpClosed(rc) PROVE DataIsRead'
  BY <1>3, DataKept DEF OpClosed, Has, Rec
<1>4. CASE streams' = streams
  BY <1>4 DEF DataIsRead, Has, Rec
<1>5. CASE Return
  BY <1>3, <1>5, ReturnCloses
<1>6. CASE Cancel
  BY <1>3, <1>4, <1>6, CancelCloses DEF Cancel
<1>7. CASE Finish \/ Watch \/ LoseRunner \/ PublishTimeline \/ PublishNodes \/ PublishAnchor
           \/ PublishCost \/ UNCHANGED vars
  BY <1>4, <1>7 DEF Finish, Watch, LoseRunner, PublishTimeline, PublishNodes, PublishAnchor, PublishCost,
                    Skip, Put, vars
<1> QED
  BY <1>1, <1>2, <1>5, <1>6, <1>7 DEF Sidesteps

LEMMA DataIsReadStep ==
  ASSUME Types, DataIsRead, [Next]_vars
  PROVE  DataIsRead'
<1>1. ASSUME NEW kind \in {"apply", "destroy"}, Begin(kind) PROVE DataIsRead'
  <2>1. 1..Len(streams') = {}
    BY <1>1 DEF Begin
  <2> QED
    BY <2>1 DEF DataIsRead
<1>2. CASE Invoke
  <2>1. PICK work : Open(work)
    BY <1>2, Opens
  <2>2. /\ Len(streams') = Len(streams) + 1 /\ Len(streams) \in Nat
        /\ \A i \in 1..Len(streams) : streams'[i] = streams[i]
        /\ \A i \in {Len(streams) + 1} : \A d : ~Has(i, d)'
    BY <2>1, OpenedStreams, StreamsCount
  <2> SUFFICES ASSUME NEW i \in 1..(Len(streams) + 1), NEW d \in DataSources, Has(i, d)'
               PROVE  Rec(i, d)'.action = "read"
    BY <2>2 DEF DataIsRead
  <2>3. i \in 1..Len(streams)
    BY <2>2
  <2> QED
    BY <2>2, <2>3 DEF DataIsRead, Has, Rec
<1>3. ASSUME NEW a \in Resources, StartHook(a) \/ FinishHook(a) \/ FailHook(a) PROVE DataIsRead'
  <2>1. a \in Todo /\ Busy
    BY <1>3 DEF StartHook, FinishHook, FailHook, Types, WorkTypes, Todo, Busy
  <2>2. \E type : Hooked(type, a)
    BY <1>3, <2>1, HookEmitted DEF StartHook, FinishHook, FailHook
  <2>3. PICK op : OpBecomes(op) /\ \E type : HookLeaves(Written.resources, type, a, Head(todo[a]), op.resources)
    BY <2>2 DEF Hooked
  <2>4. DOMAIN op.resources = DOMAIN Written.resources \cup {a}
        /\ \A b \in DOMAIN Written.resources \ {a} : op.resources[b] = Written.resources[b]
    BY <2>3 DEF HookLeaves
  <2>5. \A d \in DataSources : d # a
    BY ReportAssumption
  <2>6. streams'[Len(streams)].op = op /\ streams[Len(streams)].op = Written /\ Len(streams') = Len(streams)
    BY <2>3 DEF OpBecomes, Written
  <2>7. \A i \in 1..Len(streams) : i # Len(streams) => streams'[i].op = streams[i].op
    BY <2>3 DEF OpBecomes
  <2>8. ASSUME NEW i \in 1..Len(streams), NEW d \in DataSources, Has(i, d)'
        PROVE  Has(i, d) /\ Rec(i, d)' = Rec(i, d)
    <3>1. CASE i = Len(streams)
      BY <2>4, <2>5, <2>6, <2>8, <3>1 DEF Has, Rec
    <3>2. CASE i # Len(streams)
      BY <2>7, <2>8, <3>2 DEF Has, Rec
    <3> QED
      BY <3>1, <3>2
  <2> QED
    BY <2>6, <2>8, DataKept
<1>4. ASSUME NEW a \in Resources, Charge(a) PROVE DataIsRead'
  BY <1>4 DEF Charge, DataIsRead, Has, Rec
<1> QED
  BY <1>1, <1>2, <1>3, <1>4, SidestepsDataIsRead, StepKinds

LEMMA AnchorWholeStep ==
  ASSUME Types, Reporting, FirstMakes, AnchorWhole, [Next]_vars
  PROVE  AnchorWhole'
<1>1. CASE PublishAnchor
  <2>1. site'.anchor = TimelineNow /\ job.phase = "anchor"
    BY <1>1 DEF PublishAnchor, Put, Types, Fields
  <2>2. job.kind = "apply" /\ TimelineNow.status = "complete"
    BY <2>1 DEF Reporting
  <2>3. streams # << >> /\ streams[Len(streams)].rc = 0 /\ 1 \in 1..Len(streams)
    BY <2>2, CompleteReturned, StreamsCount
  <2>4. ~HalfMade /\ Todo = {}
    BY <2>1, <2>3 DEF HalfMade, Types, WorkTypes, Busy
  <2>5. \A a \in Resources : MadeAtFirst(a)
    BY <2>2, <2>3, <2>4 DEF FirstMakes
  <2>6. \A a \in Resources : a \in DOMAIN Created(TimelineNow)
    BY <2>3, <2>5, Recorded DEF MadeAtFirst, Created
  <2>7. Created(site.anchor)' = Created(TimelineNow)
    BY <2>1
  <2> QED
    BY <2>6, <2>7 DEF AnchorWhole
<1>2. CASE site'.anchor = site.anchor
  <2>1. Created(site.anchor)' = Created(site.anchor)
    BY <1>2
  <2> QED
    BY <1>2, <2>1 DEF AnchorWhole
<1>3. PublishTimeline \/ PublishNodes \/ PublishCost => site'.anchor = site.anchor
  BY DEF PublishTimeline, PublishNodes, PublishCost, Put, Skip, Types, Fields
<1> QED
  BY <1>1, <1>2, <1>3, PublishCases DEF Begin, vars

\* Everything a teardown that finished removed, and that costs money, is in
\* the document that prices it: an apply that is published whole made every
\* resource, and only what was made is removed.  Proved of every estate, cost
\* model and number of teardowns, whatever was rolled back, refused, cancelled
\* or lost, when the environment is applied once.
THEOREM RemovedIsPriced ==
  ASSUME OneApply
  PROVE  Spec => []NothingGoesUnpriced
<1>1. Init => Ours /\ Reporting /\ Costed /\ Bare /\ OwnWork /\ FirstMakes /\ DataIsRead /\ AnchorWhole
  <2> SUFFICES ASSUME Init
               PROVE  Ours /\ Reporting /\ Costed /\ Bare /\ OwnWork /\ FirstMakes /\ DataIsRead /\ AnchorWhole
    OBVIOUS
  <2>1. 1..Len(streams) = {} /\ Todo = {} /\ Live = {}
    BY DEF Init, Todo, Live
  <2> QED
    BY <2>1 DEF Init, Ours, Reporting, Costed, Bare, OwnWork, FirstMakes, DataIsRead, AnchorWhole, Fields
<1>2. Types /\ Ours /\ Costed /\ DataIsRead /\ AnchorWhole => NothingGoesUnpriced
  <2> SUFFICES ASSUME Types, Ours, Costed, DataIsRead, AnchorWhole, PricedCycle, site.cost.status = "closed",
                      NEW a \in DOMAIN Deleted(site.latest), Kind[a] \in DOMAIN CostModel.priced
               PROVE  a \in DOMAIN site.cost.rows
    BY DEF NothingGoesUnpriced
  <2> DEFINE closed == job.kind = "destroy"
             doc == Price(Environment, Made, closed, TimelineNow, clock)
  <2>1. streams # << >> /\ site.latest = TimelineNow /\ site.cost = doc /\ Made # NoDoc
    BY DEF PricedCycle, Priced, Costed, CostRun
  <2>2. closed
    BY <2>1 DEF Price
  <2>3. Made = site.anchor
    BY <2>2 DEF Made
  <2>4. PICK i \in 1..Len(streams) : Has(i, a) /\ Rec(i, a).action = "delete"
    BY <2>1, Recorded DEF Deleted
  <2>5. a \in Addresses
    <3>1. streams[i] \in Stream
      BY DEF Types, StreamTypes
    <3>2. streams[i].op.resources \in Partial(Addresses, Record)
      BY <3>1 DEF Stream, Ops
    <3> QED
      BY <2>4, <3>2 DEF Partial, Has
  <2>6. a \in Resources
    BY <2>4, <2>5 DEF DataIsRead, Addresses
  <2>7. a \in DOMAIN Created(Made)
    BY <2>1, <2>3, <2>6 DEF AnchorWhole
  <2>8. Metering(Kind[a]) = "priced"
    BY CostAssumption DEF Metering
  <2>9. a \in DOMAIN doc.rows
    BY <2>7, <2>8 DEF Price
  <2> HIDE DEF doc
  <2> QED
    BY <2>1, <2>9
<1>3. Types /\ Ours /\ [Next]_vars => Ours'
  BY OursStep
<1>4. Types /\ Ours /\ Reporting /\ [Next]_vars => Reporting'
  BY ReportingStep
<1>5. Types /\ Reporting /\ Costed /\ [Next]_vars => Costed'
  BY CostedStep
<1>6. Types /\ OwnWork /\ Bare /\ [Next]_vars => Bare'
  BY BareStep
<1>7. Types /\ Bare /\ FirstMakes /\ OwnWork /\ [Next]_vars => OwnWork' /\ FirstMakes'
  BY OwnWorkStep, FirstMakesStep
<1>8. Types /\ DataIsRead /\ [Next]_vars => DataIsRead'
  BY DataIsReadStep
<1>9. Types /\ Reporting /\ FirstMakes /\ AnchorWhole /\ [Next]_vars => AnchorWhole'
  BY AnchorWholeStep
<1> QED
  BY <1>1, <1>2, <1>3, <1>4, <1>5, <1>6, <1>7, <1>8, <1>9, InitTypes, TypesStep, PTL DEF Spec

-----------------------------------------------------------------------------
(* What was read of a job says no more than what happened                  *)

\* The plan of the i-th operation of this job, as far as it was read.
Plans(i, a) == a \in DOMAIN streams[i].op.planned
Plan(i, a) == streams[i].op.planned[a]

\* The i-th operation says that it has done with a what the job is about.
DoneAt(i, a) == Has(i, a) /\ Rec(i, a).action = Verb /\ Rec(i, a).status = "complete"

\* A job has two operations at most, and the one it is in has not returned.
Few == Len(streams) <= 2 /\ (Busy => streams[Len(streams)].rc = None)
\* What is owed is what the job is about or, in an apply, a replacement.
OneVerb == \A a \in Todo :
  todo[a] = <<Verb>> \/ (job.kind = "apply" /\ todo[a] = <<"delete", "create">>)
PlansAreOwed ==
  /\ \A i \in 1..Len(streams), a \in Resources : Plans(i, a) =>
       Plan(i, a) \in (IF job.kind = "apply" THEN {"create", "replace"} ELSE {"delete"})
  /\ job.phase = "working" =>
       /\ Written.reached # "nothing"
       /\ \A a \in Todo : /\ Plans(Len(streams), a)
                          /\ todo[a] = <<"delete", "create">> => Plan(Len(streams), a) = "replace"
RecordsArePlanned ==
  \A i \in 1..Len(streams), a \in Resources : Has(i, a) =>
    /\ Plans(i, a)
    /\ Rec(i, a).action # Verb =>
         job.kind = "apply" /\ Rec(i, a).action = "delete" /\ Plan(i, a) = "replace"
\* What the last operation says is done is so, or is just being replaced; what
\* any operation of a teardown says it removed is gone.
CompleteIsSo == streams # << >> => \A a \in Resources :
  DoneAt(Len(streams), a) => (a \notin Todo /\ estate[a] = Goal) \/ Replacing(a)
GoneIsGone == job.kind = "destroy" => \A i \in 1..Len(streams), a \in Resources :
  DoneAt(i, a) => estate[a] = "gone"
\* No hook has run before the plan was read to its end; from there on the last
\* plan of a job names all that is not yet where the job is going.
Reaches == streams # << >> =>
  /\ Written.reached = "nothing" =>
       /\ \A a \in Resources : ~Has(Len(streams), a)
       /\ job.kind = "apply" /\ Len(streams) = 2 => \A a \in Resources : estate[a] = Goal
  /\ AllRun /\ job.phase = "planning" => \A a \in Resources : estate[a] = Goal \/ a \in Todo
  /\ AllRun /\ Written.reached # "nothing" =>
       \A a \in Resources : estate[a] = Goal \/ Plans(Len(streams), a)

Told == /\ Few /\ OneVerb /\ PlansAreOwed /\ RecordsArePlanned /\ CompleteIsSo
        /\ GoneIsGone /\ Reaches

SamePlans == \A i \in 1..Len(streams), a \in Resources :
  (Plans(i, a)' <=> Plans(i, a)) /\ (Plans(i, a) => Plan(i, a)' = Plan(i, a))

LEMMA InitTold == Init => Told
<1> SUFFICES ASSUME Init PROVE Told
  OBVIOUS
<1>1. streams = << >> /\ Todo = {} /\ ~Busy /\ job.phase = "idle" /\ Len(streams) = 0
  BY DEF Init, Todo, Busy
<1>2. 1..Len(streams) = {}
  BY <1>1
<1> QED
  BY <1>1, <1>2 DEF Told, Few, OneVerb, PlansAreOwed, RecordsArePlanned, CompleteIsSo, GoneIsGone, Reaches

LEMMA BeginTold ==
  ASSUME Types, NEW kind, Begin(kind)
  PROVE  Told'
<1>1. streams' = << >> /\ job'.phase = "ready" /\ todo' = todo /\ Todo = {}
  BY DEF Begin, Types, WorkTypes, Busy
<1>2. Todo' = {} /\ ~Busy' /\ Len(streams') = 0
  BY <1>1 DEF Todo, Busy
<1>3. 1..Len(streams') = {}
  BY <1>2
<1> QED
  BY <1>1, <1>2, <1>3 DEF Told, Few, OneVerb, PlansAreOwed, RecordsArePlanned, CompleteIsSo, GoneIsGone, Reaches

\* An operation is begun by a job that ran one at most.
LEMMA OpenTold ==
  ASSUME Types, Course, Told, Invoke
  PROVE  Told'
<1>1. PICK work \in [Resources -> Owes] :
        /\ Open(work) /\ job.phase = "ready" /\ job.kind \in {"apply", "destroy"} /\ Len(streams) <= 1
        /\ \/ job.kind = "apply" /\ work = [a \in Resources |-> Owed(a)]
           \/ /\ job.kind = "destroy" /\ AlbFirst # {} /\ streams = << >>
              /\ work = [a \in Resources |-> IF a \in AlbFirst \cap Live THEN <<"delete">> ELSE << >>]
           \/ job.kind = "destroy" /\ work = [a \in Resources |-> IF a \in Live THEN <<"delete">> ELSE << >>]
  <2>1. streams = << >> => Len(streams) <= 1
    OBVIOUS
  <2>2. CASE InvokeApply \/ InvokeRollback
    <3> DEFINE work == [a \in Resources |-> Owed(a)]
    <3>1. job.kind = "apply" /\ job.phase = "ready" /\ Len(streams) <= 1 /\ Open(work)
      <4>1. CASE InvokeApply
        BY <2>1, <4>1 DEF InvokeApply
      <4>2. CASE InvokeRollback
        BY <4>2 DEF InvokeRollback
      <4> QED
        BY <2>2, <4>1, <4>2
    <3>2. work \in [Resources -> Owes] /\ work = [a \in Resources |-> Owed(a)]
      BY OwedWork
    <3> HIDE DEF work
    <3> QED
      BY <3>1, <3>2
  <2>3. CASE InvokeDestroyAlb
    BY <2>1, <2>3, OwedWork DEF InvokeDestroyAlb
  <2>4. CASE InvokeDestroy
    BY <2>4, OwedWork DEF InvokeDestroy
  <2> QED
    BY <2>2, <2>3, <2>4 DEF Invoke
<1> DEFINE new == Len(streams) + 1
<1>2. /\ Len(streams') = new /\ new \in {1, 2} /\ streams' # << >> /\ Len(streams) \in Nat
      /\ Written' = Unread /\ todo' = work
      /\ job'.phase = "planning" /\ job'.kind = job.kind /\ estate' = estate
  BY <1>1, OpenTypes, StreamsCount DEF Open
<1>3. /\ \A i \in 1..Len(streams) : streams'[i] = streams[i]
      /\ \A i \in {new} : streams'[i].op = Unread
  <2>1. streams'[new].op = Unread
    BY <1>2 DEF Written
  <2> QED
    BY <1>1, <2>1, OpenedStreams
<1>4. Verb' = Verb /\ Goal' = Goal
  BY <1>2 DEF Verb, Goal
<1>5. \A i \in {new}, a \in Resources : ~Has(i, a)' /\ ~Plans(i, a)'
  BY <1>3 DEF Has, Plans, Unread
<1>6. \A i \in 1..Len(streams'), a \in Resources : Has(i, a)' \/ Plans(i, a)' => i \in 1..Len(streams)
  BY <1>2, <1>5
<1>7. \A i \in 1..Len(streams), a \in Resources :
        /\ (Has(i, a)' <=> Has(i, a)) /\ Rec(i, a)' = Rec(i, a)
        /\ (Plans(i, a)' <=> Plans(i, a)) /\ Plan(i, a)' = Plan(i, a)
  BY <1>3 DEF Has, Rec, Plans, Plan
<1>8. Few'
  <2>1. streams'[Len(streams')].rc = None
    BY <1>1, <1>2 DEF Open, Types, StreamTypes
  <2> QED
    BY <1>2, <2>1 DEF Few
<1>9. OneVerb'
  <2> SUFFICES ASSUME NEW a \in Resources, work[a] # << >>
               PROVE  work[a] = <<Verb>> \/ (job.kind = "apply" /\ work[a] = <<"delete", "create">>)
    BY <1>2, <1>4 DEF OneVerb, Todo
  <2> QED
    BY <1>1 DEF Owed, Verb
<1>10. PlansAreOwed'
  BY <1>2, <1>6, <1>7 DEF Told, PlansAreOwed
<1>11. RecordsArePlanned'
  BY <1>2, <1>4, <1>6, <1>7 DEF Told, RecordsArePlanned
<1>12. CompleteIsSo'
  BY <1>2, <1>5 DEF CompleteIsSo, DoneAt
<1>13. GoneIsGone'
  <2> SUFFICES ASSUME job.kind = "destroy", NEW i \in 1..Len(streams'), NEW a \in Resources, DoneAt(i, a)'
               PROVE  estate[a] = "gone"
    BY <1>2 DEF GoneIsGone
  <2>1. i \in 1..Len(streams) /\ DoneAt(i, a)
    BY <1>4, <1>6, <1>7 DEF DoneAt
  <2> QED
    BY <2>1 DEF Told, GoneIsGone
<1>14. Reaches'
  <2>1. \A a \in Resources : ~Has(Len(streams), a)'
    BY <1>2, <1>3 DEF Has, Unread
  <2>2. Written'.reached = "nothing"
    BY <1>2 DEF Unread
  <2>3. ASSUME job.kind = "apply", Len(streams') = 2 PROVE \A a \in Resources : estate[a] = Goal
    <3>1. Len(streams) = 1
      <4>1. \A n \in Nat : n + 1 = 2 => n = 1
        OBVIOUS
      <4> QED
        BY <1>2, <2>3, <4>1
    <3>2. streams # << >>
      BY <3>1
    <3>3. Aimed = Resources
      BY <2>3 DEF Aimed, AllRun
    <3> QED
      BY <1>1, <3>2, <3>3 DEF Course, Arrives, Busy
  <2>4. ASSUME AllRun', NEW a \in Resources PROVE estate[a] = Goal \/ a \in Todo'
    <3>1. estate[a] \in {"live", "gone"} /\ (a \in Todo' <=> work[a] # << >>)
      BY <1>2 DEF Types, EstateTypes, Todo
    <3>2. CASE job.kind = "apply"
      <4>1. work[a] = Owed(a)
        BY <1>1, <3>2
      <4>2. estate[a] = "gone" => Owed(a) # << >>
        BY DEF Owed
      <4> QED
        BY <3>1, <3>2, <4>1, <4>2 DEF Goal
    <3>3. CASE job.kind = "destroy"
      <4>1. ~(AlbFirst # {} /\ streams = << >>)
        BY <1>2, <2>4, <3>3 DEF AllRun
      <4> QED
        BY <1>1, <3>1, <3>3, <4>1 DEF Live, Goal
    <3> QED
      BY <1>1, <3>2, <3>3
  <2> QED
    BY <1>2, <1>4, <2>1, <2>2, <2>3, <2>4 DEF Reaches
<1> QED
  BY <1>8, <1>9, <1>10, <1>11, <1>12, <1>13, <1>14 DEF Told

\* A line of the announcement: the plan grows, no hook has run yet.
LEMMA AnnounceTold ==
  ASSUME Types, Told, Announcing
  PROVE  Told'
<1> DEFINE n == Len(streams)
<1>1. PICK op \in Ops :
        /\ OpBecomes(op)
        /\ DOMAIN op.planned \subseteq Todo
        /\ \A a \in DOMAIN op.planned : op.planned[a] = PlannedAction(a)
        /\ \/ job'.phase = "planning" /\ op.reached = "nothing"
           \/ job'.phase = "working" /\ op.reached # "nothing" /\ DOMAIN op.planned = Todo
  BY AnnounceReads
<1>2. /\ job.phase = "planning" /\ job'.kind = job.kind /\ UNCHANGED <<estate, todo, flight>>
      /\ streams # << >> /\ n \in Nat /\ Written.reached = "nothing"
  BY AnnounceReads, StreamsCount DEF Types, StreamTypes, Busy, PlanHeard
<1>3. SameRecords
  BY QuietSteps DEF Quiet
<1>4. Todo' = Todo /\ Verb' = Verb /\ Goal' = Goal /\ Len(streams') = n /\ (AllRun' <=> AllRun)
  BY <1>1, <1>2 DEF Todo, Verb, Goal, OpBecomes, AllRun
<1>5. Written' = op /\ streams'[n].op = op
  BY <1>1, <1>4 DEF OpBecomes, Written
<1>6. /\ \A i \in 1..n, a \in Resources : i # n => (Plans(i, a)' <=> Plans(i, a)) /\ Plan(i, a)' = Plan(i, a)
      /\ \A i \in {n}, a \in Resources : (Plans(i, a)' <=> a \in DOMAIN op.planned) /\ Plan(i, a)' = op.planned[a]
  BY <1>1, <1>5 DEF OpBecomes, Plans, Plan
<1>7. \A i \in {n}, a \in Resources : ~Has(i, a) /\ ~Has(i, a)'
  <2>1. DOMAIN Written.resources \subseteq DataSources
    BY <1>2 DEF Types, StreamTypes, PlanHeard
  <2>2. \A i \in {n}, a \in Resources : ~Has(i, a)
    BY <2>1, ReportAssumption DEF Has, Written
  <2>3. n \in 1..n
    BY <1>2
  <2> QED
    BY <1>3, <2>2, <2>3 DEF SameRecords
<1>8. \A a \in Todo : /\ a \in Resources
                      /\ PlannedAction(a) \in (IF job.kind = "apply" THEN {"create", "replace"} ELSE {"delete"})
                      /\ todo[a] = <<"delete", "create">> => PlannedAction(a) = "replace"
  <2> TAKE a \in Todo
  <2>1. a \in Resources /\ (todo[a] = <<Verb>> \/ (job.kind = "apply" /\ todo[a] = <<"delete", "create">>))
    BY DEF Told, OneVerb, Todo
  <2>2. CASE todo[a] = <<Verb>>
    <3>1. PlannedAction(a) = Verb
      BY <2>2 DEF PlannedAction
    <3>2. todo[a] # <<"delete", "create">>
      BY <2>2
    <3> QED
      BY <2>1, <3>1, <3>2 DEF Verb
  <2>3. CASE job.kind = "apply" /\ todo[a] = <<"delete", "create">>
    <3>1. PlannedAction(a) = "replace"
      BY <2>3 DEF PlannedAction
    <3> QED
      BY <2>1, <2>3, <3>1
  <2> QED
    BY <2>1, <2>2, <2>3
<1>9. Few'
  <2>1. streams'[n].rc = streams[n].rc /\ n \in 1..n
    BY <1>1, <1>2 DEF OpBecomes
  <2> QED
    BY <1>2, <1>4, <2>1 DEF Told, Few, Busy
<1>10. OneVerb'
  BY <1>2, <1>4 DEF Told, OneVerb
<1>11. PlansAreOwed'
  <2>1. ASSUME NEW i \in 1..n, NEW a \in Resources, Plans(i, a)'
        PROVE  Plan(i, a)' \in (IF job.kind = "apply" THEN {"create", "replace"} ELSE {"delete"})
    <3>1. CASE i # n
      BY <1>6, <2>1, <3>1 DEF Told, PlansAreOwed
    <3>2. CASE i = n
      BY <1>1, <1>6, <1>8, <2>1, <3>2
    <3> QED
      BY <3>1, <3>2
  <2>2. ASSUME job'.phase = "working"
        PROVE  /\ Written'.reached # "nothing"
               /\ \A i \in {n}, a \in Todo : /\ Plans(i, a)'
                                             /\ todo[a] = <<"delete", "create">> => Plan(i, a)' = "replace"
    BY <1>1, <1>5, <1>6, <1>8, <2>2
  <2> QED
    BY <1>2, <1>4, <2>1, <2>2 DEF PlansAreOwed
<1>12. RecordsArePlanned'
  <2> SUFFICES ASSUME NEW i \in 1..n, NEW a \in Resources, Has(i, a)'
               PROVE  /\ Plans(i, a)'
                      /\ Rec(i, a)'.action # Verb =>
                           job.kind = "apply" /\ Rec(i, a)'.action = "delete" /\ Plan(i, a)' = "replace"
    BY <1>2, <1>4 DEF RecordsArePlanned
  <2>1. i # n
    BY <1>7
  <2>2. Has(i, a) /\ Rec(i, a)' = Rec(i, a)
    BY <1>3 DEF SameRecords
  <2> QED
    BY <1>6, <2>1, <2>2 DEF Told, RecordsArePlanned
<1>13. CompleteIsSo'
  BY <1>4, <1>7 DEF CompleteIsSo, DoneAt
<1>14. GoneIsGone'
  BY <1>2, <1>3, <1>4 DEF Told, GoneIsGone, DoneAt, SameRecords
<1>15. Reaches'
  <2>1. ASSUME op.reached = "nothing"
        PROVE  /\ \A i \in {n}, a \in Resources : ~Has(i, a)'
               /\ job.kind = "apply" /\ n = 2 => \A a \in Resources : estate[a] = Goal
    BY <1>2, <1>7 DEF Told, Reaches
  <2>2. ASSUME AllRun PROVE \A a \in Resources : estate[a] = Goal \/ a \in Todo
    BY <1>2, <2>2 DEF Told, Reaches
  <2>3. ASSUME AllRun, op.reached # "nothing"
        PROVE  \A i \in {n}, a \in Resources : estate[a] = Goal \/ Plans(i, a)'
    BY <1>1, <1>6, <2>2, <2>3
  <2> QED
    BY <1>2, <1>4, <1>5, <2>1, <2>2, <2>3 DEF Reaches
<1> QED
  BY <1>9, <1>10, <1>11, <1>12, <1>13, <1>14, <1>15 DEF Told

\* A step that reads no more of what is planned or done, and owes nothing new.
Calm ==
  /\ SameRecords /\ SamePlans /\ job'.kind = job.kind /\ estate' = estate
  /\ Len(streams') = Len(streams) /\ (streams' # << >> => streams # << >>)
  /\ streams # << >> => (Written'.reached = "nothing" <=> Written.reached = "nothing")
  /\ todo' = todo \/ Todo' = {}
  /\ job'.phase \in {"planning", "working"} =>
       job'.phase = job.phase /\ todo' = todo /\ streams'[Len(streams)].rc = streams[Len(streams)].rc
  /\ \A a \in Resources : Replacing(a) => Replacing(a)'

LEMMA CalmTold ==
  ASSUME Types, Told, Calm
  PROVE  Told'
<1> DEFINE n == Len(streams)
<1>1. /\ SameRecords /\ SamePlans /\ job'.kind = job.kind /\ estate' = estate
      /\ Len(streams') = n /\ n \in Nat /\ (streams' # << >> => streams # << >> /\ n \in 1..n)
      /\ Verb' = Verb /\ Goal' = Goal /\ (AllRun' <=> AllRun)
  BY StreamsCount DEF Calm, Verb, Goal, AllRun
<1>2. Todo' \subseteq Todo /\ \A a \in Todo' : todo'[a] = todo[a]
  BY DEF Calm, Todo
<1>3. \A i \in 1..n, a \in Resources : (DoneAt(i, a)' <=> DoneAt(i, a)) /\ (Has(i, a)' <=> Has(i, a))
  BY <1>1 DEF DoneAt, SameRecords
<1>4. Few' /\ OneVerb'
  BY <1>1, <1>2 DEF Calm, Told, Few, Busy, OneVerb
<1>5. PlansAreOwed'
  <2>1. ASSUME job'.phase = "working"
        PROVE  /\ Written'.reached # "nothing"
               /\ \A i \in {n}, a \in Todo' : /\ Plans(i, a)'
                                              /\ todo'[a] = <<"delete", "create">> => Plan(i, a)' = "replace"
    <3>1. job.phase = "working" /\ todo' = todo /\ streams # << >> /\ n \in 1..n
      BY <2>1, StreamsCount DEF Calm, Types, StreamTypes, Busy
    <3> QED
      BY <1>1, <1>2, <3>1 DEF Calm, Told, PlansAreOwed, SamePlans, Todo
  <2> QED
    BY <1>1, <2>1 DEF Told, PlansAreOwed, SamePlans
<1>6. RecordsArePlanned'
  BY <1>1 DEF Told, RecordsArePlanned, SameRecords, SamePlans
<1>7. CompleteIsSo'
  <2> SUFFICES ASSUME streams' # << >>, NEW a \in Resources, \A i \in {n} : DoneAt(i, a)'
               PROVE  (a \notin Todo' /\ estate'[a] = Goal) \/ Replacing(a)'
    BY <1>1 DEF CompleteIsSo
  <2>1. n \in 1..n /\ streams # << >>
    BY <1>1
  <2>2. DoneAt(n, a)
    BY <1>3, <2>1
  <2> QED
    BY <1>1, <1>2, <2>1, <2>2 DEF Told, CompleteIsSo, Calm
<1>8. GoneIsGone'
  BY <1>1, <1>3 DEF Told, GoneIsGone
<1>9. Reaches'
  <2> SUFFICES ASSUME streams' # << >>
               PROVE  /\ Written'.reached = "nothing" =>
                           /\ \A i \in {n}, a \in Resources : ~Has(i, a)'
                           /\ job.kind = "apply" /\ n = 2 => \A a \in Resources : estate[a] = Goal
                      /\ AllRun /\ job'.phase = "planning" => \A a \in Resources : estate[a] = Goal \/ a \in Todo'
                      /\ AllRun /\ Written'.reached # "nothing" =>
                           \A i \in {n}, a \in Resources : estate[a] = Goal \/ Plans(i, a)'
    BY <1>1 DEF Reaches
  <2>1. streams # << >> /\ n \in 1..n /\ Reaches
    BY <1>1 DEF Told
  <2>2. Written'.reached = "nothing" <=> Written.reached = "nothing"
    BY <2>1 DEF Calm
  <2>3. job'.phase = "planning" => job.phase = "planning" /\ Todo' = Todo
    BY DEF Calm, Todo
  <2>4. \A i \in {n}, a \in Resources : (Has(i, a)' <=> Has(i, a)) /\ (Plans(i, a)' <=> Plans(i, a))
    BY <1>1, <1>3, <2>1 DEF SamePlans
  <2> QED
    BY <2>1, <2>2, <2>3, <2>4 DEF Reaches
<1> QED
  BY <1>4, <1>5, <1>6, <1>7, <1>8, <1>9 DEF Told

LEMMA SameStreamsCalm ==
  ASSUME streams' = streams, job'.kind = job.kind, estate' = estate,
         todo' = todo \/ Todo' = {},
         \/ job'.phase \notin {"planning", "working"}
         \/ job'.phase = job.phase /\ UNCHANGED <<todo, flight>>
  PROVE  Calm
<1>1. SameRecords /\ SamePlans
  BY UnchangedRecords DEF SamePlans, Plans, Plan
<1>2. \A a \in Resources : Replacing(a) => Replacing(a)'
  BY DEF Replacing, Written
<1> QED
  BY <1>1, <1>2 DEF Calm, Written

\* An operation that ends, by itself or cut short.
LEMMA ClosedIsCalm ==
  ASSUME Types, NEW rc, OpClosed(rc), job'.kind = job.kind, estate' = estate, Todo' = {},
         job'.phase \notin {"planning", "working"}, streams # << >>,
         rc \in {None, Torn} \/ (flight = {} /\ job.phase = "working")
  PROVE  Calm
<1>1. SameRecords /\ SamePlans /\ Len(streams') = Len(streams) /\ Written' = Written
  BY ClosedRecords DEF SamePlans, Plans, Plan, OpClosed
<1>2. \A a \in Resources : Replacing(a) => Replacing(a)'
  <2> SUFFICES ASSUME NEW a \in Resources, Replacing(a) PROVE Replacing(a)'
    OBVIOUS
  <2>1. rc \in {None, Torn}
    BY DEF Replacing
  <2>2. streams'[Len(streams')].rc \in {None, Torn}
    BY <1>1, <2>1 DEF OpClosed
  <2> QED
    BY <1>1, <2>2 DEF Replacing
<1> QED
  BY <1>1, <1>2 DEF Calm

LEMMA SidestepsCalm ==
  ASSUME Types, Told, Sidesteps
  PROVE  Announcing \/ Calm
<1>1. CASE Summarise
  <2>1. PICK op \in Ops : /\ OpBecomes(op) /\ op.reached # "nothing"
                          /\ op.resources = Written.resources /\ op.planned = Written.planned
    BY <1>1, SummariseReads
  <2>2. /\ job.phase = "working" /\ flight = {} /\ UNCHANGED <<job, estate, todo>>
        /\ streams # << >> /\ Written.reached # "nothing" /\ Len(streams) \in 1..Len(streams)
    BY <1>1, StreamsCount DEF Summarise, Types, StreamTypes, Busy, Told, PlansAreOwed
  <2>3. SameRecords
    BY <2>1, <2>2, BecomesRecords
  <2>4. SamePlans
    <3>1. \A i \in 1..Len(streams) : streams'[i].op.planned = streams[i].op.planned
      BY <2>1 DEF OpBecomes, Written
    <3> QED
      BY <3>1 DEF SamePlans, Plans, Plan
  <2>5. \A a \in Resources : ~Replacing(a)
    BY <2>2 DEF Replacing
  <2>6. Written' = op /\ Len(streams') = Len(streams) /\ streams'[Len(streams)].rc = streams[Len(streams)].rc
    BY <2>1, <2>2 DEF OpBecomes
  <2> QED
    BY <2>1, <2>2, <2>3, <2>4, <2>5, <2>6 DEF Calm
<1>2. CASE Return
  <2>1. /\ job.phase = "working" /\ flight = {} /\ estate' = estate /\ job'.kind = job.kind
        /\ job'.phase \in {"report", "ready"} /\ Todo' = {} /\ streams # << >>
    BY <1>2 DEF Return, Types, JobTypes, Jobs, StreamTypes, Busy, Todo
  <2>2. PICK rc : OpClosed(rc)
    BY <1>2, ReturnCloses
  <2> QED
    BY <2>1, <2>2, ClosedIsCalm
<1>3. CASE Cancel /\ job.phase # "ready"
  <2>1. /\ estate' = estate /\ job'.kind = job.kind
        /\ job'.phase = "report" /\ Todo' = {} /\ streams # << >>
    BY <1>3 DEF Cancel, Types, JobTypes, Jobs, StreamTypes, Busy, Todo
  <2>2. PICK rc \in {None, Torn} : OpClosed(rc)
    BY <1>3, CancelCloses
  <2> QED
    BY <2>1, <2>2, ClosedIsCalm
<1>4. CASE Finish \/ (Cancel /\ job.phase = "ready")
  <2>1. /\ streams' = streams /\ estate' = estate /\ job'.kind = job.kind /\ job'.phase = "report"
        /\ todo' = todo \/ todo' = [b \in Resources |-> << >>]
    BY <1>4 DEF Finish, Cancel, Types, JobTypes, Jobs
  <2>2. todo' = todo \/ Todo' = {}
    BY <2>1 DEF Todo
  <2> QED
    BY <2>1, <2>2, SameStreamsCalm
<1>5. CASE Watch \/ UNCHANGED vars
  BY <1>5, SameStreamsCalm DEF Watch, vars
<1>6. CASE PublishTimeline \/ PublishNodes \/ PublishAnchor \/ PublishCost \/ LoseRunner
  <2>1. \E next \in {"idle", "nodes", "anchor", "cost"} : Skip(next) \/ \E field, doc : Put(field, doc, next)
    BY <1>6 DEF PublishTimeline, PublishNodes, PublishAnchor, PublishCost, LoseRunner
  <2>2. /\ job'.phase \in {"idle", "nodes", "anchor", "cost"} /\ job'.kind = job.kind
        /\ UNCHANGED <<estate, streams, todo>>
    BY <2>1 DEF Skip, Put, Types, JobTypes, Jobs
  <2> QED
    BY <2>2, SameStreamsCalm
<1> QED
  BY <1>1, <1>2, <1>3, <1>4, <1>5, <1>6 DEF Sidesteps

\* What the hook of a resource leaves of it: it is started, done with, or refused.
HookMoves(type, a) ==
  /\ \A b \in Resources \ {a} : todo'[b] = todo[b] /\ estate'[b] = estate[b] /\ (b \in flight' <=> b \in flight)
  /\ CASE type = "apply_start" -> todo'[a] = todo[a] /\ estate'[a] = estate[a] /\ a \in flight' /\ a \notin flight
       [] type = "apply_complete" ->
            todo'[a] = Tail(todo[a]) /\ estate'[a] = (IF Head(todo[a]) = "create" THEN "live" ELSE "gone")
       [] type = "apply_errored" -> todo'[a] = << >> /\ estate'[a] = estate[a]

LEMMA HookMovesCases ==
  ASSUME Types, NEW a \in Resources, StartHook(a) \/ FinishHook(a) \/ FailHook(a)
  PROVE  /\ a \in Todo /\ job.phase = "working" /\ UNCHANGED job /\ site' = site
         /\ \E type \in {"apply_start", "apply_complete", "apply_errored"} :
              /\ Hooked(type, a) /\ HookMoves(type, a)
              /\ type = "apply_errored" => FailHook(a)
<1>1. /\ a \in Todo /\ job.phase = "working" /\ UNCHANGED job /\ site' = site /\ Busy
      /\ todo \in [Resources -> Owes] /\ estate \in [Resources -> {"live", "gone"}]
  BY DEF StartHook, FinishHook, FailHook, Types, WorkTypes, EstateTypes, Todo, Busy
<1>2. CASE StartHook(a)
  <2>1. Hooked("apply_start", a)
    BY <1>1, <1>2, HookEmitted DEF StartHook
  <2>2. HookMoves("apply_start", a)
    BY <1>2 DEF StartHook, HookMoves
  <2> QED
    BY <1>1, <2>1, <2>2
<1>3. CASE FinishHook(a)
  <2>1. Hooked("apply_complete", a)
    BY <1>1, <1>3, HookEmitted DEF FinishHook
  <2>2. todo' = [todo EXCEPT ![a] = Tail(@)] /\ flight' = flight \ {a}
    BY <1>3 DEF FinishHook
  <2>3. /\ \A b \in Resources \ {a} : estate'[b] = estate[b]
        /\ estate'[a] = IF Head(todo[a]) = "create" THEN "live" ELSE "gone"
    BY <1>1, <1>3 DEF FinishHook, Effect, Comes, Goes, Takes
  <2>4. HookMoves("apply_complete", a)
    BY <1>1, <2>2, <2>3 DEF HookMoves
  <2> QED
    BY <1>1, <2>1, <2>4
<1>4. CASE FailHook(a)
  <2>1. Hooked("apply_errored", a)
    BY <1>1, <1>4, HookEmitted DEF FailHook
  <2>2. HookMoves("apply_errored", a)
    BY <1>1, <1>4 DEF FailHook, HookMoves
  <2> QED
    BY <1>1, <1>4, <2>1, <2>2
<1> QED
  BY <1>2, <1>3, <1>4

\* A hook's event and its effect: what the records then say is done is done,
\* or is the half of a replacement.
LEMMA HookTold ==
  ASSUME Types, Told, job.phase = "working", UNCHANGED job, NEW a \in Todo,
         NEW type \in {"apply_start", "apply_complete", "apply_errored"},
         Hooked(type, a), HookMoves(type, a)
  PROVE  Told'
<1> DEFINE n == Len(streams)
<1>1. PICK op \in Ops : OpBecomes(op) /\ op.planned = Written.planned /\ op.reached = Written.reached
  BY DEF Hooked
<1>2. /\ Len(streams') = n /\ n \in 1..n
      /\ \A i \in 1..n, b \in Resources : i # n \/ b # a =>
           (Has(i, b)' <=> Has(i, b)) /\ (Has(i, b) => Rec(i, b)' = Rec(i, b))
      /\ \A i \in {n} : /\ Has(i, a)' /\ Rec(i, a)'.action = Head(todo[a])
                        /\ Has(i, a) => Rec(i, a)'.status = Verdict(type, Rec(i, a).status)
                        /\ ~Has(i, a) => Rec(i, a)'.status = Verdict(type, "incomplete")
  BY HookedRecords
<1>3. /\ streams # << >> /\ streams' # << >> /\ Busy /\ streams[n].rc = None /\ streams'[n].rc = None
      /\ Written' = op /\ Written.reached # "nothing"
  BY <1>1, <1>2 DEF Types, StreamTypes, Busy, Told, Few, PlansAreOwed, OpBecomes
<1>4. SamePlans
  <2>1. \A i \in 1..n : streams'[i].op.planned = streams[i].op.planned
    BY <1>1 DEF OpBecomes, Written
  <2> QED
    BY <2>1 DEF SamePlans, Plans, Plan
<1>5. Verb' = Verb /\ Goal' = Goal /\ (AllRun' <=> AllRun)
  BY <1>2 DEF Verb, Goal, AllRun
<1>6. /\ a \in Resources /\ a \in Todo /\ Plans(n, a)
      /\ \/ todo[a] = <<Verb>> /\ Head(todo[a]) = Verb /\ Tail(todo[a]) = << >>
         \/ /\ job.kind = "apply" /\ todo[a] = <<"delete", "create">> /\ Head(todo[a]) = "delete"
            /\ Tail(todo[a]) = <<"create">> /\ Verb = "create" /\ Plan(n, a) = "replace"
  <2>1. /\ a \in Resources /\ a \in Todo /\ Plans(n, a)
        /\ todo[a] = <<"delete", "create">> => Plan(n, a) = "replace"
        /\ todo[a] = <<Verb>> \/ (job.kind = "apply" /\ todo[a] = <<"delete", "create">>)
    BY DEF Told, OneVerb, PlansAreOwed, Todo
  <2>2. todo[a] = <<Verb>> => Head(todo[a]) = Verb /\ Tail(todo[a]) = << >>
    OBVIOUS
  <2>3. todo[a] = <<"delete", "create">> => Head(todo[a]) = "delete" /\ Tail(todo[a]) = <<"create">>
    OBVIOUS
  <2> QED
    BY <2>1, <2>2, <2>3 DEF Verb
<1>7. \A b \in Resources : /\ todo'[b] \in {<< >>, todo[b]} \/ (b = a /\ job.kind = "apply" /\ todo'[b] = <<Verb>>)
                           /\ b \in Todo' => b \in Todo
  BY <1>6 DEF HookMoves, Todo
<1>8. Few' /\ OneVerb'
  <2>1. OneVerb'
    BY <1>5, <1>7 DEF Told, OneVerb, Todo
  <2> QED
    BY <1>2, <1>3, <2>1 DEF Told, Few
<1>9. PlansAreOwed'
  <2>1. \A b \in Todo' : b \in Resources /\ b \in Todo
                         /\ (todo'[b] = <<"delete", "create">> => todo[b] = <<"delete", "create">>)
    <3> TAKE b \in Todo'
    <3>1. b \in Resources /\ todo'[b] # << >>
      BY DEF Todo
    <3>2. <<Verb>> # <<"delete", "create">>
      OBVIOUS
    <3> QED
      BY <1>7, <3>1, <3>2
  <2>2. \A i \in {n}, b \in Todo : Plans(i, b)' /\ Plan(i, b)' = Plan(i, b)
    BY <1>2, <1>4 DEF Told, PlansAreOwed, SamePlans, Todo
  <2>3. ASSUME NEW b \in Todo', NEW i \in {n}
        PROVE  Plans(i, b)' /\ (todo'[b] = <<"delete", "create">> => Plan(i, b)' = "replace")
    BY <2>1, <2>2 DEF Told, PlansAreOwed
  <2> QED
    BY <1>1, <1>2, <1>3, <1>4, <2>3 DEF Told, PlansAreOwed, SamePlans
<1>10. RecordsArePlanned'
  <2> SUFFICES ASSUME NEW i \in 1..n, NEW b \in Resources, Has(i, b)'
               PROVE  /\ Plans(i, b)
                      /\ Rec(i, b)'.action # Verb =>
                           job.kind = "apply" /\ Rec(i, b)'.action = "delete" /\ Plan(i, b) = "replace"
    BY <1>2, <1>4, <1>5 DEF RecordsArePlanned, SamePlans
  <2>1. CASE i = n /\ b = a
    <3>1. Rec(i, a)'.action = Head(todo[a])
      BY <1>2, <2>1
    <3> QED
      BY <1>6, <2>1, <3>1
  <2>2. CASE i # n \/ b # a
    BY <1>2, <2>2 DEF Told, RecordsArePlanned
  <2> QED
    BY <2>1, <2>2
\* What the records now say is done of a.
<1>11. ASSUME NEW i \in {n}, DoneAt(i, a)'
       PROVE  \/ type = "apply_complete" /\ todo[a] = <<Verb>>
              \/ type = "apply_start" /\ job.kind = "apply" /\ todo[a] = <<"create">> /\ Plan(n, a) = "replace"
  <2>1. /\ Rec(i, a)'.action = Head(todo[a]) /\ Rec(i, a)'.action = Verb /\ Rec(i, a)'.status = "complete"
    BY <1>2, <1>5, <1>11 DEF DoneAt
  <2>2. todo[a] = <<Verb>>
    BY <1>6, <2>1
  <2>3. type # "apply_errored"
    BY <1>2, <2>1 DEF Verdict
  <2>4. CASE type = "apply_start"
    <3>1. Has(n, a) /\ Rec(n, a).status = "complete"
      BY <1>2, <2>1, <2>4 DEF Verdict
    <3>2. ~Replacing(a)
      BY <2>4 DEF HookMoves, Replacing
    <3>3. Rec(n, a).action # Verb
      BY <1>3, <1>6, <3>1, <3>2 DEF Told, CompleteIsSo, DoneAt
    <3>4. job.kind = "apply" /\ Plan(n, a) = "replace"
      BY <1>2, <1>6, <3>1, <3>3 DEF Told, RecordsArePlanned
    <3> QED
      BY <2>2, <2>4, <3>4 DEF Verb
  <2> QED
    BY <2>2, <2>3, <2>4
<1>12. CompleteIsSo'
  <2> SUFFICES ASSUME NEW b \in Resources, NEW i \in {n}, DoneAt(i, b)'
               PROVE  (b \notin Todo' /\ estate'[b] = Goal) \/ Replacing(b)'
    BY <1>2, <1>5 DEF CompleteIsSo
  <2>1. CASE b = a /\ type = "apply_complete" /\ todo[a] = <<Verb>>
    <3>1. todo'[a] = << >> /\ estate'[a] = Goal
      BY <1>6, <2>1 DEF HookMoves, Verb, Goal
    <3> QED
      BY <2>1, <3>1 DEF Todo
  <2>2. CASE /\ b = a /\ type = "apply_start" /\ job.kind = "apply"
             /\ todo[a] = <<"create">> /\ Plan(n, a) = "replace"
    <3>1. a \in flight' /\ todo'[a] = <<"create">>
      BY <2>2 DEF HookMoves
    <3>2. a \in DOMAIN op.planned /\ op.planned[a] = "replace"
      BY <1>1, <1>6, <2>2 DEF Plans, Plan, Written
    <3> QED
      BY <1>2, <1>3, <2>2, <3>1, <3>2 DEF Replacing
  <2>3. CASE b # a
    <3>1. DoneAt(n, b)
      BY <1>2, <1>5, <2>3 DEF DoneAt
    <3>2. (b \notin Todo /\ estate[b] = Goal) \/ Replacing(b)
      BY <1>3, <3>1 DEF Told, CompleteIsSo
    <3>3. todo'[b] = todo[b] /\ estate'[b] = estate[b] /\ (b \in flight' <=> b \in flight)
      BY <2>3 DEF HookMoves
    <3>4. Replacing(b) => Replacing(b)'
      BY <1>1, <1>2, <1>3, <3>3 DEF Replacing
    <3> QED
      BY <3>2, <3>3, <3>4 DEF Todo
  <2> QED
    BY <1>11, <2>1, <2>2, <2>3
<1>13. GoneIsGone'
  <2> SUFFICES ASSUME job.kind = "destroy", NEW i \in 1..n, NEW b \in Resources, DoneAt(i, b)'
               PROVE  estate'[b] = "gone"
    BY <1>2 DEF GoneIsGone
  <2>1. \A c \in Resources : estate[c] = "gone" => estate'[c] = "gone"
    <3>1. Head(todo[a]) = "delete"
      BY <1>6 DEF Verb
    <3> QED
      BY <3>1 DEF HookMoves
  <2>2. CASE i # n \/ b # a
    <3>1. DoneAt(i, b)
      BY <1>2, <1>5, <2>2 DEF DoneAt
    <3> QED
      BY <2>1, <3>1 DEF Told, GoneIsGone
  <2>3. CASE i = n /\ b = a
    <3>1. type = "apply_complete" /\ Head(todo[a]) # "create"
      BY <1>6, <1>11, <2>3 DEF Verb
    <3> QED
      BY <2>3, <3>1 DEF HookMoves
  <2> QED
    BY <2>2, <2>3
<1>14. Reaches'
  <2>1. ASSUME AllRun, NEW b \in Resources, NEW i \in {n}
        PROVE  estate'[b] = Goal \/ Plans(i, b)'
    <3>1. estate[b] = Goal \/ Plans(n, b)
      BY <1>3, <2>1 DEF Told, Reaches
    <3>2. Plans(i, b)' <=> Plans(n, b)
      BY <1>2, <1>4 DEF SamePlans
    <3> QED
      BY <1>6, <3>1, <3>2 DEF HookMoves
  <2> QED
    BY <1>1, <1>2, <1>3, <1>5, <2>1 DEF Reaches
<1> QED
  BY <1>8, <1>9, <1>10, <1>12, <1>13, <1>14 DEF Told

\* AWS, between the two events of a hook.
LEMMA ChargeTold ==
  ASSUME Types, Told, NEW a \in Resources, Charge(a)
  PROVE  Told'
<1> DEFINE n == Len(streams)
<1>1. /\ a \in Todo /\ job.phase = "working" /\ UNCHANGED <<job, todo, flight, streams>>
      /\ estate \in [Resources -> {"live", "gone"}] /\ streams # << >> /\ n \in 1..n
  BY StreamsCount DEF Charge, Types, WorkTypes, EstateTypes, StreamTypes, Busy
<1>2. /\ \A b \in Resources \ {a} : estate'[b] = estate[b]
      /\ estate'[a] = IF Head(todo[a]) = "create" THEN "live" ELSE "gone"
  BY <1>1 DEF Charge, Effect, Comes, Goes
<1>3. /\ \A i \in 1..n, b \in Resources : DoneAt(i, b)' <=> DoneAt(i, b)
      /\ Verb' = Verb /\ Goal' = Goal /\ Todo' = Todo /\ Written' = Written
  BY <1>1 DEF DoneAt, Has, Rec, Verb, Goal, Todo, Written
<1>4. Few' /\ OneVerb' /\ PlansAreOwed' /\ RecordsArePlanned'
  BY <1>1, <1>3 DEF Told, Few, Busy, OneVerb, PlansAreOwed, RecordsArePlanned, Plans, Plan, Has, Rec
<1>5. CompleteIsSo'
  <2>1. \A b \in Resources : Replacing(b)' <=> Replacing(b)
    BY <1>1 DEF Replacing, Written
  <2>2. \A b \in Resources : DoneAt(n, b) => (b \notin Todo /\ estate[b] = Goal) \/ Replacing(b)
    BY <1>1 DEF Told, CompleteIsSo
  <2>3. \A b \in Resources : DoneAt(n, b) => (b \notin Todo /\ estate'[b] = Goal) \/ Replacing(b)
    BY <1>1, <1>2, <2>2
  <2>4. n \in 1..n
    BY <1>1
  <2>5. \A i \in {n}, b \in Resources : DoneAt(i, b)' => (b \notin Todo' /\ estate'[b] = Goal') \/ Replacing(b)'
    BY <1>3, <2>1, <2>3, <2>4
  <2> QED
    BY <1>1, <2>5 DEF CompleteIsSo
<1>6. GoneIsGone'
  <2>1. job.kind = "destroy" => Head(todo[a]) = "delete"
    BY <1>1 DEF Told, OneVerb, Verb
  <2>2. job.kind = "destroy" => \A b \in Resources : estate[b] = "gone" => estate'[b] = "gone"
    BY <1>2, <2>1
  <2> QED
    BY <1>1, <1>3, <2>2 DEF Told, GoneIsGone
<1>7. Reaches'
  <2>1. Written.reached # "nothing" /\ Plans(n, a)
    BY <1>1 DEF Told, PlansAreOwed
  <2>2. AllRun => \A b \in Resources : estate'[b] = Goal \/ Plans(n, b)
    BY <1>1, <1>2, <2>1 DEF Told, Reaches
  <2>3. \A i \in {n}, b \in Resources : Plans(i, b)' <=> Plans(i, b)
    BY <1>1 DEF Plans
  <2>4. AllRun' <=> AllRun
    BY <1>1 DEF AllRun
  <2> QED
    BY <1>1, <1>3, <2>1, <2>2, <2>3, <2>4 DEF Reaches
<1> QED
  BY <1>4, <1>5, <1>6, <1>7 DEF Told

LEMMA ToldStep ==
  ASSUME Types, Course, Told, [Next]_vars
  PROVE  Told'
<1>1. ASSUME NEW a \in Resources, StartHook(a) \/ FinishHook(a) \/ FailHook(a) PROVE Told'
  <2>1. /\ a \in Todo /\ job.phase = "working" /\ UNCHANGED job
        /\ \E type \in {"apply_start", "apply_complete", "apply_errored"} : Hooked(type, a) /\ HookMoves(type, a)
    BY <1>1, HookMovesCases
  <2> QED
    BY <2>1, HookTold
<1>2. ASSUME Sidesteps PROVE Told'
  BY <1>2, SidestepsCalm, AnnounceTold, CalmTold
<1> QED
  BY <1>1, <1>2, BeginTold, OpenTold, ChargeTold, StepKinds

-----------------------------------------------------------------------------
(* What is drawn is so                                                     *)

\* What the plans read so far announce of a noun, and whether it is all done.
Ann(n) == {w \in (1..Len(streams)) \X Resources : Plans(w[1], w[2]) /\ n \in NounOf(w[2])}
AllDone(n) == Ann(n) # {} /\ \A w \in Ann(n) : DoneAt(w[1], w[2])

LEMMA AnnIsFinite == ASSUME Types, NEW n PROVE IsFiniteSet(Ann(n)) /\ Cardinality(Ann(n)) \in Nat
<1>1. IsFiniteSet(1..Len(streams)) /\ IsFiniteSet(Resources)
  BY StreamsCount, FS_Interval, ReportAssumption
<1>2. IsFiniteSet((1..Len(streams)) \X Resources)
  BY <1>1, FS_Product
<1>3. Ann(n) \in SUBSET ((1..Len(streams)) \X Resources)
  BY DEF Ann
<1>4. IsFiniteSet(Ann(n))
  BY <1>2, <1>3, FS_Subset
<1> QED
  BY <1>4, FS_CardinalityType

LEMMA AnnFiniteNow == Types => \A m : IsFiniteSet(Ann(m)) /\ Cardinality(Ann(m)) \in Nat
BY AnnIsFinite

LEMMA AnnFiniteNext == Types' => (\A m : IsFiniteSet(Ann(m)) /\ Cardinality(Ann(m)) \in Nat)'
BY AnnFiniteNow, PTL

\* What the join finds in the timeline is what was read of the operations.
LEMMA Observed ==
  ASSUME Types
  PROVE  /\ Announcements(TimelineNow) = {w \in (1..Len(streams)) \X Resources : Plans(w[1], w[2])}
         /\ Observations(TimelineNow) = {w \in (1..Len(streams)) \X Addresses : Has(w[1], w[2])}
         /\ \A w \in (1..Len(streams)) \X Addresses :
              RecordOf(TimelineNow, w) = Rec(w[1], w[2]) /\ PlannedOf(TimelineNow, w) = Plan(w[1], w[2])
         /\ TimelineNow.environment = Environment
<1> DEFINE t == TimelineNow
           n == Len(streams)
<1>1. streams \in Seq(Stream) /\ DOMAIN streams = 1..n /\ \A i \in 1..n : streams[i] \in Stream
  BY DEF Types, StreamTypes
<1>2. DOMAIN t.ops = 1..n /\ t.environment = Environment
      /\ \A i \in 1..n : t.ops[i].planned = streams[i].op.planned /\ t.ops[i].resources = streams[i].op.resources
  BY <1>1, ReadingFields DEF ReadOp
<1>3. \A i \in 1..n : DOMAIN streams[i].op.planned \subseteq Resources
                      /\ DOMAIN streams[i].op.resources \subseteq Addresses
  BY <1>1 DEF Stream, Ops, Partial
<1> HIDE DEF t, n
<1>4. Announcements(t) = {w \in (1..n) \X Resources : Plans(w[1], w[2])}
  <2>1. ASSUME NEW w \in Announcements(t) PROVE w \in (1..n) \X Resources /\ Plans(w[1], w[2])
    <3>1. PICK i \in DOMAIN t.ops : w \in {<<i, a>> : a \in DOMAIN t.ops[i].planned}
      BY <2>1 DEF Announcements
    <3>2. PICK a \in DOMAIN t.ops[i].planned : w = <<i, a>>
      BY <3>1
    <3> QED
      BY <1>2, <1>3, <3>1, <3>2 DEF Plans
  <2>2. ASSUME NEW w \in (1..n) \X Resources, Plans(w[1], w[2]) PROVE w \in Announcements(t)
    <3>1. w[1] \in DOMAIN t.ops /\ w[2] \in DOMAIN t.ops[w[1]].planned /\ w = <<w[1], w[2]>>
      BY <1>2, <2>2 DEF Plans
    <3> QED
      BY <3>1 DEF Announcements
  <2> QED
    BY <2>1, <2>2
<1>5. Observations(t) = {w \in (1..n) \X Addresses : Has(w[1], w[2])}
  <2>1. ASSUME NEW w \in Observations(t) PROVE w \in (1..n) \X Addresses /\ Has(w[1], w[2])
    <3>1. PICK i \in DOMAIN t.ops : w \in {<<i, a>> : a \in DOMAIN t.ops[i].resources}
      BY <2>1 DEF Observations
    <3>2. PICK a \in DOMAIN t.ops[i].resources : w = <<i, a>>
      BY <3>1
    <3> QED
      BY <1>2, <1>3, <3>1, <3>2 DEF Has
  <2>2. ASSUME NEW w \in (1..n) \X Addresses, Has(w[1], w[2]) PROVE w \in Observations(t)
    <3>1. w[1] \in DOMAIN t.ops /\ w[2] \in DOMAIN t.ops[w[1]].resources /\ w = <<w[1], w[2]>>
      BY <1>2, <2>2 DEF Has
    <3> QED
      BY <3>1 DEF Observations
  <2> QED
    BY <2>1, <2>2
<1>6. \A w \in (1..n) \X Addresses : RecordOf(t, w) = Rec(w[1], w[2]) /\ PlannedOf(t, w) = Plan(w[1], w[2])
  BY <1>2 DEF RecordOf, PlannedOf, Rec, Plan
<1> QED
  BY <1>2, <1>4, <1>5, <1>6 DEF t, n

\* Of what was planned, as many are complete as were planned just when they
\* all are.
LEMMA CountedDone ==
  ASSUME NEW A, IsFiniteSet(A), NEW C \in SUBSET A, NEW D \in SUBSET C
  PROVE  C # {} /\ Cardinality(D) = Cardinality(C) /\ Cardinality(D) >= Cardinality(A)
           <=> A # {} /\ D = A
<1>1. IsFiniteSet(C) /\ Cardinality(C) <= Cardinality(A) /\ IsFiniteSet(D)
      /\ Cardinality(D) <= Cardinality(C)
  BY FS_Subset
<1>2. Cardinality(A) \in Nat /\ Cardinality(C) \in Nat /\ Cardinality(D) \in Nat
  BY <1>1, FS_CardinalityType
<1>3. D \in SUBSET A
  OBVIOUS
<1>4. Cardinality(A) = Cardinality(D) => A = D
  BY <1>3, FS_Subset
<1>5. ASSUME C # {}, Cardinality(D) = Cardinality(C), Cardinality(D) >= Cardinality(A)
      PROVE  A # {} /\ D = A
  BY <1>1, <1>2, <1>4, <1>5
<1>6. ASSUME A # {}, D = A
      PROVE  C # {} /\ Cardinality(D) = Cardinality(C) /\ Cardinality(D) >= Cardinality(A)
  <2>1. C = A
    BY <1>6
  <2> QED
    BY <1>2, <1>6, <2>1
<1> QED
  BY <1>5, <1>6

\* A reading of the records of a noun's work is "measured" just when all that
\* was announced of it is done.
LEMMA MeasuredIsAllDone ==
  ASSUME Types, NEW n, NEW C,
         C = {w \in Ann(n) : Has(w[1], w[2]) /\ Rec(w[1], w[2]).action = Verb},
         NEW pc, Ann(n) # {} => pc = Cardinality(Ann(n))
  PROVE  C # {} /\ Reading(TimelineNow, C, pc).state = "measured" <=> AllDone(n)
<1> DEFINE A == Ann(n)
           D == {w \in C : RecordOf(TimelineNow, w).status = "complete"}
<1>1. IsFiniteSet(A) /\ Cardinality(A) \in Nat
  BY AnnIsFinite
<1>2. C # {} /\ Cardinality(D) = Cardinality(C) /\ Cardinality(D) >= Cardinality(A)
        <=> A # {} /\ D = A
  <2>1. C \in SUBSET A /\ D \in SUBSET C
    OBVIOUS
  <2> HIDE DEF A, D
  <2> QED
    BY <1>1, <2>1, CountedDone
<1>3. C # {} => pc = Cardinality(A) /\ pc # None
  BY <1>1 DEF None
<1>4. Reading(TimelineNow, C, pc).state = "measured"
        <=> Cardinality(D) = Cardinality(C) /\ (pc = None \/ Cardinality(D) >= pc)
  BY DEF Reading
<1>5. C # {} /\ Reading(TimelineNow, C, pc).state = "measured" <=> A # {} /\ D = A
  <2> HIDE DEF A, D
  <2> QED
    BY <1>2, <1>3, <1>4
<1>6. \A w \in A : w \in (1..Len(streams)) \X Addresses
  BY DEF Ann, Addresses
<1>7. \A w \in A : w \in D <=> DoneAt(w[1], w[2])
  BY <1>6, Observed DEF DoneAt
<1>8. D = A <=> \A w \in A : DoneAt(w[1], w[2])
  <2>1. D \subseteq A
    OBVIOUS
  <2> HIDE DEF A, D
  <2> QED
    BY <1>7, <2>1
<1> QED
  BY <1>5, <1>8 DEF AllDone

\* A record that is not a read is a resource's, and was planned.
LEMMA ReadsAreData ==
  ASSUME Types, Told, DataIsRead, NEW w \in (1..Len(streams)) \X Addresses,
         Has(w[1], w[2]), Rec(w[1], w[2]).action # "read"
  PROVE  /\ w \in (1..Len(streams)) \X Resources /\ Plans(w[1], w[2])
         /\ Rec(w[1], w[2]).action # Verb => job.kind = "apply" /\ Rec(w[1], w[2]).action = "delete"
<1>1. w[1] \in 1..Len(streams) /\ w[2] \in Addresses /\ w = <<w[1], w[2]>>
  OBVIOUS
<1>2. w[2] \notin DataSources
  BY <1>1 DEF DataIsRead
<1>3. w[2] \in Resources
  BY <1>1, <1>2 DEF Addresses
<1> QED
  BY <1>1, <1>3 DEF Told, RecordsArePlanned

LEMMA NodeDone ==
  ASSUME Types, Told, DataIsRead, job.kind = "apply", NEW n, n \notin DestroyNodes(Environment)
  PROVE  /\ n \in DOMAIN ReadingNow.nodes /\ ReadingNow.nodes[n].state = "measured" <=> AllDone(n)
         /\ Ann(n) # {} => PlannedCount(TimelineNow, n) = Cardinality(Ann(n))
         /\ n \in DOMAIN ReadingNow.nodes => ReadingNow.nodes[n].planned = PlannedCount(TimelineNow, n)
<1> DEFINE t == TimelineNow
           C == Collected(t, n)
           pc == PlannedCount(t, n)
           S == (1..Len(streams)) \X Resources
           T == (1..Len(streams)) \X Addresses
<1>1. /\ Announcements(t) = {w \in S : Plans(w[1], w[2])}
      /\ Observations(t) = {w \in T : Has(w[1], w[2])}
      /\ \A w \in T : RecordOf(t, w) = Rec(w[1], w[2]) /\ PlannedOf(t, w) = Plan(w[1], w[2])
      /\ t.environment = Environment /\ S \subseteq T
  BY Observed DEF Addresses
<1>2. Verb = "create"
  BY DEF Verb
<1> HIDE DEF t, S, T
<1>3. ASSUME NEW w, w \in C
      PROVE  w \in Ann(n) /\ Has(w[1], w[2]) /\ Rec(w[1], w[2]).action = Verb
  <2>1. /\ w \in T /\ Has(w[1], w[2]) /\ Rec(w[1], w[2]).action # "read"
        /\ n \in PlaceOf(Environment, w[2], Rec(w[1], w[2]).action)
    BY <1>1, <1>3 DEF Collected
  <2>2. Rec(w[1], w[2]).action # "delete" /\ n \in NounOf(w[2])
    BY <2>1 DEF PlaceOf, NounOf
  <2>3. w \in S /\ Plans(w[1], w[2]) /\ Rec(w[1], w[2]).action = Verb
    BY <2>1, <2>2, ReadsAreData DEF S, T
  <2> QED
    BY <2>1, <2>2, <2>3 DEF Ann, S
<1>4. ASSUME NEW w \in Ann(n), Has(w[1], w[2]), Rec(w[1], w[2]).action = Verb
      PROVE  w \in C
  <2>1. w \in S /\ w \in T /\ n \in NounOf(w[2])
    BY <1>1, <1>4 DEF Ann, S
  <2> QED
    BY <1>1, <1>2, <1>4, <2>1 DEF Collected, PlaceOf, NounOf
<1>5. C = {w \in Ann(n) : Has(w[1], w[2]) /\ Rec(w[1], w[2]).action = Verb}
  <2> HIDE DEF C
  <2> QED
    BY <1>3, <1>4
<1>6. ASSUME Ann(n) # {} PROVE pc = Cardinality(Ann(n))
  <2>1. Ann(n) = {w \in Announcements(t) : LET action == PlannedOf(t, w)
                    IN  action # "read" /\ n \in PlaceOf(t.environment, w[2], action)}
    <3>1. \A w \in S : Plans(w[1], w[2]) =>
            PlannedOf(t, w) \in {"create", "replace"} /\ PlaceOf(t.environment, w[2], PlannedOf(t, w)) = NounOf(w[2])
      <4> SUFFICES ASSUME NEW w \in S, Plans(w[1], w[2])
                   PROVE  PlannedOf(t, w) \in {"create", "replace"}
                          /\ PlaceOf(t.environment, w[2], PlannedOf(t, w)) = NounOf(w[2])
        OBVIOUS
      <4>1. w[1] \in 1..Len(streams) /\ w[2] \in Resources
        BY DEF S
      <4>2. PlannedOf(t, w) \in {"create", "replace"}
        BY <1>1, <4>1 DEF Told, PlansAreOwed
      <4> QED
        BY <1>1, <4>2 DEF PlaceOf, NounOf
    <3>2. Ann(n) = {w \in S : Plans(w[1], w[2]) /\ n \in NounOf(w[2])}
      BY DEF Ann, S
    <3> QED
      BY <1>1, <3>1, <3>2
  <2>2. Announcements(t) # {}
    BY <1>6, <2>1
  <2> QED
    BY <2>1, <2>2 DEF PlannedCount
<1>7. C # {} /\ Reading(t, C, pc).state = "measured" <=> AllDone(n)
  <2> HIDE DEF C, pc
  <2> QED
    BY <1>5, <1>6, MeasuredIsAllDone DEF t
<1>8. C # {} => n \in NodeIds(Environment)
  <2>1. C # {} => \E w : n \in NounOf(w[2])
    BY <1>5 DEF Ann
  <2> QED
    BY <2>1 DEF NounOf, NodesOf, NodeIds
<1>9. ReadingNow.nodes = [m \in {m \in NodeIds(Environment) : Collected(t, m) # {}} |->
                             Reading(t, Collected(t, m), PlannedCount(t, m))]
  BY <1>1 DEF ReadingNow, Join, t
<1>10. Reading(t, C, pc).planned = pc
  BY DEF Reading
<1>11. n \in DOMAIN ReadingNow.nodes <=> C # {}
  BY <1>8, <1>9
<1>12. C # {} => ReadingNow.nodes[n] = Reading(t, C, pc)
  BY <1>8, <1>9
<1> QED
  <2> HIDE DEF C, pc
  <2>1. n \in DOMAIN ReadingNow.nodes /\ ReadingNow.nodes[n].state = "measured" <=> AllDone(n)
    BY <1>7, <1>11, <1>12
  <2>2. n \in DOMAIN ReadingNow.nodes => ReadingNow.nodes[n].planned = pc
    BY <1>10, <1>11, <1>12
  <2> QED
    BY <1>6, <2>1, <2>2 DEF pc, t

LEMMA NounGone ==
  ASSUME Types, Told, DataIsRead, job.kind = "destroy", NEW n
  PROVE  /\ n \in DOMAIN ReadingNow.deleting /\ ReadingNow.deleting[n].state = "measured" <=> AllDone(n)
         /\ Ann(n) # {} => DeletingPlanned(TimelineNow, n) = Cardinality(Ann(n))
         /\ n \in DOMAIN ReadingNow.deleting => ReadingNow.deleting[n].planned = DeletingPlanned(TimelineNow, n)
<1> DEFINE t == TimelineNow
           C == Deleting(t, n)
           pc == DeletingPlanned(t, n)
           S == (1..Len(streams)) \X Resources
           T == (1..Len(streams)) \X Addresses
<1>1. /\ Announcements(t) = {w \in S : Plans(w[1], w[2])}
      /\ Observations(t) = {w \in T : Has(w[1], w[2])}
      /\ \A w \in T : RecordOf(t, w) = Rec(w[1], w[2]) /\ PlannedOf(t, w) = Plan(w[1], w[2])
      /\ t.environment = Environment /\ S \subseteq T
  BY Observed DEF Addresses
<1>2. Verb = "delete"
  BY DEF Verb
<1> HIDE DEF t, S, T
<1>3. ASSUME NEW w, w \in C
      PROVE  w \in Ann(n) /\ Has(w[1], w[2]) /\ Rec(w[1], w[2]).action = Verb
  <2>1. /\ w \in T /\ Has(w[1], w[2]) /\ Rec(w[1], w[2]).action = "delete"
        /\ n \in NounOf(w[2])
    BY <1>1, <1>3 DEF Deleting, NounOf
  <2>2. w \in S /\ Plans(w[1], w[2])
    BY <2>1, ReadsAreData DEF S, T
  <2> QED
    BY <1>2, <2>1, <2>2 DEF Ann, S
<1>4. ASSUME NEW w \in Ann(n), Has(w[1], w[2]), Rec(w[1], w[2]).action = Verb
      PROVE  w \in C
  <2>1. w \in S /\ w \in T /\ n \in NounOf(w[2])
    BY <1>1, <1>4 DEF Ann, S
  <2> QED
    BY <1>1, <1>2, <1>4, <2>1 DEF Deleting, NounOf
<1>5. C = {w \in Ann(n) : Has(w[1], w[2]) /\ Rec(w[1], w[2]).action = Verb}
  <2> HIDE DEF C
  <2> QED
    BY <1>3, <1>4
<1>6. ASSUME Ann(n) # {} PROVE pc = Cardinality(Ann(n))
  <2> DEFINE deletes == {w \in Announcements(t) : PlannedOf(t, w) = "delete"
                                                  /\ NodesOf(t.environment, Base[w[2]]) # {}}
  <2>1. \A w \in S : Plans(w[1], w[2]) => PlannedOf(t, w) = "delete"
    <3> SUFFICES ASSUME NEW w \in S, Plans(w[1], w[2]) PROVE PlannedOf(t, w) = "delete"
      OBVIOUS
    <3>1. w[1] \in 1..Len(streams) /\ w[2] \in Resources
      BY DEF S
    <3> QED
      BY <1>1, <3>1 DEF Told, PlansAreOwed
  <2>2. Ann(n) = {w \in S : Plans(w[1], w[2]) /\ n \in NounOf(w[2])}
    BY DEF Ann, S
  <2>3. Ann(n) = {w \in deletes : n \in NodesOf(t.environment, Base[w[2]])}
    BY <1>1, <2>1, <2>2 DEF NounOf
  <2>4. deletes # {} /\ pc = IF deletes = {} THEN None
                             ELSE Cardinality({w \in deletes : n \in NodesOf(t.environment, Base[w[2]])})
    BY <1>6, <2>3 DEF DeletingPlanned
  <2> HIDE DEF deletes, pc
  <2> QED
    BY <2>3, <2>4
<1>7. C # {} /\ Reading(t, C, pc).state = "measured" <=> AllDone(n)
  <2> HIDE DEF C, pc
  <2> QED
    BY <1>5, <1>6, MeasuredIsAllDone DEF t
<1>8. C # {} => n \in NodeIds(Environment)
  <2>1. C # {} => \E w : n \in NounOf(w[2])
    BY <1>5 DEF Ann
  <2> QED
    BY <2>1 DEF NounOf, NodesOf, NodeIds
<1>9. ReadingNow.deleting = [m \in {m \in NodeIds(Environment) : Deleting(t, m) # {}} |->
                             Reading(t, Deleting(t, m), DeletingPlanned(t, m))]
  BY <1>1 DEF ReadingNow, Join, t
<1>10. Reading(t, C, pc).planned = pc
  BY DEF Reading
<1>11. n \in DOMAIN ReadingNow.deleting <=> C # {}
  BY <1>8, <1>9
<1>12. C # {} => ReadingNow.deleting[n] = Reading(t, C, pc)
  BY <1>8, <1>9
<1> QED
  <2> HIDE DEF C, pc
  <2>1. n \in DOMAIN ReadingNow.deleting /\ ReadingNow.deleting[n].state = "measured" <=> AllDone(n)
    BY <1>7, <1>11, <1>12
  <2>2. n \in DOMAIN ReadingNow.deleting => ReadingNow.deleting[n].planned = pc
    BY <1>10, <1>11, <1>12
  <2> QED
    BY <1>6, <2>1, <2>2 DEF pc, t

LEMMA MadeIsMade ==
  ASSUME Types, Told, DataIsRead, streams # << >>, job.kind = "apply",
         NEW n \in DOMAIN ReadingNow.nodes \ DestroyNodes(Environment),
         ReadingNow.nodes[n].state = "measured",
         NEW a \in Resources \ Live, n \in NounOf(a)
  PROVE  Replacing(a)
<1> DEFINE last == Len(streams)
<1>1. AllDone(n)
  BY NodeDone
<1>2. last \in Nat /\ last \in 1..last /\ last <= 2 /\ AllRun /\ Goal = "live" /\ estate[a] # Goal
  BY StreamsCount DEF AllRun, Goal, Live, Told, Few
<1>3. Written.reached # "nothing"
  <2> SUFFICES ASSUME Written.reached = "nothing" PROVE FALSE
    OBVIOUS
  <2>1. (\A b \in Resources : ~Has(last, b)) /\ last # 2
    BY <1>2 DEF Told, Reaches
  <2>2. last = 1
    <3>1. \A k \in Nat : k \in 1..k /\ k <= 2 /\ k # 2 => k = 1
      OBVIOUS
    <3> HIDE DEF last
    <3> QED
      BY <1>2, <2>1, <3>1
  <2>3. PICK w \in Ann(n) : DoneAt(w[1], w[2])
    BY <1>1 DEF AllDone
  <2>4. w[1] \in 1..last /\ w[2] \in Resources
    BY <2>3 DEF Ann
  <2>5. w[1] = last
    BY <2>2, <2>4
  <2> QED
    BY <2>1, <2>3, <2>4, <2>5 DEF DoneAt
<1>4. Plans(last, a)
  BY <1>2, <1>3 DEF Told, Reaches
<1>5. <<last, a>> \in Ann(n)
  BY <1>2, <1>4 DEF Ann
<1>6. DoneAt(last, a)
  BY <1>1, <1>5 DEF AllDone
<1> QED
  BY <1>2, <1>6 DEF Told, CompleteIsSo

LEMMA GoneIsReadGone ==
  ASSUME Types, Told, DataIsRead, streams # << >>, job.kind = "destroy",
         NEW n \in DOMAIN ReadingNow.deleting, ReadingNow.deleting[n].state = "measured",
         NEW a \in Live, n \in NounOf(a)
  PROVE  ~PlanIsRead /\ a \notin Named
<1> DEFINE last == Len(streams)
<1>1. AllDone(n)
  BY NounGone
<1>2. last \in 1..last /\ Goal = "gone" /\ estate[a] = "live" /\ a \in Resources
  BY StreamsCount DEF Goal, Live
<1>3. \A i \in 1..last : ~Plans(i, a)
  <2> SUFFICES ASSUME NEW i \in 1..last, Plans(i, a) PROVE FALSE
    OBVIOUS
  <2>1. <<i, a>> \in Ann(n)
    BY <1>2 DEF Ann
  <2>2. DoneAt(i, a)
    BY <1>1, <2>1 DEF AllDone
  <2> QED
    BY <1>2, <2>2 DEF Told, GoneIsGone
<1>4. ~PlanIsRead
  BY <1>2, <1>3 DEF PlanIsRead, Told, Reaches
<1>5. a \notin Named
  <2> SUFFICES ASSUME NEW w \in Announcements(TimelineNow), w[2] = a PROVE FALSE
    BY DEF Named
  <2>1. w[1] \in 1..last /\ Plans(w[1], a)
    BY Observed
  <2> QED
    BY <1>3, <2>1
<1> QED
  BY <1>4, <1>5

\* All that was proved of a job while it runs.
Followed == Types /\ Course /\ Ours /\ DataIsRead /\ Told

LEMMA InitFollowed == Init => Followed
<1>1. Init => streams = << >> /\ Len(streams) = 0 /\ job.kind # "destroy"
  BY DEF Init
<1>2. streams = << >> /\ Len(streams) = 0 => 1..Len(streams) = {}
  OBVIOUS
<1> QED
  BY <1>1, <1>2, InitTypes, InitCourse, InitTold DEF Followed, Ours, DataIsRead

LEMMA FollowedStep == Followed /\ [Next]_vars => Followed'
BY TypesStep, CourseStep, OursStep, DataIsReadStep, ToldStep DEF Followed

\* Every variable has its type, a noun drawn as made is made or just being
\* replaced, and one drawn as gone is gone as far as any plan was read, at
\* whatever line of whatever invocation the half-written streams are read.
THEOREM DrawnIsSo == Spec => []NounsHold
<1>1. Followed => MeasuredMeansMade
  BY MadeIsMade DEF Followed, MeasuredMeansMade
<1>2. Followed => GoneMeansGone
  BY GoneIsReadGone DEF Followed, GoneMeansGone
<1>3. MeasuredMeansMade /\ GoneMeansGone /\ TypeOK => NounsHold
  BY DEF NounsHold
<1> QED
  BY <1>1, <1>2, <1>3, InitFollowed, FollowedStep, ReportTypes, PTL DEF Spec

-----------------------------------------------------------------------------
(* What was called done stays done                                         *)

\* What is known of a noun that was drawn as done when k were planned for it:
\* all is still done, a replacement was refused, or a second plan names more.
Known(n, k) ==
  /\ Ann(n) # {} /\ k \in Nat /\ k <= Cardinality(Ann(n))
  /\ AllDone(n) \/ HalfReplaced(n) \/ (Len(streams) = 2 /\ k < Cardinality(Ann(n)))

\* What was last drawn of this job, against what the streams now say.
Behind ==
  site.progress # NoDoc =>
    /\ site.progress.run \in 1..job.run
    /\ site.progress.run = job.run =>
         /\ \A n \in MadeIn(site.progress) : job.kind = "apply" /\ Known(n, site.progress.nodes[n].planned)
         /\ \A n \in GoneIn(site.progress) : job.kind = "destroy" /\ Known(n, site.progress.deleting[n].planned)

\* A replacement of something of a noun was refused, by the records of the job.
LEMMA RefusedIsRecorded ==
  ASSUME Types, streams # << >>, NEW n
  PROVE  HalfReplaced(n) <=>
           \E a \in Resources : \A i \in {Len(streams)} :
             /\ Plans(i, a) /\ Has(i, a) /\ n \in NounOf(a)
             /\ Plan(i, a) = "replace" /\ Rec(i, a).status = "errored"
<1>1. DOMAIN Written.planned \subseteq Resources
  BY WrittenIsOp DEF Types, StreamTypes, Ops, Partial
<1> QED
  BY <1>1 DEF HalfReplaced, Plans, Has, Plan, Rec, Written

LEMMA RefusedIsErred == ASSUME NEW n, HalfReplaced(n) PROVE Erred
BY DEF HalfReplaced, Erred

\* The plans are the same, and what is done stays done or is refused.
LEMMA KnownKept ==
  ASSUME Types, Types', Len(streams') = Len(streams), streams # << >>, SamePlans, NEW n, NEW k, Known(n, k),
         HalfReplaced(n) => HalfReplaced(n)',
         \A w \in Ann(n) : DoneAt(w[1], w[2]) => DoneAt(w[1], w[2])' \/ HalfReplaced(n)'
  PROVE  Known(n, k)'
<1>1. Ann(n)' = Ann(n)
  BY DEF Ann, SamePlans, NounOf
<1>2. AllDone(n) => AllDone(n)' \/ HalfReplaced(n)'
  BY <1>1 DEF AllDone
<1> QED
  BY <1>1, <1>2 DEF Known

LEMMA KnownSome == ASSUME Types, NEW n, NEW k, Known(n, k) PROVE streams # << >>
<1>1. PICK w \in Ann(n) : TRUE
  BY DEF Known
<1>2. w[1] \in 1..Len(streams)
  BY DEF Ann
<1> QED
  BY <1>2

LEMMA CalmKnown ==
  ASSUME Types, Types', Calm, NEW n, NEW k, Known(n, k)
  PROVE  Known(n, k)'
<1>1. /\ streams # << >> /\ Len(streams') = Len(streams) /\ Len(streams) \in 1..Len(streams)
      /\ SameRecords /\ SamePlans /\ Verb' = Verb /\ streams' # << >>
  BY KnownSome, StreamsCount DEF Calm, Verb, Types, StreamTypes
<1>2. HalfReplaced(n) => HalfReplaced(n)'
  <2> SUFFICES ASSUME HalfReplaced(n) PROVE HalfReplaced(n)'
    OBVIOUS
  <2>1. PICK a \in Resources : \A i \in {Len(streams)} :
          /\ Plans(i, a) /\ Has(i, a) /\ n \in NounOf(a)
          /\ Plan(i, a) = "replace" /\ Rec(i, a).status = "errored"
    BY <1>1, RefusedIsRecorded
  <2>2. \A i \in {Len(streams')} :
          /\ Plans(i, a)' /\ Has(i, a)' /\ n \in NounOf(a)
          /\ Plan(i, a)' = "replace" /\ Rec(i, a)'.status = "errored"
    BY <1>1, <2>1 DEF SameRecords, SamePlans
  <2>3. a \in DOMAIN Written'.planned \cap DOMAIN Written'.resources /\ Written'.planned[a] = "replace"
        /\ Written'.resources[a].status = "errored"
    BY <2>2 DEF Plans, Has, Plan, Rec, Written
  <2> QED
    BY <2>2, <2>3 DEF HalfReplaced, NounOf
<1>3. \A w \in Ann(n) : DoneAt(w[1], w[2]) => DoneAt(w[1], w[2])'
  <2> SUFFICES ASSUME NEW w \in Ann(n), DoneAt(w[1], w[2]) PROVE DoneAt(w[1], w[2])'
    OBVIOUS
  <2>1. w[1] \in 1..Len(streams) /\ w[2] \in Resources
    BY DEF Ann
  <2> QED
    BY <1>1, <2>1 DEF DoneAt, SameRecords
<1> QED
  BY <1>1, <1>2, <1>3, KnownKept

LEMMA HookKnown ==
  ASSUME Types, Types', Course, Told, job.phase = "working", UNCHANGED job, NEW a \in Todo,
         NEW type \in {"apply_start", "apply_complete", "apply_errored"},
         Hooked(type, a), HookMoves(type, a), NEW n, NEW k, Known(n, k)
  PROVE  Known(n, k)'
<1> DEFINE last == Len(streams)
<1>1. PICK op \in Ops : OpBecomes(op) /\ op.planned = Written.planned
  BY DEF Hooked
<1>2. /\ Len(streams') = last /\ last \in 1..last
      /\ \A i \in 1..last, b \in Resources : i # last \/ b # a =>
           (Has(i, b)' <=> Has(i, b)) /\ (Has(i, b) => Rec(i, b)' = Rec(i, b))
      /\ \A i \in {last} : /\ Has(i, a)' /\ Rec(i, a)'.action = Head(todo[a])
                           /\ Has(i, a) => Rec(i, a)'.status = Verdict(type, Rec(i, a).status)
  BY HookedRecords
<1>3. streams # << >> /\ streams' # << >> /\ Verb' = Verb /\ a \in Resources
  BY <1>1, <1>2 DEF OpBecomes, Verb, Todo
<1>4. SamePlans
  <2>1. \A i \in 1..last : streams'[i].op.planned = streams[i].op.planned
    BY <1>1 DEF OpBecomes, Written
  <2> QED
    BY <2>1 DEF SamePlans, Plans, Plan
\* A refusal is recorded when it is read, and stays.
<1>5. ASSUME NEW b \in Resources, \A i \in {last} : Plans(i, b) /\ Plan(i, b) = "replace" /\ n \in NounOf(b),
             \A i \in {last} : Has(i, b)' /\ Rec(i, b)'.status = "errored"
      PROVE  HalfReplaced(n)'
  <2>1. \A i \in {Len(streams')} : /\ Plans(i, b)' /\ Has(i, b)' /\ Plan(i, b)' = "replace"
                                   /\ Rec(i, b)'.status = "errored"
    BY <1>2, <1>4, <1>5 DEF SamePlans
  <2>2. b \in DOMAIN Written'.planned \cap DOMAIN Written'.resources /\ Written'.planned[b] = "replace"
        /\ Written'.resources[b].status = "errored"
    BY <2>1 DEF Plans, Has, Plan, Rec, Written
  <2> QED
    BY <1>5, <2>2 DEF HalfReplaced, NounOf
<1>6. HalfReplaced(n) => HalfReplaced(n)'
  <2> SUFFICES ASSUME HalfReplaced(n) PROVE HalfReplaced(n)'
    OBVIOUS
  <2>1. PICK b \in Resources : \A i \in {last} :
          /\ Plans(i, b) /\ Has(i, b) /\ n \in NounOf(b)
          /\ Plan(i, b) = "replace" /\ Rec(i, b).status = "errored"
    BY <1>3, RefusedIsRecorded
  <2>2. b \in DOMAIN Written.resources /\ Written.resources[b].status = "errored"
    BY <2>1 DEF Has, Rec, Written
  <2>3. b # a
    BY <2>2 DEF Course, ErrorsAreFinal
  <2>4. \A i \in {last} : Has(i, b)' /\ Rec(i, b)'.status = "errored"
    BY <1>2, <2>1, <2>3
  <2> QED
    BY <1>5, <2>1, <2>4
<1>7. ASSUME NEW w \in Ann(n), DoneAt(w[1], w[2])
      PROVE  DoneAt(w[1], w[2])' \/ HalfReplaced(n)'
  <2>1. w[1] \in 1..last /\ w[2] \in Resources /\ Plans(w[1], w[2]) /\ n \in NounOf(w[2])
    BY DEF Ann
  <2>2. CASE w[1] # last \/ w[2] # a
    BY <1>2, <1>3, <1>7, <2>1, <2>2 DEF DoneAt
  <2>3. CASE w[1] = last /\ w[2] = a
    <3>1. Replacing(a)
      BY <1>3, <1>7, <2>3 DEF Told, CompleteIsSo
    <3>2. Plan(last, a) = "replace" /\ a \in flight /\ todo[a] = <<"create">>
      BY <3>1 DEF Replacing, Plan, Written
    <3>3. job.kind = "apply" /\ Head(todo[a]) = Verb
      <4>1. job.kind = "apply"
        BY <1>2, <2>1, <2>3, <3>2 DEF Told, PlansAreOwed
      <4> QED
        BY <3>2, <4>1 DEF Verb
    <3>4. type # "apply_start"
      BY <3>2 DEF HookMoves
    <3>5. Has(last, a)
      BY <1>7, <2>3 DEF DoneAt
    <3>6. CASE type = "apply_complete"
      <4>1. \A i \in {last} : DoneAt(i, a)'
        BY <1>2, <1>3, <3>3, <3>5, <3>6 DEF DoneAt, Verdict
      <4> QED
        BY <2>3, <4>1
    <3>7. CASE type = "apply_errored"
      <4>1. \A i \in {last} : Has(i, a)' /\ Rec(i, a)'.status = "errored"
        BY <1>2, <3>5, <3>7 DEF Verdict
      <4> QED
        BY <1>3, <1>5, <2>1, <2>3, <3>2, <4>1
    <3> QED
      BY <3>4, <3>6, <3>7
  <2> QED
    BY <2>2, <2>3
<1> QED
  BY <1>2, <1>3, <1>4, <1>6, <1>7, KnownKept

LEMMA ChargeKnown ==
  ASSUME Types, Types', NEW a \in Resources, Charge(a), NEW n, NEW k, Known(n, k)
  PROVE  Known(n, k)'
BY DEF Charge, Known, Ann, AllDone, DoneAt, HalfReplaced, Has, Rec, Plans, Verb, Written, NounOf

\* A line of a plan: of the first, nothing was done yet; of the second, it
\* leaves the noun alone or names more of it.
LEMMA AnnounceKnown ==
  ASSUME Types, Types', Told, Announcing, NEW n, NEW k, Known(n, k)
  PROVE  Known(n, k)'
<1> DEFINE last == Len(streams)
<1>1. PICK op \in Ops : /\ OpBecomes(op) /\ DOMAIN Written.planned \subseteq DOMAIN op.planned
  BY AnnounceReads
<1>2. /\ job.phase = "planning" /\ job'.kind = job.kind /\ streams # << >> /\ last \in Nat /\ last \in 1..last
      /\ Written.reached = "nothing" /\ DOMAIN Written.resources \subseteq DataSources
      /\ last <= 2 /\ Verb' = Verb /\ Len(streams') = last
  BY <1>1, AnnounceReads, StreamsCount DEF Types, StreamTypes, Busy, PlanHeard, Told, Few, Verb, OpBecomes
<1>3. SameRecords
  BY QuietSteps DEF Quiet
<1>4. \A i \in 1..last, a \in Resources : Plans(i, a) => Plans(i, a)'
  <2>1. streams'[last].op = op /\ streams[last].op = Written
    BY <1>1, <1>2 DEF OpBecomes, Written
  <2>2. \A i \in 1..last : i # last => streams'[i].op = streams[i].op
    BY <1>1 DEF OpBecomes
  <2> QED
    BY <1>1, <2>1, <2>2 DEF Plans
<1>5. Ann(n) \subseteq Ann(n)'
  BY <1>2, <1>4 DEF Ann, NounOf
<1>6. \A a \in Resources : ~Has(last, a)
  BY <1>2 DEF Told, Reaches
<1>7. ~HalfReplaced(n)
  <2> SUFFICES ASSUME HalfReplaced(n) PROVE FALSE
    OBVIOUS
  <2>1. PICK a \in Resources : \A i \in {last} : Has(i, a)
    BY <1>2, RefusedIsRecorded
  <2> QED
    BY <1>6, <2>1
<1>8. AllDone(n) => last = 2
  <2> SUFFICES ASSUME AllDone(n), last # 2 PROVE FALSE
    OBVIOUS
  <2>1. last = 1
    <3>1. \A i \in Nat : i \in 1..i /\ i <= 2 /\ i # 2 => i = 1
      OBVIOUS
    <3> HIDE DEF last
    <3> QED
      BY <1>2, <3>1
  <2>2. PICK w \in Ann(n) : DoneAt(w[1], w[2])
    BY DEF AllDone
  <2>3. w[1] \in 1..last /\ w[2] \in Resources
    BY <2>2 DEF Ann
  <2>4. w[1] = last
    BY <2>1, <2>3
  <2> QED
    BY <1>6, <2>2, <2>3, <2>4 DEF DoneAt
<1>9. last = 2
  BY <1>7, <1>8 DEF Known
<1>10. IsFiniteSet(Ann(n)) /\ IsFiniteSet(Ann(n)') /\ Cardinality(Ann(n)) \in Nat /\ Cardinality(Ann(n)') \in Nat
  <2>1. \A m : IsFiniteSet(Ann(m)) /\ Cardinality(Ann(m)) \in Nat
    BY AnnIsFinite
  <2>2. Types' => (\A m : IsFiniteSet(Ann(m)) /\ Cardinality(Ann(m)) \in Nat)'
    BY AnnFiniteNext
  <2> QED
    BY <2>1, <2>2
<1>11. Cardinality(Ann(n)) <= Cardinality(Ann(n)')
       /\ (Cardinality(Ann(n)) = Cardinality(Ann(n)') => Ann(n) = Ann(n)')
  BY <1>5, <1>10, FS_Subset
<1>12. CASE Ann(n)' = Ann(n)
  <2>1. \A w \in Ann(n) : DoneAt(w[1], w[2]) => DoneAt(w[1], w[2])'
    <3> SUFFICES ASSUME NEW w \in Ann(n), DoneAt(w[1], w[2]) PROVE DoneAt(w[1], w[2])'
      OBVIOUS
    <3>1. w[1] \in 1..last /\ w[2] \in Resources
      BY DEF Ann
    <3> QED
      BY <1>2, <1>3, <3>1 DEF DoneAt, SameRecords
  <2>2. AllDone(n) => AllDone(n)'
    BY <1>12, <2>1 DEF AllDone
  <2> QED
    BY <1>2, <1>7, <1>12, <2>2 DEF Known
<1>13. CASE Ann(n)' # Ann(n)
  <2>1. k < Cardinality(Ann(n)') /\ k <= Cardinality(Ann(n)') /\ k \in Nat
    BY <1>10, <1>11, <1>13 DEF Known
  <2>2. Ann(n)' # {}
    BY <1>5 DEF Known
  <2> QED
    BY <1>2, <1>9, <2>1, <2>2 DEF Known
<1> QED
  BY <1>12, <1>13

\* The first operation ended well, or the second is not begun.
LEMMA OpenKnown ==
  ASSUME Types, Types', Course, Told, Invoke, NEW n, NEW k, Known(n, k)
  PROVE  Known(n, k)'
<1> DEFINE last == Len(streams)
<1>1. streams # << >> /\ last \in Nat
  BY KnownSome, StreamsCount
<1>2. PICK work \in [Resources -> Owes] : Open(work) /\ job.phase = "ready" /\ job.kind \in {"apply", "destroy"}
  BY Opens
<1>3. last # 2
  <2>1. InvokeRollback \/ InvokeDestroy
    BY <1>1 DEF Invoke, InvokeApply, InvokeDestroyAlb
  <2>2. Len(streams) \in {0, 1}
    BY <2>1 DEF InvokeRollback, InvokeDestroy
  <2> QED
    BY <2>2
<1>4. ~HalfReplaced(n)
  BY <1>1, <1>2, RefusedIsErred DEF Course, Aims
<1>5. AllDone(n)
  BY <1>3, <1>4 DEF Known
<1>6. /\ Len(streams') = last + 1 /\ Written' = Unread /\ streams' # << >> /\ job'.kind = job.kind
      /\ \A i \in 1..last : streams'[i] = streams[i]
  BY <1>2, OpenTypes, OpenedStreams
<1>7. \A i \in {last + 1}, a \in Resources : ~Plans(i, a)'
  BY <1>6 DEF Plans, Written, Unread
<1>8. \A i \in 1..last, a \in Resources : (Plans(i, a)' <=> Plans(i, a)) /\ (DoneAt(i, a)' <=> DoneAt(i, a))
  BY <1>6 DEF Plans, DoneAt, Has, Rec, Verb
<1>9. Ann(n)' = Ann(n)
  <2>1. \A i \in 1..(last + 1), a \in Resources : Plans(i, a)' <=> i \in 1..last /\ Plans(i, a)
    <3> SUFFICES ASSUME NEW i \in 1..(last + 1), NEW a \in Resources
                 PROVE  Plans(i, a)' <=> i \in 1..last /\ Plans(i, a)
      OBVIOUS
    <3>1. i \in 1..last \/ i = last + 1
      BY <1>1
    <3>2. i = last + 1 => i \notin 1..last
      BY <1>1
    <3> QED
      BY <1>7, <1>8, <3>1, <3>2
  <2>2. 1..last \subseteq 1..(last + 1)
    BY <1>1
  <2> HIDE DEF last
  <2>3. Ann(n) = {w \in (1..last) \X Resources : Plans(w[1], w[2]) /\ n \in NounOf(w[2])}
    BY DEF Ann, last
  <2>4. Ann(n)' = {w \in (1..(last + 1)) \X Resources : Plans(w[1], w[2])' /\ n \in NounOf(w[2])}
    BY <1>6 DEF Ann, NounOf, last
  <2> QED
    BY <2>1, <2>2, <2>3, <2>4
<1>10. AllDone(n)'
  <2>1. \A w \in Ann(n) : DoneAt(w[1], w[2])'
    <3> SUFFICES ASSUME NEW w \in Ann(n) PROVE DoneAt(w[1], w[2])'
      OBVIOUS
    <3>1. w[1] \in 1..last /\ w[2] \in Resources /\ DoneAt(w[1], w[2])
      BY <1>5 DEF Ann, AllDone
    <3> QED
      BY <1>8, <3>1
  <2> QED
    BY <1>5, <1>9, <2>1 DEF AllDone
<1> QED
  BY <1>9, <1>10 DEF Known

LEMMA ProgressKept ==
  ASSUME Types, Sidesteps, ~Watch
  PROVE  site'.progress = site.progress
<1>1. CASE PublishTimeline \/ PublishNodes \/ PublishAnchor \/ PublishCost \/ LoseRunner
  <2>1. PICK next : Skip(next) \/ \E field \in Fields \ {"progress"} : \E doc : Put(field, doc, next)
    BY <1>1 DEF PublishTimeline, PublishNodes, PublishAnchor, PublishCost, LoseRunner, Fields
  <2> QED
    BY <2>1 DEF Skip, Put, Types, Fields
<1>2. CASE Announcing
  BY <1>2, AnnounceReads
<1> QED
  BY <1>1, <1>2 DEF Sidesteps, Summarise, Return, Finish, Cancel, vars

\* The last reading stays, the job goes on, and what is known of a noun too.
LEMMA KeptBehind ==
  ASSUME Types, Behind, site'.progress = site.progress, job'.run = job.run, job'.kind = job.kind,
         \A n, k : Known(n, k) => Known(n, k)'
  PROVE  Behind'
BY DEF Behind, MadeIn, GoneIn, Done

\* What the reading of the streams calls done, by what was read of them.
LEMMA DoneRead ==
  ASSUME Followed, streams # << >>
  PROVE  /\ \A n \in MadeIn(ReadingNow) : /\ job.kind = "apply" /\ AllDone(n)
                                          /\ ReadingNow.nodes[n].planned = Cardinality(Ann(n))
         /\ \A n \in GoneIn(ReadingNow) : /\ job.kind = "destroy" /\ AllDone(n)
                                          /\ ReadingNow.deleting[n].planned = Cardinality(Ann(n))
         /\ job.kind = "apply" => \A n : AllDone(n) /\ n \notin DestroyNodes(Environment) => n \in MadeIn(ReadingNow)
         /\ job.kind = "destroy" => \A n : AllDone(n) => n \in GoneIn(ReadingNow)
<1>1. ReadingNow.kind = job.kind /\ job.kind \in {"apply", "destroy"}
  BY KindRead DEF Followed
<1>2. CASE job.kind = "apply"
  <2>1. GoneIn(ReadingNow) = {} /\ MadeIn(ReadingNow) = Done(ReadingNow.nodes) \ DestroyNodes(Environment)
    BY <1>1, <1>2 DEF GoneIn, MadeIn
  <2>2. ASSUME NEW n, n \notin DestroyNodes(Environment)
        PROVE  /\ n \in MadeIn(ReadingNow) <=> AllDone(n)
               /\ n \in MadeIn(ReadingNow) => ReadingNow.nodes[n].planned = Cardinality(Ann(n))
    <3>1. n \in Done(ReadingNow.nodes) <=> AllDone(n)
      BY <1>2, <2>2, NodeDone DEF Followed, Done
    <3>2. AllDone(n) => PlannedCount(TimelineNow, n) = Cardinality(Ann(n))
      BY <1>2, <2>2, NodeDone DEF Followed, AllDone
    <3>3. n \in DOMAIN ReadingNow.nodes => ReadingNow.nodes[n].planned = PlannedCount(TimelineNow, n)
      BY <1>2, <2>2, NodeDone DEF Followed
    <3> QED
      BY <2>1, <2>2, <3>1, <3>2, <3>3 DEF Done
  <2> QED
    BY <1>2, <2>1, <2>2
<1>3. CASE job.kind = "destroy"
  <2>1. MadeIn(ReadingNow) = {} /\ GoneIn(ReadingNow) = Done(ReadingNow.deleting)
    BY <1>1, <1>3 DEF GoneIn, MadeIn
  <2>2. ASSUME NEW n
        PROVE  /\ n \in GoneIn(ReadingNow) <=> AllDone(n)
               /\ n \in GoneIn(ReadingNow) => ReadingNow.deleting[n].planned = Cardinality(Ann(n))
    <3>1. n \in Done(ReadingNow.deleting) <=> AllDone(n)
      BY <1>3, NounGone DEF Followed, Done
    <3>2. AllDone(n) => DeletingPlanned(TimelineNow, n) = Cardinality(Ann(n))
      BY <1>3, NounGone DEF Followed, AllDone
    <3>3. n \in DOMAIN ReadingNow.deleting => ReadingNow.deleting[n].planned = DeletingPlanned(TimelineNow, n)
      BY <1>3, NounGone DEF Followed
    <3> QED
      BY <2>1, <3>1, <3>2, <3>3 DEF Done
  <2> QED
    BY <1>3, <2>1, <2>2
<1> QED
  BY <1>1, <1>2, <1>3

LEMMA ReadingRun == ReadingNow.run = job.run
BY DEF ReadingNow, Join, TimelineNow, Build

LEMMA BehindStep ==
  ASSUME Followed, Types', Behind, [Next]_vars
  PROVE  Behind'
<1>1. Types /\ Course /\ Told /\ job.run \in Nat
  BY DEF Followed, Types, JobTypes, Jobs
<1>2. ASSUME NEW kind, Begin(kind) PROVE Behind'
  <2>1. job'.run = job.run + 1 /\ site' = site
    BY <1>2 DEF Begin
  <2> QED
    BY <1>1, <2>1 DEF Behind
<1>3. CASE Invoke
  <2>1. site' = site /\ job'.run = job.run /\ job'.kind = job.kind
    <3>1. PICK work : Open(work)
      BY <1>1, <1>3, Opens
    <3> QED
      BY <1>1, <3>1 DEF Open, Types, JobTypes, Jobs
  <2> QED
    BY <1>1, <1>3, <2>1, OpenKnown, KeptBehind
<1>4. ASSUME NEW a \in Resources, StartHook(a) \/ FinishHook(a) \/ FailHook(a) PROVE Behind'
  <2>1. PICK type \in {"apply_start", "apply_complete", "apply_errored"} : Hooked(type, a) /\ HookMoves(type, a)
    BY <1>1, <1>4, HookMovesCases
  <2>2. a \in Todo /\ job.phase = "working" /\ UNCHANGED job /\ site' = site
    BY <1>1, <1>4, HookMovesCases
  <2> QED
    BY <1>1, <2>1, <2>2, HookKnown, KeptBehind
<1>5. ASSUME NEW a \in Resources, Charge(a) PROVE Behind'
  <2>1. UNCHANGED <<job, site>>
    BY <1>5 DEF Charge
  <2> QED
    BY <1>1, <1>5, <2>1, ChargeKnown, KeptBehind
<1>6. CASE Watch
  <2>1. /\ site'.progress = ReadingNow /\ job' = job /\ streams' = streams /\ streams # << >>
        /\ job.run # 0 /\ UNCHANGED <<todo, estate>>
    BY <1>1, <1>6 DEF Watch, Types, Fields, JobTypes
  <2>2. \A n \in MadeIn(ReadingNow) : job.kind = "apply" /\ Known(n, ReadingNow.nodes[n].planned)
    BY <1>1, <2>1, DoneRead, AnnIsFinite DEF Known, AllDone
  <2>3. \A n \in GoneIn(ReadingNow) : job.kind = "destroy" /\ Known(n, ReadingNow.deleting[n].planned)
    BY <1>1, <2>1, DoneRead, AnnIsFinite DEF Known, AllDone
  <2>4. \A n, k : Known(n, k) => Known(n, k)'
    BY <2>1 DEF Known, Ann, AllDone, DoneAt, HalfReplaced, Has, Rec, Plans, Verb, Written, NounOf
  <2> HIDE DEF Known, MadeIn, GoneIn
  <2>5. MadeIn(site.progress)' = MadeIn(ReadingNow) /\ GoneIn(site.progress)' = GoneIn(ReadingNow)
    BY <2>1 DEF MadeIn, GoneIn
  <2> QED
    BY <1>1, <2>1, <2>2, <2>3, <2>4, <2>5, ReadingRun DEF Behind
<1>7. CASE Sidesteps /\ ~Watch
  <2>1. site'.progress = site.progress /\ job'.run = job.run /\ job'.kind = job.kind
    BY <1>1, <1>7, ProgressKept, QuietSteps DEF Sidesteps, Quiet, SameJob
  <2>2. \A n, k : Known(n, k) => Known(n, k)'
    BY <1>1, <1>7, SidestepsCalm, CalmKnown, AnnounceKnown
  <2> QED
    BY <1>1, <2>1, <2>2, KeptBehind
<1> QED
  BY <1>2, <1>3, <1>4, <1>5, <1>6, <1>7, StepKinds DEF Sidesteps

\* A teardown replaces nothing.
LEMMA TeardownsReplaceNothing ==
  ASSUME Types, Told, job.kind = "destroy", streams # << >>, NEW n
  PROVE  ~HalfReplaced(n)
<1>1. Len(streams) \in 1..Len(streams)
  BY StreamsCount
<1> QED
  BY <1>1, RefusedIsRecorded DEF Told, PlansAreOwed

\* A later reading of the same job takes back that a noun is made or gone for
\* two reasons only, whatever lines the watcher reads at: the second plan names
\* more of it, or what was being replaced could not be made again.
THEOREM DoneStaysDone == Spec => MeasuredIsStable
<1> DEFINE Stays ==
      site.progress # NoDoc /\ site'.progress.run = site.progress.run =>
        /\ \A n \in MadeIn(site.progress) \ MadeIn(site'.progress) :
             \/ HalfReplaced(n)
             \/ Len(streams) = 2 /\ site.progress.nodes[n].planned < PlannedCount(TimelineNow, n)
        /\ \A n \in GoneIn(site.progress) \ GoneIn(site'.progress) :
             Len(streams) = 2 /\ site.progress.deleting[n].planned < DeletingPlanned(TimelineNow, n)
<1>1. Followed /\ Behind /\ [Next]_vars => [Stays]_vars
  <2> SUFFICES ASSUME Followed, Behind, [Next]_vars PROVE Stays
    OBVIOUS
  <2>1. CASE site'.progress = site.progress
    BY <2>1 DEF Stays
  <2>2. CASE Watch
    <3> SUFFICES ASSUME site.progress # NoDoc, site'.progress.run = site.progress.run PROVE Stays
      BY DEF Stays
    <3>1. site'.progress = ReadingNow /\ streams # << >> /\ site.progress.run = job.run
      BY <2>2, ReadingRun DEF Watch, Followed, Types, Fields
    <3>2. ASSUME NEW n \in MadeIn(site.progress) \ MadeIn(ReadingNow)
          PROVE  \/ HalfReplaced(n)
                 \/ Len(streams) = 2 /\ site.progress.nodes[n].planned < PlannedCount(TimelineNow, n)
      <4>1. job.kind = "apply" /\ Known(n, site.progress.nodes[n].planned)
        BY <3>1 DEF Behind
      <4>2. n \notin DestroyNodes(Environment)
        BY DEF MadeIn
      <4>3. ~AllDone(n)
        BY <3>1, <4>1, <4>2, DoneRead
      <4>4. PlannedCount(TimelineNow, n) = Cardinality(Ann(n))
        BY <4>1, <4>2, NodeDone DEF Followed, Known
      <4> QED
        BY <4>1, <4>3, <4>4 DEF Known
    <3>3. ASSUME NEW n \in GoneIn(site.progress) \ GoneIn(ReadingNow)
          PROVE  Len(streams) = 2 /\ site.progress.deleting[n].planned < DeletingPlanned(TimelineNow, n)
      <4>1. job.kind = "destroy" /\ Known(n, site.progress.deleting[n].planned)
        BY <3>1 DEF Behind
      <4>2. ~AllDone(n)
        BY <3>1, <4>1, DoneRead
      <4>3. DeletingPlanned(TimelineNow, n) = Cardinality(Ann(n))
        BY <4>1, NounGone DEF Followed, Known
      <4>4. ~HalfReplaced(n)
        BY <3>1, <4>1, TeardownsReplaceNothing DEF Followed
      <4> QED
        BY <4>1, <4>2, <4>3, <4>4 DEF Known
    <3> QED
      BY <3>1, <3>2, <3>3 DEF Stays
  <2>3. ASSUME ~Watch PROVE site'.progress = site.progress
    <3>1. Types
      BY DEF Followed
    <3>2. CASE Sidesteps
      BY <2>3, <3>1, <3>2, ProgressKept
    <3>3. CASE Invoke
      <4>1. PICK work : Open(work)
        BY <3>1, <3>3, Opens
      <4> QED
        BY <4>1 DEF Open
    <3> QED
      BY <3>2, <3>3, StepKinds DEF Begin, StartHook, Charge, FinishHook, FailHook
  <2> QED
    BY <2>1, <2>2, <2>3
<1>2. Init => Behind
  BY DEF Init, Behind, NoDoc
<1>3. Followed /\ Behind /\ [Next]_vars => Followed' /\ Behind'
  BY FollowedStep, BehindStep DEF Followed
<1> QED
  BY <1>1, <1>2, <1>3, InitFollowed, PTL DEF Spec, MeasuredIsStable, Stays
=============================================================================
