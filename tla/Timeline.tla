------------------------------ MODULE Timeline ------------------------------
(***************************************************************************)
(* scripts/fold-timeline.py: what Terraform's own event streams say of one *)
(* run.  Every operator here is a pure function of the captured streams.   *)
(* tf-stream.sh leaves them in the order of the invocations; any prefix of *)
(* a stream can be folded, and the live reading folds exactly that.        *)
(*                                                                         *)
(* A stream is [cmd, rc, op]: what was run, the exit code, and what the    *)
(* lines captured so far have been read into (reading is one line at a     *)
(* time, so what has been read of a prefix is kept instead of its lines).  *)
(* An event is [type, addr, action, at], where "at" is an instant and      *)
(* Nowhere stands for an absent address.                                   *)
(* Wording, identifiers and counts of event types are left out.            *)
(***************************************************************************)
EXTENDS Integers, Sequences, FiniteSets, SequencesExt

None    == -1          \* a timestamp or an exit code that is not there
Torn    == -2          \* an .rc file that exists and does not hold a number
Nowhere == "nowhere"   \* an event without a resource address

Hooks == {"apply_start", "apply_progress", "apply_complete", "apply_errored"}
TerminalOperations == {"apply", "destroy"}

\* An operation before any line of its stream has been read.
Unread == [planned |-> << >>, resources |-> << >>,
           reached |-> "nothing", terminal |-> FALSE,
           first |-> None, last |-> None]

\* The moments an operation spans: the widest interval its events name.
Earlier(a, b) == IF a = None \/ (b # None /\ b < a) THEN b ELSE a
Later(a, b)   == IF b > a THEN b ELSE a

\* A dictionary with one entry set.
With(f, x, value) == [y \in DOMAIN f \cup {x} |-> IF y = x THEN value ELSE f[y]]

\* One hook event, on the record of its address.  Only a verdict event
\* moves the status, so a record keeps the last verdict it was given.
ConsumeHook(resources, e) ==
  LET seen   == IF e.addr \in DOMAIN resources THEN resources[e.addr]
                ELSE [action |-> e.action, status |-> "incomplete",
                      started |-> None, finished |-> None]
      named  == [seen EXCEPT !.action = e.action]
      closed(verdict) == [named EXCEPT !.status = verdict, !.finished = e.at]
  IN  With(resources, e.addr, CASE e.type = "apply_start"    -> [named EXCEPT !.started = e.at]
                                [] e.type = "apply_complete" -> closed("complete")
                                [] e.type = "apply_errored"  -> closed("errored")
                                [] OTHER                     -> named)

\* A change_summary: the terminal one settles what was reached, the plan's
\* only says what the invocation was going to do.
ConsumeSummary(op, e) ==
  IF e.action \in TerminalOperations
  THEN [op EXCEPT !.terminal = TRUE, !.reached = e.action]
  ELSE [op EXCEPT !.reached = IF @ = "nothing" THEN "plan" ELSE @]

\* One line of a stream.  A line that does not parse is counted and dropped.
Consume(op, e) ==
  LET stamped == [op EXCEPT !.first = Earlier(@, e.at), !.last = Later(@, e.at)]
  IN  CASE e.type = "garbled"        -> op
        [] e.type = "change_summary" -> ConsumeSummary(stamped, e)
        [] e.type = "planned_change" /\ e.addr # Nowhere ->
             [stamped EXCEPT !.planned = With(@, e.addr, e.action)]
        [] e.type \in Hooks /\ e.addr # Nowhere ->
             [stamped EXCEPT !.resources = ConsumeHook(@, e)]
        [] OTHER -> stamped

\* Bug: a fold that takes the word of the events and does not ask for the rest.
OpStatusOfTheEvents(op, exitCode) ==
  LET verdicts == {op.resources[a].status : a \in DOMAIN op.resources}
  IN  IF "errored" \in verdicts \/ exitCode \notin {None, 0} THEN "errored"
      ELSE IF verdicts \subseteq {"complete"} THEN "complete" ELSE "incomplete"

\* Three signals, and the weakest one wins.
OpStatus(op, exitCode) ==
  LET verdicts == {op.resources[a].status : a \in DOMAIN op.resources}
  IN  IF exitCode = None THEN "incomplete"
      ELSE IF "errored" \in verdicts \/ exitCode # 0 THEN "errored"
      ELSE IF op.terminal /\ verdicts \subseteq {"complete"} THEN "complete" ELSE "incomplete"

\* One captured stream, folded.  What was run beats what was reached.
ReadOp(stream) ==
  LET op == stream.op
      exitCode == IF stream.rc \in Nat THEN stream.rc ELSE None
  IN  [command   |-> IF stream.cmd # "none" THEN stream.cmd ELSE op.reached,
       status    |-> OpStatus(op, exitCode),
       started   |-> op.first, finished |-> op.last,
       planned   |-> op.planned,
       resources |-> op.resources]

TimelineStatus(ops) ==
  LET statuses == {op.status : op \in Range(ops)}
  IN  IF statuses = {} \/ "incomplete" \in statuses THEN "incomplete"
      ELSE IF "errored" \in statuses THEN "errored" ELSE "complete"

\* How many resources, over all operations, finished one of these actions.
Finished(ops, actions) ==
  Cardinality({w \in UNION {{<<i, a>> : a \in DOMAIN ops[i].resources} : i \in DOMAIN ops} :
                 LET r == ops[w[1]].resources[w[2]]
                 IN  r.status = "complete" /\ r.action \in actions})

\* The timeline of a run.  No stream at all means no timeline is written.
Build(environment, run, streams) ==
  LET ops  == [i \in DOMAIN streams |-> ReadOp(streams[i])]
      ends == [first |-> {ops[i].started  : i \in DOMAIN ops} \ {None},
               last  |-> {ops[i].finished : i \in DOMAIN ops} \ {None}]
  IN  [environment |-> environment, run |-> run,
       status      |-> TimelineStatus(ops),
       started     |-> IF ends.first = {} THEN None ELSE Min(ends.first),
       finished    |-> IF ends.last  = {} THEN None ELSE Max(ends.last),
       created     |-> Finished(ops, {"create", "replace"}),
       destroyed   |-> Finished(ops, {"delete"}),
       ops         |-> ops]
=============================================================================
