---------------------------- MODULE LiveBindings ----------------------------
(***************************************************************************)
(* The bindings of the map to the workflows: generate-topology.py resolves *)
(* each of them from the workflow files (live_bindings), and the page      *)
(* compares the result with what the Actions API says of the run in        *)
(* flight (bindingState in site/index.html).  A workflow file maps its     *)
(* jobs to their steps, the workflow they call and the display name they   *)
(* carry; the API names a job by its path of calls.                        *)
(***************************************************************************)
EXTENDS Naturals, FiniteSets, Sequences

CONSTANTS
    Files, JobKeys, StepNames,
    Bindings,       \* [workflow, job, steps], the ones with `when: step`
    MayName,        \* <<file, job, name>>: the display names somebody may give
    None

VARIABLES
    workflows,  \* file -> job -> [steps, uses, name]
    live        \* the resolved bindings, Unresolved if a file was edited since
vars == <<workflows, live>>

Unresolved == [ok |-> FALSE, bound |-> {}]
NoJob == [steps |-> {}, uses |-> None, name |-> None]
Jobs(file) == {j \in JobKeys : workflows[file][j] # NoJob}

\* workflow_jobs and workflow_calls: by the keys the file has.
Inner(file) == CHOOSE j \in Jobs(file) : TRUE

CallsOne(job) == job.uses # None /\ Cardinality(Jobs(job.uses)) = 1

\* The steps a binding is checked against: the callee's, for a call.
StepOwner(job) == IF job.uses = None THEN job.steps ELSE workflows[job.uses][Inner(job.uses)].steps

\* Bug: a call is named by its own key alone.
JobNameOfFile(b, job) == <<b.job>>

JobName(b, job) == IF job.uses = None THEN <<b.job>> ELSE <<b.job, Inner(job.uses)>>

\* A binding that is refused: no such job, a call that cannot be named, a step
\* its job does not have, or no step at all.
Refused(b) ==
    LET job == workflows[b.workflow][b.job]
    IN  \/ b.job \notin Jobs(b.workflow)
        \/ job.uses # None /\ ~CallsOne(job)
        \/ ~(b.steps \subseteq StepOwner(job))
        \/ b.steps = {}

Resolve(b) == [path |-> b.workflow, job |-> JobName(b, workflows[b.workflow][b.job]), steps |-> b.steps]

-----------------------------------------------------------------------------
\* What the API reports of a run: each job by its display name, or its key, and
\* a job that calls a workflow by the jobs of that workflow.
Shown(file, j) == IF workflows[file][j].name = None THEN j ELSE workflows[file][j].name
Reported(file) ==
    {[name |-> <<Shown(file, j)>>, steps |-> workflows[file][j].steps] :
        j \in {k \in Jobs(file) : workflows[file][k].uses = None}}
    \cup UNION {{[name |-> <<Shown(file, j), Shown(workflows[file][j].uses, i)>>,
                  steps |-> workflows[workflows[file][j].uses][i].steps] :
                    i \in Jobs(workflows[file][j].uses)} :
                j \in {k \in Jobs(file) : workflows[file][k].uses # None}}

\* bindingState: the phase is busy while a bound step of the bound job runs.
Lit(b, file, jobName, step) == b.path = file /\ b.job = jobName /\ step \in b.steps

-----------------------------------------------------------------------------
Put(file, j, job) ==
    /\ workflows' = [workflows EXCEPT ![file] = [@ EXCEPT ![j] = job]]
    /\ live' = Unresolved

WriteSteps(file, j, steps) ==
    /\ workflows[file][j].uses = None /\ steps # workflows[file][j].steps
    /\ Put(file, j, [workflows[file][j] EXCEPT !.steps = steps])

\* A job becomes a call of another workflow, of which it keeps no step; a
\* called workflow of this repository calls none itself.
CallWorkflow(file, j, callee) ==
    /\ callee # file
    /\ \A k \in JobKeys : workflows[callee][k].uses = None
    /\ \A f \in Files, k \in JobKeys : workflows[f][k].uses # file
    /\ Put(file, j, [steps |-> {}, uses |-> callee, name |-> workflows[file][j].name])

RemoveJob(file, j) == workflows[file][j] # NoJob /\ Put(file, j, NoJob)

NameJob(file, j, name) ==
    /\ workflows[file][j] # NoJob /\ workflows[file][j].name # name
    /\ Put(file, j, [workflows[file][j] EXCEPT !.name = name])

\* make site-data, as far as the bindings go.
ResolveAll ==
    /\ ~live.ok /\ \A b \in Bindings : ~Refused(b)
    /\ live' = [ok |-> TRUE, bound |-> {Resolve(b) : b \in Bindings}]
    /\ UNCHANGED workflows

Init == /\ workflows = [f \in Files |-> [j \in JobKeys |-> NoJob]]
        /\ live = Unresolved

Next ==
    \/ \E f \in Files, j \in JobKeys :
        \/ \E steps \in SUBSET StepNames : WriteSteps(f, j, steps)
        \/ \E callee \in Files : CallWorkflow(f, j, callee)
        \/ RemoveJob(f, j)
    \/ \E m \in MayName : NameJob(m[1], m[2], m[3])
    \/ ResolveAll

Spec == Init /\ [][Next]_vars

-----------------------------------------------------------------------------
TypeOK ==
    /\ \A f \in Files, j \in JobKeys :
          /\ workflows[f][j].steps \subseteq StepNames
          /\ workflows[f][j].uses \in Files \cup {None}
          /\ workflows[f][j].name \in {m[3] : m \in MayName} \cup {None}
    /\ \A b \in live.bound : b.path \in Files /\ b.steps # {}

\* No job on the way to the bound one carries a display name.
Unnamed(b) ==
    LET job == workflows[b.path][b.job[1]]
    IN  /\ job.name = None
        /\ Len(b.job) = 2 => workflows[job.uses][b.job[2]].name = None

\* "Renaming a step breaks the pulse silently; this is that rename, caught"
\* (generate-topology.py, live_bindings): once the bindings are resolved, each
\* bound step is run by a job of the bound workflow whose name the API gives as
\* the binding does, through renames, removals and calls of other workflows.
PulseFires == live.ok => \A b \in live.bound : Unnamed(b) => \A step \in b.steps :
    \E job \in Reported(b.path) : step \in job.steps /\ Lit(b, b.path, job.name, step)

\* The same of a job with a display name: the API reports that, and the binding
\* has the key.
NamedJobsFire == live.ok => \A b \in live.bound : \A step \in b.steps :
    \E job \in Reported(b.path) : step \in job.steps /\ Lit(b, b.path, job.name, step)
=============================================================================
