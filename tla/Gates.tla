-------------------------------- MODULE Gates --------------------------------
(***************************************************************************)
(* scripts/run-gates.py: the one list of gates, the refusals that keep it  *)
(* as wide as the repository, and the runner that tries each gate of it.   *)
(* Targets of the Makefile are members of a set; GateLike are those whose  *)
(* name or recipe says that they are gates.  A line of ci.yml is the       *)
(* sequence of the targets its make call names.                            *)
(***************************************************************************)
EXTENDS Naturals, FiniteSets, Sequences

CONSTANTS
    Targets, GateLike,
    Runner, Checker,        \* the list's own two targets
    CiLines,                \* the make calls somebody may write in ci.yml
    Capabilities,           \* the names of PROBES
    Entries,                \* what a target's row may say
    NoEntry

VARIABLES
    makefile,   \* the targets the Makefile defines
    ci,         \* the make calls of ci.yml, of CiLines
    list,       \* target -> row of assets/gates.json: [local, step, needs, requires]
    machine,    \* the capabilities the machine has now
    run         \* the last run: [at, full, have, todo, ok, bad]
vars == <<makefile, ci, list, machine, run>>

NoRun == [at |-> "none", full |-> FALSE, have |-> {}, todo |-> {}, ok |-> {}, bad |-> {}]

-----------------------------------------------------------------------------
Listed == {t \in Targets : list[t] # NoEntry}
LocalGates == {t \in Listed : list[t].local}

CiTargets == {line[1] : line \in ci}

\* Bug: gates are discovered by their names alone.
DiscoveredByName == (makefile \cap GateLike) \ {Runner, Checker}

\* What runs the list, and what refuses it, is not a gate of its own.
Discovered == ((makefile \cap GateLike) \cup CiTargets) \ {Runner, Checker}

RowRefused(t) ==
    \/ ~list[t].local /\ ~list[t].needs
    \/ ~list[t].local /\ list[t].needs /\ ~list[t].step /\ list[t].requires = {}
    \/ ~(list[t].requires \subseteq Capabilities)

Problems ==
    \/ LocalGates = {}
    \/ \E t \in Listed : RowRefused(t) \/ t \notin makefile
    \/ ~(Discovered \subseteq Listed)

\* Asked of the machine at the start of the run, of the rows that are no steps.
Extra(have) == {t \in Listed \ LocalGates : ~list[t].step /\ list[t].requires \subseteq have}

-----------------------------------------------------------------------------
Edited == run' = NoRun /\ UNCHANGED machine

EditMakefile(t) ==
    /\ makefile' = IF t \in makefile THEN makefile \ {t} ELSE makefile \cup {t}
    /\ Edited /\ UNCHANGED <<ci, list>>

EditCi(line) ==
    /\ ci' = IF line \in ci THEN ci \ {line} ELSE ci \cup {line}
    /\ Edited /\ UNCHANGED <<makefile, list>>

EditList(t, entry) ==
    /\ list[t] # entry
    /\ list' = [list EXCEPT ![t] = entry]
    /\ Edited /\ UNCHANGED <<makefile, ci>>

\* A stack comes up or goes down, a tool is installed.
MachineChanges(c) ==
    /\ machine' = IF c \in machine THEN machine \ {c} ELSE machine \cup {c}
    /\ UNCHANGED <<makefile, ci, list, run>>

StartRun(full) ==
    /\ run.at = "none"
    /\ run' = IF Problems THEN [NoRun EXCEPT !.at = "refused"]
              ELSE [at |-> "running", full |-> full, have |-> IF full THEN machine ELSE {},
                    todo |-> LocalGates \cup (IF full THEN Extra(machine) ELSE {}),
                    ok |-> {}, bad |-> {}]
    /\ UNCHANGED <<makefile, ci, list, machine>>

\* `make <gate>`: it fails when the repository does, and when what it needs has
\* gone since the probe.
Attempt(t, passes) ==
    /\ run.at = "running" /\ t \in run.todo
    /\ passes => list[t].local \/ list[t].requires \subseteq machine
    /\ run' = [at |-> "running", full |-> run.full, have |-> run.have, todo |-> run.todo \ {t},
               ok  |-> IF passes THEN run.ok \cup {t} ELSE run.ok,
               bad |-> IF passes THEN run.bad ELSE run.bad \cup {t}]
    /\ UNCHANGED <<makefile, ci, list, machine>>

Finish ==
    /\ run.at = "running" /\ run.todo = {}
    /\ run' = [run EXCEPT !.at = IF run.bad = {} THEN "green" ELSE "red"]
    /\ UNCHANGED <<makefile, ci, list, machine>>

Init ==
    /\ makefile = {Runner, Checker} /\ ci = {}
    /\ list = [t \in Targets |-> NoEntry]
    /\ machine = {} /\ run = NoRun

Next ==
    \/ \E t \in Targets : EditMakefile(t)
    \/ \E line \in CiLines : EditCi(line)
    \/ \E t \in Targets \ {Runner, Checker}, entry \in Entries \cup {NoEntry} : EditList(t, entry)
    \/ \E c \in Capabilities : MachineChanges(c)
    \/ \E full \in BOOLEAN : StartRun(full)
    \/ \E t \in Targets, passes \in BOOLEAN : Attempt(t, passes)
    \/ Finish

Spec == Init /\ [][Next]_vars

-----------------------------------------------------------------------------
TypeOK ==
    /\ makefile \subseteq Targets /\ ci \subseteq CiLines /\ machine \subseteq Capabilities
    /\ \A t \in Targets : list[t] \in Entries \cup {NoEntry}
    /\ run.at \in {"none", "refused", "running", "green", "red"}
    /\ run.todo \cup run.ok \cup run.bad \subseteq makefile
    /\ run.todo \cap (run.ok \cup run.bad) = {} /\ run.ok \cap run.bad = {}

\* A green full run answers for every gate of the repository as it is: each
\* target that is a gate by name, by recipe or by a make call of ci.yml passed,
\* or is no check, or lacked a capability when the machine was asked.
GreenIsWhole == run.at = "green" => \A t \in Targets \ {Runner, Checker} :
    \/ ~(t \in makefile \cap GateLike \/ \E line \in ci : line[1] = t)
    \/ t \in run.ok
    \/ t \in Listed /\ ~list[t].local /\ (~run.full \/ list[t].step \/ ~(list[t].requires \subseteq run.have))

\* A gate is red because it failed or because what the machine was found to have
\* went away, never because the runner tried what it could not do.
NeverBlind == run.at \in {"running", "green", "red"} => \A t \in run.todo \cup run.bad :
    list[t].local \/ (run.full /\ list[t].requires \subseteq run.have)

\* "CI runs the local ones through `make gates` and the rest as their own
\* steps" (assets/gates.json, _gates): what the refusals let pass, some line of
\* ci.yml runs.
EveryGateHasAReader == run.at = "green" => \A t \in Listed :
    \/ list[t].local /\ Runner \in CiTargets
    \/ t \in CiTargets
=============================================================================
