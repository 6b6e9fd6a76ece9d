------------------------------- MODULE TestRun -------------------------------
(***************************************************************************)
(* The test phase of a deploy (deploy-stage.yml, promote-prod.yml) over    *)
(* the life of the inventory: a checkout is edited, site/data/suites.json  *)
(* collected and gated, an image built, the suites run one after the other *)
(* and, however the job went, their reports folded onto the map.  A run    *)
(* works in a checkout of its own, so the repository is edited between     *)
(* runs only.                                                              *)
(***************************************************************************)
EXTENDS Suites

CONSTANTS
    Repos,      \* the states of the repository a checkout may have
    Attempts    \* what Playwright may record of one test: its results, in order

VARIABLES
    repo,       \* the checkout
    inventory,  \* site/data/suites.json in it
    gate,       \* what suite-inventory-check said of the two, if it was asked
    image,      \* the database checks baked into the image
    env,        \* the environment of the run
    at,         \* the step of the job
    failed,     \* a step has failed
    files,      \* the reports on the runner
    did,        \* ghost: what every test that ran did, [suite, name, file, raw]
    doc         \* what the fold made of them
vars == <<repo, inventory, gate, image, env, at, failed, files, did, doc>>
source == <<repo, inventory, gate>>

NoDoc == [kind |-> "none"]
NoFiles == [f \in {"junit", "playwright", "dbLog"} |-> NoFile]
Idle == at \in {"idle", "done"}
Running == at \in {"db", "coverage", "api", "browser"}

Init ==
    /\ repo \in Repos /\ ~CollectRefuses(repo)
    /\ inventory = Collect(repo)
    /\ gate = "unasked"
    /\ image = repo.db
    /\ env = "stage" /\ at = "idle" /\ failed = FALSE
    /\ files = NoFiles /\ did = {} /\ doc = NoDoc

-----------------------------------------------------------------------------
Edit(r) ==
    /\ Idle /\ r # repo
    /\ repo' = r /\ gate' = "unasked"
    /\ at' = "idle" /\ doc' = NoDoc /\ files' = NoFiles /\ did' = {} /\ failed' = FALSE
    /\ UNCHANGED <<inventory, image, env>>

\* make suite-inventory: written only when nothing was refused.
WriteInventory ==
    /\ Idle /\ ~CollectRefuses(repo) /\ inventory # Collect(repo)
    /\ inventory' = Collect(repo) /\ gate' = "unasked"
    /\ at' = "idle" /\ doc' = NoDoc /\ files' = NoFiles /\ did' = {} /\ failed' = FALSE
    /\ UNCHANGED <<repo, image, env>>

Checked == IF CollectRefuses(repo) THEN "refused"
           ELSE IF inventory # Collect(repo) THEN "drift" ELSE "clean"

CheckInventory ==
    /\ Idle /\ gate = "unasked"
    /\ gate' = Checked
    /\ UNCHANGED <<repo, inventory, image, env, at, failed, files, did, doc>>

-----------------------------------------------------------------------------
\* A stage deploy builds the image from its checkout; a promotion takes the
\* image that stage built, whatever the checkout says by now.
StartRun(e) ==
    /\ Idle
    /\ env' = e /\ at' = "db"
    /\ image' = IF e = "stage" THEN repo.db ELSE image
    /\ failed' = FALSE /\ files' = NoFiles /\ did' = {} /\ doc' = NoDoc
    /\ UNCHANGED source

\* The steps after one that failed do not run; the fold always does.
Then(next, bad) == /\ at' = IF bad THEN "fold" ELSE next
                   /\ failed' = bad
Report(f, report) == files' = [files EXCEPT ![f] = report]

DbCase(name, raw) == [suite |-> "db", name |-> name, file |-> "assert_seed.py", raw |-> raw]

\* The checks in order: the first one that fails skips the rest, one that
\* raises leaves no line for itself nor for the rest.
DbLines(passing, end) ==
    LET n == Len(image)
        prefix == {DbCase(image[i], "passed") : i \in 1..passing}
    IN  IF end = "raises" \/ passing = n THEN prefix
        ELSE prefix \cup {DbCase(image[passing + 1], "failed")}
                    \cup {DbCase(image[i], "skipped") : i \in passing + 2..n}

\* The lines ecs-run-task.sh could fetch: the first of them, a log of a
\* traceback only, or no log at all.
Fetched(lines) ==
    LET inOrder == SelectSeq(image, LAMBDA name : \E c \in lines : c.name = name)
        first(k) == {c \in lines : \E i \in 1..k : inOrder[i] = c.name}
    IN  {NoFile} \cup {[at |-> "whole", cases |-> first(k)] :
                       k \in (IF lines = {} THEN 0 ELSE 1)..Len(inOrder)}

DbAssert(passing, end) ==
    /\ at = "db"
    /\ did' = did \cup DbLines(passing, end)
    /\ \E report \in Fetched(DbLines(passing, end)) : Report("dbLog", report)
    /\ Then(IF env = "stage" THEN "coverage" ELSE "browser",
            end = "raises" \/ passing < Len(image))
    /\ UNCHANGED <<source, image, env, doc>>

SpecCoverage ==
    /\ at = "coverage"
    /\ Then("api", ~Covered(repo))
    /\ UNCHANGED <<source, image, env, files, did, doc>>

\* pytest writes its report at the end of the session.
ApiTests(raw) ==
    LET cases == {[suite |-> "api", name |-> t, file |-> "api", raw |-> raw[t]] : t \in repo.api}
    IN  /\ at = "api"
        /\ did' = did \cup cases
        /\ Report("junit", [at |-> "whole", cases |-> cases])
        /\ Then("browser", \E t \in repo.api : raw[t] = "failed")
        /\ UNCHANGED <<source, image, env, doc>>

Selected == IF env = "stage" THEN Browser ELSE {"smoke"}
Ran == UNION {{<<p, spec>> : spec \in SpecsOf(repo, p)} : p \in Selected}

\* Playwright runs to its end, or is interrupted in one test at most.
PlaywrightTests(raw) ==
    LET cases == {[suite |-> r[1], name |-> r[2].title, file |-> r[2].path, raw |-> raw[r]] : r \in Ran}
        bad == \E r \in Ran : PwStatus(raw[r]) \in {"failed", "incomplete"}
    IN  /\ at = "browser"
        /\ Cardinality({r \in Ran : PwStatus(raw[r]) = "incomplete"}) <= 1
        /\ did' = did \cup cases
        /\ Report("playwright", [at |-> "whole", cases |-> cases])
        /\ Then("fold", bad)
        /\ UNCHANGED <<source, image, env, doc>>

\* A killed runner step: no report, or, for Playwright, a torn one, or one
\* without a suite because a spec did not load.
Die ==
    /\ Running
    /\ \/ UNCHANGED files
       \/ /\ at = "browser"
          /\ \E how \in {"torn", "whole"} : Report("playwright", [at |-> how, cases |-> {}])
    /\ Then("fold", TRUE)
    /\ UNCHANGED <<source, image, env, did, doc>>

\* The step that always runs.  Without a report it folds nothing.
FoldReports ==
    /\ at = "fold"
    /\ doc' = IF \A f \in DOMAIN files : files[f].at = "absent" THEN NoDoc
              ELSE IF FoldRefuses(files, env) THEN [kind |-> "refused"]
              ELSE [kind |-> "folded", fold |-> Fold(files, env, inventory)]
    /\ at' = "done"
    /\ UNCHANGED <<source, image, env, failed, files, did>>

Next ==
    \/ \E r \in Repos : Edit(r)
    \/ WriteInventory
    \/ CheckInventory
    \/ \E e \in {"stage", "prod"} : StartRun(e)
    \/ \E passing \in 0..Len(image), end \in {"ends", "raises"} : DbAssert(passing, end)
    \/ SpecCoverage
    \/ \E raw \in [repo.api -> {"passed", "failed", "skipped"}] : ApiTests(raw)
    \/ \E raw \in [Ran -> Attempts] : PlaywrightTests(raw)
    \/ Die
    \/ FoldReports

Spec == Init /\ [][Next]_vars

-----------------------------------------------------------------------------
Folded == doc.kind = "folded"

TypeOK ==
    /\ repo \in Repos
    /\ DOMAIN inventory = SuiteNames
    /\ gate \in {"unasked", "clean", "drift", "refused"}
    /\ env \in {"stage", "prod"} /\ failed \in BOOLEAN
    /\ at \in {"idle", "db", "coverage", "api", "browser", "fold", "done"}
    /\ \A f \in DOMAIN files : files[f].at \in {"absent", "torn", "whole"}
    /\ doc.kind \in {"none", "refused", "folded"}
    /\ Folded => \A s \in DOMAIN doc.fold.nodes :
          doc.fold.nodes[s].status \in {"passed", "failed", "incomplete"}

\* A suite the map shows as passed ran in this run: every test of its inventory
\* was executed, the last attempt of none of them failed or was cut short, and
\* one at least passed.  Logs fetched in part, killed processes, skipped
\* remainders and an inventory older than the tests must not read as a pass.
GreenMeansRan == Folded => \A s \in DOMAIN doc.fold.nodes :
    doc.fold.nodes[s].status = "passed" =>
        LET ran == {c \in did : c.suite = s}
        IN  /\ \A t \in inventory[s] : \E c \in ran :
                 c.name = t /\ StatusOf(c) \in {"passed", "skipped"}
            /\ \E c \in ran : StatusOf(c) = "passed"

\* A suite shown as failed holds a test that failed, in a job that failed: a
\* test that did not run, or was cut short, is never called a failure.
RedIsReal == Folded => \A s \in DOMAIN doc.fold.nodes :
    doc.fold.nodes[s].status = "failed" =>
        failed /\ \E c \in did : c.suite = s /\ StatusOf(c) = "failed"

\* Behind a clean gate, with an image built from the same checks, a run
\* reports no test that the map does not know.
NothingUnknown == Folded /\ gate = "clean" /\ image = repo.db =>
    \A s \in DOMAIN doc.fold.unknown : doc.fold.unknown[s] = {}

\* "It never invents a verdict" (fold-results.py:16): behind the same gate, no
\* suite is shown as passed in which a test failed.
FailuresShow == Folded /\ gate = "clean" /\ image = repo.db =>
    \A c \in did : StatusOf(c) = "failed" /\ c.suite \in DOMAIN doc.fold.nodes =>
        doc.fold.nodes[c.suite].status # "passed"

\* "A run that died after the tests is exactly when their verdict matters"
\* (deploy-stage.yml:326-327): a suite whose own report is whole has its node.
VerdictsSurvive == at = "done" => \A f \in DOMAIN files :
    files[f].at = "whole" /\ files[f].cases # {} => Folded
=============================================================================
