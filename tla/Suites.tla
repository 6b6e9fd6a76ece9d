------------------------------- MODULE Suites -------------------------------
(***************************************************************************)
(* What the repository says it tests, as scripts/collect-suites.py asks    *)
(* each suite, and the reports of a run joined onto that list, as          *)
(* scripts/fold-results.py does it.  A checkout is a record of the api's   *)
(* tests, the two copies of the database checks (in their order) and the   *)
(* Playwright specs: [title, path], the path the directories under         *)
(* tests/playwright/tests.  A report is [at, cases]: the file is absent,   *)
(* torn (not parsable) or whole, and each case is [suite, name, file, raw].*)
(***************************************************************************)
EXTENDS FiniteSets, SequencesExt

Browser == {"smoke", "regression"}
SuiteNames == {"api", "db"} \cup Browser

\* testMatch of the two projects: the directory anywhere in the path.
ProjectsOf(spec) == Range(spec.path) \cap Browser

\* Every spec on disk is listed by some project.
Covered(repo) == \A spec \in repo.specs : ProjectsOf(spec) # {}

SpecsOf(repo, project) == {spec \in repo.specs : project \in ProjectsOf(spec)}

OnlyOf(repo, project) == {spec \in repo.specs : ProjectsOf(spec) = {project}}

CollectPlaywright(repo, project) == {spec.title : spec \in OnlyOf(repo, project)}
CollectScript(repo) == Range(repo.db)

Collect(repo) == [suite \in SuiteNames |->
    CASE suite = "api" -> repo.api
      [] suite = "db" -> CollectScript(repo)
      [] OTHER -> CollectPlaywright(repo, suite)]

\* A spec outside its project's directory, copies that differ, an empty suite.
CollectRefuses(repo) ==
    \/ \E p \in Browser : \E spec \in OnlyOf(repo, p) : Head(spec.path) # p
    \/ repo.db # repo.localDb
    \/ \E suite \in SuiteNames : Collect(repo)[suite] = {}

-----------------------------------------------------------------------------
NoFile == [at |-> "absent", cases |-> {}]

\* The last attempt decides; a test without any has the status of the test.
PwStatus(results) == IF results = <<>> THEN "skipped" ELSE
    CASE Last(results) \in {"passed", "expected", "flaky"} -> "passed"
      [] Last(results) \in {"failed", "unexpected", "timedOut"} -> "failed"
      [] Last(results) = "interrupted" -> "incomplete"
      [] OTHER -> "skipped"

StatusOf(case) == IF case.suite \in Browser THEN PwStatus(case.raw) ELSE case.raw

Unreadable(file) == file.at = "torn" \/ (file.at = "whole" /\ file.cases = {})

ReportedTwice(cases) == \E a, b \in cases :
    a # b /\ a.suite = b.suite /\ a.name = b.name

\* The suites the map draws for an environment.
Drawn(env) == IF env = "stage" THEN SuiteNames ELSE {"db", "smoke"}

AllCases(files) == UNION {files[f].cases : f \in DOMAIN files}
ReportedSuites(files) == {case.suite : case \in AllCases(files)}

FoldRefuses(files, env) ==
    \/ \E f \in DOMAIN files : Unreadable(files[f])
    \/ ReportedTwice(AllCases(files))
    \/ ~(ReportedSuites(files) \subseteq Drawn(env))

CasesOf(files, suite) == {case \in AllCases(files) : case.suite = suite}

\* One test of the inventory: what the report says of it, or not_run.
Entry(name, cases) == LET said == {case \in cases : case.name = name}
                      IN  IF said = {} THEN "not_run"
                          ELSE StatusOf(CHOOSE case \in said : TRUE)

Join(tests, cases) == [name \in tests |-> Entry(name, cases)]

Unknown(tests, cases) == {case.name : case \in cases} \ tests

\* Bug: a test that did not run makes its suite red.
SuiteStatusAny(statuses) ==
    IF statuses \cap {"failed", "not_run"} # {} THEN "failed" ELSE "passed"
SuiteStatus(statuses) ==
    IF "failed" \in statuses THEN "failed"
    ELSE IF statuses \cap {"incomplete", "not_run"} # {} \/ statuses \subseteq {"skipped"}
         THEN "incomplete" ELSE "passed"

Fold(files, env, inventory) ==
    LET node(suite) ==
            LET tests == Join(inventory[suite], CasesOf(files, suite))
            IN  [status |-> SuiteStatus(Range(tests)), tests |-> tests]
    IN  [nodes |-> [suite \in ReportedSuites(files) |-> node(suite)],
         unobserved |-> Drawn(env) \ ReportedSuites(files),
         unknown |-> [suite \in ReportedSuites(files) |->
                        Unknown(inventory[suite], CasesOf(files, suite))]]
=============================================================================
