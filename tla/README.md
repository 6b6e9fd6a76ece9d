# Verification of the AWS DevOps/SDET demo platform

TLA+ models of this repository's stateful parts, the TLC configurations that
check them on small instances, and theorems about them that TLAPS checks for
every value of the constants. Paths are relative to the repository root.

    tlc -workers 2 -config launch_presses.cfg MCLaunchControl.tla
    tlapm LaunchControl_proofs.tla

Contents: [1 inventory](#1-inventory), [2 plan](#2-plan),
[3 launch control](#3-launch-control), [4 item pipeline and item requests](#4-item-pipeline-and-item-requests),
[5 cycle and promotion](#5-cycle-and-promotion), [6 teardown](#6-teardown),
[7 report of a cycle](#7-report-of-a-cycle), [8 the repository's tools](#8-the-repositorys-tools),
[9 runs and bounds](#9-runs-and-bounds), [10 proofs](#10-proofs),
[11 disagreements found](#11-disagreements-found),
[12 not modelled](#12-what-is-not-modelled).

## 1 Inventory

The repository builds an ephemeral AWS environment, tests it, promotes it and
destroys it again; a public button lets a visitor start such a cycle. Python
Lambdas guard the button, GitHub workflows run the cycle, a small item service
is the application being deployed, and its work is done asynchronously. Around
them stand tools that describe the repository to itself: a map of its
resources, an inventory of its tests, a list of its gates, a table of prices.

| # | Component | State it keeps | Operations | Interacts with | Hard because | Correct when | Modules |
|---|---|---|---|---|---|---|---|
| 1 | Launch endpoint: `infra/self-service/src/{control,launch_handler,store_dynamodb,github,killswitch_handler}.py` | the DynamoDB control table: `lock`, `nonce#…`, `count#day`, `killswitch` | GET (a nonce, and a launch id beside it), POST (any nonce with any launch id; six guardrails, dispatch), engage | visitors, GitHub's REST API, the budget alarm, 2 and 3 through the lock | concurrent presses, launch ids that come back from the visitor, conditional writes the SDK repeats, answers lost after they took effect, kills, expiry, midnight | no day beyond its cap, a nonce buys one run, one launch at a time, the switch stops the next press | `LaunchControl`, `LaunchQuota` |
| 2 | Watchdog Lambda: `watchdog_handler.py`, `sweep.py` | its own record `watchdog` in the same table | every 5 minutes: read, observe, decide, ask Actions or delete bluntly, record | ECS, ELB, RDS, GitHub, the lock of 1 | everything it read may be stale when it acts; any call may fail; rounds may overlap | nothing healthy is moved against; no blunt deletion without an old request; an overdue environment comes down | `Sweep`, `LaunchControl` |
| 3 | Cycle: `.github/workflows/self-service.yml` and the workflows it calls | job results, the environments' resources, the countdown | launch, promote, lab, hold, destroy of prod, stage and lab, release-lock | 1 (lock), 4, 5 | `always()` jobs after partial failure, cancellation, lost runners | the lock is released only when nothing billable is left, nothing is forgotten | `Cycle` |
| 4 | Promotion: `promote-prod.yml`, `deploy-stage.yml` | image digests prod runs, the recorded rollback pointer | read pointer, apply, migrate, smoke, record, roll back | ECR, ECS, SSM, the state lock of prod | which step failed decides whether to roll back; no concurrency group | prod runs one release, a tested one, and the pointer names a proved one | `Promotion` |
| 5 | Teardown: `destroy.yml`, `scripts/break-stale-state-lock.sh`, `adopt-orphans.sh`, `adopt_orphans.py`, `sweep-orphans.sh`, `sweep_orphans.py` | Terraform state and its lock, resources outside the state | break lock, adopt, destroy, verify, sweep | 3, AWS | check-then-act on the state lock, resources without state, an index that lags | one writer of a state; green means gone; running it again recovers | `Teardown`, `Orphans` |
| 6 | Item pipeline: `app/src/{main,outbox,events,results,models}.py`, `worker/consumer/*.py`, `infra/modules/queue` | tables `demo_items`, `outbox`, `item_processing`, `worker.receipts`; two SQS queues with dead-letter queues | create, delete, relay pass, receive, receipt, report, delete, record | database, SQS | replicas, at-least-once delivery, redelivery during handling, death between any two calls | no item forgotten, one receipt per item, it is what the API shows, poison is buried and not deleted | `ItemPipeline`, `ItemDelivery` |
| 7 | Item requests: `app/src/main.py`, `schemas.py` | `demo_items` | create, patch, delete, list (COUNT, then SELECT) | 6 | several statements at READ COMMITTED, rows deleted or renamed in between | only the fields sent change; an error is an item that is gone; a reader of all pages misses nothing | `ItemsApi` |
| 8 | Folds: `scripts/tf-stream.sh`, `fold-timeline.py`, `node-states.py`, `fold-cost.py`, `watch-progress.sh`, `publish-status.sh` | the streams of a job, the published documents | stream, watch, fold, join, price, publish | 3, 5, the page | prefixes of streams, killed runs, two jobs and one anchor | what the page calls done, made, gone or charged is so | `Timeline`, `NodeStates`, `CostFold`, `CycleReport` |
| 9 | Tests and their results: `collect-suites.py`, `fold-results.py`, the test steps of the deploys | `site/data/suites.json`, the reports on a runner | collect, gate, run, fold | 8, the page | torn and partial reports, retries, an inventory of another commit | a verdict on the board is one the run reached | `Suites`, `TestRun`; `Repository` composes 9 to 13 |
| 10 | Map and bindings: `generate-topology.py`, `bindingState` of the page | `topology-groups.json`, `topology.json`, the workflow files | declare, assign, draw, generate, resolve | 8, 3 | several files edited apart | every resource its directory's table places has a place; a resolved binding can light | `Topology`, `LiveBindings` |
| 11 | Gates: `run-gates.py`, `assets/gates.json` | the list, the Makefile, ci.yml | discover, refuse, run | all | one list, two readers; a machine that changes | a green run answers for every gate | `Gates` |
| 12 | Rates: `fetch-rates.py`, `sizing.py`, `check-rates.py` | `rates.json`, `cost-model.json` | capture, check | 8 (the cost fold) | four files edited apart, AWS's prices | nothing costs nothing by silence; a table is of one capture | `Rates` |
| 13 | Schema migration: `migrate-schema3.py` | the files it edits | plan, write, refresh | 10 | anchors, half-written trees | all edits once, or none | `Migration` |
| 14 | Publishing of status, runs and the site; the other generators and gates; page, web, chart, Terraform | objects in the site bucket; none at run time | whole-object uploads, rendering | | | | not modelled |

PROJECT.json lists, under `hazards`, where in this code the hard behaviours
bite and which property watches each of them. One has none, the watchdog's
liveness (section 12).

## 2 Plan

Order: what spends money in public first, then what must not lose data, then
what creates and removes the environments, then what reports about them.

| Step | Modules | Components | Status |
|---|---|---|---|
| 1 | `Sweep`, `LaunchControl` with the abstract `LaunchQuota` | 1, 2 | modelled, checked |
| 2 | `LaunchControl_proofs` | 1, 2 | proved |
| 3 | `ItemPipeline` with the abstract `ItemDelivery` | 6 | modelled, checked |
| 4 | `ItemPipeline_proofs` | 6 | proved |
| 5 | `Promotion`, and `Cycle` composed with it | 3, 4 | modelled, checked |
| 6 | `Orphans`, `Teardown` | 5 | modelled, checked |
| 7 | `ItemsApi` | 7 | modelled, checked |
| 8 | `Timeline`, `NodeStates`, `CostFold`, and `CycleReport` composing them | 8 | modelled, checked |
| 9 | `Suites` and `TestRun`; `Topology`, `LiveBindings`, `Gates`, `Rates`, `Migration`; `Repository` composing them | 9 to 13 | modelled, checked |
| 10 | `CycleProofs`, `TeardownProofs`, `ItemsApiProofs`, `RepositoryProofs` | 3 to 5, 7, 9 to 13 | proved |
| 11 | `ReportProofs`, `ReportScenarioProofs` | 8 | proved |
| 12 | a fair specification of the watchdog: an overdue environment comes down | 2 | planned |

Every safety property a run checks is also a theorem, of the module or of the
composition the run is about; what is left to runs alone is liveness (section
10). Step 12 has no run and no theorem: the hazard it is about is the one that
no property covers.

The report is written so that its folds can be reasoned about. A stream is kept
as what has been read of it so far, which is all the code keeps of it line by
line, and every line is a step. Induction over data is out of the provers'
reach, since the library states it with an operator as parameter; that
`Migration`'s plan, a recursive function of the index, has one solution is
proved by the least place at which two would differ. A choice whose guards
overlap is an IF, because a CASE leaves open which arm is taken. No module that
is proved about declares a RECURSIVE operator.

## 3 Launch control

`LaunchControl` models `decide_launch` and everything around it.

| In the model | In the code |
|---|---|
| `killed`, `nonces` and `until`, `count`, `lock`, `record` | the items of the control table; one that may be absent is a set of at most one record. `nonces[i]` is `issuing` between GET's reading of its clock and its put |
| `pc`, `nonce`, `chosen`, `started` | an invocation of the launch Lambda: the next call it makes, the nonce and the launch id in the body, the clock it read once |
| `AskForNonce`, `IssueNonce` | `issue_nonce` (control.py:192-239) |
| `Press`, `ReadSwitch`, `RedeemNonce`, `AskInFlight`, `TakeLock`, `IncrementDay` | `decide_launch` (control.py:242-343), one action per guardrail, in its order; each has the refusal as a disjunct |
| `Dispatch`, `ReleaseQuietly` | `_launch` (launch_handler.py:201-285) and `_release_quietly` (control.py:412-417) |
| `Crash` | the Lambda's timeout or death between any two calls |
| `run`, `expiry`, `RunAppears` … `RunDies` | a run of self-service.yml as this path sees it: accepted, listed by the API, running under `concurrency: group: self-service`, applying with an `ExpiresAt`, its stage destroyed or not, release-lock; `RunDies` also covers a queued run that GitHub cancels |
| `owner`, `OwnerDispatches` … | a cycle the owner dispatched: same concurrency group, no lock, no launch id |
| `stage`, `teardown` | billable resources with their `Launch` and `ExpiresAt` tags; the destroy.yml run the watchdog asked for |
| `dog`, `WakeUp` … `Die` | an invocation of the watchdog: its clock, what it read, its plan; the effects of `_run` (watchdog_handler.py:100-180), one action per call |
| `Sweep!DecideSweep` | `decide_sweep` (sweep.py:96-182), as a pure operator |

Faults. Every call may fail, and a write may take effect although its answer is
lost. boto3 repeats such a call: a conditional put then meets its own lock and
is refused, a conditional increment counts twice or is refused at the cap by
itself, a conditional delete of a nonce refuses its own visitor. These outcomes
are disjuncts of `TakeLock`, `IncrementDay` and `RedeemNonce`.

Time. `now` counts watchdog intervals (5 minutes). `Tick` lets no invocation
outlive its Lambda timeout; `TimeoutAssumption` says that timeout is shorter than
the lock's life (20 s and 120 s against 150 minutes).

Launch ids. GET draws a launch id at random for the page and stores only the
nonce (store_dynamodb.py:38-46); POST takes both from the body
(launch_handler.py:198-199), checks the id against a pattern and redeems the
nonce alone (store_dynamodb.py:50-73). So `nonce` and `chosen` are independent
and free: any issued nonce is presented with any id of `Ids`, also with one that
another press carries or has carried. Nothing in the module ties the two, and
every property below is stated, checked and proved without it; where two launches
with one id really can harm one another, the property says so (`SameId`,
`OwnsId`).

Assumptions of the model: nobody turns the switch off or deletes
the lock by hand; DynamoDB's expiry removes an item at any time after its ttl.
A missing or unparseable `ExpiresAt` is the deadline 0, since `decide_sweep`
treats it as passed. The blunt deletion is by name, for every kind; the code
deletes load balancers by the ARN it saw, so there the model does a little more
than the code.

History variables, read by no step: `robbed` (unexpired locks deleted by
another), `asked` (destroy requests), `late` (presses that had not read the
switch when it was engaged).

Properties:

- `RunsWithinCap`, `NonceBuysOneRun`, `SwitchStopsNext` and `QuotaSpec`: what
  a press may spend. The last says that the whole model implements
  `LaunchQuota`: a run per nonce, and no more than the cap a day. That a launch
  *id* buys one run is not so (`LaunchIdsDistinct`, section 11).
- `OneLaunchAtATime`: two launches are unfinished together only after one
  outlived its lock, had its dispatch reported as failed, or lost its lock to
  another. The exceptions are real: `launch_takeover` shows the last, and
  `FailureMeansNothing` (section 11) states the second.
- `RefusalSparesOthers`: the release that follows a refusal at the cap has no
  condition, and needs none. Who deletes live locks of others are a watchdog, a
  press whose dispatch was reported as failed and accepted, and the release-lock
  of a run whose launch id was pressed again.
- `BluntOnlyAsked`, `HealthyLeftAlone`: what the watchdog may do, stated about
  what was really asked and really held, not about what it read. The second is
  about a launch whose id no other run has: the tags of a dead launch with its id
  would make it look overdue (`HealthyWhateverId`, section 11). The first does
  not see that case from the other side: an old request of that id counts as a
  request about the fresh launch. The second is also silent within `LambdaTimeout`
  of either end of the launch's life: the watchdog reads its clock first, so it
  may have read the lock before the press took it, or the resources after the
  lock expired.

There is no fairness in this module yet: nothing is claimed to happen eventually.

## 4 Item pipeline and item requests

`MCPipelineScenarios` EXTENDS both modules and lets one of them move at a time,
which is why the specification of the second is named `ApiInit`, `ApiNext`,
`ApiSpec`.

### The pipeline

`ItemPipeline` follows an item from the POST that creates it to what the API
shows about its processing.

| In the model | In the code |
|---|---|
| `row`, `outbox`, `receipt`, `shown` | `demo_items`, the item's `outbox` row, `worker.receipts`, `item_processing` |
| `mail`, `report` with `…Tries`, `told` | the two SQS queues: where each message is, how often it was received, the receipt a report carries; `dead` is the dead-letter queue |
| `CreateItem`, `DeleteItem` | the handlers in main.py, one transaction each; the projection is deleted by cascade, receipt and outbox row stay |
| `TakeRows`, `SendRow`, `Commit`, `PassFails` | `Relay.relay_once` and `run` (outbox.py): `FOR UPDATE SKIP LOCKED`, one send per row, one commit |
| `ReceiveMail`, `LeavePoison`, `WriteReceipt`, `SendReport`, `DeleteMail`, `WorkerDies` | `worker/consumer/main.py` and `handler.py` |
| `ReceiveReports`, `LeavePoisonReport`, `Record`, `DeleteReport`, `ApiDies` | `Consumer` in results.py, one thread per replica |
| `MailReturns`, `MailOvertakes`, `MailDies` and the same for reports | visibility timeout with nobody working on the message, during its handling, and the redrive policy |

A delivery is (item, copy, receive count): the count stands for the receipt
handle, so a delete with an old handle may or may not work (`Removed`), and it
is also the identity of a receipt, since each delivery stamps a new one.

Faults. A failed call, one that took effect and whose answer was lost, a death,
and a handler slower than the visibility timeout each use up one of `MaxFaults`.
A receive whose answer is lost is `ReceiveMail` followed by `WorkerDies`; a
commit applied and not answered is `Commit`. `CallsRaise` says whether calls of
the results consumer may raise what `handle` does not catch.

Assumptions of the model: item ids are not reused (a sequence), the retention of
the queues (days) does not end within a behaviour, and nobody redrives or
empties a dead-letter queue. `Junk` stands for a body neither side can parse,
sent by somebody else. A PATCH changes nothing the pipeline reads.

Properties:

- `NothingLost`: an item that still exists and shows nothing has its event
  pending or a message about it somewhere.
- `DuplicatesNeedFaults`: duplicates come from faults only, never from two
  replicas interleaving.
- `DeliverySpec`: the pipeline implements `ItemDelivery`, in which an item has
  one receipt, the first, and the API shows that one until the item is deleted.
- `PoisonStays`: nobody deletes what nobody could parse.
- `BatchesHold`: types, `NothingLost`, `DuplicatesNeedFaults` and `PoisonStays`
  together, asked of batches of two.
- `EveryItemSettles`: a created item comes to show its processing, is deleted,
  or has a message in a dead-letter queue, where the alarm is.

Fairness (`FairSpec`, used by `pipeline_settles` only):
weak fairness of each replica's relay, of its results consumer, of each worker
and of each message's queue step. The first three are loops that only their
process's end stops, and ECS replaces a process (a death leaves the model's
process at the start of its loop); the last is SQS's visibility timeout and
redrive policy. Requests, faults and junk are not fair. A results thread that
has ended is not restarted by anything, and no fairness brings it back.

### The item requests

`ItemsApi` models the handlers of main.py beside each other, which the pipeline
takes as one step each: the pipeline is about what becomes of an event, this
module about what the statements of one session may find.

| In the model | In the code |
|---|---|
| `items`, `lastId` | the committed rows of `demo_items` and its sequence |
| `req` | a request: what it read, what the client sent, and its answer |
| `CreateFlush`, `CreateCommit`, `RefreshItem` | `create_item` (main.py): the flush takes an id and meets the unique name; the refresh reads the row back |
| `Read`, `PatchCommit`, `DeleteCommit` | `update_item` and `delete_item`: the get of the row, and the statement at the commit |
| `Scan`, `CountRows`, `ReadPage` | a client that asks for page after page of `list_items`, each a COUNT and a SELECT |

The pages follow the order of the ids: `Rank(i)` is the place of an id in it,
and `Page` the ids whose place is within a limit of the offset.

`Changed` is what SQLAlchemy writes: the fields whose value differs from the one
read. A flush whose name another open transaction has written waits for it
(`Claimed`). Properties: `OnlySentFields` (no commit puts back what it had
read), `ErrorMeansGone` (a 500 is an item that is gone, every duplicate is a
409), `ScanMissesNothing` (a reader of all pages sees every item that was there
and was not deleted, although ids are not in the order of the commits).

## 5 Cycle and promotion

`Promotion` is one job of promote-prod.yml, step by step; `Cycle` EXTENDS it
with the job graph of self-service.yml.

| In the model | In the code |
|---|---|
| `prod`, `holder` | the task definitions of prod's services; terraform's state lock of prod |
| `pointer` | the SSM parameter of the rollback set; its domain may lack a service, as one of an earlier shape does |
| `images` | which digests the registries still hold (`Push`, `Expire`) |
| `Resolve`, `ReadPointer`, `Lock`, `Replace`, `EndApply`, `Settle`, `Smoke`, `Record`, `TagRelease` | the steps of promote-prod.yml, in their order; services are replaced one at a time |
| `StepFails`, `ArmedBy` | a failed step and the condition of the rollback (promote-prod.yml:405-421) |
| `ResolveRollback`, `Prove` | the rollback: the whole set or nothing, and a smoke that turns nothing green |
| `job`, `Needs`, `Condition`, `Always` | the jobs of self-service.yml, their `needs` and `if` |
| `Build`, `Apply`, `Pass`, `Fail`, `PromoteStep`, `TearDown` | what the jobs do, as far as other jobs see it |
| `PublishCountdown`, `HoldEnds` | the hold: the document with the deadline, and its removal, which may fail (`\|\| true`) |
| `ReleaseLock` | release-lock (self-service.yml:860-945) |
| `Cancel`, `StopJob`, `LoseRunner`, `LoseRun` | a cancelled run, a lost runner, a force-cancelled or lost run |
| `OwnerPromotes`, `DestroyByHand` | the owner's own runs of promote-prod.yml and destroy.yml |

Faults. Any step fails, a run is cancelled at any moment, and `Losses` bounds
runners, runs and removals of the countdown that are lost. promote-prod.yml
declares no concurrency group, so the owner's promotion and a cycle's interleave
between any two steps; what keeps their applies apart is the state lock alone.

Assumptions: the workflow's runs queue behind one another (`concurrency`); the
owner promotes a tag a stage has tested, or the old one; a successful apply of
an environment leaves it standing as a whole. `TearDown` is the whole of
destroy.yml, whose steps are module `Teardown`'s.

Properties:

- `ProdWhole`: prod stands on services of two releases only while an apply goes
  on or after one that ended half way. A rollback never mixes.
- `PointerProven`: the pointer names a set that prod ran when a smoke was green.
  The exception, that another job changed prod between this one's apply and its
  record (`meddled`), is real: nothing serialises the two.
- `GreenStays`: the run that proved a release does not roll it back.
- `OnlyTestedRuns`: prod runs only what a stage was green about, whoever
  promotes, fails or rolls back, and whichever jobs the lab skips.
- `NothingForgotten`: what still stands when a cycle is over was met by that
  environment's teardown job, whichever jobs before it failed or were skipped.
- `ToldIsTrue`: a lock the run gave back means that its stage is gone, and a
  published countdown runs to a teardown that is still ahead, unless what was to
  remove it was lost.

## 6 Teardown

`Orphans` holds the two pure decisions (which live resources the state does not
have, and which of them becomes which address), `Teardown` the jobs around one
environment's state.

| In the model | In the code |
|---|---|
| `live`, `index` | what exists in AWS; what the tagging API answers with, which lags |
| `state`, `lock`, `held` | Terraform's state and the `.tflock` object with its id and user |
| `StartApply` … `FinishApply` | a job that applies: terraform refreshes, creates, saves now and then |
| `DeskTakes`, `DeskLeaves` | the owner's devbox, another user |
| `Die` | a cancelled or timed-out job: lock held, unsaved resources orphaned |
| `ReadLock`, `AskRuns`, `ForceUnlock` | `break-stale-state-lock.sh` |
| `Orphans!DecideSweep`, `Adopt`, `Import` | `sweep_orphans.py` and `adopt-orphans.sh` with `adopt_orphans.py` |
| `LockForDestroy`, `Delete`, `FinishDestroy`, `Verify`, `FinalSweep` | the steps of destroy.yml; a failed one skips to those marked `always()` |

A resource is a model value; what the scripts parse out of its ARN and tags is
the record `Arn[r]`, and `MCTeardown` takes an excerpt of the real tables with
the resources that matter: a database with its subnet group, a role with its
policy (which the tagging API does not know), and two VPCs that claim one
address. `Failing` names the calls that may fail. Lock ids are fresh with
respect to every id anybody remembers, as UUIDs are.

Properties: `OneWriter` (a teardown breaks locks it did not take, and yet no two
jobs write one state), `GreenHolds` (`GreenMeansGone`: a green teardown leaves
what was created or adopted after its destroy, what the index did not show it,
and what hangs on either, and nothing else, as long as describe calls answer)
and `Recovers`.

Fairness (`FairSpec`, run `teardown_recovers`): a job that has started goes on
until it ends or dies, because a step of a workflow ends or times out; the
teardown in `Restarting` is run again when it has ended, by the owner or the
watchdog, which is what adopt-orphans.sh (lines 1-19) is written for; the tagging
API catches up with AWS. Deaths are not fair and are at most `Deaths`. `Recovers`
excepts one case, a job killed between a role and what hangs on it: nothing
discovers such a policy but its role's own adoption, and that role is in the
state (`AlwaysRecovers`, section 11).

## 7 Report of a cycle

`Timeline`, `NodeStates` and `CostFold` translate the three folds as pure
operators; `CycleReport` runs them inside the jobs that make their input, with
AWS as the truth the documents are compared with.

| In the model | In the code |
|---|---|
| `streams`, `Open`, `Emit` | `tf-stream.sh`: what was run, the JSON events, the exit code |
| `ReadData`, `Announce`, `ClosePlan`, `StartHook`, `FinishHook`, `FailHook`, `Summarise`, `Return` | terraform's events, one line a step: the plan in any order, then the hooks |
| `InvokeApply`, `InvokeRollback`, `InvokeDestroyAlb`, `InvokeDestroy` | the operations of a job: one apply, or the rollback's after it (promote-prod.yml); the balancer's destroy and then the whole (destroy.yml:211-222), which the lab has without the first |
| `Charge`, `born`, `died`, `clock` | the instant at which AWS starts or stops charging, somewhere inside a hook |
| `Cancel` | a killed job: half a line, no exit code or half of one; or killed between two operations, and then neither |
| `Watch` | `watch-progress.sh`: fold and join of the streams as they stand |
| `Timeline!Build` | `fold-timeline.py`; reading is one line at a time, so a stream keeps what has been read of it |
| `NodeStates!Join` | `node-states.py` |
| `CostFold!Price`, `Refuses` | `fold-cost.py`, with money as integers |
| `PublishTimeline`, `PublishNodes`, `PublishAnchor`, `PublishCost`, `LoseRunner` | the uploads of `publish-status.sh`, one object after the other |

Properties, of jobs with one operation or two:

- `CompleteMeansDone`: a timeline published as complete is of a job that did all
  that its operations do. An apply has made everything, a teardown has left
  nothing; the exception is a teardown cancelled exactly between its two
  operations, which is published as complete with only the balancer gone. The
  code means that case to be incomplete (`CompleteIsAllOfIt`, section 11).
- `NounsHold`: at whatever line of whatever operation the watcher folds the
  streams, a noun drawn as made has all its resources, but for one whose old
  half is gone and whose new half is on its way (`Replacing`); and of a noun
  drawn as gone nothing is left that any plan named so far, and nothing at all
  from the last line of the last plan on.
- `MeasuredIsStable`: a later reading of the same job takes back that a noun is
  done for two reasons only, a second plan that names more of it and a
  replacement whose new half was refused. The first of them happens in every
  teardown of stage or prod whose balancer's noun has anything else
  (`MeasuredIsFinal`, section 11).
- `BandsHold`: the band of a finished cycle contains what AWS charged, minimum
  charges included, and everything removed that costs money has a row.

## 8 The repository's tools

Six tools that read files other people edit. Each module has the edits as
actions between the tool's runs, so that what was checked may be stale when it
is used. `Repository` puts them beside each other: it instantiates each module on
variables of its own, names the assumptions about the files they read, and
states what each promises. `MCRepository` gives each a small repository and lets
the initial state choose one.

| Module | State and actions | Code | Properties (in the run's conjunction) |
|---|---|---|---|
| `Topology` | `declared`, `called`, `assign`, `draws`, `map`; `Generate` | `generate-topology.py`: expansion of modules, the two assignment tables, the refusals | `MapHolds`: what a directory's table gives to a group of the board is placed (`DirectoryPlaced`), a node holds its own level's members only (`NodesHoldTheirOwn`) |
| `LiveBindings` | `workflows`, `live`; `ResolveAll` | `live_bindings`, `workflow_jobs`, `workflow_calls`; `bindingState` of site/index.html | `PulseHolds`: a resolved binding is lit by the job the Actions API reports, unless a job on the way has a display name |
| `Suites`, `TestRun` | checkout, inventory, image, reports, the folded document; the steps of a deploy | `collect-suites.py`, `suite-inventory-check`, the test steps, `ecs-run-task.sh`, `fold-results.py` | `VerdictsHold`: green means ran, red means failed in a red job, nothing unknown behind a clean gate |
| `Gates` | Makefile, ci.yml, list, machine, the run; `StartRun`, `Attempt`, `Finish` | `run-gates.py`: discovery, refusals, probes | `GatesHold`: a green run answers for every gate of the repository, and tried none blindly |
| `Rates` | sizes, blocks, calls, buckets, AWS's answers, `table`, `verdict`; `FetchRates`, `Check` | `fetch-rates.py`, `sizing.py`, `check-rates.py`, `metered_as` of `fold-cost.py` | `RatesHold`: no resource costs nothing by silence, a table is of one capture |
| `Migration` | text by anchors and replacements, data files, snapshot; `Run`, `Write`, `RunRefresh`, `Kill` | `migrate-schema3.py` | `MigrationHolds`: a refusal writes nothing, a run that wrote made every edit once |

A file is what its readers tell apart: a workflow is jobs with steps, a text a
count of each anchor and each replacement, a report a set of cases that may be
torn or absent. Jobs, bound ones too, may be given a display name: `PulseFires`
is about bindings without one on their way, and section 11 says what becomes of
the others.

## 9 Runs and bounds

| Run | Module | Shows | Distinct states |
|---|---|---|---|
| `launch_presses` | `MCLaunchControl` | cap, single use, switch and `LaunchQuota` for three presses of two nonces and one launch id | 2.1 million |
| `launch_exclusion` | `MCLaunchControl` | one launch at a time, refusals that spare others, types; two or three presses with one launch id; every action together | 855 thousand |
| `launch_watchdog` | `MCLaunchControl` | the watchdog against two launches, with two launch ids or one, with takeover of an expired lock | 2.2 million |
| `launch_takeover` | `MCLaunchControl` | counterexample, section 11 | |
| `pipeline_faults` | `MCItemPipeline` | one item, junk, two replicas, two workers, two faults; `ItemDelivery` | 159 thousand |
| `pipeline_batches` | `MCPipelineScenarios` | batches of two in two replicas; poison in both queues; the item requests | 565 thousand |
| `pipeline_settles` | `MCItemPipeline` | liveness, two workers and two faults | 143 thousand |
| `teardown_writers` | `MCTeardownScenarios` | two applies, two teardowns and the devbox around one lock; what a green teardown leaves | 1.4 million |
| `teardown_recovers` | `MCTeardown` | liveness, an apply and a teardown killed twice | |
| `report` | `MCReportScenarios` | nouns and done at every line of one and of two operations; bands | 693 thousand |
| `repository_tools` | `MCRepository` | the six tools of section 8 | 440 thousand |
| `cycle` | `MCCycle` | the job graph, a cycle behind another one, the owner's promotion beside it | 203 thousand |

**Several instances in one run.** Where two questions need different shapes of
one module, the run's initial state picks an instance (`scenario`, `tool`, or,
in `launch_exclusion`, how many pages there are), and a state constraint named
`Bounds` (an action constraint `StepBounds` where it is about a step) cuts each
instance to its shape. A property is stated of the instance it is about, or of
all of them.

**Launch runs.** `Presses` = 3 is the least in which a press meets a lock a
second one took over from a first; two nonces for three presses make two of them
share one. `Ids` has one element in `launch_presses`, so that all carry one
launch id; in `launch_exclusion` two for three presses, so that two or all of
them share one; in `launch_watchdog` one for each page and one that is no
page's. `Cap` is 1 where the cap is asked about, so that the second press meets
it and a repeated increment refuses itself, and in `launch_watchdog`, where the
takeover is on the next day; it is 2 where several launches must run on one day.
The real values (cap 3, 150 minutes, grace 15 minutes, record 6 hours, 5 minutes
between rounds) are scaled down keeping their order, except that the grace and
the record's life are as short as possible, so that every boundary lies inside
`MaxTime` = 2 or 3: the lock expires while runs are unfinished, the grace period
ends, the day changes, the record and the nonce expire. A run that does not ask
about nonces starts from `IssuedInit`, a state the program reaches by GETs
alone, with `NonceTTL` beyond `MaxTime`; where a nonce of one's own is enough,
`OwnNoncesInit` says so and lets every press carry its page's launch id or all
the same one. `OwnPagesInit`, in `launch_takeover` only, lets every press carry
the id of its own page: what that run refutes needs no id twice. `OnlyPublic`
keeps the owner's cycles and the budget alarm out of the runs about the
watchdog, lists a run in the interval of its press, starts it in the next at the
latest, and does not follow a press that left neither run nor lock.
`TwoQuestions`, the constraint of `launch_exclusion`, has two halves: where all
presses have one nonce and one id, a single press meets the watchdog, resources,
the owner's cycle and the switch, and invocations end within the tick they start
in; where all nonces differ, three presses are among themselves. One kind of
resource suffices; a torn observation of several kinds is left to the proofs,
which hold for every set of kinds. `LambdaTimeout` is 0 where an invocation may
fit between two ticks, and 1 in the runs about presses, which lets a press start
before midnight and count after it.

**Pipeline runs.** Two replicas are enough for a relay to skip what another
locked; two workers for a message handled twice at once; `MaxReceive` 2 (5 in
the code) for one redelivery and one burial; `MaxFaults` 2 for a fault while
recovering from a fault. `MaxCopies` is `MaxFaults` + 1, which never binds: that
is `DuplicatesNeedFaults`. Two items in a batch distinguish a batch of which one
send failed. In `pipeline_faults` junk comes before the first item and without a
fault (`PoisonAlone`), so that it costs a receive in every process and no more;
in `pipeline_batches` one fault is shared, item 1 may be deleted and item 2 not,
and beside poison one replica works. The requests are two writers, three ids of
which one or more are free when they begin (`SomeItems`), three names, one text
(`Plain` keeps descriptions to PATCHes of their own) and a reader with pages of
one row: a page boundary lies between any two rows.

**Cycle.** Two cycles of which the second queues, both visitors', a third job
that is the owner's promotion, two services and three releases. "graph" is one
cycle with its lab, cancellations, one loss and hand teardowns; "next" two
cycles without failures of the launch or the hold (`Calm`); "owner" a cycle and
the owner's promotion with images that expire before either begins. The lab runs
after the jobs it shares nothing with, and images expire before the promotions:
`StepBounds`. One loss is enough for each of the properties to need its
exception.

**Teardown.** Two deaths: one leaves a lock and orphans, another kills the job
that repairs them. Three lock ids make a read id differ from one taken since
and from the next. "writers" has the two VPCs that claim one address, a failing
list of runs, and no repeated teardown; "leftovers" has the role and its policy,
"bills" the database that the verification lists, and in both teardowns run
again while no call of theirs fails. `MCNeeds` is cut to the resources of the
run.
`teardown_recovers` has a group below the database in addition, and one apply
and one teardown.

**Report.** "nodes", which the configuration's own constants describe, is of the
shape of stage and prod: a balancer that is destroyed in an operation of its own
(`AlbFirst`), a target group that a rollback replaces (`Replaceable`), a database
and a secret terraform reads; an apply with its rollback and a teardown, each of
which may be cancelled at any line and between its operations, watched at every
line. One apply and one teardown are enough for properties of one job; the theorems
are for any number. "bands", the instance `Bands` of the module that holds the
theorems, so that they can be cited of it: a metered database with a minimum
charge of six instants, the balancer, a task definition every re-apply replaces
(which is how a rollback is told from a first apply), a runner that may be lost
between two uploads, in the apply, and a teardown that follows an apply that left
an anchor and may be cancelled between its operations (`StepBounds`; the theorem
does not need these bounds).

**Tools.** One instance each of what the code distinguishes: a module called
under two names and a permanent level; two workflows that may call each other;
seven checkouts, of which some have a stray or a doubled spec, and copies of
the checks that differ; a display name on a bound job and on another; gate rows
of every kind; two levels on two runtimes;
two edits in one file, so that one may undo the other, with two runs.

Symmetry is used in runs of safety properties only, on presses, ids and kinds,
on replicas, workers, services and lock ids. Item ids and cycles are ordered
and not symmetric. Deadlock checking is off where the system may stop: the
launch models at `MaxTime`, a pipeline that has delivered everything, a cycle
that is over, jobs that have all ended. `repository_tools` has it on: a
repository can always be edited.

Each module has one type invariant; where a run's property is a conjunction
(`BandsHold`, `NounsHold`, `GreenHolds`, `BatchesHold`, the six of
`repository_tools`), the type invariant of the module it is about is its first
conjunct. Each property has a mutant in PROJECT.json: an operator next to the
one it changes, commented `Bug:`, under which the property's run fails.

## 10 Proofs

The theorems hold for every value of the constants under the assumptions the
modules name, which TLC also evaluates in each run. They say no more than this:

| Module | Assumptions | Say |
|---|---|---|
| `Sweep`, `LaunchControl` | `GraceAssumption`, `IdAssumption`, `ProcessAssumption`, `BoundAssumption`, `TimeoutAssumption` | bounds are numbers, processes are apart, an invocation's timeout is shorter than the lock's life |
| `ItemPipeline`, `ItemsApi` | `PipelineAssumption`, `ApiAssumption` | bounds are numbers, a page has a row, junk is no item |
| `Promotion`, `Cycle` | `PromotionAssumption`, `CycleAssumption` | there is a service, every job has a tag, cycles are numbered in their order |
| `Teardown` | `JobAssumption` | applies, teardowns, runners and devboxes are apart |
| `CycleReport`, `CostFold` | `ReportAssumption`, `CostAssumption` | the estate is finite and no address is `Nowhere`; a data source is no resource; what is replaced, metered or deleted first is one; a kind is in one bucket, as check-rates.py asks, and a minimum charge is a time |
| `Repository` | `RunnersAreTargets`, `BindingsAssumption`, `MapAssumption`, `TestsAssumption`, `PricesAssumption`, `EditsAssumption` | what sets the files' contents are drawn from; `TestsAssumption` also says that no spec is in the directories of two projects, as playwright.config.ts:8 says it is organised |

| Module | Theorem | Says |
|---|---|---|
| `LaunchControl_proofs` | `TypeCorrect` | `Spec => []TypeOK` |
| | `CapHolds` | `Spec => []RunsWithinCap` |
| | `OneRunPerNonce` | `Spec => []NonceBuysOneRun` |
| | `SwitchHolds` | `Spec => []SwitchStopsNext` |
| | `LaunchesExclude` | `Spec => []OneLaunchAtATime` |
| | `RefusalIsHarmless` | `Spec => []RefusalSparesOthers` |
| | `QuotaRefined` | `Spec => QuotaSpec` |
| | `NothingUnasked` | `Spec => []BluntOnlyAsked` |
| | `HealthyLaunchesSpared` | `Spec => []HealthyLeftAlone` |
| `ItemPipeline_proofs` | `TypeCorrect` | `Spec => [](TypeOK /\ Busy)` |
| | `DuplicatesPaidFor` | `Spec => []DuplicatesNeedFaults` |
| | `NothingForgotten` | `Spec => []NothingLost` |
| | `DeliveryRefined` | `Spec => DeliverySpec` |
| | `PoisonKept` | `Spec => []PoisonStays` |
| | `BatchesKept` | `Spec => []BatchesHold` |
| `CycleProofs` | `TypeCorrect` | `Spec => []TypeOK` |
| | `CyclePromotes` | `Spec => PromotionSpec` |
| | `ProdStaysWhole` | `Spec => []ProdWhole` |
| | `PointerIsProven` | `Spec => []PointerProven` |
| | `GreenKept` | `Spec => GreenStays` |
| | `OnlyTested` | `Spec => []OnlyTestedRuns` |
| | `NothingIsForgotten` | `Spec => []NothingForgotten` |
| | `WhatIsToldIsTrue` | `Spec => []ToldIsTrue` |
| `TeardownProofs` | `TypeCorrect` | `Spec => []TypeOK` |
| | `WritersExclude` | `Spec => []OneWriter` |
| | `GreenLeavesNothing` | `Spec => []GreenHolds`, under two hypotheses (below) |
| `ItemsApiProofs` | `TypeCorrect` | `ApiSpec => []RequestsTypeOK` |
| | `ErrorsAreOfGoneItems` | `ApiSpec => []ErrorMeansGone` |
| | `ReaderSeesAll` | `ApiSpec => []ScanMissesNothing` |
| | `OnlyTheSentIsWritten` | `ApiSpec => OnlySentFields` |
| `ReportProofs` | `ReportTypes` | `Spec => []TypeOK` |
| | `PublishedIsDone` | `Spec => []CompleteMeansDone` |
| | `DrawnIsSo` | `Spec => []NounsHold` |
| | `DoneStaysDone` | `Spec => MeasuredIsStable` |
| | `ChargedIsInBand` | `Spec => []BandHoldsTheCharge`, under `SteadyMeters` and `OneTeardown` |
| | `RemovedIsPriced` | `Spec => []NothingGoesUnpriced`, under `OneApply` |
| `ReportScenarioProofs` | `BandsKept` | `Scenarios => []BandsHold`, for at most one apply and one teardown |
| `RepositoryProofs` | `BoardHolds` | `Map!Spec => []MapHolds` |
| | `BindingsFire` | `Pulse!Spec => []PulseHolds` |
| | `VerdictsAreReal` | `Suite!Spec => []VerdictsHold` |
| | `GreenAnswers` | `List!Spec => []GatesHold` |
| | `NoSilentZeros` | `Cost!Spec => []RatesHold` |
| | `EveryEditOnce` | `Schema!Spec => []MigrationHolds` |

The launch path:

- **Ledger** (cap, nonce, switch, quota). A property about runs says nothing of
  a press that is about to dispatch, so it is not inductive. `Ledger` records
  what a press has used up by each step: no run before its dispatch, its nonce
  gone once redeemed and shared with nobody who got past it (its launch id may
  be anybody's), every press past the counter charged to its day (`Accounts`),
  and presses late for the switch stuck before the nonce. The refinement of
  `LaunchQuota` uses it at the one step that is not a stutter, `Dispatch`.
- **Held** (one launch at a time, refusals). As long as no unexpired lock was
  deleted by another, a press between its put and the end of its run, inside its
  deadline, is the lock item's holder. A release by another, release-lock of a
  run with the same launch id among them, makes the holder a victim in that very
  step (`HeldDelete`), so the launch ids need not differ. `Prompt`, that an
  invocation lives no longer than its timeout, is where `TimeoutAssumption`
  enters: without it the lock could be dead by the time of the dispatch. The
  refusals have a smaller invariant of their own (`Spared`): until a watchdog, a
  press whose accepted dispatch was reported as failed, or a run with the launch
  id of its victim has deleted somebody's live lock (`Excuse`), nobody has, and
  a press that took the lock and has no run (`Runless`) holds it; what the
  release deletes is therefore its own.
- **Remembered** (blunt teardown). A request is followed from the moment it is
  made, through the record, to the copies invocations hold of it and the plan
  they made of it; no staleness breaks the chain, because only a matching scope
  counts (`BluntNeedsRecord`). A scope is a set of launch ids; of launches that
  share one it does not say which was meant.
- **Judicious** (healthy launches). It is an invariant about each launch by
  itself: one whose id no other run has (`OwnsId`) and whose lock was not taken
  away, with the invocation's clock inside its life (`Within`); nothing is
  assumed of the other launches' ids. Each thing an invocation reads is stale by
  up to `LambdaTimeout`, and they are read one after the other, so no single
  reading can be trusted. What can: tags expire no sooner than the lock
  (`TagsLast`); the lock item outlives the run as long as anything of it is left
  (`Kept`, for a launch with an id of its own that is no victim); so an
  invocation whose clock is inside a launch's life has read that lock, or
  nothing of the launch can be seen again (`Readings`); and `DecideSweep` moves
  against one launch on neither.

The items:

- **Busy** (types of the pipeline): a worker past its receipt holds a delivery,
  which the type of the report it sends needs.
- **Books** (duplicates). The number of an event's messages is not inductive.
  With it `Book` counts what is still going to be sent without any fault: the
  row a relay will send, the copies that will be delivered, the deliveries that
  will be reported. Only a fault lets that sum grow. It rests on the row locks
  (`RowLocks`: a row is in one relay's hands) and on the handles (`OneHolder`: a
  delivery is in one worker's).
- **Traced** (nothing lost, refinement). `RelaySide`: marked rows have a message
  or are done. `WorkerSide`: a worker that reports holds its item's receipt, and
  one that deletes has seen its report sent. `ReportSide`: reports carry the
  item's receipt, and what is about to be deleted was recorded or is gone.
  `Growth` names what no step takes back, so that each process's side is checked
  only against its own steps.
- **IdsHold** (requests). An id that was given out and is not committed belongs
  to one request (`Uncommitted`); one a request has met in the table will not be
  committed again (`Known`), so what is gone stays gone.
- **Follows** (the reader). What it owes itself to see and what lies before its
  offset has been seen. A commit moves later rows further back only, a deletion
  ends the claim (`calm`); that a page holds the next rows in order rests on the
  rank being one to one onto the first numbers, proved by counting.

Cycle and promotion:

- **PromotionInv**. Who replaces services holds the state lock alone (`Locked`);
  what it has replaced so far is of the release it was given (`Replaced`), and
  what a rollback was given is one whole release, because the pointer is
  (`PointerOfOne`, `Armed`). That is `ProdWhole`. Between an apply and its record
  prod is what was applied unless somebody meddled (`Judged`), which is
  `PointerProven`; a job whose smoke was green has no step left that touches
  prod (`GreenGoesOn`), which is `GreenStays`.
- **CycleInv**. Every step of a cycle is a step of `Promotion` or leaves it alone
  (`StepIsPromotion`), so the theorems above hold of cycles. The rest is about
  the order of the job graph: a job that has left "waiting" has seen the end of
  all it needs (`InOrder`), what stands after its teardown job ended is on record
  (`OnRecord`), a released lock's stage is down (`StageIsDown`), and where the
  releases in prod come from (`Sourced`).

Teardown:

- **Locking** (one writer). The hazard is force-unlock with an id read long ago.
  From the read to the unlock such an id is held by nobody, or by a job of
  another run, and then the question about other runs is still to come
  (`Reading`); `LockHeld` ties the lock object to its holder.
- **Leaving** (green). From the verification on, what the state still has was
  put there after the destroy (`StateIsNew`), what bills was created after it
  (`BillsAreNew`), and everything that lives hangs on living things
  (`Grounded`), so that what the final sweep does not see hangs on something it
  excused. `GreenLeavesNothing` has two hypotheses. Describe calls answer: that
  the code needs this is a disagreement (`GreenMeansGone` in section 11), since
  one that fails reads as absent. And what the sweep cannot look for hangs on
  something it can (`Discoverable`), which is so of the resources of the runs: a
  policy of a role is the only kind the tagging API does not know.

The report. A document is made of what was read of streams, a stream is what a
hook wrote, and a hook is what AWS did; each invariant relates two of these.

- **Types**. What has been read of a stream is a well-formed operation
  (`Ops`), whatever prefix it is of. The lemmas about reading say what one event
  leaves of a record (`HookLeaves`) and what a whole announcement does.
- **Course** (complete means done). While nothing failed, what terraform still
  owes leads where the operation is going (`Aims`), which of a teardown's first is
  the balancer's end and of all others the whole estate's (`Aimed`); a summary is
  written after the last hook (`SummaryIsLast`); so an operation that returned 0
  arrived, and between two operations the job is where the first was going
  (`Arrives`). A failed hook leaves an error in the records for good
  (`ErrorsAreFinal`), and what is published as the latest timeline is what the
  fold makes of the streams that were left (`LatestIsRead`).
- **Told** (nouns). What was read of each operation says no more than what
  happened: plans are what is owed or was done (`PlansAreOwed`), records are of
  plans (`RecordsArePlanned`), what the last operation says is complete is so or
  is being replaced (`CompleteIsSo`), what any operation of a teardown says is
  gone is gone (`GoneIsGone`). No hook runs before the end of a plan, and from
  there the last plan of a job names all that is not yet where the job is going
  (`Reaches`). The join counts over both operations; the lemmas about it turn its
  "as many done as planned" into "everything that any plan read so far named of
  this noun is done where it was named" (`Ann`, `AllDone`). That the plans may
  be prefixes makes no difference to this, and is why `GoneMeansGone` speaks of
  what a plan named.
- **Known** and **Behind** (nothing taken back). What was known of a noun when it
  was drawn as done stays true of the streams: all is still done, a replacement
  was refused, or a second plan names more of it than was planned when it was
  drawn. `Behind` says so of the reading on the site, and the property compares
  it with the next.
- **Meters** (the band). The instant of a charge is followed from the hook
  under way (`MeterWork`) to the record it leaves (`MeterRead`).
  The cost document is made of the records of two jobs: `Costed` ties it to the
  anchor and the teardown it was made from, and `Anchored` says that what the
  anchor says was made stands until this teardown reaches it. The band then
  follows by arithmetic, minimum charges included.
- **AnchorWhole** (nothing unpriced). Before the first apply there is nothing
  (`Bare`); its first operation makes everything or stops half way and is
  followed by no other (`FirstMakes`), so an anchor names every resource, and
  what a teardown removes is in it.

What is proved of done, made and gone has no hypothesis: any estate, any part of
it destroyed first or replaced, any number of jobs. The hypotheses of the cost
theorems say which part of an environment's life the sentence is about:
`OneTeardown` and `OneApply`, one of each. Without them TLC has a counterexample
(the second table of section 11). `SteadyMeters` is of another kind: the model keeps
the last life of a resource only, so a charged one that was replaced would have
its first life left out of what the band is held against. The run's database is
not replaced either; of one that is TLC finds no counterexample.

The tools: what a tool decided is tied to the files as they are, not as they
were when it ran, because a later edit takes it back (a map, a binding, a gate's
answer) or is held against what was before the run.

- `MapInv`: two calls of one level have different names, so an address is one
  resource, and a generated map is what the tables still say.
- `PulseInv`: the resolved bindings are those of the files as they are, and none
  of them was refused.
- `SuiteInv`: a report's cases happened, a failed one in a job that failed
  (`Happened`), and a clean gate is about the inventory that is there
  (`Current`). The theorem then compares the fold with what happened.
- `Tried`: what a run has tried and has yet to try is what it set out for.
- `CostInv`: the figures of a table are of one capture; behind a clean check each
  kind is in one bucket (`OneBucket`).
- `SchemaInv`: while a run is under way each file is what it was and about to be
  what is meant, or is that already (`Midway`). A file's plan is the end of a
  recursive function over its edits, defined by CHOOSE; `PlanFollows` shows that
  the recursion has one solution, by the least place at which two would differ.

Only model-checked: `EveryItemSettles` and `Recovers`. They are liveness under
fairness, which is beyond the prover, as is anything about ENABLED. The runs of
section 9 show them on their instances.

## 11 Disagreements found

`launch_takeover`, `WatchdogKeepsLiveLocks`, is a run that expects a violation:
the watchdog deletes the lock item without a condition, long after it read it. A
press that took the expired lock over in between loses its live one.
release-lock in self-service.yml has exactly the condition that is missing here,
with a comment on why.

The following are stated as definitions of the modules, each quoting the
sentence it takes at its word, and the code does not keep them. No run lists
them. Named as an INVARIANT or PROPERTY over the instance in the second column
(a run of section 9, or what to change about it) TLC shows the counterexample.

| Definition | Instance | Where the sentence is | What happens |
|---|---|---|---|
| `LaunchControl!SameDeadline` | `launch_watchdog` | watchdog_handler.py:19-20 | the lock counts its life from the press, the tags from the start of the launch job |
| `LaunchControl!FailureMeansNothing` | `launch_exclusion` | launch_handler.py:248-249 | "nothing was created" also answers a dispatch GitHub accepted |
| `LaunchControl!LaunchIdsDistinct` | `launch_presses` | launch_handler.py:139-140 | an id "cannot be chosen by a stranger", but it comes back in the POST and is compared with nothing: two nonces with one id are two runs of that id |
| `LaunchControl!HealthyWhateverId` | `launch_watchdog` | sweep.py:136-144 | a press with a new nonce and the launch id of a dead launch shares the scope of its overdue leftovers, and the watchdog moves against it inside its lifetime; by the same scope an old request about the dead launch counts as one about the fresh one |
| `ItemPipeline!EveryItemSettles` | `pipeline_settles` with `CallsRaise` TRUE | results.py:6-7 | an exception `handle` does not expect, a failed `delete_message` for one, ends the replica's results thread for good |
| `Cycle!ReleasedMeansAllGone` | `cycle` | self-service.yml:861-863 | release-lock runs after prod is torn down and asks only how stage's teardown went |
| `Teardown!AlwaysRecovers` | `teardown_recovers` | adopt-orphans.sh:3-4 | a job killed between a role and its policy leaves a policy nothing discovers |
| `Teardown!UnreadableRefuses` | `teardown_writers` with `Failing` {"get-object"} | break-stale-state-lock.sh:31 | a failed read of the lock counts as no lock |
| `Teardown!SweepNamesOrphans` | `MCTeardown` over "service" and "taskdef" | sweep_orphans.py:162-173 | the tail of an ARN that is another resource's id in the state hides an orphan |
| `ItemsApi!TotalCoversCount` | `pipeline_batches` | schemas.py:99-101 | a create between the COUNT and the page makes the page longer than the total |
| `CycleReport!CompleteIsAllOfIt` | `report` | fold-timeline.py:23-26, destroy.yml:366-370 | a teardown cancelled between its two destroys leaves one finished stream, and the timeline is complete over what still stands |
| `CycleReport!MeasuredIsAllMade` | `report` | fold-timeline.py:34-37 | while a replacement's new half is being made, or after it was killed there, the verdict of the old half's delete is on the record and the noun is measured |
| `CycleReport!MeasuredIsAllGone` | `report` | node-states.py:382-383 | before the last plan has been read to its end a noun counts the deletes announced so far alone: the balancer's is gone while its target group stands |
| `CycleReport!MeasuredIsFinal` | `report` | node-states.py:382-383 | in an ordinary teardown of stage or prod (destroy.yml:211-222) the second plan raises the count of a noun the first one had finished, and what was measured is incomplete again |
| `CycleReport!ApplyTakesNothingAway` | `report`, "bands" | node-states.py:441-447 | an apply that replaces a resource shows its noun as going away |
| `CycleReport!AnchorMatchesNodes` | `report`, "bands" | publish-status.sh:191-193 | a runner lost between two uploads leaves the anchor of another cycle |
| `CycleReport!ClosedRowsAreGone` | `report`, "bands" | fold-cost.py:31-32 | a delete that errored closes its row all the same |
| `CycleReport!BandIsABand` | one metered resource, a teardown that may be killed | fold-cost.py:31-32 | a delete that started and was killed makes the high end zero seconds, below the low one |
| `CycleReport!PairIsOneCycle` | one metered resource, two applies | fold-cost.py:121-136 | an apply whose anchor was not published leaves the earlier one, against which the teardown is priced |
| `TestRun!FailuresShow` | a spec under both `smoke` and `regression` | fold-results.py:16 | it is in no suite's inventory, so its failure is listed as unknown and the suite passes; `TestsAssumption` (section 10) keeps such a spec out of the theorem |
| `TestRun!VerdictsSurvive` | `repository_tools` | deploy-stage.yml:326-327 | one torn report refuses the fold of the whole ones |
| `Topology!EveryResourceHasAPlace` | `repository_tools` | generate-topology.py:484-485 | a resource placed by its instance's table alone is not compared with what a level draws |
| `Topology!HiddenIsMeant` | two modules called by one name in two levels | node-states.py, `index_hidden` | an address hidden in one level is taken as hidden in the other |
| `LiveBindings!NamedJobsFire` | `repository_tools` | generate-topology.py, `live_bindings` | the API reports the display name, the binding has the key |
| `Gates!EveryGateHasAReader` | `repository_tools` | assets/gates.json, `_gates` | a step that no line of ci.yml calls passes the refusals |
| `Rates!TableIsOfTheseSizes` | `repository_tools` | fetch-rates.py:60-62 | the gate does not compare the table's sizes with the levels' |
| `Migration!NeverHalfMigrated` | `repository_tools` | migrate-schema3.py:52-53 | a script killed between two writes leaves half a migration, which the next run refuses |

Other properties hold of the instance their run checks and not of a wider one.
The run's instance is the part of the environment's life in which the sentence
is kept; these are the parts in which it is not, and why the instance stops
where it does.

| Definition | Wider instance | Where the sentence is | What happens |
|---|---|---|---|
| `CycleReport!BandHoldsTheCharge` | `MaxDestroys` = 2 | fold-cost.py:31, publish-status.sh:195-198 | what a first, failed teardown removed counts to the second as never deleted |
| `CycleReport!NothingGoesUnpriced` | `MaxApplies` = 2 | fold-cost.py:1, 121-127 | the anchor of an apply over a standing environment holds only what it replaced |
| `Teardown!GreenMeansGone` | `Failing` = {"describe"} | sweep_orphans.py:81-82 | a describe call that fails reads as absent for every kind but a role, and the sweep is green over it |
| `Teardown!Recovers` | the api's task role with its two policies | adopt_orphans.py:364-448, tests/unit/test_adopt_orphans.py:520-522 | `DEPENDENTS` lists `api_publish_items` and not `api_consume_results`, so DeleteRole is refused for good |

## 12 What is not modelled

- Publishing of the status, the run index and the site (whole documents, one key
  each; the uploads whose order matters are in `CycleReport`), and the readable
  log `publish-progress` makes.
- Teardown: the revocation of security group rules and the lab's chart, which
  change nothing the state or the sweep looks at; the targeted destroy of the
  balancer is part of the destroy.
- The attribution of a cost to phases, which no workflow asks `fold-cost.py` for.
- The other generators and gates (sequential checks or renderings of the
  repository's own files, without state) and the break tests, which mutate a
  copy and expect a gate to fail.
- GET `?quota` and the health probes, which change nothing. Wording, logging,
  HTTP framing, JWT signing (github.py), metrics.
- The page, the web service, the chart and Terraform modules: rendering and
  configuration; what the models need of them (redrive policy, Lambda timeouts,
  the table's ttl attribute, concurrency groups) is in the models.
- Manual repairs: turning the switch off, deleting the lock, redriving a
  dead-letter queue.
- That an overdue environment comes down in the end (watchdog_handler.py:125) is
  not stated yet: it needs fairness of the schedule and of every call, over the
  largest instance of `LaunchControl`.
