# Verification of the AI video series workflow

This directory holds TLA+ models of the generation pipeline: the control plane
that accepts commands, the Temporal workflows and their workers, the PostgreSQL
ledger that is the product truth of runs and money, the adapter that buys video
and speech from a live provider, the episode that is put together from reviewed
shots, and the two controlled ways to spend real money: the live shots of a
Studio project and the operator's Stage 1 batch. TLC checks the models on small
instances and TLAPS proves the central theorems for every instance. File names
below are relative to `internal/videopipeline/` unless they start with another
top-level directory of the repository.

## 1. The system

| part | state it keeps | operations | talks to |
|---|---|---|---|
| Control plane API (`controlplane/`, `temporalcontrol/`) | none of its own | create, pause, resume, recover, cancel a run; series, sources, plans, productions, approvals, publication | commits a ledger transaction, then starts or signals a Temporal workflow, then marks the operation as started |
| Ledger (`repository/workflow_ledger.go`, `repository/postgres.go`, `video-pipeline/db/migrations`) | `generation_runs`, `generation_attempts`, `provider_jobs`, `budget_reservations`, `cost_ledger`, operations, journal, audit and outbox | one SERIALIZABLE transaction per operation, each verifying all the rows it relies on | called by the API and by activities |
| Shot workflow (`orchestration/shot_workflow.go`) | Temporal history: phase, pause and cancellation, pending activity | execute, wait for QC and review, compensate a cancellation, reconcile a failure, finalize | schedules activities, receives signals |
| Activities (`orchestration/activities.go`) | nothing between attempts but the journal | `ExecuteProviderJob`, `CancelProviderJob`, `FinalizeShotRun`, QC, review, Gate 3, post-production | the ledger, the adapter over HTTP |
| Provider adapter (`volcengineprovider/`) | one JSON record per job in a directory; for speech a receipt, a result and retry claims beside it | create, get, cancel; speech jobs with a one-time retry claim | the provider's API, the artifact store |
| Mock provider (`mockprovider/`) | jobs and callback receipts in memory | the same API, and callbacks | test runs |
| Artifact store (`artifactstore/`) | content-addressed files | `Put`, `Open` | adapter, activities |
| Episode workflow (`orchestration/workflow.go`) | Temporal history of an episode | runs every shot, waits for the Q1 decision of each, post-production, Gate 3, publication lock | activities; receives human decisions as signals |
| Provider contract (`internal/providercontract`) | none | states, validation, checked budget arithmetic, manifests | everybody |
| Creator live shot (`repository/creator_live_shot.go`, `controlplane/creator_handlers.go`) | plans and runs of a project, their operation and idempotency record | plan, confirm under the project's allowance; prepare, observe, complete, cancel, check and finalize of its run | the shot workflow, the adapter |
| Live activation and repricing (`repository/flo100_live.go`, `flo167_supersession.go`) | authorizations, a supersession with its terminal rows, reservations of allowance points, one controlled retry | the part of `PrepareProviderJob` that knows a batch; finalization authority | the ledger |
| Stage 1 runner (`stage1/`) | the gate's file: package, records, retry, under a file lock | submit, complete, bind packages, finalization input | adapter, ledger |
| Stage 1 materialisation (`stage1materialize/`) | the imported rows and their seals | import of the sample and of the batches, activation, speech revisions | the ledger |
| Production library, post-production, CER evaluation, live probe, configuration, commands (`production/`, `postproduction/`, `cerevaluation/`, `liveprobe/`, `runtimeconfig/`, `speechcontract/`, `cmd/`) | in-memory or none | pure computation, media tools, wiring | |
| Studio (`web/`) | client state only | calls the API | control plane |

What is hard in it:

* **Races for the outcome.** A completion, a cancellation and a finalization of
  one run may commit in any order, from different workers.
* **Money.** A hold is taken before the first network call and closed once, by a
  charge or by a release; several runs share one approval. A bill may exceed its
  hold, may be untrusted or missing, and the allocation is read back from rows
  that other transactions wrote.
* **The paid boundary.** Activities are retried and an attempt whose heartbeat was
  missed keeps running, yet a task must be bought once. An answer may be lost
  after the provider accepted.
* **Commit, then tell.** A command is durable before Temporal hears of it, and
  what a worker observes may be committed after the command that stops it.
* **Two ledgers.** The Stage 1 gate keeps a file beside PostgreSQL; a process may
  stop between the two commits, and authorizations and quota snapshots expire
  meanwhile.
* **Early, late and repeated decisions.** A human decision is signalled to a
  workflow when it is made, not when it is awaited, and again on every replay.
* **Work that outlives its right.** A licence, a consent, a source revision or a
  gate may change while an activity is under way.
* **Cancellation.** The provider may refuse, finish first, or not answer.
* **Convergence.** Somebody must go on until the outcome of a paid task is known.

Correctness, per part: the ledger's tables never contradict each other and never
commit more than was approved; the first outcome is final; the adapter buys a job
once, never before its intent is durable, and never claims an outcome the
provider did not have; the workflow answers a cancellation, ends or reconciles a
run, and reports success only for delivered output; an episode is published only
with reviewed runs under the one approved Gate 3 decision; a project never
confirms more tasks than its allowance and never two at a time; a batch delivers
every shot once, in order, at the price of its authorization, and neither of its
ledgers knows an outcome the other denies.

## 2. Modules

| module | what it models |
|---|---|
| `RunLedger` | the five money and outcome tables and every transaction on them |
| `BudgetApproval` | abstract specification: the account of one approval |
| `FiniteSums` | lemmas about the sum of a function over a finite set |
| `RunLedgerProofs` | theorems about `RunLedger`, and that it implements `BudgetApproval` |
| `ProviderAdapter` | the adapter's handlers, step by step, over its directory: video and speech |
| `ProviderAdapterProofs` | theorems about `ProviderAdapter` |
| `SoleServerProofs` | theorem about a job that one adapter process serves |
| `ShotWorkflow` | the composition: API, Temporal, workers, ledger, adapter, provider |
| `ShotWorkflowProofs` | theorems about `ShotWorkflow`, and that it is a behaviour of `RunLedger` |
| `EpisodeProduction` | the productions of an episode: gates, shots, decisions, rights, manifests, publication |
| `EpisodeGate` | abstract specification: manifests, the final decision and the publications of an episode |
| `EpisodeProductionProofs` | theorems about `EpisodeProduction`, and that it implements `EpisodeGate` |
| `CreatorLiveShot` | the live shots of one Studio project over their own ledger |
| `CreatorLiveShotProofs` | theorems about `CreatorLiveShot` |
| `LiveBatch` | the Stage 1 batch: runner, gate's file, activation, repricing, retry, finalization |
| `LiveBatchProofs` | theorems about `LiveBatch` |
| `MC...` | an instance of each for TLC |

### RunLedger

One function over runs per table: `run`, `attempt`, `job` (the state columns),
`upstream` (`upstream_task_id`), `reservation` (status), `ledger` (the cost
entries of the run's job) and `unconfirmed` (failure code
`CANCEL_NOT_CONFIRMED`). An action is a whole transaction and its guard is every
check that rolls it back, the `verify*` functions included. The module lets any
caller commit anything at any time, so its safety properties do not rely on the
workflow to call in a good order.

What a provider response says of its cost is one of five kinds of claim: trusted,
trusted beside a drifted estimate, untrusted, a subscription without a cash
amount, or none. The code tells no others apart for the ledger. An exact replay
of a completion or of a settlement is compared through the ledger entries and
the task identity. Left out: `operation_requests`, idempotent replay of
commands, audit and outbox rows, prompt lineage, the lifecycle of shots and the
allowance branches. `MarkOperationFailed` is left out because
`cmd/video-control-plane` always configures a Temporal controller and only a
server without one calls it.

### ProviderAdapter

`record[j]` is the record file of a job, `op[p]` the handler an adapter process is
running with its copy of the record, `remote` the provider's tasks. The mutex of
a process spans a handler, so a process has one handler at a time; between
processes only the exclusive link of `createRecord` orders anything, and
`updateRecord` renames over whatever is there. A crash, a failed write and a
failed call all are `Abandon`: the handler vanishes, what is durable stays. An
empty DELETE answer, which the code reads as a cancellation, is assumed to be
given only for a task the provider stopped; a cancel answered by SUCCEEDED is
possible, as in `providercontract/fake_test.go:195-211`.

A speech job is one call whose answer is the audio. Its handler leaves immutable
files: the `receipt` (which names the call), the `stored` object, the `result` of
the inspection; and `claims`, the digests of records whose retry was authorized
and used. Every later handler of the job first looks for these files
(`ReconcileSpeechInspection`) and repairs the record from them. `retry[p]` is the
record whose retry the configuration of a process authorizes; a digest is
modelled by the record it is of. The `ticket` of a task is history: the claim it
was bought under. `serves` fixes which process callers ask about which job, so
that one run covers several deployments.

What the model shows of the code beyond its properties: a speech answer whose
receipt could not be written leaves the record UNKNOWN with the identity of the
call; a GET then polls the video endpoint with it, and no retry can be authorized.
A failing call that ends late may overwrite a record that was retried meanwhile
and reset its retry count; each further call still needs an authorization of its
own. A crash after the claim uses the authorization up without a call.

### ShotWorkflow

One run, two workflow executions (`shot-generation` and the recovery), `Slots`
activity attempts. Every database transaction is an action of `RunLedger`,
through `INSTANCE`; every request to the adapter is one step (`Registry*`),
because one process serves the job and its mutex spans the request. `inbox`
holds commands that are committed and not yet known to Temporal. An execution has
a phase (EXECUTE, REVIEW, CANCEL, RECONCILE, CLOSED), its pending activity and
the attempt Temporal listens to (`worker`); an attempt nobody listens to goes on
until it ends or dies, and its report changes nothing. A fault is a lost answer,
a missed heartbeat or a failed step. QC and review are one nondeterministic
result. A signal to a closed workflow changes nothing. The journal commit and
the report to Temporal are one step.

### EpisodeProduction

`wf[p]` is `EpisodeProductionWorkflow` of a production: the activity or wait it is
at, the current shot and attempt, the approved `runs`, and the manifest that was
`built` but not committed. An activity commits its effect and then its answer; for
a production in `Faulty` the answer may be lost, so that the activity runs again
(`Complete`), or the activity may fail for good. `CreateGate3` is two steps,
because the manifest is built from reads of its own transaction and committed in
a later one; `FinalizeEpisode` is prepare, authorize (once for each cue), commit.
`inbox[p]` holds the signals a workflow has not consumed: `RecordApproval` may
deliver a decision at any time and again, which is what the command's replay does.
`run` holds the generation run with its QC report and Q1 review; its identity
contains plan, shot and attempt, so two productions of one plan share it, as the
digest of the specification makes them do in the code. `Upset` steps come from
outside: a new source revision (which makes the transitive consumers stale), a
right that is withdrawn, an artifact that is quarantined. A rights check covers
all assets of the episode. Pause, resume and cancellation are the code of the
shot workflow and left out.

A decision binds any number of objects of its episode. `ApproveG1`, `ApproveG2`
and `ApproveG3` move a set of revisions in one transaction, as
`applyApprovedGate` does (`repository/postgres.go:3615-3634`); a Gate 3 approval
also locks a set of manifests, each of one of the bound revisions
(`repository/postgres.go:3431-3458`), so that a revision may be locked without a
manifest. A rejection has no conditions: one of Gate 3 closes every open G3 review
whatever it binds, so its bindings are not recorded; one of Q1 closes the reviews of
all the runs it binds but is signalled for the last one. RETURNED has the effects of
REJECTED. An approval or a signal that changes nothing is a stuttering step.
Bindings to objects the gates do not change (sources, artifacts) and the Safety
gate are left out; bindings of another episode are refused by the code.

Seen in the model and not stated by any document, so no property: a rebuild after
a lost answer and another decision gives a second manifest with a second open
review; of two productions that share their runs only the one that created them
hears the Q1 decisions; a Q1 approval that arrives before the automatic QC makes
the QC conflict; the operation of a production is never closed; Gate 3 and
publication do not look at rights or freshness again. The code never cancels the
open run of a cancelled episode workflow.

`EpisodeGate` is what the readers of an episode are promised, without productions,
workflows or signals: manifests are offered for a revision while it is undecided;
one final decision, which may be about several revisions at once, chooses among
what these offer; a run is published once, in a chosen manifest that holds it. The
refinement (`Gate`) takes the manifests of a revision for what is offered, its
status G3_LOCKED for decided, the locked manifests for what is chosen, and the
publication locks for what is published. A commit of a manifest is then an `Offer`
or, when it is repeated, a stutter; an approved Gate 3 decision a `Decide` of all
its revisions in one step; a publication lock a `Publish` or a repetition;
everything else, rejections included, a stutter.

### CreatorLiveShot

`plan[p]` remembers the project as it was when the plan was made (`used`,
`active`), as `creator_live_shot_plans` does; `ConfirmCreatorLiveShotPlan` compares
it under the project's lock. The run is executed by the same workflow as an
ordinary shot: `wf[p]` its step, `attempt[p]["CURRENT"]` the activity attempt
Temporal listens to and `attempt[p]["ABANDONED"]` one whose heartbeat was missed
and that goes on. The adapter is one registry per job (`Registry*`), as in
`ShotWorkflow`; `BARE` is a success that was saved without artifacts and
`OVERDRAWN` one above the token cap. The manifest of the reconciliation path
lacks the region, so a completion remembers its path (`evidence`). A run closed
on the adapter's word that it has no task is `absent`.

Seen in the model: a run whose job is `BARE`, `OVERDRAWN` or unclear stays
RECONCILING for ever and keeps its project busy; a confirmation whose call to
Temporal was lost is started only when the client repeats the same key; a
completion by the reconciliation after the execution completed differs in the
region and is retried without limit; failed and cancelled runs keep their share
of the allowance; a rejection after SUCCEEDED is refused by
`FinalizeCreatorRun`. No document promises otherwise, so these are not findings.

### LiveBatch

Every command of the runner is a process that works over both ledgers:
`AuthorizePrepared` commits in PostgreSQL under the file lock, `SavePrepared`
saves the gate's file, `Submit` posts, `MarkAmbiguous` records a lost answer;
`CompletePreparedProviderJob` or `FailPreparedProviderJob` commits, and
`SaveCompletion` saves. A process may stop between any two (`SubmitStops`,
`CompleteStops`). `record` is the gate's file, `job` the provider job in
PostgreSQL. `PrepareProviderJob` has the guards of the batch: the activation's
authority, the uniform V2 boundary until A01 crosses it, and after that the
superseded boundary with the strict order of A02 to A10. The exact comparison of
dozens of sealed fields is one variable, `drift`, which says whether rows changed
that only the seals cover or such that every paid boundary reads. Prices are the
two price lists. What was measured for a job is the set of prices of its shot that
it is within ten percent of (`AFPWithinDrift`): either, both, since the duration
price of some shots is near the uniform one (that of A03 and A06 is the uniform one), or
neither; a job without a measurement contradicts no price. The gate compares with
the price a record was predicted at, and for the continuation with the duration
price of its shot (`stage1/readiness.go:620-640`). Sums of tokens, cash and
points are left out, because the sealed packages fix them below their caps.

Seen in the model: a shot prepared under V2 before A01 completes can never be
closed under V3; a process that stops between the two commits while the quota
snapshot goes stale leaves a shot that cannot be prepared again; a lost answer of
a request that never arrived is looked up for ever; incomplete evidence freezes
the gate's file and stops the batch; an expired authorization is never renewed;
a V2 retry package may bind a primary of V3 and so use up the only retry; a
reservation is never settled. Each stops work and loses or doubles no delivery.

One of them does contradict a document: a delivery moves
`shot_spec_revisions.lifecycle_state` to QC_PENDING
(`repository/workflow_ledger.go:2651-2658`), on rows the offline seal covers, so
after the first delivery every replay of the materialisation fails with "formal
projection drift" (`FormalProjectionExact`), although
`video-pipeline/docs/flo-100-formal-materialization.md:54-55` says the activation
"does not update the offline rows or their canonical seal" and line 40 promises a
replay that checks identities. The integration test
(`repository/flo100_live_integration_test.go:442`) replays only before a delivery.

## 3. Runs

| run | question | instance | result |
|---|---|---|---|
| `run_ledger` | do all transactions in any order keep the tables consistent, the outcome final and the approval respected, and implement the account? | two runs with estimates 2 and 3 under an approval of 4, two tasks, bills of 1 and 3 | 8 128 states, holds; no deadlock |
| `adapter` | is a job bought once and are records true, with crashes, lost answers, retries and two processes? | two processes in three deployments: a video job both serve and one only the first does; a speech job both serve; two cues of a batch one serves. Two inputs, three tasks, one authorized retry | 555 827 states, depth 47, holds |
| `shot_safety` | the whole path of a run: no second submit, no invented outcome, no success without output | three of the four operator commands, one fault, two attempts at a time, hold 2, bills 1 and 3 | 1 433 187 states, depth 50, holds |
| `shot_live` | is a cancellation answered, does a run end or get reconciled? | one cancellation at any point, one fault, two attempts | 51 101 states, holds |
| `shot_paused_cancel` | is the cancellation of a paused run answered? | pause and cancel, no fault | violated |
| `shot_success_race` | does a success before the cancellation become SUCCEEDED? | cancel and recover, no fault | violated |
| `shot_late_submit` | has a cancelled run no working task? | cancel, one fault | violated |
| `shot_lost_pause` | can a paused workflow be resumed? | pause, no fault | violated |
| `episode` | do only reviewed runs reach a manifest, only approved manifests the publication, does work stop when its right ends, and is it the abstract gate? | two productions, the answers of the first may be lost, three decisions at any time: both of one plan of two shots, with one change from outside, or one for each of two revisions (`Focus`, below) | 248 367 states, depth 44, holds |
| `episode_stale_gate3` | does a production take only a decision about its own manifest? | two productions of one shot each, three decisions, no fault | violated |
| `creator` | is every task within the allowance and counted once, is one at work at a time, is an outcome real and final? | two plans, allowance of two tasks, two attempts, two faults | 682 174 states, depth 40, holds |
| `live_batch` | one delivery for each shot, in order, with both ledgers in agreement? | three shots and the retry, two quota snapshots, two faults, two jobs open until the first fault and one after it | 994 112 states, depth 37, holds |

**Bounds.** `run_ledger`: with estimates 2 and 3 and an approval of 4 the second
hold fits only after the first was settled below its estimate or released, and
not after an overrun (a bill of 3 against 2); admission is decided both ways. Two
task identities are needed for a response about the wrong task. `adapter`: the
third task lets the same job be bought twice while another is bought once; two
inputs make a conflicting request; one retry gives two calls of one job, the
second of which may overtake the first, and the proofs cover any number. `shot_*`: two slots are the attempt
Temporal hears and one it has given up; a third zombie would repeat the second.
One fault per history is enough for every single failure at every point; each
command is given at most once, three in all, which includes pause-resume-cancel
and cancel-recover-pause. Bills of 1 and 3 are a settlement with a rest and an
overrun. `episode`:
two productions compete for runs, gates and signals. The constraint `Focus` of the
instance keeps two parts of it. In `TwoShots` both productions are of one plan of
two shots: they share their runs, three decisions are two approvals and a Gate 3
decision, or a rejection with the second attempt, and a right, an artifact or a
source may change once while there is one production. In `TwoRevisions` each
production is of one shot and of a revision of its own, the second is started once
the first has a manifest, and three decisions let both have a manifest before Gate 3,
so that one approval can lock both revisions, with both manifests or with one of
them; rejected runs, workflows that end in an error and changes from outside are
left to the other part. In both, the revisions pass G1 and G2 together before the
first plan, a Gate 3 decision comes after the first manifest, and a workflow past
its last review has no unread Q1 signal (it reads none any more). These states are
left out of the run, not of the model: the theorems are about all of them.
`creator`: two plans are the smallest project in which one confirmation makes the
other plan stale; the symmetric second key would only repeat the first; two faults
are an abandoned attempt and one more failure while it is at work. `live_batch`:
with three shots the third must wait for the second, which starts the
continuation, and A01 is priced the old way; a second snapshot is enough to make
the first stale; two faults are a failed task (which the retry needs) and a stop
or an expiry. Deadlock is not checked for these runs and those of the adapter and
of the shot: a run that has ended, a job whose tasks are settled, an episode that
is locked or a batch that was refused stops legitimately.

**Symmetry** is used for tasks and inputs of the adapter, for slots of
`shot_safety` and for plans of `creator`, all of which are interchangeable; the
runs of `run_ledger` have different estimates, the shots of a batch an order, and
liveness runs use none.

**Fairness.** `FairSpec` of `ShotWorkflow` assumes weak fairness of each workflow
execution (Temporal runs a workflow task while one is due), of starting a
scheduled attempt, of each step of an attempt and of the delivery of a
cancellation with its heartbeat, of the end of an abandoned attempt (its
context times out), of the Temporal calls that follow a commit (the API answers
503 with "retry with the same idempotency key", and callers do), and of the
provider finishing an accepted task. No operator ever has to act, and faults may
use their whole bound. No strong fairness is assumed.

**The five violations** are behaviours the documents exclude and the code has:

1. `executeProviderWithControls` repeats its loop on a cancelled activity once a
   pause was seen, without looking at the cancelled context. The cancelled
   activity is started and cancelled for ever and the compensation never runs.
2. A cancel request answered by SUCCEEDED is saved without artifacts; all later
   cancel requests replay that record and the activity counts it as unconfirmed.
   The reconciliation only sends cancel requests.
3. "No job prepared" is read in one step and acted on in another. An attempt that
   Temporal gave up can prepare and submit in between, or can submit after the
   adapter said it knows no job.
4. `RecordProviderJobObservation` overwrites PAUSED. The workflow waits for a
   resume that the API then refuses, since it demands PAUSED.
5. A Gate 3 signal names no manifest and goes to the latest production of the
   episode. A decision about the manifest of one production, or one repeated
   after another production was started, is the answer of the other, which ends
   LOCKED or G3_REJECTED for a manifest nobody decided.

## 4. Proofs

`RunLedgerProofs` proves, for any set of runs, any approval, estimates, bills and
tasks:

* `Invariance`: `IInv`, the conjunction of `TypeOK`, `LedgerMatchesReservation`
  and `OutcomesAgree`, is inductive. None of the three is inductive alone: which
  transaction is allowed for a job depends on the reservation, and the guards on
  the run only protect the job because the outcomes agree.
* its corollaries `TypeCorrect`, `MoneyTablesNeverDrift`, `OneOutcomeForAll` and
  `ApprovalAlwaysReadable` (a released hold has the ledger entry of its job's
  state, which is the state of its run);
* `NeverOvercommitted`: what the runs of an approval hold, and what they consumed
  within their own holds, never exceeds its amount (`CommittedWithinApproval`);
* the action properties `TerminalForever` and `KnownTaskNeverReleased`;
* `Refinement`: the ledger implements `BudgetApproval`, with the reservation
  status as the hold and the amount read back from the rows as the allocation.

Assumptions: the approval, the estimates and the bills are natural numbers,
`NoTask` is not a task and there are finitely many runs (`ApprovedAssumption`,
`EstimateAssumption`, `ActualsAssumption`, `NoTaskAssumption`, `RunsAssumption`).

The argument uses that every action writes the rows of one run (`OnlyRow`), so
that an invariant needs to be shown for one row (`OneRowSuffices`). Releases and
settlements, which three transactions share, have their own lemmas
(`ReleaseCloses`, `SettleCloses`, `ClosedRow`), and there is one lemma per
transaction under `NextIInv`. For the refinement each step either moves no hold,
opens one under the admission check, or closes one (`HoldMoves`).

`NeverOvercommitted` is about a sum over all runs, which the model writes as a fold.
The library's induction theorems cannot be instantiated here, so `FiniteSums`
derives what is needed without them: `Sums` says by its equation what the sum of
every part of a set is; a smallest set at which two solutions differ, or that has
none, would have a smaller one too (`SmallestSubset`, from the finiteness of the
set), so every finite set has exactly one solution (`SumsExist`, `SumsUnique`), and
the fold is its value (`SumIsFold`). It follows that the sum of zeros is zero, that a
sum of smaller amounts is smaller (`SumMonotone`) and that a sum changes by what
one of its amounts changes (`SumChange`). A transaction opens a hold, which its
admission check compared with the allocation read from all rows, or it raises the
commitment of no run (`OpenedWithinApproval`, `CommitmentsOnlyFall`): a bill above
its hold is counted up to the hold.

`ProviderAdapterProofs` proves, for any set of jobs, processes, deployments,
tasks, inputs and retries, with a crash possible at every step:

* `Invariance`: `IInv` is inductive;
* `TypeCorrect`; `PaidOnce` (no two tasks of a job under one intent or one claim);
  `IntentFirst` (a task has a durable intent with its input, and a cue waits for
  its predecessors); `NeverOverclaims` (a terminal record is borne out by the
  provider's own task and, for speech, by receipt, object and result).

The invariant has to speak of what handlers still hold, since a handler writes its
copy over whatever the record has become. Its parts: every record is true of the
provider (`JobOK`), and so is every copy a handler may still write (`CopyOK`); the
files of a speech job appear in the order receipt, object, result (`FilesOK`); every
task has its durable intent (`TaskOK`); a handler is at a step that fits what is
on disk (`PlaceOK`, `SpeechOK`); and of the handlers and tasks that hold the right
to buy for a job under one ticket there is at most one (`Tickets`), which is where
the exclusive creation of the intent and of the claim enter. The argument is that
files only grow: under `Grows` a true record stays true (`TrueRecordStable`,
`HandlerStable`, `JobStable`, `TaskStable`), so a step needs only to be examined
for the handler that takes it. A few lemmas describe the ways a handler moves
(`HandlerMoves`, `HandlerWrites`, `Paid`, `FileAppears`) and there is one lemma
per action. Assumptions: speech jobs are jobs, batches are sets of them, a
deployment maps processes to jobs, and the three absent values are not values.

`SoleServerProofs` proves `NeverForgets`, the action property
`SoleServerNeverForgets`: a process that is alone with a job never loses the task
it saved for it and never replaces its settled result. With two processes this is
false, because `updateRecord` renames the copy over whatever the record has become;
with one, the copy is still good enough when it is written. `Fresh` says how good:
it keeps the task of the record; it is the record itself if that is settled, which
only the steps of `Whole` may meet; and for speech, record and copy name the call
of the receipt. Each step of a lone handler keeps this (`OwnStep`, `Moves`,
`Writes`), and the steps of other processes concern other jobs (`Owner`,
`OthersFresh`). `IInv` supplies the order of the files, from which a settled speech
record is exactly what its result makes of it (`SettledDelivered`).

`ShotWorkflowProofs` proves, for any number of activity attempts, commands and
faults, every safety property of the run `shot_safety`:

* `Invariance`: `IInv` is inductive;
* `TypeCorrect`; `NeverPaidTwice` (no attempt, however late, is about to submit a
  run whose task the provider has already); `SettledAsHappened` (a run is settled
  only with the outcome of its task); `SucceededIsDelivered`;
* `FollowsLedger`: every behaviour of the composition is one of `RunLedger`, and so
  `OutcomeNeverReversed`, the ledger's `TerminalIsFinal`, holds under workflows,
  retried activities and commands.

Every step is a transaction of the ledger or leaves its tables alone. The lemmas
of `RunLedgerProofs` are taken over through an instance of it, whose operators
are shown to be those of the model (the `Same...` lemmas) and whose assumptions hold
of one run (`LedgerAssumptions`); `LedgerInv` is its invariant. The rest of `IInv`
relates the ledger to the adapter's registry and the registry to the task:
`RegistryTrue` (the registry claims only what the task bears out), `AttemptsTrue`
(so does every answer an attempt has seen and may still act on, `SeenTrue`, and the
step it is about to take has its reason, `StepJustified`), `PaidCrossed` (a task
exists only after the job row crossed the paid boundary) and `Delivered`. None of
the run's properties is inductive alone: an abandoned attempt settles a run on an
answer it got long before, which is right only because finished tasks and committed
outputs stay (`Growth`, `OtherAttemptsStayTrue`); a second attempt does not post
because it finds the row that the first one wrote before it posted. It is enough to
look at the attempt that moves (`OneAttempt`), with one lemma per action.
Assumptions: `Task` is not `NoTask`, and estimate and bills are natural numbers
(`TaskAssumption`, `AmountAssumption`).

`EpisodeProductionProofs` proves, for any plans, shots and revisions and any number
of productions, decisions and outside changes, every property of the run `episode`:

* `Invariance`: `IInv` is inductive;
* `TypeCorrect`; `OnlyReviewedReachGate3` (a manifest holds exactly one run of each
  shot of its plan, and each is approved); `PublishedAfterGate3` (a revision has at
  most one final decision, and what is published is in a manifest it names);
* the action properties `LockIsFinal` and `RightsHoldAtCommit`;
* `Refinement`: every behaviour is one of `EpisodeGate`, for any set of revisions,
  whatever sets of revisions and manifests the decisions bind.

`WorkTrue` says what an open workflow may claim: its production has a plan, its runs
are approved and one for each shot it has passed (`Holds`, `Passed`), and the
manifest it built holds those runs; without it nothing would be known of a
manifest that is committed a step after it was built. `ManifestsTrue` is the same of
the committed manifests. `FinalTrue` says that a final decision locks the revisions
of its manifests and that no revision has two, `LockedByDecision` and
`PublishedTrue` follow the chain from there to a publication lock, and
`DeliveryAsked` is why a manifest without post-production has no delivery that could
be withdrawn. What the argument uses throughout is that nothing a workflow relies
on is taken back: decisions stay, and a production keeps its plan
(`Grown`), because a new production always gets the first free number
(`NextProduction`, `AcceptedInOrder`). `WorkflowFootprint` and `CommandFootprint` say
which operation writes which table; a workflow's step leaves the others sound
(`OneMoves`), and most steps go to another step, close, or repeat (`GotoSound`,
`CloseSound`, `CompleteSound`). An approval of Gate 3 may lock several revisions;
`ApprovalGates` shows that none of them had a final decision, since `FinalTrue` has the
revisions of every earlier one locked, and that each of its manifests is of a
revision it locks. The refinement needs that a manifest stays with its revision
(`OfferedKept`) and that the locked revisions (`Decided`) change only by an approval;
`GateOffer`, `GateDecide` and `GatePublish` are its three steps. Assumptions: a plan has at least one shot and names none
twice (`DistinctShotsAssumption`, which `Validate` enforces in
`orchestration/workflow.go:876-889`), plans are for revisions of the episode, the
absent plan and manifest are none, options are Boolean and the bounds natural numbers.

`CreatorLiveShotProofs` proves, for any set of plans and keys, any allowance and
any number of attempts and faults, every property of the run `creator`:

* `Invariance`: `IInv` is inductive;
* `TypeCorrect`; `CountedOnce` (the confirmations use the numbers 0, 1, 2, ... of
  the allowance, each once); `OneTask` (at most one task works for a run that is
  not closed); `RealOutcome`; and the action property `FinalEvidence`.

The invariant relates, for each plan, the run to its plan, start and workflow
(`RunOK`), the adapter's record to the task (`TaskOK`), and what each attempt was
told to what is still so (`AttemptOK`): an abandoned attempt may complete or
cancel a run on an answer it got long ago, and is right only because a terminal
record never changes. Together the runs are numbered by the allowance used before
them and one is active (`Counted`). A step of an attempt writes the rows of one
plan, starts no run and reopens none, so it is enough to look at these rows
(`RowSuffices`); `FlowStep` and `ToldStep` are the two kinds of such steps, one
that writes the run and moves the workflow and one that asks the adapter. Only
`ConfirmStep` adds a run. Assumption: the three bounds are natural numbers and an
activity has an attempt (`BoundsAssumption`).

`LiveBatchProofs` proves, for a batch of any size and any number of snapshots, open
jobs and faults, every property of the run `live_batch`:

* `Invariance`: `IInv` is inductive;
* `TypeCorrect`; `OneResult` (a job is sent once, a retry only after the task of
  its primary failed); `InOrder` (at the new prices shot follows delivered shot);
  `QuotaOnce`; `Agreement` (the two ledgers tell one outcome); `ExactSet` (a
  committed episode has one delivered run of every shot).

`RowOK` is what the two ledgers, the commands between their commits and the
provider know of one job: which of the commits a step follows, and that whatever
either ledger has closed is the outcome of the task. The rest is about the batch:
the retry and the primary it replaces (`BoundOK`), the order of the continuation
and its terminal rows (`PricedOK`), the reservations (`QuotaOK`) and the runs of
the finalization (`FinalOK`). The argument is that a command writes the rows of
one job and never undoes what is closed (`RowStep`, `Grows`), so that the rest
stays true unless the step queues or delivers a job (`RowSuffices`,
`AuthorizePreparedStep`, `CompleteStep`) or changes an authority (`AuthorityStep`)
or a package (`ClosureStep`). Assumption: the batch has at least two shots and the
bounds are positive (`BoundsAssumption`).

Only model-checked: the liveness properties of `shot_live`, since liveness, ENABLED
and RECURSIVE definitions are out of the proof system's reach; and the five
violations, each of which is a behaviour that TLC exhibits. Every invariant and
every action property of the passing runs is a theorem.

## 5. Not modelled, and the plan

Next, most important first:

1. The input hash of a journalled step and the idempotent commands of the API
   (series, contexts, sources), with the abstract specification that each effect
   happens once per identity.
2. `ArtifactStore` (temporary file, rename, crash) and `MockProvider` (callback
   receipts, sequence).
3. The revision graph of the production library and the budget arithmetic of the
   provider contract as pure operators.

Liveness of a cancellation during the reconciliation phase, of compensation that
fails three times, and of the episode, the creator run and the batch is left open:
the first two have no answer in any document, and the others stop by design until
a human decides.

Not modelled: the `operation_requests` of ordinary commands, audit and outbox rows,
prompt lineage and read models of the ledger, which no guard reads; series,
contexts and assets of the control plane beyond the rights they give; the
validation of imported packages; estimate, health and capability endpoints and
the read-only audit of finished speech (`volcengineprovider/speech_correction.go`).
Post-production, CER evaluation, configuration parsing, the live probe, the
commands and the web application are pure computation, media tools or wiring,
which unit tests reach.
