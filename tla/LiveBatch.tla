------------------------------ MODULE LiveBatch ------------------------------
(***************************************************************************)
(* A batch of Stage 1: ten shots submitted by an operator, one process per *)
(* command, over two ledgers that no transaction joins.                    *)
(*   PostgreSQL: the materialised projection (the FLO-104 sample, or the   *)
(*     FLO-100 batches and the activation that makes Batch A live), its    *)
(*     authorizations, the FLO-167 supersession that reprices A02-A10      *)
(*     after A01, provider jobs, the quota reservations                    *)
(*     (stage1materialize/, repository/flo100_live.go,                     *)
(*     repository/flo167_supersession.go).                                 *)
(*   The gate's file: the execution package and one record per job, under  *)
(*     a file lock that is held over the commit in PostgreSQL              *)
(*     (stage1/readiness.go).                                              *)
(* stage1/runner.go drives both.  A process may stop between two of its    *)
(* steps; authorizations expire; a quota snapshot is good for 300 seconds. *)
(*                                                                         *)
(* Shots are their ordinals, shot 1 is GOLD-A01, and the controlled retry  *)
(* is the job N + 1.  A measured AFP is the set of prices of its shot that *)
(* it is within ten percent of: the uniform V2 estimate, the V3 duration   *)
(* price, both (the duration prices of some shots are near the uniform     *)
(* one) or neither.                                                        *)
(***************************************************************************)
EXTENDS Naturals, FiniteSets

CONSTANTS
    N,             \* primary shots of the batch; ten in the code
    MaxSnapshots,  \* bound: quota snapshots, each taken when the last is stale
    MaxOpen,       \* bound: jobs with an open process at a time; one after a fault
    MaxFaults      \* bound: processes that stop, authorizations that expire, bindings
                   \* that drift, answers that are lost, tasks that fail, evidence or
                   \* usage that falls short

ASSUME BoundsAssumption == /\ N \in Nat \ {0, 1}
                           /\ {MaxSnapshots, MaxOpen, MaxFaults} \subseteq Nat \ {0}

VARIABLES
    projection,    \* what was materialised: its gates, its profile, its activation
    drift,         \* sealed rows that changed: NONE, SEALED (no paid boundary reads
                   \* them again), BINDING (every boundary does)
    submitAuth,    \* stage1_live_submit_authorizations of the activation
    supersession,  \* stage1_live_supersessions: its state
    v3Auth,        \* its authorization
    reservation,   \* AFP reservation of the activation (V2), the supersession (V3)
    job,           \* provider job of each run, with its price and V3 submission
    terminal,      \* the supersession's terminal ledger: the job that closed a shot
    retryBound,    \* stage1_live_controlled_retries
    revisions,     \* speech revisions of the package that were written
    package,       \* execution package of the gate's file
    localRetry,    \* retry package of the gate's file
    record,        \* records of the gate's file
    safety,        \* its count of consecutive content-safety failures
    submit,        \* Runner.Submit of each job: how far its process has come
    closing,       \* Runner.Complete of each job, between its two commits
    task,          \* the provider's task
    posts,         \* submissions sent for each job
    quota,         \* the only quota snapshot that is still fresh
    finalization,  \* Stage1FinalizationWorkflow
    faults

authority == <<projection, drift, submitAuth, supersession, v3Auth>>
database  == <<reservation, job, terminal, retryBound, revisions>>
gate      == <<package, localRetry, record, safety>>
process   == <<submit, closing>>
provider  == <<task, posts>>
vars      == <<authority, database, gate, process, provider, quota, finalization, faults>>

Shots     == 1 .. N
RetryJob  == N + 1
Jobs      == 1 .. N + 1
Pricings  == {"V2", "V3"}
NoRetry   == [shot |-> 0, pricing |-> "V2"]
Measures  == SUBSET Pricings
Unmeasured == Pricings    \* an AFP of 0 contradicts no price
NotClosed == [state |-> "NONE", afp |-> Unmeasured]
NoRecord  == [state |-> "NONE", complete |-> FALSE, afp |-> Unmeasured, pricing |-> "V2"]
Closed    == {"SUCCEEDED", "FAILED"}

\* What a materialisation writes.  The offline batches have a rejected safety
\* decision and a dry-run profile; only the sample and the activation may be paid for.
NotMaterialized  == [gates |-> "NONE", profile |-> "NONE", activated |-> FALSE]
OfflineBatch     == [gates |-> "RETURNED", profile |-> "DRY_RUN", activated |-> FALSE]
LiveProjection   == [gates |-> "APPROVED", profile |-> "LIVE", activated |-> TRUE]
SampleProjection == [gates |-> "APPROVED", profile |-> "LIVE", activated |-> FALSE]

ShotOf(j) == IF j = RetryJob THEN retryBound.shot ELSE j

Init ==
    /\ projection = NotMaterialized /\ drift = "NONE"
    /\ submitAuth = "ABSENT" /\ v3Auth = "ABSENT" /\ supersession = "NONE"
    /\ reservation  = [p \in Pricings |-> "NONE"]
    /\ job          = [j \in Jobs |-> [state |-> "NONE", pricing |-> "V2", snapshot |-> 0]]
    /\ terminal     = [s \in Shots |-> 0]
    /\ retryBound   = NoRetry
    /\ revisions    = {}
    /\ package      = "NONE"
    /\ localRetry   = NoRetry
    /\ record       = [j \in Jobs |-> NoRecord]
    /\ safety       = 0
    /\ submit       = [j \in Jobs |-> "IDLE"]
    /\ closing      = [j \in Jobs |-> NotClosed]
    /\ task         = [j \in Jobs |-> "NONE"]
    /\ posts        = [j \in Jobs |-> 0]
    /\ quota        = 1
    /\ finalization = [state |-> "NONE", runs |-> {}]
    /\ faults       = 0

Fault == faults < MaxFaults /\ faults' = faults + 1
FaultIf(mishap) == IF mishap THEN Fault ELSE UNCHANGED faults

\* Jobs with a process between two of its steps.
Open == {j \in Jobs : submit[j] # "IDLE" \/ closing[j] # NotClosed}
MayOpen(j) == Cardinality(Open \cup {j}) <= IF faults = 0 THEN MaxOpen ELSE 1

\* The file lock: AuthorizePrepared commits in PostgreSQL while it holds it.
LockFree == \A j \in Jobs : submit[j] # "COMMITTED"

----------------------------------------------------------------------------
(***************************************************************************)
(* Materialisation and authority.                                          *)
(***************************************************************************)
\* The rows a paid boundary or a finalization reads again: decisions, bindings,
\* profile, capability.
BindingsExact == drift # "BINDING"

\* A delivery moves the revision of its shot, which the offline seal covers, to
\* QC_PENDING: after it that seal verifies no more.
FormalProjectionExact == drift = "NONE" /\ \A j \in Jobs : job[j].state # "SUCCEEDED"
LiveProjectionExact   == drift = "NONE"

\* FLO-104: the sample package, approved and live, with no activation.
Materialize ==
    /\ projection = NotMaterialized
    /\ projection' = SampleProjection
    /\ UNCHANGED <<drift, submitAuth, supersession, v3Auth, database, gate, process, provider,
                   quota, finalization, faults>>

\* FLO-100: the three provider-free batches and their seal, in one transaction.
MaterializeFLO100 ==
    /\ projection = NotMaterialized
    /\ projection' = OfflineBatch
    /\ UNCHANGED <<drift, submitAuth, supersession, v3Auth, database, gate, process, provider,
                   quota, finalization, faults>>

IssuedAuthorization(issued) == IF issued THEN "VALID" ELSE "ABSENT"

\* The activation, its ten runs and its seal; the submit authorization with them
\* when it was issued for this source commit.
MaterializeFLO100Live(issued) ==
    /\ projection = OfflineBatch /\ FormalProjectionExact
    /\ projection' = LiveProjection
    /\ submitAuth' = IssuedAuthorization(issued)
    /\ UNCHANGED <<drift, supersession, v3Auth, database, gate, process, provider,
                   quota, finalization, faults>>

\* A replay verifies both seals and writes the authorization once; another one for
\* the same commit is refused, so that an expired one is never renewed.
EnsureLiveSubmitAuthorization ==
    /\ projection = LiveProjection /\ FormalProjectionExact /\ LiveProjectionExact
    /\ submitAuth = "ABSENT"
    /\ submitAuth' = IssuedAuthorization(TRUE)
    /\ UNCHANGED <<projection, drift, supersession, v3Auth, database, gate, process, provider,
                   quota, finalization, faults>>

SubmitAuthorizationExpires ==
    /\ submitAuth = "VALID"
    /\ Fault
    /\ submitAuth' = "EXPIRED"
    /\ UNCHANGED <<projection, drift, supersession, v3Auth, database, gate, process, provider,
                   quota, finalization>>

\* A01 has been paid for, delivered and settled exactly as the package says.
LegacyTerminal == job[1].state = "SUCCEEDED"

MaterializeFLO167Supersession ==
    /\ projection.activated
    /\ supersession = "NONE"
    /\ LegacyTerminal
    /\ supersession' = "PENDING"
    /\ UNCHANGED <<projection, drift, submitAuth, v3Auth, database, gate, process, provider,
                   quota, finalization, faults>>

AuthorizeFLO167Supersession ==
    /\ supersession = "PENDING"
    /\ supersession' = "AUTHORIZED"
    /\ v3Auth'       = "VALID"
    /\ UNCHANGED <<projection, drift, submitAuth, database, gate, process, provider,
                   quota, finalization, faults>>

V3AuthorizationExpires ==
    /\ v3Auth = "VALID"
    /\ Fault
    /\ v3Auth' = "EXPIRED"
    /\ UNCHANGED <<projection, drift, submitAuth, supersession, database, gate, process, provider,
                   quota, finalization>>

\* Bound: a row that only the seals cover changes before the submit authorization;
\* nothing verifies the seals after it.
RowsDrift(rows) ==
    /\ projection # NotMaterialized /\ drift = "NONE"
    /\ rows = "SEALED" => submitAuth = "ABSENT" /\ projection # SampleProjection
    /\ Fault
    /\ drift' = rows
    /\ UNCHANGED <<projection, submitAuth, supersession, v3Auth, database, gate, process, provider,
                   quota, finalization>>

\* A job of the same run is replayed while it is queued: at the same price, and,
\* for a V3 submission, with the very snapshot it was recorded with.
PreparedJob(p) ==
    [state |-> "QUEUED", pricing |-> p, snapshot |-> IF p = "V3" THEN quota ELSE 0]

\* More than 300 seconds pass and the quota is read again.  It matters once a V3
\* submission names the snapshot: a stale one before that is as good as fresh.
SnapshotGoesStale ==
    /\ quota < MaxSnapshots
    /\ \E j \in Jobs : job[j] = PreparedJob("V3") /\ record[j].state = "NONE"
    /\ quota' = quota + 1
    /\ UNCHANGED <<authority, database, gate, process, provider, finalization, faults>>

----------------------------------------------------------------------------
(***************************************************************************)
(* The paid boundary in PostgreSQL: the part of PrepareProviderJob that    *)
(* knows a batch.                                                          *)
(***************************************************************************)
\* The activation's decisions, bindings and route, and a submit authorization; the
\* continuation only asks that there was one.
LiveAuthority(p) ==
    /\ BindingsExact
    /\ submitAuth = "VALID" \/ (p = "V3" /\ submitAuth # "ABSENT")

A01CrossedPaidBoundary == job[1].state \in Closed

\* The uniform estimate is good until A01 is closed or the batch is repriced.
LegacyBoundary == supersession = "NONE" /\ ~A01CrossedPaidBoundary

\* Mutant: a prior shot counts when it was submitted.
PriorShotsSubmitted(s) == \A m \in 2 .. s - 1 : job[m].pricing = "V3"

PriorShotsTerminal(s) == \A m \in 2 .. s - 1 : terminal[m] # 0

SupersededBoundary(j) ==
    /\ supersession \in {"AUTHORIZED", "SUBMITTED"}
    /\ v3Auth = "VALID"
    /\ ShotOf(j) # 1
    /\ supersession = "AUTHORIZED" => ShotOf(j) = 2
    /\ PriorShotsTerminal(ShotOf(j))

\* The retry row binds this package, and its primary still failed.
RetryAuthorized(p) ==
    /\ retryBound.shot # 0 /\ retryBound.pricing = p
    /\ job[retryBound.shot].state = "FAILED"

\* Mutant: the reservation of the activation stays with that of the supersession.
ReservedTwice(p) == [reservation EXCEPT ![p] = "RESERVED"]

ReserveStage1LiveAFP == [reservation EXCEPT !["V2"] = "RESERVED"]

\* Repricing releases the reservation of the activation.
ReserveFLO167AFP ==
    [reservation EXCEPT !["V3"] = "RESERVED",
                        !["V2"] = IF @ = "RESERVED" THEN "RELEASED" ELSE @]

\* The sample has no allowance of its own.
Reserved(p) ==
    IF ~projection.activated THEN reservation
    ELSE IF p = "V2" THEN ReserveStage1LiveAFP ELSE ReserveFLO167AFP

\* The first V3 job is that of A02: it takes the supersession from authorized
\* over quota_reserved to submitted in one transaction.
NextSupersession(p) ==
    IF p = "V3" /\ supersession = "AUTHORIZED" THEN "SUBMITTED" ELSE supersession

PrepareProviderJob(j, p) ==
    /\ projection.gates = "APPROVED" /\ projection.profile = "LIVE"
    /\ p = "V2" => (projection.activated => LegacyBoundary)
    /\ p = "V3" => projection.activated /\ SupersededBoundary(j)
    /\ IF projection.activated THEN LiveAuthority(p) ELSE BindingsExact
    /\ j = RetryJob => RetryAuthorized(p)
    /\ job[j].state = "NONE" \/ job[j] = PreparedJob(p)
    /\ job'          = [job EXCEPT ![j] = PreparedJob(p)]
    /\ reservation'  = Reserved(p)
    /\ supersession' = NextSupersession(p)

----------------------------------------------------------------------------
(***************************************************************************)
(* Runner.Submit.  A key that has a record is only looked up at the        *)
(* adapter, or replayed: neither changes a ledger.                         *)
(***************************************************************************)
\* The gate's file is bound to the package of its first runner for good.
BindExecutionPackage ==
    /\ LockFree
    /\ projection.profile = "LIVE"
    /\ package = "NONE"
    /\ package' = "ORIGINAL"
    /\ UNCHANGED <<authority, database, localRetry, record, safety, process, provider, quota,
                   finalization, faults>>

\* Every command constructs a runner: a retry or the continuation only over the
\* original package, the continuation only over a live one.
NewRunner(p) == package = "ORIGINAL" /\ (p = "V3" => projection.activated)

WithinPrice(afp, p) == p \in afp

\* Every closed job has its evidence and was measured within its price: the one
\* it was predicted at, or its duration price for the continuation.
LedgerAdmits(p) ==
    /\ \A i \in Jobs : record[i].state \in Closed => record[i].complete
    /\ \A i \in Jobs : WithinPrice(record[i].afp, IF p = "V3" THEN "V3" ELSE record[i].pricing)
    /\ safety < 2

\* The one retry replaces a primary that failed with its evidence.
RetryAdmitted(p) ==
    /\ localRetry.shot # 0 /\ localRetry = retryBound /\ localRetry.pricing = p
    /\ record[localRetry.shot].state = "FAILED" /\ record[localRetry.shot].complete

\* Mutant: a job that is prepared and not closed is submitted again.
UnclosedAdmitted(j) == record[j].state \notin Closed

NewAttempt(j) == record[j].state = "NONE"

\* The gate validates, and PostgreSQL commits, under the file lock.
AuthorizePrepared(j, p) ==
    /\ LockFree /\ submit[j] = "IDLE" /\ MayOpen(j)
    /\ NewRunner(p)
    /\ NewAttempt(j)
    /\ LedgerAdmits(p)
    /\ j = RetryJob => RetryAdmitted(p)
    /\ PrepareProviderJob(j, p)
    /\ submit' = [submit EXCEPT ![j] = "COMMITTED"]
    /\ UNCHANGED <<projection, drift, submitAuth, v3Auth, terminal, retryBound, revisions, gate,
                   closing, provider, quota, finalization, faults>>

SavePrepared(j) ==
    /\ submit[j] = "COMMITTED"
    /\ record' = [record EXCEPT ![j] = [NoRecord EXCEPT !.state = "PREPARED",
                                                        !.pricing = job[j].pricing]]
    /\ submit' = [submit EXCEPT ![j] = "SAVED"]
    /\ UNCHANGED <<authority, database, package, localRetry, safety, closing, provider, quota,
                   finalization, faults>>

\* The adapter knows no job of this key yet, so it is submitted.  LOST: an error,
\* or an answer without a task; the request may have been carried out all the same,
\* or been rejected for its content before there was a task.
Submit(j) ==
    /\ submit[j] = "SAVED"
    /\ posts' = [posts EXCEPT ![j] = @ + 1]
    /\ \E outcome \in {"NONE", "PENDING", "REJECTED"}, answer \in {"IDLE", "LOST"} :
          /\ outcome # "PENDING" => answer = "LOST"
          /\ task'   = [task EXCEPT ![j] = IF @ = "NONE" THEN outcome ELSE @]
          /\ submit' = [submit EXCEPT ![j] = answer]
          /\ FaultIf(answer = "LOST")
    /\ UNCHANGED <<authority, database, gate, closing, quota, finalization>>

\* Mutant: a submission that was not answered leaves its key free.
Forgotten(j) == IF record[j].state = "PREPARED" THEN NoRecord ELSE record[j]

\* A record that was closed meanwhile is not downgraded.
Ambiguous(j) ==
    IF record[j].state = "PREPARED" THEN [record[j] EXCEPT !.state = "AMBIGUOUS"] ELSE record[j]

MarkAmbiguous(j) ==
    /\ submit[j] = "LOST" /\ LockFree
    /\ submit' = [submit EXCEPT ![j] = "IDLE"]
    /\ record' = [record EXCEPT ![j] = Ambiguous(j)]
    /\ UNCHANGED <<authority, database, package, localRetry, safety, closing, provider, quota,
                   finalization, faults>>

\* The process stops: what it committed or sent stays, and its lock is gone.
SubmitStops(j) ==
    /\ submit[j] # "IDLE"
    /\ Fault
    /\ submit' = [submit EXCEPT ![j] = "IDLE"]
    /\ UNCHANGED <<authority, database, gate, closing, provider, quota, finalization>>

ProviderFinishes(j) ==
    /\ task[j] = "PENDING"
    /\ \E outcome \in Closed :
          task' = [task EXCEPT ![j] = outcome] /\ FaultIf(outcome = "FAILED")
    /\ UNCHANGED <<authority, database, gate, process, posts, quota, finalization>>

----------------------------------------------------------------------------
(***************************************************************************)
(* Runner.Complete: PostgreSQL first, the gate's file second.              *)
(***************************************************************************)
\* A shot of the continuation is closed only within its duration price, and a
\* second completion of it must be the first one.
TerminalWithinPrice(j, afp) == WithinPrice(afp, "V3") /\ terminal[ShotOf(j)] \in {0, j}

CompletePreparedProviderJob(j, afp) ==
    /\ task[j] = "SUCCEEDED" /\ closing[j] = NotClosed /\ MayOpen(j)
    /\ job[j].pricing = "V3" => TerminalWithinPrice(j, afp)
    /\ job'      = [job EXCEPT ![j].state = "SUCCEEDED"]
    /\ terminal' = IF job[j].pricing = "V3" THEN [terminal EXCEPT ![ShotOf(j)] = j] ELSE terminal
    /\ closing'  = [closing EXCEPT ![j] = [state |-> "SUCCEEDED", afp |-> afp]]
    /\ FaultIf(~WithinPrice(afp, IF j = 1 THEN "V3" ELSE job[j].pricing))
    /\ UNCHANGED <<authority, reservation, retryBound, revisions, gate, submit, provider, quota,
                   finalization>>

\* A failed task may have been measured or not.
FailPreparedProviderJob(j, afp) ==
    /\ task[j] = "FAILED" /\ closing[j] = NotClosed /\ MayOpen(j)
    /\ job'     = [job EXCEPT ![j].state = "FAILED"]
    /\ closing' = [closing EXCEPT ![j] = [state |-> "FAILED", afp |-> afp]]
    /\ FaultIf(~WithinPrice(afp, job[j].pricing))
    /\ UNCHANGED <<authority, reservation, terminal, retryBound, revisions, gate, submit, provider,
                   quota, finalization>>

Outcome(j) == IF task[j] = "SUCCEEDED" THEN "SUCCEEDED" ELSE "FAILED"

\* Mutant: evidence that is missing something is recorded as complete.
FrozenAsComplete(j) ==
    [record[j] EXCEPT !.state = Outcome(j), !.complete = TRUE]

Frozen(j) == [record[j] EXCEPT !.state = Outcome(j)]

\* Consecutive closed records that failed for their content; two stop the batch.
SafetyAfter(blocked) == IF ~blocked THEN 0 ELSE IF safety < 2 THEN safety + 1 ELSE safety

\* The checklist, an identity, the usage or the artifact is missing: the outcome
\* is frozen in the gate's file alone, and nothing is submitted after it.
FreezeIncomplete(j, blocked) ==
    /\ task[j] \in Closed \cup {"REJECTED"}
    /\ blocked => task[j] # "SUCCEEDED"
    /\ task[j] = "REJECTED" => blocked
    /\ LockFree /\ closing[j] = NotClosed
    /\ record[j].state \in {"PREPARED", "AMBIGUOUS"}
    /\ record' = [record EXCEPT ![j] = Frozen(j)]
    /\ safety' = SafetyAfter(blocked)
    /\ FaultIf(task[j] # "REJECTED")
    /\ UNCHANGED <<authority, database, package, localRetry, process, provider, quota,
                   finalization>>

\* A closed record is immutable: another completion of it is an error.
Completed(j) ==
    [record[j] EXCEPT !.state = closing[j].state, !.complete = TRUE, !.afp = closing[j].afp]

SaveCompletion(j, blocked) ==
    /\ closing[j] # NotClosed /\ LockFree
    /\ blocked => closing[j].state = "FAILED"
    /\ closing' = [closing EXCEPT ![j] = NotClosed]
    /\ IF record[j].state \in {"PREPARED", "AMBIGUOUS"}
       THEN /\ record' = [record EXCEPT ![j] = Completed(j)]
            /\ safety' = SafetyAfter(blocked)
       ELSE UNCHANGED <<record, safety>>
    /\ UNCHANGED <<authority, database, package, localRetry, submit, provider, quota,
                   finalization, faults>>

CompleteStops(j) ==
    /\ closing[j] # NotClosed
    /\ Fault
    /\ closing' = [closing EXCEPT ![j] = NotClosed]
    /\ UNCHANGED <<authority, database, gate, submit, provider, quota, finalization>>

----------------------------------------------------------------------------
(***************************************************************************)
(* The controlled retry, the speech revision and the finalization.         *)
(***************************************************************************)
\* A package and authorizations that are current.  A V2 package only asks for the
\* submit authorization: it may bind a primary that was submitted at its V3 price,
\* and leave the batch without a retry.
RetryPackageCurrent(s, p) ==
    /\ submitAuth # "ABSENT"
    /\ p = "V2" => submitAuth = "VALID"
    /\ p = "V3" => supersession = "SUBMITTED" /\ v3Auth = "VALID" /\ s # 1

PrimaryFailureSettled(s, p) ==
    /\ job[s].state = "FAILED"
    /\ p = "V3" => job[s].pricing = "V3"

\* One retry package for the activation, for ever.
BindFLO100LiveControlledRetry(s, p) ==
    /\ projection.activated
    /\ RetryPackageCurrent(s, p)
    /\ retryBound = NoRetry
    /\ PrimaryFailureSettled(s, p)
    /\ retryBound' = [shot |-> s, pricing |-> p]
    /\ UNCHANGED <<authority, reservation, job, terminal, revisions, gate, process, provider, quota,
                   finalization, faults>>

\* A runner is constructed with the package: the first one wins in the gate's file.
BindControlledRetryPackage(s, p) ==
    /\ LockFree /\ NewRunner(p) /\ projection.activated
    /\ localRetry = NoRetry
    /\ record[s].state = "FAILED" /\ record[s].complete
    /\ p = "V3" => s # 1
    /\ localRetry' = [shot |-> s, pricing |-> p]
    /\ UNCHANGED <<authority, database, package, record, safety, process, provider, quota,
                   finalization, faults>>

\* A licensed voice for the sample, the only package with an approved parent voice.
RevoiceStage1 ==
    /\ projection = SampleProjection /\ BindingsExact
    /\ "VOICE" \notin revisions
    /\ revisions' = revisions \cup {"VOICE"}
    /\ UNCHANGED <<authority, reservation, job, terminal, retryBound, gate, process, provider,
                   quota, finalization, faults>>

\* Every cue of the episode, once its ten runs are delivered.
AuthorizeSpeechBatch ==
    /\ revisions = {"VOICE"} /\ BindingsExact
    /\ \A s \in Shots : job[s].state = "SUCCEEDED"
    /\ revisions' = revisions \cup {"BATCH"}
    /\ UNCHANGED <<authority, reservation, job, terminal, retryBound, gate, process, provider,
                   quota, finalization, faults>>

RevisedFrom == [k \in {"VOICE", "BATCH"} |-> IF k = "VOICE" THEN "ORIGINAL" ELSE "VOICE"]

\* A revision repeats the ten jobs of its parent, at their V2 estimates.
Revisable(s) ==
    /\ record[s].state = "SUCCEEDED" /\ record[s].complete
    /\ record[s].pricing = "V2"

BindExecutionPackageRevision(k) ==
    /\ LockFree
    /\ k \in revisions /\ package = RevisedFrom[k]
    /\ localRetry = NoRetry
    /\ \A s \in Shots : Revisable(s)
    /\ package' = k
    /\ UNCHANGED <<authority, database, localRetry, record, safety, process, provider, quota,
                   finalization, faults>>

FailedPrimaries == {s \in Shots : record[s].state = "FAILED"}

\* Mutant: a closed record is enough, with or without its evidence.
EvidenceUnchecked(j) == record[j].state \in Closed

EvidenceComplete(j) == record[j].state \in Closed /\ record[j].complete

\* The ten primaries, or nine of them and the retry of the tenth.
FinalizationRuns == (Shots \ FailedPrimaries) \cup {j \in {RetryJob} : FailedPrimaries # {}}

FinalizationInput ==
    /\ LockFree
    /\ finalization.state = "NONE"
    /\ \A s \in Shots : EvidenceComplete(s)
    /\ FailedPrimaries \subseteq {localRetry.shot}
    /\ FailedPrimaries # {} =>
          record[RetryJob].state = "SUCCEEDED" /\ EvidenceComplete(RetryJob)
    /\ finalization' = [state |-> "REQUESTED", runs |-> FinalizationRuns]
    /\ UNCHANGED <<authority, database, gate, process, provider, quota, faults>>

\* The run set of the activation, and an authorization that has not expired: that
\* of the supersession once every shot of the continuation has its terminal row.
FinalizationAuthority(runs) ==
    /\ Cardinality(runs) = N
    /\ \/ Shots \subseteq runs
       \/ RetryJob \in runs /\ retryBound.shot \notin runs
    /\ \/ submitAuth = "VALID"
       \/ /\ supersession = "SUBMITTED" /\ v3Auth = "VALID"
          /\ \A s \in Shots \ {1} : terminal[s] # 0

CommitPostProduction ==
    /\ finalization.state = "REQUESTED"
    /\ BindingsExact
    /\ projection.activated => FinalizationAuthority(finalization.runs)
    /\ \A j \in finalization.runs : job[j].state = "SUCCEEDED"
    /\ finalization' = [finalization EXCEPT !.state = "COMMITTED"]
    /\ UNCHANGED <<authority, database, gate, process, provider, quota, faults>>

----------------------------------------------------------------------------
Materialisation ==
    \/ Materialize
    \/ MaterializeFLO100
    \/ \E issued \in BOOLEAN : MaterializeFLO100Live(issued)
    \/ EnsureLiveSubmitAuthorization
    \/ SubmitAuthorizationExpires
    \/ MaterializeFLO167Supersession
    \/ AuthorizeFLO167Supersession
    \/ V3AuthorizationExpires
    \/ \E rows \in {"SEALED", "BINDING"} : RowsDrift(rows)
    \/ SnapshotGoesStale

Submission(j) ==
    \/ \E p \in Pricings : AuthorizePrepared(j, p)
    \/ SavePrepared(j)
    \/ Submit(j)
    \/ MarkAmbiguous(j)
    \/ SubmitStops(j)
    \/ ProviderFinishes(j)

Completion(j) ==
    \/ \E afp \in Measures : CompletePreparedProviderJob(j, afp) \/ FailPreparedProviderJob(j, afp)
    \/ \E blocked \in BOOLEAN : FreezeIncomplete(j, blocked) \/ SaveCompletion(j, blocked)
    \/ CompleteStops(j)

Closure ==
    \/ \E s \in Shots, p \in Pricings :
          BindFLO100LiveControlledRetry(s, p) \/ BindControlledRetryPackage(s, p)
    \/ BindExecutionPackage
    \/ RevoiceStage1
    \/ AuthorizeSpeechBatch
    \/ \E k \in {"VOICE", "BATCH"} : BindExecutionPackageRevision(k)
    \/ FinalizationInput
    \/ CommitPostProduction

Next ==
    \/ Materialisation
    \/ \E j \in Jobs : Submission(j) \/ Completion(j)
    \/ Closure

Spec == Init /\ [][Next]_vars

----------------------------------------------------------------------------
Retries == [shot : 0 .. N, pricing : Pricings]

TypeOK ==
    /\ projection \in {NotMaterialized, OfflineBatch, LiveProjection, SampleProjection}
    /\ drift \in {"NONE", "SEALED", "BINDING"}
    /\ {submitAuth, v3Auth} \subseteq {"ABSENT", "VALID", "EXPIRED"}
    /\ supersession \in {"NONE", "PENDING", "AUTHORIZED", "SUBMITTED"}
    /\ reservation \in [Pricings -> {"NONE", "RESERVED", "RELEASED"}]
    /\ job \in [Jobs -> [state : {"NONE", "QUEUED"} \cup Closed, pricing : Pricings,
                         snapshot : 0 .. MaxSnapshots]]
    /\ terminal \in [Shots -> 0 .. N + 1]
    /\ retryBound \in Retries /\ localRetry \in Retries
    /\ revisions \subseteq {"VOICE", "BATCH"}
    /\ package \in {"NONE", "ORIGINAL", "VOICE", "BATCH"}
    /\ record \in [Jobs -> [state : {"NONE", "PREPARED", "AMBIGUOUS"} \cup Closed,
                            complete : BOOLEAN, afp : Measures, pricing : Pricings]]
    /\ safety \in 0 .. 2
    /\ submit \in [Jobs -> {"IDLE", "COMMITTED", "SAVED", "LOST"}]
    /\ closing \in [Jobs -> [state : {"NONE"} \cup Closed, afp : Measures]]
    /\ task \in [Jobs -> {"NONE", "PENDING", "REJECTED"} \cup Closed]
    /\ posts \in [Jobs -> 0 .. 1]
    /\ quota \in 1 .. MaxSnapshots
    /\ finalization \in [state : {"NONE", "REQUESTED", "COMMITTED"}, runs : SUBSET Jobs]
    /\ faults \in 0 .. MaxFaults

\* Whatever process stops wherever it is, a job is submitted at most once, after
\* both ledgers knew of it, and the retry of a shot only when the task of its
\* primary had failed: no shot is paid for twice while its first task may still
\* be delivered (readiness.go:543-581, flo100_live.go:590-656).
OneResultPerShot ==
    /\ \A j \in Jobs : posts[j] > 0 => record[j].state # "NONE" /\ job[j].state # "NONE"
    /\ \A j \in Jobs : posts[j] <= 1
    /\ posts[RetryJob] > 0 => task[retryBound.shot] = "FAILED"

\* At the new prices the batch goes on one shot at a time: when a shot has a job,
\* A01 and every shot between them were delivered, each shot of the continuation
\* by the job its terminal row names, at its V3 price (flo167_supersession.go:190-216).
ContinuationInOrder ==
    \A j \in Jobs : (job[j].state # "NONE" /\ job[j].pricing = "V3") =>
        /\ task[1] = "SUCCEEDED" /\ job[1].pricing = "V2"
        /\ \A m \in 2 .. ShotOf(j) - 1 :
              /\ terminal[m] # 0
              /\ task[terminal[m]] = "SUCCEEDED" /\ job[terminal[m]].pricing = "V3"

\* One allocation of the account's quota stands for the batch, and every job that
\* can still spend it is covered by the one of its own price, or was queued before
\* the batch was repriced (reserveFLO167AFP, flo167_supersession.go:240-348).
QuotaReservedOnce ==
    /\ Cardinality({p \in Pricings : reservation[p] = "RESERVED"}) <= 1
    /\ projection.activated =>
          \A j \in Jobs : job[j].state # "NONE" => reservation[job[j].pricing] # "NONE"

\* The two ledgers never tell different outcomes of one job, although a process
\* may stop between their commits: what the gate's file closed with its evidence
\* is closed alike in PostgreSQL and at the provider, and a revised package rests
\* on ten deliveries (runner.go:458-525, readiness.go:396-471).
LedgersAgree ==
    /\ \A j \in Jobs : EvidenceComplete(j) =>
          record[j].state = job[j].state /\ record[j].state = task[j]
    /\ \A j \in Jobs : job[j].state \in Closed =>
          record[j].state \in {"PREPARED", "AMBIGUOUS", job[j].state}
    /\ package \in {"VOICE", "BATCH"} => \A s \in Shots : job[s].state = "SUCCEEDED"

\* The episode is assembled from one delivered run of every shot, with its evidence
\* in both ledgers, and a shot sold at its V3 price is the one of its terminal row
\* (runner.go:540-578, flo100_live.go:131-253).
FinalizedSetIsExact ==
    finalization.state = "COMMITTED" =>
        /\ {ShotOf(j) : j \in finalization.runs} = Shots
        /\ \A j \in finalization.runs :
              task[j] = "SUCCEEDED" /\ record[j].state = "SUCCEEDED" /\ record[j].complete
        /\ \A j \in finalization.runs : job[j].pricing = "V3" => terminal[ShotOf(j)] = j
=============================================================================
