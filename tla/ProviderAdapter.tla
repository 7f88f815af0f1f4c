-------------------------- MODULE ProviderAdapter --------------------------
(***************************************************************************)
(* The live provider adapter of volcengineprovider/server.go: a directory  *)
(* with one durable record per job, adapter processes that serve POST, GET *)
(* and cancel requests for it, and the provider's paid tasks.  The mutex   *)
(* of a process covers a whole handler, so a process runs one handler at a *)
(* time; nothing but the file system orders the handlers of different      *)
(* processes.                                                              *)
(*                                                                         *)
(* A video job is a task that is submitted and polled.  A speech job is    *)
(* one call that answers with the audio; its receipt, its object and the   *)
(* result of its inspection are immutable files beside the record          *)
(* (speech_inspection_recovery.go), and it is called again only under a    *)
(* claim that uses up the authorization an operator gave for its record.   *)
(***************************************************************************)
EXTENDS Naturals, FiniteSets

CONSTANTS
    Jobs,        \* job identities chosen by the callers
    SpeechJobs,  \* those with the speech capability
    Before,      \* Before[j]: the earlier cues of the speech batch of j
    Processes,   \* adapter processes over one record directory
    Deployments, \* which jobs callers ever ask each process about
    Inputs,      \* request hashes
    Tasks,       \* upstream task identities
    MaxRetries,  \* bound: records whose retry operators authorize
    NoJob, NoInput, NoTask

ASSUME SpeechAssumption  == /\ SpeechJobs \subseteq Jobs
                            /\ Before \in [SpeechJobs -> SUBSET SpeechJobs]
ASSUME DeploymentAssumption == Deployments \subseteq [Processes -> SUBSET Jobs]
ASSUME BoundAssumption   == MaxRetries \in Nat
ASSUME NoJobAssumption   == NoJob \notin Jobs
ASSUME NoInputAssumption == NoInput \notin Inputs
ASSUME NoTaskAssumption  == NoTask \notin Tasks

VARIABLES
    serves,   \* the deployment
    record,   \* the record file of each job
    op,       \* the handler each process is running, with its copy of the record
    remote,   \* the provider's tasks: those of video jobs, the calls of speech jobs
    receipt,  \* speech: the inspection receipt, which names the call it is for
    stored,   \* speech: whether the audio is in the artifact store
    result,   \* speech: whether the inspection result is published
    claims,   \* speech: the records whose retry authorization is used up
    retry     \* the record whose retry the configuration of a process authorizes

files  == <<receipt, stored, result, claims>>
speech == <<files, retry, serves>>
vars   == <<record, op, remote, speech>>

Terminal == {"SUCCEEDED", "FAILED", "CANCELLED"}
Active   == {"QUEUED", "RUNNING"}

Record(state, input, task, artifacts) ==
    [state |-> state, input |-> input, task |-> task, artifacts |-> artifacts,
     error |-> "NONE", history |-> 0]

NoRecord  == Record("ABSENT", NoInput, NoTask, FALSE)
NoRequest == [step |-> "IDLE", job |-> NoJob, copy |-> NoRecord, after |-> "NONE",
              ticket |-> NoRecord]

\* pendingResponse: the intent that is durable before the provider is called.
Intent(input) == Record("UNKNOWN", input, NoTask, FALSE)

\* A success whose artifacts are not committed is polled again.
Settled(rec) ==
    rec.state \in Terminal /\ (rec.state = "SUCCEEDED" => rec.artifacts)

Init ==
    /\ serves \in Deployments
    /\ record  = [j \in Jobs |-> NoRecord]
    /\ op      = [p \in Processes |-> NoRequest]
    /\ remote  = [t \in Tasks |->
                     [status |-> "NONE", job |-> NoJob, input |-> NoInput, ticket |-> NoRecord]]
    /\ receipt = [j \in SpeechJobs |-> NoTask]
    /\ stored  = [j \in SpeechJobs |-> FALSE]
    /\ result  = [j \in SpeechJobs |-> FALSE]
    /\ claims  = [j \in SpeechJobs |-> {}]
    /\ retry   = [p \in Processes |-> NoRecord]

Begin(p, j, step, copy) ==
    /\ op[p].step = "IDLE"
    /\ j \in serves[p]
    /\ op' = [op EXCEPT ![p] = [NoRequest EXCEPT !.step = step, !.job = j, !.copy = copy]]

Continue(p, step, copy) ==
    op' = [op EXCEPT ![p] = [@ EXCEPT !.step = step, !.copy = copy, !.after = "NONE"]]

Finish(p) == op' = [op EXCEPT ![p] = NoRequest]

\* A request to the provider takes a task of its own; the ticket of a speech call
\* is the claim it is made under, none for the first.
NewTask(p, t, status) ==
    /\ remote[t].status = "NONE"
    /\ remote' = [remote EXCEPT ![t] =
           [status |-> status, job |-> op[p].job, input |-> op[p].copy.input,
            ticket |-> op[p].ticket]]

----------------------------------------------------------------------------
(***************************************************************************)
(* POST /v1/jobs.  A job with a record is replayed, or refused when its    *)
(* input differs: neither changes anything for a video job.                *)
(***************************************************************************)
\* Mutant: the provider is called before the intent is durable.
CreateJobSubmitsFirst(p, j, input) ==
    /\ record[j].state = "ABSENT"
    /\ Begin(p, j, IF j \in SpeechJobs THEN "SPEAK" ELSE "SUBMIT", Intent(input))
    /\ UNCHANGED <<record, remote, speech>>

\* validateSpeechBatchSequence: every earlier cue of the batch is delivered.
BatchReady(j) == j \in SpeechJobs => \A k \in Before[j] : result[k]

CreateJob(p, j, input) ==
    /\ record[j].state = "ABSENT"
    /\ BatchReady(j)
    /\ Begin(p, j, "INTENT", Intent(input))
    /\ UNCHANGED <<record, remote, speech>>

\* After the intent a video job is submitted; for a speech job a receipt is looked
\* for first, since it may have outlived the record.
AfterIntent(p) ==
    op' = [op EXCEPT ![p] = IF op[p].job \in SpeechJobs
                            THEN [@ EXCEPT !.step = "RESTORE", !.after = "FRESH"]
                            ELSE [@ EXCEPT !.step = "SUBMIT"]]

\* Another process published the job first: its record is the answer, after the
\* reconciliation of a speech job with the same input.
LostRace(p) ==
    LET j == op[p].job
    IN IF j \in SpeechJobs /\ record[j].input = op[p].copy.input
       THEN op' = [op EXCEPT ![p] = [@ EXCEPT !.step = "RESTORE", !.copy = record[j],
                                              !.after = "RACED"]]
       ELSE Finish(p)

\* Mutant: the intent is published by rename, as an update is.
CreateRecordByRename(p) ==
    /\ op[p].step = "INTENT"
    /\ record' = [record EXCEPT ![op[p].job] = op[p].copy]
    /\ AfterIntent(p)
    /\ UNCHANGED <<remote, speech>>

\* The link fails when another process published the job first; when only the
\* directory sync fails, the intent is there and the handler gives up.
CreateRecord(p) ==
    /\ op[p].step = "INTENT"
    /\ \/ /\ record[op[p].job].state = "ABSENT"
          /\ record' = [record EXCEPT ![op[p].job] = op[p].copy]
          /\ AfterIntent(p) \/ Finish(p)
       \/ /\ record[op[p].job].state # "ABSENT"
          /\ LostRace(p)
          /\ UNCHANGED record
    /\ UNCHANGED <<remote, speech>>

\* What createJob records for a submission whose task it does not learn.
RefusalOutcomes == {"UNKNOWN", "REQUIRES_ACTION"}

\* The provider accepts the submission; its answer may be lost.
SubmitAccepted(p, t) ==
    /\ op[p].step = "SUBMIT"
    /\ NewTask(p, t, "QUEUED")
    /\ \/ Continue(p, "SAVE", [op[p].copy EXCEPT !.state = "QUEUED", !.task = t])
       \/ \E state \in RefusalOutcomes :
              Continue(p, "SAVE", [op[p].copy EXCEPT !.state = state])
    /\ UNCHANGED <<record, speech>>

SubmitRefused(p) ==
    /\ op[p].step = "SUBMIT"
    /\ \E state \in RefusalOutcomes :
           Continue(p, "SAVE", [op[p].copy EXCEPT !.state = state])
    /\ UNCHANGED <<record, remote, speech>>

(***************************************************************************)
(* updateRecord renames a complete file over the record, whatever the      *)
(* record has become since the handler read it.                            *)
(***************************************************************************)
UpdateRecord(p) ==
    /\ op[p].step = "SAVE"
    /\ record' = [record EXCEPT ![op[p].job] = op[p].copy]
    /\ Finish(p)
    /\ UNCHANGED <<remote, speech>>

----------------------------------------------------------------------------
(***************************************************************************)
(* GET /v1/jobs/{jobID}.                                                   *)
(***************************************************************************)
\* Mutant: the provider is asked about a task nobody has recorded.
GetJobPollsBlindly(p, j) ==
    /\ j \notin SpeechJobs
    /\ record[j].state # "ABSENT"
    /\ ~Settled(record[j])
    /\ Begin(p, j, "POLL", record[j])
    /\ UNCHANGED <<record, remote, speech>>

GetJob(p, j) ==
    /\ j \notin SpeechJobs
    /\ record[j].state # "ABSENT"
    /\ ~Settled(record[j])
    /\ IF record[j].task = NoTask
       THEN Begin(p, j, "SAVE", [record[j] EXCEPT !.state = "REQUIRES_ACTION"])
       ELSE Begin(p, j, "POLL", record[j])
    /\ UNCHANGED <<record, remote, speech>>

\* Mutant: the record is rebuilt from the answer, which carries no task.
PollTaskRebuilds(p) ==
    /\ op[p].step = "POLL"
    /\ LET status == remote[op[p].copy.task].status
       IN  Continue(p, "SAVE",
               Record(status, op[p].copy.input, NoTask, status = "SUCCEEDED"))
    /\ UNCHANGED <<record, remote, speech>>

\* A success is saved together with its committed artifacts.
PollTask(p) ==
    /\ op[p].step = "POLL"
    /\ LET status == remote[op[p].copy.task].status
       IN  Continue(p, "SAVE", [op[p].copy EXCEPT
               !.state = status, !.artifacts = (status = "SUCCEEDED")])
    /\ UNCHANGED <<record, remote, speech>>

(***************************************************************************)
(* POST /v1/jobs/{jobID}/cancel.  A success the provider answers with is   *)
(* saved without its artifacts.  For a speech job it changes nothing: its  *)
(* record names no task the provider would cancel.                         *)
(***************************************************************************)
CancelJob(p, j) ==
    /\ j \notin SpeechJobs
    /\ record[j].state \notin Terminal
    /\ record[j].task # NoTask
    /\ Begin(p, j, "CANCEL", record[j])
    /\ UNCHANGED <<record, remote, speech>>

\* Mutant: an accepted DELETE counts as a cancellation.
CancelTaskOnTrust(p) ==
    /\ op[p].step = "CANCEL"
    /\ Continue(p, "SAVE", [op[p].copy EXCEPT !.state = "CANCELLED"])
    /\ UNCHANGED <<record, remote, speech>>

CancelTask(p) ==
    /\ op[p].step = "CANCEL"
    /\ LET task   == op[p].copy.task
           status == remote[task].status
       IN  \/ /\ status \in Active
              /\ remote' = [remote EXCEPT ![task].status = "CANCELLED"]
              /\ Continue(p, "SAVE", [op[p].copy EXCEPT !.state = "CANCELLED"])
           \/ /\ Continue(p, "SAVE", [op[p].copy EXCEPT !.state = status])
              /\ UNCHANGED remote
    /\ UNCHANGED <<record, speech>>

----------------------------------------------------------------------------
(***************************************************************************)
(* Speech jobs.  Every handler of one first looks for the files its calls  *)
(* left: a result makes the record a success; a receipt repairs the record *)
(* and is inspected; with neither the handler goes on with what comes      *)
(* after.  An inspection or an object that fails leaves the receipt.       *)
(***************************************************************************)
Pending(rec, task) ==
    [rec EXCEPT !.state = "REQUIRES_ACTION", !.task = task, !.artifacts = FALSE, !.error = "NONE"]

\* applySpeechInspectionResult
Delivered(rec, task) ==
    [rec EXCEPT !.state = "SUCCEEDED", !.task = task, !.artifacts = TRUE, !.error = "NONE"]

\* loadRecord: the file, overlaid with the result.
Loaded(j) == IF result[j] THEN Delivered(record[j], receipt[j]) ELSE record[j]

\* A request for a job that has a record: POST with its input, or GET.
ServeSpeechJob(p, j, after) ==
    /\ record[j].state # "ABSENT"
    /\ op[p].step = "IDLE"
    /\ j \in serves[p]
    /\ op' = [op EXCEPT ![p] = [NoRequest EXCEPT !.step = "RESTORE", !.job = j,
                                                 !.copy = Loaded(j), !.after = after]]
    /\ UNCHANGED <<record, remote, speech>>

\* authorizedSpeechRetry: this very record, which names no call of its own and has
\* been retried less than twice.
Retriable(rec) ==
    /\ rec.state = "REQUIRES_ACTION" /\ rec.task = NoTask
    /\ rec.error \in {"AMBIGUOUS", "REFUSED"}
    /\ rec.history < 2

Authorized(p, rec) == retry[p] = rec /\ Retriable(rec)

\* A call nobody has recorded: its outcome is for the operator.  The trace of an
\* answered one is kept.
Unrecorded(rec) ==
    [rec EXCEPT !.state = "REQUIRES_ACTION", !.error = IF @ = "TRACED" THEN @ ELSE "AMBIGUOUS"]

\* With neither file: a replay may be an authorized retry, a new intent is spoken,
\* and a GET without an identity asks for the operator.  With one it polls, which
\* the provider refuses.
NothingToReconcile(p) ==
    LET copy == op[p].copy
    IN CASE op[p].after = "REPLAY" /\ Authorized(p, copy)  -> Continue(p, "CLAIM", NoRecord)
         [] op[p].after = "FRESH"                          -> Continue(p, "SPEAK", copy)
         [] op[p].after = "GET" /\ copy.task = NoTask      -> Continue(p, "SAVE", Unrecorded(copy))
         [] OTHER                                          -> Finish(p)

RestoreResult(p) == Continue(p, "SAVE", Delivered(op[p].copy, receipt[op[p].job]))

ReconcileSpeechInspection(p) ==
    LET j == op[p].job
    IN /\ op[p].step = "RESTORE"
       /\ CASE result[j]                         -> RestoreResult(p)
            [] ~result[j] /\ receipt[j] = NoTask -> NothingToReconcile(p)
            [] OTHER                             -> Continue(p, "REPAIR", Pending(op[p].copy, receipt[j]))
       /\ UNCHANGED <<record, remote, speech>>

\* The record is written from the copy, and the handler goes on.
Write(p, from, to) ==
    /\ op[p].step = from
    /\ record' = [record EXCEPT ![op[p].job] = op[p].copy]
    /\ Continue(p, to, op[p].copy)
    /\ UNCHANGED <<remote, speech>>

RepairRecord(p) == Write(p, "REPAIR", "INSPECT")

\* A competing process may have published the result meanwhile.
InspectSpeech(p) ==
    LET j == op[p].job
    IN /\ op[p].step = "INSPECT"
       /\ \/ result[j] /\ RestoreResult(p)
          \/ ~result[j] /\ stored[j] /\ Continue(p, "PUBLISH", op[p].copy)
          \/ ~result[j] /\ Continue(p, "REFUSE", op[p].copy)
       /\ UNCHANGED <<record, remote, speech>>

PublishResult(p) ==
    /\ op[p].step = "PUBLISH"
    /\ result' = [result EXCEPT ![op[p].job] = TRUE]
    /\ RestoreResult(p)
    /\ UNCHANGED <<record, remote, serves, receipt, stored, claims, retry>>

\* persistSpeechInspectionRequiresAction looks for a result before it writes and after.
RefuseInspection(p) ==
    /\ op[p].step \in {"REFUSE", "CONFIRM"}
    /\ IF result[op[p].job] THEN RestoreResult(p)
       ELSE IF op[p].step = "REFUSE" THEN Continue(p, "EXPOSE", op[p].copy) ELSE Finish(p)
    /\ UNCHANGED <<record, remote, speech>>

ExposeRefusal(p) == Write(p, "EXPOSE", "CONFIRM")

\* synthesizeSpeech: one call.  An error may carry the trace of the call or not, and
\* the provider may have carried it out all the same.
SpeakAnswered(p, t) ==
    /\ op[p].step = "SPEAK"
    /\ \E status \in {"SUCCEEDED", "FAILED"} :
          /\ NewTask(p, t, status)
          /\ \/ /\ status = "SUCCEEDED"
                /\ Continue(p, "RECEIPT", Pending(op[p].copy, t))
             \/ \E state \in RefusalOutcomes, error \in {"REFUSED", "TRACED"} :
                   Continue(p, "SAVE", [op[p].copy EXCEPT !.state = state, !.error = error])
    /\ UNCHANGED <<record, speech>>

SpeakRefused(p) ==
    /\ op[p].step = "SPEAK"
    /\ \E state \in RefusalOutcomes :
          Continue(p, "SAVE", [op[p].copy EXCEPT !.state = state, !.error = "REFUSED"])
    /\ UNCHANGED <<record, remote, speech>>

\* Mutant: the receipt of a later call replaces that of an earlier one.
CreateReceiptByRename(p) ==
    /\ op[p].step = "RECEIPT"
    /\ receipt' = [receipt EXCEPT ![op[p].job] = op[p].copy.task]
    /\ Continue(p, "STORE", op[p].copy)
    /\ UNCHANGED <<record, remote, serves, stored, result, claims, retry>>

\* The receipt is published once.  When it cannot be written, or only its directory
\* cannot be synced, the answer is kept in the record alone.
CreateSpeechInspectionReceipt(p) ==
    LET j    == op[p].job
        kept == Continue(p, "SAVE", [op[p].copy EXCEPT !.state = "UNKNOWN"])
    IN /\ op[p].step = "RECEIPT"
       /\ \/ /\ receipt[j] = NoTask
             /\ receipt' = [receipt EXCEPT ![j] = op[p].copy.task]
             /\ Continue(p, "STORE", op[p].copy) \/ kept
          \/ /\ receipt[j] # NoTask /\ Continue(p, "SAVE", op[p].copy)
             /\ UNCHANGED receipt
          \/ kept /\ UNCHANGED receipt
       /\ UNCHANGED <<record, remote, serves, stored, result, claims, retry>>

\* The audio is committed after its receipt; a store that fails is the end of the
\* handler, not of the job.
StoreSpeech(p) ==
    /\ op[p].step = "STORE"
    /\ \/ stored' = [stored EXCEPT ![op[p].job] = TRUE] /\ Continue(p, "CHECKPOINT", op[p].copy)
       \/ UNCHANGED stored /\ Continue(p, "SAVE", op[p].copy)
    /\ UNCHANGED <<record, remote, serves, receipt, result, claims, retry>>

CheckpointInspection(p) == Write(p, "CHECKPOINT", "RESTORE")

(***************************************************************************)
(* The controlled retry.  The operator restarts a process with the digest  *)
(* of a record; the claim of that digest is created exclusively and never  *)
(* removed, and the record is read again after it.                         *)
(***************************************************************************)
UsedAuthorizations == UNION {{<<k, rec>> : rec \in claims[k]} : k \in SpeechJobs}

AuthorizeRetry(p, j) ==
    /\ op[p].step = "IDLE"
    /\ j \in serves[p]
    /\ Retriable(record[j])
    /\ Cardinality(UsedAuthorizations \cup {<<j, record[j]>>}) <= MaxRetries
    /\ retry' = [retry EXCEPT ![p] = record[j]]
    /\ UNCHANGED <<record, op, remote, files, serves>>

Claimed(p) == op' = [op EXCEPT ![p] = [@ EXCEPT !.step = "RETRY", !.ticket = retry[p]]]

\* Mutant: a claim that exists does not stop the retry.
CreateSpeechRetryClaimAgain(p) ==
    LET j == op[p].job
    IN /\ op[p].step = "CLAIM"
       /\ Authorized(p, record[j])
       /\ claims' = [claims EXCEPT ![j] = @ \cup {retry[p]}]
       /\ Claimed(p)
       /\ UNCHANGED <<record, remote, serves, receipt, stored, result, retry>>

CreateSpeechRetryClaim(p) ==
    LET j == op[p].job
    IN /\ op[p].step = "CLAIM"
       /\ IF Authorized(p, record[j]) /\ retry[p] \notin claims[j]
          THEN /\ claims' = [claims EXCEPT ![j] = @ \cup {retry[p]}]
               /\ Claimed(p)
          ELSE Finish(p) /\ UNCHANGED claims
       /\ UNCHANGED <<record, remote, serves, receipt, stored, result, retry>>

Retried(rec) == [rec EXCEPT !.state = "UNKNOWN", !.error = "NONE", !.history = @ + 1]

\* The claim stays even when the record has changed and there is no retry.
ReadAfterClaim(p) ==
    LET rec == record[op[p].job]
    IN /\ op[p].step = "RETRY"
       /\ IF Authorized(p, rec)
          THEN Continue(p, "REOPEN", Retried(rec))
          ELSE Finish(p)
       /\ UNCHANGED <<record, remote, speech>>

BeginSpeechRetry(p) ==
    /\ op[p].step = "REOPEN"
    /\ record' = [record EXCEPT ![op[p].job] = op[p].copy]
    /\ op' = [op EXCEPT ![p] = [@ EXCEPT !.step = "RESTORE", !.after = "FRESH"]]
    /\ UNCHANGED <<remote, speech>>

SpeechHandler(p) ==
    \/ \E j \in SpeechJobs, after \in {"REPLAY", "GET"} : ServeSpeechJob(p, j, after)
    \/ \E j \in SpeechJobs : AuthorizeRetry(p, j)
    \/ ReconcileSpeechInspection(p) \/ RepairRecord(p) \/ InspectSpeech(p)
    \/ PublishResult(p) \/ RefuseInspection(p) \/ ExposeRefusal(p)
    \/ \E t \in Tasks : SpeakAnswered(p, t)
    \/ SpeakRefused(p)
    \/ CreateSpeechInspectionReceipt(p) \/ StoreSpeech(p) \/ CheckpointInspection(p)
    \/ CreateSpeechRetryClaim(p) \/ ReadAfterClaim(p) \/ BeginSpeechRetry(p)

----------------------------------------------------------------------------
\* The process stops, or a file operation or a call to the provider fails
\* without a trace, and the handler returns an error.
Abandon(p) ==
    /\ op[p].step # "IDLE"
    /\ Finish(p)
    /\ UNCHANGED <<record, remote, speech>>

\* The provider works on a task on its own.
TaskProgress(t) ==
    /\ \/ remote[t].status = "QUEUED" /\ remote' = [remote EXCEPT ![t].status = "RUNNING"]
       \/ /\ remote[t].status = "RUNNING"
          /\ \E status \in {"SUCCEEDED", "FAILED"} :
                 remote' = [remote EXCEPT ![t].status = status]
    /\ UNCHANGED <<record, op, speech>>

Handler(p) ==
    \/ \E j \in Jobs, input \in Inputs : CreateJob(p, j, input)
    \/ \E j \in Jobs : GetJob(p, j) \/ CancelJob(p, j)
    \/ CreateRecord(p)
    \/ \E t \in Tasks : SubmitAccepted(p, t)
    \/ SubmitRefused(p)
    \/ UpdateRecord(p)
    \/ PollTask(p)
    \/ CancelTask(p)
    \/ Abandon(p)

Next ==
    \/ \E p \in Processes : Handler(p) \/ SpeechHandler(p)
    \/ \E t \in Tasks : TaskProgress(t)

Spec == Init /\ [][Next]_vars

----------------------------------------------------------------------------
RecordType ==
    [state : Terminal \cup Active \cup {"ABSENT", "UNKNOWN", "REQUIRES_ACTION"},
     input : Inputs \cup {NoInput}, task : Tasks \cup {NoTask}, artifacts : BOOLEAN,
     error : {"NONE", "AMBIGUOUS", "REFUSED", "TRACED"}, history : 0 .. 2]

VideoSteps  == {"SUBMIT", "POLL", "CANCEL"}
SpeechSteps == {"RESTORE", "REPAIR", "INSPECT", "PUBLISH", "REFUSE", "EXPOSE", "CONFIRM",
                "SPEAK", "RECEIPT", "STORE", "CHECKPOINT", "CLAIM", "RETRY", "REOPEN"}

HandlerType ==
    [step : {"IDLE", "INTENT", "SAVE"} \cup VideoSteps \cup SpeechSteps,
     job : Jobs \cup {NoJob}, copy : RecordType,
     after : {"NONE", "REPLAY", "GET", "FRESH", "RACED"}, ticket : RecordType]

TaskType ==
    [status : Terminal \cup Active \cup {"NONE"}, job : Jobs \cup {NoJob},
     input : Inputs \cup {NoInput}, ticket : RecordType]

\* The files, the running handlers and the provider's tasks have the shape the
\* code gives them; a handler that calls the provider about a task knows which one,
\* and only speech jobs reach the steps of speech.
TypeOK ==
    /\ serves \in Deployments
    /\ record \in [Jobs -> RecordType]
    /\ op \in [Processes -> HandlerType]
    /\ remote \in [Tasks -> TaskType]
    /\ receipt \in [SpeechJobs -> Tasks \cup {NoTask}]
    /\ stored \in [SpeechJobs -> BOOLEAN]
    /\ result \in [SpeechJobs -> BOOLEAN]
    /\ claims \in [SpeechJobs -> SUBSET RecordType]
    /\ retry \in [Processes -> RecordType]
    /\ \A p \in Processes :
           /\ op[p].step # "IDLE" => op[p].job \in serves[p]
           /\ op[p].step \in {"POLL", "CANCEL"} => op[p].copy.task \in Tasks
           /\ op[p].step \in SpeechSteps => op[p].job \in SpeechJobs

\* A job is paid for at most once, a speech job once more for every authorization of
\* its operator: however many processes, restarts and lost answers there are, two
\* tasks of one job were never bought under the same intent or the same claim
\* (createRecord, createSpeechRetryClaim).
OnePaidTask ==
    \A t \in Tasks : remote[t].job # NoJob =>
        /\ \A u \in Tasks :
              remote[u].job = remote[t].job /\ remote[u].ticket = remote[t].ticket => u = t
        /\ remote[t].ticket # NoRecord =>
              remote[t].job \in SpeechJobs /\ remote[t].ticket \in claims[remote[t].job]

\* A paid task exists only for an intent that is durable, with exactly the input of
\* that intent, and a cue is spoken only when every earlier one of its batch is
\* delivered: createRecord comes before the call and is never undone.
TaskHasIntent ==
    \A t \in Tasks : remote[t].status # "NONE" =>
        /\ record[remote[t].job].input = remote[t].input
        /\ remote[t].job \in SpeechJobs => \A k \in Before[remote[t].job] : result[k]

\* The adapter calls a job finished only when the provider's own task of that job
\* finished, and the same way: a lost answer is never a failure, a requested
\* cancellation is not yet a cancellation, and a spoken cue is a success only with
\* the result and the stored object of the very call its receipt names.
RecordNeverOverclaims ==
    \A j \in Jobs : record[j].state \in Terminal =>
        /\ record[j].task # NoTask
        /\ remote[record[j].task].job = j
        /\ remote[record[j].task].status = record[j].state
        /\ j \in SpeechJobs => receipt[j] = record[j].task /\ stored[j] /\ result[j]

Forgets(j) ==
    \/ record[j].task # NoTask /\ record'[j].task # record[j].task
    \/ Settled(record[j]) /\ record'[j] # record[j]

\* The only process asked about a job never loses the upstream task it has
\* saved and never replaces a settled result.
SoleServerNeverForgets ==
    [][\A j \in Jobs, p \in Processes :
           {q \in Processes : j \in serves[q]} = {p} => ~Forgets(j)]_vars
=============================================================================
