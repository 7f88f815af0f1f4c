---------------------------- MODULE ShotWorkflow ----------------------------
(***************************************************************************)
(* One generation run from the API call to its terminal state: the control *)
(* plane commits a command and then tells Temporal, a Temporal workflow    *)
(* schedules activities, workers run attempts of them against PostgreSQL   *)
(* and the provider adapter, and the provider works on the paid task.      *)
(*                                                                         *)
(* Every database transaction is an action of RunLedger.  The adapter is   *)
(* one process, whose mutex makes each request one step (ProviderAdapter   *)
(* has the steps).  An attempt that Temporal has given up may go on, which *)
(* is what a lost heartbeat means; whatever it reports is ignored.         *)
(***************************************************************************)
EXTENDS Naturals, FiniteSets

CONSTANTS
    Run, Task, NoTask,
    Estimated, Billed,     \* the run's hold and the amounts a provider may bill
    Slots, NoSlot,         \* activity attempts that can be in progress
    Commands,              \* what an operator may ask, each at most once
    MaxCommands,           \* bound on the commands given altogether
    MaxFaults              \* bound on lost answers, timeouts and failed calls

ASSUME TaskAssumption   == Task # NoTask
ASSUME AmountAssumption == Estimated \in Nat /\ Billed \subseteq Nat

Runs     == {Run}
Tasks    == {Task}
Approved == Estimated
Estimate == [r \in Runs |-> Estimated]
Actuals  == Billed

VARIABLES
    run, attempt, job, upstream, reservation, ledger, unconfirmed,
    adapter,    \* the adapter's record of the job
    remote,     \* the provider's own view of the paid task
    exec,       \* the Temporal executions
    slot,       \* the activity attempts in progress
    inbox,      \* committed commands that Temporal has not acknowledged
    current,    \* generation_runs.temporal_workflow_id
    asked,      \* the commands the operator has given
    faults      \* faults that have happened

Ledger == INSTANCE RunLedger

ledgerVars == <<run, attempt, job, upstream, reservation, ledger, unconfirmed>>
vars == <<ledgerVars, adapter, remote, exec, slot, inbox, current, asked, faults>>

Terminal   == {"SUCCEEDED", "FAILED", "CANCELLED"}
Executions == {"shot-generation", "shot-recovery"}
Claims     == [kind : {"VERIFIED"}, micros : Billed]
NoClaim    == [kind |-> "MISSING", micros |-> 0]

Response(state, task, artifacts) ==
    [state |-> state, task |-> task, artifacts |-> artifacts]
Absent == Response("ABSENT", NoTask, FALSE)

Idle == [step |-> "IDLE", exec |-> "shot-generation",
         reason |-> "WORKFLOW_CANCELLED", seen |-> Absent]

Init ==
    /\ Ledger!Init
    /\ adapter = Absent
    /\ remote  = "NONE"
    /\ exec    = [e \in Executions |->
                    [phase |-> "NONE", activity |-> "NONE", tries |-> 0, worker |-> NoSlot,
                     paused |-> FALSE, pauseSeen |-> FALSE, cancelled |-> FALSE]]
    /\ slot    = [w \in Slots |-> Idle]
    /\ inbox   = {}
    /\ current = "shot-generation"
    /\ asked   = {}
    /\ faults  = 0

Fault   == faults < MaxFaults /\ faults' = faults + 1
NoFault == UNCHANGED faults

----------------------------------------------------------------------------
(***************************************************************************)
(* Control plane: a handler commits its transaction, then calls Temporal;  *)
(* a caller whose request failed in between repeats it with the same key,  *)
(* so that the calls to Temporal may come late and out of order.           *)
(***************************************************************************)
CreateGenerationRun ==
    /\ Ledger!CreateGenerationRun(Run)
    /\ inbox' = inbox \cup {<<"START", current>>}
    /\ UNCHANGED <<adapter, remote, exec, slot, current, asked, faults>>

Command(name, transaction) ==
    /\ name \in Commands \ asked
    /\ Cardinality(asked) < MaxCommands
    /\ transaction
    /\ inbox' = inbox \cup {<<name, current>>}
    /\ asked' = asked \cup {name}
    /\ UNCHANGED <<adapter, remote, exec, slot, current, faults>>

PauseGenerationRun  == Command("PAUSE",  Ledger!RequestRunPause(Run))
ResumeGenerationRun == Command("RESUME", Ledger!ResumePaused(Run))
CancelGenerationRun == Command("CANCEL", Ledger!RequestRunCancellation(Run))
RecoverGenerationRun == Command("RECOVER", Ledger!RequestRecovery(Run))

Send(request, effect) ==
    /\ request \in inbox
    /\ effect
    /\ inbox' = inbox \ {request}
    /\ UNCHANGED <<adapter, remote, slot, asked, faults>>

StartShot ==
    /\ <<"START", "shot-generation">> \in inbox
    /\ exec' = [exec EXCEPT !["shot-generation"].phase = "EXECUTE"]
    /\ inbox' = (inbox \ {<<"START", "shot-generation">>}) \cup {<<"STARTED", "shot-generation">>}
    /\ UNCHANGED <<ledgerVars, adapter, remote, slot, current, asked, faults>>

MarkOperationStarted ==
    \/ Send(<<"STARTED", "shot-generation">>,
            Ledger!MarkRunQueued(Run) /\ UNCHANGED <<exec, current>>)
    \/ Send(<<"STARTED", "shot-recovery">>,
            /\ Ledger!MarkRunQueued(Run)
            /\ current' = "shot-recovery"
            /\ UNCHANGED exec)

\* A signal or cancellation needs a workflow that was started and is open;
\* to a closed one it changes nothing.
Signal(command, Deliver(_)) ==
    \E e \in Executions :
        /\ exec[e].phase # "NONE"
        /\ Send(<<command, e>>,
               /\ exec' = [exec EXCEPT ![e] = IF @.phase = "CLOSED" THEN @ ELSE Deliver(@)]
               /\ UNCHANGED <<ledgerVars, current>>)

\* PAUSE cancels a pending Activity; one that has not started is cancelled at once.
Stopped(x) ==
    [x EXCEPT !.activity = IF x.phase = "EXECUTE" /\ @ = "SCHEDULED" THEN "CANCELED" ELSE @]

Paused(x)    == Stopped([x EXCEPT !.paused = TRUE, !.pauseSeen = TRUE])
Resumed(x)   == [x EXCEPT !.paused = FALSE]
Cancelled(x) == Stopped([x EXCEPT !.cancelled = TRUE])

Pause  == Signal("PAUSE", Paused)
Resume == Signal("RESUME", Resumed)
Cancel == Signal("CANCEL", Cancelled)

\* Controller.Resume starts a new workflow for a run that is not paused.
StartRecovery ==
    \E e \in Executions :
        /\ <<"RECOVER", e>> \in inbox
        /\ \/ exec' = [exec EXCEPT !["shot-recovery"].phase = "EXECUTE"]
           \/ /\ unconfirmed[Run]
              /\ exec' = [exec EXCEPT !["shot-recovery"].phase = "RECONCILE",
                                       !["shot-recovery"].activity = "SCHEDULED"]
        /\ inbox' = (inbox \ {<<"RECOVER", e>>}) \cup {<<"STARTED", "shot-recovery">>}
        /\ UNCHANGED <<ledgerVars, adapter, remote, slot, current, asked, faults>>

ControlPlane ==
    \/ CreateGenerationRun
    \/ PauseGenerationRun \/ ResumeGenerationRun
    \/ CancelGenerationRun \/ RecoverGenerationRun
    \/ StartShot \/ MarkOperationStarted \/ StartRecovery
    \/ Pause \/ Resume \/ Cancel

----------------------------------------------------------------------------
(***************************************************************************)
(* The workflow.                                                           *)
(***************************************************************************)
Workflow(e, next) ==
    /\ exec' = [exec EXCEPT ![e] = next]
    /\ UNCHANGED <<ledgerVars, adapter, remote, slot, inbox, current, asked, faults>>

Schedule(x, phase) == [x EXCEPT !.phase = phase, !.activity = "SCHEDULED", !.tries = 0]

Waiting(x) == x.paused /\ ~x.cancelled

\* Top of the loop in executeProviderWithControls.
ExecuteProvider(e) ==
    LET x == exec[e] IN
    /\ x.phase = "EXECUTE" /\ x.activity = "NONE"
    /\ ~Waiting(x)
    /\ Workflow(e, IF x.cancelled
                   THEN [x EXCEPT !.activity = "CANCELED", !.pauseSeen = FALSE]
                   ELSE [Schedule(x, "EXECUTE") EXCEPT !.pauseSeen = FALSE])

\* Mutant: only an Activity that ended as cancelled is compensated.
ProviderResolvedCanceledOnly(e) ==
    LET x == exec[e] IN
    /\ x.phase = "EXECUTE" /\ x.activity \in {"DONE", "FAILED", "CANCELED"}
    /\ ~Waiting(x)
    /\ Workflow(e,
         CASE (x.pauseSeen \/ x.paused) /\ x.activity # "FAILED" -> [x EXCEPT !.activity = "NONE"]
           [] OTHER ->
              CASE x.activity = "DONE"     -> [x EXCEPT !.phase = "REVIEW", !.activity = "NONE"]
                [] x.activity = "CANCELED" -> Schedule(x, "CANCEL")
                [] OTHER                   -> Schedule(x, "RECONCILE"))

\* Mutant: an execution that failed ends the workflow.
ProviderResolvedGivesUp(e) ==
    LET x == exec[e] IN
    /\ x.phase = "EXECUTE" /\ x.activity \in {"DONE", "FAILED", "CANCELED"}
    /\ ~Waiting(x)
    /\ Workflow(e, IF x.activity = "DONE" THEN [x EXCEPT !.phase = "REVIEW", !.activity = "NONE"]
                   ELSE [x EXCEPT !.phase = "CLOSED", !.activity = "NONE"])

\* The Activity resolved: a pause that was seen repeats the same idempotent
\* job, a cancellation is compensated, any other error is reconciled.
ProviderResolved(e) ==
    LET x == exec[e] IN
    /\ x.phase = "EXECUTE" /\ x.activity \in {"DONE", "FAILED", "CANCELED"}
    /\ ~Waiting(x)
    /\ Workflow(e,
         CASE (x.pauseSeen \/ x.paused) /\ x.activity # "FAILED" -> [x EXCEPT !.activity = "NONE"]
           [] OTHER ->
              IF x.activity = "DONE" THEN [x EXCEPT !.phase = "REVIEW", !.activity = "NONE"]
              ELSE Schedule(x, IF x.activity = "CANCELED" \/ x.cancelled THEN "CANCEL"
                                                                         ELSE "RECONCILE"))

\* A cancelled QC or review wait is compensated like a cancelled execution.
ReviewCancelled(e) ==
    /\ exec[e].phase = "REVIEW" /\ exec[e].cancelled
    /\ Workflow(e, Schedule(exec[e], "CANCEL"))

\* QC and Q1 are over; an approval is only taken while not paused.  An error
\* of the review or of the finalization closes the workflow all the same.
FinalizeShot(e) ==
    /\ exec[e].phase = "REVIEW"
    /\ \/ Ledger!FinalizeShotRun(Run, "FAILED")
       \/ ~exec[e].paused /\ Ledger!FinalizeShotRun(Run, "SUCCEEDED")
       \/ UNCHANGED ledgerVars
    /\ exec' = [exec EXCEPT ![e].phase = "CLOSED"]
    /\ UNCHANGED <<adapter, remote, slot, inbox, current, asked, faults>>

\* The compensation is over, or a cancellation drops the pending reconciliation.
CloseWorkflow(e) ==
    /\ \/ exec[e].phase \in {"CANCEL", "RECONCILE"} /\ exec[e].activity \in {"DONE", "FAILED"}
       \/ exec[e].phase = "RECONCILE" /\ exec[e].cancelled
    /\ Workflow(e, [exec[e] EXCEPT !.phase = "CLOSED", !.activity = "NONE", !.worker = NoSlot])

Orchestrator(e) ==
    ExecuteProvider(e) \/ ProviderResolved(e) \/ ReviewCancelled(e)
    \/ FinalizeShot(e) \/ CloseWorkflow(e)

----------------------------------------------------------------------------
(***************************************************************************)
(* Temporal and the workers.  The attempt in slot w is heard only while it *)
(* is the current one of its execution.                                    *)
(***************************************************************************)
MaxAttempts == 3

Heard(w) == exec[slot[w].exec].worker = w

\* The Activity was cancelled: by a pause or by the workflow's cancellation.
Stopping(x) == x.phase = "EXECUTE" /\ (x.cancelled \/ x.pauseSeen)

\* What Temporal makes of an attempt that failed: a retry, or the Activity's end.
Retried(x) ==
    IF Stopping(x) \/ (x.phase # "RECONCILE" /\ x.tries + 1 = MaxAttempts)
    THEN [x EXCEPT !.activity = "FAILED", !.worker = NoSlot]
    ELSE [x EXCEPT !.activity = "SCHEDULED", !.worker = NoSlot,
                   !.tries = IF x.phase = "RECONCILE" THEN @ ELSE @ + 1]

Resolved(x, result) == [x EXCEPT !.activity = result, !.worker = NoSlot]

Step(w, step, seen) ==
    /\ slot' = [slot EXCEPT ![w].step = step, ![w].seen = seen]
    /\ UNCHANGED exec

End(w, Outcome(_)) ==
    /\ slot' = [slot EXCEPT ![w] = Idle]
    /\ exec' = [exec EXCEPT ![slot[w].exec] = IF Heard(w) THEN Outcome(@) ELSE @]

Fails(w)  == End(w, Retried)
Fatal(w)  == End(w, LAMBDA x : Resolved(x, "FAILED"))
Done(w)   == End(w, LAMBDA x : Resolved(x, "DONE"))

StartAttempt(w, e) ==
    /\ slot[w].step = "IDLE"
    /\ exec[e].activity = "SCHEDULED"
    /\ exec' = [exec EXCEPT ![e].activity = "RUNNING", ![e].worker = w]
    /\ slot' = [slot EXCEPT ![w] =
           [step   |-> IF exec[e].phase = "EXECUTE" THEN "PREPARE" ELSE "PREPARED?",
            exec   |-> e,
            reason |-> IF exec[e].phase = "RECONCILE" THEN "RECONCILE_HISTORY" ELSE "WORKFLOW_CANCELLED",
            seen   |-> Absent]]
    /\ UNCHANGED <<ledgerVars, adapter, remote, inbox, current, asked, faults>>

\* A missed heartbeat: Temporal retries elsewhere, the attempt may go on.
TimeOut(w) ==
    /\ slot[w].step # "IDLE" /\ Heard(w)
    /\ Fault
    /\ exec' = [exec EXCEPT ![slot[w].exec] = Retried(@)]
    /\ UNCHANGED <<ledgerVars, adapter, remote, slot, inbox, current, asked>>

\* An attempt nobody listens to stops at any point, also by a crash.
Die(w) ==
    /\ slot[w].step # "IDLE" /\ ~Heard(w)
    /\ slot' = [slot EXCEPT ![w] = Idle]
    /\ UNCHANGED <<ledgerVars, adapter, remote, exec, inbox, current, asked, faults>>

\* A worker learns of the cancellation with its next heartbeat.
Interrupt(w) ==
    /\ slot[w].step # "IDLE" /\ Heard(w)
    /\ Stopping(exec[slot[w].exec])
    /\ End(w, LAMBDA x : Resolved(x, "CANCELED"))
    /\ UNCHANGED <<ledgerVars, adapter, remote, inbox, current, asked, faults>>

\* A database or local error before the step has any effect.
StepFails(w) ==
    /\ slot[w].step # "IDLE" /\ Heard(w)
    /\ Fault
    /\ Fails(w)
    /\ UNCHANGED <<ledgerVars, adapter, remote, inbox, current, asked>>

----------------------------------------------------------------------------
(***************************************************************************)
(* Requests to the adapter: each is one step of its registry, and a fault  *)
(* loses the answer after the registry has or has not handled it.          *)
(***************************************************************************)
\* POST /v1/jobs, replayed when the job has a record.
RegistrySubmit ==
    IF adapter.state = "ABSENT"
    THEN adapter' = Response("QUEUED", Task, FALSE) /\ remote' = "ACTIVE"
    ELSE UNCHANGED <<adapter, remote>>

\* The provider refused, or its answer never reached the adapter.
RegistrySubmitUnclear ==
    /\ adapter.state = "ABSENT"
    /\ \E state \in {"UNKNOWN", "REQUIRES_ACTION"} : adapter' = Response(state, NoTask, FALSE)
    /\ remote' \in {"NONE", "ACTIVE"}

Settled(rec) ==
    rec.state \in Terminal /\ (rec.state = "SUCCEEDED" => rec.artifacts)

\* Mutant: the provider's own state name is stored.
RegistryGetUntranslated ==
    /\ adapter' = IF Settled(adapter) THEN adapter
                  ELSE [adapter EXCEPT !.state = remote, !.artifacts = (remote = "SUCCEEDED")]
    /\ UNCHANGED remote

\* GET /v1/jobs/{jobID} of a job with a record.
RegistryGet ==
    /\ adapter' = CASE Settled(adapter) -> adapter
                    [] ~Settled(adapter) /\ adapter.task = NoTask ->
                         [adapter EXCEPT !.state = "REQUIRES_ACTION"]
                    [] OTHER ->
                         [adapter EXCEPT !.state = IF remote = "ACTIVE" THEN "RUNNING" ELSE remote,
                                         !.artifacts = (remote = "SUCCEEDED")]
    /\ UNCHANGED remote

\* POST /v1/jobs/{jobID}/cancel of a job with a record; a success is
\* recorded without its artifacts.
RegistryCancel ==
    IF adapter.state \in Terminal \/ adapter.task = NoTask
    THEN UNCHANGED <<adapter, remote>>
    ELSE \/ /\ remote = "ACTIVE"
            /\ remote' = "CANCELLED"
            /\ adapter' = [adapter EXCEPT !.state = "CANCELLED"]
         \/ /\ adapter' = [adapter EXCEPT !.state = IF remote = "ACTIVE" THEN "RUNNING" ELSE remote]
            /\ UNCHANGED remote

Request(w, step) ==
    /\ slot[w].step = step
    /\ UNCHANGED <<ledgerVars, inbox, current, asked>>

Answered(w, step, response) == NoFault /\ Step(w, step, response)
Unanswered(w, step) == Fault /\ Step(w, step, Response("UNKNOWN", NoTask, FALSE))

----------------------------------------------------------------------------
(***************************************************************************)
(* ExecuteProviderJob.                                                     *)
(***************************************************************************)
Transaction(w, step) ==
    /\ slot[w].step = step
    /\ UNCHANGED <<adapter, remote, inbox, current, asked, faults>>

PrepareProviderJob(w) ==
    /\ Transaction(w, "PREPARE")
    /\ \/ /\ Ledger!PrepareProviderJob(Run)
          /\ Step(w, "INTENT", Absent)
       \/ /\ reservation[Run] # "NONE"
          /\ Step(w, IF Ledger!ReconcileOnly(Run) THEN "GET" ELSE "INTENT", Absent)
          /\ UNCHANGED ledgerVars
       \/ /\ reservation[Run] = "NONE" /\ ~Ledger!MayCreatePaidJob(Run)
          /\ Fatal(w)
          /\ UNCHANGED ledgerVars

\* A succeeded job swallows an observation, any other terminal row refuses it.
Observe(w, state, task, continue) ==
    \/ Ledger!RecordProviderJobObservation(Run, state, task) /\ continue
    \/ job[Run] = "SUCCEEDED" /\ continue /\ UNCHANGED ledgerVars
    \/ /\ job[Run] # "SUCCEEDED" /\ ~Ledger!ObservationAccepted(Run, task)
       /\ Fatal(w)
       /\ UNCHANGED ledgerVars

\* Mutant: the request is sent before the intent is durable.
FreezeIntentSkipped(w) ==
    /\ Transaction(w, "INTENT")
    /\ Step(w, "POST", Absent)
    /\ UNCHANGED ledgerVars

FreezeIntent(w) ==
    /\ Transaction(w, "INTENT")
    /\ Observe(w, "UNKNOWN", NoTask, Step(w, "POST", Absent))

\* An error that excludes a submission ends the attempt without an observation.
Submit(w) ==
    /\ Request(w, "POST")
    /\ \/ /\ RegistrySubmit
          /\ Answered(w, "OBSERVE", adapter') \/ Unanswered(w, "LOST")
       \/ /\ RegistrySubmitUnclear
          /\ \/ Unanswered(w, "LOST")
             \/ Fault /\ (Fails(w) \/ Fatal(w))
       \/ UNCHANGED <<adapter, remote>> /\ Unanswered(w, "LOST")

Get(w, step, answer) ==
    /\ Request(w, step)
    /\ \/ /\ adapter.state # "ABSENT" /\ RegistryGet
          /\ Answered(w, answer, adapter') \/ Unanswered(w, "LOST")
       \/ /\ adapter.state = "ABSENT"
          /\ Answered(w, "LOST", Absent)
          /\ UNCHANGED <<adapter, remote>>
       \/ UNCHANGED <<adapter, remote>> /\ Unanswered(w, "LOST")

Reconcile(w) == Get(w, "GET", "OBSERVE")
Poll(w)      == Get(w, "POLL", "OBSERVE_POLL")

\* providerObservation: nothing is terminal before its artifact is committed.
ProviderObservation(state) ==
    CASE state \in {"QUEUED", "RUNNING", "SUCCEEDED"} -> "RUNNING"
      [] state = "REQUIRES_ACTION"                    -> "REQUIRES_ACTION"
      [] OTHER                                        -> "UNKNOWN"

RecordObservation(w) ==
    LET seen == slot[w].seen IN
    /\ slot[w].step \in {"OBSERVE", "OBSERVE_POLL"}
    /\ Transaction(w, slot[w].step)
    /\ Observe(w, ProviderObservation(seen.state), seen.task,
         CASE seen.state = "SUCCEEDED" /\ seen.artifacts  -> Step(w, "COMPLETE", seen)
           [] seen.state = "SUCCEEDED" /\ ~seen.artifacts -> Fails(w)
           [] seen.state \in {"FAILED", "CANCELLED"}      -> Fatal(w)
           [] seen.state = "REQUIRES_ACTION" /\ slot[w].step = "OBSERVE_POLL" -> Fatal(w)
           [] OTHER                                       -> Step(w, "POLL", Absent))

\* The provider's state is unknown; a missing job is not worth a retry.
RecordLostAnswer(w) ==
    /\ Transaction(w, "LOST")
    /\ Observe(w, "UNKNOWN", NoTask,
               IF slot[w].seen.state = "ABSENT" THEN Fatal(w) ELSE Fails(w))

CompletionAccepted(task) ==
    \/ Ledger!CompletionOpen(Run)
    \/ \E claim \in Claims : Ledger!ReplayAccepted(Run, task, claim)

CompleteProviderJob(w) ==
    LET task == slot[w].seen.task IN
    /\ Transaction(w, "COMPLETE")
    /\ \E claim \in Claims :
         \/ /\ \/ Ledger!CompleteWithinBudget(Run, task, claim)
               \/ Ledger!ReplayCompletion(Run, task, claim)
            /\ Step(w, "RETURN", Absent)
         \/ Ledger!CompleteOverBudget(Run, task, claim) /\ Fatal(w)
         \/ ~CompletionAccepted(task) /\ Fatal(w) /\ UNCHANGED ledgerVars

----------------------------------------------------------------------------
(***************************************************************************)
(* CancelProviderJob.                                                      *)
(***************************************************************************)
ProviderJobPrepared(w) ==
    /\ Transaction(w, "PREPARED?")
    /\ Step(w, IF job[Run] = "NONE" THEN "RECORD" ELSE "CANCEL", Absent)
    /\ UNCHANGED ledgerVars

\* Mutant: a cancellation that was sent counts as confirmed.
CancelResultOnTrust(rec) ==
    IF rec.state = "FAILED" \/ (rec.state = "SUCCEEDED" /\ rec.artifacts)
    THEN rec
    ELSE Response("CANCELLED", rec.task, FALSE)

\* Mutant: a success counts before its artifacts are committed.
CancelResultAnySuccess(rec) ==
    IF rec.state \in {"CANCELLED", "FAILED", "SUCCEEDED"}
    THEN rec
    ELSE Response("UNKNOWN", rec.task, FALSE)

\* What the activity makes of an answer; ABSENT stands for "no remote task".
CancelResult(rec) ==
    IF rec.state \in {"CANCELLED", "FAILED"} \/ (rec.state = "SUCCEEDED" /\ rec.artifacts)
    THEN rec
    ELSE Response("UNKNOWN", rec.task, FALSE)

CancelRemote(w) ==
    /\ Request(w, "CANCEL")
    /\ \/ /\ adapter.state # "ABSENT" /\ RegistryCancel
          /\ \/ LET result == CancelResult(adapter')
                IN  Answered(w, IF result.state = "SUCCEEDED" THEN "RACED" ELSE "RECORD", result)
             \/ Unanswered(w, "RECORD")
       \/ /\ adapter.state = "ABSENT"
          /\ Answered(w, "RECORD", Absent)
          /\ UNCHANGED <<adapter, remote>>
       \/ UNCHANGED <<adapter, remote>> /\ Unanswered(w, "RECORD")

\* The completion won the race; its errors are returned as they are, and retried.
CompleteRaced(w) ==
    LET seen == slot[w].seen IN
    /\ Transaction(w, "RACED")
    /\ \E claim \in Claims :
         \/ /\ \/ Ledger!CompleteWithinBudget(Run, seen.task, claim)
               \/ Ledger!ReplayCompletion(Run, seen.task, claim)
            /\ Step(w, "RECORD", seen)
         \/ Ledger!CompleteOverBudget(Run, seen.task, claim) /\ Fails(w)
         \/ ~CompletionAccepted(seen.task) /\ Fails(w) /\ UNCHANGED ledgerVars

Reported(seen) ==
    IF seen.state = "ABSENT"
    THEN [state |-> "CANCELLED", absent |-> TRUE, task |-> NoTask, claim |-> NoClaim]
    ELSE [state |-> seen.state, absent |-> FALSE, task |-> seen.task, claim |-> NoClaim]

RecordCancellation(w) ==
    LET seen == slot[w].seen  res == Reported(seen) IN
    /\ Transaction(w, "RECORD")
    /\ \/ /\ Ledger!CancellationAccepted(Run, res)
          /\ Ledger!RecordProviderCancellation(Run, res, slot[w].reason)
          /\ IF "UNKNOWN" \in {seen.state, Ledger!EffectiveOutcome(Run, res)}
             THEN Fails(w) ELSE Step(w, "RETURN", Absent)
       \/ /\ ~Ledger!CancellationAccepted(Run, res)
          /\ Fatal(w)
          /\ UNCHANGED ledgerVars

\* The journal entry is committed and Temporal learns the result.
ReturnResult(w) ==
    /\ Transaction(w, "RETURN")
    /\ Done(w)
    /\ UNCHANGED ledgerVars

Work(w) ==
    \/ PrepareProviderJob(w) \/ FreezeIntent(w) \/ Submit(w) \/ Reconcile(w) \/ Poll(w)
    \/ RecordObservation(w) \/ RecordLostAnswer(w) \/ CompleteProviderJob(w)
    \/ ProviderJobPrepared(w) \/ CancelRemote(w) \/ CompleteRaced(w)
    \/ RecordCancellation(w) \/ ReturnResult(w)

\* The provider finishes the task on its own.
RemoteFinishes ==
    /\ remote = "ACTIVE"
    /\ remote' \in {"SUCCEEDED", "FAILED"}
    /\ UNCHANGED <<ledgerVars, adapter, exec, slot, inbox, current, asked, faults>>

Next ==
    \/ ControlPlane
    \/ \E e \in Executions : Orchestrator(e)
    \/ \E w \in Slots, e \in Executions : StartAttempt(w, e)
    \/ \E w \in Slots : Work(w) \/ TimeOut(w) \/ Die(w) \/ Interrupt(w) \/ StepFails(w)
    \/ RemoteFinishes

Spec == Init /\ [][Next]_vars

----------------------------------------------------------------------------
(***************************************************************************)
(* Fairness: Temporal schedules what can be scheduled and delivers a       *)
(* cancellation with a heartbeat, workers finish their steps or die, a     *)
(* caller repeats a request until Temporal has acknowledged it, and the    *)
(* provider finishes an accepted task.  Nothing makes the operator act,    *)
(* and nothing prevents MaxFaults failures.                                *)
(***************************************************************************)
Fairness ==
    /\ \A e \in Executions :
          WF_vars(Orchestrator(e)) /\ WF_vars(\E w \in Slots : StartAttempt(w, e))
    /\ \A w \in Slots : WF_vars(Work(w)) /\ WF_vars(Die(w)) /\ WF_vars(Interrupt(w))
    /\ WF_vars(StartShot) /\ WF_vars(MarkOperationStarted) /\ WF_vars(StartRecovery)
    /\ WF_vars(Pause) /\ WF_vars(Resume) /\ WF_vars(Cancel)
    /\ WF_vars(RemoteFinishes)

FairSpec == Spec /\ Fairness

----------------------------------------------------------------------------
(***************************************************************************)
(* Properties.                                                             *)
(***************************************************************************)
\* Every variable has its type; the adapter's record only ever names states of
\* the provider contract, never the provider's own.
TypeOK ==
    /\ Ledger!TypeOK
    /\ adapter.state \in Terminal \cup {"ABSENT", "UNKNOWN", "REQUIRES_ACTION", "QUEUED", "RUNNING"}
    /\ adapter.task \in {NoTask, Task}
    /\ remote \in {"NONE", "ACTIVE", "SUCCEEDED", "FAILED", "CANCELLED"}

\* Once a paid task can exist, every later attempt only reconciles: the intent
\* is durable before the POST leaves the worker (FreezeIntent).
PaidTaskForbidsSubmit ==
    remote # "NONE" => job[Run] # "NONE" /\ Ledger!ReconcileOnly(Run)

\* What the ledger says of a settled run is what became of the provider's
\* task; only an over-budget completion is recorded as a failure of a success.
SettledOutcomeIsReal ==
    reservation[Run] = "SETTLED" =>
        job[Run] = remote \/ (job[Run] = "FAILED" /\ remote = "SUCCEEDED")

\* A run is only reported as succeeded when the provider finished the task and
\* the adapter has committed its output, whichever of the two activities
\* learnt of the success.
SuccessIsDelivered ==
    run[Run] = "SUCCEEDED" => remote = "SUCCEEDED" /\ adapter.artifacts

\* A cancellation that reaches the workflow while the job is executed is
\* answered: the run becomes terminal, or UNKNOWN when the provider did not
\* confirm.  With fewer faults than the compensation has attempts, and for a
\* run that was never paused (PausedCancelAnswered is about the others).
CancelAnswered ==
    \A e \in Executions :
        (exec[e].cancelled /\ exec[e].phase = "EXECUTE") ~> run[Run] \in Terminal \cup {"UNKNOWN"}

\* Unless somebody cancels it, a created run becomes terminal, or its failed
\* execution is handed to a reconciliation that repeats until it is answered.
RunConverges ==
    run[Run] = "VALIDATED" ~>
        \/ run[Run] \in Terminal
        \/ \E e \in Executions : exec[e].cancelled \/ exec[e].phase = "RECONCILE"

\* state-and-reliability.md, cancel: a disconnected compensation activity
\* answers every accepted cancellation, with UNKNOWN if nothing better is
\* known.  Claimed of all runs, the paused ones included.
PausedCancelAnswered ==
    run[Run] = "CANCEL_REQUESTED" ~> run[Run] # "CANCEL_REQUESTED"

\* state-and-reliability.md, section 7: when the completion comes before the
\* cancellation, the output and its cost are kept and the run has succeeded.
\* Asked of the reconciliation, which repeats until it has an answer.
SuccessRaceConverges ==
    \A e \in Executions :
        exec[e].phase = "RECONCILE" /\ remote = "SUCCEEDED" ~> run[Run] = "SUCCEEDED"

\* activities.go and state-and-reliability.md: a cancellation that finds no
\* prepared job, or no job in the adapter's registry, proves that there is no
\* remote task, so that a cancelled run has none that still works.
CancelledMeansNoLiveTask == run[Run] = "CANCELLED" => remote \in {"NONE", "CANCELLED"}

\* state-and-reliability.md, pause: the run is kept as PAUSED, the poll is
\* stopped and a resume goes on with the same job.  So a workflow that waits
\* for a resume belongs to a run whose resume (or cancellation) is accepted.
PausedWorkflowIsResumable ==
    \A e \in Executions : exec[e].phase = "EXECUTE" /\ exec[e].paused /\ inbox = {} =>
        run[Run] \in Terminal \cup {"PAUSED", "CANCEL_REQUESTED"}
=============================================================================
