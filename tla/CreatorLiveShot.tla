--------------------------- MODULE CreatorLiveShot ---------------------------
(***************************************************************************)
(* The live shots of one Studio project: the plans and runs of             *)
(* repository/creator_live_shot.go, the commands of                        *)
(* controlplane/creator_handlers.go, and the shot workflow that executes a *)
(* confirmed run over this second ledger (orchestration/activities.go).    *)
(*                                                                         *)
(* The control plane may stop between the commit of a confirmation and the *)
(* call to Temporal; an activity attempt may be abandoned and go on; every *)
(* answer may be lost.  A creator run can be neither paused nor cancelled  *)
(* by a command: those only know generation_runs.  Every run reserves the  *)
(* same video tokens, so the token limit of a project is its task limit.   *)
(***************************************************************************)
EXTENDS Naturals, FiniteSets

CONSTANTS
    Plans,         \* plans of the project
    Keys,          \* Idempotency-Keys of confirmations
    ProjectTasks,  \* creatorProjectTaskLimit
    MaxAttempts,   \* MaximumAttempts of the provider activity
    MaxFaults      \* bound: lost answers, abandoned attempts, crashes, repeated commands

ASSUME BoundsAssumption == {ProjectTasks, MaxAttempts, MaxFaults} \subseteq Nat /\ MaxAttempts > 0

VARIABLES
    plan,      \* creator_live_shot_plans: state, the project as it was then, and
               \* whether the route and approvals it was bound to still stand
    idem,      \* keys with a stored response, of each confirmation
    starting,  \* confirmations answered by the ledger and not by Temporal yet
    run,       \* creator_live_shot_runs
    operation, \* operation_requests of the confirmation
    journal,   \* completed workflow steps of each run
    wf,        \* ShotProductionWorkflow of each run: its step and attempts
    attempt,   \* the current attempt of its activity, and an abandoned one
    registry,  \* the adapter's record of the provider job
    task,      \* the provider's task
    faults

ledger   == <<plan, idem, run, operation>>
workflow == <<wf, journal>>
provider == <<registry, task>>
vars     == <<ledger, workflow, provider, starting, attempt, faults>>

Attempts == {"CURRENT", "ABANDONED"}
Idle     == [at |-> "NONE", reconcile |-> FALSE, answer |-> "NONE"]

\* QUEUED, RUNNING, UNKNOWN, RECONCILING and REQUIRES_ACTION occupy the project.
\* Mutant: a run that is being reconciled no longer occupies it.
ActiveStatesForgotten == {"QUEUED", "RUNNING", "UNKNOWN", "REQUIRES_ACTION"}
ActiveStates   == {"QUEUED", "RUNNING", "UNKNOWN", "RECONCILING", "REQUIRES_ACTION"}
TerminalStates == {"SUCCEEDED", "FAILED", "CANCELLED"}

Runs       == {p \in Plans : run[p].state # "NONE"}
ActiveRuns == {p \in Plans : run[p].state \in ActiveStates}

Init ==
    /\ plan      = [p \in Plans |-> [state |-> "NONE", used |-> 0, active |-> 0, bound |-> FALSE]]
    /\ idem      = [p \in Plans |-> {}]
    /\ starting  = {}
    /\ run       = [p \in Plans |-> [state |-> "NONE", known |-> FALSE, submits |-> 0,
                                     evidence |-> "NONE", absent |-> FALSE]]
    /\ operation = [p \in Plans |-> "NONE"]
    /\ journal   = [p \in Plans |-> {}]
    /\ wf        = [p \in Plans |-> [step |-> "IDLE", tries |-> 0]]
    /\ attempt   = [p \in Plans |-> [a \in Attempts |-> Idle]]
    /\ registry  = [p \in Plans |-> "NONE"]
    /\ task      = [p \in Plans |-> "NONE"]
    /\ faults    = 0

Fault == faults < MaxFaults /\ faults' = faults + 1

----------------------------------------------------------------------------
(***************************************************************************)
(* Commands.                                                               *)
(***************************************************************************)
\* The plan and every binding it needs, from the series down to the prompt and
\* the budget approval, are written with the project they were made for.
MaterializedPlan == [state |-> "READY", used |-> Cardinality(Runs),
                     active |-> Cardinality(ActiveRuns), bound |-> TRUE]

\* A full or busy project still gets its plan, with blockers.
CreateCreatorLiveShotPlan(p) ==
    /\ plan[p].state = "NONE"
    /\ plan' = [plan EXCEPT ![p] = MaterializedPlan]
    /\ UNCHANGED <<idem, run, operation, workflow, provider, starting, attempt, faults>>

\* A confirmation after the 15 minutes expires the plan and keeps no key.
ExpirePlan(p) ==
    /\ plan[p].state = "READY"
    /\ plan' = [plan EXCEPT ![p].state = "EXPIRED"]
    /\ UNCHANGED <<idem, run, operation, workflow, provider, starting, attempt, faults>>

\* The adapter's capability changes, or a right or an approval is withdrawn.
BindingWithdrawn(p) ==
    /\ plan[p].state = "READY" /\ plan[p].bound
    /\ plan' = [plan EXCEPT ![p].bound = FALSE]
    /\ UNCHANGED <<idem, run, operation, workflow, provider, starting, attempt, faults>>

\* Mutant: the project is not compared with the one the plan was made for.
ProjectUnchangedSkipped(p) == TRUE

ProjectUnchanged(p) ==
    plan[p].used = Cardinality(Runs) /\ plan[p].active = Cardinality(ActiveRuns)

ProjectAdmits == ActiveRuns = {} /\ Cardinality(Runs) + 1 <= ProjectTasks

\* One transaction under the project's lock: run, operation, plan and key.
ConfirmCreatorLiveShotPlan(p, k) ==
    /\ plan[p].state = "READY"
    /\ plan[p].bound
    /\ ProjectUnchanged(p)
    /\ ProjectAdmits
    /\ plan'      = [plan EXCEPT ![p].state = "CONFIRMED"]
    /\ idem'      = [idem EXCEPT ![p] = @ \cup {k}]
    /\ run'       = [run EXCEPT ![p].state = "QUEUED"]
    /\ operation' = [operation EXCEPT ![p] = "ACCEPTED"]
    /\ starting'  = starting \cup {p}
    /\ UNCHANGED <<workflow, provider, attempt, faults>>

\* The client has no answer and repeats its key: the stored response is returned
\* and the workflow started again.
ReplayConfirmation(p, k) ==
    /\ k \in idem[p]
    /\ p \notin starting
    /\ Fault
    /\ starting' = starting \cup {p}
    /\ UNCHANGED <<ledger, workflow, provider, attempt>>

\* The workflow identity is that of the run: a second start is the first.
StartShot(p) ==
    /\ p \in starting
    /\ starting' = starting \ {p}
    /\ IF wf[p].step = "IDLE"
       THEN /\ wf'      = [wf EXCEPT ![p] = [step |-> "EXECUTE", tries |-> 1]]
            /\ attempt' = [attempt EXCEPT ![p]["CURRENT"] = [Idle EXCEPT !.at = "PREPARE"]]
       ELSE UNCHANGED <<wf, attempt>>
    /\ UNCHANGED <<ledger, journal, provider, faults>>

\* The control plane stops, or Temporal does not answer.
StartLost(p) ==
    /\ p \in starting
    /\ Fault
    /\ starting' = starting \ {p}
    /\ UNCHANGED <<ledger, workflow, provider, attempt>>

----------------------------------------------------------------------------
(***************************************************************************)
(* Attempts of an activity.  Only the current one is heard by the          *)
(* workflow; the abandoned one goes on until it ends.                      *)
(***************************************************************************)
At(p, a, s)   == attempt[p][a].at = s
Goto(p, a, s) == attempt' = [attempt EXCEPT ![p][a].at = s]

First == [EXECUTE |-> "PREPARE", QC |-> "QC", FINALIZE |-> "SUCCEED", REJECT |-> "REJECT",
          RECONCILE |-> "ASK", CLOSED |-> "NONE"]

\* The workflow goes on to the activity of its next step.
Enter(p, step) ==
    /\ wf'      = [wf EXCEPT ![p] = [step |-> step, tries |-> 1]]
    /\ attempt' = [attempt EXCEPT ![p]["CURRENT"] = [Idle EXCEPT !.at = First[step]]]

Leave(p) == attempt' = [attempt EXCEPT ![p]["ABANDONED"] = Idle] /\ UNCHANGED wf

Return(p, a, step) == IF a = "CURRENT" THEN Enter(p, step) ELSE Leave(p)

\* Where an activity that failed for good leads: a failed execution to the
\* reconciliation, a failed review to the rejection.
OnError == [EXECUTE |-> "RECONCILE", QC |-> "REJECT", FINALIZE |-> "CLOSED",
            REJECT |-> "CLOSED", RECONCILE |-> "CLOSED"]

Again(p) ==
    /\ wf'      = [wf EXCEPT ![p].tries = IF wf[p].step = "RECONCILE" THEN 1 ELSE @ + 1]
    /\ attempt' = [attempt EXCEPT ![p]["CURRENT"] = [Idle EXCEPT !.at = First[wf[p].step]]]

\* Mutant: every activity is retried without limit.
FailRetried(p, a) == IF a = "ABANDONED" THEN Leave(p) ELSE Again(p)

\* The reconciliation is retried without limit.
Fail(p, a) ==
    IF a = "ABANDONED" THEN Leave(p)
    ELSE IF wf[p].tries < MaxAttempts \/ wf[p].step = "RECONCILE" THEN Again(p)
    ELSE Enter(p, OnError[wf[p].step])

Abort(p, a) == IF a = "CURRENT" THEN Enter(p, OnError[wf[p].step]) ELSE Leave(p)

\* A worker stops, or a call of the attempt fails.
AttemptFails(p, a) ==
    /\ ~At(p, a, "NONE")
    /\ Fault
    /\ Fail(p, a)
    /\ UNCHANGED <<ledger, journal, provider, starting>>

\* A heartbeat is missed: the attempt goes on, and another one begins.
HeartbeatTimeout(p) ==
    LET old == attempt[p]["CURRENT"]
    IN /\ wf[p].step \in {"EXECUTE", "RECONCILE"}
       /\ At(p, "ABANDONED", "NONE")
       /\ wf[p].tries < MaxAttempts \/ wf[p].step = "RECONCILE"
       /\ Fault
       /\ wf'      = [wf EXCEPT ![p].tries = IF wf[p].step = "RECONCILE" THEN 1 ELSE @ + 1]
       /\ attempt' = [attempt EXCEPT ![p] =
                          [CURRENT |-> [Idle EXCEPT !.at = First[wf[p].step]], ABANDONED |-> old]]
       /\ UNCHANGED <<ledger, journal, provider, starting>>

\* CompleteWorkflowStep: the first result of a step is kept.
Journal(p, a, name, next) ==
    /\ journal' = [journal EXCEPT ![p] = @ \cup {name}]
    /\ Return(p, a, next)
    /\ UNCHANGED <<ledger, provider, starting, faults>>

\* BeginWorkflowStep: a completed step is answered from the journal.
Replayed(p, a, name, next) ==
    /\ name \in journal[p]
    /\ Return(p, a, next)
    /\ UNCHANGED <<ledger, journal, provider, starting, faults>>

----------------------------------------------------------------------------
(***************************************************************************)
(* The adapter and the provider's task.                                    *)
(***************************************************************************)
TaskEnds(p) ==
    /\ task[p] = "WORKING"
    /\ \E end \in {"SUCCEEDED", "OVERDRAWN", "FAILED"} : task' = [task EXCEPT ![p] = end]
    /\ UNCHANGED <<ledger, workflow, registry, starting, attempt, faults>>

\* One record and one submission for a provider job; its outcome may be a task,
\* a refusal, or unclear, and then it is an operator's.
RegistrySubmit(p) ==
    IF registry[p] # "NONE" THEN UNCHANGED provider
    ELSE \/ registry' = [registry EXCEPT ![p] = "ACTIVE"]
            /\ task' = [task EXCEPT ![p] = "WORKING"]
         \/ registry' = [registry EXCEPT ![p] = "FAILED"] /\ UNCHANGED task
         \/ registry' = [registry EXCEPT ![p] = "UNCLEAR"]
            /\ task' \in {task, [task EXCEPT ![p] = "WORKING"]}

RegistryGet(p) ==
    /\ registry' = [registry EXCEPT ![p] = IF @ = "ACTIVE" /\ task[p] # "WORKING"
                                           THEN task[p] ELSE @]
    /\ UNCHANGED task

\* The provider stops the task or does not say so; a task that succeeded
\* meanwhile is saved without its artifacts.
RegistryCancel(p) ==
    IF registry[p] # "ACTIVE" THEN UNCHANGED provider
    ELSE CASE task[p] = "WORKING" ->
                \/ registry' = [registry EXCEPT ![p] = "CANCELLED"]
                   /\ task' = [task EXCEPT ![p] = "STOPPED"]
                \/ UNCHANGED provider
           [] task[p] = "FAILED" ->
                registry' = [registry EXCEPT ![p] = "FAILED"] /\ UNCHANGED task
           [] OTHER -> registry' = [registry EXCEPT ![p] = "BARE"] /\ UNCHANGED task

HasTask(p) == registry'[p] \in {"ACTIVE", "SUCCEEDED", "OVERDRAWN", "CANCELLED", "BARE"}

----------------------------------------------------------------------------
(***************************************************************************)
(* ExecuteProviderJob over the creator ledger.                             *)
(***************************************************************************)
PrepareCreatorProviderJob(p, a) ==
    /\ At(p, a, "PREPARE")
    /\ "EXECUTE" \notin journal[p]
    /\ run[p].state \notin TerminalStates
    /\ LET reconcile == run[p].state # "QUEUED" \/ run[p].known
       IN /\ run' = IF run[p].state \in {"RUNNING", "UNKNOWN"}
                    THEN [run EXCEPT ![p].state = "RECONCILING"] ELSE run
          /\ attempt' = [attempt EXCEPT ![p][a] =
                             [at |-> IF reconcile THEN "POLL" ELSE "FREEZE",
                              reconcile |-> reconcile, answer |-> "NONE"]]
    /\ UNCHANGED <<plan, idem, operation, workflow, provider, starting, faults>>

\* Mutant: a run that failed may be prepared again.
PrepareRefusedNever(p, a) ==
    /\ At(p, a, "PREPARE")
    /\ "EXECUTE" \notin journal[p]
    /\ run[p].state \in TerminalStates
    /\ run' = [run EXCEPT ![p].state = "RECONCILING"]
    /\ Goto(p, a, "POLL")
    /\ UNCHANGED <<plan, idem, operation, workflow, provider, starting, faults>>

\* A terminal run refuses the attempt; the refusal is one of those Temporal retries.
PrepareRefused(p, a) ==
    /\ At(p, a, "PREPARE")
    /\ "EXECUTE" \notin journal[p]
    /\ run[p].state \in TerminalStates
    /\ Fail(p, a)
    /\ UNCHANGED <<ledger, journal, provider, starting, faults>>

\* An observation of a terminal run changes nothing and is no error.
Observe(p, state, known, submitted) ==
    IF run[p].state \in TerminalStates THEN UNCHANGED <<run, operation>>
    ELSE /\ run' = [run EXCEPT ![p].state = state, ![p].known = @ \/ known,
                               ![p].submits = IF submitted \/ known THEN 1 ELSE @]
         /\ operation' = [operation EXCEPT ![p] = IF @ = "ACCEPTED" THEN "RUNNING" ELSE @]

FreezeIntent(p, a) ==
    /\ At(p, a, "FREEZE")
    /\ Observe(p, "UNKNOWN", FALSE, TRUE)
    /\ Goto(p, a, "SUBMIT")
    /\ UNCHANGED <<plan, idem, workflow, provider, starting, faults>>

Answered(p, a) == attempt' = [attempt EXCEPT ![p][a].at = "OBSERVE", ![p][a].answer = registry'[p]]

\* The answer is lost; the attempt records that it does not know and fails.
AnswerLost(p, a) == Fault /\ Goto(p, a, "LOST")

Submit(p, a) ==
    /\ At(p, a, "SUBMIT")
    /\ RegistrySubmit(p)
    /\ (Answered(p, a) /\ UNCHANGED faults) \/ AnswerLost(p, a)
    /\ UNCHANGED <<ledger, workflow, starting>>

\* A poll of a job the adapter does not know is an error.
Poll(p, a) ==
    /\ At(p, a, "POLL")
    /\ RegistryGet(p)
    /\ IF registry[p] = "NONE" THEN Goto(p, a, "LOST") /\ UNCHANGED faults
       ELSE (Answered(p, a) /\ UNCHANGED faults) \/ AnswerLost(p, a)
    /\ UNCHANGED <<ledger, workflow, starting>>

RecordLostAnswer(p, a) ==
    /\ At(p, a, "LOST")
    /\ Observe(p, "UNKNOWN", FALSE, FALSE)
    /\ Fail(p, a)
    /\ UNCHANGED <<plan, idem, journal, provider, starting, faults>>

\* What an answer says of the run, and whether it names the task.
ObservedState(answer) ==
    CASE answer \in {"ACTIVE", "SUCCEEDED", "OVERDRAWN", "BARE"} -> "RUNNING"
      [] answer = "UNCLEAR"                                      -> "REQUIRES_ACTION"
      [] OTHER                                                   -> "UNKNOWN"

Named == {"ACTIVE", "SUCCEEDED", "OVERDRAWN", "BARE", "CANCELLED"}

\* A run without a known task is not called RUNNING.
RecordObservation(p, a) ==
    LET answer == attempt[p][a].answer
    IN /\ At(p, a, "OBSERVE")
       /\ Observe(p, ObservedState(answer), answer \in Named, FALSE)
       /\ CASE answer = "ACTIVE"                      -> Goto(p, a, "POLL") /\ UNCHANGED wf
            [] answer \in {"SUCCEEDED", "OVERDRAWN"}  -> Goto(p, a, "COMPLETE") /\ UNCHANGED wf
            [] answer = "BARE"                        -> Fail(p, a)
            [] OTHER                                  -> Abort(p, a) \/ Fail(p, a)
       /\ UNCHANGED <<plan, idem, journal, provider, starting, faults>>

\* settleCreatorOperation
Settle(p, state) == operation' = [operation EXCEPT ![p] = state]

\* completeCreatorProviderJob; the manifest of the reconciliation lacks the region.
CompletionAccepted(p, path) ==
    IF run[p].state = "SUCCEEDED" THEN run[p].evidence = path
                                  ELSE run[p].state \notin TerminalStates

\* Mutant: a completion may follow any state of the run.
CompleteAnyState(p, path) ==
    /\ run' = [run EXCEPT ![p].state = "SUCCEEDED", ![p].known = TRUE, ![p].submits = 1,
                          ![p].evidence = path]
    /\ Settle(p, "SUCCEEDED")

Complete(p, path) ==
    /\ CompletionAccepted(p, path)
    /\ run' = [run EXCEPT ![p].state = "SUCCEEDED", ![p].known = TRUE, ![p].submits = 1,
                          ![p].evidence = path]
    /\ Settle(p, "SUCCEEDED")

CompleteProviderJob(p, a) ==
    /\ At(p, a, "COMPLETE")
    /\ attempt[p][a].answer = "SUCCEEDED"
    /\ Complete(p, "EXECUTE")
    /\ Goto(p, a, "JOURNAL")
    /\ UNCHANGED <<plan, idem, workflow, provider, starting, faults>>

\* More tokens than the cap, or a run that ended otherwise: an error that is retried.
CompleteRefused(p, a) ==
    /\ At(p, a, "COMPLETE")
    /\ attempt[p][a].answer = "OVERDRAWN" \/ ~CompletionAccepted(p, "EXECUTE")
    /\ Fail(p, a)
    /\ UNCHANGED <<ledger, journal, provider, starting, faults>>

ExecuteProviderJob(p, a) ==
    \/ At(p, a, "PREPARE") /\ Replayed(p, a, "EXECUTE", "QC")
    \/ PrepareCreatorProviderJob(p, a) \/ PrepareRefused(p, a)
    \/ FreezeIntent(p, a) \/ Submit(p, a) \/ Poll(p, a)
    \/ RecordLostAnswer(p, a) \/ RecordObservation(p, a)
    \/ CompleteProviderJob(p, a) \/ CompleteRefused(p, a)
    \/ At(p, a, "JOURNAL") /\ Journal(p, a, "EXECUTE", "QC")

----------------------------------------------------------------------------
(***************************************************************************)
(* After a failed execution: CancelProviderJob until the outcome is known. *)
(***************************************************************************)
CancelResult(answer) ==
    CASE answer = "NONE"                                     -> "ABSENT"
      [] answer \in {"SUCCEEDED", "OVERDRAWN"}               -> answer
      [] answer \in {"CANCELLED", "FAILED"}                  -> answer
      [] OTHER                                               -> "UNKNOWN"

CancelRemote(p, a) ==
    /\ At(p, a, "ASK")
    /\ "RECONCILE" \notin journal[p]
    /\ RegistryCancel(p)
    /\ \/ /\ LET result == CancelResult(registry'[p])
             IN attempt' = [attempt EXCEPT ![p][a] =
                    [at |-> IF result \in {"SUCCEEDED", "OVERDRAWN"} THEN "RACED" ELSE "RECORD",
                     reconcile |-> TRUE, answer |-> result]]
          /\ UNCHANGED faults
       \/ Fault /\ attempt' = [attempt EXCEPT ![p][a] =
                      [at |-> "RECORD", reconcile |-> TRUE, answer |-> "UNKNOWN"]]
    /\ UNCHANGED <<ledger, workflow, starting>>

\* The job had succeeded: its completion is committed first.
CompleteRaced(p, a) ==
    /\ At(p, a, "RACED")
    /\ IF attempt[p][a].answer = "SUCCEEDED" /\ CompletionAccepted(p, "RECONCILE")
       THEN Complete(p, "RECONCILE") /\ Goto(p, a, "RECORD") /\ UNCHANGED wf
       ELSE Fail(p, a) /\ UNCHANGED <<run, operation>>
    /\ UNCHANGED <<plan, idem, journal, provider, starting, faults>>

\* No task upstream is believed only while the ledger knows of none.
Outcome(p, a) ==
    LET answer == attempt[p][a].answer
    IN IF answer = "ABSENT" THEN IF run[p].known THEN "UNKNOWN" ELSE "CANCELLED" ELSE answer

\* A terminal run accepts the same evidence again and nothing else.
SameEvidence(p, a) ==
    /\ Outcome(p, a) = run[p].state
    /\ attempt[p][a].answer = "CANCELLED" => run[p].known

\* An answer that says nothing is no outcome, whatever the run already is: the
\* activity asks again.
RecordCancellation(p, a) ==
    LET outcome == Outcome(p, a)
    IN /\ At(p, a, "RECORD")
       /\ CASE run[p].state = "SUCCEEDED" ->
                 /\ IF attempt[p][a].answer = "UNKNOWN" THEN Fail(p, a)
                    ELSE Goto(p, a, "CANCEL_JOURNAL") /\ UNCHANGED wf
                 /\ UNCHANGED <<run, operation>>
            [] run[p].state \in {"CANCELLED", "FAILED"} ->
                 /\ IF SameEvidence(p, a) THEN Goto(p, a, "CANCEL_JOURNAL") /\ UNCHANGED wf
                                          ELSE Abort(p, a)
                 /\ UNCHANGED <<run, operation>>
            [] outcome \in {"CANCELLED", "FAILED"} /\ run[p].state \notin TerminalStates ->
                 /\ run' = [run EXCEPT ![p].state = outcome,
                                       ![p].known = @ \/ attempt[p][a].answer = "CANCELLED",
                                       ![p].absent = attempt[p][a].answer = "ABSENT"]
                 /\ Settle(p, outcome)
                 /\ Goto(p, a, "CANCEL_JOURNAL") /\ UNCHANGED wf
            [] OTHER ->
                 /\ run' = [run EXCEPT ![p].state = "RECONCILING"]
                 /\ Settle(p, "RUNNING")
                 /\ Fail(p, a)
       /\ UNCHANGED <<plan, idem, journal, provider, starting, faults>>

CancelProviderJob(p, a) ==
    \/ At(p, a, "ASK") /\ Replayed(p, a, "RECONCILE", "CLOSED")
    \/ CancelRemote(p, a) \/ CompleteRaced(p, a) \/ RecordCancellation(p, a)
    \/ At(p, a, "CANCEL_JOURNAL") /\ Journal(p, a, "RECONCILE", "CLOSED")

----------------------------------------------------------------------------
(***************************************************************************)
(* After a successful one: the structural check and the end.               *)
(***************************************************************************)
RecordCreatorQC(p) ==
    /\ At(p, "CURRENT", "QC")
    /\ run[p].state = "SUCCEEDED"
    /\ Enter(p, "FINALIZE")
    /\ UNCHANGED <<ledger, journal, provider, starting, faults>>

FinalizeCreatorRun(p) ==
    /\ \/ /\ At(p, "CURRENT", "SUCCEED") /\ run[p].state = "SUCCEEDED"
          /\ operation' = [operation EXCEPT ![p] = IF @ \in {"ACCEPTED", "RUNNING"}
                                                   THEN "SUCCEEDED" ELSE @]
          /\ UNCHANGED run
          /\ Enter(p, "CLOSED")
       \/ /\ At(p, "CURRENT", "REJECT") /\ run[p].state \in TerminalStates
          /\ Fail(p, "CURRENT")
          /\ UNCHANGED <<run, operation>>
    /\ UNCHANGED <<plan, idem, journal, provider, starting, faults>>

----------------------------------------------------------------------------
Next ==
    \/ \E p \in Plans :
          \/ CreateCreatorLiveShotPlan(p) \/ ExpirePlan(p) \/ BindingWithdrawn(p)
          \/ StartShot(p) \/ StartLost(p)
          \/ \E k \in Keys : ConfirmCreatorLiveShotPlan(p, k) \/ ReplayConfirmation(p, k)
          \/ HeartbeatTimeout(p) \/ TaskEnds(p) \/ RecordCreatorQC(p) \/ FinalizeCreatorRun(p)
          \/ \E a \in Attempts :
                ExecuteProviderJob(p, a) \/ CancelProviderJob(p, a) \/ AttemptFails(p, a)

Spec == Init /\ [][Next]_vars

----------------------------------------------------------------------------
Steps == {"NONE", "PREPARE", "FREEZE", "SUBMIT", "POLL", "LOST", "OBSERVE", "COMPLETE",
          "JOURNAL", "ASK", "RACED", "RECORD", "CANCEL_JOURNAL", "QC", "SUCCEED", "REJECT"}

WorkflowSteps == {"IDLE", "EXECUTE", "QC", "FINALIZE", "REJECT", "RECONCILE", "CLOSED"}

RegistryStates == {"NONE", "ACTIVE", "SUCCEEDED", "OVERDRAWN", "BARE", "FAILED", "CANCELLED",
                   "UNCLEAR"}

PlanType == [state : {"NONE", "READY", "CONFIRMED", "EXPIRED"},
             used : 0..ProjectTasks, active : 0..1, bound : BOOLEAN]

RunType == [state : {"NONE"} \cup ActiveStates \cup TerminalStates, known : BOOLEAN,
            submits : 0..1, evidence : {"NONE", "EXECUTE", "RECONCILE"}, absent : BOOLEAN]

AttemptType == [at : Steps, reconcile : BOOLEAN,
                answer : RegistryStates \cup {"ABSENT", "UNKNOWN"}]

\* Every table, the workflow and its attempts hold values of their types.
TypeOK ==
    /\ plan \in [Plans -> PlanType]
    /\ idem \in [Plans -> SUBSET Keys]
    /\ starting \subseteq Plans
    /\ run \in [Plans -> RunType]
    /\ operation \in [Plans -> {"NONE", "ACCEPTED", "RUNNING"} \cup TerminalStates]
    /\ journal \in [Plans -> SUBSET {"EXECUTE", "RECONCILE"}]
    /\ wf \in [Plans -> [step : WorkflowSteps, tries : 0..MaxAttempts]]
    /\ attempt \in [Plans -> [Attempts -> AttemptType]]
    /\ registry \in [Plans -> RegistryStates]
    /\ task \in [Plans -> {"NONE", "WORKING", "SUCCEEDED", "OVERDRAWN", "FAILED", "STOPPED"}]
    /\ faults \in 0..MaxFaults

\* Two confirmations of one project never use the same allowance: the runs of
\* the confirmed plans were counted 0, 1, 2, ... and stay within the limit, however
\* many plans were made in between (ConfirmCreatorLiveShotPlan).
EveryTaskCountedOnce ==
    LET confirmed == {p \in Plans : plan[p].state = "CONFIRMED"}
    IN /\ confirmed = Runs
       /\ {plan[p].used : p \in confirmed} = 0..(Cardinality(confirmed) - 1)
       /\ Cardinality(confirmed) <= ProjectTasks

\* creator-live-shot.md:29: "保守并发为 1".  Of the runs whose task works at the
\* provider at most one was not closed on the adapter's word that it has no task
\* (that word may be overtaken by an abandoned attempt).
OneLiveTaskPerProject ==
    Cardinality({p \in Plans : task[p] = "WORKING" /\ ~run[p].absent}) <= 1

\* Run, operation, journal and adapter tell one story: a terminal run has the
\* outcome of its job, its operation the same state, and its manifest a task.
OutcomeIsReal ==
    \A p \in Plans :
        /\ run[p].state = "SUCCEEDED" => registry[p] = "SUCCEEDED" /\ run[p].evidence # "NONE"
        /\ run[p].state = "FAILED"    => registry[p] = "FAILED"
        /\ run[p].state = "CANCELLED" => run[p].absent \/ registry[p] = "CANCELLED"
        /\ run[p].state \in TerminalStates \/ operation[p] \in TerminalStates
              => operation[p] = run[p].state
        /\ "EXECUTE" \in journal[p] => run[p].state = "SUCCEEDED"

\* A terminal run, its evidence and its operation never change, whichever attempt
\* or finalization comes late (guard_creator_live_shot_terminal_update would
\* turn such a write into an error; none of the transactions tries one).
TerminalEvidenceIsFinal ==
    [][\A p \in Plans : run[p].state \in TerminalStates =>
           UNCHANGED <<run[p], operation[p]>>]_vars
=============================================================================
