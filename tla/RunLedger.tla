----------------------------- MODULE RunLedger -----------------------------
(***************************************************************************)
(* The product truth of generation runs that share one budget approval:    *)
(* the tables generation_runs, generation_attempts, provider_jobs,         *)
(* budget_reservations and cost_ledger, and the SERIALIZABLE transactions  *)
(* of repository/workflow_ledger.go and repository/postgres.go that write  *)
(* them.  Each transaction is one action; its guard is every check that    *)
(* would roll the transaction back.  This module lets any caller commit    *)
(* any transaction at any time; the order in which the control plane, the  *)
(* Temporal workflow and the workers really call them is in ShotWorkflow.  *)
(***************************************************************************)
EXTENDS Integers, FiniteSets, Functions

CONSTANTS
    Runs,       \* the generation runs admitted under one budget approval
    Approved,   \* the approved amount of that approval, in micros
    Estimate,   \* the frozen estimate of each run, in micros
    Actuals,    \* the verified actual amounts a provider may claim
    Tasks,      \* upstream task identities a provider may report
    NoTask      \* no upstream task is known

ASSUME RunsAssumption     == IsFiniteSet(Runs)   \* rows of a table
ASSUME ApprovedAssumption == Approved \in Nat
ASSUME EstimateAssumption == Estimate \in [Runs -> Nat]
ASSUME ActualsAssumption  == Actuals \subseteq Nat
ASSUME NoTaskAssumption   == NoTask \notin Tasks

VARIABLES
    run,          \* generation_runs.state, "NONE" before the row exists
    attempt,      \* generation_attempts.state of the only attempt of the run
    job,          \* provider_jobs.state, "NONE" before the job is prepared
    upstream,     \* provider_jobs.upstream_task_id
    reservation,  \* budget_reservations.status, "NONE" before it exists
    ledger,       \* the cost_ledger entries of the run's job
    unconfirmed   \* generation_runs.failure_code = CANCEL_NOT_CONFIRMED

vars == <<run, attempt, job, upstream, reservation, ledger, unconfirmed>>

paid == <<job, upstream, reservation, ledger>>

Terminal == {"SUCCEEDED", "FAILED", "CANCELLED"}

RunStates == Terminal \cup
    {"NONE", "VALIDATED", "QUEUED", "RUNNING", "PAUSED", "UNKNOWN",
     "RECONCILING", "REQUIRES_ACTION", "CANCEL_REQUESTED"}

AttemptStates == Terminal \cup
    {"NONE", "VALIDATED", "QUEUED", "RUNNING", "UNKNOWN", "RECONCILING",
     "REQUIRES_ACTION"}

ActiveJobStates == {"QUEUED", "RUNNING", "UNKNOWN", "REQUIRES_ACTION"}
JobStates == Terminal \cup ActiveJobStates \cup {"NONE"}

ReservationStates == {"NONE", "RESERVED", "SETTLED", "RELEASED"}

(***************************************************************************)
(* What a provider response says about cost: an amount the ledger trusts   *)
(* (verified, same currency and pricing version), alone or beside a drifted *)
(* estimate, an amount it does not trust, a subscription without a cash    *)
(* amount, or nothing.                                                     *)
(***************************************************************************)
Claims == [kind : {"VERIFIED", "MISESTIMATED"}, micros : Actuals]
          \cup [kind : {"UNVERIFIED", "UNPRICED", "MISSING"}, micros : {0}]

Trusted(claim) == claim.kind \in {"VERIFIED", "MISESTIMATED"}

EntryNames == {"RESERVATION", "ACTUAL", "UNUSED",
               "RELEASE_CANCELLED", "RELEASE_FAILED"}
Entry(name, micros, verified) ==
    [entry |-> name, micros |-> micros, verified |-> verified]

ReservationEntry(r) == Entry("RESERVATION", Estimate[r], TRUE)

\* Mutant: every release is booked as a cancellation.
ReleaseNameIgnoresReason(reason) == "RELEASE_CANCELLED"

ReleaseName(reason) ==
    IF reason = "CANCELLED" THEN "RELEASE_CANCELLED" ELSE "RELEASE_FAILED"

(***************************************************************************)
(* The budget a run occupies, as the admission check reads it back from    *)
(* the durable rows: the whole estimate until a verified ACTUAL replaces   *)
(* it, nothing once it is released.                                        *)
(***************************************************************************)
TrustedActuals(r) == {e \in ledger[r] : e.entry = "ACTUAL" /\ e.verified}

Allocation(r) ==
    CASE reservation[r] \in {"NONE", "RELEASED"} -> 0
      [] reservation[r] = "RESERVED"             -> Estimate[r]
      [] OTHER -> IF TrustedActuals(r) = {} THEN Estimate[r]
                  ELSE (CHOOSE e \in TrustedActuals(r) : TRUE).micros

Total(amount) == SumFunctionOnSet(amount, Runs)

Allocated == Total([r \in Runs |-> Allocation(r)])

\* readCumulativeProviderBudgetAllocation refuses to add up a release whose
\* ledger reason is not the terminal state of its run.
ReleaseReadable(r) ==
    reservation[r] = "RELEASED" =>
        \/ run[r] = "CANCELLED" /\ Entry("RELEASE_CANCELLED", Estimate[r], TRUE) \in ledger[r]
        \/ run[r] = "FAILED" /\ Entry("RELEASE_FAILED", Estimate[r], TRUE) \in ledger[r]

\* An upstream identity that is already durable must be the one presented.
SameTask(r, task) == upstream[r] # NoTask => task = upstream[r]

CompletionEntries(r, claim) ==
    (IF claim.kind = "MISSING" THEN {}
     ELSE {Entry("ACTUAL", claim.micros, Trusted(claim))})
    \cup
    (IF Trusted(claim) /\ claim.micros < Estimate[r]
     THEN {Entry("UNUSED", Estimate[r] - claim.micros, TRUE)} ELSE {})

\* Mutant: a settled cancellation forgets to return the unused rest.
SettlementEntriesKeepRest(r, claim) ==
    IF claim.kind \in {"UNPRICED", "MISSING"} THEN {}
    ELSE {Entry("ACTUAL", claim.micros, Trusted(claim))}

\* A terminal outcome other than success records no row for an unpriced claim.
SettlementEntries(r, claim) ==
    IF claim.kind = "UNPRICED" THEN {} ELSE CompletionEntries(r, claim)

----------------------------------------------------------------------------
Init ==
    /\ run         = [r \in Runs |-> "NONE"]
    /\ attempt     = [r \in Runs |-> "NONE"]
    /\ job         = [r \in Runs |-> "NONE"]
    /\ upstream    = [r \in Runs |-> NoTask]
    /\ reservation = [r \in Runs |-> "NONE"]
    /\ ledger      = [r \in Runs |-> {}]
    /\ unconfirmed = [r \in Runs |-> FALSE]

(***************************************************************************)
(* Control-plane transactions.                                             *)
(***************************************************************************)
CreateGenerationRun(r) ==
    /\ run[r] = "NONE"
    /\ run' = [run EXCEPT ![r] = "VALIDATED"]
    /\ attempt' = [attempt EXCEPT ![r] = "VALIDATED"]
    /\ UNCHANGED <<unconfirmed, paid>>

Pausable    == {"QUEUED", "RUNNING", "RECONCILING"}
Cancellable == {"VALIDATED", "QUEUED", "RUNNING", "PAUSED", "UNKNOWN",
                "RECONCILING", "REQUIRES_ACTION"}
Recoverable == {"UNKNOWN", "REQUIRES_ACTION"}

\* transitionRun with a reason code, which replaces the failure code.
RequestRunPause(r) ==
    /\ run[r] \in Pausable
    /\ run' = [run EXCEPT ![r] = "PAUSED"]
    /\ unconfirmed' = [unconfirmed EXCEPT ![r] = FALSE]
    /\ UNCHANGED <<attempt, paid>>

RequestRunCancellation(r) ==
    /\ run[r] \in Cancellable
    /\ run' = [run EXCEPT ![r] = "CANCEL_REQUESTED"]
    /\ unconfirmed' = [unconfirmed EXCEPT ![r] = FALSE]
    /\ UNCHANGED <<attempt, paid>>

ResumePaused(r) ==
    /\ run[r] = "PAUSED"
    /\ run' = [run EXCEPT ![r] = "RUNNING"]
    /\ unconfirmed' = [unconfirmed EXCEPT ![r] = FALSE]
    /\ UNCHANGED <<attempt, paid>>

\* RECONCILE_HISTORY and RETRY_INFRASTRUCTURE keep the failure code.
RequestRecovery(r) ==
    /\ run[r] \in Recoverable
    /\ run' = [run EXCEPT ![r] = "RECONCILING"]
    /\ UNCHANGED <<unconfirmed, attempt, paid>>

\* The run half of MarkOperationStarted.
MarkRunQueued(r) ==
    /\ run[r] # "NONE"
    /\ run' = [run EXCEPT ![r] = IF @ = "VALIDATED" THEN "QUEUED" ELSE @]
    /\ UNCHANGED <<attempt, unconfirmed, paid>>

(***************************************************************************)
(* The paid boundary: PrepareProviderJob reserves the budget and inserts   *)
(* the job before any network call.                                        *)
(***************************************************************************)
\* Mutant: the new hold itself is left out of the comparison.
AdmitsReservationOffByOneHold(r) ==
    /\ \A s \in Runs : ReleaseReadable(s)
    /\ Allocated <= Approved

\* Mutant: the approval is compared with this run alone.
AdmitsReservationPerRun(r) == Estimate[r] <= Approved

AdmitsReservation(r) ==
    /\ \A s \in Runs : ReleaseReadable(s)
    /\ Estimate[r] <= Approved
    /\ Allocated <= Approved - Estimate[r]

MayCreatePaidJob(r) ==
    /\ reservation[r] = "NONE"
    /\ run[r] \notin Terminal \cup {"NONE"}
    /\ attempt[r] = "VALIDATED"

\* A replay of Prepare reads the rows back; a job that may have crossed the
\* paid boundary is only ever reconciled.
ReconcileOnly(r) == job[r] # "QUEUED" \/ upstream[r] # NoTask

PrepareProviderJob(r) ==
    /\ MayCreatePaidJob(r)
    /\ AdmitsReservation(r)
    /\ reservation' = [reservation EXCEPT ![r] = "RESERVED"]
    /\ job' = [job EXCEPT ![r] = "QUEUED"]
    /\ ledger' = [ledger EXCEPT ![r] = @ \cup {ReservationEntry(r)}]
    /\ run' = [run EXCEPT ![r] =
                 IF @ \in {"VALIDATED", "UNKNOWN", "RECONCILING"} THEN "QUEUED" ELSE @]
    /\ attempt' = [attempt EXCEPT ![r] = "QUEUED"]
    /\ UNCHANGED <<upstream, unconfirmed>>

(***************************************************************************)
(* A worker freezes what it knows of the provider job.  The run projection *)
(* is overwritten whatever non-terminal state it had.                      *)
(***************************************************************************)
ObservedRunState(obs, task) ==
    CASE obs = "UNKNOWN"                    -> "RECONCILING"
      [] obs = "QUEUED" /\ task # NoTask    -> "RUNNING"
      [] OTHER                              -> obs

ObservationAccepted(r, task) ==
    /\ job[r] \in ActiveJobStates
    /\ run[r] \notin Terminal
    /\ attempt[r] \notin Terminal
    /\ task # NoTask => SameTask(r, task)

RecordProviderJobObservation(r, obs, task) ==
    /\ ObservationAccepted(r, task)
    /\ job' = [job EXCEPT ![r] = obs]
    /\ upstream' = [upstream EXCEPT ![r] = IF @ = NoTask THEN task ELSE @]
    /\ attempt' = [attempt EXCEPT ![r] = ObservedRunState(obs, task)]
    /\ run' = [run EXCEPT ![r] = ObservedRunState(obs, task)]
    /\ unconfirmed' = [unconfirmed EXCEPT ![r] = FALSE]
    /\ UNCHANGED <<reservation, ledger>>

(***************************************************************************)
(* CompleteProviderJob: the provider delivered an artifact.                *)
(***************************************************************************)
OverBudget(r, claim) ==
    /\ claim.kind # "UNPRICED"
    /\ claim.kind = "VERIFIED" => claim.micros > Estimate[r]

CompletionOpen(r) ==
    /\ job[r] \in ActiveJobStates
    /\ run[r] \notin Terminal
    /\ attempt[r] \notin Terminal
    /\ reservation[r] \in {"RESERVED", "SETTLED"}

CompleteWithinBudget(r, task, claim) ==
    /\ CompletionOpen(r)
    /\ ~OverBudget(r, claim)
    /\ job' = [job EXCEPT ![r] = "SUCCEEDED"]
    /\ upstream' = [upstream EXCEPT ![r] = task]
    /\ reservation' = [reservation EXCEPT ![r] = "SETTLED"]
    /\ ledger' = [ledger EXCEPT ![r] = @ \cup CompletionEntries(r, claim)]
    /\ attempt' = [attempt EXCEPT ![r] = "SUCCEEDED"]
    /\ run' = [run EXCEPT ![r] = IF @ = "PAUSED" THEN "PAUSED" ELSE "SUCCEEDED"]
    /\ unconfirmed' = [unconfirmed EXCEPT ![r] = run[r] = "PAUSED" /\ @]

\* The charge is recorded and the outcome is FAILED; the caller gets an error.
CompleteOverBudget(r, task, claim) ==
    /\ CompletionOpen(r)
    /\ OverBudget(r, claim)
    /\ job' = [job EXCEPT ![r] = "FAILED"]
    /\ upstream' = [upstream EXCEPT ![r] = task]
    /\ reservation' = [reservation EXCEPT ![r] = "SETTLED"]
    /\ ledger' = [ledger EXCEPT ![r] = @ \cup CompletionEntries(r, claim)]
    /\ attempt' = [attempt EXCEPT ![r] = "FAILED"]
    /\ run' = [run EXCEPT ![r] = "FAILED"]
    /\ unconfirmed' = [unconfirmed EXCEPT ![r] = FALSE]

\* The job already succeeded: an exact replay may still repair the run projection.
ReplayAccepted(r, task, claim) ==
    /\ job[r] = "SUCCEEDED"
    /\ attempt[r] = "SUCCEEDED"
    /\ reservation[r] = "SETTLED"
    /\ upstream[r] = task
    /\ ~OverBudget(r, claim)
    /\ ledger[r] = {ReservationEntry(r)} \cup CompletionEntries(r, claim)
    /\ run[r] \in {"SUCCEEDED", "PAUSED", "RUNNING"}

ReplayCompletion(r, task, claim) ==
    /\ ReplayAccepted(r, task, claim)
    /\ run' = [run EXCEPT ![r] = IF @ = "RUNNING" THEN "SUCCEEDED" ELSE @]
    /\ unconfirmed' = [unconfirmed EXCEPT ![r] = run[r] # "RUNNING" /\ @]
    /\ UNCHANGED <<attempt, paid>>

CompleteProviderJob(r, task, claim) ==
    \/ CompleteWithinBudget(r, task, claim)
    \/ CompleteOverBudget(r, task, claim)
    \/ ReplayCompletion(r, task, claim)

(***************************************************************************)
(* Closing the paid boundary without a product: either the reservation is  *)
(* released because no upstream task can exist, or it is settled by the    *)
(* terminal outcome the provider reported.                                 *)
(***************************************************************************)
\* Mutant: a known upstream task does not stop the release.
ReleaseAcceptedBlindly(r, reason) ==
    reservation[r] = "RELEASED" => Entry(ReleaseName(reason), Estimate[r], TRUE) \in ledger[r]

\* releaseRunBudgetReservation: nothing to release, already closed, or an
\* unknown task whose job is still open.
ReleaseAccepted(r, reason) ==
    CASE reservation[r] = "NONE"     -> TRUE
      [] reservation[r] = "RELEASED" -> Entry(ReleaseName(reason), Estimate[r], TRUE) \in ledger[r]
      [] reservation[r] = "SETTLED"  -> TRUE
      [] OTHER                       -> upstream[r] = NoTask /\ job[r] \in ActiveJobStates

Release(r, reason) ==
    /\ ReleaseAccepted(r, reason)
    /\ IF reservation[r] = "RESERVED"
       THEN /\ job' = [job EXCEPT ![r] = reason]
            /\ reservation' = [reservation EXCEPT ![r] = "RELEASED"]
            /\ ledger' = [ledger EXCEPT ![r] =
                            @ \cup {Entry(ReleaseName(reason), Estimate[r], TRUE)}]
            /\ UNCHANGED upstream
       ELSE UNCHANGED paid

\* The evidence of a settled outcome, as far as the ledger tells claims apart.
SameEvidence(r, claim) ==
    ledger[r] = {ReservationEntry(r)} \cup SettlementEntries(r, claim)

\* settleProviderTerminalBudget.
SettleAccepted(r, outcome, task, claim) ==
    /\ SameTask(r, task)
    /\ \/ reservation[r] = "RESERVED" /\ job[r] \in ActiveJobStates
       \/ reservation[r] = "SETTLED" /\ job[r] = outcome
             /\ upstream[r] = task /\ SameEvidence(r, claim)

Settle(r, outcome, task, claim) ==
    /\ SettleAccepted(r, outcome, task, claim)
    /\ IF reservation[r] = "RESERVED"
       THEN /\ job' = [job EXCEPT ![r] = outcome]
            /\ upstream' = [upstream EXCEPT ![r] = IF task = NoTask THEN @ ELSE task]
            /\ reservation' = [reservation EXCEPT ![r] = "SETTLED"]
            /\ ledger' = [ledger EXCEPT ![r] = @ \cup SettlementEntries(r, claim)]
       ELSE UNCHANGED paid

(***************************************************************************)
(* RecordProviderCancellation.  A reported cancellation result is          *)
(*   [state, absent, task, claim] : absent says that the caller believes   *)
(* no remote task exists.                                                  *)
(***************************************************************************)
CancelResults ==
    [state : {"SUCCEEDED"}, absent : {FALSE}, task : Tasks, claim : Claims]
    \cup [state : {"CANCELLED", "FAILED"}, absent : {FALSE},
          task : Tasks \cup {NoTask}, claim : Claims]
    \cup [state : {"CANCELLED"}, absent : {TRUE}, task : {NoTask},
          claim : {c \in Claims : c.kind = "MISSING"}]
    \cup [state : {"UNKNOWN"}, absent : {FALSE}, task : Tasks \cup {NoTask},
          claim : {c \in Claims : c.kind = "MISSING"}]

\* An unprepared run has no remote task, whatever the provider said.
ClaimsAbsence(r, res) == res.absent \/ (res.state = "UNKNOWN" /\ job[r] = "NONE")

\* Absence cannot be proved once the durable row holds an upstream task.
AbsenceRefuted(r) == reservation[r] = "RESERVED" /\ upstream[r] # NoTask

EffectiveOutcome(r, res) ==
    CASE ClaimsAbsence(r, res) /\ AbsenceRefuted(r)  -> "UNKNOWN"
      [] ClaimsAbsence(r, res) /\ ~AbsenceRefuted(r) -> "CANCELLED"
      [] OTHER                                       -> res.state

\* The completion won the race; only a leftover failure code is cleared.
KeepSucceeded(r) ==
    /\ unconfirmed' = [unconfirmed EXCEPT ![r] = @ /\ run[r] # "SUCCEEDED"]
    /\ UNCHANGED <<run, attempt, paid>>

\* Mutant: the outcome that committed first is not looked at.
ConfirmCancelledLastWins(r, res) ==
    /\ IF ClaimsAbsence(r, res)
       THEN Release(r, "CANCELLED")
       ELSE Settle(r, "CANCELLED", res.task, res.claim)
    /\ run' = [run EXCEPT ![r] = "CANCELLED"]
    /\ attempt' = [attempt EXCEPT ![r] = IF @ \in Terminal THEN @ ELSE "CANCELLED"]
    /\ unconfirmed' = [unconfirmed EXCEPT ![r] = @ /\ run[r] = "CANCELLED"]

ConfirmCancelled(r, res) ==
    IF run[r] \in {"SUCCEEDED", "FAILED"}
    THEN UNCHANGED vars
    ELSE /\ IF ClaimsAbsence(r, res)
            THEN Release(r, "CANCELLED")
            ELSE Settle(r, "CANCELLED", res.task, res.claim)
         /\ run' = [run EXCEPT ![r] = "CANCELLED"]
         /\ attempt' = [attempt EXCEPT ![r] = IF @ \in Terminal THEN @ ELSE "CANCELLED"]
         /\ unconfirmed' = [unconfirmed EXCEPT ![r] = @ /\ run[r] = "CANCELLED"]

ConfirmFailed(r, res) ==
    /\ run[r] \notin {"SUCCEEDED", "CANCELLED"}
    /\ Settle(r, "FAILED", res.task, res.claim)
    /\ run' = [run EXCEPT ![r] = "FAILED"]
    /\ attempt' = [attempt EXCEPT ![r] = IF @ \in {"SUCCEEDED", "CANCELLED"} THEN @ ELSE "FAILED"]
    /\ unconfirmed' = [unconfirmed EXCEPT ![r] = FALSE]

\* Mutant: the provider job takes the state of the run.
RemainUnknownEverywhere(r, reason) ==
    LET state == IF reason = "RECONCILE_HISTORY" THEN "RECONCILING" ELSE "UNKNOWN" IN
    IF run[r] \in Terminal
    THEN UNCHANGED vars
    ELSE /\ job' = [job EXCEPT ![r] = IF @ \in ActiveJobStates THEN state ELSE @]
         /\ attempt' = [attempt EXCEPT ![r] = IF @ \in Terminal THEN @ ELSE state]
         /\ run' = [run EXCEPT ![r] = state]
         /\ unconfirmed' = [unconfirmed EXCEPT ![r] = TRUE]
         /\ UNCHANGED <<upstream, reservation, ledger>>

RemainUnknown(r, reason) ==
    IF run[r] \in Terminal
    THEN UNCHANGED vars
    ELSE /\ job' = [job EXCEPT ![r] = IF @ \in ActiveJobStates THEN "UNKNOWN" ELSE @]
         /\ attempt' = [attempt EXCEPT ![r] = IF @ \in Terminal THEN @ ELSE "UNKNOWN"]
         /\ run' = [run EXCEPT ![r] =
                      IF reason = "RECONCILE_HISTORY" THEN "RECONCILING" ELSE "UNKNOWN"]
         /\ unconfirmed' = [unconfirmed EXCEPT ![r] = TRUE]
         /\ UNCHANGED <<upstream, reservation, ledger>>

CancelReasons == {"WORKFLOW_CANCELLED", "RECONCILE_HISTORY"}

CancellationAccepted(r, res) ==
    LET outcome == EffectiveOutcome(r, res) IN
    CASE outcome = "CANCELLED" ->
           \/ run[r] \in {"SUCCEEDED", "FAILED"}
           \/ IF ClaimsAbsence(r, res) THEN ReleaseAccepted(r, "CANCELLED")
              ELSE SettleAccepted(r, "CANCELLED", res.task, res.claim)
      [] outcome = "FAILED" ->
           /\ run[r] \notin {"SUCCEEDED", "CANCELLED"}
           /\ SettleAccepted(r, "FAILED", res.task, res.claim)
      [] OTHER -> TRUE

RecordProviderCancellation(r, res, reason) ==
    LET outcome == EffectiveOutcome(r, res) IN
    /\ run[r] # "NONE"
    /\ \/ outcome = "SUCCEEDED" /\ KeepSucceeded(r)
       \/ outcome = "CANCELLED" /\ ConfirmCancelled(r, res)
       \/ outcome = "FAILED"    /\ ConfirmFailed(r, res)
       \/ outcome = "UNKNOWN"   /\ RemainUnknown(r, reason)

(***************************************************************************)
(* FinalizeShotRun: the workflow reports that QC and review are over.      *)
(***************************************************************************)
\* Mutant: the workflow's success is taken at its word.
FinalizeAcceptedOnTrust(r, state) ==
    /\ run[r] \in {"FAILED", "CANCELLED"} => state = run[r]
    /\ state = "FAILED" /\ run[r] # "SUCCEEDED" => ReleaseAccepted(r, "FAILED")

FinalizeAccepted(r, state) ==
    /\ run[r] \in {"FAILED", "CANCELLED"} => state = run[r]
    /\ state = "FAILED" /\ run[r] # "SUCCEEDED" => ReleaseAccepted(r, "FAILED")
    /\ state = "SUCCEEDED" /\ run[r] # "SUCCEEDED" => job[r] = "SUCCEEDED"

FinalizeShotRun(r, state) ==
    /\ run[r] # "NONE"
    /\ FinalizeAccepted(r, state)
    /\ CASE run[r] = "SUCCEEDED" -> UNCHANGED vars
         [] run[r] # "SUCCEEDED" /\ state = "SUCCEEDED" ->
              /\ run' = [run EXCEPT ![r] = "SUCCEEDED"]
              /\ unconfirmed' = [unconfirmed EXCEPT ![r] = FALSE]
              /\ UNCHANGED <<attempt, paid>>
         [] run[r] # "SUCCEEDED" /\ state = "FAILED" ->
              /\ Release(r, "FAILED")
              /\ run' = [run EXCEPT ![r] = "FAILED"]
              /\ attempt' = [attempt EXCEPT ![r] =
                               IF run[r] \in Terminal \/ @ \in {"SUCCEEDED", "CANCELLED"}
                               THEN @ ELSE "FAILED"]
              /\ unconfirmed' = [unconfirmed EXCEPT ![r] = FALSE]

----------------------------------------------------------------------------
ControlPlane(r) ==
    \/ CreateGenerationRun(r)
    \/ RequestRunPause(r)
    \/ RequestRunCancellation(r)
    \/ ResumePaused(r)
    \/ RequestRecovery(r)
    \/ MarkRunQueued(r)

Worker(r) ==
    \/ PrepareProviderJob(r)
    \/ \E obs \in ActiveJobStates, task \in Tasks \cup {NoTask} :
          RecordProviderJobObservation(r, obs, task)
    \/ \E task \in Tasks, claim \in Claims : CompleteProviderJob(r, task, claim)
    \/ \E res \in CancelResults, reason \in CancelReasons :
          RecordProviderCancellation(r, res, reason)
    \/ \E state \in {"SUCCEEDED", "FAILED"} : FinalizeShotRun(r, state)

Next == \E r \in Runs : ControlPlane(r) \/ Worker(r)

Spec == Init /\ [][Next]_vars

----------------------------------------------------------------------------
(***************************************************************************)
(* Properties.                                                             *)
(***************************************************************************)

\* Every column holds a value of its CHECK constraint.
TypeOK ==
    /\ run         \in [Runs -> RunStates]
    /\ attempt     \in [Runs -> AttemptStates]
    /\ job         \in [Runs -> JobStates]
    /\ upstream    \in [Runs -> Tasks \cup {NoTask}]
    /\ reservation \in [Runs -> ReservationStates]
    /\ ledger      \in [Runs -> SUBSET [entry : EntryNames, micros : Nat, verified : BOOLEAN]]
    /\ unconfirmed \in [Runs -> BOOLEAN]

(***************************************************************************)
(* The three money tables always tell one story: entries exist exactly for *)
(* the status the reservation has, a held reservation has an open job, a   *)
(* charge and the unused rest add up, a release returns the whole hold and *)
(* never coexists with a known upstream task.  The verify* functions of    *)
(* workflow_ledger.go turn any other combination into a permanent conflict.*)
(***************************************************************************)
MoneyTablesAgree(r) ==
    CASE reservation[r] = "NONE" ->
           job[r] = "NONE" /\ upstream[r] = NoTask /\ ledger[r] = {}
      [] reservation[r] = "RESERVED" ->
           job[r] \in ActiveJobStates /\ ledger[r] = {ReservationEntry(r)}
      [] reservation[r] = "SETTLED" ->
           /\ job[r] \in Terminal
           /\ \E claim \in Claims :
                ledger[r] = {ReservationEntry(r)} \cup CompletionEntries(r, claim)
      [] reservation[r] = "RELEASED" ->
           /\ job[r] \in {"FAILED", "CANCELLED"}
           /\ upstream[r] = NoTask
           /\ ledger[r] = {ReservationEntry(r),
                           Entry(ReleaseName(job[r]), Estimate[r], TRUE)}

LedgerMatchesReservation == \A r \in Runs : MoneyTablesAgree(r)

(***************************************************************************)
(* Runs under one approval never hold or consume more than was approved,   *)
(* except for what a provider billed beyond its own hold.                  *)
(***************************************************************************)
Committed(r) ==
    IF Allocation(r) > Estimate[r] THEN Estimate[r] ELSE Allocation(r)

CommittedWithinApproval == Total([r \in Runs |-> Committed(r)]) <= Approved

(***************************************************************************)
(* A release whose reason is not its run's terminal state makes            *)
(* readCumulativeProviderBudgetAllocation fail for every run of the        *)
(* approval, forever; no history of transactions produces one.             *)
(***************************************************************************)
ApprovalStaysReadable == \A r \in Runs : ReleaseReadable(r)

(***************************************************************************)
(* The run, its attempt and its job agree on the outcome, and a terminal   *)
(* run no longer holds budget (state-and-reliability.md section 8).        *)
(***************************************************************************)
OneOutcome(r) ==
    /\ run[r] = "NONE" => job[r] = "NONE"
    /\ job[r] = "SUCCEEDED" => attempt[r] = "SUCCEEDED"
    /\ run[r] = "SUCCEEDED" => job[r] = "SUCCEEDED"
    /\ job[r] \in {"FAILED", "CANCELLED"} => run[r] = job[r]
    /\ run[r] \in Terminal => reservation[r] # "RESERVED"

OutcomesAgree == \A r \in Runs : OneOutcome(r)

(***************************************************************************)
(* The first committed SUCCEEDED, FAILED or CANCELLED of a run and of its  *)
(* job is final, whichever of completion, cancellation and finalization    *)
(* commits later (flo-102-generation-mainline.md lines 70-72).             *)
(***************************************************************************)
TerminalIsFinal ==
    [][\A r \in Runs : /\ run[r] \in Terminal => run'[r] = run[r]
                       /\ job[r] \in Terminal => job'[r] = job[r]]_vars

(***************************************************************************)
(* Budget held for a task that is known to exist upstream is never handed  *)
(* back, and the durable identity only changes with a completed result.    *)
(***************************************************************************)
KnownTaskStaysCharged ==
    [][\A r \in Runs : upstream[r] # NoTask =>
          /\ reservation'[r] # "RELEASED"
          /\ upstream'[r] = upstream[r] \/ job'[r] \in Terminal]_vars

Budget == INSTANCE BudgetApproval
            WITH hold <- reservation, allocation <- [r \in Runs |-> Allocation(r)]

\* The ledger implements the account of one budget approval.
ImplementsBudgetApproval == Budget!Spec
=============================================================================
