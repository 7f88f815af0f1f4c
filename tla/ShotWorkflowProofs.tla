------------------------- MODULE ShotWorkflowProofs -------------------------
(***************************************************************************)
(* Proofs about ShotWorkflow, for any number of attempts, commands and     *)
(* faults.  Every step of the composed system is a transaction of the      *)
(* ledger or leaves the ledger alone, so that what is proved of RunLedger  *)
(* holds here; what relates the ledger to the adapter's registry and to    *)
(* the provider's task is carried by what each attempt has seen.           *)
(***************************************************************************)
EXTENDS ShotWorkflow, Sequences, TLAPS

LedgerProofs == INSTANCE RunLedgerProofs

----------------------------------------------------------------------------
(***************************************************************************)
(* The assumptions of the ledger hold of one run, and the ledger of the    *)
(* model is the ledger of the proofs, operator by operator.                *)
(***************************************************************************)
LEMMA RunInRuns == Run \in Runs /\ Task \in Tasks /\ NoTask \notin Tasks
BY TaskAssumption DEF Runs, Tasks

LEMMA OneRunIsFinite == LedgerProofs!RunsAssumption
<1>1. <<Run>> \in Seq(Runs) /\ \A r \in Runs : \E n \in 1..Len(<<Run>>) : <<Run>>[n] = r
  BY DEF Runs
<1> QED
  BY <1>1 DEF LedgerProofs!RunsAssumption, LedgerProofs!IsFiniteSet

LEMMA LedgerAssumptions ==
    /\ LedgerProofs!RunsAssumption
    /\ LedgerProofs!ApprovedAssumption
    /\ LedgerProofs!EstimateAssumption
    /\ LedgerProofs!ActualsAssumption
    /\ LedgerProofs!NoTaskAssumption
BY OneRunIsFinite, AmountAssumption, RunInRuns
   DEF LedgerProofs!ApprovedAssumption, LedgerProofs!EstimateAssumption,
       LedgerProofs!ActualsAssumption, LedgerProofs!NoTaskAssumption,
       Approved, Estimate, Actuals

LEMMA SameInit ==
    Ledger!Init <=> LedgerProofs!Init
BY DEF Ledger!Init, LedgerProofs!Init

LEMMA SameInvariant ==
    /\ Ledger!TypeOK <=> LedgerProofs!TypeOK
    /\ Ledger!LedgerMatchesReservation <=> LedgerProofs!LedgerMatchesReservation
    /\ Ledger!OutcomesAgree <=> LedgerProofs!OutcomesAgree
BY DEF Ledger!TypeOK, Ledger!RunStates, Ledger!Terminal, Ledger!AttemptStates,
       Ledger!JobStates, Ledger!ActiveJobStates, Ledger!ReservationStates,
       Ledger!EntryNames, Ledger!LedgerMatchesReservation, Ledger!MoneyTablesAgree,
       Ledger!Claims, Ledger!Entry, Ledger!ReservationEntry, Ledger!ReleaseName,
       Ledger!CompletionEntries, Ledger!Trusted, Ledger!OutcomesAgree,
       Ledger!OneOutcome, LedgerProofs!TypeOK, LedgerProofs!RunStates,
       LedgerProofs!Terminal, LedgerProofs!AttemptStates, LedgerProofs!JobStates,
       LedgerProofs!ActiveJobStates, LedgerProofs!ReservationStates,
       LedgerProofs!EntryNames, LedgerProofs!LedgerMatchesReservation,
       LedgerProofs!MoneyTablesAgree, LedgerProofs!Claims, LedgerProofs!Entry,
       LedgerProofs!ReservationEntry, LedgerProofs!ReleaseName,
       LedgerProofs!CompletionEntries, LedgerProofs!Trusted,
       LedgerProofs!OutcomesAgree, LedgerProofs!OneOutcome

LEMMA SameControlPlane ==
    Ledger!ControlPlane(Run) <=> LedgerProofs!ControlPlane(Run)
BY DEF Ledger!ControlPlane, Ledger!CreateGenerationRun, Ledger!paid,
       Ledger!RequestRunPause, Ledger!Pausable, Ledger!RequestRunCancellation,
       Ledger!Cancellable, Ledger!ResumePaused, Ledger!RequestRecovery,
       Ledger!Recoverable, Ledger!MarkRunQueued, LedgerProofs!ControlPlane,
       LedgerProofs!CreateGenerationRun, LedgerProofs!paid,
       LedgerProofs!RequestRunPause, LedgerProofs!Pausable,
       LedgerProofs!RequestRunCancellation, LedgerProofs!Cancellable,
       LedgerProofs!ResumePaused, LedgerProofs!RequestRecovery,
       LedgerProofs!Recoverable, LedgerProofs!MarkRunQueued

LEMMA SamePrepare ==
    Ledger!PrepareProviderJob(Run) <=> LedgerProofs!PrepareProviderJob(Run)
BY DEF Ledger!PrepareProviderJob, Ledger!ReservationEntry, Ledger!Entry,
       Ledger!AdmitsReservation, Ledger!Allocated, Ledger!Allocation,
       Ledger!TrustedActuals, Ledger!Total, Ledger!SumFunctionOnSet,
       Ledger!FoldFunctionOnSet, Ledger!MapThenFoldSet, Ledger!ReleaseReadable,
       Ledger!MayCreatePaidJob, Ledger!Terminal, LedgerProofs!PrepareProviderJob,
       LedgerProofs!ReservationEntry, LedgerProofs!Entry,
       LedgerProofs!AdmitsReservation, LedgerProofs!Allocated,
       LedgerProofs!Allocation, LedgerProofs!TrustedActuals, LedgerProofs!Total,
       LedgerProofs!SumFunctionOnSet, LedgerProofs!FoldFunctionOnSet,
       LedgerProofs!MapThenFoldSet, LedgerProofs!ReleaseReadable,
       LedgerProofs!MayCreatePaidJob, LedgerProofs!Terminal

LEMMA SameObservation ==
    (\E obs \in Ledger!ActiveJobStates, task \in Tasks \cup {NoTask} :
        Ledger!RecordProviderJobObservation(Run, obs, task))
    <=> (\E obs \in LedgerProofs!ActiveJobStates, task \in Tasks \cup {NoTask} :
            LedgerProofs!RecordProviderJobObservation(Run, obs, task))
BY DEF Ledger!RecordProviderJobObservation, Ledger!ObservedRunState,
       Ledger!ObservationAccepted, Ledger!Terminal, Ledger!ActiveJobStates,
       Ledger!SameTask, LedgerProofs!RecordProviderJobObservation,
       LedgerProofs!ObservedRunState, LedgerProofs!ObservationAccepted,
       LedgerProofs!Terminal, LedgerProofs!ActiveJobStates, LedgerProofs!SameTask

LEMMA SameCompletion ==
    (\E task \in Tasks, claim \in Ledger!Claims : Ledger!CompleteProviderJob(Run, task, claim))
    <=> (\E task \in Tasks, claim \in LedgerProofs!Claims :
            LedgerProofs!CompleteProviderJob(Run, task, claim))
BY DEF Ledger!CompleteProviderJob, Ledger!CompleteWithinBudget,
       Ledger!CompletionEntries, Ledger!Trusted, Ledger!Entry, Ledger!OverBudget,
       Ledger!CompletionOpen, Ledger!Terminal, Ledger!ActiveJobStates,
       Ledger!CompleteOverBudget, Ledger!ReplayCompletion, Ledger!paid,
       Ledger!ReplayAccepted, Ledger!ReservationEntry, Ledger!Claims,
       LedgerProofs!CompleteProviderJob, LedgerProofs!CompleteWithinBudget,
       LedgerProofs!CompletionEntries, LedgerProofs!Trusted, LedgerProofs!Entry,
       LedgerProofs!OverBudget, LedgerProofs!CompletionOpen, LedgerProofs!Terminal,
       LedgerProofs!ActiveJobStates, LedgerProofs!CompleteOverBudget,
       LedgerProofs!ReplayCompletion, LedgerProofs!paid,
       LedgerProofs!ReplayAccepted, LedgerProofs!ReservationEntry,
       LedgerProofs!Claims

LEMMA SameCancellation ==
    (\E res \in Ledger!CancelResults, reason \in Ledger!CancelReasons :
        Ledger!RecordProviderCancellation(Run, res, reason))
    <=> (\E res \in LedgerProofs!CancelResults, reason \in LedgerProofs!CancelReasons :
            LedgerProofs!RecordProviderCancellation(Run, res, reason))
BY DEF Ledger!RecordProviderCancellation, Ledger!EffectiveOutcome,
       Ledger!ClaimsAbsence, Ledger!AbsenceRefuted, Ledger!KeepSucceeded,
       Ledger!paid, Ledger!ConfirmCancelled, Ledger!vars, Ledger!Terminal,
       Ledger!Release, Ledger!Entry, Ledger!ReleaseName, Ledger!ReleaseAccepted,
       Ledger!ActiveJobStates, Ledger!Settle, Ledger!SettlementEntries,
       Ledger!CompletionEntries, Ledger!Trusted, Ledger!SettleAccepted,
       Ledger!SameTask, Ledger!SameEvidence, Ledger!ReservationEntry,
       Ledger!ConfirmFailed, Ledger!RemainUnknown, Ledger!CancelResults,
       Ledger!Claims, Ledger!CancelReasons, LedgerProofs!RecordProviderCancellation,
       LedgerProofs!EffectiveOutcome, LedgerProofs!ClaimsAbsence,
       LedgerProofs!AbsenceRefuted, LedgerProofs!KeepSucceeded, LedgerProofs!paid,
       LedgerProofs!ConfirmCancelled, LedgerProofs!vars, LedgerProofs!Terminal,
       LedgerProofs!Release, LedgerProofs!Entry, LedgerProofs!ReleaseName,
       LedgerProofs!ReleaseAccepted, LedgerProofs!ActiveJobStates,
       LedgerProofs!Settle, LedgerProofs!SettlementEntries,
       LedgerProofs!CompletionEntries, LedgerProofs!Trusted,
       LedgerProofs!SettleAccepted, LedgerProofs!SameTask,
       LedgerProofs!SameEvidence, LedgerProofs!ReservationEntry,
       LedgerProofs!ConfirmFailed, LedgerProofs!RemainUnknown,
       LedgerProofs!CancelResults, LedgerProofs!Claims, LedgerProofs!CancelReasons

LEMMA SameFinalize ==
    (\E state \in {"SUCCEEDED", "FAILED"} : Ledger!FinalizeShotRun(Run, state))
    <=> (\E state \in {"SUCCEEDED", "FAILED"} : LedgerProofs!FinalizeShotRun(Run, state))
BY DEF Ledger!FinalizeShotRun, Ledger!vars, Ledger!paid, Ledger!Terminal,
       Ledger!Release, Ledger!Entry, Ledger!ReleaseName, Ledger!ReleaseAccepted,
       Ledger!ActiveJobStates, Ledger!FinalizeAccepted,
       LedgerProofs!FinalizeShotRun, LedgerProofs!vars, LedgerProofs!paid,
       LedgerProofs!Terminal, LedgerProofs!Release, LedgerProofs!Entry,
       LedgerProofs!ReleaseName, LedgerProofs!ReleaseAccepted,
       LedgerProofs!ActiveJobStates, LedgerProofs!FinalizeAccepted

LEMMA SameWorker ==
    Ledger!Worker(Run) <=> LedgerProofs!Worker(Run)
BY SamePrepare, SameObservation, SameCompletion, SameCancellation, SameFinalize, Zenon
   DEF Ledger!Worker, LedgerProofs!Worker

LedgerInv == Ledger!TypeOK /\ Ledger!LedgerMatchesReservation /\ Ledger!OutcomesAgree

\* What a step of the composed system does to the ledger.
LedgerStep == Ledger!ControlPlane(Run) \/ Ledger!Worker(Run) \/ UNCHANGED ledgerVars

LEMMA SameLedgerInv == LedgerInv <=> LedgerProofs!IInv
BY SameInvariant, Zenon DEF LedgerInv, LedgerProofs!IInv

LEMMA SameLedgerInvNext == LedgerInv' <=> LedgerProofs!IInv'
BY SameLedgerInv, PTL

LEMMA LedgerInit == Init => LedgerInv
BY SameInit, SameLedgerInv, LedgerProofs!InitIInv, LedgerAssumptions DEF Init

LEMMA LedgerInvStep ==
    ASSUME LedgerInv, LedgerStep
    PROVE  LedgerInv'
<1>1. LedgerProofs!IInv
  BY SameLedgerInv
<1>2. [LedgerProofs!Next]_(LedgerProofs!vars)
  <2>1. LedgerProofs!ControlPlane(Run) \/ LedgerProofs!Worker(Run) \/ UNCHANGED ledgerVars
    BY SameControlPlane, SameWorker DEF LedgerStep
  <2> QED
    BY <2>1, RunInRuns DEF LedgerProofs!Next, LedgerProofs!vars, ledgerVars
<1>3. LedgerProofs!IInv'
  BY <1>1, <1>2, LedgerProofs!NextIInv, LedgerAssumptions
<1> QED
  BY <1>3, SameLedgerInvNext

----------------------------------------------------------------------------
(***************************************************************************)
(* The inductive invariant.  The registry's record never claims more than  *)
(* the provider's task bears out, and an answer that an attempt has seen   *)
(* stays true, since a finished task and a committed output stay.  The     *)
(* job row has crossed the paid boundary before an attempt may send the    *)
(* POST and ever after; this is what a second attempt, which finds the     *)
(* row, goes by.                                                           *)
(***************************************************************************)
ContractStates ==
    Terminal \cup {"ABSENT", "UNKNOWN", "REQUIRES_ACTION", "QUEUED", "RUNNING"}
Responses    == [state : ContractStates, task : {NoTask, Task}, artifacts : BOOLEAN]
RemoteStates == {"NONE", "ACTIVE", "SUCCEEDED", "FAILED", "CANCELLED"}
Steps == {"IDLE", "PREPARE", "INTENT", "POST", "GET", "OBSERVE", "POLL", "OBSERVE_POLL",
          "LOST", "COMPLETE", "PREPARED?", "CANCEL", "RACED", "RECORD", "RETURN"}
Attempts == [step : Steps, exec : Executions,
             reason : {"WORKFLOW_CANCELLED", "RECONCILE_HISTORY"}, seen : Responses]

RegistryTyped == adapter \in Responses /\ remote \in RemoteStates
SlotsTyped    == slot \in [Slots -> Attempts]

RegistryTrue ==
    /\ adapter.state = "ABSENT" => remote = "NONE"
    /\ adapter.task = Task => remote # "NONE"
    /\ adapter.state \in Terminal => adapter.task = Task /\ adapter.state = remote
    /\ adapter.artifacts => adapter.state = "SUCCEEDED"

SeenTrue(seen) ==
    /\ seen.state \in Terminal => seen.task = Task /\ seen.state = remote
    /\ seen.artifacts => seen.state = "SUCCEEDED" /\ adapter.artifacts

Crossed == job[Run] \notin {"NONE", "QUEUED"}

StepJustified(a) ==
    /\ a.step = "POST" => Crossed
    /\ a.step \in {"COMPLETE", "RACED"} => a.seen.state = "SUCCEEDED" /\ a.seen.artifacts
    /\ a.step = "RECORD" => a.seen.state \in Terminal \cup {"UNKNOWN", "ABSENT"}

AttemptTrue(w) == SeenTrue(slot[w].seen) /\ StepJustified(slot[w])
AttemptsTrue   == \A w \in Slots : AttemptTrue(w)

PaidCrossed == remote # "NONE" => Crossed
Delivered   == job[Run] = "SUCCEEDED" => remote = "SUCCEEDED" /\ adapter.artifacts

IInv ==
    /\ LedgerInv
    /\ RegistryTyped /\ SlotsTyped
    /\ RegistryTrue
    /\ AttemptsTrue
    /\ PaidCrossed
    /\ SettledOutcomeIsReal
    /\ Delivered

\* The row of the run, as the ledger's own invariant describes it.
RowFacts ==
    /\ job[Run] \in Ledger!JobStates
    /\ reservation[Run] \in Ledger!ReservationStates
    /\ upstream[Run] \in Tasks \cup {NoTask}
    /\ reservation[Run] = "NONE" => job[Run] = "NONE"
    /\ reservation[Run] = "RESERVED" => job[Run] \in Ledger!ActiveJobStates
    /\ reservation[Run] = "SETTLED" => job[Run] \in Terminal
    /\ reservation[Run] = "RELEASED" => job[Run] \in {"FAILED", "CANCELLED"}
    /\ run[Run] = "NONE" => job[Run] = "NONE"
    /\ run[Run] = "SUCCEEDED" => job[Run] = "SUCCEEDED"

LEMMA RowOfLedger ==
    ASSUME LedgerInv
    PROVE  RowFacts
<1>1. /\ job[Run] \in Ledger!JobStates
      /\ reservation[Run] \in Ledger!ReservationStates
      /\ upstream[Run] \in Tasks \cup {NoTask}
  BY RunInRuns DEF LedgerInv, Ledger!TypeOK
<1>2. Ledger!MoneyTablesAgree(Run) /\ Ledger!OneOutcome(Run)
  BY RunInRuns DEF LedgerInv, Ledger!LedgerMatchesReservation, Ledger!OutcomesAgree
<1>3. /\ reservation[Run] = "NONE" => job[Run] = "NONE"
      /\ reservation[Run] = "RESERVED" => job[Run] \in Ledger!ActiveJobStates
      /\ reservation[Run] = "SETTLED" => job[Run] \in Terminal
      /\ reservation[Run] = "RELEASED" => job[Run] \in {"FAILED", "CANCELLED"}
  BY <1>2, Zenon DEF Ledger!MoneyTablesAgree, Ledger!Terminal, Terminal
<1> QED
  BY <1>1, <1>2, <1>3 DEF RowFacts, Ledger!OneOutcome

(***************************************************************************)
(* What the transactions do to the job and its hold.                       *)
(***************************************************************************)
JobKept     == job'[Run] = job[Run] /\ reservation'[Run] = reservation[Run]
JobPrepared == job[Run] = "NONE" /\ job'[Run] = "QUEUED" /\ reservation'[Run] = "RESERVED"
JobObserved == /\ job[Run] \in Ledger!ActiveJobStates
               /\ job'[Run] \in {"UNKNOWN", "RUNNING", "REQUIRES_ACTION"}
               /\ reservation'[Run] = "RESERVED"
JobReleased == /\ job[Run] \in Ledger!ActiveJobStates
               /\ job'[Run] \in {"FAILED", "CANCELLED"} /\ reservation'[Run] = "RELEASED"
JobSettled  == /\ reservation'[Run] = "SETTLED"
               /\ \/ job'[Run] = "SUCCEEDED" /\ remote = "SUCCEEDED" /\ adapter.artifacts
                  \/ job'[Run] = "FAILED" /\ remote \in {"SUCCEEDED", "FAILED"}
                  \/ job'[Run] = "CANCELLED" /\ remote = "CANCELLED"

JobMoves == JobKept \/ JobPrepared \/ JobObserved \/ JobReleased \/ JobSettled

LEMMA CrossedStays ==
    ASSUME IInv, JobMoves
    PROVE  Crossed => Crossed'
BY DEF JobMoves, JobKept, JobPrepared, JobObserved, JobReleased, JobSettled, Crossed

LEMMA LedgerTruthStays ==
    ASSUME IInv, JobMoves, UNCHANGED <<adapter, remote>>
    PROVE  PaidCrossed' /\ SettledOutcomeIsReal' /\ Delivered'
<1>1. PaidCrossed /\ SettledOutcomeIsReal /\ Delivered /\ RowFacts
  BY RowOfLedger DEF IInv
<1>2. CASE JobKept
  BY <1>1, <1>2 DEF JobKept, PaidCrossed, Crossed, SettledOutcomeIsReal, Delivered
<1>3. CASE JobPrepared
  BY <1>1, <1>3 DEF JobPrepared, PaidCrossed, Crossed, SettledOutcomeIsReal, Delivered
<1>4. CASE JobObserved
  BY <1>1, <1>4 DEF JobObserved, PaidCrossed, Crossed, SettledOutcomeIsReal, Delivered
<1>5. CASE JobReleased
  BY <1>1, <1>5 DEF JobReleased, PaidCrossed, Crossed, SettledOutcomeIsReal, Delivered
<1>6. CASE JobSettled
  BY <1>1, <1>6 DEF JobSettled, PaidCrossed, Crossed, SettledOutcomeIsReal, Delivered
<1> QED
  BY <1>2, <1>3, <1>4, <1>5, <1>6 DEF JobMoves

\* A transaction of one attempt or of the control plane: what the attempts know
\* stays true if what the acting one keeps is true.
LEMMA TransactionStep ==
    ASSUME IInv, LedgerStep, JobMoves, UNCHANGED <<adapter, remote>>,
           SlotsTyped', AttemptsTrue'
    PROVE  IInv' /\ LedgerStep
<1>1. LedgerInv'
  BY LedgerInvStep DEF IInv
<1>2. RegistryTyped' /\ RegistryTrue'
  BY DEF IInv, RegistryTyped, RegistryTrue
<1> QED
  BY <1>1, <1>2, LedgerTruthStays DEF IInv

\* A finished task and a committed output stay.
Growth ==
    /\ remote \in Terminal => remote' = remote
    /\ adapter.artifacts => adapter'.artifacts
    /\ Crossed => Crossed'

LEMMA OtherAttemptsStayTrue ==
    ASSUME IInv, Growth, NEW w \in Slots, slot'[w] = slot[w]
    PROVE  AttemptTrue(w)'
<1>1. AttemptTrue(w)
  BY DEF IInv, AttemptsTrue
<1> QED
  BY <1>1 DEF AttemptTrue, SeenTrue, StepJustified, Growth

\* It is enough to look at the attempt that moved.
LEMMA OneAttempt ==
    ASSUME IInv, Growth, NEW w \in Slots,
           slot' = [slot EXCEPT ![w] = slot'[w]], slot'[w] \in Attempts, AttemptTrue(w)'
    PROVE  SlotsTyped' /\ AttemptsTrue'
<1>1. SlotsTyped
  BY DEF IInv
<1>2. SlotsTyped'
  BY <1>1 DEF SlotsTyped
<1>3. ASSUME NEW v \in Slots PROVE AttemptTrue(v)'
  <2>1. CASE v = w
    BY <2>1
  <2>2. CASE v # w
    <3>1. slot'[v] = slot[v]
      BY <1>1, <2>2 DEF SlotsTyped
    <3> QED
      BY <3>1, OtherAttemptsStayTrue
  <2> QED
    BY <2>1, <2>2
<1> QED
  BY <1>2, <1>3 DEF AttemptsTrue

LEMMA AllAttempts ==
    ASSUME IInv, Growth, UNCHANGED slot
    PROVE  SlotsTyped' /\ AttemptsTrue'
BY OtherAttemptsStayTrue DEF IInv, SlotsTyped, AttemptsTrue

LEMMA GrowthOfTransaction ==
    ASSUME IInv, JobMoves, UNCHANGED <<adapter, remote>>
    PROVE  Growth
BY CrossedStays DEF Growth

----------------------------------------------------------------------------
(***************************************************************************)
(* The transactions of the ledger, one by one.                             *)
(***************************************************************************)
LEMMA RowTyped ==
    ASSUME LedgerInv
    PROVE  /\ Run \in DOMAIN job /\ Run \in DOMAIN reservation
           /\ job[Run] \in Ledger!JobStates
BY RunInRuns DEF LedgerInv, Ledger!TypeOK

LEMMA ControlPlaneKeeps ==
    ASSUME Ledger!ControlPlane(Run)
    PROVE  LedgerStep /\ JobMoves
BY DEF LedgerStep, JobMoves, JobKept, Ledger!ControlPlane, Ledger!CreateGenerationRun,
       Ledger!RequestRunPause, Ledger!RequestRunCancellation, Ledger!ResumePaused,
       Ledger!RequestRecovery, Ledger!MarkRunQueued, Ledger!paid

LEMMA IdleLedger ==
    ASSUME UNCHANGED ledgerVars
    PROVE  LedgerStep /\ JobMoves
BY DEF LedgerStep, JobMoves, JobKept, ledgerVars

LEMMA PrepareMoves ==
    ASSUME LedgerInv, Ledger!PrepareProviderJob(Run)
    PROVE  LedgerStep /\ JobMoves
<1>1. LedgerStep
  BY Zenon DEF LedgerStep, Ledger!Worker
<1>2. reservation[Run] = "NONE"
  BY DEF Ledger!PrepareProviderJob, Ledger!MayCreatePaidJob
<1>3. job'[Run] = "QUEUED" /\ reservation'[Run] = "RESERVED"
  BY RowTyped DEF Ledger!PrepareProviderJob
<1>4. JobPrepared
  BY <1>2, <1>3, RowOfLedger DEF JobPrepared, RowFacts
<1> QED
  BY <1>1, <1>4 DEF JobMoves

LEMMA ObservationMoves ==
    ASSUME LedgerInv, NEW obs \in {"UNKNOWN", "RUNNING", "REQUIRES_ACTION"},
           NEW task \in {NoTask, Task}, Ledger!RecordProviderJobObservation(Run, obs, task)
    PROVE  LedgerStep /\ JobObserved /\ JobMoves
<1>1. LedgerStep
  <2>1. obs \in Ledger!ActiveJobStates /\ task \in Tasks \cup {NoTask}
    BY DEF Ledger!ActiveJobStates, Tasks
  <2> QED
    BY <2>1, Zenon DEF LedgerStep, Ledger!Worker
<1>2. job[Run] \in Ledger!ActiveJobStates
  BY DEF Ledger!RecordProviderJobObservation, Ledger!ObservationAccepted
<1>3. job'[Run] = obs /\ reservation' = reservation
  BY RowTyped DEF Ledger!RecordProviderJobObservation
<1>4. reservation[Run] = "RESERVED"
  BY <1>2, RowOfLedger
     DEF RowFacts, Ledger!ReservationStates, Ledger!ActiveJobStates, Terminal
<1> QED
  BY <1>1, <1>2, <1>3, <1>4 DEF JobMoves, JobObserved

LEMMA CompletionMoves ==
    ASSUME LedgerInv, NEW task \in Tasks, NEW claim \in Claims,
           remote = "SUCCEEDED", adapter.artifacts,
           Ledger!CompleteProviderJob(Run, task, claim)
    PROVE  LedgerStep /\ JobMoves
<1>1. LedgerStep
  <2>1. claim \in Ledger!Claims
    BY DEF Claims, Ledger!Claims, Actuals
  <2> QED
    BY <2>1, Zenon DEF LedgerStep, Ledger!Worker
<1>2. CASE Ledger!CompleteWithinBudget(Run, task, claim)
  <2>1. job'[Run] = "SUCCEEDED" /\ reservation'[Run] = "SETTLED"
    BY <1>2, RowTyped DEF Ledger!CompleteWithinBudget
  <2> QED
    BY <1>1, <2>1 DEF JobMoves, JobSettled
<1>3. CASE Ledger!CompleteOverBudget(Run, task, claim)
  <2>1. job'[Run] = "FAILED" /\ reservation'[Run] = "SETTLED"
    BY <1>3, RowTyped DEF Ledger!CompleteOverBudget
  <2> QED
    BY <1>1, <2>1 DEF JobMoves, JobSettled
<1>4. CASE Ledger!ReplayCompletion(Run, task, claim)
  BY <1>1, <1>4 DEF Ledger!ReplayCompletion, Ledger!paid, JobMoves, JobKept
<1> QED
  BY <1>2, <1>3, <1>4 DEF Ledger!CompleteProviderJob

LEMMA ReleaseMoves ==
    ASSUME LedgerInv, NEW reason \in {"FAILED", "CANCELLED"}, Ledger!Release(Run, reason)
    PROVE  JobMoves
<1>1. CASE reservation[Run] = "RESERVED"
  <2>1. job'[Run] = reason /\ reservation'[Run] = "RELEASED"
    BY <1>1, RowTyped DEF Ledger!Release
  <2>2. job[Run] \in Ledger!ActiveJobStates
    BY <1>1, RowOfLedger DEF RowFacts
  <2> QED
    BY <2>1, <2>2 DEF JobMoves, JobReleased
<1>2. CASE reservation[Run] # "RESERVED"
  BY <1>2 DEF Ledger!Release, Ledger!paid, JobMoves, JobKept
<1> QED
  BY <1>1, <1>2

LEMMA SettleMoves ==
    ASSUME LedgerInv, NEW outcome \in {"FAILED", "CANCELLED"}, NEW task, NEW claim,
           remote = outcome, Ledger!Settle(Run, outcome, task, claim)
    PROVE  JobMoves
<1>1. CASE reservation[Run] = "RESERVED"
  <2>1. job'[Run] = outcome /\ reservation'[Run] = "SETTLED"
    BY <1>1, RowTyped DEF Ledger!Settle
  <2> QED
    BY <2>1 DEF JobMoves, JobSettled
<1>2. CASE reservation[Run] # "RESERVED"
  BY <1>2 DEF Ledger!Settle, Ledger!paid, JobMoves, JobKept
<1> QED
  BY <1>1, <1>2

LEMMA ReportedTyped ==
    ASSUME NEW seen \in Responses, seen.state \in Terminal \cup {"UNKNOWN", "ABSENT"},
           SeenTrue(seen)
    PROVE  Reported(seen) \in Ledger!CancelResults
<1>1. NoClaim \in Ledger!Claims /\ NoClaim.kind = "MISSING"
  BY DEF NoClaim, Ledger!Claims
<1>2. NoClaim \in {c \in Ledger!Claims : c.kind = "MISSING"}
  BY <1>1
<1>3. seen.task \in Tasks \cup {NoTask} /\ (seen.state = "SUCCEEDED" => seen.task \in Tasks)
  BY DEF Responses, SeenTrue, Terminal, Tasks
<1>4. CASE seen.state = "ABSENT"
  BY <1>2, <1>4 DEF Reported, Ledger!CancelResults
<1>5. CASE seen.state = "SUCCEEDED"
  BY <1>1, <1>3, <1>5 DEF Reported, Ledger!CancelResults
<1>6. CASE seen.state \in {"CANCELLED", "FAILED"}
  BY <1>1, <1>3, <1>6 DEF Reported, Ledger!CancelResults
<1>7. CASE seen.state = "UNKNOWN"
  BY <1>2, <1>3, <1>7 DEF Reported, Ledger!CancelResults
<1> QED
  BY <1>4, <1>5, <1>6, <1>7 DEF Terminal

\* A cancellation settles only what the provider's own task has become.
LEMMA CancellationMoves ==
    ASSUME LedgerInv, NEW seen \in Responses, NEW reason \in Ledger!CancelReasons,
           seen.state \in Terminal \cup {"UNKNOWN", "ABSENT"}, SeenTrue(seen),
           Ledger!RecordProviderCancellation(Run, Reported(seen), reason)
    PROVE  LedgerStep /\ JobMoves
<1> DEFINE res == Reported(seen)
<1>1. LedgerStep
  BY ReportedTyped, Zenon DEF LedgerStep, Ledger!Worker
<1>2. /\ res.absent <=> seen.state = "ABSENT"
      /\ ~res.absent => res.state = seen.state
  BY DEF Reported
<1> HIDE DEF res
<1>3. PICK outcome : outcome = Ledger!EffectiveOutcome(Run, res)
  OBVIOUS
<1>4. /\ outcome = "CANCELLED" /\ ~Ledger!ClaimsAbsence(Run, res) => remote = "CANCELLED"
      /\ outcome = "FAILED" => remote = "FAILED"
  <2>1. \/ Ledger!ClaimsAbsence(Run, res) /\ outcome \in {"UNKNOWN", "CANCELLED"}
        \/ ~Ledger!ClaimsAbsence(Run, res) /\ outcome = res.state
    BY <1>3 DEF Ledger!EffectiveOutcome
  <2>2. ~Ledger!ClaimsAbsence(Run, res) => res.state = seen.state
    BY <1>2 DEF Ledger!ClaimsAbsence
  <2> QED
    BY <2>1, <2>2 DEF SeenTrue, Terminal
<1>5. \/ outcome = "SUCCEEDED" /\ Ledger!KeepSucceeded(Run)
      \/ outcome = "CANCELLED" /\ Ledger!ConfirmCancelled(Run, res)
      \/ outcome = "FAILED"    /\ Ledger!ConfirmFailed(Run, res)
      \/ outcome = "UNKNOWN"   /\ Ledger!RemainUnknown(Run, reason)
  BY <1>3, Zenon DEF Ledger!RecordProviderCancellation, res
<1>6. CASE Ledger!KeepSucceeded(Run)
  BY <1>1, <1>6 DEF Ledger!KeepSucceeded, Ledger!paid, JobMoves, JobKept
<1>7. CASE outcome = "CANCELLED" /\ Ledger!ConfirmCancelled(Run, res)
  <2>1. \/ UNCHANGED Ledger!vars
        \/ Ledger!Release(Run, "CANCELLED")
        \/ ~Ledger!ClaimsAbsence(Run, res) /\ Ledger!Settle(Run, "CANCELLED", res.task, res.claim)
    BY <1>7, Zenon DEF Ledger!ConfirmCancelled
  <2>2. CASE UNCHANGED Ledger!vars
    BY <1>1, <2>2 DEF Ledger!vars, JobMoves, JobKept
  <2>3. CASE Ledger!Release(Run, "CANCELLED")
    BY <1>1, <2>3, ReleaseMoves
  <2>4. CASE ~Ledger!ClaimsAbsence(Run, res) /\ Ledger!Settle(Run, "CANCELLED", res.task, res.claim)
    <3>1. remote = "CANCELLED"
      BY <1>4, <1>7, <2>4
    <3> QED
      BY <1>1, <2>4, <3>1, SettleMoves
  <2> QED
    BY <2>1, <2>2, <2>3, <2>4
<1>8. CASE outcome = "FAILED" /\ Ledger!ConfirmFailed(Run, res)
  <2>1. Ledger!Settle(Run, "FAILED", res.task, res.claim) /\ remote = "FAILED"
    BY <1>4, <1>8 DEF Ledger!ConfirmFailed
  <2> QED
    BY <1>1, <2>1, SettleMoves
<1>9. CASE Ledger!RemainUnknown(Run, reason)
  <2>1. CASE run[Run] \in Ledger!Terminal
    BY <1>1, <1>9, <2>1 DEF Ledger!RemainUnknown, Ledger!vars, JobMoves, JobKept
  <2>2. CASE run[Run] \notin Ledger!Terminal
    <3>1. /\ job'[Run] = IF job[Run] \in Ledger!ActiveJobStates THEN "UNKNOWN" ELSE job[Run]
          /\ reservation' = reservation
      BY <1>9, <2>2, RowTyped DEF Ledger!RemainUnknown
    <3>2. CASE job[Run] \in Ledger!ActiveJobStates
      <4>1. reservation[Run] = "RESERVED"
        BY <3>2, RowOfLedger
           DEF RowFacts, Ledger!ReservationStates, Ledger!ActiveJobStates, Terminal
      <4> QED
        BY <1>1, <3>1, <3>2, <4>1 DEF JobMoves, JobObserved
    <3>3. CASE job[Run] \notin Ledger!ActiveJobStates
      BY <1>1, <3>1, <3>3 DEF JobMoves, JobKept
    <3> QED
      BY <3>2, <3>3
  <2> QED
    BY <2>1, <2>2
<1> QED
  BY <1>5, <1>6, <1>7, <1>8, <1>9

LEMMA FinalizeMoves ==
    ASSUME LedgerInv, NEW state \in {"SUCCEEDED", "FAILED"}, Ledger!FinalizeShotRun(Run, state)
    PROVE  LedgerStep /\ JobMoves
<1>1. LedgerStep
  BY Zenon DEF LedgerStep, Ledger!Worker
<1>2. \/ UNCHANGED Ledger!paid
      \/ Ledger!Release(Run, "FAILED")
  BY DEF Ledger!FinalizeShotRun, Ledger!vars, Ledger!paid
<1>3. CASE UNCHANGED Ledger!paid
  BY <1>1, <1>3 DEF Ledger!paid, JobMoves, JobKept
<1> QED
  BY <1>1, <1>2, <1>3, ReleaseMoves

----------------------------------------------------------------------------
(***************************************************************************)
(* What an attempt keeps after its step.                                   *)
(***************************************************************************)
LEMMA AbsentTyped ==
    /\ Absent \in Responses /\ Idle \in Attempts
    /\ Response("UNKNOWN", NoTask, FALSE) \in Responses
BY DEF Absent, Idle, Response, Responses, ContractStates, Attempts, Steps, Executions

LEMMA NothingSeen ==
    /\ SeenTrue(Absent)' /\ SeenTrue(Absent)
    /\ SeenTrue(Response("UNKNOWN", NoTask, FALSE))'
BY DEF SeenTrue, Absent, Response, Terminal

LEMMA StepTrue ==
    ASSUME IInv, Growth, NEW w \in Slots, NEW step \in Steps, NEW seen \in Responses,
           Step(w, step, seen), SeenTrue(seen)',
           step = "POST" => Crossed',
           step \in {"COMPLETE", "RACED"} => seen.state = "SUCCEEDED" /\ seen.artifacts,
           step = "RECORD" => seen.state \in Terminal \cup {"UNKNOWN", "ABSENT"}
    PROVE  SlotsTyped' /\ AttemptsTrue'
<1>1. SlotsTyped /\ slot' = [slot EXCEPT ![w].step = step, ![w].seen = seen]
  BY DEF IInv, Step
<1>2. /\ slot' = [slot EXCEPT ![w] = slot'[w]] /\ slot'[w] \in Attempts
      /\ slot'[w].step = step /\ slot'[w].seen = seen
  BY <1>1 DEF SlotsTyped, Attempts
<1>3. AttemptTrue(w)'
  BY <1>2 DEF AttemptTrue, StepJustified
<1> QED
  BY <1>2, <1>3, OneAttempt

LEMMA PlainStepTrue ==
    ASSUME IInv, Growth, NEW w \in Slots,
           NEW step \in {"INTENT", "GET", "POLL", "CANCEL", "RETURN", "RECORD", "LOST"},
           Step(w, step, Absent)
    PROVE  SlotsTyped' /\ AttemptsTrue'
<1>1. Absent.state = "ABSENT" /\ step \in Steps
  BY DEF Absent, Response, Steps
<1> QED
  BY <1>1, AbsentTyped, NothingSeen, StepTrue

LEMMA LostAnswerTrue ==
    ASSUME IInv, Growth, NEW w \in Slots, NEW step \in {"LOST", "RECORD"}, Unanswered(w, step)
    PROVE  SlotsTyped' /\ AttemptsTrue'
<1>1. PICK seen \in Responses : seen = Response("UNKNOWN", NoTask, FALSE)
  BY AbsentTyped
<1>2. Step(w, step, seen) /\ SeenTrue(seen)' /\ seen.state = "UNKNOWN" /\ step \in Steps
  BY <1>1 DEF Unanswered, Step, SeenTrue, Response, Terminal, Steps
<1> QED
  BY <1>2, StepTrue

LEMMA EndTrue ==
    ASSUME IInv, Growth, NEW w \in Slots, slot' = [slot EXCEPT ![w] = Idle]
    PROVE  SlotsTyped' /\ AttemptsTrue'
<1>1. slot'[w] = Idle /\ slot' = [slot EXCEPT ![w] = slot'[w]]
  BY DEF IInv, SlotsTyped
<1>2. AttemptTrue(w)'
  BY <1>1 DEF AttemptTrue, SeenTrue, StepJustified, Idle, Absent, Response, Terminal
<1> QED
  BY <1>1, <1>2, AbsentTyped, OneAttempt

LEMMA EndedTrue ==
    ASSUME IInv, Growth, NEW w \in Slots, Fails(w) \/ Fatal(w) \/ Done(w)
    PROVE  SlotsTyped' /\ AttemptsTrue'
BY EndTrue DEF Fails, Fatal, Done, End

\* What is known of the attempt that acts.
LEMMA ActingAttempt ==
    ASSUME IInv, NEW w \in Slots
    PROVE  /\ slot[w] \in Attempts /\ slot[w].seen \in Responses
           /\ SeenTrue(slot[w].seen) /\ StepJustified(slot[w])
BY DEF IInv, SlotsTyped, Attempts, AttemptsTrue, AttemptTrue

LEMMA SeenStaysTrue ==
    ASSUME NEW seen, SeenTrue(seen), UNCHANGED <<adapter, remote>>
    PROVE  SeenTrue(seen)'
BY DEF SeenTrue

----------------------------------------------------------------------------
(***************************************************************************)
(* The control plane, the workflow and Temporal: the registry and what the *)
(* attempts have seen are not theirs.                                      *)
(***************************************************************************)
LEMMA QuietStep ==
    ASSUME IInv, LedgerStep, JobMoves, UNCHANGED <<adapter, remote, slot>>
    PROVE  IInv' /\ LedgerStep
<1>1. Growth
  BY GrowthOfTransaction
<1>2. SlotsTyped' /\ AttemptsTrue'
  BY <1>1, AllAttempts
<1> QED
  BY <1>2, TransactionStep

LEMMA ControlPlaneStep ==
    ASSUME IInv, ControlPlane
    PROVE  IInv' /\ LedgerStep
<1>1. UNCHANGED <<adapter, remote, slot>>
  BY DEF ControlPlane, CreateGenerationRun, PauseGenerationRun, ResumeGenerationRun,
         CancelGenerationRun, RecoverGenerationRun, Command, StartShot, MarkOperationStarted,
         StartRecovery, Pause, Resume, Cancel, Signal, Send
<1>2. Ledger!ControlPlane(Run) \/ UNCHANGED ledgerVars
  <2>1. CreateGenerationRun => Ledger!CreateGenerationRun(Run)
    BY DEF CreateGenerationRun
  <2>2. /\ PauseGenerationRun => Ledger!RequestRunPause(Run)
        /\ ResumeGenerationRun => Ledger!ResumePaused(Run)
        /\ CancelGenerationRun => Ledger!RequestRunCancellation(Run)
        /\ RecoverGenerationRun => Ledger!RequestRecovery(Run)
    BY Zenon DEF PauseGenerationRun, ResumeGenerationRun, CancelGenerationRun,
       RecoverGenerationRun, Command
  <2>3. MarkOperationStarted => Ledger!MarkRunQueued(Run)
    BY Zenon DEF MarkOperationStarted, Send
  <2>4. StartShot \/ StartRecovery => UNCHANGED ledgerVars
    BY Zenon DEF StartShot, StartRecovery
  <2>5. Pause \/ Resume \/ Cancel => UNCHANGED ledgerVars
    BY Zenon DEF Pause, Resume, Cancel, Signal, Send
  <2> QED
    BY <2>1, <2>2, <2>3, <2>4, <2>5, Zenon DEF ControlPlane, Ledger!ControlPlane
<1> QED
  BY <1>1, <1>2, ControlPlaneKeeps, IdleLedger, QuietStep

LEMMA OrchestratorStep ==
    ASSUME IInv, NEW e \in Executions, Orchestrator(e)
    PROVE  IInv' /\ LedgerStep
<1>1. UNCHANGED <<adapter, remote, slot>>
  BY DEF Orchestrator, ExecuteProvider, ProviderResolved, ReviewCancelled, FinalizeShot,
         CloseWorkflow, Workflow
<1>2. CASE FinalizeShot(e)
  <2>1. \/ Ledger!FinalizeShotRun(Run, "FAILED")
        \/ Ledger!FinalizeShotRun(Run, "SUCCEEDED")
        \/ UNCHANGED ledgerVars
    BY <1>2, Zenon DEF FinalizeShot
  <2>2. LedgerStep /\ JobMoves
    BY <2>1, FinalizeMoves, IdleLedger DEF IInv
  <2> QED
    BY <1>1, <2>2, QuietStep
<1>3. CASE ~FinalizeShot(e)
  <2>1. UNCHANGED ledgerVars
    BY <1>3, Zenon DEF Orchestrator, ExecuteProvider, ProviderResolved, ReviewCancelled,
       CloseWorkflow, Workflow
  <2> QED
    BY <1>1, <2>1, IdleLedger, QuietStep
<1> QED
  BY <1>2, <1>3

LEMMA StartAttemptStep ==
    ASSUME IInv, NEW w \in Slots, NEW e \in Executions, StartAttempt(w, e)
    PROVE  IInv' /\ LedgerStep
<1>1. UNCHANGED <<adapter, remote>> /\ LedgerStep /\ JobMoves
  BY IdleLedger DEF StartAttempt
<1>2. PICK step \in {"PREPARE", "PREPARED?"}, reason \in {"WORKFLOW_CANCELLED", "RECONCILE_HISTORY"} :
        slot' = [slot EXCEPT ![w] = [step |-> step, exec |-> e, reason |-> reason, seen |-> Absent]]
  BY DEF StartAttempt
<1>3. /\ slot'[w] = [step |-> step, exec |-> e, reason |-> reason, seen |-> Absent]
      /\ slot' = [slot EXCEPT ![w] = slot'[w]]
  BY <1>2 DEF IInv, SlotsTyped
<1>4. slot'[w] \in Attempts
  BY <1>3, AbsentTyped DEF Attempts, Steps
<1>5. AttemptTrue(w)'
  BY <1>3, NothingSeen DEF AttemptTrue, StepJustified
<1>6. SlotsTyped' /\ AttemptsTrue'
  BY <1>1, <1>3, <1>4, <1>5, OneAttempt, GrowthOfTransaction
<1> QED
  BY <1>1, <1>6, TransactionStep

LEMMA AttemptEndsStep ==
    ASSUME IInv, NEW w \in Slots, TimeOut(w) \/ Die(w) \/ Interrupt(w) \/ StepFails(w)
    PROVE  IInv' /\ LedgerStep
<1>1. UNCHANGED <<adapter, remote>> /\ UNCHANGED ledgerVars
  BY DEF TimeOut, Die, Interrupt, StepFails
<1>2. LedgerStep /\ JobMoves /\ Growth
  BY <1>1, IdleLedger, GrowthOfTransaction
<1>3. UNCHANGED slot \/ slot' = [slot EXCEPT ![w] = Idle]
  BY DEF TimeOut, Die, Interrupt, StepFails, Fails, End
<1>4. SlotsTyped' /\ AttemptsTrue'
  BY <1>2, <1>3, AllAttempts, EndTrue
<1> QED
  BY <1>1, <1>2, <1>4, TransactionStep

----------------------------------------------------------------------------
(***************************************************************************)
(* Requests to the registry, and the provider's own progress.              *)
(***************************************************************************)
\* The registry stays true, nothing finished is taken back, and a task appears
\* only behind the paid boundary.
RegistryStep ==
    /\ RegistryTyped' /\ RegistryTrue'
    /\ remote \in Terminal => remote' = remote
    /\ adapter.artifacts => adapter'.artifacts
    /\ remote' # "NONE" => remote # "NONE" \/ Crossed

LEMMA RequestGrowth ==
    ASSUME IInv, UNCHANGED ledgerVars, RegistryStep
    PROVE  Growth
BY DEF RegistryStep, Growth, Crossed, ledgerVars

LEMMA RequestStep ==
    ASSUME IInv, UNCHANGED ledgerVars, RegistryStep, SlotsTyped', AttemptsTrue'
    PROVE  IInv' /\ LedgerStep
<1>1. LedgerInv'
  BY IdleLedger, LedgerInvStep DEF IInv
<1>2. UNCHANGED <<job, reservation>>
  BY DEF ledgerVars
<1>3. RowFacts
  BY RowOfLedger DEF IInv
<1>4. PaidCrossed'
  BY <1>2 DEF IInv, PaidCrossed, RegistryStep, Crossed
<1>5. SettledOutcomeIsReal'
  BY <1>2, <1>3 DEF IInv, SettledOutcomeIsReal, RegistryStep, RowFacts, Terminal
<1>6. Delivered'
  BY <1>2 DEF IInv, Delivered, RegistryStep, Terminal
<1> QED
  BY <1>1, <1>4, <1>5, <1>6, IdleLedger DEF IInv, RegistryStep

LEMMA UntouchedRegistry ==
    ASSUME IInv, UNCHANGED <<adapter, remote>>
    PROVE  RegistryStep
BY DEF IInv, RegistryStep, RegistryTyped, RegistryTrue

LEMMA SubmitRegistry ==
    ASSUME IInv, Crossed, RegistrySubmit \/ RegistrySubmitUnclear
    PROVE  RegistryStep
<1>1. CASE adapter.state # "ABSENT"
  BY <1>1, UntouchedRegistry DEF RegistrySubmit, RegistrySubmitUnclear
<1>2. CASE adapter.state = "ABSENT"
  <2>1. remote = "NONE" /\ ~adapter.artifacts
    BY <1>2 DEF IInv, RegistryTrue
  <2>2. CASE RegistrySubmit
    <3>1. adapter' = Response("QUEUED", Task, FALSE) /\ remote' = "ACTIVE"
      BY <1>2, <2>2 DEF RegistrySubmit
    <3> QED
      BY <2>1, <3>1 DEF RegistryStep, RegistryTyped, RegistryTrue, Response, Responses,
         ContractStates, RemoteStates, Terminal
  <2>3. CASE RegistrySubmitUnclear
    <3>1. PICK state \in {"UNKNOWN", "REQUIRES_ACTION"} :
             adapter' = Response(state, NoTask, FALSE) /\ remote' \in {"NONE", "ACTIVE"}
      BY <2>3 DEF RegistrySubmitUnclear
    <3> QED
      BY <2>1, <3>1, TaskAssumption DEF RegistryStep, RegistryTyped, RegistryTrue, Response,
         Responses, ContractStates, RemoteStates, Terminal
  <2> QED
    BY <2>2, <2>3
<1> QED
  BY <1>1, <1>2

LEMMA GetRegistry ==
    ASSUME IInv, adapter.state # "ABSENT", RegistryGet
    PROVE  RegistryStep
<1>1. RegistryTyped /\ RegistryTrue /\ UNCHANGED remote
  BY DEF IInv, RegistryGet
<1>2. CASE Settled(adapter)
  BY <1>1, <1>2, UntouchedRegistry DEF RegistryGet
<1>3. CASE ~Settled(adapter) /\ adapter.task = NoTask
  <2>1. adapter' = [adapter EXCEPT !.state = "REQUIRES_ACTION"]
    BY <1>3 DEF RegistryGet
  <2>2. adapter.state \notin Terminal /\ ~adapter.artifacts
    BY <1>1, <1>3, TaskAssumption DEF RegistryTrue, Terminal
  <2>3. /\ adapter'.state = "REQUIRES_ACTION" /\ adapter'.task = NoTask
        /\ adapter'.artifacts = adapter.artifacts /\ adapter' \in Responses
    BY <1>1, <1>3, <2>1 DEF RegistryTyped, Responses, ContractStates
  <2> QED
    BY <1>1, <2>2, <2>3, TaskAssumption DEF RegistryStep, RegistryTyped, RegistryTrue, Terminal
<1>4. CASE ~Settled(adapter) /\ adapter.task # NoTask
  <2>1. adapter' = [adapter EXCEPT !.state = IF remote = "ACTIVE" THEN "RUNNING" ELSE remote,
                                   !.artifacts = (remote = "SUCCEEDED")]
    BY <1>4, Zenon DEF RegistryGet
  <2>2. adapter.task = Task /\ remote # "NONE" /\ ~adapter.artifacts
    BY <1>1, <1>4 DEF RegistryTyped, Responses, RegistryTrue, Settled, Terminal
  <2>3. /\ adapter'.state = IF remote = "ACTIVE" THEN "RUNNING" ELSE remote
        /\ adapter'.task = Task
    BY <1>1, <2>1, <2>2 DEF RegistryTyped, Responses
  <2>4. adapter'.artifacts = (remote = "SUCCEEDED")
    BY <1>1, <2>1 DEF RegistryTyped, Responses
  <2>5. adapter' \in Responses
    <3>1. (IF remote = "ACTIVE" THEN "RUNNING" ELSE remote) \in ContractStates
      BY <1>1, <2>2 DEF RegistryTyped, RemoteStates, ContractStates, Terminal
    <3> QED
      BY <1>1, <2>1, <3>1 DEF RegistryTyped, Responses
  <2> QED
    BY <1>1, <2>2, <2>3, <2>4, <2>5 DEF RegistryStep, RegistryTyped, RegistryTrue,
       RemoteStates, Terminal
<1> QED
  BY <1>2, <1>3, <1>4

LEMMA CancelRegistry ==
    ASSUME IInv, adapter.state # "ABSENT", RegistryCancel
    PROVE  RegistryStep
<1>1. RegistryTyped /\ RegistryTrue
  BY DEF IInv
<1>2. CASE adapter.state \in Terminal \/ adapter.task = NoTask
  BY <1>2, UntouchedRegistry DEF RegistryCancel
<1>3. CASE ~(adapter.state \in Terminal \/ adapter.task = NoTask)
  <2>1. adapter.task = Task /\ remote # "NONE" /\ ~adapter.artifacts
    BY <1>1, <1>3 DEF RegistryTyped, Responses, RegistryTrue, Terminal
  <2>2. \/ remote = "ACTIVE" /\ remote' = "CANCELLED"
             /\ adapter' = [adapter EXCEPT !.state = "CANCELLED"]
        \/ /\ adapter' = [adapter EXCEPT !.state = IF remote = "ACTIVE" THEN "RUNNING" ELSE remote]
           /\ UNCHANGED remote
    BY <1>3, Zenon DEF RegistryCancel
  <2>3. PICK state \in {"CANCELLED", "RUNNING", "SUCCEEDED", "FAILED"} :
          /\ adapter' = [adapter EXCEPT !.state = state]
          /\ state # "RUNNING" => remote' = state
          /\ state = "RUNNING" => remote' = remote
          /\ remote' \in {remote, state} /\ (remote \in Terminal => remote' = remote)
    BY <1>1, <2>1, <2>2 DEF RegistryTyped, RemoteStates, Terminal
  <2>4. /\ adapter'.state = state /\ adapter'.task = Task
        /\ adapter'.artifacts = adapter.artifacts /\ adapter' \in Responses
    BY <1>1, <2>1, <2>3 DEF RegistryTyped, Responses, ContractStates, Terminal
  <2> QED
    BY <1>1, <2>1, <2>3, <2>4 DEF RegistryStep, RegistryTyped, RegistryTrue, RemoteStates, Terminal
<1> QED
  BY <1>2, <1>3

LEMMA ProviderStep ==
    ASSUME IInv, RemoteFinishes
    PROVE  IInv' /\ LedgerStep
<1>1. UNCHANGED ledgerVars /\ UNCHANGED slot
  BY DEF RemoteFinishes
<1>2. RegistryStep
  BY DEF RemoteFinishes, IInv, RegistryStep, RegistryTyped, RegistryTrue, RemoteStates, Terminal
<1> QED
  BY <1>1, <1>2, RequestGrowth, AllAttempts, RequestStep

\* The answer of a true registry is true.
LEMMA AnswerTrue ==
    ASSUME IInv, RegistryStep, UNCHANGED ledgerVars, NEW w \in Slots,
           NEW step \in {"OBSERVE", "OBSERVE_POLL"}, Answered(w, step, adapter')
    PROVE  SlotsTyped' /\ AttemptsTrue'
<1>1. PICK seen : seen = adapter'
  OBVIOUS
<1>2. seen \in Responses /\ SeenTrue(seen)' /\ step \in Steps
  BY <1>1 DEF RegistryStep, RegistryTyped, RegistryTrue, SeenTrue, Steps
<1>3. Step(w, step, seen)
  BY <1>1 DEF Answered, Step
<1> QED
  BY <1>2, <1>3, RequestGrowth, StepTrue

LEMMA SubmitStep ==
    ASSUME IInv, NEW w \in Slots, Submit(w)
    PROVE  IInv' /\ LedgerStep
<1>1. UNCHANGED ledgerVars /\ Crossed
  BY ActingAttempt DEF Submit, Request, StepJustified
<1>2. RegistryStep
  <2>1. RegistrySubmit \/ RegistrySubmitUnclear \/ UNCHANGED <<adapter, remote>>
    BY Zenon DEF Submit
  <2> QED
    BY <1>1, <2>1, SubmitRegistry, UntouchedRegistry
<1>3. \/ Answered(w, "OBSERVE", adapter') \/ Unanswered(w, "LOST")
      \/ Fails(w) \/ Fatal(w)
  BY Zenon DEF Submit
<1>4. SlotsTyped' /\ AttemptsTrue'
  BY <1>1, <1>2, <1>3, RequestGrowth, AnswerTrue, LostAnswerTrue, EndedTrue
<1> QED
  BY <1>1, <1>2, <1>4, RequestStep

LEMMA GetStep ==
    ASSUME IInv, NEW w \in Slots, Reconcile(w) \/ Poll(w)
    PROVE  IInv' /\ LedgerStep
<1>1. PICK step \in {"GET", "POLL"}, answer \in {"OBSERVE", "OBSERVE_POLL"} :
        Get(w, step, answer)
  BY Zenon DEF Reconcile, Poll
<1>2. UNCHANGED ledgerVars
  BY <1>1 DEF Get, Request
<1>3. RegistryStep
  <2>1. (adapter.state # "ABSENT" /\ RegistryGet) \/ UNCHANGED <<adapter, remote>>
    BY <1>1, Zenon DEF Get
  <2> QED
    BY <2>1, GetRegistry, UntouchedRegistry
<1>4. \/ Answered(w, answer, adapter') \/ Unanswered(w, "LOST") \/ Answered(w, "LOST", Absent)
  BY <1>1, Zenon DEF Get
<1>5. Answered(w, "LOST", Absent) => Step(w, "LOST", Absent)
  BY DEF Answered
<1>6. SlotsTyped' /\ AttemptsTrue'
  BY <1>2, <1>3, <1>4, <1>5, RequestGrowth, AnswerTrue, LostAnswerTrue, PlainStepTrue
<1> QED
  BY <1>2, <1>3, <1>6, RequestStep

LEMMA CancelRemoteStep ==
    ASSUME IInv, NEW w \in Slots, CancelRemote(w)
    PROVE  IInv' /\ LedgerStep
<1>1. UNCHANGED ledgerVars
  BY DEF CancelRemote, Request
<1>2. RegistryStep
  <2>1. (adapter.state # "ABSENT" /\ RegistryCancel) \/ UNCHANGED <<adapter, remote>>
    BY Zenon DEF CancelRemote
  <2> QED
    BY <2>1, CancelRegistry, UntouchedRegistry
<1>3. PICK rec : rec = adapter'
  OBVIOUS
<1>4. PICK result : result = CancelResult(rec)
  OBVIOUS
<1>5. /\ result \in Responses /\ SeenTrue(result)'
      /\ result.state \in Terminal \cup {"UNKNOWN"}
      /\ result.state = "SUCCEEDED" => result.artifacts
  <2>1. rec \in Responses /\ SeenTrue(rec)'
    BY <1>2, <1>3 DEF RegistryStep, RegistryTyped, RegistryTrue, SeenTrue
  <2>2. CASE result = rec /\ (\/ rec.state \in {"CANCELLED", "FAILED"}
                              \/ rec.state = "SUCCEEDED" /\ rec.artifacts)
    BY <2>1, <2>2 DEF Terminal
  <2>3. CASE result = Response("UNKNOWN", rec.task, FALSE)
    BY <2>1, <2>3 DEF Response, Responses, ContractStates, SeenTrue, Terminal
  <2> QED
    BY <1>4, <2>2, <2>3 DEF CancelResult
<1>6. \/ Step(w, IF result.state = "SUCCEEDED" THEN "RACED" ELSE "RECORD", result)
      \/ Unanswered(w, "RECORD")
      \/ Step(w, "RECORD", Absent)
  BY <1>3, <1>4 DEF CancelRemote, Answered, Unanswered, Step
<1>7. CASE Step(w, IF result.state = "SUCCEEDED" THEN "RACED" ELSE "RECORD", result)
  <2>1. CASE result.state = "SUCCEEDED"
    <3>1. Step(w, "RACED", result)
      BY <1>7, <2>1
    <3> QED
      BY <1>1, <1>2, <1>5, <2>1, <3>1, RequestGrowth, StepTrue, RequestStep DEF Steps
  <2>2. CASE result.state # "SUCCEEDED"
    <3>1. Step(w, "RECORD", result)
      BY <1>7, <2>2
    <3> QED
      BY <1>1, <1>2, <1>5, <3>1, RequestGrowth, StepTrue, RequestStep DEF Steps
  <2> QED
    BY <2>1, <2>2
<1>8. CASE Unanswered(w, "RECORD")
  BY <1>1, <1>2, <1>8, RequestGrowth, LostAnswerTrue, RequestStep
<1>9. CASE Step(w, "RECORD", Absent)
  BY <1>1, <1>2, <1>9, RequestGrowth, PlainStepTrue, RequestStep
<1> QED
  BY <1>6, <1>7, <1>8, <1>9

----------------------------------------------------------------------------
(***************************************************************************)
(* The transactions of the two activities.                                 *)
(***************************************************************************)
LEMMA WorkStep ==
    ASSUME IInv, LedgerStep, JobMoves, UNCHANGED <<adapter, remote>>, NEW w \in Slots,
           \/ Fails(w) \/ Fatal(w) \/ Done(w)
           \/ \E step \in {"INTENT", "GET", "POLL", "CANCEL", "RETURN", "RECORD"} :
                 Step(w, step, Absent)
    PROVE  IInv' /\ LedgerStep
<1>1. Growth
  BY GrowthOfTransaction
<1>2. SlotsTyped' /\ AttemptsTrue'
  BY <1>1, EndedTrue, PlainStepTrue
<1> QED
  BY <1>2, TransactionStep

LEMMA PrepareStep ==
    ASSUME IInv, NEW w \in Slots, PrepareProviderJob(w)
    PROVE  IInv' /\ LedgerStep
<1>1. UNCHANGED <<adapter, remote>>
  BY DEF PrepareProviderJob, Transaction
<1>2. /\ Ledger!PrepareProviderJob(Run) \/ UNCHANGED ledgerVars
      /\ Fatal(w) \/ \E step \in {"INTENT", "GET"} : Step(w, step, Absent)
  BY DEF PrepareProviderJob
<1>3. LedgerStep /\ JobMoves
  BY <1>2, PrepareMoves, IdleLedger DEF IInv
<1> QED
  BY <1>1, <1>2, <1>3, WorkStep

LEMMA FreezeStep ==
    ASSUME IInv, NEW w \in Slots, FreezeIntent(w)
    PROVE  IInv' /\ LedgerStep
<1>1. UNCHANGED <<adapter, remote>>
  BY DEF FreezeIntent, Transaction
<1>2. \/ Ledger!RecordProviderJobObservation(Run, "UNKNOWN", NoTask) /\ Step(w, "POST", Absent)
      \/ job[Run] = "SUCCEEDED" /\ Step(w, "POST", Absent) /\ UNCHANGED ledgerVars
      \/ Fatal(w) /\ UNCHANGED ledgerVars
  BY Zenon DEF FreezeIntent, Observe
<1>3. CASE /\ Step(w, "POST", Absent)
           /\ \/ Ledger!RecordProviderJobObservation(Run, "UNKNOWN", NoTask)
              \/ job[Run] = "SUCCEEDED" /\ UNCHANGED ledgerVars
  <2>1. LedgerStep /\ JobMoves /\ Crossed'
    <3>1. CASE Ledger!RecordProviderJobObservation(Run, "UNKNOWN", NoTask)
      BY <3>1, ObservationMoves DEF IInv, JobObserved, Crossed
    <3>2. CASE job[Run] = "SUCCEEDED" /\ UNCHANGED ledgerVars
      BY <3>2, IdleLedger DEF ledgerVars, Crossed
    <3> QED
      BY <1>3, <3>1, <3>2
  <2>2. Growth
    BY <1>1, <2>1, GrowthOfTransaction
  <2>3. SlotsTyped' /\ AttemptsTrue'
    BY <1>3, <2>1, <2>2, AbsentTyped, NothingSeen, StepTrue DEF Steps
  <2> QED
    BY <1>1, <2>1, <2>3, TransactionStep
<1>4. CASE Fatal(w) /\ UNCHANGED ledgerVars
  BY <1>1, <1>4, IdleLedger, WorkStep
<1> QED
  BY <1>2, <1>3, <1>4

\* Every observation of a worker freezes a state behind the paid boundary.
LEMMA ObserveMoves ==
    ASSUME LedgerInv, NEW state \in {"UNKNOWN", "RUNNING", "REQUIRES_ACTION"},
           NEW task \in {NoTask, Task},
           Ledger!RecordProviderJobObservation(Run, state, task) \/ UNCHANGED ledgerVars
    PROVE  LedgerStep /\ JobMoves
BY ObservationMoves, IdleLedger

LEMMA ObservationStep ==
    ASSUME IInv, NEW w \in Slots, RecordObservation(w)
    PROVE  IInv' /\ LedgerStep
<1>1. UNCHANGED <<adapter, remote>>
  BY DEF RecordObservation, Transaction
<1>2. PICK seen \in Responses : seen = slot[w].seen
  BY ActingAttempt
<1>3. PICK state : state = ProviderObservation(seen.state)
  OBVIOUS
<1>4. /\ state \in {"UNKNOWN", "RUNNING", "REQUIRES_ACTION"} /\ seen.task \in {NoTask, Task}
      /\ SeenTrue(seen) /\ SeenTrue(seen)'
  <2>1. state \in {"UNKNOWN", "RUNNING", "REQUIRES_ACTION"}
    BY <1>3 DEF ProviderObservation
  <2>2. SeenTrue(seen)
    BY <1>2, ActingAttempt DEF SeenTrue
  <2> QED
    BY <1>1, <2>1, <2>2, SeenStaysTrue DEF Responses
<1>5. /\ Ledger!RecordProviderJobObservation(Run, state, seen.task) \/ UNCHANGED ledgerVars
      /\ \/ Fails(w) \/ Fatal(w)
         \/ Step(w, "POLL", Absent)
         \/ seen.state = "SUCCEEDED" /\ seen.artifacts /\ Step(w, "COMPLETE", seen)
  BY <1>2, <1>3, Zenon DEF RecordObservation, Observe
<1>6. LedgerStep /\ JobMoves
  BY <1>4, <1>5, ObserveMoves DEF IInv
<1>7. CASE Fails(w) \/ Fatal(w) \/ Step(w, "POLL", Absent)
  BY <1>1, <1>6, <1>7, WorkStep
<1>8. CASE seen.state = "SUCCEEDED" /\ seen.artifacts /\ Step(w, "COMPLETE", seen)
  <2>1. Growth
    BY <1>1, <1>6, GrowthOfTransaction
  <2>2. SlotsTyped' /\ AttemptsTrue'
    BY <1>4, <1>8, <2>1, StepTrue DEF Steps
  <2> QED
    BY <1>1, <1>6, <2>2, TransactionStep
<1> QED
  BY <1>5, <1>7, <1>8

LEMMA LostAnswerStep ==
    ASSUME IInv, NEW w \in Slots, RecordLostAnswer(w)
    PROVE  IInv' /\ LedgerStep
<1>1. UNCHANGED <<adapter, remote>>
  BY DEF RecordLostAnswer, Transaction
<1>2. /\ Ledger!RecordProviderJobObservation(Run, "UNKNOWN", NoTask) \/ UNCHANGED ledgerVars
      /\ Fails(w) \/ Fatal(w)
  BY Zenon DEF RecordLostAnswer, Observe
<1>3. LedgerStep /\ JobMoves
  BY <1>2, ObserveMoves DEF IInv
<1> QED
  BY <1>1, <1>2, <1>3, WorkStep

\* A completion is only tried with an answer that names the delivered task.
LEMMA DeliveredAnswer ==
    ASSUME IInv, NEW w \in Slots, slot[w].step \in {"COMPLETE", "RACED"}
    PROVE  /\ slot[w].seen.task \in Tasks /\ slot[w].seen.state = "SUCCEEDED"
           /\ remote = "SUCCEEDED" /\ adapter.artifacts
BY ActingAttempt DEF StepJustified, SeenTrue, Terminal, Tasks

LEMMA CompletionStep ==
    ASSUME IInv, NEW w \in Slots, CompleteProviderJob(w)
    PROVE  IInv' /\ LedgerStep
<1>1. UNCHANGED <<adapter, remote>> /\ slot[w].step = "COMPLETE"
  BY DEF CompleteProviderJob, Transaction
<1>2. PICK task \in Tasks : task = slot[w].seen.task
  BY <1>1, DeliveredAnswer
<1>3. PICK claim \in Claims :
        /\ Ledger!CompleteProviderJob(Run, task, claim) \/ UNCHANGED ledgerVars
        /\ Fatal(w) \/ Step(w, "RETURN", Absent)
  BY <1>2, Zenon DEF CompleteProviderJob, Ledger!CompleteProviderJob
<1>4. LedgerStep /\ JobMoves
  BY <1>1, <1>3, DeliveredAnswer, CompletionMoves, IdleLedger DEF IInv
<1> QED
  BY <1>1, <1>3, <1>4, WorkStep

LEMMA RacedStep ==
    ASSUME IInv, NEW w \in Slots, CompleteRaced(w)
    PROVE  IInv' /\ LedgerStep
<1>1. UNCHANGED <<adapter, remote>> /\ slot[w].step = "RACED"
  BY DEF CompleteRaced, Transaction
<1>2. PICK seen \in Responses : seen = slot[w].seen
  BY ActingAttempt
<1>3. /\ seen.task \in Tasks /\ seen.state = "SUCCEEDED" /\ SeenTrue(seen)'
      /\ remote = "SUCCEEDED" /\ adapter.artifacts
  <2>1. SeenTrue(seen)
    BY <1>2, ActingAttempt DEF SeenTrue
  <2> QED
    BY <1>1, <1>2, <2>1, DeliveredAnswer, SeenStaysTrue
<1>4. PICK claim \in Claims :
        /\ Ledger!CompleteProviderJob(Run, seen.task, claim) \/ UNCHANGED ledgerVars
        /\ Fails(w) \/ Step(w, "RECORD", seen)
  BY <1>2, Zenon DEF CompleteRaced, Ledger!CompleteProviderJob
<1>5. LedgerStep /\ JobMoves
  BY <1>3, <1>4, CompletionMoves, IdleLedger DEF IInv
<1>6. CASE Fails(w)
  BY <1>1, <1>5, <1>6, WorkStep
<1>7. CASE Step(w, "RECORD", seen)
  <2>1. Growth
    BY <1>1, <1>5, GrowthOfTransaction
  <2>2. SlotsTyped' /\ AttemptsTrue'
    BY <1>3, <1>7, <2>1, StepTrue DEF Steps, Terminal
  <2> QED
    BY <1>1, <1>5, <2>2, TransactionStep
<1> QED
  BY <1>4, <1>6, <1>7

LEMMA RecordStep ==
    ASSUME IInv, NEW w \in Slots, RecordCancellation(w)
    PROVE  IInv' /\ LedgerStep
<1>1. UNCHANGED <<adapter, remote>> /\ slot[w].step = "RECORD"
  BY DEF RecordCancellation, Transaction
<1>2. PICK seen \in Responses, reason \in Ledger!CancelReasons :
        seen = slot[w].seen /\ reason = slot[w].reason
  BY ActingAttempt DEF Attempts, Ledger!CancelReasons
<1>3. SeenTrue(seen) /\ seen.state \in Terminal \cup {"UNKNOWN", "ABSENT"}
  BY <1>1, <1>2, ActingAttempt DEF StepJustified, SeenTrue
<1>4. /\ \/ Ledger!RecordProviderCancellation(Run, Reported(seen), reason)
         \/ UNCHANGED ledgerVars
      /\ Fails(w) \/ Fatal(w) \/ Step(w, "RETURN", Absent)
  BY <1>2, Zenon DEF RecordCancellation
<1>5. LedgerStep /\ JobMoves
  BY <1>3, <1>4, CancellationMoves, IdleLedger DEF IInv
<1> QED
  BY <1>1, <1>4, <1>5, WorkStep

LEMMA WorkerStep ==
    ASSUME IInv, NEW w \in Slots, Work(w)
    PROVE  IInv' /\ LedgerStep
<1>1. CASE ProviderJobPrepared(w)
  <2>1. /\ UNCHANGED <<adapter, remote>> /\ UNCHANGED ledgerVars
        /\ \E step \in {"RECORD", "CANCEL"} : Step(w, step, Absent)
    BY <1>1 DEF ProviderJobPrepared, Transaction
  <2> QED
    BY <2>1, IdleLedger, WorkStep
<1>2. CASE ReturnResult(w)
  <2>1. UNCHANGED <<adapter, remote>> /\ UNCHANGED ledgerVars /\ Done(w)
    BY <1>2 DEF ReturnResult, Transaction
  <2> QED
    BY <2>1, IdleLedger, WorkStep
<1> QED
  BY <1>1, <1>2, PrepareStep, FreezeStep, SubmitStep, GetStep, ObservationStep,
     LostAnswerStep, CompletionStep, CancelRemoteStep, RacedStep, RecordStep DEF Work

----------------------------------------------------------------------------
LEMMA InitIInv == Init => IInv
<1> SUFFICES ASSUME Init PROVE IInv
  OBVIOUS
<1>1. LedgerInv
  BY LedgerInit
<1>2. job[Run] = "NONE" /\ reservation[Run] = "NONE"
  BY RunInRuns DEF Init, Ledger!Init
<1>3. adapter = Absent /\ remote = "NONE" /\ \A w \in Slots : slot[w] = Idle
  BY DEF Init
<1>4. RegistryTyped /\ SlotsTyped
  BY <1>3, AbsentTyped DEF Init, RegistryTyped, SlotsTyped, RemoteStates
<1>5. RegistryTrue
  BY <1>3, TaskAssumption DEF RegistryTrue, Absent, Response, Terminal
<1>6. AttemptsTrue
  BY <1>3 DEF AttemptsTrue, AttemptTrue, SeenTrue, StepJustified, Idle, Absent, Response, Terminal
<1>7. PaidCrossed /\ SettledOutcomeIsReal /\ Delivered
  BY <1>2, <1>3 DEF PaidCrossed, SettledOutcomeIsReal, Delivered
<1> QED
  BY <1>1, <1>4, <1>5, <1>6, <1>7 DEF IInv

LEMMA NextIInv == IInv /\ [Next]_vars => IInv' /\ LedgerStep
<1> SUFFICES ASSUME IInv, [Next]_vars PROVE IInv' /\ LedgerStep
  OBVIOUS
<1>1. CASE ControlPlane
  BY <1>1, ControlPlaneStep
<1>2. CASE \E e \in Executions : Orchestrator(e)
  BY <1>2, OrchestratorStep
<1>3. CASE \E w \in Slots, e \in Executions : StartAttempt(w, e)
  BY <1>3, StartAttemptStep
<1>4. CASE \E w \in Slots : Work(w) \/ TimeOut(w) \/ Die(w) \/ Interrupt(w) \/ StepFails(w)
  BY <1>4, WorkerStep, AttemptEndsStep
<1>5. CASE RemoteFinishes
  BY <1>5, ProviderStep
<1>6. CASE UNCHANGED vars
  <2>1. UNCHANGED <<adapter, remote, slot>> /\ UNCHANGED ledgerVars
    BY <1>6 DEF vars
  <2> QED
    BY <2>1, IdleLedger, QuietStep
<1> QED
  BY <1>1, <1>2, <1>3, <1>4, <1>5, <1>6 DEF Next

\* However control plane, workflow, attempts that Temporal has given up and the
\* provider interleave, the ledger, the registry and what every attempt has seen
\* stay within the inductive invariant.
THEOREM Invariance == Spec => []IInv
<1> QED
  BY InitIInv, NextIInv, PTL DEF Spec

\* Every variable keeps its type, and the registry only names contract states.
THEOREM TypeCorrect == Spec => []TypeOK
<1>1. IInv => TypeOK
  BY DEF IInv, LedgerInv, RegistryTyped, Responses, ContractStates, RemoteStates, TypeOK
<1> QED
  BY <1>1, Invariance, PTL

\* Once a paid task can exist, no attempt, be it a retry or one that Temporal
\* has given up, may submit again.
THEOREM NeverPaidTwice == Spec => []PaidTaskForbidsSubmit
<1>1. IInv => PaidTaskForbidsSubmit
  BY DEF IInv, PaidCrossed, Crossed, PaidTaskForbidsSubmit, Ledger!ReconcileOnly
<1> QED
  BY <1>1, Invariance, PTL

\* The ledger settles a run with what became of the provider's own task.
THEOREM SettledAsHappened == Spec => []SettledOutcomeIsReal
<1>1. IInv => SettledOutcomeIsReal
  BY DEF IInv
<1> QED
  BY <1>1, Invariance, PTL

\* A run has succeeded only when its output is committed to the artifact store.
THEOREM SucceededIsDelivered == Spec => []SuccessIsDelivered
<1>1. IInv => SuccessIsDelivered
  BY RowOfLedger DEF IInv, RowFacts, Delivered, SuccessIsDelivered
<1> QED
  BY <1>1, Invariance, PTL

----------------------------------------------------------------------------
(***************************************************************************)
(* The composed system and the ledger: every step commits one transaction  *)
(* of RunLedger or none, so its theorems hold of the run that control      *)
(* plane, workflow and workers produce.                                    *)
(***************************************************************************)
\* The workflow, its activities and the control plane write the ledger only
\* through its transactions, each under its own guard.
THEOREM FollowsLedger == Spec => Ledger!Spec
<1>1. Init => Ledger!Init
  BY DEF Init
<1>2. LedgerStep => [Ledger!Next]_(Ledger!vars)
  BY RunInRuns DEF LedgerStep, Ledger!Next, Ledger!vars, ledgerVars
<1> QED
  BY <1>1, <1>2, NextIInv, Invariance, PTL DEF Spec, Ledger!Spec

\* Whatever attempts are retried or forgotten, the first terminal outcome of
\* the run and of its job is never replaced.
THEOREM OutcomeNeverReversed == Spec => Ledger!TerminalIsFinal
<1>1. IInv /\ LedgerStep =>
        \A r \in Runs : /\ run[r] \in Ledger!Terminal => run'[r] = run[r]
                        /\ job[r] \in Ledger!Terminal => job'[r] = job[r]
  <2> SUFFICES ASSUME IInv, LedgerStep, NEW r \in Runs
               PROVE  /\ run[r] \in Ledger!Terminal => run'[r] = run[r]
                      /\ job[r] \in Ledger!Terminal => job'[r] = job[r]
    OBVIOUS
  <2>1. LedgerProofs!IInv
    BY SameLedgerInv DEF IInv
  <2>2. [LedgerProofs!Next]_(LedgerProofs!vars)
    <3>1. LedgerProofs!ControlPlane(Run) \/ LedgerProofs!Worker(Run) \/ UNCHANGED ledgerVars
      BY SameControlPlane, SameWorker DEF LedgerStep
    <3> QED
      BY <3>1, RunInRuns DEF LedgerProofs!Next, LedgerProofs!vars, ledgerVars
  <2>3. LedgerProofs!StaysFinal(r)
    BY <2>1, <2>2, LedgerProofs!NextSafe, LedgerAssumptions
  <2> QED
    BY <2>3 DEF LedgerProofs!StaysFinal, Ledger!Terminal, LedgerProofs!Terminal
<1>2. Ledger!vars = ledgerVars
  BY DEF Ledger!vars, ledgerVars
<1> QED
  BY <1>1, NextIInv, Invariance, PTL DEF Spec, Ledger!TerminalIsFinal
=============================================================================
