-------------------------- MODULE RunLedgerProofs --------------------------
(***************************************************************************)
(* Proofs about RunLedger, for every set of runs, every approval and every *)
(* estimate.  The argument is local to one row: every transaction writes   *)
(* the row of one run (lemma OtherRowsUntouched), and the row it writes    *)
(* stays well typed, its money tables stay in agreement and its outcome    *)
(* stays the same in run, attempt and job.                                 *)
(***************************************************************************)
EXTENDS RunLedger, FiniteSums, TLAPS

\* A claim is read through its two fields only.
LEMMA ClaimFields ==
    ASSUME NEW claim \in Claims
    PROVE  claim.micros \in Nat
<1>1. CASE claim \in [kind : {"VERIFIED", "MISESTIMATED"}, micros : Actuals]
  BY <1>1, ActualsAssumption
<1>2. CASE claim \in [kind : {"UNVERIFIED", "UNPRICED", "MISSING"}, micros : {0}]
  BY <1>2
<1> QED
  BY <1>1, <1>2, Zenon DEF Claims

EntrySet == [entry : EntryNames, micros : Nat, verified : BOOLEAN]

RowType(r) ==
    /\ run[r]         \in RunStates
    /\ attempt[r]     \in AttemptStates
    /\ job[r]         \in JobStates
    /\ upstream[r]    \in Tasks \cup {NoTask}
    /\ reservation[r] \in ReservationStates
    /\ ledger[r]      \in SUBSET EntrySet
    /\ unconfirmed[r] \in BOOLEAN

\* Every entry the transactions write is well typed.
LEMMA CompletionTyped ==
    ASSUME NEW r \in Runs, NEW claim \in Claims
    PROVE  CompletionEntries(r, claim) \subseteq EntrySet
<1> DEFINE actual == IF claim.kind = "MISSING" THEN {}
                     ELSE {Entry("ACTUAL", claim.micros, Trusted(claim))}
           unused == IF Trusted(claim) /\ claim.micros < Estimate[r]
                     THEN {Entry("UNUSED", Estimate[r] - claim.micros, TRUE)} ELSE {}
<1>1. Estimate[r] \in Nat /\ claim.micros \in Nat
  BY EstimateAssumption, ClaimFields
<1>2. Trusted(claim) \in BOOLEAN
  BY DEF Trusted
<1>3. actual \subseteq EntrySet
  BY <1>1, <1>2 DEF Entry, EntryNames, EntrySet
<1>4. unused \subseteq EntrySet
  <2>1. CASE claim.micros < Estimate[r]
    <3>1. Estimate[r] - claim.micros \in Nat
      BY <1>1, <2>1
    <3>2. Entry("UNUSED", Estimate[r] - claim.micros, TRUE) \in EntrySet
      BY <3>1 DEF Entry, EntryNames, EntrySet
    <3> QED
      BY <3>2, Zenon
  <2>2. CASE ~(claim.micros < Estimate[r])
    BY <2>2
  <2> QED
    BY <2>1, <2>2
<1> QED
  BY <1>3, <1>4, Zenon DEF CompletionEntries

LEMMA EntriesTyped ==
    ASSUME NEW r \in Runs
    PROVE  /\ ReservationEntry(r) \in EntrySet
           /\ \A reason : Entry(ReleaseName(reason), Estimate[r], TRUE) \in EntrySet
           /\ \A claim \in Claims : CompletionEntries(r, claim) \subseteq EntrySet
           /\ \A claim \in Claims : SettlementEntries(r, claim) \subseteq EntrySet
<1>1. Estimate[r] \in Nat
  BY EstimateAssumption
<1>2. ReservationEntry(r) \in EntrySet
  BY <1>1 DEF ReservationEntry, Entry, EntryNames, EntrySet
<1>3. \A reason : Entry(ReleaseName(reason), Estimate[r], TRUE) \in EntrySet
  BY <1>1 DEF ReleaseName, Entry, EntryNames, EntrySet
<1>4. \A claim \in Claims : SettlementEntries(r, claim) \subseteq EntrySet
  BY CompletionTyped, Zenon DEF SettlementEntries
<1> QED
  BY <1>2, <1>3, <1>4, CompletionTyped

\* A cancellation never settles with other entries than some completion would.
LEMMA SettlementIsSomeClaim ==
    ASSUME NEW r \in Runs, NEW claim \in Claims
    PROVE  \E c \in Claims : SettlementEntries(r, claim) = CompletionEntries(r, c)
<1>1. CASE claim.kind = "UNPRICED"
  <2>1. [kind |-> "MISSING", micros |-> 0] \in Claims
    BY DEF Claims
  <2>2. CompletionEntries(r, [kind |-> "MISSING", micros |-> 0]) = {}
    BY DEF CompletionEntries, Trusted
  <2> QED
    BY <1>1, <2>1, <2>2 DEF SettlementEntries
<1>2. CASE claim.kind # "UNPRICED"
  BY <1>2 DEF SettlementEntries
<1> QED
  BY <1>1, <1>2

----------------------------------------------------------------------------
(***************************************************************************)
(* The inductive invariant.  It is the conjunction of what the run checks: *)
(* the agreement of the money tables is needed to know which ledger a      *)
(* reservation has when it is closed, and the common outcome to know that  *)
(* a closed reservation belongs to a run that no later transaction moves.  *)
(***************************************************************************)
RowInv(r) == RowType(r) /\ MoneyTablesAgree(r) /\ OneOutcome(r)

IInv == TypeOK /\ LedgerMatchesReservation /\ OutcomesAgree

\* The step leaves every row but that of r alone.
OnlyRow(r) ==
    /\ run'         = [run EXCEPT ![r] = run'[r]]
    /\ attempt'     = [attempt EXCEPT ![r] = attempt'[r]]
    /\ job'         = [job EXCEPT ![r] = job'[r]]
    /\ upstream'    = [upstream EXCEPT ![r] = upstream'[r]]
    /\ reservation' = [reservation EXCEPT ![r] = reservation'[r]]
    /\ ledger'      = [ledger EXCEPT ![r] = ledger'[r]]
    /\ unconfirmed' = [unconfirmed EXCEPT ![r] = unconfirmed'[r]]

LEMMA TypeOfRow ==
    ASSUME TypeOK, NEW r \in Runs
    PROVE  RowType(r)
BY DEF TypeOK, RowType, EntrySet

LEMMA OtherRowsUntouched ==
    ASSUME IInv, NEW r \in Runs, OnlyRow(r), NEW s \in Runs, s # r
    PROVE  MoneyTablesAgree(s)' /\ OneOutcome(s)'
<1>1. /\ run'[s] = run[s] /\ attempt'[s] = attempt[s] /\ job'[s] = job[s]
      /\ upstream'[s] = upstream[s] /\ reservation'[s] = reservation[s]
      /\ ledger'[s] = ledger[s]
  BY DEF IInv, TypeOK, OnlyRow
<1>2. MoneyTablesAgree(s) /\ OneOutcome(s)
  BY DEF IInv, LedgerMatchesReservation, OutcomesAgree
<1>3. MoneyTablesAgree(s)'
  BY <1>1, <1>2 DEF MoneyTablesAgree
<1>4. OneOutcome(s)'
  BY <1>1, <1>2 DEF OneOutcome
<1> QED
  BY <1>3, <1>4

\* It is enough to look at the row that was written.
LEMMA OneRowSuffices ==
    ASSUME IInv, NEW r \in Runs, OnlyRow(r), RowInv(r)'
    PROVE  IInv'
<1>1. TypeOK'
  BY DEF IInv, TypeOK, OnlyRow, RowInv, RowType, EntrySet
<1>2. \A s \in Runs : MoneyTablesAgree(s)' /\ OneOutcome(s)'
  BY OtherRowsUntouched, Zenon DEF RowInv
<1> QED
  BY <1>1, <1>2 DEF IInv, LedgerMatchesReservation, OutcomesAgree

LEMMA RowOfIInv ==
    ASSUME IInv, NEW r \in Runs
    PROVE  RowInv(r)
BY TypeOfRow DEF IInv, RowInv, LedgerMatchesReservation, OutcomesAgree

LEMMA InitIInv == Init => IInv
<1> SUFFICES ASSUME Init PROVE IInv
  OBVIOUS
<1>1. TypeOK
  BY DEF Init, TypeOK, RunStates, AttemptStates, JobStates, ReservationStates
<1>2. \A r \in Runs : MoneyTablesAgree(r)
  BY DEF Init, MoneyTablesAgree
<1>3. \A r \in Runs : OneOutcome(r)
  BY DEF Init, OneOutcome, Terminal
<1> QED
  BY <1>1, <1>2, <1>3 DEF IInv, LedgerMatchesReservation, OutcomesAgree

(***************************************************************************)
(* Control-plane transactions: they touch only the projection of a run     *)
(* that is not terminal, and leave it not terminal.                        *)
(***************************************************************************)
LEMMA ControlPlaneStep ==
    ASSUME IInv, NEW r \in Runs, ControlPlane(r)
    PROVE  OnlyRow(r) /\ RowInv(r)'
<1>1. RowInv(r)
  BY RowOfIInv
<1>2. UNCHANGED paid
  BY DEF ControlPlane, CreateGenerationRun, RequestRunPause, RequestRunCancellation,
         ResumePaused, RequestRecovery, MarkRunQueued
<1>3. OnlyRow(r)
  BY <1>2 DEF ControlPlane, CreateGenerationRun, RequestRunPause, RequestRunCancellation,
         ResumePaused, RequestRecovery, MarkRunQueued, OnlyRow, IInv, TypeOK, paid
<1>4. RowType(r)'
  BY <1>1, <1>2 DEF ControlPlane, CreateGenerationRun, RequestRunPause,
         RequestRunCancellation, ResumePaused, RequestRecovery, MarkRunQueued,
         RowInv, RowType, RunStates, AttemptStates, Terminal, IInv, TypeOK, paid
<1>5. MoneyTablesAgree(r)'
  BY <1>1, <1>2 DEF RowInv, MoneyTablesAgree, paid
<1>6. run[r] # "NONE" => attempt'[r] = attempt[r]
  BY DEF ControlPlane, CreateGenerationRun, RequestRunPause, RequestRunCancellation,
         ResumePaused, RequestRecovery, MarkRunQueued
<1>7. \/ run'[r] = run[r]
      \/ run[r] \notin Terminal /\ run'[r] \notin Terminal \cup {"NONE"}
  <2>1. run[r] \in RunStates /\ r \in DOMAIN run
    BY DEF IInv, TypeOK
  <2> QED
    BY <2>1 DEF ControlPlane, CreateGenerationRun, RequestRunPause, RequestRunCancellation,
         ResumePaused, RequestRecovery, MarkRunQueued, Pausable, Cancellable, Recoverable,
         Terminal
<1>8. OneOutcome(r)'
  BY <1>1, <1>2, <1>6, <1>7 DEF RowInv, OneOutcome, paid, Terminal
<1> QED
  BY <1>3, <1>4, <1>5, <1>8 DEF RowInv

(***************************************************************************)
(* Worker transactions.                                                    *)
(***************************************************************************)
LEMMA PrepareStep ==
    ASSUME IInv, NEW r \in Runs, PrepareProviderJob(r)
    PROVE  OnlyRow(r) /\ RowInv(r)'
<1>1. RowInv(r) /\ reservation[r] = "NONE" /\ run[r] \notin Terminal \cup {"NONE"}
  BY RowOfIInv DEF PrepareProviderJob, MayCreatePaidJob
<1>2. OnlyRow(r)
  BY DEF PrepareProviderJob, OnlyRow, IInv, TypeOK
<1>3. /\ reservation'[r] = "RESERVED" /\ job'[r] = "QUEUED" /\ attempt'[r] = "QUEUED"
      /\ run'[r] \in {run[r], "QUEUED"}
      /\ upstream'[r] = upstream[r] /\ unconfirmed'[r] = unconfirmed[r]
  BY DEF PrepareProviderJob, IInv, TypeOK
<1>4. ledger'[r] = {ReservationEntry(r)}
  <2>1. ledger'[r] = ledger[r] \cup {ReservationEntry(r)}
    BY DEF PrepareProviderJob, IInv, TypeOK
  <2>2. ledger[r] = {}
    BY <1>1 DEF RowInv, MoneyTablesAgree
  <2> QED
    BY <2>1, <2>2
<1>5. RowType(r)'
  BY <1>1, <1>3, <1>4, EntriesTyped DEF RowInv, RowType, RunStates, AttemptStates,
         JobStates, ActiveJobStates, ReservationStates
<1>6. MoneyTablesAgree(r)'
  BY <1>3, <1>4 DEF MoneyTablesAgree, ActiveJobStates, ReservationEntry
<1>7. OneOutcome(r)'
  BY <1>1, <1>3 DEF OneOutcome, Terminal
<1> QED
  BY <1>2, <1>5, <1>6, <1>7 DEF RowInv

\* An open job is exactly a held reservation.
LEMMA OpenJobIsReserved ==
    ASSUME NEW r \in Runs, RowInv(r), job[r] \in ActiveJobStates
    PROVE  reservation[r] = "RESERVED" /\ ledger[r] = {ReservationEntry(r)}
BY DEF RowInv, RowType, ReservationStates, MoneyTablesAgree, ActiveJobStates, Terminal

LEMMA ObservationStep ==
    ASSUME IInv, NEW r \in Runs, NEW obs \in ActiveJobStates,
           NEW task \in Tasks \cup {NoTask}, RecordProviderJobObservation(r, obs, task)
    PROVE  OnlyRow(r) /\ RowInv(r)'
<1>1. RowInv(r) /\ job[r] \in ActiveJobStates /\ run[r] \notin Terminal
  BY RowOfIInv DEF RecordProviderJobObservation, ObservationAccepted
<1>2. OnlyRow(r)
  BY DEF RecordProviderJobObservation, OnlyRow, IInv, TypeOK
<1>3. /\ job'[r] = obs /\ unconfirmed'[r] = FALSE
      /\ upstream'[r] \in {upstream[r], task}
      /\ attempt'[r] = ObservedRunState(obs, task) /\ run'[r] = ObservedRunState(obs, task)
      /\ reservation'[r] = reservation[r] /\ ledger'[r] = ledger[r]
  BY DEF RecordProviderJobObservation, IInv, TypeOK
<1>4. ObservedRunState(obs, task) \in {"QUEUED", "RUNNING", "RECONCILING", "REQUIRES_ACTION"}
  BY DEF ObservedRunState, ActiveJobStates
<1>5. RowType(r)'
  BY <1>1, <1>3, <1>4 DEF RowInv, RowType, RunStates, AttemptStates, JobStates
<1>6. MoneyTablesAgree(r)'
  BY <1>1, <1>3, OpenJobIsReserved DEF MoneyTablesAgree, ReservationEntry
<1>7. OneOutcome(r)'
  BY <1>3, <1>4 DEF OneOutcome, Terminal, ActiveJobStates
<1> QED
  BY <1>2, <1>5, <1>6, <1>7 DEF RowInv

LEMMA CompletionStep ==
    ASSUME IInv, NEW r \in Runs, NEW task \in Tasks, NEW claim \in Claims,
           CompleteProviderJob(r, task, claim)
    PROVE  OnlyRow(r) /\ RowInv(r)'
<1>1. RowInv(r)
  BY RowOfIInv
<1>2. CompletionEntries(r, claim) \subseteq EntrySet
  BY EntriesTyped
<1>3. CASE CompleteWithinBudget(r, task, claim) \/ CompleteOverBudget(r, task, claim)
  <2>1. CompletionOpen(r)
    BY <1>3 DEF CompleteWithinBudget, CompleteOverBudget
  <2>2. run[r] # "NONE" /\ ledger[r] = {ReservationEntry(r)}
    BY <1>1, <2>1, OpenJobIsReserved DEF CompletionOpen, RowInv, OneOutcome, ActiveJobStates
  <2>3. OnlyRow(r)
    BY <1>3 DEF CompleteWithinBudget, CompleteOverBudget, OnlyRow, IInv, TypeOK
  <2>4. /\ upstream'[r] = task /\ reservation'[r] = "SETTLED"
        /\ unconfirmed'[r] \in BOOLEAN
        /\ \/ job'[r] = "SUCCEEDED" /\ attempt'[r] = "SUCCEEDED"
                /\ run'[r] \in {"PAUSED", "SUCCEEDED"}
           \/ job'[r] = "FAILED" /\ attempt'[r] = "FAILED" /\ run'[r] = "FAILED"
    BY <1>3 DEF CompleteWithinBudget, CompleteOverBudget, IInv, TypeOK
  <2>5. ledger'[r] = {ReservationEntry(r)} \cup CompletionEntries(r, claim)
    <3>1. ledger'[r] = ledger[r] \cup CompletionEntries(r, claim)
      BY <1>3, Zenon DEF CompleteWithinBudget, CompleteOverBudget, IInv, TypeOK
    <3> QED
      BY <2>2, <3>1
  <2>6. RowType(r)'
    <3>1. ledger'[r] \subseteq EntrySet
      BY <1>2, <2>5, EntriesTyped
    <3> QED
      BY <2>4, <3>1 DEF RowType, RunStates, AttemptStates, JobStates, Terminal,
           ReservationStates
  <2>7. MoneyTablesAgree(r)'
    BY <2>4, <2>5, Zenon DEF MoneyTablesAgree, Terminal, ReservationEntry, CompletionEntries
  <2>8. OneOutcome(r)'
    BY <2>4 DEF OneOutcome, Terminal
  <2> QED
    BY <2>3, <2>6, <2>7, <2>8 DEF RowInv
<1>4. CASE ReplayCompletion(r, task, claim)
  <2>1. /\ OnlyRow(r) /\ UNCHANGED paid /\ attempt' = attempt
        /\ job[r] = "SUCCEEDED" /\ attempt[r] = "SUCCEEDED" /\ reservation[r] = "SETTLED"
        /\ run'[r] \in {"SUCCEEDED", "PAUSED"} /\ unconfirmed'[r] \in BOOLEAN
    BY <1>4 DEF ReplayCompletion, ReplayAccepted, OnlyRow, IInv, TypeOK, paid
  <2>2. RowType(r)'
    BY <1>1, <2>1 DEF RowInv, RowType, RunStates, Terminal, paid
  <2>3. MoneyTablesAgree(r)'
    BY <1>1, <2>1 DEF RowInv, MoneyTablesAgree, paid
  <2>4. OneOutcome(r)'
    BY <2>1 DEF OneOutcome, paid
  <2> QED
    BY <2>1, <2>2, <2>3, <2>4 DEF RowInv
<1> QED
  BY <1>3, <1>4 DEF CompleteProviderJob

(***************************************************************************)
(* Closing the paid boundary, by release or by settlement: afterwards the  *)
(* money tables agree, nothing is held, and a job that did not succeed has *)
(* the outcome the caller is about to give the run, unless an earlier      *)
(* transaction had already settled it.                                     *)
(***************************************************************************)
PaidClosed(r, outcome) ==
    /\ job'         = [job EXCEPT ![r] = job'[r]]
    /\ upstream'    = [upstream EXCEPT ![r] = upstream'[r]]
    /\ reservation' = [reservation EXCEPT ![r] = reservation'[r]]
    /\ ledger'      = [ledger EXCEPT ![r] = ledger'[r]]
    /\ job'[r] \in Terminal \cup {"NONE"}
    /\ upstream'[r] \in Tasks \cup {NoTask}
    /\ reservation'[r] \in ReservationStates \ {"RESERVED"}
    /\ ledger'[r] \subseteq EntrySet
    /\ MoneyTablesAgree(r)'
    /\ \/ job'[r] = job[r]
       \/ job[r] \in ActiveJobStates /\ job'[r] = outcome
    /\ job'[r] \in {"FAILED", "CANCELLED"} =>
         job'[r] = outcome \/ reservation[r] = "SETTLED"

LEMMA ReleaseCloses ==
    ASSUME IInv, NEW r \in Runs, NEW reason \in {"CANCELLED", "FAILED"}, Release(r, reason)
    PROVE  PaidClosed(r, reason)
<1>1. RowInv(r) /\ RowType(r) /\ MoneyTablesAgree(r)
  BY RowOfIInv DEF RowInv
<1>2. CASE reservation[r] = "RESERVED"
  <2>1. upstream[r] = NoTask /\ job[r] \in ActiveJobStates
    BY <1>2 DEF Release, ReleaseAccepted
  <2>2. /\ job' = [job EXCEPT ![r] = reason] /\ upstream' = upstream
        /\ reservation' = [reservation EXCEPT ![r] = "RELEASED"]
        /\ ledger' = [ledger EXCEPT ![r] =
                        @ \cup {Entry(ReleaseName(reason), Estimate[r], TRUE)}]
    BY <1>2 DEF Release
  <2>3. job'[r] = reason /\ upstream'[r] = NoTask /\ reservation'[r] = "RELEASED"
    BY <2>1, <2>2 DEF IInv, TypeOK
  <2>4. ledger'[r] = {ReservationEntry(r), Entry(ReleaseName(reason), Estimate[r], TRUE)}
    <3>1. ledger'[r] = ledger[r] \cup {Entry(ReleaseName(reason), Estimate[r], TRUE)}
      BY <2>2, Zenon DEF IInv, TypeOK
    <3> QED
      BY <3>1, <2>1, <1>1, OpenJobIsReserved
  <2>5. ledger'[r] \subseteq EntrySet
    BY <2>4, EntriesTyped
  <2>6. MoneyTablesAgree(r)'
    BY <2>3, <2>4 DEF MoneyTablesAgree, ReservationEntry, ReleaseName
  <2>7. /\ job' = [job EXCEPT ![r] = job'[r]]
        /\ upstream' = [upstream EXCEPT ![r] = upstream'[r]]
        /\ reservation' = [reservation EXCEPT ![r] = reservation'[r]]
        /\ ledger' = [ledger EXCEPT ![r] = ledger'[r]]
    BY <2>2 DEF IInv, TypeOK
  <2> QED
    BY <2>1, <2>3, <2>5, <2>6, <2>7 DEF PaidClosed, Terminal, ReservationStates
<1>3. CASE reservation[r] # "RESERVED"
  <2>1. UNCHANGED paid
    BY <1>3 DEF Release
  <2>2. /\ job' = [job EXCEPT ![r] = job'[r]]
        /\ upstream' = [upstream EXCEPT ![r] = upstream'[r]]
        /\ reservation' = [reservation EXCEPT ![r] = reservation'[r]]
        /\ ledger' = [ledger EXCEPT ![r] = ledger'[r]]
    BY <2>1 DEF paid, IInv, TypeOK
  <2>3. MoneyTablesAgree(r)'
    BY <1>1, <2>1 DEF paid, MoneyTablesAgree
  <2>4. job[r] \in Terminal \cup {"NONE"}
    BY <1>1, <1>3 DEF RowType, ReservationStates, MoneyTablesAgree, Terminal
  <2>5. reservation[r] = "RELEASED" => job[r] = reason
    <3>1. ASSUME reservation[r] = "RELEASED" PROVE job[r] = reason
      <4>1. /\ Entry(ReleaseName(reason), Estimate[r], TRUE) \in ledger[r]
            /\ ledger[r] = {ReservationEntry(r),
                            Entry(ReleaseName(job[r]), Estimate[r], TRUE)}
            /\ job[r] \in {"FAILED", "CANCELLED"}
        BY <3>1, <1>1 DEF Release, ReleaseAccepted, MoneyTablesAgree
      <4>2. ReleaseName(reason) \in {"RESERVATION", ReleaseName(job[r])}
        BY <4>1 DEF Entry, ReservationEntry
      <4> QED
        BY <4>1, <4>2 DEF ReleaseName
    <3> QED
      BY <3>1
  <2>6. reservation[r] = "NONE" => job[r] = "NONE"
    BY <1>1 DEF MoneyTablesAgree
  <2> QED
    BY <1>1, <1>3, <2>1, <2>2, <2>3, <2>4, <2>5, <2>6
       DEF PaidClosed, RowType, ReservationStates, paid
<1> QED
  BY <1>2, <1>3

LEMMA SettleCloses ==
    ASSUME IInv, NEW r \in Runs, NEW outcome \in {"CANCELLED", "FAILED"},
           NEW task \in Tasks \cup {NoTask}, NEW claim \in Claims,
           Settle(r, outcome, task, claim)
    PROVE  PaidClosed(r, outcome) /\ job'[r] = outcome
<1>1. RowInv(r) /\ RowType(r) /\ MoneyTablesAgree(r)
  BY RowOfIInv DEF RowInv
<1>2. CASE reservation[r] = "RESERVED"
  <2>1. job[r] \in ActiveJobStates
    BY <1>2 DEF Settle, SettleAccepted
  <2>2. /\ job' = [job EXCEPT ![r] = outcome]
        /\ upstream' = [upstream EXCEPT ![r] = IF task = NoTask THEN @ ELSE task]
        /\ reservation' = [reservation EXCEPT ![r] = "SETTLED"]
        /\ ledger' = [ledger EXCEPT ![r] = @ \cup SettlementEntries(r, claim)]
    BY <1>2 DEF Settle
  <2>3. /\ job'[r] = outcome /\ upstream'[r] \in {upstream[r], task}
        /\ reservation'[r] = "SETTLED"
    BY <2>2 DEF IInv, TypeOK
  <2>4. ledger'[r] = {ReservationEntry(r)} \cup SettlementEntries(r, claim)
    <3>1. ledger'[r] = ledger[r] \cup SettlementEntries(r, claim)
      BY <2>2, Zenon DEF IInv, TypeOK
    <3> QED
      BY <3>1, <2>1, <1>1, OpenJobIsReserved
  <2>5. ledger'[r] \subseteq EntrySet
    BY <2>4, EntriesTyped
  <2>6. PICK c \in Claims : SettlementEntries(r, claim) = CompletionEntries(r, c)
    BY SettlementIsSomeClaim
  <2>7. ledger'[r] = {ReservationEntry(r)} \cup CompletionEntries(r, c)
    BY <2>4, <2>6
  <2>8. MoneyTablesAgree(r)'
    BY <2>3, <2>7, Zenon DEF MoneyTablesAgree, Terminal, ReservationEntry, CompletionEntries
  <2>9. /\ job' = [job EXCEPT ![r] = job'[r]]
        /\ upstream' = [upstream EXCEPT ![r] = upstream'[r]]
        /\ reservation' = [reservation EXCEPT ![r] = reservation'[r]]
        /\ ledger' = [ledger EXCEPT ![r] = ledger'[r]]
    BY <2>2 DEF IInv, TypeOK
  <2> QED
    BY <1>1, <2>1, <2>3, <2>5, <2>8, <2>9 DEF PaidClosed, RowType, Terminal, ReservationStates
<1>3. CASE reservation[r] # "RESERVED"
  <2>1. UNCHANGED paid /\ reservation[r] = "SETTLED" /\ job[r] = outcome
    BY <1>3 DEF Settle, SettleAccepted
  <2>2. /\ job' = [job EXCEPT ![r] = job'[r]]
        /\ upstream' = [upstream EXCEPT ![r] = upstream'[r]]
        /\ reservation' = [reservation EXCEPT ![r] = reservation'[r]]
        /\ ledger' = [ledger EXCEPT ![r] = ledger'[r]]
    BY <2>1 DEF paid, IInv, TypeOK
  <2>3. MoneyTablesAgree(r)'
    BY <1>1, <2>1 DEF paid, MoneyTablesAgree
  <2> QED
    BY <1>1, <2>1, <2>2, <2>3 DEF PaidClosed, RowType, Terminal, ReservationStates, paid
<1> QED
  BY <1>2, <1>3

\* A run that is given the outcome of its closed paid boundary keeps the invariant.
LEMMA ClosedRow ==
    ASSUME IInv, NEW r \in Runs, NEW outcome \in {"CANCELLED", "FAILED"},
           PaidClosed(r, outcome),
           run[r] # "NONE", run[r] \in Terminal => run[r] = outcome,
           run' = [run EXCEPT ![r] = outcome],
           attempt' = [attempt EXCEPT ![r] = attempt'[r]],
           attempt'[r] \in AttemptStates, attempt[r] = "SUCCEEDED" => attempt'[r] = "SUCCEEDED",
           unconfirmed' = [unconfirmed EXCEPT ![r] = unconfirmed'[r]],
           unconfirmed'[r] \in BOOLEAN
    PROVE  OnlyRow(r) /\ RowInv(r)'
<1>1. RowInv(r) /\ RowType(r) /\ MoneyTablesAgree(r) /\ OneOutcome(r)
  BY RowOfIInv DEF RowInv
<1>2. run'[r] = outcome
  BY DEF IInv, TypeOK
<1>3. OnlyRow(r)
  BY <1>2 DEF PaidClosed, OnlyRow
<1>4. RowType(r)'
  BY <1>1, <1>2 DEF PaidClosed, RowType, RunStates, AttemptStates, JobStates, Terminal
<1>5. job'[r] = "SUCCEEDED" => attempt'[r] = "SUCCEEDED"
  BY <1>1 DEF PaidClosed, OneOutcome, ActiveJobStates
<1>6. job'[r] \in {"FAILED", "CANCELLED"} => job'[r] = outcome
  BY <1>1 DEF PaidClosed, OneOutcome, Terminal, ActiveJobStates
<1>7. OneOutcome(r)'
  BY <1>2, <1>5, <1>6 DEF OneOutcome, PaidClosed
<1> QED
  BY <1>3, <1>4, <1>7 DEF PaidClosed, RowInv

LEMMA StutterOnRow ==
    ASSUME IInv, NEW r \in Runs, UNCHANGED vars
    PROVE  OnlyRow(r) /\ RowInv(r)'
<1>1. RowInv(r)
  BY RowOfIInv
<1>2. OnlyRow(r)
  BY DEF vars, OnlyRow, IInv, TypeOK
<1>3. RowInv(r)'
  BY <1>1 DEF vars, RowInv, RowType, MoneyTablesAgree, OneOutcome
<1> QED
  BY <1>2, <1>3

LEMMA ResultFields ==
    ASSUME NEW res \in CancelResults
    PROVE  res.task \in Tasks \cup {NoTask} /\ res.claim \in Claims
<1>1. CASE res \in [state : {"SUCCEEDED"}, absent : {FALSE}, task : Tasks, claim : Claims]
  BY <1>1
<1>2. CASE res \in [state : {"CANCELLED", "FAILED"}, absent : {FALSE},
                    task : Tasks \cup {NoTask}, claim : Claims]
  BY <1>2
<1>3. CASE res \in [state : {"CANCELLED"}, absent : {TRUE}, task : {NoTask},
                    claim : {c \in Claims : c.kind = "MISSING"}]
  BY <1>3
<1>4. CASE res \in [state : {"UNKNOWN"}, absent : {FALSE}, task : Tasks \cup {NoTask},
                    claim : {c \in Claims : c.kind = "MISSING"}]
  BY <1>4
<1> QED
  BY <1>1, <1>2, <1>3, <1>4, Zenon DEF CancelResults

LEMMA CancellationStep ==
    ASSUME IInv, NEW r \in Runs, NEW res \in CancelResults, NEW reason \in CancelReasons,
           RecordProviderCancellation(r, res, reason)
    PROVE  OnlyRow(r) /\ RowInv(r)'
<1>1. RowInv(r) /\ RowType(r) /\ MoneyTablesAgree(r) /\ OneOutcome(r) /\ run[r] # "NONE"
  BY RowOfIInv DEF RowInv, RecordProviderCancellation
<1>2. CASE KeepSucceeded(r)
  <2>1. OnlyRow(r) /\ unconfirmed'[r] \in BOOLEAN /\ UNCHANGED <<run, attempt, paid>>
    BY <1>2 DEF KeepSucceeded, OnlyRow, IInv, TypeOK, paid
  <2>2. RowInv(r)'
    BY <1>1, <2>1 DEF RowInv, RowType, MoneyTablesAgree, OneOutcome, paid
  <2> QED
    BY <2>1, <2>2
<1>3. CASE ConfirmCancelled(r, res)
  <2>1. CASE run[r] \in {"SUCCEEDED", "FAILED"}
    BY <1>3, <2>1, StutterOnRow DEF ConfirmCancelled
  <2>2. CASE run[r] \notin {"SUCCEEDED", "FAILED"}
    <3>1. PaidClosed(r, "CANCELLED")
      BY <1>3, <2>2, ReleaseCloses, SettleCloses, ResultFields DEF ConfirmCancelled
    <3>2. /\ run' = [run EXCEPT ![r] = "CANCELLED"]
          /\ attempt' = [attempt EXCEPT ![r] = IF @ \in Terminal THEN @ ELSE "CANCELLED"]
          /\ unconfirmed' = [unconfirmed EXCEPT ![r] = @ /\ run[r] = "CANCELLED"]
      BY <1>3, <2>2 DEF ConfirmCancelled
    <3>3. /\ attempt' = [attempt EXCEPT ![r] = attempt'[r]]
          /\ attempt'[r] \in AttemptStates
          /\ attempt[r] = "SUCCEEDED" => attempt'[r] = "SUCCEEDED"
          /\ unconfirmed' = [unconfirmed EXCEPT ![r] = unconfirmed'[r]]
          /\ unconfirmed'[r] \in BOOLEAN
      BY <3>2 DEF IInv, TypeOK, Terminal, AttemptStates
    <3>4. run[r] \in Terminal => run[r] = "CANCELLED"
      BY <2>2 DEF Terminal
    <3> QED
      BY <1>1, <3>1, <3>2, <3>3, <3>4, ClosedRow
  <2> QED
    BY <2>1, <2>2
<1>4. CASE ConfirmFailed(r, res)
  <2>1. PaidClosed(r, "FAILED")
    BY <1>4, SettleCloses, ResultFields DEF ConfirmFailed
  <2>2. /\ run' = [run EXCEPT ![r] = "FAILED"] /\ run[r] \notin {"SUCCEEDED", "CANCELLED"}
        /\ attempt' = [attempt EXCEPT ![r] =
                         IF @ \in {"SUCCEEDED", "CANCELLED"} THEN @ ELSE "FAILED"]
        /\ unconfirmed' = [unconfirmed EXCEPT ![r] = FALSE]
    BY <1>4 DEF ConfirmFailed
  <2>3. /\ attempt' = [attempt EXCEPT ![r] = attempt'[r]]
        /\ attempt'[r] \in AttemptStates
        /\ attempt[r] = "SUCCEEDED" => attempt'[r] = "SUCCEEDED"
        /\ unconfirmed' = [unconfirmed EXCEPT ![r] = unconfirmed'[r]]
        /\ unconfirmed'[r] \in BOOLEAN
    BY <2>2 DEF IInv, TypeOK, Terminal, AttemptStates
  <2>4. run[r] \in Terminal => run[r] = "FAILED"
    BY <2>2 DEF Terminal
  <2> QED
    BY <1>1, <2>1, <2>2, <2>3, <2>4, ClosedRow
<1>5. CASE RemainUnknown(r, reason)
  <2>1. CASE run[r] \in Terminal
    BY <1>5, <2>1, StutterOnRow DEF RemainUnknown
  <2>2. CASE run[r] \notin Terminal
    <3>1. /\ job' = [job EXCEPT ![r] = IF @ \in ActiveJobStates THEN "UNKNOWN" ELSE @]
          /\ attempt' = [attempt EXCEPT ![r] = IF @ \in Terminal THEN @ ELSE "UNKNOWN"]
          /\ run' = [run EXCEPT ![r] =
                       IF reason = "RECONCILE_HISTORY" THEN "RECONCILING" ELSE "UNKNOWN"]
          /\ unconfirmed' = [unconfirmed EXCEPT ![r] = TRUE]
          /\ UNCHANGED <<upstream, reservation, ledger>>
      BY <1>5, <2>2 DEF RemainUnknown
    <3>2. OnlyRow(r)
      BY <3>1 DEF OnlyRow, IInv, TypeOK
    <3>3. /\ run'[r] \in {"RECONCILING", "UNKNOWN"} /\ unconfirmed'[r] = TRUE
          /\ job'[r] = IF job[r] \in ActiveJobStates THEN "UNKNOWN" ELSE job[r]
          /\ attempt'[r] = IF attempt[r] \in Terminal THEN attempt[r] ELSE "UNKNOWN"
      BY <3>1 DEF IInv, TypeOK
    <3>4. RowType(r)'
      BY <1>1, <3>1, <3>3 DEF RowType, RunStates, AttemptStates, JobStates, ActiveJobStates
    <3>5. MoneyTablesAgree(r)'
      <4>1. CASE job[r] \in ActiveJobStates
        BY <1>1, <3>1, <3>3, <4>1, OpenJobIsReserved
           DEF MoneyTablesAgree, ActiveJobStates
      <4>2. CASE job[r] \notin ActiveJobStates
        BY <1>1, <3>1, <3>3, <4>2 DEF MoneyTablesAgree
      <4> QED
        BY <4>1, <4>2
    <3>6. OneOutcome(r)'
      BY <1>1, <2>2, <3>1, <3>3 DEF OneOutcome, Terminal, ActiveJobStates
    <3> QED
      BY <3>2, <3>4, <3>5, <3>6 DEF RowInv
  <2> QED
    BY <2>1, <2>2
<1> QED
  BY <1>2, <1>3, <1>4, <1>5 DEF RecordProviderCancellation

LEMMA FinalizeStep ==
    ASSUME IInv, NEW r \in Runs, NEW state \in {"SUCCEEDED", "FAILED"},
           FinalizeShotRun(r, state)
    PROVE  OnlyRow(r) /\ RowInv(r)'
<1>1. RowInv(r) /\ RowType(r) /\ MoneyTablesAgree(r) /\ OneOutcome(r) /\ run[r] # "NONE"
  BY RowOfIInv DEF RowInv, FinalizeShotRun
<1>2. CASE run[r] = "SUCCEEDED"
  BY <1>2, StutterOnRow DEF FinalizeShotRun
<1>3. CASE run[r] # "SUCCEEDED" /\ state = "SUCCEEDED"
  <2>1. /\ run' = [run EXCEPT ![r] = "SUCCEEDED"]
        /\ unconfirmed' = [unconfirmed EXCEPT ![r] = FALSE]
        /\ UNCHANGED <<attempt, paid>> /\ job[r] = "SUCCEEDED"
    BY <1>3 DEF FinalizeShotRun, FinalizeAccepted
  <2>2. OnlyRow(r) /\ run'[r] = "SUCCEEDED" /\ unconfirmed'[r] = FALSE
    BY <2>1 DEF OnlyRow, IInv, TypeOK, paid
  <2>3. RowType(r)'
    BY <1>1, <2>1, <2>2 DEF RowType, RunStates, Terminal, paid
  <2>4. MoneyTablesAgree(r)'
    BY <1>1, <2>1 DEF MoneyTablesAgree, paid
  <2>5. reservation[r] # "RESERVED"
    BY <1>1, <2>1 DEF MoneyTablesAgree, ActiveJobStates
  <2>6. OneOutcome(r)'
    BY <1>1, <2>1, <2>2, <2>5 DEF OneOutcome, paid
  <2> QED
    BY <2>2, <2>3, <2>4, <2>6 DEF RowInv
<1>4. CASE run[r] # "SUCCEEDED" /\ state = "FAILED"
  <2>1. /\ Release(r, "FAILED") /\ run' = [run EXCEPT ![r] = "FAILED"]
        /\ attempt' = [attempt EXCEPT ![r] =
                         IF run[r] \in Terminal \/ @ \in {"SUCCEEDED", "CANCELLED"}
                         THEN @ ELSE "FAILED"]
        /\ unconfirmed' = [unconfirmed EXCEPT ![r] = FALSE]
    BY <1>4 DEF FinalizeShotRun
  <2>2. run[r] \in Terminal => run[r] = "FAILED"
    BY <1>4 DEF FinalizeShotRun, FinalizeAccepted, Terminal
  <2>3. PaidClosed(r, "FAILED")
    BY <2>1, ReleaseCloses
  <2>4. /\ attempt' = [attempt EXCEPT ![r] = attempt'[r]]
        /\ attempt'[r] \in AttemptStates
        /\ attempt[r] = "SUCCEEDED" => attempt'[r] = "SUCCEEDED"
        /\ unconfirmed' = [unconfirmed EXCEPT ![r] = unconfirmed'[r]]
        /\ unconfirmed'[r] \in BOOLEAN
    BY <2>1 DEF IInv, TypeOK, Terminal, AttemptStates
  <2> QED
    BY <1>1, <2>1, <2>2, <2>3, <2>4, ClosedRow
<1> QED
  BY <1>2, <1>3, <1>4

----------------------------------------------------------------------------
LEMMA WorkerStep ==
    ASSUME IInv, NEW r \in Runs, Worker(r)
    PROVE  OnlyRow(r) /\ RowInv(r)'
<1>1. CASE PrepareProviderJob(r)
  BY <1>1, PrepareStep
<1>2. ASSUME NEW obs \in ActiveJobStates, NEW task \in Tasks \cup {NoTask},
             RecordProviderJobObservation(r, obs, task)
      PROVE  OnlyRow(r) /\ RowInv(r)'
  BY <1>2, ObservationStep
<1>3. ASSUME NEW task \in Tasks, NEW claim \in Claims, CompleteProviderJob(r, task, claim)
      PROVE  OnlyRow(r) /\ RowInv(r)'
  BY <1>3, CompletionStep
<1>4. ASSUME NEW res \in CancelResults, NEW reason \in CancelReasons,
             RecordProviderCancellation(r, res, reason)
      PROVE  OnlyRow(r) /\ RowInv(r)'
  BY <1>4, CancellationStep
<1>5. ASSUME NEW state \in {"SUCCEEDED", "FAILED"}, FinalizeShotRun(r, state)
      PROVE  OnlyRow(r) /\ RowInv(r)'
  BY <1>5, FinalizeStep
<1> QED
  BY <1>1, <1>2, <1>3, <1>4, <1>5 DEF Worker

LEMMA NextIInv == IInv /\ [Next]_vars => IInv'
<1> SUFFICES ASSUME IInv, [Next]_vars PROVE IInv'
  OBVIOUS
<1>1. ASSUME NEW r \in Runs, ControlPlane(r) PROVE IInv'
  BY <1>1, ControlPlaneStep, OneRowSuffices
<1>2. ASSUME NEW r \in Runs, Worker(r) PROVE IInv'
  BY <1>2, WorkerStep, OneRowSuffices
<1>3. CASE UNCHANGED vars
  BY <1>3 DEF vars, IInv, TypeOK, LedgerMatchesReservation, MoneyTablesAgree,
              OutcomesAgree, OneOutcome
<1> QED
  BY <1>1, <1>2, <1>3 DEF Next

\* The inductive invariant holds of every history of transactions.
THEOREM Invariance == Spec => []IInv
<1> QED
  BY InitIInv, NextIInv, PTL DEF Spec

\* Every column keeps a value of its CHECK constraint.
THEOREM TypeCorrect == Spec => []TypeOK
<1>1. IInv => TypeOK
  BY DEF IInv
<1> QED
  BY <1>1, Invariance, PTL

\* Reservation, job and ledger entries of every run always tell one story.
THEOREM MoneyTablesNeverDrift == Spec => []LedgerMatchesReservation
<1>1. IInv => LedgerMatchesReservation
  BY DEF IInv
<1> QED
  BY <1>1, Invariance, PTL

\* Run, attempt and job agree on the outcome, and no terminal run holds budget.
THEOREM OneOutcomeForAll == Spec => []OutcomesAgree
<1>1. IInv => OutcomesAgree
  BY DEF IInv
<1> QED
  BY <1>1, Invariance, PTL

\* The cumulative allocation of an approval can always be read back: a
\* release is booked under the terminal state its run really has.
THEOREM ApprovalAlwaysReadable == Spec => []ApprovalStaysReadable
<1>1. IInv => ApprovalStaysReadable
  <2> SUFFICES ASSUME IInv, NEW r \in Runs, reservation[r] = "RELEASED"
               PROVE  \/ /\ run[r] = "CANCELLED"
                         /\ Entry("RELEASE_CANCELLED", Estimate[r], TRUE) \in ledger[r]
                      \/ /\ run[r] = "FAILED"
                         /\ Entry("RELEASE_FAILED", Estimate[r], TRUE) \in ledger[r]
    BY DEF ApprovalStaysReadable, ReleaseReadable
  <2>1. /\ job[r] \in {"FAILED", "CANCELLED"} /\ run[r] = job[r]
        /\ Entry(ReleaseName(job[r]), Estimate[r], TRUE) \in ledger[r]
    BY DEF IInv, LedgerMatchesReservation, MoneyTablesAgree, OutcomesAgree, OneOutcome
  <2> QED
    BY <2>1 DEF ReleaseName
<1> QED
  BY <1>1, Invariance, PTL

----------------------------------------------------------------------------
(***************************************************************************)
(* What a step may never do to the row it writes.                          *)
(***************************************************************************)
StaysFinal(r) ==
    /\ run[r] \in Terminal => run'[r] = run[r]
    /\ job[r] \in Terminal => job'[r] = job[r]

StaysCharged(r) ==
    upstream[r] # NoTask =>
        /\ reservation'[r] # "RELEASED"
        /\ upstream'[r] = upstream[r] \/ job'[r] \in Terminal

\* A closed row with a known task was not closed by a release.
LEMMA KnownTaskNotReleased ==
    ASSUME IInv, NEW r \in Runs, upstream[r] # NoTask
    PROVE  reservation[r] # "RELEASED"
BY RowOfIInv DEF RowInv, MoneyTablesAgree

LEMMA PaidUnchanged ==
    ASSUME IInv, NEW r \in Runs, UNCHANGED paid
    PROVE  StaysCharged(r) /\ (job[r] \in Terminal => job'[r] = job[r])
BY KnownTaskNotReleased DEF StaysCharged, paid

LEMMA ReleaseSafe ==
    ASSUME IInv, NEW r \in Runs, NEW reason, Release(r, reason)
    PROVE  StaysCharged(r) /\ (job[r] \in Terminal => job'[r] = job[r])
<1>1. CASE reservation[r] = "RESERVED"
  BY <1>1 DEF Release, ReleaseAccepted, StaysCharged, Terminal, ActiveJobStates
<1>2. CASE reservation[r] # "RESERVED"
  BY <1>2, PaidUnchanged DEF Release
<1> QED
  BY <1>1, <1>2

LEMMA SettleSafe ==
    ASSUME IInv, NEW r \in Runs, NEW outcome \in {"CANCELLED", "FAILED"}, NEW task,
           NEW claim, Settle(r, outcome, task, claim)
    PROVE  StaysCharged(r) /\ (job[r] \in Terminal => job'[r] = job[r])
<1>1. CASE reservation[r] = "RESERVED"
  <2>1. /\ job[r] \in ActiveJobStates
        /\ job' = [job EXCEPT ![r] = outcome]
        /\ reservation' = [reservation EXCEPT ![r] = "SETTLED"]
    BY <1>1 DEF Settle, SettleAccepted
  <2>2. job'[r] = outcome /\ reservation'[r] = "SETTLED"
    BY <2>1 DEF IInv, TypeOK
  <2> QED
    BY <2>1, <2>2 DEF StaysCharged, Terminal, ActiveJobStates
<1>2. CASE reservation[r] # "RESERVED"
  BY <1>2, PaidUnchanged DEF Settle
<1> QED
  BY <1>1, <1>2

LEMMA WorkerSafe ==
    ASSUME IInv, NEW r \in Runs, Worker(r)
    PROVE  StaysFinal(r) /\ StaysCharged(r)
<1>1. CASE PrepareProviderJob(r)
  <2>1. /\ run[r] \notin Terminal /\ reservation[r] = "NONE"
        /\ reservation'[r] = "RESERVED" /\ UNCHANGED upstream
    BY <1>1 DEF PrepareProviderJob, MayCreatePaidJob, IInv, TypeOK
  <2>2. job[r] = "NONE"
    BY <2>1, RowOfIInv DEF RowInv, MoneyTablesAgree
  <2> QED
    BY <2>1, <2>2 DEF StaysFinal, StaysCharged, Terminal
<1>2. ASSUME NEW obs \in ActiveJobStates, NEW task \in Tasks \cup {NoTask},
             RecordProviderJobObservation(r, obs, task)
      PROVE  StaysFinal(r) /\ StaysCharged(r)
  <2>1. /\ run[r] \notin Terminal /\ job[r] \in ActiveJobStates /\ UNCHANGED reservation
        /\ upstream' = [upstream EXCEPT ![r] = IF @ = NoTask THEN task ELSE @]
    BY <1>2 DEF RecordProviderJobObservation, ObservationAccepted
  <2>2. upstream[r] # NoTask => upstream'[r] = upstream[r]
    BY <2>1 DEF IInv, TypeOK
  <2> QED
    BY <2>1, <2>2, KnownTaskNotReleased DEF StaysFinal, StaysCharged, Terminal, ActiveJobStates
<1>3. ASSUME NEW task \in Tasks, NEW claim \in Claims, CompleteProviderJob(r, task, claim)
      PROVE  StaysFinal(r) /\ StaysCharged(r)
  <2>1. CASE CompleteWithinBudget(r, task, claim) \/ CompleteOverBudget(r, task, claim)
    <3>1. /\ run[r] \notin Terminal /\ job[r] \in ActiveJobStates
          /\ reservation'[r] = "SETTLED" /\ job'[r] \in {"SUCCEEDED", "FAILED"}
      BY <2>1 DEF CompleteWithinBudget, CompleteOverBudget, CompletionOpen, IInv, TypeOK
    <3> QED
      BY <3>1 DEF StaysFinal, StaysCharged, Terminal, ActiveJobStates
  <2>2. CASE ReplayCompletion(r, task, claim)
    <3>1. UNCHANGED paid /\ (run[r] \in Terminal => run'[r] = run[r])
      BY <2>2 DEF ReplayCompletion, ReplayAccepted, Terminal, IInv, TypeOK
    <3> QED
      BY <3>1, PaidUnchanged DEF StaysFinal
  <2> QED
    BY <1>3, <2>1, <2>2 DEF CompleteProviderJob
<1>4. ASSUME NEW res \in CancelResults, NEW reason \in CancelReasons,
             RecordProviderCancellation(r, res, reason)
      PROVE  StaysFinal(r) /\ StaysCharged(r)
  <2>1. CASE KeepSucceeded(r)
    BY <2>1, PaidUnchanged DEF KeepSucceeded, StaysFinal
  <2>2. CASE ConfirmCancelled(r, res)
    <3>1. CASE run[r] \in {"SUCCEEDED", "FAILED"}
      BY <2>2, <3>1, PaidUnchanged DEF ConfirmCancelled, StaysFinal, vars, paid
    <3>2. CASE run[r] \notin {"SUCCEEDED", "FAILED"}
      <4>1. run' = [run EXCEPT ![r] = "CANCELLED"]
        BY <2>2, <3>2 DEF ConfirmCancelled
      <4>2. run[r] \in Terminal => run'[r] = run[r]
        BY <3>2, <4>1 DEF Terminal, IInv, TypeOK
      <4>3. StaysCharged(r) /\ (job[r] \in Terminal => job'[r] = job[r])
        BY <2>2, <3>2, ReleaseSafe, SettleSafe DEF ConfirmCancelled
      <4> QED
        BY <4>2, <4>3 DEF StaysFinal
    <3> QED
      BY <3>1, <3>2
  <2>3. CASE ConfirmFailed(r, res)
    <3>1. run' = [run EXCEPT ![r] = "FAILED"] /\ run[r] \notin {"SUCCEEDED", "CANCELLED"}
      BY <2>3 DEF ConfirmFailed
    <3>2. run[r] \in Terminal => run'[r] = run[r]
      BY <3>1 DEF Terminal, IInv, TypeOK
    <3>3. StaysCharged(r) /\ (job[r] \in Terminal => job'[r] = job[r])
      BY <2>3, SettleSafe DEF ConfirmFailed
    <3> QED
      BY <3>2, <3>3 DEF StaysFinal
  <2>4. CASE RemainUnknown(r, reason)
    <3>1. CASE run[r] \in Terminal
      BY <2>4, <3>1, PaidUnchanged DEF RemainUnknown, StaysFinal, vars, paid
    <3>2. CASE run[r] \notin Terminal
      <4>1. /\ UNCHANGED <<upstream, reservation>>
            /\ job' = [job EXCEPT ![r] = IF @ \in ActiveJobStates THEN "UNKNOWN" ELSE @]
        BY <2>4, <3>2 DEF RemainUnknown
      <4>2. job[r] \in Terminal => job'[r] = job[r]
        BY <4>1 DEF IInv, TypeOK, Terminal, ActiveJobStates
      <4> QED
        BY <3>2, <4>1, <4>2, KnownTaskNotReleased DEF StaysFinal, StaysCharged
    <3> QED
      BY <3>1, <3>2
  <2> QED
    BY <1>4, <2>1, <2>2, <2>3, <2>4 DEF RecordProviderCancellation
<1>5. ASSUME NEW state \in {"SUCCEEDED", "FAILED"}, FinalizeShotRun(r, state)
      PROVE  StaysFinal(r) /\ StaysCharged(r)
  <2>1. CASE run[r] = "SUCCEEDED"
    BY <1>5, <2>1, PaidUnchanged DEF FinalizeShotRun, StaysFinal, vars, paid
  <2>2. CASE run[r] # "SUCCEEDED"
    <3>1. run' = [run EXCEPT ![r] = state] /\ (Release(r, "FAILED") \/ UNCHANGED paid)
      BY <1>5, <2>2 DEF FinalizeShotRun
    <3>2. run[r] \in {"FAILED", "CANCELLED"} => state = run[r]
      BY <1>5 DEF FinalizeShotRun, FinalizeAccepted
    <3>3. run[r] \in Terminal => run'[r] = run[r]
      BY <2>2, <3>1, <3>2 DEF Terminal, IInv, TypeOK
    <3> QED
      BY <3>1, <3>3, ReleaseSafe, PaidUnchanged DEF StaysFinal
  <2> QED
    BY <2>1, <2>2
<1> QED
  BY <1>1, <1>2, <1>3, <1>4, <1>5 DEF Worker

LEMMA ControlPlaneSafe ==
    ASSUME IInv, NEW r \in Runs, ControlPlane(r)
    PROVE  StaysFinal(r) /\ StaysCharged(r)
<1>1. UNCHANGED paid
  BY DEF ControlPlane, CreateGenerationRun, RequestRunPause, RequestRunCancellation,
         ResumePaused, RequestRecovery, MarkRunQueued
<1>2. run[r] \in Terminal => run'[r] = run[r]
  BY DEF ControlPlane, CreateGenerationRun, RequestRunPause, RequestRunCancellation,
         ResumePaused, RequestRecovery, MarkRunQueued, Pausable, Cancellable, Recoverable,
         Terminal, IInv, TypeOK
<1> QED
  BY <1>1, <1>2, PaidUnchanged DEF StaysFinal

LEMMA NextSafe ==
    ASSUME IInv, [Next]_vars, NEW s \in Runs
    PROVE  StaysFinal(s) /\ StaysCharged(s)
<1>1. ASSUME NEW r \in Runs, ControlPlane(r) \/ Worker(r)
      PROVE  StaysFinal(s) /\ StaysCharged(s)
  <2>1. CASE s = r
    BY <1>1, <2>1, ControlPlaneSafe, WorkerSafe
  <2>2. CASE s # r
    <3>1. OnlyRow(r)
      BY <1>1, ControlPlaneStep, WorkerStep
    <3>2. /\ run'[s] = run[s] /\ job'[s] = job[s] /\ upstream'[s] = upstream[s]
          /\ reservation'[s] = reservation[s]
      BY <2>2, <3>1 DEF OnlyRow, IInv, TypeOK
    <3> QED
      BY <3>2, KnownTaskNotReleased DEF StaysFinal, StaysCharged
  <2> QED
    BY <2>1, <2>2
<1>2. CASE UNCHANGED vars
  BY <1>2, KnownTaskNotReleased DEF StaysFinal, StaysCharged, vars
<1> QED
  BY <1>1, <1>2 DEF Next

\* The first terminal outcome of a run and of its job is never replaced.
THEOREM TerminalForever == Spec => TerminalIsFinal
<1>1. IInv /\ [Next]_vars =>
        \A r \in Runs : /\ run[r] \in Terminal => run'[r] = run[r]
                        /\ job[r] \in Terminal => job'[r] = job[r]
  BY NextSafe DEF StaysFinal
<1> QED
  BY <1>1, Invariance, PTL DEF Spec, TerminalIsFinal

\* Budget held for a task that is known to exist upstream is never handed back.
THEOREM KnownTaskNeverReleased == Spec => KnownTaskStaysCharged
<1>1. IInv /\ [Next]_vars =>
        \A r \in Runs : upstream[r] # NoTask =>
          /\ reservation'[r] # "RELEASED"
          /\ upstream'[r] = upstream[r] \/ job'[r] \in Terminal
  BY NextSafe DEF StaysCharged
<1> QED
  BY <1>1, Invariance, PTL DEF Spec, KnownTaskStaysCharged

----------------------------------------------------------------------------
(***************************************************************************)
(* Refinement: every transaction is a step of the account of one budget    *)
(* approval or leaves that account alone.                                  *)
(***************************************************************************)
LEMMA AllocationTyped == \A r \in Runs : RowType(r) => Allocation(r) \in Nat
<1> SUFFICES ASSUME NEW r \in Runs, RowType(r) PROVE Allocation(r) \in Nat
  OBVIOUS
<1>1. Estimate[r] \in Nat
  BY EstimateAssumption
<1>2. \A e \in TrustedActuals(r) : e.micros \in Nat
  BY DEF RowType, TrustedActuals, EntrySet
<1>3. TrustedActuals(r) # {} => (CHOOSE e \in TrustedActuals(r) : TRUE) \in TrustedActuals(r)
  OBVIOUS
<1>4. TrustedActuals(r) # {} => (CHOOSE e \in TrustedActuals(r) : TRUE).micros \in Nat
  BY <1>2, <1>3
<1> QED
  BY <1>1, <1>4 DEF RowType, ReservationStates, Allocation

LEMMA AllocationTypedNext == (\A r \in Runs : RowType(r) => Allocation(r) \in Nat)'
BY AllocationTyped, PTL

LEMMA OtherAllocations ==
    ASSUME IInv, NEW r \in Runs, OnlyRow(r)
    PROVE  \A s \in Runs : s # r => Allocation(s)' = Allocation(s)
<1> SUFFICES ASSUME NEW s \in Runs, s # r PROVE Allocation(s)' = Allocation(s)
  OBVIOUS
<1>1. reservation'[s] = reservation[s] /\ ledger'[s] = ledger[s]
  BY DEF OnlyRow, IInv, TypeOK
<1> QED
  BY <1>1 DEF Allocation, TrustedActuals

accountOf == [r \in Runs |-> Allocation(r)]

LEMMA AccountChange ==
    ASSUME IInv, NEW r \in Runs, OnlyRow(r)
    PROVE  accountOf' = [accountOf EXCEPT ![r] = Allocation(r)']
BY OtherAllocations DEF accountOf

LEMMA AccountUnchanged ==
    ASSUME UNCHANGED <<reservation, ledger>>
    PROVE  accountOf' = accountOf
BY DEF accountOf, Allocation, TrustedActuals

\* What the transactions do to a reservation.
HoldOpened(r) ==
    /\ reservation[r] = "NONE" /\ reservation'[r] = "RESERVED"
    /\ Allocated <= Approved - Estimate[r]

HoldClosed(r) ==
    reservation[r] = "RESERVED" /\ reservation'[r] \in {"SETTLED", "RELEASED"}

LEMMA HoldMoves ==
    ASSUME IInv, NEW r \in Runs, ControlPlane(r) \/ Worker(r)
    PROVE  \/ HoldOpened(r)
           \/ HoldClosed(r)
           \/ UNCHANGED <<reservation, ledger>>
<1>1. CASE ControlPlane(r)
  BY <1>1 DEF ControlPlane, CreateGenerationRun, RequestRunPause, RequestRunCancellation,
         ResumePaused, RequestRecovery, MarkRunQueued, paid
<1>2. CASE PrepareProviderJob(r)
  BY <1>2 DEF PrepareProviderJob, MayCreatePaidJob, AdmitsReservation, HoldOpened,
         IInv, TypeOK
<1>3. ASSUME NEW obs, NEW task, RecordProviderJobObservation(r, obs, task)
      PROVE  UNCHANGED <<reservation, ledger>>
  BY <1>3 DEF RecordProviderJobObservation
<1>4. ASSUME NEW task \in Tasks, NEW claim \in Claims, CompleteProviderJob(r, task, claim)
      PROVE  HoldClosed(r) \/ UNCHANGED <<reservation, ledger>>
  <2>1. CASE CompleteWithinBudget(r, task, claim) \/ CompleteOverBudget(r, task, claim)
    <3>1. job[r] \in ActiveJobStates /\ reservation'[r] = "SETTLED"
      BY <2>1 DEF CompleteWithinBudget, CompleteOverBudget, CompletionOpen, IInv, TypeOK
    <3> QED
      BY <3>1, RowOfIInv, OpenJobIsReserved DEF HoldClosed
  <2>2. CASE ReplayCompletion(r, task, claim)
    BY <2>2 DEF ReplayCompletion, paid
  <2> QED
    BY <1>4, <2>1, <2>2 DEF CompleteProviderJob
<1>5. ASSUME NEW reason, Release(r, reason)
      PROVE  HoldClosed(r) \/ UNCHANGED <<reservation, ledger>>
  BY <1>5 DEF Release, HoldClosed, paid, IInv, TypeOK
<1>6. ASSUME NEW outcome, NEW task, NEW claim, Settle(r, outcome, task, claim)
      PROVE  HoldClosed(r) \/ UNCHANGED <<reservation, ledger>>
  BY <1>6 DEF Settle, HoldClosed, paid, IInv, TypeOK
<1>7. ASSUME NEW res, NEW reason, RecordProviderCancellation(r, res, reason)
      PROVE  HoldClosed(r) \/ UNCHANGED <<reservation, ledger>>
  BY <1>5, <1>6, <1>7 DEF RecordProviderCancellation, KeepSucceeded, ConfirmCancelled,
         ConfirmFailed, RemainUnknown, vars, paid
<1>8. ASSUME NEW state, FinalizeShotRun(r, state), state \in {"SUCCEEDED", "FAILED"}
      PROVE  HoldClosed(r) \/ UNCHANGED <<reservation, ledger>>
  BY <1>5, <1>8 DEF FinalizeShotRun, vars, paid
<1> QED
  BY <1>1, <1>2, <1>3, <1>4, <1>7, <1>8 DEF Worker

LEMMA BudgetInit == Init => Budget!Init
BY DEF Init, Budget!Init, Allocation

LEMMA BudgetNext == IInv /\ [Next]_vars => [Budget!Next]_(Budget!accounts)
<1> SUFFICES ASSUME IInv, [Next]_vars PROVE [Budget!Next]_(Budget!accounts)
  OBVIOUS
<1>1. ASSUME NEW r \in Runs, ControlPlane(r) \/ Worker(r)
      PROVE  [Budget!Next]_(Budget!accounts)
  <2>1. OnlyRow(r) /\ RowInv(r)'
    BY <1>1, ControlPlaneStep, WorkerStep
  <2>2. /\ reservation' = [reservation EXCEPT ![r] = reservation'[r]]
        /\ accountOf' = [accountOf EXCEPT ![r] = Allocation(r)']
    BY <2>1, AccountChange DEF OnlyRow
  <2>3. Allocation(r)' \in Nat /\ accountOf'[r] = Allocation(r)'
    BY <2>1, AllocationTypedNext DEF accountOf, RowInv
  <2>4. CASE HoldOpened(r)
    <3>1. Allocation(r)' = Estimate[r]
      BY <2>4 DEF HoldOpened, Allocation
    <3>2. Budget!Hold(r)
      BY <2>2, <2>4, <3>1 DEF HoldOpened, Budget!Hold, Budget!Occupied, Allocated, accountOf
    <3> QED
      BY <3>2 DEF Budget!Next
  <2>5. CASE HoldClosed(r)
    <3>1. CASE reservation'[r] = "SETTLED"
      <4>1. Budget!Charge(r)
        BY <2>2, <2>3, <2>5, <3>1 DEF HoldClosed, Budget!Charge, accountOf
      <4> QED
        BY <4>1 DEF Budget!Next
    <3>2. CASE reservation'[r] = "RELEASED"
      <4>1. Allocation(r)' = 0
        BY <3>2 DEF Allocation
      <4>2. Budget!Return(r)
        BY <2>2, <2>5, <3>2, <4>1 DEF HoldClosed, Budget!Return, accountOf
      <4> QED
        BY <4>2 DEF Budget!Next
    <3> QED
      BY <2>5, <3>1, <3>2 DEF HoldClosed
  <2>6. CASE UNCHANGED <<reservation, ledger>>
    BY <2>6, AccountUnchanged DEF Budget!accounts, accountOf
  <2> QED
    BY <1>1, <2>4, <2>5, <2>6, HoldMoves
<1>2. CASE UNCHANGED vars
  BY <1>2, AccountUnchanged DEF vars, Budget!accounts, accountOf
<1> QED
  BY <1>1, <1>2 DEF Next

\* The ledger implements the account of one budget approval: one hold per run,
\* granted only within the approval and closed once.
THEOREM Refinement == Spec => ImplementsBudgetApproval
<1> QED
  BY BudgetInit, BudgetNext, Invariance, PTL DEF Spec, ImplementsBudgetApproval, Budget!Spec
----------------------------------------------------------------------------
(***************************************************************************)
(* What is committed under one approval.  A run commits at most its        *)
(* estimate, so a new hold, which the admission compares with everything   *)
(* allocated, cannot carry the sum over the approval; every other          *)
(* transaction leaves the commitment of each run where it was or lowers it.*)
(* The sum over all runs is a fold: FiniteSums says how it changes.        *)
(***************************************************************************)
committedOf == [r \in Runs |-> Committed(r)]

LEMMA CommittedTyped ==
    ASSUME NEW r \in Runs, RowType(r)
    PROVE  /\ Committed(r) \in Nat /\ Committed(r) <= Estimate[r]
           /\ Allocation(r) \in Nat /\ Committed(r) <= Allocation(r)
<1>1. Estimate[r] \in Nat /\ Allocation(r) \in Nat
  BY EstimateAssumption, AllocationTyped
<1> QED
  BY <1>1 DEF Committed

LEMMA CommittedTypedHere ==
    \A r \in Runs : RowType(r) =>
        /\ Committed(r) \in Nat /\ Committed(r) <= Estimate[r]
        /\ Allocation(r) \in Nat /\ Committed(r) <= Allocation(r)
BY CommittedTyped

LEMMA CommittedTypedNext ==
    (\A r \in Runs : RowType(r) =>
        /\ Committed(r) \in Nat /\ Committed(r) <= Estimate[r]
        /\ Allocation(r) \in Nat /\ Committed(r) <= Allocation(r))'
BY CommittedTypedHere, PTL

LEMMA OtherCommitments ==
    ASSUME IInv, NEW r \in Runs, OnlyRow(r), NEW s \in Runs, s # r
    PROVE  Committed(s)' = Committed(s)
BY OtherAllocations DEF Committed

LEMMA CommitmentInit == Init => CommittedWithinApproval
<1> SUFFICES ASSUME Init PROVE CommittedWithinApproval
  OBVIOUS
<1>1. \A r \in Runs : Committed(r) = 0
  <2>1. \A r \in Runs : Allocation(r) = 0 /\ Estimate[r] \in Nat
    BY EstimateAssumption DEF Init, Allocation
  <2> QED
    BY <2>1 DEF Committed
<1>2. \A r \in Runs : committedOf[r] = 0
  BY <1>1 DEF committedOf
<1>3. SumFunctionOnSet(committedOf, Runs) = 0
  BY <1>2, RunsAssumption, SumZero
<1> QED
  BY <1>3, ApprovedAssumption DEF CommittedWithinApproval, Total, committedOf

\* A hold is granted only while everything allocated leaves room for it.
LEMMA OpenedWithinApproval ==
    ASSUME IInv, NEW r \in Runs, OnlyRow(r), HoldOpened(r)
    PROVE  CommittedWithinApproval'
<1> DEFINE before == committedOf
           after  == committedOf'
<1>1. \A s \in Runs : /\ before[s] = Committed(s) /\ after[s] = Committed(s)'
                      /\ accountOf[s] = Allocation(s)
  BY DEF committedOf, accountOf
<1>2. \A s \in Runs : /\ before[s] \in Int /\ accountOf[s] \in Int
                      /\ before[s] <= accountOf[s]
  BY <1>1, CommittedTypedHere, RowOfIInv DEF RowInv
<1>3. before[r] = 0 /\ after[r] = Estimate[r] /\ Estimate[r] \in Nat
  <2>1. Estimate[r] \in Nat /\ Allocation(r) = 0 /\ Allocation(r)' = Estimate[r]
    BY EstimateAssumption DEF HoldOpened, Allocation
  <2>2. Committed(r) = 0 /\ Committed(r)' = Estimate[r]
    BY <2>1 DEF Committed
  <2> QED
    BY <1>1, <2>1, <2>2
<1>4. \A s \in Runs : s # r => after[s] = before[s]
  BY <1>1, OtherCommitments
<1>5. \A s \in Runs : before[s] \in Int /\ after[s] \in Int
  BY <1>2, <1>3, <1>4
<1>6. SumFunctionOnSet(accountOf, Runs) <= Approved - Estimate[r]
  BY DEF HoldOpened, Allocated, Total, accountOf
<1> HIDE DEF before, after
<1>7. SumFunctionOnSet(after, Runs) = SumFunctionOnSet(before, Runs) + Estimate[r]
  <2>1. Estimate[r] \in Int /\ after[r] = before[r] + Estimate[r]
    BY <1>3
  <2> QED
    BY <1>4, <1>5, <2>1, RunsAssumption, SumChange
<1>8. SumFunctionOnSet(before, Runs) <= SumFunctionOnSet(accountOf, Runs)
  BY <1>2, RunsAssumption, SumMonotone
<1>9. /\ SumFunctionOnSet(before, Runs) \in Int /\ SumFunctionOnSet(after, Runs) \in Int
      /\ SumFunctionOnSet(accountOf, Runs) \in Int
  BY <1>2, <1>5, RunsAssumption, SumInt
<1>10. SumFunctionOnSet(after, Runs) <= Approved
  BY <1>3, <1>6, <1>7, <1>8, <1>9, ApprovedAssumption
<1> QED
  BY <1>10, Zenon DEF CommittedWithinApproval, Total, after, committedOf

\* No other transaction raises what a run commits.
LEMMA CommitmentsOnlyFall ==
    ASSUME IInv, IInv', NEW r \in Runs, OnlyRow(r),
           HoldClosed(r) \/ UNCHANGED <<reservation, ledger>>
    PROVE  \A s \in Runs : Committed(s)' <= Committed(s)
<1> SUFFICES ASSUME NEW s \in Runs PROVE Committed(s)' <= Committed(s)
  OBVIOUS
<1>1. /\ Committed(s) \in Nat /\ Committed(s)' \in Nat /\ Committed(s)' <= Estimate[s]
      /\ Estimate[s] \in Nat
  <2>1. RowType(s) /\ RowType(s)'
    BY DEF IInv, TypeOK, RowType, EntrySet
  <2> QED
    BY <2>1, CommittedTypedHere, CommittedTypedNext, EstimateAssumption
<1>2. CASE s # r
  BY <1>1, <1>2, OtherCommitments
<1>3. CASE s = r /\ HoldClosed(r)
  <2>1. Allocation(s) = Estimate[s]
    BY <1>3 DEF HoldClosed, Allocation
  <2>2. Committed(s) = Estimate[s]
    BY <2>1 DEF Committed
  <2> QED
    BY <1>1, <2>2
<1>4. CASE UNCHANGED <<reservation, ledger>>
  <2>1. Committed(s)' = Committed(s)
    BY <1>4 DEF Committed, Allocation, TrustedActuals
  <2> QED
    BY <1>1, <2>1
<1> QED
  BY <1>2, <1>3, <1>4

LEMMA FallingStaysWithin ==
    ASSUME IInv, IInv', CommittedWithinApproval,
           \A s \in Runs : Committed(s)' <= Committed(s)
    PROVE  CommittedWithinApproval'
<1> DEFINE before == committedOf
           after  == committedOf'
<1>1. \A s \in Runs : after[s] \in Int /\ before[s] \in Int /\ after[s] <= before[s]
  <2>1. \A s \in Runs : RowType(s) /\ RowType(s)'
    BY DEF IInv, TypeOK, RowType, EntrySet
  <2>2. \A s \in Runs : Committed(s) \in Nat /\ Committed(s)' \in Nat
    BY <2>1, CommittedTypedHere, CommittedTypedNext
  <2> QED
    BY <2>2 DEF committedOf
<1>2. SumFunctionOnSet(before, Runs) <= Approved
  BY DEF CommittedWithinApproval, Total, committedOf
<1> HIDE DEF before, after
<1>3. SumFunctionOnSet(after, Runs) <= SumFunctionOnSet(before, Runs)
  BY <1>1, RunsAssumption, SumMonotone
<1>4. SumFunctionOnSet(before, Runs) \in Int /\ SumFunctionOnSet(after, Runs) \in Int
  BY <1>1, RunsAssumption, SumInt
<1>5. SumFunctionOnSet(after, Runs) <= Approved
  BY <1>2, <1>3, <1>4, ApprovedAssumption
<1> QED
  BY <1>5, Zenon DEF CommittedWithinApproval, Total, after, committedOf

LEMMA CommitmentNext ==
    ASSUME IInv, IInv', CommittedWithinApproval, [Next]_vars
    PROVE  CommittedWithinApproval'
<1>1. ASSUME NEW r \in Runs, ControlPlane(r) \/ Worker(r)
      PROVE  CommittedWithinApproval'
  <2>1. OnlyRow(r)
    BY <1>1, ControlPlaneStep, WorkerStep
  <2>2. CASE HoldOpened(r)
    BY <2>1, <2>2, OpenedWithinApproval
  <2>3. CASE HoldClosed(r) \/ UNCHANGED <<reservation, ledger>>
    BY <2>1, <2>3, CommitmentsOnlyFall, FallingStaysWithin
  <2> QED
    BY <1>1, <2>2, <2>3, HoldMoves
<1>2. CASE UNCHANGED vars
  BY <1>2 DEF vars, CommittedWithinApproval, Committed, Allocation, TrustedActuals
<1> QED
  BY <1>1, <1>2 DEF Next

\* However many runs share one approval, and in whatever order their
\* transactions commit, what they hold and what they consumed within their own
\* holds never exceeds the approved amount.
THEOREM NeverOvercommitted == Spec => []CommittedWithinApproval
<1>1. IInv /\ IInv' /\ CommittedWithinApproval /\ [Next]_vars => CommittedWithinApproval'
  BY CommitmentNext
<1> QED
  BY <1>1, CommitmentInit, Invariance, PTL DEF Spec
=============================================================================
