SPECIFICATION Spec
CONSTANTS
    r1 = r1
    r2 = r2
    Runs = {r1, r2}
    Approved = 4
    Estimate <- MCEstimate
    Actuals = {1, 3}
    Tasks = {t1, t2}
    NoTask = NoTask
INVARIANTS
    TypeOK
    LedgerMatchesReservation
    CommittedWithinApproval
    ApprovalStaysReadable
    OutcomesAgree
PROPERTIES
    TerminalIsFinal
    KnownTaskStaysCharged
    ImplementsBudgetApproval
