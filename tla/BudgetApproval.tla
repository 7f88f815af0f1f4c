--------------------------- MODULE BudgetApproval ---------------------------
(***************************************************************************)
(* What the ledger promises about one budget approval, independently of    *)
(* runs, jobs and providers: every run gets at most one hold, a hold is    *)
(* granted only while everything allocated so far and the new hold fit the *)
(* approval, and a hold is closed once, by a charge or by its return.      *)
(* A charge may exceed its hold, because the provider has already billed   *)
(* it; such an overrun counts against later holds.                         *)
(***************************************************************************)
EXTENDS Integers

CONSTANTS
    Runs, Approved, Estimate,
    Total(_)     \* the sum of the amounts that a function gives to Runs

VARIABLES
    hold,        \* NONE, RESERVED, SETTLED or RELEASED
    allocation   \* micros of the approval each run occupies

accounts == <<hold, allocation>>

Occupied == Total(allocation)

Init ==
    /\ hold = [r \in Runs |-> "NONE"]
    /\ allocation = [r \in Runs |-> 0]

Hold(r) ==
    /\ hold[r] = "NONE"
    /\ Occupied <= Approved - Estimate[r]
    /\ hold' = [hold EXCEPT ![r] = "RESERVED"]
    /\ allocation' = [allocation EXCEPT ![r] = Estimate[r]]

Charge(r) ==
    /\ hold[r] = "RESERVED"
    /\ hold' = [hold EXCEPT ![r] = "SETTLED"]
    /\ allocation'[r] \in Nat
    /\ allocation' = [allocation EXCEPT ![r] = allocation'[r]]

Return(r) ==
    /\ hold[r] = "RESERVED"
    /\ hold' = [hold EXCEPT ![r] = "RELEASED"]
    /\ allocation' = [allocation EXCEPT ![r] = 0]

Next == \E r \in Runs : Hold(r) \/ Charge(r) \/ Return(r)

Spec == Init /\ [][Next]_accounts
=============================================================================
