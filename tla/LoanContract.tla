----------------------------- MODULE LoanContract -----------------------------
(* What the loan module promises about one application, with every operation   *)
(* as one atomic step: the moves of VALID_TRANSITIONS, taken one at a time,    *)
(* and money out only under as many signatures as the amount requires.         *)
(* LoanService, serving one request at a time, implements this contract.       *)
EXTENDS LoanStates

CONSTANTS
  Loans          \* the applications

VARIABLES
  status,        \* status[l]: a loan state, or NoLoan before the application
  required,      \* required[l]: signatures the amount calls for, 1 or 2
  signatures     \* signatures[l]: approvers who have signed so far

contractVars == <<status, required, signatures>>

ContractTypeOK ==
  /\ status \in [Loans -> LoanState \cup {NoLoan}]
  /\ required \in [Loans -> 1..2]
  /\ signatures \in [Loans -> 0..2]

ContractInit ==
  /\ status = [l \in Loans |-> NoLoan]
  /\ required = [l \in Loans |-> 1]
  /\ signatures = [l \in Loans |-> 0]

Move(l, from, to) ==
  /\ status[l] = from
  /\ status' = [status EXCEPT ![l] = to]

Submit(l) ==
  /\ Move(l, NoLoan, "submitted")
  /\ \E n \in 1..2 : required' = [required EXCEPT ![l] = n]
  /\ UNCHANGED signatures

Review(l) ==
  /\ Move(l, "submitted", "under_review")
  /\ UNCHANGED <<required, signatures>>

\* The only signature a small loan needs, or the first of a large one.
FirstSignature(l) ==
  /\ Move(l, "under_review",
          IF required[l] = 2 THEN "pending_second_approval" ELSE "approved")
  /\ signatures' = [signatures EXCEPT ![l] = 1]
  /\ UNCHANGED required

SecondSignature(l) ==
  /\ Move(l, "pending_second_approval", "approved")
  /\ signatures' = [signatures EXCEPT ![l] = @ + 1]
  /\ UNCHANGED required

\* The rejecting officer is on record as well.
Reject(l) ==
  /\ \/ Move(l, "under_review", "rejected")
     \/ Move(l, "pending_second_approval", "rejected")
  /\ signatures' = [signatures EXCEPT ![l] = 1]
  /\ UNCHANGED required

Disburse(l) ==
  /\ signatures[l] >= required[l]
  /\ Move(l, "approved", "disbursed")
  /\ UNCHANGED <<required, signatures>>

Repay(l) ==
  /\ Move(l, "disbursed", "repaying")
  /\ UNCHANGED <<required, signatures>>

Settle(l) ==
  /\ \/ Move(l, "repaying", "closed")
     \/ Move(l, "repaying", "defaulted")
  /\ UNCHANGED <<required, signatures>>

ContractNext ==
  \E l \in Loans :
    \/ Submit(l) \/ Review(l) \/ FirstSignature(l) \/ SecondSignature(l)
    \/ Reject(l) \/ Disburse(l) \/ Repay(l) \/ Settle(l)

ContractSpec == ContractInit /\ [][ContractNext]_contractVars

\* An approved or paid-out loan carries every signature its amount requires.
\* (Guard of Disburse aside, this is what makeDecision's routing establishes.)
SignedBeforeApproval ==
  \A l \in Loans :
    status[l] \in {"approved"} \cup PaidOutStates => signatures[l] = required[l]
===============================================================================
