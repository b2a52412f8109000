------------------------------ MODULE LoanStates ------------------------------
(* The vocabulary of the loan module: the states of a loan_applications row,   *)
(* the table of legal moves, and the amount above which a loan needs a second  *)
(* approver.  Shared by the abstract contract and by the service.              *)
EXTENDS Naturals

\* The loan_state enum, without "written_off"'s producer: no handler sets it.
LoanState == {"draft", "submitted", "under_review", "pending_second_approval",
              "approved", "rejected", "disbursed", "repaying", "closed",
              "defaulted", "written_off"}

\* A loan id for which loan_applications has no row yet.
NoLoan == "no_loan"

\* VALID_TRANSITIONS of loan.service.ts, as the set of its (from, to) pairs.
VALID_TRANSITIONS ==
  {<<"draft", "submitted">>,
   <<"submitted", "under_review">>,
   <<"submitted", "rejected">>,
   <<"under_review", "approved">>,
   <<"under_review", "rejected">>,
   <<"under_review", "pending_second_approval">>,
   <<"pending_second_approval", "approved">>,
   <<"pending_second_approval", "rejected">>,
   <<"approved", "disbursed">>,
   <<"approved", "rejected">>,
   <<"disbursed", "repaying">>,
   <<"repaying", "closed">>,
   <<"repaying", "defaulted">>,
   <<"defaulted", "written_off">>}

\* Rupees; amounts strictly above it are "large".
DUAL_APPROVAL_THRESHOLD == 200000

IsLarge(amount) == amount > DUAL_APPROVAL_THRESHOLD

\* The states findActiveByUser looks for: a borrower with a loan in one of
\* them may not apply again.
ActiveStates == {"draft", "submitted", "under_review",
                 "pending_second_approval", "approved", "disbursed",
                 "repaying"}

\* The states that follow the transfer of the money.
PaidOutStates == {"disbursed", "repaying", "closed", "defaulted",
                  "written_off"}
===============================================================================
