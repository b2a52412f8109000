---------------------------- MODULE MCLoanService -----------------------------
(* Finite instances of the loan service.                                       *)
EXTENDS LoanRefinement

CONSTANTS r1, r2

\* The threshold and the first amount above it.
MCAmounts == {200000, 200001}
===============================================================================
