---------------------------- MODULE LoanRefinement ----------------------------
(* The loan service, serving one request at a time, implements LoanContract.   *)
EXTENDS LoanService

Signatures(row) ==
  IF row.second_approver_id # Null THEN 2
  ELSE IF row.lender_id # Null THEN 1 ELSE 0

\* The contract's state is read off the row: an UPDATE is the contract's step,
\* every other statement of a handler is a stutter.
Contract == INSTANCE LoanContract WITH
  status <- [l \in Loans |-> loan[l].state],
  required <- [l \in Loans |-> IF IsLarge(loan[l].amount_requested)
                               THEN 2 ELSE 1],
  signatures <- [l \in Loans |-> Signatures(loan[l])]

\* Requests one after the other, each possibly cut off between two statements,
\* make the contract's moves and no other.
ImplementsContract == Contract!ContractSpec
===============================================================================
