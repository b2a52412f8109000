--------------------------- MODULE LoanContractProofs ---------------------------
(* The contract of the loan module keeps its own promise, for every set of     *)
(* applications.                                                               *)
EXTENDS LoanContract, TLAPS

\* Every state pins down the signatures collected so far.
SignaturesInv ==
  \A l \in Loans :
    /\ status[l] \in {NoLoan, "submitted", "under_review"} => signatures[l] = 0
    /\ status[l] = "pending_second_approval" =>
         signatures[l] = 1 /\ required[l] = 2
    /\ status[l] \in {"approved"} \cup PaidOutStates =>
         signatures[l] = required[l]

\* No operation of the contract approves or pays out a loan that lacks a
\* signature makeDecision's threshold calls for.
THEOREM ContractKept == ContractSpec => []SignedBeforeApproval
<1> DEFINE Inv == ContractTypeOK /\ SignaturesInv
<1>1. ContractInit => Inv
  BY DEF ContractInit, ContractTypeOK, SignaturesInv, PaidOutStates, NoLoan
<1>2. Inv /\ [ContractNext]_contractVars => Inv'
  <2> SUFFICES ASSUME Inv, [ContractNext]_contractVars PROVE Inv'
    OBVIOUS
  <2> USE DEF ContractTypeOK, SignaturesInv, PaidOutStates, NoLoan, LoanState, Move
  <2>1. CASE UNCHANGED contractVars
    BY <2>1 DEF contractVars
  <2>2. ASSUME NEW l \in Loans, Submit(l) PROVE Inv'
    BY <2>2 DEF Submit
  <2>3. ASSUME NEW l \in Loans, Review(l) PROVE Inv'
    BY <2>3 DEF Review
  <2>4. ASSUME NEW l \in Loans, FirstSignature(l) PROVE Inv'
    BY <2>4 DEF FirstSignature
  <2>5. ASSUME NEW l \in Loans, SecondSignature(l) PROVE Inv'
    BY <2>5 DEF SecondSignature
  <2>6. ASSUME NEW l \in Loans, Reject(l) PROVE Inv'
    BY <2>6 DEF Reject
  <2>7. ASSUME NEW l \in Loans, Disburse(l) PROVE Inv'
    BY <2>7 DEF Disburse
  <2>8. ASSUME NEW l \in Loans, Repay(l) PROVE Inv'
    BY <2>8 DEF Repay
  <2>9. ASSUME NEW l \in Loans, Settle(l) PROVE Inv'
    BY <2>9 DEF Settle
  <2> QED
    BY <2>1, <2>2, <2>3, <2>4, <2>5, <2>6, <2>7, <2>8, <2>9 DEF ContractNext
<1>3. Inv => SignedBeforeApproval
  BY DEF SignaturesInv, SignedBeforeApproval
<1> QED
  BY <1>1, <1>2, <1>3, PTL DEF ContractSpec
===============================================================================
