------------------------------ MODULE LoanProofs ------------------------------
(* Safety of the loan service for every set of borrowers, officers, loans and  *)
(* concurrent requests, and every number of failures.                          *)
EXTENDS LoanRefinement, TLAPS

(*--------------------------- The inductive invariant -------------------------*)

\* What has happened to a row by the time it is in state s.  All of it is
\* monotone: no UPDATE takes it back, so a request that read s long ago may
\* still rely on it when it writes.
Reached(row, s) ==
  /\ s = "pending_second_approval" =>
       IsLarge(row.amount_requested) /\ row.lender_id # Null
  /\ s \in {"approved"} \cup PaidOutStates =>
       /\ row.decided
       /\ IsLarge(row.amount_requested) =>
            row.lender_id # Null /\ row.second_approver_id # Null
  /\ s \in PaidOutStates => row.disbursed

RowInv(row, known) ==
  /\ Reached(row, row.state)
  /\ row.disbursed => row.decided
  /\ row.closed => row.disbursed
  /\ row.state # NoLoan => row.user \in known

\* The steps of a request that works on an existing row.
OnLoan == {"update", "record", "stamp", "effects"}

DecisionInv(q, row) ==
  /\ q.actor \in Staff
  /\ q.from \in DecisionStates
  /\ q.to \in {"approved", "rejected", "pending_second_approval"}
  /\ q.to = "pending_second_approval" => IsLarge(row.amount_requested)
  /\ q.to = "approved" /\ IsLarge(row.amount_requested) =>
       q.from = "pending_second_approval"

\* The other handlers that UPDATE a row, and the move each of them makes.
MoveInv(q) ==
  \/ q.op = "submitForReview" /\ q.to = "under_review"
  \/ q.op = "disburse" /\ q.from = "approved" /\ q.to = "disbursed"
  \/ q.op = "markRepaying" /\ q.from = "disbursed" /\ q.to = "repaying"
  \/ q.op = "closeLoan" /\ q.from = "repaying" /\ q.to = "closed"
  \/ q.op = "triggerDefault" /\ q.from = "repaying" /\ q.to = "defaulted"

\* A request q that works on the given row, whose history has the given rows.
ReqInv(q, row, rows, kyc, sc) ==
  /\ q.step \in {"active", "score", "create"} =>
       /\ q.actor \in kyc
       /\ q.op = "apply"
       /\ q.from = "draft" /\ q.to = "submitted"
       /\ q.step = "create" => q.actor \in sc
  /\ q.step \in OnLoan =>
       /\ q.loan \in Loans
       /\ row.state # NoLoan
       /\ <<q.from, q.to>> \in VALID_TRANSITIONS
       /\ Reached(row, q.from)
  /\ q.step = "update" =>
       IF q.op = "makeDecision" THEN DecisionInv(q, row) ELSE MoveInv(q)
  /\ q.step \in OnLoan /\ q.op = "closeLoan" => q.from = "repaying"
  /\ q.step = "stamp" => q.op = "closeLoan"
  /\ q.step \in {"stamp", "effects"} => \E h \in rows : h[2] = q.to

RowsInv == \A l \in Loans : RowInv(loan[l], kycDone \cap scored)

ReqsInv ==
  \A r \in Slots :
    ReqInv(req[r], loan[req[r].loan], history[req[r].loan], kycDone, scored)

IInv ==
  /\ TypeOK
  /\ RowsInv
  /\ ReqsInv
  /\ HistoryFollowsTable
  /\ EffectsAreRecorded

(*--------------------------- What an UPDATE preserves ------------------------*)

RowGrows(row, new) ==
  /\ new.amount_requested = row.amount_requested
  /\ row.state # NoLoan => new.state # NoLoan
  /\ row.lender_id # Null => new.lender_id # Null
  /\ row.second_approver_id # Null => new.second_approver_id # Null
  /\ row.decided => new.decided
  /\ row.disbursed => new.disbursed

\* What a request relies on survives the writes of the others.
LEMMA ReachedStable ==
  ASSUME NEW row, NEW new, NEW s, RowGrows(row, new), Reached(row, s)
  PROVE  Reached(new, s)
BY DEF RowGrows, Reached

LEMMA ReqStable ==
  ASSUME NEW q, NEW row, NEW new, NEW rows, NEW rows2,
         NEW kyc, NEW kyc2, NEW sc, NEW sc2,
         ReqInv(q, row, rows, kyc, sc),
         q.step \in OnLoan => RowGrows(row, new) /\ rows \subseteq rows2,
         kyc \subseteq kyc2, sc \subseteq sc2
  PROVE  ReqInv(q, new, rows2, kyc2, sc2)
<1>1. q.step \in OnLoan => Reached(new, q.from) /\ new.state # NoLoan
  BY ReachedStable DEF ReqInv, RowGrows
<1>2. q.step \in {"stamp", "effects"} => \E h \in rows2 : h[2] = q.to
  BY DEF ReqInv, OnLoan
<1>3. q.step = "update" /\ DecisionInv(q, row) => DecisionInv(q, new)
  BY DEF DecisionInv, RowGrows, OnLoan
<1> QED
  BY <1>1, <1>2, <1>3 DEF ReqInv

\* The request that is not there relies on nothing.
LEMMA IdleInv ==
  ASSUME NEW row, NEW rows, NEW kyc, NEW sc
  PROVE  ReqInv(Idle, row, rows, kyc, sc)
BY DEF ReqInv, Idle, OnLoan

\* The columns written beside the state keep the row's type and grow the row.
LEMMA ColumnsType ==
  ASSUME NEW row \in LoanRow, NEW q \in Request, NEW approved \in Amounts \cup {0},
         q.op = "makeDecision" => q.actor \in Staff
  PROVE  LET new == [Columns(row, q, approved) EXCEPT !.state = q.to] IN
         new \in LoanRow /\ RowGrows(row, new) /\ new.state = q.to
           /\ new.closed = row.closed /\ new.user = row.user
<1>1. Null \notin Staff
  BY ConstantsDistinct
<1>2. q.to \in LoanState /\ q.to # NoLoan
  BY DEF Request, LoanState, NoLoan
<1>3. CASE q.op = "makeDecision"
  <2> DEFINE cols == DecisionColumns(row, q, approved)
  <2>1. Columns(row, q, approved) = cols
    BY <1>3 DEF Columns
  <2>2. cols \in LoanRow
    <3>1. CASE q.to = "pending_second_approval"
      BY <1>3, <3>1 DEF DecisionColumns, LoanRow
    <3>2. CASE q.to = "approved" /\ q.from = "pending_second_approval"
      BY <1>3, <3>2 DEF DecisionColumns, LoanRow
    <3>3. CASE /\ q.to # "pending_second_approval"
               /\ ~(q.to = "approved" /\ q.from = "pending_second_approval")
      BY <1>3, <3>3 DEF DecisionColumns, LoanRow
    <3> QED
      BY <3>1, <3>2, <3>3
  <2>3. /\ cols.user = row.user /\ cols.closed = row.closed
        /\ cols.amount_requested = row.amount_requested
        /\ row.lender_id # Null => cols.lender_id # Null
        /\ row.second_approver_id # Null => cols.second_approver_id # Null
        /\ row.decided => cols.decided
        /\ row.disbursed => cols.disbursed
    BY <1>1, <1>3 DEF DecisionColumns, LoanRow
  <2> HIDE DEF cols
  <2>4. [cols EXCEPT !.state = q.to] \in LoanRow
    BY <1>2, <2>2 DEF LoanRow
  <2>5. RowGrows(row, [cols EXCEPT !.state = q.to])
    BY <1>2, <2>2, <2>3 DEF LoanRow, RowGrows
  <2> QED
    BY <2>1, <2>2, <2>3, <2>4, <2>5 DEF LoanRow
<1>4. CASE q.op = "disburse"
  BY <1>2, <1>4 DEF Columns, LoanRow, RowGrows
<1>5. CASE q.op \notin {"makeDecision", "disburse"}
  BY <1>2, <1>5 DEF Columns, LoanRow, RowGrows
<1> QED
  BY <1>3, <1>4, <1>5

(*--------------------------------- Base case ---------------------------------*)

LEMMA InitInv == Init => IInv
<1> SUFFICES ASSUME Init PROVE IInv
  OBVIOUS
<1>1. EmptyRow \in LoanRow /\ Idle \in Request
  BY ConstantsDistinct DEF EmptyRow, LoanRow, Idle, Request, LoanState, Steps
<1>2. TypeOK
  BY <1>1, MaxFailuresIsNat DEF Init, TypeOK
<1>3. RowsInv
  BY DEF Init, RowsInv, RowInv, Reached, EmptyRow, NoLoan, PaidOutStates
<1>4. ReqsInv
  BY IdleInv DEF Init, ReqsInv
<1>5. HistoryFollowsTable /\ EffectsAreRecorded
  BY DEF Init, HistoryFollowsTable, EffectsAreRecorded
<1> QED
  BY <1>2, <1>3, <1>4, <1>5 DEF IInv

(*----------------------- Steps that leave the tables alone -------------------*)

\* Entering, ending or advancing one request keeps the invariant when the
\* request's new record satisfies ReqInv.
LEMMA OnlyReqChanges ==
  ASSUME IInv, NEW r \in Slots, NEW q \in Request,
         req' = [req EXCEPT ![r] = q],
         ReqInv(q, loan[q.loan], history[q.loan], kycDone, scored),
         UNCHANGED tables, failures' \in 0..MaxFailures
  PROVE  IInv'
<1>1. TypeOK'
  BY DEF IInv, TypeOK, tables
<1>2. RowsInv'
  BY DEF IInv, RowsInv, tables
<1>3. ReqsInv'
  BY DEF IInv, TypeOK, ReqsInv, tables
<1>4. HistoryFollowsTable' /\ EffectsAreRecorded'
  BY DEF IInv, HistoryFollowsTable, EffectsAreRecorded, Recorded, tables
<1> QED
  BY <1>1, <1>2, <1>3, <1>4 DEF IInv

LEMMA IdleType == Idle \in Request
BY DEF Idle, Request, LoanState, Steps

LEMMA FinishInv ==
  ASSUME IInv, NEW r \in Slots, Finish(r), UNCHANGED tables,
         failures' \in 0..MaxFailures
  PROVE  IInv'
BY OnlyReqChanges, IdleType, IdleInv DEF Finish

\* Every lender-side handler enters at "update", with what it read.
LEMMA BeginInv ==
  ASSUME IInv, NEW r \in Slots, NEW op \in Ops, NEW a \in Staff \cup {System},
         NEW l \in Loans, NEW to \in LoanState,
         Begin(r, op, a, l, to),
         loan[l].state # NoLoan,
         <<loan[l].state, to>> \in VALID_TRANSITIONS,
         LET q == [op |-> op, step |-> "update", actor |-> a, loan |-> l,
                   from |-> loan[l].state, to |-> to]
         IN  /\ IF op = "makeDecision" THEN DecisionInv(q, loan[l])
                ELSE MoveInv(q)
             /\ op = "closeLoan" => loan[l].state = "repaying"
  PROVE  IInv'
<1> DEFINE q == [op |-> op, step |-> "update", actor |-> a, loan |-> l,
                 from |-> loan[l].state, to |-> to]
<1>1. q \in Request
  BY DEF IInv, TypeOK, LoanRow, Request, Steps
<1>2. Reached(loan[l], loan[l].state)
  BY DEF IInv, RowsInv, RowInv
<1>3. ReqInv(q, loan[q.loan], history[q.loan], kycDone, scored)
  BY <1>2 DEF ReqInv, OnLoan
<1>4. failures' \in 0..MaxFailures /\ UNCHANGED tables
  BY DEF Begin, IInv, TypeOK
<1>5. req' = [req EXCEPT ![r] = q]
  BY DEF Begin
<1> HIDE DEF q
<1> QED
  BY <1>1, <1>3, <1>4, <1>5, OnlyReqChanges

LEMMA EnterInv ==
  ASSUME IInv, NEW r \in Slots, Enter(r)
  PROVE  IInv'
<1>1. ASSUME NEW u \in Users, Apply(r, u) PROVE IInv'
  <2> DEFINE q == [op |-> "apply", step |-> "active", actor |-> u,
                   loan |-> Null, from |-> "draft", to |-> "submitted"]
  <2>1. q \in Request
    BY DEF Request, Steps, Ops, LoanState
  <2>2. ReqInv(q, loan[q.loan], history[q.loan], kycDone, scored)
    BY <1>1 DEF Apply, ReqInv, OnLoan
  <2>3. req' = [req EXCEPT ![r] = q] /\ UNCHANGED tables
        /\ failures' \in 0..MaxFailures
    BY <1>1 DEF Apply, IInv, TypeOK
  <2> HIDE DEF q
  <2> QED
    BY <2>1, <2>2, <2>3, OnlyReqChanges
<1>2. ASSUME NEW a \in Staff, NEW l \in Loans, SubmitForReview(r, a, l)
      PROVE  IInv'
  <2>1. Begin(r, "submitForReview", a, l, "under_review")
        /\ <<loan[l].state, "under_review">> \in VALID_TRANSITIONS
    BY <1>2 DEF SubmitForReview, Transition
  <2> QED
    BY <2>1, BeginInv DEF Ops, LoanState, VALID_TRANSITIONS, NoLoan, MoveInv
<1>3. ASSUME NEW a \in Staff, NEW l \in Loans, MarkRepaying(r, a, l)
      PROVE  IInv'
  <2>1. Begin(r, "markRepaying", a, l, "repaying")
        /\ <<loan[l].state, "repaying">> \in VALID_TRANSITIONS
    BY <1>3 DEF MarkRepaying, Transition
  <2> QED
    BY <2>1, BeginInv DEF Ops, LoanState, VALID_TRANSITIONS, NoLoan, MoveInv
<1>4. ASSUME NEW a \in Staff, NEW l \in Loans, CloseLoan(r, a, l)
      PROVE  IInv'
  <2>1. Begin(r, "closeLoan", a, l, "closed")
        /\ <<loan[l].state, "closed">> \in VALID_TRANSITIONS
    BY <1>4 DEF CloseLoan, Transition
  <2> QED
    BY <2>1, BeginInv DEF Ops, LoanState, VALID_TRANSITIONS, NoLoan, MoveInv
<1>5. ASSUME NEW l \in Loans, TriggerDefault(r, l) PROVE IInv'
  <2>1. Begin(r, "triggerDefault", System, l, "defaulted")
        /\ <<loan[l].state, "defaulted">> \in VALID_TRANSITIONS
    BY <1>5 DEF TriggerDefault, Transition
  <2> QED
    BY <2>1, BeginInv DEF Ops, LoanState, VALID_TRANSITIONS, NoLoan, MoveInv
<1>6. ASSUME NEW a \in Staff, NEW l \in Loans, Disburse(r, a, l) PROVE IInv'
  <2>1. Begin(r, "disburse", a, l, "disbursed") /\ loan[l].state = "approved"
    BY <1>6 DEF Disburse, DisbursableStates
  <2> QED
    BY <2>1, BeginInv DEF Ops, LoanState, VALID_TRANSITIONS, NoLoan, MoveInv
<1>7. ASSUME NEW a \in Staff, NEW l \in Loans,
             NEW d \in {"approved", "rejected"}, MakeDecision(r, a, l, d)
      PROVE  IInv'
  <2> DEFINE to == DecisionTarget(l, d)
  <2>1. Begin(r, "makeDecision", a, l, to) /\ loan[l].state \in DecisionStates
    BY <1>7 DEF MakeDecision
  <2>2. /\ to \in {"approved", "rejected", "pending_second_approval"}
        /\ to = "pending_second_approval" =>
             /\ IsLarge(loan[l].amount_requested)
             /\ loan[l].state # "pending_second_approval"
        /\ to = "approved" /\ IsLarge(loan[l].amount_requested) =>
             loan[l].state = "pending_second_approval"
    BY DEF DecisionTarget
  <2> HIDE DEF to
  <2>3. <<loan[l].state, to>> \in VALID_TRANSITIONS /\ to \in LoanState
        /\ loan[l].state # NoLoan
    BY <2>1, <2>2 DEF DecisionStates, VALID_TRANSITIONS, LoanState, NoLoan
  <2> QED
    BY <2>1, <2>2, <2>3, BeginInv DEF Ops, DecisionInv
<1> QED
  BY <1>1, <1>2, <1>3, <1>4, <1>5, <1>6, <1>7 DEF Enter

(*------------------------- Steps that write the tables -----------------------*)

\* A request that moves to another step is still a request.
LEMMA RequestUpdate ==
  ASSUME NEW q \in Request, NEW s \in Steps
  PROVE  [q EXCEPT !.step = s] \in Request
BY DEF Request

LEMMA GotoIsUpdate ==
  ASSUME NEW r \in Slots, NEW s, Goto(r, s)
  PROVE  req' = [req EXCEPT ![r] = [req[r] EXCEPT !.step = s]]
BY DEF Goto

LEMMA CheckActiveLoanInv ==
  ASSUME IInv, NEW r \in Slots, CheckActiveLoan(r)
  PROVE  IInv'
<1>1. failures' \in 0..MaxFailures /\ UNCHANGED tables
  BY DEF CheckActiveLoan, IInv, TypeOK
<1>2. CASE Finish(r)
  BY <1>1, <1>2, FinishInv
<1>3. CASE Goto(r, "score")
  <2> DEFINE q == [req[r] EXCEPT !.step = "score"]
  <2>1. ReqInv(req[r], loan[req[r].loan], history[req[r].loan], kycDone,
               scored) /\ req[r].step = "active" /\ req[r] \in Request
    BY DEF IInv, TypeOK, ReqsInv, CheckActiveLoan
  <2>2. q \in Request
    BY <2>1, RequestUpdate DEF Steps
  <2>3. ReqInv(q, loan[q.loan], history[q.loan], kycDone, scored)
    BY <2>1 DEF ReqInv, OnLoan, Request
  <2>4. req' = [req EXCEPT ![r] = q]
    BY <1>3, GotoIsUpdate
  <2> HIDE DEF q
  <2> QED
    BY <1>1, <2>2, <2>3, <2>4, OnlyReqChanges
<1> QED
  BY <1>2, <1>3 DEF CheckActiveLoan

LEMMA EnsureScoreInv ==
  ASSUME IInv, NEW r \in Slots, EnsureScore(r)
  PROVE  IInv'
<1> DEFINE q == [req[r] EXCEPT !.step = "create"]
<1>1. /\ req[r] \in Request /\ req[r].step = "score"
      /\ ReqInv(req[r], loan[req[r].loan], history[req[r].loan], kycDone,
                scored)
      /\ kycDone \subseteq Users /\ req[r].actor \in kycDone
  BY DEF IInv, TypeOK, ReqsInv, EnsureScore, ReqInv
<1>2. req' = [req EXCEPT ![r] = q]
  BY GotoIsUpdate DEF EnsureScore
<1>3. q \in Request
  BY <1>1, RequestUpdate DEF Steps, Request
<1>4. scored' = scored \cup {req[r].actor} /\ kycDone' = kycDone
      /\ loan' = loan /\ history' = history /\ audit' = audit
      /\ outbox' = outbox /\ failures' = failures
  BY DEF EnsureScore
<1>5. TypeOK'
  BY <1>1, <1>2, <1>3, <1>4 DEF IInv, TypeOK
<1>6. RowsInv'
  BY <1>4 DEF IInv, RowsInv, RowInv
<1>7. ReqInv(q, loan[q.loan], history[q.loan], kycDone, scored')
  BY <1>1, <1>4 DEF ReqInv, OnLoan, Request
<1>8. ReqsInv'
  <2> SUFFICES ASSUME NEW x \in Slots
               PROVE  ReqInv(req'[x], loan[req'[x].loan],
                             history[req'[x].loan], kycDone, scored')
    BY <1>4 DEF ReqsInv
  <2>1. CASE x = r
    BY <1>2, <1>7, <2>1 DEF IInv, TypeOK
  <2>2. CASE x # r
    <3>1. req'[x] = req[x]
      BY <1>2, <2>2 DEF IInv, TypeOK
    <3>2. ReqInv(req[x], loan[req[x].loan], history[req[x].loan], kycDone,
                 scored)
      BY DEF IInv, ReqsInv
    <3>3. RowGrows(loan[req[x].loan], loan[req[x].loan])
      BY DEF RowGrows
    <3> QED
      BY <1>4, <3>1, <3>2, <3>3, ReqStable
  <2> QED
    BY <2>1, <2>2
<1>9. HistoryFollowsTable' /\ EffectsAreRecorded'
  BY <1>4 DEF IInv, HistoryFollowsTable, EffectsAreRecorded, Recorded
<1> QED
  BY <1>5, <1>6, <1>8, <1>9 DEF IInv

\* A step of request r that replaces one row, grows that row and its history,
\* and leaves the rest alone.
LEMMA OneRowChanges ==
  ASSUME IInv, NEW r \in Slots, NEW l \in Loans, TypeOK',
         \A x \in Slots \ {r} : req'[x] = req[x],
         \A k \in Loans \ {l} : /\ loan'[k] = loan[k]
                               /\ history'[k] = history[k]
                               /\ audit'[k] = audit[k]
                               /\ outbox'[k] = outbox[k],
         RowGrows(loan[l], loan'[l]) \/ loan[l].state = NoLoan,
         RowInv(loan'[l], kycDone \cap scored),
         history[l] \subseteq history'[l], history'[l] \subseteq VALID_TRANSITIONS,
         \A s \in audit'[l] \cup outbox'[l] : \E h \in history'[l] : h[2] = s,
         ReqInv(req'[r], loan'[req'[r].loan], history'[req'[r].loan],
                kycDone, scored),
         kycDone' = kycDone, scored' = scored
  PROVE  IInv'
<1>1. RowsInv'
  BY DEF IInv, RowsInv
<1>2. ReqsInv'
  <2> SUFFICES ASSUME NEW x \in Slots
               PROVE  ReqInv(req'[x], loan'[req'[x].loan],
                             history'[req'[x].loan], kycDone, scored)
    BY DEF ReqsInv
  <2>1. CASE x = r
    BY <2>1
  <2>2. CASE x # r
    <3> DEFINE p == req[x]
    <3>1. req'[x] = p
      BY <2>2
    <3>2. ReqInv(p, loan[p.loan], history[p.loan], kycDone, scored)
      BY DEF IInv, ReqsInv
    <3>3. p.step \in OnLoan =>
            RowGrows(loan[p.loan], loan'[p.loan])
            /\ history[p.loan] \subseteq history'[p.loan]
      BY <3>2 DEF ReqInv, RowGrows
    <3> HIDE DEF p
    <3> QED
      BY <3>1, <3>2, <3>3, ReqStable
  <2> QED
    BY <2>1, <2>2
<1>3. HistoryFollowsTable'
  BY DEF IInv, HistoryFollowsTable
<1>4. EffectsAreRecorded'
  BY DEF IInv, EffectsAreRecorded, Recorded
<1> QED
  BY <1>1, <1>2, <1>3, <1>4 DEF IInv

LEMMA CreateLoanInv ==
  ASSUME IInv, NEW r \in Slots, CreateLoan(r)
  PROVE  IInv'
<1>1. PICK l \in Loans, amt \in Amounts :
        /\ loan[l].state = NoLoan
        /\ loan' = [loan EXCEPT ![l] =
                      [EmptyRow EXCEPT !.user = req[r].actor,
                                       !.state = "submitted",
                                       !.amount_requested = amt]]
        /\ req' = [req EXCEPT ![r].step = "record", ![r].loan = l]
  BY DEF CreateLoan
<1> DEFINE q == [req[r] EXCEPT !.step = "record", !.loan = l]
           new == [EmptyRow EXCEPT !.user = req[r].actor,
                                   !.state = "submitted",
                                   !.amount_requested = amt]
<1>2. /\ req[r] \in Request /\ req[r].step = "create"
      /\ req[r].actor \in kycDone \cap scored
      /\ req[r].from = "draft" /\ req[r].to = "submitted"
      /\ req[r].op = "apply"
      /\ kycDone \subseteq Users
  BY DEF IInv, TypeOK, ReqsInv, CreateLoan, ReqInv
<1>3. q \in Request /\ q.loan = l /\ q.step = "record" /\ q.op = "apply"
      /\ q.from = "draft" /\ q.to = "submitted"
  BY <1>2 DEF Request, Steps
<1>4. new \in LoanRow /\ new.state = "submitted" /\ ~new.disbursed
      /\ ~new.closed /\ new.user = req[r].actor
  BY <1>2 DEF EmptyRow, LoanRow, LoanState
<1>5. RowInv(new, kycDone \cap scored)
  BY <1>2, <1>4 DEF RowInv, Reached, PaidOutStates
<1>6. ReqInv(q, new, history[l], kycDone, scored)
  BY <1>3, <1>4
     DEF ReqInv, OnLoan, Reached, PaidOutStates, NoLoan, VALID_TRANSITIONS
<1>7. /\ req' = [req EXCEPT ![r] = q] /\ loan' = [loan EXCEPT ![l] = new]
      /\ UNCHANGED <<kycDone, scored, history, audit, outbox, failures>>
  BY <1>1 DEF CreateLoan
<1> HIDE DEF q, new
<1>8. TypeOK'
  BY <1>3, <1>4, <1>7 DEF IInv, TypeOK
<1>9. req'[r] = q /\ loan'[l] = new
  BY <1>7 DEF IInv, TypeOK
<1>10. /\ \A x \in Slots \ {r} : req'[x] = req[x]
       /\ \A k \in Loans \ {l} : loan'[k] = loan[k]
  BY <1>7 DEF IInv, TypeOK
<1>11. /\ history'[l] \subseteq VALID_TRANSITIONS
       /\ \A s \in audit'[l] \cup outbox'[l] : \E h \in history'[l] : h[2] = s
  BY <1>7 DEF IInv, HistoryFollowsTable, EffectsAreRecorded, Recorded
<1>12. /\ history[l] \subseteq history'[l]
       /\ kycDone' = kycDone /\ scored' = scored
       /\ \A x \in Slots \ {r} : req'[x] = req[x]
       /\ \A k \in Loans \ {l} : /\ loan'[k] = loan[k]
                                /\ history'[k] = history[k]
                                /\ audit'[k] = audit[k]
                                /\ outbox'[k] = outbox[k]
  BY <1>7, <1>10
<1>13. loan[l].state = NoLoan /\ RowInv(loan'[l], kycDone \cap scored)
  BY <1>1, <1>5, <1>9
<1>14. ReqInv(req'[r], loan'[req'[r].loan], history'[req'[r].loan], kycDone,
              scored)
  BY <1>3, <1>6, <1>7, <1>9
<1> QED
  BY <1>8, <1>11, <1>12, <1>13, <1>14, OneRowChanges

LEMMA UpdateLoanInv ==
  ASSUME IInv, NEW r \in Slots, UpdateLoan(r)
  PROVE  IInv'
<1> DEFINE p == req[r]
           l == p.loan
           row == loan[l]
           q == [p EXCEPT !.step = "record"]
<1>1. /\ p \in Request /\ p.step = "update" /\ l \in Loans /\ row \in LoanRow
      /\ ReqInv(p, row, history[l], kycDone, scored)
      /\ RowInv(row, kycDone \cap scored)
  BY DEF IInv, TypeOK, ReqsInv, RowsInv, UpdateLoan, ReqInv, OnLoan
<1>2. PICK approved \in {row.amount_approved} \cup
                        (IF p.op = "makeDecision" THEN Amounts ELSE {}) :
        loan' = [loan EXCEPT ![l] =
                   [Columns(@, p, approved) EXCEPT !.state = p.to]]
  BY DEF UpdateLoan
<1> DEFINE cols == Columns(row, p, approved)
           new == [cols EXCEPT !.state = p.to]
<1>3. approved \in Amounts \cup {0} /\ (p.op = "makeDecision" => p.actor \in Staff)
  BY <1>1, <1>2 DEF LoanRow, ReqInv, DecisionInv
<1>4. /\ new \in LoanRow /\ RowGrows(row, new) /\ new.state = p.to
      /\ new.closed = row.closed /\ new.user = row.user
  BY <1>1, <1>3, ColumnsType
<1>5. <<p.from, p.to>> \in VALID_TRANSITIONS /\ Reached(row, p.from)
      /\ row.state # NoLoan
      /\ (IF p.op = "makeDecision" THEN DecisionInv(p, row) ELSE MoveInv(p))
      /\ row \in LoanRow
  BY <1>1 DEF ReqInv, OnLoan
<1>6. Reached(new, p.from)
  BY <1>4, <1>5, ReachedStable
<1>7. Reached(new, p.to)
  <2>1. CASE p.op = "makeDecision" /\ p.to = "pending_second_approval"
    <3>1. new.lender_id = p.actor /\ p.actor # Null
      BY <1>3, <1>5, <2>1, ConstantsDistinct DEF Columns, DecisionColumns, LoanRow
    <3> QED
      BY <1>4, <1>5, <2>1, <3>1
         DEF Reached, DecisionInv, RowGrows, PaidOutStates
  <2>2. CASE p.op = "makeDecision" /\ p.to = "approved"
    <3>1. new.decided
      BY <1>5, <2>2 DEF Columns, DecisionColumns, LoanRow
    <3>2. ASSUME IsLarge(new.amount_requested)
          PROVE  new.lender_id # Null /\ new.second_approver_id # Null
      <4>1. p.from = "pending_second_approval" /\ row.lender_id # Null
        BY <1>4, <1>5, <2>2, <3>2 DEF DecisionInv, Reached, RowGrows
      <4>2. new.second_approver_id = p.actor /\ new.lender_id = row.lender_id
        BY <1>5, <2>2, <4>1 DEF Columns, DecisionColumns, LoanRow
      <4> QED
        BY <1>3, <2>2, <4>1, <4>2, ConstantsDistinct
    <3> QED
      BY <2>2, <3>1, <3>2 DEF Reached, PaidOutStates
  <2>3. CASE p.op = "makeDecision" /\ p.to = "rejected"
    BY <2>3 DEF Reached, PaidOutStates
  <2>4. CASE p.op = "disburse" /\ p.from = "approved" /\ p.to = "disbursed"
    <3>1. new.disbursed
      BY <1>5, <2>4 DEF Columns, LoanRow
    <3> QED
      BY <1>6, <2>4, <3>1 DEF Reached, PaidOutStates
  <2>5. CASE p.op = "submitForReview" /\ p.to = "under_review"
    BY <2>5 DEF Reached, PaidOutStates
  <2>6. CASE /\ p.op \in {"markRepaying", "closeLoan", "triggerDefault"}
             /\ p.from \in {"disbursed", "repaying"}
             /\ p.to \in {"repaying", "closed", "defaulted"}
    BY <1>6, <2>6 DEF Reached, PaidOutStates
  <2> QED
    BY <1>5, <2>1, <2>2, <2>3, <2>4, <2>5, <2>6 DEF DecisionInv, MoveInv
<1>8. new.disbursed => new.decided
  <2>1. CASE p.op = "disburse"
    BY <1>5, <1>6, <2>1 DEF Reached, MoveInv
  <2>2. CASE p.op # "disburse"
    <3>1. new.disbursed = row.disbursed
      BY <1>5, <2>2 DEF Columns, DecisionColumns, LoanRow
    <3> QED
      BY <1>1, <1>4, <3>1 DEF RowInv, RowGrows
  <2> QED
    BY <2>1, <2>2
<1>9. RowInv(new, kycDone \cap scored)
  BY <1>1, <1>4, <1>5, <1>7, <1>8 DEF RowInv, RowGrows
<1>10. q \in Request /\ q.loan = l /\ q.step = "record" /\ q.from = p.from
       /\ q.to = p.to /\ q.op = p.op
  <2>1. p \in Request /\ "record" \in Steps
    BY <1>1 DEF Steps
  <2>2. q \in Request
    BY <2>1, RequestUpdate
  <2> QED
    BY <2>1, <2>2 DEF Request
<1>11. ReqInv(q, new, history[l], kycDone, scored)
  BY <1>1, <1>4, <1>5, <1>6, <1>10 DEF ReqInv, OnLoan, RowGrows
<1>12. /\ req' = [req EXCEPT ![r] = q]
       /\ UNCHANGED <<kycDone, scored, history, audit, outbox, failures>>
  BY GotoIsUpdate DEF UpdateLoan
<1>13. loan' = [loan EXCEPT ![l] = new]
  BY <1>2
<1> HIDE DEF q, new, row, l, p
<1>14. TypeOK'
  BY <1>4, <1>10, <1>12, <1>13 DEF IInv, TypeOK
<1>15. req'[r] = q /\ loan'[l] = new
  BY <1>1, <1>12, <1>13 DEF IInv, TypeOK
<1>16. /\ \A x \in Slots \ {r} : req'[x] = req[x]
       /\ \A k \in Loans \ {l} : loan'[k] = loan[k]
  BY <1>12, <1>13 DEF IInv, TypeOK
<1>17. /\ history'[l] \subseteq VALID_TRANSITIONS
       /\ \A s \in audit'[l] \cup outbox'[l] : \E h \in history'[l] : h[2] = s
  BY <1>1, <1>12 DEF IInv, HistoryFollowsTable, EffectsAreRecorded, Recorded
<1>18. /\ l \in Loans /\ history[l] \subseteq history'[l]
       /\ kycDone' = kycDone /\ scored' = scored
       /\ \A x \in Slots \ {r} : req'[x] = req[x]
       /\ \A k \in Loans \ {l} : /\ loan'[k] = loan[k]
                                /\ history'[k] = history[k]
                                /\ audit'[k] = audit[k]
                                /\ outbox'[k] = outbox[k]
  BY <1>1, <1>12, <1>16
<1>19. RowGrows(loan[l], loan'[l]) /\ RowInv(loan'[l], kycDone \cap scored)
  BY <1>4, <1>9, <1>15 DEF row
<1>20. ReqInv(req'[r], loan'[req'[r].loan], history'[req'[r].loan], kycDone,
              scored)
  BY <1>10, <1>11, <1>12, <1>15
<1> QED
  BY <1>14, <1>17, <1>18, <1>19, <1>20, OneRowChanges

\* The history row is inserted, and the request moves on or ends.
LEMMA RecordTransitionInv ==
  ASSUME IInv, NEW r \in Slots, RecordTransition(r)
  PROVE  IInv'
<1> DEFINE p == req[r]
           l == p.loan
           rows == history[l] \cup {<<p.from, p.to>>}
<1>1. /\ p \in Request /\ p.step = "record" /\ l \in Loans
      /\ <<p.from, p.to>> \in VALID_TRANSITIONS \cap HistoryRow
      /\ ReqInv(p, loan[l], history[l], kycDone, scored)
      /\ RowInv(loan[l], kycDone \cap scored)
  BY DEF IInv, TypeOK, ReqsInv, RowsInv, RecordTransition, ReqInv, OnLoan,
         Request, HistoryRow
<1>2. /\ history' = [history EXCEPT ![l] = rows]
      /\ UNCHANGED <<kycDone, scored, loan, audit, outbox, failures>>
  BY DEF RecordTransition
<1>3. PICK q \in Request :
        /\ req' = [req EXCEPT ![r] = q]
        /\ \/ q = Idle
           \/ q = [p EXCEPT !.step = "effects"]
           \/ p.op = "closeLoan" /\ q = [p EXCEPT !.step = "stamp"]
  <2>1. CASE Finish(r)
    BY <2>1, IdleType DEF Finish
  <2>2. CASE Goto(r, "effects")
    <3>1. [p EXCEPT !.step = "effects"] \in Request
      BY <1>1, RequestUpdate DEF Steps
    <3> QED
      BY <2>2, <3>1, GotoIsUpdate
  <2>3. CASE Goto(r, "stamp") /\ p.op = "closeLoan"
    <3>1. [p EXCEPT !.step = "stamp"] \in Request
      BY <1>1, RequestUpdate DEF Steps
    <3> QED
      BY <2>3, <3>1, GotoIsUpdate
  <2> QED
    BY <2>1, <2>2, <2>3 DEF RecordTransition, AfterRecord
<1>4. ReqInv(q, loan[q.loan], history'[q.loan], kycDone, scored)
  <2>1. CASE q = Idle
    BY <2>1, IdleInv
  <2>2. CASE q = [p EXCEPT !.step = "effects"]
    <3>1. q.loan = l /\ q.from = p.from /\ q.to = p.to /\ q.op = p.op
          /\ q.step = "effects"
      BY <1>1, <2>2 DEF Request
    <3>2. \E h \in history'[l] : h[2] = q.to
      BY <1>1, <1>2, <3>1 DEF IInv, TypeOK
    <3> QED
      BY <1>1, <3>1, <3>2 DEF ReqInv, OnLoan
  <2>3. CASE p.op = "closeLoan" /\ q = [p EXCEPT !.step = "stamp"]
    <3>1. q.loan = l /\ q.from = p.from /\ q.to = p.to /\ q.op = p.op
          /\ q.step = "stamp"
      BY <1>1, <2>3 DEF Request
    <3>2. \E h \in history'[l] : h[2] = q.to
      BY <1>1, <1>2, <3>1 DEF IInv, TypeOK
    <3> QED
      BY <1>1, <2>3, <3>1, <3>2 DEF ReqInv, OnLoan
  <2> QED
    BY <1>3, <2>1, <2>2, <2>3
<1> HIDE DEF p, l, rows
<1>5. req'[r] = q /\ history'[l] = rows /\ \A x \in Slots \ {r} : req'[x] = req[x]
      /\ \A k \in Loans \ {l} : history'[k] = history[k]
  BY <1>1, <1>2, <1>3 DEF IInv, TypeOK
<1>6. history[l] \subseteq rows /\ rows \subseteq VALID_TRANSITIONS \cap HistoryRow
  BY <1>1 DEF rows, IInv, TypeOK, HistoryFollowsTable
<1>7. TypeOK'
  BY <1>1, <1>2, <1>3, <1>6 DEF IInv, TypeOK
<1>8. \A s \in audit'[l] \cup outbox'[l] : \E h \in history'[l] : h[2] = s
  BY <1>1, <1>2, <1>5, <1>6 DEF IInv, EffectsAreRecorded, Recorded
<1>9. RowGrows(loan[l], loan'[l]) /\ RowInv(loan'[l], kycDone \cap scored)
  BY <1>1, <1>2 DEF RowGrows, l
<1>10. /\ l \in Loans /\ history[l] \subseteq history'[l]
       /\ history'[l] \subseteq VALID_TRANSITIONS
       /\ kycDone' = kycDone /\ scored' = scored
       /\ \A x \in Slots \ {r} : req'[x] = req[x]
       /\ \A k \in Loans \ {l} : /\ loan'[k] = loan[k]
                                /\ history'[k] = history[k]
                                /\ audit'[k] = audit[k]
                                /\ outbox'[k] = outbox[k]
  BY <1>1, <1>2, <1>5, <1>6
<1>11. ReqInv(req'[r], loan'[req'[r].loan], history'[req'[r].loan], kycDone,
              scored)
  BY <1>2, <1>4, <1>5
<1> QED
  BY <1>7, <1>8, <1>9, <1>10, <1>11, OneRowChanges

LEMMA StampClosedInv ==
  ASSUME IInv, NEW r \in Slots, StampClosed(r)
  PROVE  IInv'
<1> DEFINE p == req[r]
           l == p.loan
           row == loan[l]
           new == [row EXCEPT !.closed = TRUE]
           q == [p EXCEPT !.step = "effects"]
<1>1. /\ p \in Request /\ p.step = "stamp" /\ l \in Loans /\ row \in LoanRow
      /\ ReqInv(p, row, history[l], kycDone, scored)
      /\ RowInv(row, kycDone \cap scored)
  BY DEF IInv, TypeOK, ReqsInv, RowsInv, StampClosed, ReqInv, OnLoan
<1>2. /\ req' = [req EXCEPT ![r] = q]
      /\ loan' = [loan EXCEPT ![l] = new]
      /\ UNCHANGED <<kycDone, scored, history, audit, outbox, failures>>
  BY GotoIsUpdate DEF StampClosed
<1>3. new \in LoanRow /\ RowGrows(row, new) /\ new.state = row.state
      /\ new.disbursed = row.disbursed /\ new.decided = row.decided
      /\ new.user = row.user
  BY <1>1 DEF LoanRow, RowGrows
<1>4. row.disbursed
  BY <1>1 DEF ReqInv, OnLoan, Reached, PaidOutStates
<1>5. RowInv(new, kycDone \cap scored)
  <2>1. Reached(new, new.state)
    BY <1>1, <1>3, ReachedStable DEF RowInv
  <2> QED
    BY <1>1, <1>3, <1>4, <2>1 DEF RowInv
<1>6. q \in Request
  BY <1>1, RequestUpdate DEF Steps
<1>7. q.loan = l /\ q.from = p.from /\ q.to = p.to /\ q.op = p.op
      /\ q.step = "effects"
  BY <1>1 DEF Request
<1>8. Reached(new, p.from) /\ new.state # NoLoan
  BY <1>1, <1>3, ReachedStable DEF ReqInv, OnLoan
<1>9. ReqInv(q, new, history[l], kycDone, scored)
  BY <1>1, <1>7, <1>8 DEF ReqInv, OnLoan
<1> HIDE DEF q, new, row, l, p
<1>10. req'[r] = q /\ loan'[l] = new /\ \A x \in Slots \ {r} : req'[x] = req[x]
       /\ \A k \in Loans \ {l} : loan'[k] = loan[k]
  BY <1>1, <1>2 DEF IInv, TypeOK
<1>11. TypeOK'
  BY <1>2, <1>3, <1>6 DEF IInv, TypeOK
<1>12. /\ history'[l] \subseteq VALID_TRANSITIONS
       /\ \A s \in audit'[l] \cup outbox'[l] : \E h \in history'[l] : h[2] = s
  BY <1>1, <1>2 DEF IInv, HistoryFollowsTable, EffectsAreRecorded, Recorded
<1>13. /\ l \in Loans /\ history[l] \subseteq history'[l]
       /\ kycDone' = kycDone /\ scored' = scored
       /\ \A x \in Slots \ {r} : req'[x] = req[x]
       /\ \A k \in Loans \ {l} : /\ loan'[k] = loan[k]
                                /\ history'[k] = history[k]
                                /\ audit'[k] = audit[k]
                                /\ outbox'[k] = outbox[k]
  BY <1>1, <1>2, <1>10
<1>14. RowGrows(loan[l], loan'[l]) /\ RowInv(loan'[l], kycDone \cap scored)
  BY <1>3, <1>5, <1>10 DEF row
<1>15. ReqInv(req'[r], loan'[req'[r].loan], history'[req'[r].loan], kycDone,
              scored)
  BY <1>2, <1>7, <1>9, <1>10
<1> QED
  BY <1>11, <1>12, <1>13, <1>14, <1>15, OneRowChanges

LEMMA AuditAndNotifyInv ==
  ASSUME IInv, NEW r \in Slots, AuditAndNotify(r)
  PROVE  IInv'
<1> DEFINE p == req[r]
           l == p.loan
<1>1. /\ p \in Request /\ p.step = "effects" /\ l \in Loans
      /\ \E h \in history[l] : h[2] = p.to
      /\ p.to \in LoanState
      /\ RowInv(loan[l], kycDone \cap scored)
  BY DEF IInv, TypeOK, ReqsInv, RowsInv, AuditAndNotify, ReqInv, OnLoan, Request
<1>2. PICK audited \in BOOLEAN, queued \in BOOLEAN :
        /\ failures' = failures + (IF audited /\ queued THEN 0 ELSE 1)
        /\ failures' <= MaxFailures
        /\ audit' = [audit EXCEPT ![l] =
              IF audited /\ p.op # "closeLoan" THEN @ \cup {p.to} ELSE @]
        /\ outbox' = [outbox EXCEPT ![l] = IF queued THEN @ \cup {p.to} ELSE @]
  BY DEF AuditAndNotify
<1>3. /\ req' = [req EXCEPT ![r] = Idle]
      /\ UNCHANGED <<kycDone, scored, loan, history>>
  BY DEF AuditAndNotify, Finish
<1> HIDE DEF p, l
<1>4. /\ audit'[l] \subseteq audit[l] \cup {p.to}
      /\ outbox'[l] \subseteq outbox[l] \cup {p.to}
      /\ \A k \in Loans \ {l} : audit'[k] = audit[k] /\ outbox'[k] = outbox[k]
  BY <1>1, <1>2 DEF IInv, TypeOK
<1>5. failures' \in 0..MaxFailures
  BY <1>2, MaxFailuresIsNat DEF IInv, TypeOK
<1>6. audit' \in [Loans -> SUBSET LoanState] /\ outbox' \in [Loans -> SUBSET LoanState]
  BY <1>1, <1>2 DEF IInv, TypeOK
<1>7. TypeOK'
  BY <1>3, <1>5, <1>6, IdleType DEF IInv, TypeOK
<1>8. req'[r] = Idle /\ \A x \in Slots \ {r} : req'[x] = req[x]
  BY <1>3 DEF IInv, TypeOK
<1>9. /\ history'[l] \subseteq VALID_TRANSITIONS
      /\ \A s \in audit'[l] \cup outbox'[l] : \E h \in history'[l] : h[2] = s
  BY <1>1, <1>3, <1>4 DEF IInv, HistoryFollowsTable, EffectsAreRecorded, Recorded
<1>10. RowGrows(loan[l], loan'[l]) /\ RowInv(loan'[l], kycDone \cap scored)
  BY <1>1, <1>3 DEF RowGrows
<1>11. ReqInv(req'[r], loan'[req'[r].loan], history'[req'[r].loan], kycDone,
              scored)
  BY <1>8, IdleInv
<1>12. /\ l \in Loans /\ history[l] \subseteq history'[l]
       /\ kycDone' = kycDone /\ scored' = scored
       /\ \A x \in Slots \ {r} : req'[x] = req[x]
       /\ \A k \in Loans \ {l} : /\ loan'[k] = loan[k]
                                /\ history'[k] = history[k]
                                /\ audit'[k] = audit[k]
                                /\ outbox'[k] = outbox[k]
  BY <1>1, <1>3, <1>4, <1>8
<1> QED
  BY <1>7, <1>9, <1>10, <1>11, <1>12, OneRowChanges

(*--------------------------- Steps without a request -------------------------*)

LEMMA VerifyKycInv ==
  ASSUME IInv, NEW u \in Users, VerifyKyc(u)
  PROVE  IInv'
<1>1. /\ kycDone' = kycDone \cup {u}
      /\ UNCHANGED <<scored, loan, history, audit, outbox, req, failures>>
  BY DEF VerifyKyc
<1>2. TypeOK' /\ HistoryFollowsTable' /\ EffectsAreRecorded'
  BY <1>1 DEF IInv, TypeOK, HistoryFollowsTable, EffectsAreRecorded, Recorded
<1>3. RowsInv'
  BY <1>1 DEF IInv, RowsInv, RowInv
<1>4. ReqsInv'
  <2> SUFFICES ASSUME NEW x \in Slots
               PROVE  ReqInv(req[x], loan[req[x].loan], history[req[x].loan],
                             kycDone', scored)
    BY <1>1 DEF ReqsInv
  <2>1. ReqInv(req[x], loan[req[x].loan], history[req[x].loan], kycDone, scored)
    BY DEF IInv, ReqsInv
  <2>2. RowGrows(loan[req[x].loan], loan[req[x].loan])
    BY DEF RowGrows
  <2> QED
    BY <1>1, <2>1, <2>2, ReqStable
<1> QED
  BY <1>2, <1>3, <1>4 DEF IInv

LEMMA StutterInv ==
  ASSUME IInv, UNCHANGED vars
  PROVE  IInv'
BY DEF IInv, TypeOK, RowsInv, ReqsInv, HistoryFollowsTable, EffectsAreRecorded,
       Recorded, vars

(*--------------------------------- Theorems ----------------------------------*)

LEMMA NextInv ==
  ASSUME IInv, Next
  PROVE  IInv'
<1>1. ASSUME NEW u \in Users, VerifyKyc(u) PROVE IInv'
  BY <1>1, VerifyKycInv
<1>2. ASSUME NEW r \in Slots, Enter(r) PROVE IInv'
  BY <1>2, EnterInv
<1>3. ASSUME NEW r \in Slots, RecordRefused(r) PROVE IInv'
  BY <1>3, FinishInv DEF RecordRefused, IInv, TypeOK
<1>4. ASSUME NEW r \in Slots, Continue(r) PROVE IInv'
  BY <1>3, <1>4, CheckActiveLoanInv, EnsureScoreInv, CreateLoanInv,
     UpdateLoanInv, RecordTransitionInv, StampClosedInv, AuditAndNotifyInv
     DEF Continue
<1>5. ASSUME NEW r \in Slots, Fail(r) PROVE IInv'
  <2>1. failures' \in 0..MaxFailures /\ Finish(r) /\ UNCHANGED tables
    BY <1>5, MaxFailuresIsNat DEF Fail, IInv, TypeOK
  <2> QED
    BY <2>1, FinishInv
<1> QED
  BY <1>1, <1>2, <1>4, <1>5 DEF Next

\* Whatever requests interleave and wherever they fail, every reachable state
\* of the loan tables satisfies the inductive invariant.
THEOREM Invariance == Spec => []IInv
<1>1. IInv /\ [Next]_vars => IInv'
  BY NextInv, StutterInv
<1> QED
  BY <1>1, InitInv, PTL DEF Spec

\* The tables and the requests keep their types: no handler writes a value
\* outside the enum, the foreign keys or the amounts it was given.
THEOREM TypeCorrect == Spec => []TypeOK
<1>1. IInv => TypeOK
  BY DEF IInv
<1> QED
  BY <1>1, Invariance, PTL

\* Every row of loan_state_transitions is a move of VALID_TRANSITIONS, although
\* apply, makeDecision and disburse never consult the table and requests
\* overwrite each other's states.
THEOREM HistoryCorrect == Spec => []HistoryFollowsTable
<1>1. IInv => HistoryFollowsTable
  BY DEF IInv
<1> QED
  BY <1>1, Invariance, PTL

\* A loan requested above the threshold is never approved or paid out without
\* its two approval steps.
THEOREM DualApproval == Spec => []LargeLoanTwoSteps
<1>1. IInv => LargeLoanTwoSteps
  BY DEF IInv, RowsInv, RowInv, Reached, LargeLoanTwoSteps
<1> QED
  BY <1>1, Invariance, PTL

\* Disbursement follows a decision, and every repayment state, and closed_at,
\* follows the disbursement.
THEOREM MoneyCorrect == Spec => []MoneyAfterDecision
<1>1. IInv => MoneyAfterDecision
  BY DEF IInv, RowsInv, RowInv, Reached, MoneyAfterDecision
<1> QED
  BY <1>1, Invariance, PTL

\* No audit row and no notification tells of a move the history does not hold.
THEOREM EffectsCorrect == Spec => []EffectsAreRecorded
<1>1. IInv => EffectsAreRecorded
  BY DEF IInv
<1> QED
  BY <1>1, Invariance, PTL

\* Every application belongs to a borrower past PENDING KYC who has a score.
THEOREM ApplicantsCorrect == Spec => []ApplicantsAreKnown
<1>1. IInv => ApplicantsAreKnown
  BY DEF IInv, RowsInv, RowInv, ApplicantsAreKnown
<1> QED
  BY <1>1, Invariance, PTL

(*------------------------- No gap without a failure --------------------------*)

\* A request that is about to record the move of l to s.
Recording(l, s) ==
  \E r \in Slots : req[r].step = "record" /\ req[r].loan = l /\ req[r].to = s

Explained(l, s) ==
  s \in {NoLoan, "draft", "defaulted"} \/ Recorded(l, s) \/ Recording(l, s)

\* The states of l that are on its row, start a move of its history, or will
\* start one: those that a request in flight read.
Shown(l) ==
  {loan[l].state} \cup {row[1] : row \in history[l]}
    \cup {req[r].from : r \in {x \in Slots : req[x].step \in OnLoan
                                              /\ req[x].loan = l}}

\* Only a default is refused by the INSERT.
OnlyDefaultsRefused(q) ==
  q.step \in {"update", "record"} /\ ~ActorAccepted(q.actor) => q.to = "defaulted"

GapInv ==
  /\ failures = 0 => \A l \in Loans : \A s \in Shown(l) : Explained(l, s)
  /\ \A r \in Slots : OnlyDefaultsRefused(req[r])

LEMMA GapInit == Init => GapInv
BY DEF Init, GapInv, Shown, Explained, OnlyDefaultsRefused, EmptyRow, Idle, OnLoan

LEMMA GapImplies == GapInv => HistoryHasNoGap
<1> SUFFICES ASSUME GapInv, failures = 0, NEW l \in Loans,
                    NEW s \in {loan[l].state} \cup {row[1] : row \in history[l]}
             PROVE  \/ s \in {NoLoan, "draft", "defaulted"}
                    \/ Recorded(l, s)
                    \/ \E r \in Slots : /\ req[r].step = "record"
                                       /\ req[r].loan = l
                                       /\ req[r].to = s
  BY DEF HistoryHasNoGap
<1>1. s \in Shown(l)
  BY DEF Shown
<1> QED
  BY <1>1 DEF GapInv, Explained, Recording

\* A step of request r that loses no history row, leaves "record" only behind
\* its row or a default, and shows no state that it does not explain.
LEMMA GapKept ==
  ASSUME GapInv, NEW r \in Slots,
         \A x \in Slots \ {r} : req'[x] = req[x],
         OnlyDefaultsRefused(req'[r]),
         failures' = 0 =>
           /\ failures = 0
           /\ \A l \in Loans : history[l] \subseteq history'[l]
           /\ req[r].step = "record" =>
                \/ req[r].to = "defaulted"
                \/ \E row \in history'[req[r].loan] : row[2] = req[r].to
           /\ \A l \in Loans : \A s \in Shown(l)' :
                s \in Shown(l) \/ s = "draft" \/ Recording(l, s)'
  PROVE  GapInv'
<1>1. \A x \in Slots : OnlyDefaultsRefused(req'[x])
  BY DEF GapInv
<1>2. ASSUME failures' = 0, NEW l \in Loans, NEW s \in Shown(l)'
      PROVE  Explained(l, s)'
  <2>1. CASE s = "draft" \/ Recording(l, s)'
    BY <2>1 DEF Explained
  <2>2. CASE s \in Shown(l)
    <3>1. Explained(l, s)
      BY <1>2, <2>2 DEF GapInv
    <3>2. CASE Recorded(l, s)
      BY <1>2, <3>2 DEF Explained, Recorded
    <3>3. CASE Recording(l, s)
      <4>1. PICK x \in Slots :
              req[x].step = "record" /\ req[x].loan = l /\ req[x].to = s
        BY <3>3 DEF Recording
      <4>2. CASE x = r
        BY <1>2, <4>1, <4>2 DEF Explained, Recorded
      <4>3. CASE x # r
        BY <4>1, <4>3 DEF Explained, Recording
      <4> QED
        BY <4>2, <4>3
    <3> QED
      BY <3>1, <3>2, <3>3 DEF Explained
  <2> QED
    BY <1>2, <2>1, <2>2
<1> QED
  BY <1>1, <1>2 DEF GapInv

\* A step that changes nothing of loan and history but the steps of r, which is
\* not about to record, or about to be refused.
LEMMA GapRequestOnly ==
  ASSUME TypeOK, GapInv, NEW r \in Slots, NEW q \in Request,
         req' = [req EXCEPT ![r] = q], OnlyDefaultsRefused(q),
         failures' = 0 =>
           /\ failures = 0 /\ \A l \in Loans : loan'[l].state = loan[l].state
           /\ history' = history
           /\ req[r].step # "record" \/ req[r].to = "defaulted"
           /\ q.step \in OnLoan =>
                \/ req[r].step \in OnLoan /\ q.loan = req[r].loan /\ q.from = req[r].from
                \/ q.loan \in Loans /\ q.from = loan[q.loan].state
  PROVE  GapInv'
<1>1. \A x \in Slots : req'[x] = IF x = r THEN q ELSE req[x]
  BY DEF TypeOK
<1>2. ASSUME failures' = 0, NEW l \in Loans, NEW s \in Shown(l)'
      PROVE  s \in Shown(l)
  <2>1. \/ s = loan'[l].state
        \/ \E row \in history'[l] : s = row[1]
        \/ \E x \in Slots : req'[x].step \in OnLoan /\ req'[x].loan = l /\ s = req'[x].from
    BY <1>2 DEF Shown
  <2>2. ASSUME NEW x \in Slots, req'[x].step \in OnLoan, req'[x].loan = l,
               s = req'[x].from
        PROVE  s \in Shown(l)
    <3>1. CASE x = r
      BY <1>1, <1>2, <2>2, <3>1 DEF Shown
    <3>2. CASE x # r
      BY <1>1, <2>2, <3>2 DEF Shown
    <3> QED
      BY <3>1, <3>2
  <2> QED
    BY <1>2, <2>1, <2>2 DEF Shown
<1>3. failures' = 0 => \A l \in Loans : history[l] \subseteq history'[l]
  OBVIOUS
<1> QED
  BY <1>1, <1>2, <1>3, GapKept


LEMMA GapIdle == OnlyDefaultsRefused(Idle) /\ Idle.step \notin OnLoan
BY DEF OnlyDefaultsRefused, Idle, OnLoan

LEMMA GapBegin ==
  ASSUME TypeOK, GapInv, NEW r \in Slots, NEW op \in Ops,
         NEW a \in Staff \cup {System}, NEW l \in Loans, NEW to \in LoanState,
         Begin(r, op, a, l, to), loan[l].state # NoLoan,
         a \in Staff \/ to = "defaulted"
  PROVE  GapInv'
<1> DEFINE q == [op |-> op, step |-> "update", actor |-> a, loan |-> l,
                 from |-> loan[l].state, to |-> to]
<1>1. q \in Request /\ OnlyDefaultsRefused(q)
  BY DEF TypeOK, LoanRow, Request, Steps, OnlyDefaultsRefused, ActorAccepted
<1>2. req' = [req EXCEPT ![r] = q] /\ q.loan = l /\ q.from = loan[l].state
  BY DEF Begin
<1>3. /\ req[r].step # "record"
      /\ loan' = loan /\ history' = history /\ failures' = failures
  BY DEF Begin, tables, Idle
<1> HIDE DEF q
<1> QED
  BY <1>1, <1>2, <1>3, GapRequestOnly

LEMMA EnterGap ==
  ASSUME TypeOK, GapInv, NEW r \in Slots, Enter(r)
  PROVE  GapInv'
<1>1. ASSUME NEW u \in Users, Apply(r, u) PROVE GapInv'
  <2> DEFINE q == [op |-> "apply", step |-> "active", actor |-> u,
                   loan |-> Null, from |-> "draft", to |-> "submitted"]
  <2>1. q \in Request /\ OnlyDefaultsRefused(q) /\ q.step \notin OnLoan
    BY DEF Request, Steps, Ops, LoanState, OnlyDefaultsRefused, OnLoan
  <2>2. req' = [req EXCEPT ![r] = q] /\ req[r].step # "record"
        /\ loan' = loan /\ history' = history /\ failures' = failures
    BY <1>1 DEF Apply, tables, Idle
  <2> HIDE DEF q
  <2> QED
    BY <2>1, <2>2, GapRequestOnly
<1>2. ASSUME NEW a \in Staff, NEW l \in Loans,
             \/ SubmitForReview(r, a, l) \/ MarkRepaying(r, a, l)
             \/ CloseLoan(r, a, l)
      PROVE  GapInv'
  <2>1. PICK op \in Ops, to \in LoanState :
          Begin(r, op, a, l, to) /\ <<loan[l].state, to>> \in VALID_TRANSITIONS
    BY <1>2 DEF SubmitForReview, MarkRepaying, CloseLoan, Transition, Ops, LoanState
  <2> QED
    BY <2>1, GapBegin DEF VALID_TRANSITIONS, NoLoan
<1>3. ASSUME NEW l \in Loans, TriggerDefault(r, l) PROVE GapInv'
  <2>1. /\ Begin(r, "triggerDefault", System, l, "defaulted")
        /\ <<loan[l].state, "defaulted">> \in VALID_TRANSITIONS
    BY <1>3 DEF TriggerDefault, Transition
  <2> QED
    BY <2>1, GapBegin DEF VALID_TRANSITIONS, NoLoan, Ops, LoanState
<1>4. ASSUME NEW a \in Staff, NEW l \in Loans, Disburse(r, a, l) PROVE GapInv'
  <2>1. Begin(r, "disburse", a, l, "disbursed") /\ loan[l].state = "approved"
    BY <1>4 DEF Disburse, DisbursableStates
  <2> QED
    BY <2>1, GapBegin DEF NoLoan, Ops, LoanState
<1>5. ASSUME NEW a \in Staff, NEW l \in Loans,
             NEW d \in {"approved", "rejected"}, MakeDecision(r, a, l, d)
      PROVE  GapInv'
  <2>1. PICK to \in LoanState : Begin(r, "makeDecision", a, l, to)
    BY <1>5 DEF MakeDecision, DecisionTarget, LoanState
  <2>2. loan[l].state # NoLoan
    BY <1>5 DEF MakeDecision, DecisionStates, NoLoan
  <2> QED
    BY <2>1, <2>2, GapBegin DEF Ops
<1> QED
  BY <1>1, <1>2, <1>3, <1>4, <1>5 DEF Enter

\* A request that ends, when it was not about to record anything but a default.
LEMMA GapFinish ==
  ASSUME TypeOK, GapInv, NEW r \in Slots, Finish(r),
         failures' = 0 =>
           /\ failures = 0 /\ loan' = loan /\ history' = history
           /\ req[r].step # "record" \/ req[r].to = "defaulted"
  PROVE  GapInv'
BY GapRequestOnly, GapIdle, IdleType DEF Finish

\* A request that goes on from a step before "record" to another one.
LEMMA GapGoto ==
  ASSUME TypeOK, GapInv, NEW r \in Slots, NEW s \in Steps \ {"update", "record"},
         Goto(r, s), req[r].step # "record",
         s \in OnLoan => req[r].step \in OnLoan,
         failures' = failures, history' = history,
         \A l \in Loans : loan'[l].state = loan[l].state
  PROVE  GapInv'
<1> DEFINE q == [req[r] EXCEPT !.step = s]
<1>1. q \in Request /\ req' = [req EXCEPT ![r] = q]
  BY RequestUpdate, GotoIsUpdate DEF TypeOK
<1>2. q.step = s /\ q.loan = req[r].loan /\ q.from = req[r].from
  BY DEF TypeOK, Request
<1>3. OnlyDefaultsRefused(q)
  BY <1>2 DEF OnlyDefaultsRefused
<1> HIDE DEF q
<1> QED
  BY <1>1, <1>2, <1>3, GapRequestOnly

LEMMA StampClosedGap ==
  ASSUME TypeOK, GapInv, NEW r \in Slots, StampClosed(r)
  PROVE  GapInv'
<1>1. \A l \in Loans : loan'[l].state = loan[l].state
  BY DEF StampClosed, TypeOK, LoanRow
<1> QED
  BY <1>1, GapGoto DEF StampClosed, OnLoan, Steps

LEMMA AuditAndNotifyGap ==
  ASSUME TypeOK, GapInv, NEW r \in Slots, AuditAndNotify(r)
  PROVE  GapInv'
<1>1. failures' = failures \/ failures' = failures + 1
  BY DEF AuditAndNotify, TypeOK
<1>2. failures' = 0 => failures = 0
  BY <1>1, MaxFailuresIsNat DEF TypeOK
<1> QED
  BY <1>2, GapFinish DEF AuditAndNotify

\* The new application is explained by the request that is about to record it.
LEMMA CreateLoanGap ==
  ASSUME IInv, GapInv, NEW r \in Slots, CreateLoan(r)
  PROVE  GapInv'
<1>1. PICK l \in Loans, amt \in Amounts :
        /\ loan' = [loan EXCEPT ![l] =
                      [EmptyRow EXCEPT !.user = req[r].actor,
                                       !.state = "submitted",
                                       !.amount_requested = amt]]
        /\ req' = [req EXCEPT ![r].step = "record", ![r].loan = l]
  BY DEF CreateLoan
<1>2. req[r] \in Request /\ req[r].actor \in Users /\ req[r].from = "draft"
      /\ req[r].to = "submitted" /\ req[r].step = "create"
  BY DEF IInv, TypeOK, ReqsInv, ReqInv, CreateLoan
<1>3. /\ \A x \in Slots \ {r} : req'[x] = req[x]
      /\ req'[r].step = "record" /\ req'[r].loan = l /\ req'[r].from = "draft"
      /\ req'[r].to = "submitted" /\ req'[r].actor \in Users
  BY <1>1, <1>2 DEF IInv, TypeOK, Request
<1>4. /\ loan'[l].state = "submitted"
      /\ \A k \in Loans \ {l} : loan'[k] = loan[k]
      /\ history' = history /\ failures' = failures
  BY <1>1 DEF CreateLoan, IInv, TypeOK, EmptyRow
<1>5. ASSUME NEW k \in Loans, NEW s \in Shown(k)'
      PROVE  s \in Shown(k) \/ s = "draft" \/ Recording(k, s)'
  <2>1. \/ s = loan'[k].state
        \/ \E row \in history'[k] : s = row[1]
        \/ \E x \in Slots : req'[x].step \in OnLoan /\ req'[x].loan = k /\ s = req'[x].from
    BY <1>5 DEF Shown
  <2>2. CASE s = loan'[k].state
    <3>1. CASE k = l
      BY <1>3, <1>4, <2>2, <3>1 DEF Recording
    <3>2. CASE k # l
      BY <1>4, <2>2, <3>2 DEF Shown
    <3> QED
      BY <3>1, <3>2
  <2>3. ASSUME NEW row \in history'[k], s = row[1] PROVE s \in Shown(k)
    BY <1>4, <2>3 DEF Shown
  <2>4. ASSUME NEW x \in Slots, req'[x].step \in OnLoan, req'[x].loan = k,
               s = req'[x].from
        PROVE  s \in Shown(k) \/ s = "draft"
    <3>1. CASE x = r
      BY <1>3, <2>4, <3>1
    <3>2. CASE x # r
      BY <1>3, <2>4, <3>2 DEF Shown
    <3> QED
      BY <3>1, <3>2
  <2> QED
    BY <2>1, <2>2, <2>3, <2>4
<1>6. OnlyDefaultsRefused(req'[r]) /\ req[r].step # "record"
  BY <1>2, <1>3 DEF OnlyDefaultsRefused, ActorAccepted
<1> QED
  BY <1>3, <1>4, <1>5, <1>6, GapKept

\* The state that is written is explained by the same request.
LEMMA UpdateLoanState ==
  ASSUME IInv, NEW r \in Slots, UpdateLoan(r)
  PROVE  /\ req[r].loan \in Loans
         /\ \E new \in LoanRow :
              /\ loan' = [loan EXCEPT ![req[r].loan] = new]
              /\ new.state = req[r].to
<1> DEFINE p == req[r]
           row == loan[p.loan]
<1>1. p \in Request /\ p.loan \in Loans /\ row \in LoanRow
      /\ ReqInv(p, row, history[p.loan], kycDone, scored)
  BY DEF IInv, TypeOK, ReqsInv, UpdateLoan, ReqInv, OnLoan
<1>2. PICK approved \in {row.amount_approved} \cup
                        (IF p.op = "makeDecision" THEN Amounts ELSE {}) :
        loan' = [loan EXCEPT ![p.loan] =
                   [Columns(@, p, approved) EXCEPT !.state = p.to]]
  BY DEF UpdateLoan
<1>3. approved \in Amounts \cup {0} /\ (p.op = "makeDecision" => p.actor \in Staff)
  BY <1>1, <1>2 DEF LoanRow, ReqInv, DecisionInv, UpdateLoan
<1> DEFINE new == [Columns(row, p, approved) EXCEPT !.state = p.to]
<1>4. new \in LoanRow /\ new.state = p.to
  BY <1>1, <1>3, ColumnsType
<1> QED
  BY <1>1, <1>2, <1>4

LEMMA UpdateLoanGap ==
  ASSUME IInv, GapInv, NEW r \in Slots, UpdateLoan(r)
  PROVE  GapInv'
<1>1. PICK l \in Loans, new \in LoanRow :
        /\ l = req[r].loan /\ loan' = [loan EXCEPT ![l] = new]
        /\ new.state = req[r].to
  BY UpdateLoanState
<1> DEFINE q == [req[r] EXCEPT !.step = "record"]
<1>2. /\ req[r] \in Request /\ req[r].step = "update"
      /\ q.step = "record" /\ q.loan = l /\ q.from = req[r].from
      /\ q.to = req[r].to /\ q.actor = req[r].actor
  BY <1>1 DEF IInv, TypeOK, Request, UpdateLoan
<1>3. req' = [req EXCEPT ![r] = q]
  BY GotoIsUpdate DEF UpdateLoan
<1>4. OnlyDefaultsRefused(q)
  BY <1>2 DEF GapInv, OnlyDefaultsRefused
<1> HIDE DEF q
<1>5. \A x \in Slots : req'[x] = IF x = r THEN q ELSE req[x]
  BY <1>3 DEF IInv, TypeOK
<1>6. /\ loan'[l].state = req[r].to
      /\ \A k \in Loans \ {l} : loan'[k] = loan[k]
      /\ history' = history /\ failures' = failures
  BY <1>1 DEF UpdateLoan, IInv, TypeOK
<1>7. ASSUME NEW k \in Loans, NEW s \in Shown(k)'
      PROVE  s \in Shown(k) \/ Recording(k, s)'
  <2>1. \/ s = loan'[k].state
        \/ \E row \in history'[k] : s = row[1]
        \/ \E x \in Slots : req'[x].step \in OnLoan /\ req'[x].loan = k /\ s = req'[x].from
    BY <1>7 DEF Shown
  <2>2. CASE s = loan'[k].state
    <3>1. CASE k = l
      BY <1>2, <1>5, <1>6, <2>2, <3>1 DEF Recording
    <3>2. CASE k # l
      BY <1>6, <2>2, <3>2 DEF Shown
    <3> QED
      BY <3>1, <3>2
  <2>3. ASSUME NEW row \in history'[k], s = row[1] PROVE s \in Shown(k)
    BY <1>6, <2>3 DEF Shown
  <2>4. ASSUME NEW x \in Slots, req'[x].step \in OnLoan, req'[x].loan = k,
               s = req'[x].from
        PROVE  s \in Shown(k)
    BY <1>1, <1>2, <1>5, <2>4 DEF Shown, OnLoan
  <2> QED
    BY <2>1, <2>2, <2>3, <2>4
<1> QED
  BY <1>2, <1>4, <1>5, <1>6, <1>7, GapKept

\* The row that is inserted starts from a state that was shown already.
LEMMA RecordTransitionGap ==
  ASSUME IInv, GapInv, NEW r \in Slots, RecordTransition(r)
  PROVE  GapInv'
<1>1. PICK l \in Loans : l = req[r].loan
  BY DEF IInv, ReqsInv, ReqInv, RecordTransition, OnLoan
<1> DEFINE p == req[r]
           rows == history[l] \cup {<<p.from, p.to>>}
<1>2. p \in Request /\ p.step = "record" /\ p.loan = l
  BY <1>1 DEF IInv, TypeOK, RecordTransition
<1>3. /\ loan' = loan /\ failures' = failures
      /\ \A k \in Loans : history'[k] = IF k = l THEN rows ELSE history[k]
  BY <1>1 DEF RecordTransition, IInv, TypeOK
<1>4. PICK q : /\ \A x \in Slots : req'[x] = IF x = r THEN q ELSE req[x]
               /\ \/ q.step = "idle"
                  \/ q.step \in {"effects", "stamp"} /\ q.loan = l /\ q.from = p.from
  <2>1. PICK s \in {"effects", "stamp"} :
          Finish(r) \/ req' = [req EXCEPT ![r] = [p EXCEPT !.step = s]]
    BY GotoIsUpdate DEF RecordTransition, AfterRecord
  <2>2. CASE Finish(r)
    BY <2>2 DEF Finish, Idle, IInv, TypeOK
  <2>3. CASE req' = [req EXCEPT ![r] = [p EXCEPT !.step = s]]
    <3>1. [p EXCEPT !.step = s].step = s /\ [p EXCEPT !.step = s].loan = l
          /\ [p EXCEPT !.step = s].from = p.from
      BY <1>2 DEF Request
    <3> QED
      BY <2>3, <3>1 DEF IInv, TypeOK
  <2> QED
    BY <2>1, <2>2, <2>3
<1>5. p.from \in Shown(l)
  BY <1>2 DEF Shown, OnLoan
<1>6. <<p.from, p.to>>[1] = p.from /\ <<p.from, p.to>>[2] = p.to
      /\ <<p.from, p.to>> \in rows
  OBVIOUS
<1> HIDE DEF p
<1>7. ASSUME NEW k \in Loans, NEW s \in Shown(k)'
      PROVE  s \in Shown(k)
  <2>1. \/ s = loan'[k].state
        \/ \E row \in history'[k] : s = row[1]
        \/ \E x \in Slots : req'[x].step \in OnLoan /\ req'[x].loan = k /\ s = req'[x].from
    BY <1>7 DEF Shown
  <2>2. CASE s = loan'[k].state
    BY <1>3, <2>2 DEF Shown
  <2>3. ASSUME NEW row \in history'[k], s = row[1] PROVE s \in Shown(k)
    <3>1. row \in history[k] \/ (k = l /\ row = <<p.from, p.to>>)
      BY <1>3, <2>3
    <3> QED
      BY <1>5, <1>6, <2>3, <3>1 DEF Shown
  <2>4. ASSUME NEW x \in Slots, req'[x].step \in OnLoan, req'[x].loan = k,
               s = req'[x].from
        PROVE  s \in Shown(k)
    <3>1. CASE x = r
      BY <1>4, <1>5, <2>4, <3>1 DEF OnLoan
    <3>2. CASE x # r
      BY <1>4, <2>4, <3>2 DEF Shown
    <3> QED
      BY <3>1, <3>2
  <2> QED
    BY <2>1, <2>2, <2>3, <2>4
<1>8. \E row \in history'[l] : row[2] = p.to
  BY <1>3, <1>6
<1>9. OnlyDefaultsRefused(req'[r])
  BY <1>4 DEF OnlyDefaultsRefused
<1>10. /\ \A x \in Slots \ {r} : req'[x] = req[x]
       /\ \A k \in Loans : history[k] \subseteq history'[k]
  BY <1>3, <1>4
<1> HIDE DEF rows
<1> QED
  BY <1>1, <1>3, <1>7, <1>8, <1>9, <1>10, GapKept DEF p

LEMMA NextGap ==
  ASSUME IInv, GapInv, [Next]_vars
  PROVE  GapInv'
<1> USE DEF IInv
<1>1. CASE UNCHANGED vars
  BY <1>1 DEF vars, tables, GapInv, Shown, Explained, Recorded, Recording
<1>2. ASSUME NEW u \in Users, VerifyKyc(u) PROVE GapInv'
  BY <1>2 DEF VerifyKyc, GapInv, Shown, Explained, Recorded, Recording
<1>3. ASSUME NEW r \in Slots, CheckActiveLoan(r) PROVE GapInv'
  <2>1. CASE Finish(r)
    BY <1>3, <2>1, GapFinish DEF CheckActiveLoan, tables
  <2>2. CASE Goto(r, "score")
    BY <1>3, <2>2, GapGoto DEF CheckActiveLoan, tables, Steps, OnLoan
  <2> QED
    BY <1>3, <2>1, <2>2 DEF CheckActiveLoan
<1>4. ASSUME NEW r \in Slots, EnsureScore(r) PROVE GapInv'
  BY <1>4, GapGoto DEF EnsureScore, Steps, OnLoan
<1>5. ASSUME NEW r \in Slots, RecordRefused(r) PROVE GapInv'
  <2>1. req[r].to = "defaulted"
    BY <1>5 DEF RecordRefused, GapInv, OnlyDefaultsRefused
  <2> QED
    BY <1>5, <2>1, GapFinish DEF RecordRefused, tables
<1>6. ASSUME NEW r \in Slots, Fail(r) PROVE GapInv'
  <2>1. failures' # 0
    BY <1>6, MaxFailuresIsNat DEF Fail, TypeOK
  <2> QED
    BY <1>6, <2>1, GapFinish DEF Fail
<1> QED
  BY <1>1, <1>2, <1>3, <1>4, <1>5, <1>6, EnterGap, CreateLoanGap, UpdateLoanGap,
     RecordTransitionGap, StampClosedGap, AuditAndNotifyGap DEF Next, Continue

\* While nothing fails, the history of an application has no gap, for any number
\* of overlapping requests: what it shows of a state is recorded, or about to be.
THEOREM HistoryComplete == Spec => []HistoryHasNoGap
<1>1. IInv /\ GapInv /\ [Next]_vars => GapInv'
  BY NextGap
<1> QED
  BY <1>1, GapInit, GapImplies, Invariance, PTL DEF Spec

(*--------------------------- One request at a time ---------------------------*)

OneAtATime == \A r, q \in Slots : r = q

\* What a request relies on while no other runs: the borrower has no active
\* loan, the row is as it was read.
Alone(r) ==
  /\ req[r].step \in {"score", "create"} => ~HasActiveLoan(req[r].actor)
  /\ req[r].step = "update" =>
       /\ loan[req[r].loan].state = req[r].from
       /\ req[r].op = "submitForReview" => req[r].from = "submitted"

\* The officers on a row, by its state.
SignedAs(row) ==
  /\ row.state \in {NoLoan, "submitted", "under_review"}
       => row.lender_id = Null /\ row.second_approver_id = Null
  /\ row.state = "pending_second_approval" =>
       /\ row.lender_id # Null /\ row.second_approver_id = Null
       /\ IsLarge(row.amount_requested)
  /\ row.state \in {"approved"} \cup PaidOutStates =>
       /\ row.lender_id # Null
       /\ row.second_approver_id # Null <=> IsLarge(row.amount_requested)
  /\ row.state = NoLoan => ~IsLarge(row.amount_requested)

SerialInv ==
  /\ OneActiveLoan
  /\ \A l \in Loans : SignedAs(loan[l])
  /\ \A r \in Slots : Alone(r)

LEMMA SerialInit == Init => SerialInv
BY DEF Init, SerialInv, OneActiveLoan, SignedAs, Alone, EmptyRow, Idle, NoLoan,
       ActiveStates, PaidOutStates, IsLarge, DUAL_APPROVAL_THRESHOLD

\* The moves that one UPDATE makes of a row that nobody else has moved.
KeepsOfficers(row, new) ==
  new.lender_id = row.lender_id /\ new.second_approver_id = row.second_approver_id

Signs(row, new) ==
  \/ /\ row.state = "under_review"
     /\ new.state = IF IsLarge(row.amount_requested)
                    THEN "pending_second_approval" ELSE "approved"
     /\ new.lender_id # Null /\ new.second_approver_id = row.second_approver_id
  \/ /\ row.state = "pending_second_approval" /\ new.state = "approved"
     /\ new.lender_id = row.lender_id /\ new.second_approver_id # Null
  \/ /\ row.state \in DecisionStates /\ new.state = "rejected"
     /\ new.lender_id # Null /\ new.second_approver_id = row.second_approver_id

Moves(row, new) ==
  /\ new.user = row.user /\ new.amount_requested = row.amount_requested
  /\ \/ /\ KeepsOfficers(row, new)
        /\ <<row.state, new.state>> \in
             {<<"submitted", "under_review">>, <<"approved", "disbursed">>,
              <<"disbursed", "repaying">>, <<"repaying", "closed">>,
              <<"repaying", "defaulted">>}
     \/ Signs(row, new)

LEMMA MovesKeepSigned ==
  ASSUME NEW row, NEW new, SignedAs(row), Moves(row, new)
  PROVE  SignedAs(new)
BY DEF SignedAs, Moves, KeepsOfficers, Signs, DecisionStates, PaidOutStates, NoLoan

\* A step of a request that runs alone writes the row that it read.
LEMMA UpdateLoanMoves ==
  ASSUME IInv, SerialInv, NEW r \in Slots, UpdateLoan(r)
  PROVE  \E l \in Loans, new \in LoanRow :
           loan' = [loan EXCEPT ![l] = new] /\ Moves(loan[l], new)
<1> DEFINE p == req[r]
           row == loan[p.loan]
<1>1. /\ p \in Request /\ p.loan \in Loans /\ row \in LoanRow
      /\ ReqInv(p, row, history[p.loan], kycDone, scored)
  BY DEF IInv, TypeOK, ReqsInv, UpdateLoan, ReqInv, OnLoan
<1>2. PICK approved \in {row.amount_approved} \cup
                        (IF p.op = "makeDecision" THEN Amounts ELSE {}) :
        loan' = [loan EXCEPT ![p.loan] =
                   [Columns(@, p, approved) EXCEPT !.state = p.to]]
  BY DEF UpdateLoan
<1>3. /\ approved \in Amounts \cup {0} /\ (p.op = "makeDecision" => p.actor \in Staff)
      /\ p.step = "update" /\ row.state = p.from
      /\ p.op = "submitForReview" => p.from = "submitted"
      /\ <<p.from, p.to>> \in VALID_TRANSITIONS
      /\ IF p.op = "makeDecision" THEN DecisionInv(p, row) ELSE MoveInv(p)
  BY <1>1, <1>2 DEF LoanRow, ReqInv, DecisionInv, UpdateLoan, OnLoan, SerialInv, Alone
<1> DEFINE new == [Columns(row, p, approved) EXCEPT !.state = p.to]
<1>4. /\ new \in LoanRow /\ new.state = p.to /\ new.user = row.user
      /\ new.amount_requested = row.amount_requested
  BY <1>1, <1>3, ColumnsType DEF RowGrows
<1>5. ASSUME p.op # "makeDecision"
      PROVE  KeepsOfficers(row, new)
  <2>1. \/ Columns(row, p, approved) = row
        \/ Columns(row, p, approved) = [row EXCEPT !.disbursed = TRUE]
    BY <1>5 DEF Columns
  <2> QED
    BY <1>1, <2>1 DEF KeepsOfficers, LoanRow
<1>6. CASE p.op # "makeDecision"
  BY <1>1, <1>2, <1>3, <1>4, <1>5, <1>6 DEF Moves, MoveInv
<1>7. CASE p.op = "makeDecision"
  <2>1. Columns(row, p, approved) = DecisionColumns(row, p, approved)
    BY <1>7 DEF Columns
  <2>2. p.actor # Null
    BY <1>3, <1>7, ConstantsDistinct
  <2>3. CASE p.to = "approved" /\ p.from = "pending_second_approval"
    <3>1. new.lender_id = row.lender_id /\ new.second_approver_id = p.actor
      BY <1>1, <2>1, <2>3 DEF DecisionColumns, LoanRow
    <3> QED
      BY <1>1, <1>2, <1>3, <1>4, <2>2, <2>3, <3>1 DEF Moves, Signs
  <2>4. CASE ~(p.to = "approved" /\ p.from = "pending_second_approval")
    <3>1. new.lender_id = p.actor /\ new.second_approver_id = row.second_approver_id
      BY <1>1, <2>1, <2>4 DEF DecisionColumns, LoanRow
    <3>2. DecisionInv(p, row)
      BY <1>3, <1>7
    <3>3. \/ p.to = "rejected" /\ p.from \in DecisionStates
          \/ /\ p.from = "under_review"
             /\ p.to = IF IsLarge(row.amount_requested)
                       THEN "pending_second_approval" ELSE "approved"
      BY <1>3, <2>4, <3>2 DEF DecisionInv, DecisionStates, VALID_TRANSITIONS
    <3>4. Signs(row, new)
      BY <1>3, <1>4, <2>2, <3>1, <3>3 DEF Signs
    <3> QED
      BY <1>1, <1>2, <1>4, <3>4 DEF Moves
  <2> QED
    BY <2>3, <2>4
<1> QED
  BY <1>6, <1>7

\* Only a move out of an active state leads to one.
LEMMA MovesKeepActive ==
  ASSUME NEW row, NEW new, Moves(row, new), new.state \in ActiveStates
  PROVE  row.state \in ActiveStates
BY DEF Moves, Signs, ActiveStates, DecisionStates

\* A step of the only request that leaves the rows as they are.
LEMMA AloneKept ==
  ASSUME SerialInv, NEW r \in Slots, OneAtATime, Alone(r)',
         \A l \in Loans : /\ loan'[l].user = loan[l].user
                         /\ loan'[l].state = loan[l].state
                         /\ loan'[l].amount_requested = loan[l].amount_requested
                         /\ KeepsOfficers(loan[l], loan'[l])
  PROVE  SerialInv'
<1>1. \A x \in Slots : Alone(x)'
  BY DEF OneAtATime
<1>2. OneActiveLoan'
  BY DEF SerialInv, OneActiveLoan
<1>3. \A l \in Loans : SignedAs(loan'[l])
  BY DEF SerialInv, SignedAs, KeepsOfficers
<1> QED
  BY <1>1, <1>2, <1>3 DEF SerialInv

LEMMA AloneUnchanged ==
  ASSUME SerialInv, NEW r \in Slots, OneAtATime, Alone(r)', UNCHANGED loan
  PROVE  SerialInv'
BY AloneKept DEF KeepsOfficers

\* Between UPDATEs the only request owes nothing.
LEMMA AloneElsewhere ==
  ASSUME NEW r \in Slots, req'[r].step \notin {"score", "create", "update"}
  PROVE  Alone(r)'
BY DEF Alone

LEMMA EnterSerial ==
  ASSUME IInv, SerialInv, OneAtATime, NEW r \in Slots, Enter(r)
  PROVE  SerialInv'
<1>1. loan' = loan
  BY DEF Enter, Apply, SubmitForReview, Disburse, MarkRepaying, CloseLoan,
         MakeDecision, TriggerDefault, Transition, Begin, tables
<1>2. ASSUME NEW u \in Users, Apply(r, u) PROVE Alone(r)'
  <2>1. req'[r].step = "active"
    BY <1>2 DEF Apply, IInv, TypeOK
  <2> QED
    BY <2>1, AloneElsewhere
<1>3. ASSUME NEW op, NEW a, NEW l \in Loans, NEW to, Begin(r, op, a, l, to),
             op = "submitForReview" => loan[l].state = "submitted"
      PROVE  Alone(r)'
  <2>1. /\ req'[r].step = "update" /\ req'[r].loan = l /\ req'[r].op = op
        /\ req'[r].from = loan[l].state
    BY <1>3 DEF Begin, IInv, TypeOK
  <2> QED
    BY <1>1, <1>3, <2>1 DEF Alone
<1>4. ASSUME NEW a \in Staff, NEW l \in Loans, SubmitForReview(r, a, l)
      PROVE  Alone(r)'
  <2>1. Begin(r, "submitForReview", a, l, "under_review")
        /\ loan[l].state = "submitted"
    BY <1>4 DEF SubmitForReview, Transition, VALID_TRANSITIONS
  <2> QED
    BY <1>3, <2>1
<1>5. ASSUME NEW a \in Staff, NEW l \in Loans,
             \/ Disburse(r, a, l) \/ MarkRepaying(r, a, l) \/ CloseLoan(r, a, l)
             \/ TriggerDefault(r, l)
             \/ \E d \in {"approved", "rejected"} : MakeDecision(r, a, l, d)
      PROVE  Alone(r)'
  <2>1. PICK op, b, to : Begin(r, op, b, l, to) /\ op # "submitForReview"
    BY <1>5 DEF Disburse, MarkRepaying, CloseLoan, TriggerDefault, MakeDecision,
                Transition
  <2> QED
    BY <1>3, <2>1
<1>6. ASSUME NEW l \in Loans, TriggerDefault(r, l) PROVE Alone(r)'
  BY <1>3, <1>6 DEF TriggerDefault, Transition
<1>7. Alone(r)'
  BY <1>2, <1>4, <1>5, <1>6 DEF Enter
<1> QED
  BY <1>1, <1>7, AloneUnchanged

LEMMA CheckActiveLoanSerial ==
  ASSUME IInv, SerialInv, OneAtATime, NEW r \in Slots, CheckActiveLoan(r)
  PROVE  SerialInv'
<1>1. loan' = loan /\ req[r] \in Request
  BY DEF CheckActiveLoan, tables, IInv, TypeOK
<1>2. CASE HasActiveLoan(req[r].actor)
  <2>1. req'[r].step = "idle"
    BY <1>2 DEF CheckActiveLoan, Finish, Idle, IInv, TypeOK
  <2> QED
    BY <1>1, <2>1, AloneElsewhere, AloneUnchanged
<1>3. CASE ~HasActiveLoan(req[r].actor)
  <2>1. req'[r].step = "score" /\ req'[r].actor = req[r].actor
    BY <1>1, <1>3 DEF CheckActiveLoan, Goto, IInv, TypeOK, Request
  <2>2. Alone(r)'
    BY <1>1, <1>3, <2>1 DEF Alone, HasActiveLoan
  <2> QED
    BY <1>1, <2>2, AloneUnchanged
<1> QED
  BY <1>2, <1>3

LEMMA EnsureScoreSerial ==
  ASSUME IInv, SerialInv, OneAtATime, NEW r \in Slots, EnsureScore(r)
  PROVE  SerialInv'
<1>1. loan' = loan /\ req[r] \in Request /\ req[r].step = "score"
      /\ ~HasActiveLoan(req[r].actor)
  BY DEF EnsureScore, IInv, TypeOK, SerialInv, Alone
<1>2. req'[r].step = "create" /\ req'[r].actor = req[r].actor
  BY <1>1 DEF EnsureScore, Goto, IInv, TypeOK, Request
<1>3. Alone(r)'
  BY <1>1, <1>2 DEF Alone, HasActiveLoan
<1> QED
  BY <1>1, <1>3, AloneUnchanged

LEMMA CreateLoanSerial ==
  ASSUME IInv, SerialInv, OneAtATime, NEW r \in Slots, CreateLoan(r)
  PROVE  SerialInv'
<1>1. PICK l \in Loans, amt \in Amounts :
        /\ loan[l].state = NoLoan
        /\ loan' = [loan EXCEPT ![l] =
                      [EmptyRow EXCEPT !.user = req[r].actor,
                                       !.state = "submitted",
                                       !.amount_requested = amt]]
        /\ req' = [req EXCEPT ![r].step = "record", ![r].loan = l]
  BY DEF CreateLoan
<1>2. req[r] \in Request /\ ~HasActiveLoan(req[r].actor)
  BY DEF CreateLoan, IInv, TypeOK, SerialInv, Alone
<1>3. /\ loan'[l].user = req[r].actor /\ loan'[l].state = "submitted"
      /\ loan'[l].lender_id = Null /\ loan'[l].second_approver_id = Null
      /\ \A k \in Loans \ {l} : loan'[k] = loan[k]
  BY <1>1 DEF IInv, TypeOK, EmptyRow
<1>4. OneActiveLoan'
  BY <1>2, <1>3 DEF OneActiveLoan, SerialInv, HasActiveLoan
<1>5. \A k \in Loans : SignedAs(loan'[k])
  <2>1. SignedAs(loan'[l])
    BY <1>3 DEF SignedAs, PaidOutStates, NoLoan
  <2> QED
    BY <1>3, <2>1 DEF SerialInv
<1>6. req'[r].step = "record"
  BY <1>1, <1>2 DEF IInv, TypeOK, Request
<1>7. \A x \in Slots : Alone(x)'
  BY <1>6, AloneElsewhere DEF OneAtATime
<1> QED
  BY <1>4, <1>5, <1>7 DEF SerialInv

LEMMA UpdateLoanSerial ==
  ASSUME IInv, SerialInv, OneAtATime, NEW r \in Slots, UpdateLoan(r)
  PROVE  SerialInv'
<1>1. PICK l \in Loans, new \in LoanRow :
        loan' = [loan EXCEPT ![l] = new] /\ Moves(loan[l], new)
  BY UpdateLoanMoves
<1>2. loan'[l] = new /\ \A k \in Loans \ {l} : loan'[k] = loan[k]
  BY <1>1 DEF IInv, TypeOK
<1>3. /\ new.user = loan[l].user
      /\ new.state \in ActiveStates => loan[l].state \in ActiveStates
  BY <1>1, MovesKeepActive DEF Moves
<1>4. OneActiveLoan'
  BY <1>2, <1>3 DEF OneActiveLoan, SerialInv
<1>5. \A k \in Loans : SignedAs(loan'[k])
  BY <1>1, <1>2, MovesKeepSigned DEF SerialInv
<1>6. req'[r].step = "record"
  BY DEF UpdateLoan, Goto, IInv, TypeOK, Request
<1>7. \A x \in Slots : Alone(x)'
  BY <1>6, AloneElsewhere DEF OneAtATime
<1> QED
  BY <1>4, <1>5, <1>7 DEF SerialInv

LEMMA StampClosedRows ==
  ASSUME TypeOK, NEW r \in Slots, StampClosed(r), NEW l \in Loans
  PROVE  /\ loan'[l].user = loan[l].user
         /\ loan'[l].state = loan[l].state
         /\ loan'[l].amount_requested = loan[l].amount_requested
         /\ KeepsOfficers(loan[l], loan'[l])
BY DEF StampClosed, TypeOK, LoanRow, KeepsOfficers

\* A request that is past its UPDATE, or ends.
LEMMA AfterUpdateSerial ==
  ASSUME IInv, SerialInv, OneAtATime, NEW r \in Slots,
         \/ RecordTransition(r) \/ RecordRefused(r) \/ StampClosed(r)
         \/ AuditAndNotify(r) \/ Fail(r)
  PROVE  SerialInv'
<1>1. req'[r].step \in {"idle", "effects", "stamp"}
  <2>1. PICK s \in {"effects", "stamp"} : Finish(r) \/ Goto(r, s)
    BY DEF RecordTransition, AfterRecord, RecordRefused, StampClosed,
           AuditAndNotify, Fail
  <2> QED
    BY <2>1 DEF Finish, Goto, Idle, IInv, TypeOK, Request
<1>2. CASE StampClosed(r)
  <2>1. \A l \in Loans : /\ loan'[l].user = loan[l].user
                        /\ loan'[l].state = loan[l].state
                        /\ loan'[l].amount_requested = loan[l].amount_requested
                        /\ KeepsOfficers(loan[l], loan'[l])
    BY <1>2, StampClosedRows DEF IInv
  <2> QED
    BY <1>1, <2>1, AloneElsewhere, AloneKept
<1>3. CASE ~StampClosed(r)
  <2>1. loan' = loan
    BY <1>3 DEF RecordTransition, RecordRefused, AuditAndNotify, Fail, tables
  <2> QED
    BY <1>1, <2>1, AloneElsewhere, AloneUnchanged
<1> QED
  BY <1>2, <1>3

LEMMA NextSerial ==
  ASSUME IInv, SerialInv, OneAtATime, [Next]_vars
  PROVE  SerialInv'
<1>1. CASE UNCHANGED vars
  BY <1>1 DEF vars, tables, SerialInv, OneActiveLoan, Alone, HasActiveLoan
<1>2. ASSUME NEW u \in Users, VerifyKyc(u) PROVE SerialInv'
  BY <1>2 DEF VerifyKyc, SerialInv, OneActiveLoan, Alone, HasActiveLoan
<1> QED
  BY <1>1, <1>2, EnterSerial, CheckActiveLoanSerial, EnsureScoreSerial,
     CreateLoanSerial, UpdateLoanSerial, AfterUpdateSerial DEF Next, Continue

\* findActiveByUser's promise holds while requests do not overlap: a borrower
\* has one active loan, for any amounts and any failures between statements.
THEOREM OneActiveLoanCorrect == OneAtATime => (Spec => []OneActiveLoan)
<1>1. OneAtATime /\ IInv /\ SerialInv /\ [Next]_vars => SerialInv'
  BY NextSerial
<1>2. SerialInv => OneActiveLoan
  BY DEF SerialInv
<1>3. ASSUME OneAtATime
      PROVE  Spec => []OneActiveLoan
  <2>1. IInv /\ SerialInv /\ [Next]_vars => SerialInv'
    BY <1>1, <1>3
  <2> QED
    BY <1>2, <2>1, SerialInit, Invariance, PTL DEF Spec
<1> QED
  BY <1>3

(*------------------------------ The refinement -------------------------------*)

\* What the contract sees of the rows.
StatusOf(rows) == [l \in Loans |-> rows[l].state]

RequiredOf(rows) ==
  [l \in Loans |-> IF IsLarge(rows[l].amount_requested) THEN 2 ELSE 1]

SignaturesOf(rows) == [l \in Loans |-> Signatures(rows[l])]

LEMMA ContractStarts == Init => Contract!ContractInit
BY DEF Init, Contract!ContractInit, EmptyRow, Signatures, IsLarge,
       DUAL_APPROVAL_THRESHOLD, NoLoan, Contract!NoLoan

\* A step that writes nothing the contract sees is its stutter.
LEMMA ContractStutters ==
  ASSUME \A l \in Loans : /\ loan'[l].state = loan[l].state
                         /\ loan'[l].amount_requested = loan[l].amount_requested
                         /\ KeepsOfficers(loan[l], loan'[l])
  PROVE  UNCHANGED Contract!contractVars
<1>1. \A l \in Loans : Signatures(loan'[l]) = Signatures(loan[l])
  BY DEF KeepsOfficers, Signatures
<1> QED
  BY <1>1 DEF Contract!contractVars

\* What one written row changes of what the contract sees.
LEMMA SeenChange ==
  ASSUME TypeOK, NEW l \in Loans, NEW new, loan' = [loan EXCEPT ![l] = new]
  PROVE  /\ StatusOf(loan') = [StatusOf(loan) EXCEPT ![l] = new.state]
         /\ SignaturesOf(loan') = [SignaturesOf(loan) EXCEPT ![l] = Signatures(new)]
         /\ RequiredOf(loan') =
              [RequiredOf(loan) EXCEPT ![l] = IF IsLarge(new.amount_requested)
                                              THEN 2 ELSE 1]
BY DEF TypeOK, StatusOf, SignaturesOf, RequiredOf

\* The INSERT of an application is the contract's Submit.
LEMMA CreateLoanSubmits ==
  ASSUME IInv, SerialInv, NEW r \in Slots, CreateLoan(r)
  PROVE  Contract!ContractNext
<1>1. PICK l \in Loans, amt \in Amounts :
        /\ loan[l].state = NoLoan
        /\ loan' = [loan EXCEPT ![l] =
                      [EmptyRow EXCEPT !.user = req[r].actor,
                                       !.state = "submitted",
                                       !.amount_requested = amt]]
  BY DEF CreateLoan
<1>2. PICK new : new = [EmptyRow EXCEPT !.user = req[r].actor,
                                        !.state = "submitted",
                                        !.amount_requested = amt]
  OBVIOUS
<1>3. /\ loan' = [loan EXCEPT ![l] = new] /\ TypeOK
      /\ new.state = "submitted" /\ Signatures(new) = 0
  BY <1>1, <1>2 DEF EmptyRow, Signatures, IInv
<1> DEFINE n == IF IsLarge(new.amount_requested) THEN 2 ELSE 1
<1>4. Signatures(loan[l]) = 0 /\ n \in 1..2
  BY <1>1 DEF SerialInv, SignedAs, Signatures
<1>5. /\ StatusOf(loan') = [StatusOf(loan) EXCEPT ![l] = "submitted"]
      /\ SignaturesOf(loan') = [SignaturesOf(loan) EXCEPT ![l] = 0]
      /\ RequiredOf(loan') = [RequiredOf(loan) EXCEPT ![l] = n]
  <2>1. /\ StatusOf(loan') = [StatusOf(loan) EXCEPT ![l] = new.state]
        /\ SignaturesOf(loan') = [SignaturesOf(loan) EXCEPT ![l] = Signatures(new)]
        /\ RequiredOf(loan') = [RequiredOf(loan) EXCEPT ![l] = n]
    BY <1>3, SeenChange
  <2> QED
    BY <1>3, <2>1
<1> HIDE DEF n
<1>6. StatusOf(loan)[l] = NoLoan /\ SignaturesOf(loan') = SignaturesOf(loan)
  BY <1>1, <1>4, <1>5 DEF StatusOf, SignaturesOf
<1>7. Contract!Submit(l)
  BY <1>4, <1>5, <1>6 DEF Contract!Submit, Contract!Move, Contract!NoLoan, NoLoan,
     StatusOf, SignaturesOf, RequiredOf
<1> QED
  BY <1>7 DEF Contract!ContractNext

\* An UPDATE is a move of the contract, under the signatures that it counts.
LEMMA MovesAreContract ==
  ASSUME TypeOK, NEW l \in Loans, NEW new \in LoanRow,
         loan' = [loan EXCEPT ![l] = new], SignedAs(loan[l]), Moves(loan[l], new)
  PROVE  Contract!ContractNext
<1> DEFINE row == loan[l]
           n == IF IsLarge(row.amount_requested) THEN 2 ELSE 1
           signed == Signatures(row)
<1>1. row \in LoanRow /\ new.amount_requested = row.amount_requested
  BY DEF TypeOK, Moves
<1>2. /\ StatusOf(loan)[l] = row.state /\ RequiredOf(loan)[l] = n
      /\ SignaturesOf(loan)[l] = signed
  BY DEF StatusOf, RequiredOf, SignaturesOf
<1>3. /\ StatusOf(loan') = [StatusOf(loan) EXCEPT ![l] = new.state]
      /\ SignaturesOf(loan') = [SignaturesOf(loan) EXCEPT ![l] = Signatures(new)]
      /\ RequiredOf(loan') = RequiredOf(loan)
  <2>1. RequiredOf(loan') = [RequiredOf(loan) EXCEPT ![l] = n]
    BY <1>1, SeenChange
  <2> QED
    BY <1>1, <2>1, SeenChange DEF RequiredOf
<1>4. Signatures(new) = signed => SignaturesOf(loan') = SignaturesOf(loan)
  BY <1>2, <1>3 DEF SignaturesOf
<1>5. ASSUME KeepsOfficers(row, new) PROVE Signatures(new) = signed
  BY <1>5 DEF KeepsOfficers, Signatures
<1>6. row.state = "approved" => signed >= n
  BY DEF SignedAs, Signatures, PaidOutStates
<1>7. /\ row.state = "under_review" => row.second_approver_id = Null
      /\ row.state = "pending_second_approval" =>
           /\ n = 2 /\ signed = 1
           /\ row.lender_id # Null /\ row.second_approver_id = Null
  BY DEF SignedAs, Signatures
<1> HIDE DEF row, n, signed
<1> USE DEF Contract!ContractNext, Contract!Move, StatusOf, RequiredOf, SignaturesOf
<1>8. CASE Signs(row, new)
  <2>1. CASE /\ row.state = "under_review"
             /\ new.state = IF n = 2 THEN "pending_second_approval" ELSE "approved"
             /\ new.lender_id # Null /\ new.second_approver_id = Null
    <3>1. Signatures(new) = 1
      BY <2>1 DEF Signatures
    <3> QED
      BY <1>2, <1>3, <2>1, <3>1 DEF Contract!FirstSignature
  <2>2. CASE /\ row.state = "pending_second_approval" /\ new.state = "approved"
             /\ new.second_approver_id # Null
    <3>1. Signatures(new) = signed + 1
      BY <1>7, <2>2 DEF Signatures
    <3> QED
      BY <1>2, <1>3, <2>2, <3>1 DEF Contract!SecondSignature
  <2>3. CASE /\ row.state \in DecisionStates /\ new.state = "rejected"
             /\ new.lender_id # Null /\ new.second_approver_id = Null
    <3>1. Signatures(new) = 1
      BY <2>3 DEF Signatures
    <3> QED
      BY <1>2, <1>3, <2>3, <3>1 DEF Contract!Reject, DecisionStates
  <2> QED
    BY <1>7, <1>8, <2>1, <2>2, <2>3 DEF Signs, n, DecisionStates
<1>9. CASE KeepsOfficers(row, new)
  <2>1. UNCHANGED <<RequiredOf(loan), SignaturesOf(loan)>>
    BY <1>3, <1>4, <1>5, <1>9
  <2>2. CASE row.state = "submitted" /\ new.state = "under_review"
    BY <1>2, <1>3, <2>1, <2>2 DEF Contract!Review
  <2>3. CASE row.state = "approved" /\ new.state = "disbursed"
    BY <1>2, <1>3, <1>6, <2>1, <2>3 DEF Contract!Disburse
  <2>4. CASE row.state = "disbursed" /\ new.state = "repaying"
    BY <1>2, <1>3, <2>1, <2>4 DEF Contract!Repay
  <2>5. CASE row.state = "repaying" /\ new.state \in {"closed", "defaulted"}
    BY <1>2, <1>3, <2>1, <2>5 DEF Contract!Settle
  <2>6. \/ <<row.state, new.state>> \in
             {<<"submitted", "under_review">>, <<"approved", "disbursed">>,
              <<"disbursed", "repaying">>, <<"repaying", "closed">>,
              <<"repaying", "defaulted">>}
        \/ Signs(row, new)
    BY DEF Moves, row
  <2> QED
    BY <1>8, <2>2, <2>3, <2>4, <2>5, <2>6
<1> QED
  BY <1>9, <1>8 DEF Moves, row

\* One UPDATE or INSERT of a row is one move of the contract, every other
\* statement of a handler is none.
LEMMA NextIsContract ==
  ASSUME IInv, SerialInv, [Next]_vars
  PROVE  [Contract!ContractNext]_(Contract!contractVars)
<1>1. ASSUME UNCHANGED loan PROVE UNCHANGED Contract!contractVars
  BY <1>1, ContractStutters DEF KeepsOfficers
<1>2. CASE UNCHANGED vars
  BY <1>1, <1>2 DEF vars, tables
<1>3. ASSUME NEW u \in Users, VerifyKyc(u) PROVE UNCHANGED loan
  BY <1>3 DEF VerifyKyc
<1>4. ASSUME NEW r \in Slots, Enter(r) PROVE UNCHANGED loan
  BY <1>4 DEF Enter, Apply, SubmitForReview, Disburse, MarkRepaying, CloseLoan,
       MakeDecision, TriggerDefault, Transition, Begin, tables
<1>5. ASSUME NEW r \in Slots,
             \/ CheckActiveLoan(r) \/ EnsureScore(r) \/ RecordTransition(r)
             \/ RecordRefused(r) \/ AuditAndNotify(r) \/ Fail(r)
      PROVE  UNCHANGED loan
  BY <1>5 DEF CheckActiveLoan, EnsureScore, RecordTransition, RecordRefused,
              AuditAndNotify, Fail, tables
<1>6. ASSUME NEW r \in Slots, StampClosed(r)
      PROVE  UNCHANGED Contract!contractVars
  <2>1. TypeOK
    BY DEF IInv
  <2> QED
    BY <1>6, <2>1, StampClosedRows, ContractStutters
<1>7. ASSUME NEW r \in Slots, UpdateLoan(r)
      PROVE  Contract!ContractNext
  <2>1. PICK l \in Loans, new \in LoanRow :
          loan' = [loan EXCEPT ![l] = new] /\ Moves(loan[l], new)
    BY <1>7, UpdateLoanMoves
  <2>2. TypeOK /\ SignedAs(loan[l])
    BY DEF IInv, SerialInv
  <2> QED
    BY <2>1, <2>2, MovesAreContract
<1> QED
  BY <1>1, <1>2, <1>3, <1>4, <1>5, <1>6, <1>7, CreateLoanSubmits DEF Next, Continue

\* The service that serves one request at a time implements its contract: each
\* row that a handler writes is a legal move under the signatures it needs, for
\* any applications, officers and amounts, wherever a request is cut off.
THEOREM ServiceImplementsContract == OneAtATime => (Spec => ImplementsContract)
<1>1. OneAtATime /\ IInv /\ SerialInv /\ [Next]_vars => SerialInv'
  BY NextSerial
<1>2. IInv /\ SerialInv /\ [Next]_vars
        => [Contract!ContractNext]_(Contract!contractVars)
  BY NextIsContract
<1>3. ASSUME OneAtATime
      PROVE  Spec => Contract!ContractSpec
  <2>1. IInv /\ SerialInv /\ [Next]_vars => SerialInv'
    BY <1>1, <1>3
  <2> QED
    BY <1>2, <2>1, ContractStarts, SerialInit, Invariance, PTL
       DEF Spec, Contract!ContractSpec
<1> QED
  BY <1>3 DEF ImplementsContract

\* What an UPDATE that runs alone writes is in the table.
LEMMA MovesFollowTable ==
  ASSUME NEW row, NEW new, Moves(row, new)
  PROVE  <<row.state, new.state>> \in VALID_TRANSITIONS
BY DEF Moves, Signs, DecisionStates, VALID_TRANSITIONS

\* The claim "Valid State Transitions", which concurrent requests break, holds
\* while requests come one at a time, for makeDecision, disburse and apply too,
\* which never look at the table.
THEOREM SerialTableMoves == OneAtATime => (Spec => OnlyTableMoves)
<1> DEFINE Legal == \A l \in Loans :
                      loan[l].state \notin {loan'[l].state, NoLoan}
                        => <<loan[l].state, loan'[l].state>> \in VALID_TRANSITIONS
<1>1. ASSUME IInv, SerialInv, [Next]_vars
      PROVE  [Legal]_vars
  <2>1. CASE UNCHANGED loan
    BY <2>1
  <2>2. ASSUME NEW r \in Slots, CreateLoan(r)
        PROVE  Legal
    BY <1>1, <2>2 DEF CreateLoan, IInv, TypeOK
  <2>3. ASSUME NEW r \in Slots, UpdateLoan(r)
        PROVE  Legal
    <3>1. PICK l \in Loans, new \in LoanRow :
            loan' = [loan EXCEPT ![l] = new] /\ Moves(loan[l], new)
      BY <1>1, <2>3, UpdateLoanMoves
    <3>2. <<loan[l].state, new.state>> \in VALID_TRANSITIONS
      BY <3>1, MovesFollowTable
    <3> QED
      BY <1>1, <3>1, <3>2 DEF IInv, TypeOK
  <2>4. ASSUME NEW r \in Slots, StampClosed(r)
        PROVE  Legal
    BY <1>1, <2>4, StampClosedRows DEF IInv
  <2>5. ASSUME NEW r \in Slots, Enter(r) PROVE UNCHANGED loan
    BY <2>5 DEF Enter, Apply, SubmitForReview, Disburse, MarkRepaying, CloseLoan,
         MakeDecision, TriggerDefault, Transition, Begin, tables
  <2>6. ASSUME NEW r \in Slots,
               \/ CheckActiveLoan(r) \/ EnsureScore(r) \/ RecordTransition(r)
               \/ RecordRefused(r) \/ AuditAndNotify(r) \/ Fail(r)
        PROVE  UNCHANGED loan
    BY <2>6 DEF CheckActiveLoan, EnsureScore, RecordTransition, RecordRefused,
                AuditAndNotify, Fail, tables
  <2>7. CASE UNCHANGED vars
    BY <2>7
  <2>8. ASSUME NEW u \in Users, VerifyKyc(u) PROVE UNCHANGED loan
    BY <2>8 DEF VerifyKyc
  <2> HIDE DEF Legal
  <2> QED
    BY <1>1, <2>1, <2>2, <2>3, <2>4, <2>5, <2>6, <2>7, <2>8 DEF Next, Continue
<1> HIDE DEF Legal
<1>2. ASSUME OneAtATime
      PROVE  Spec => [][Legal]_vars
  <2>1. IInv /\ SerialInv /\ [Next]_vars => SerialInv'
    BY <1>2, NextSerial
  <2> QED
    BY <1>1, <2>1, SerialInit, Invariance, PTL DEF Spec
<1> QED
  BY <1>2 DEF OnlyTableMoves, Legal

(*--------------------------- Requests run to their end ------------------------*)

\* The awaits a request still has before it, at most.
AwaitsLeft(q) ==
  CASE q.step = "active" -> 6
    [] q.step = "score"  -> 5
    [] q.step \in {"create", "update"} -> 4
    [] q.step = "record" -> 3
    [] q.step = "stamp"  -> 2
    [] q.step = "effects" -> 1
    [] OTHER -> 0

\* No request is moved by another one, repeats a statement or turns back:
\* each step of a request in flight brings it nearer to its end.
RequestsRunOut ==
  [][\A r \in Slots :
       req'[r] # req[r] /\ req[r] # Idle
         => AwaitsLeft(req'[r]) < AwaitsLeft(req[r])]_vars

\* Only Idle has no await left.
InFlight == \A r \in Slots : req[r].step = "idle" => req[r] = Idle

LEMMA GotoNearer ==
  ASSUME TypeOK, InFlight, NEW r \in Slots, NEW step \in Steps \ {"idle"}, Goto(r, step),
         AwaitsLeft([req[r] EXCEPT !.step = step]) < AwaitsLeft(req[r])
  PROVE  /\ InFlight'
         /\ \A x \in Slots : req'[x] # req[x] => AwaitsLeft(req'[x]) < AwaitsLeft(req[x])
BY DEF TypeOK, InFlight, Goto, Request

LEMMA FinishNearer ==
  ASSUME TypeOK, InFlight, NEW r \in Slots, Finish(r), req[r] # Idle
  PROVE  /\ InFlight'
         /\ \A x \in Slots : req'[x] # req[x] => AwaitsLeft(req'[x]) < AwaitsLeft(req[x])
<1>1. req[r].step \in Steps \ {"idle"}
  BY DEF TypeOK, InFlight, Request
<1>2. AwaitsLeft(Idle) = 0 /\ AwaitsLeft(req[r]) \in 1..6
  BY <1>1 DEF AwaitsLeft, Idle, Steps
<1> QED
  BY <1>2 DEF TypeOK, InFlight, Finish

LEMMA NextNearer ==
  ASSUME IInv, InFlight, [Next]_vars
  PROVE  /\ InFlight'
         /\ \A x \in Slots : req'[x] # req[x] /\ req[x] # Idle
              => AwaitsLeft(req'[x]) < AwaitsLeft(req[x])
<1>1. TypeOK
  BY DEF IInv
<1>2. CASE UNCHANGED req
  BY <1>2 DEF InFlight
<1>3. ASSUME NEW r \in Slots, Enter(r)
      PROVE  /\ req[r] = Idle /\ req'[r].step # "idle"
             /\ \A x \in Slots : x # r => req'[x] = req[x]
  <2>1. ASSUME NEW u \in Users, Apply(r, u)
        PROVE  /\ req[r] = Idle /\ req'[r].step # "idle"
               /\ \A x \in Slots : x # r => req'[x] = req[x]
    BY <1>1, <2>1 DEF Apply, TypeOK
  <2>2. ASSUME NEW op, NEW a, NEW l, NEW to, Begin(r, op, a, l, to)
        PROVE  /\ req[r] = Idle /\ req'[r].step # "idle"
               /\ \A x \in Slots : x # r => req'[x] = req[x]
    BY <1>1, <2>2 DEF Begin, TypeOK
  <2> QED
    BY <1>3, <2>1, <2>2 DEF Enter, SubmitForReview, Disburse, MarkRepaying,
       CloseLoan, MakeDecision, TriggerDefault, Transition
<1>4. ASSUME NEW r \in Slots, Enter(r)
      PROVE  InFlight' /\ \A x \in Slots : req'[x] # req[x] => req[x] = Idle
  BY <1>3, <1>4 DEF InFlight
<1>5. ASSUME NEW r \in Slots, Continue(r) \/ Fail(r)
      PROVE  /\ InFlight'
             /\ \A x \in Slots : req'[x] # req[x] => AwaitsLeft(req'[x]) < AwaitsLeft(req[x])
  <2>1. req[r] # Idle
    <3>1. Idle.step = "idle"
      BY DEF Idle
    <3> QED
      BY <1>5, <3>1 DEF Continue, CheckActiveLoan, EnsureScore, CreateLoan,
         UpdateLoan, RecordTransition, RecordRefused, StampClosed, AuditAndNotify,
         Fail
  <2>2. CASE Finish(r)
    BY <1>1, <2>1, <2>2, FinishNearer
  <2>3. ASSUME NEW from \in Steps, NEW to \in Steps \ {"idle"},
               req[r].step = from, Goto(r, to),
               <<from, to>> \in {<<"active", "score">>, <<"score", "create">>,
                                 <<"update", "record">>, <<"record", "effects">>,
                                 <<"record", "stamp">>, <<"stamp", "effects">>}
        PROVE  /\ InFlight'
               /\ \A x \in Slots : req'[x] # req[x] => AwaitsLeft(req'[x]) < AwaitsLeft(req[x])
    <3>1. [req[r] EXCEPT !.step = to].step = to
      BY <1>1 DEF TypeOK, Request
    <3>2. AwaitsLeft([req[r] EXCEPT !.step = to]) < AwaitsLeft(req[r])
      BY <2>3, <3>1 DEF AwaitsLeft
    <3> QED
      BY <1>1, <2>3, <3>2, GotoNearer
  <2>4. CASE CreateLoan(r)
    <3>1. PICK l \in Loans : req' = [req EXCEPT ![r].step = "record", ![r].loan = l]
      BY <2>4 DEF CreateLoan
    <3>2. req'[r].step = "record" /\ \A x \in Slots : x # r => req'[x] = req[x]
      BY <1>1, <3>1 DEF TypeOK, Request
    <3>3. AwaitsLeft(req'[r]) = 3 /\ AwaitsLeft(req[r]) = 4
      BY <2>4, <3>2 DEF CreateLoan, AwaitsLeft
    <3> QED
      BY <3>2, <3>3 DEF InFlight
  <2>5. CASE CheckActiveLoan(r) \/ EnsureScore(r) \/ UpdateLoan(r) \/ StampClosed(r)
    BY <2>2, <2>3, <2>5 DEF CheckActiveLoan, EnsureScore, UpdateLoan, StampClosed, Steps
  <2>6. CASE RecordTransition(r)
    BY <2>2, <2>3, <2>6 DEF RecordTransition, AfterRecord, Steps
  <2>7. CASE RecordRefused(r) \/ AuditAndNotify(r) \/ Fail(r)
    BY <2>2, <2>7 DEF RecordRefused, AuditAndNotify, Fail
  <2> QED
    BY <1>5, <2>4, <2>5, <2>6, <2>7 DEF Continue
<1>6. ASSUME NEW u \in Users, VerifyKyc(u)
      PROVE  UNCHANGED req
  BY <1>6 DEF VerifyKyc
<1> QED
  BY <1>2, <1>4, <1>5, <1>6 DEF Next, vars

\* What keeps RequestsEnd from failing, for any overlap: a request takes at most
\* six steps, so the scheduling that never forgets one lets each of them end.
THEOREM LoanRequestsRunOut == Spec => RequestsRunOut
<1>1. Init => InFlight
  BY DEF Init, InFlight
<1>2. IInv /\ InFlight /\ [Next]_vars => InFlight'
  BY NextNearer
<1>3. IInv /\ InFlight /\ [Next]_vars
        => [\A r \in Slots : req'[r] # req[r] /\ req[r] # Idle
              => AwaitsLeft(req'[r]) < AwaitsLeft(req[r])]_vars
  BY NextNearer
<1> QED
  BY <1>1, <1>2, <1>3, Invariance, PTL DEF Spec, RequestsRunOut
================================================================================
