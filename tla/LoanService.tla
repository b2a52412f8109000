------------------------------ MODULE LoanService ------------------------------
(* The loan module of the backend (loan.service.ts, loan.repository.ts).       *)
(*                                                                             *)
(* A handler reads the application, decides, and then writes it and its        *)
(* history in separate statements: no transaction, no lock, no condition in    *)
(* the UPDATE.  A request therefore is a slot that walks from await to await,  *)
(* and several slots interleave.  With one slot the module is the service      *)
(* serving one request at a time; with two it is the deployed service.         *)
EXTENDS LoanStates, FiniteSets

CONSTANTS
  Users,        \* borrowers
  Staff,        \* accounts with role LENDER or ADMIN
  Loans,        \* ids of loan_applications rows
  Slots,        \* requests in flight at the same time
  Amounts,      \* rupee amounts a request may name
  MaxFailures,  \* bound: how often an awaited call throws or the process dies
  System,       \* the literal 'system' that triggerDefault passes as actor
  Null          \* SQL NULL

ASSUME ConstantsDistinct ==
  /\ Null \notin Users \cup Staff \cup Loans
  /\ System \notin Users \cup Staff \cup {Null}

ASSUME AmountsArePositive == Amounts \subseteq Nat \ {0}

ASSUME MaxFailuresIsNat == MaxFailures \in Nat

VARIABLES
  kycDone,      \* users whose kyc status is no longer PENDING
  scored,       \* users with a credit_scores row
  loan,         \* loan_applications
  history,      \* loan_state_transitions: the (from, to) rows of each loan
  audit,        \* audit_logs: to-states audited, per loan
  outbox,       \* notification queue: to-states notified, per loan
  req,          \* the requests in flight
  failures      \* failures so far

tables == <<kycDone, scored, loan, history, audit, outbox>>

vars == <<kycDone, scored, loan, history, audit, outbox, req, failures>>

(*-------------------------------- The tables ---------------------------------*)

\* amount 0 stands for an amount_approved that is NULL (the column has a CHECK
\* > 0); decided, disbursed and closed say whether the timestamp is set.
LoanRow ==
  [user : Users \cup {Null}, state : LoanState \cup {NoLoan},
   amount_requested : Amounts \cup {0}, amount_approved : Amounts \cup {0},
   lender_id : Staff \cup {Null}, second_approver_id : Staff \cup {Null},
   decided : BOOLEAN, disbursed : BOOLEAN, closed : BOOLEAN]

EmptyRow ==
  [user |-> Null, state |-> NoLoan, amount_requested |-> 0,
   amount_approved |-> 0, lender_id |-> Null, second_approver_id |-> Null,
   decided |-> FALSE, disbursed |-> FALSE, closed |-> FALSE]

HistoryRow == LoanState \X LoanState

(*------------------------------- The requests --------------------------------*)

Ops == {"apply", "submitForReview", "makeDecision", "disburse", "markRepaying",
        "closeLoan", "triggerDefault"}

\* What a request does next.  "update" and everything after it work on the
\* state read when the request began.
Steps == {"idle", "active", "score", "create", "update", "record", "stamp",
          "effects"}

Request ==
  [op : Ops \cup {"none"}, step : Steps,
   actor : Users \cup Staff \cup {System, Null}, loan : Loans \cup {Null},
   from : LoanState, to : LoanState]

Idle == [op |-> "none", step |-> "idle", actor |-> Null, loan |-> Null,
         from |-> "draft", to |-> "draft"]

TypeOK ==
  /\ kycDone \subseteq Users
  /\ scored \subseteq Users
  /\ loan \in [Loans -> LoanRow]
  /\ history \in [Loans -> SUBSET HistoryRow]
  /\ audit \in [Loans -> SUBSET LoanState]
  /\ outbox \in [Loans -> SUBSET LoanState]
  /\ req \in [Slots -> Request]
  /\ failures \in 0..MaxFailures

Init ==
  /\ kycDone = {}
  /\ scored = {}
  /\ loan = [l \in Loans |-> EmptyRow]
  /\ history = [l \in Loans |-> {}]
  /\ audit = [l \in Loans |-> {}]
  /\ outbox = [l \in Loans |-> {}]
  /\ req = [r \in Slots |-> Idle]
  /\ failures = 0

Goto(r, step) == req' = [req EXCEPT ![r].step = step]

Finish(r) == req' = [req EXCEPT ![r] = Idle]

\* A handler of the lender's side is entered: it has read state `from` and
\* passed its checks, and is about to write state `to`.
Begin(r, op, actor, l, to) ==
  /\ req[r] = Idle
  /\ req' = [req EXCEPT ![r] = [op |-> op, step |-> "update", actor |-> actor,
                                loan |-> l, from |-> loan[l].state,
                                to |-> to]]
  /\ UNCHANGED <<tables, failures>>

(*-------------------------------- Environment --------------------------------*)

\* kyc.service.ts moves the borrower's record away from PENDING, for good.
VerifyKyc(u) ==
  /\ u \notin kycDone
  /\ kycDone' = kycDone \cup {u}
  /\ UNCHANGED <<scored, loan, history, audit, outbox, req, failures>>

(*--------------------------- apply, await by await ---------------------------*)

\* Bound: every application in flight finds a free row among Loans.
RoomToApply ==
  Cardinality({r \in Slots : req[r].step \in {"active", "score", "create"}})
    < Cardinality({l \in Loans : loan[l].state = NoLoan})

\* 1. The KYC record is read; a PENDING one ends the request.
Apply(r, u) ==
  /\ RoomToApply
  /\ req[r] = Idle
  /\ u \in kycDone
  /\ req' = [req EXCEPT ![r] = [op |-> "apply", step |-> "active", actor |-> u,
                                loan |-> Null, from |-> "draft",
                                to |-> "submitted"]]
  /\ UNCHANGED <<tables, failures>>

\* Mutant: the states after the payout are missing from the query.
MutHasActiveLoan(u) ==
  \E l \in Loans : /\ loan[l].user = u
                   /\ loan[l].state \in ActiveStates \ {"disbursed", "repaying"}

HasActiveLoan(u) ==
  \E l \in Loans : loan[l].user = u /\ loan[l].state \in ActiveStates

\* 2. findActiveByUser; ACTIVE_LOAN_EXISTS ends the request.
CheckActiveLoan(r) ==
  /\ req[r].step = "active"
  /\ IF HasActiveLoan(req[r].actor) THEN Finish(r) ELSE Goto(r, "score")
  /\ UNCHANGED <<tables, failures>>

\* 3. getScore, or calculateScore, which falls back to a mock score.
EnsureScore(r) ==
  /\ req[r].step = "score"
  /\ scored' = scored \cup {req[r].actor}
  /\ Goto(r, "create")
  /\ UNCHANGED <<kycDone, loan, history, audit, outbox, failures>>

\* 4. INSERT of the application in state SUBMITTED.
CreateLoan(r) ==
  /\ req[r].step = "create"
  /\ \E l \in Loans, amt \in Amounts :
       /\ loan[l].state = NoLoan
       /\ loan' = [loan EXCEPT ![l] =
                     [EmptyRow EXCEPT !.user = req[r].actor,
                                      !.state = "submitted",
                                      !.amount_requested = amt]]
       /\ req' = [req EXCEPT ![r].step = "record", ![r].loan = l]
  /\ UNCHANGED <<kycDone, scored, history, audit, outbox, failures>>

(*------------------------ lender side: read and check ------------------------*)

Transition(r, op, actor, l, to) ==
  /\ <<loan[l].state, to>> \in VALID_TRANSITIONS
  /\ Begin(r, op, actor, l, to)

SubmitForReview(r, a, l) ==
  Transition(r, "submitForReview", a, l, "under_review")

MarkRepaying(r, a, l) == Transition(r, "markRepaying", a, l, "repaying")

CloseLoan(r, a, l) == Transition(r, "closeLoan", a, l, "closed")

\* Public, but no route or job of the repository calls it.
TriggerDefault(r, l) ==
  Transition(r, "triggerDefault", System, l, "defaulted")

\* Mutant: a submitted loan can be decided before its review.
MutDecisionStates == {"submitted", "under_review", "pending_second_approval"}

DecisionStates == {"under_review", "pending_second_approval"}

\* Mutant: no routing to the second approver.
MutDecisionTarget(l, decision) ==
  IF decision = "approved" THEN "approved" ELSE "rejected"

\* A large loan's first approval only routes it to the second approver.
DecisionTarget(l, decision) ==
  IF /\ decision = "approved"
     /\ IsLarge(loan[l].amount_requested)
     /\ loan[l].state # "pending_second_approval"
  THEN "pending_second_approval"
  ELSE IF decision = "approved" THEN "approved" ELSE "rejected"

MakeDecision(r, a, l, decision) ==
  /\ loan[l].state \in DecisionStates
  /\ Begin(r, "makeDecision", a, l, DecisionTarget(l, decision))

\* Mutant: a loan that still waits for its second approval is paid out.
MutDisbursableStates == {"approved", "pending_second_approval"}

DisbursableStates == {"approved"}

Disburse(r, a, l) ==
  /\ loan[l].state \in DisbursableStates
  /\ Begin(r, "disburse", a, l, "disbursed")

(*----------------------- lender side: the blind UPDATE -----------------------*)

\* Mutant: the borrower's id is stored as the lender's.
MutDecisionColumns(row, q, approved) ==
  IF q.to = "pending_second_approval"
  THEN [row EXCEPT !.lender_id = row.user]
  ELSE [row EXCEPT !.decided = TRUE, !.amount_approved = approved,
                   !.second_approver_id = q.actor]

\* The columns makeDecision sets beside the state: the first approval of a
\* large loan names the lender only, a final decision stamps decided_at and
\* one of the two approver columns, and amount_approved when the request
\* names one.
DecisionColumns(row, q, approved) ==
  IF q.to = "pending_second_approval"
  THEN [row EXCEPT !.lender_id = q.actor]
  ELSE IF q.to = "approved" /\ q.from = "pending_second_approval"
  THEN [row EXCEPT !.decided = TRUE, !.amount_approved = approved,
                   !.second_approver_id = q.actor]
  ELSE [row EXCEPT !.decided = TRUE, !.amount_approved = approved,
                   !.lender_id = q.actor]

Columns(row, q, approved) ==
  CASE q.op = "makeDecision" -> DecisionColumns(row, q, approved)
    [] q.op = "disburse" -> [row EXCEPT !.disbursed = TRUE]
    [] OTHER -> row

\* Mutant: the routing to the second approver returns before its history row.
MutUpdateReturnsEarly(r) ==
  LET q == req[r] IN
  /\ q.step = "update"
  /\ \E approved \in {loan[q.loan].amount_approved} \cup
                     (IF q.op = "makeDecision" THEN Amounts ELSE {}) :
       loan' = [loan EXCEPT ![q.loan] =
                  [Columns(@, q, approved) EXCEPT !.state = q.to]]
  /\ IF q.to = "pending_second_approval" THEN Finish(r) ELSE Goto(r, "record")
  /\ UNCHANGED <<kycDone, scored, history, audit, outbox, failures>>

\* Mutant: decision and payout are announced before they are recorded.
MutUpdateNotifiesFirst(r) ==
  LET q == req[r] IN
  /\ q.step = "update"
  /\ \E approved \in {loan[q.loan].amount_approved} \cup
                     (IF q.op = "makeDecision" THEN Amounts ELSE {}) :
       loan' = [loan EXCEPT ![q.loan] =
                  [Columns(@, q, approved) EXCEPT !.state = q.to]]
  /\ Goto(r, IF q.to \in {"approved", "rejected", "disbursed"}
             THEN "effects" ELSE "record")
  /\ UNCHANGED <<kycDone, scored, history, audit, outbox, failures>>

\* UPDATE ... SET state = <to>, ... WHERE id = <loan>: the row may have moved
\* on since the request read it.
UpdateLoan(r) ==
  LET q == req[r] IN
  /\ q.step = "update"
  /\ \E approved \in {loan[q.loan].amount_approved} \cup
                     (IF q.op = "makeDecision" THEN Amounts ELSE {}) :
       loan' = [loan EXCEPT ![q.loan] =
                  [Columns(@, q, approved) EXCEPT !.state = q.to]]
  /\ Goto(r, "record")
  /\ UNCHANGED <<kycDone, scored, history, audit, outbox, failures>>

(*---------------------- history, stamps and side effects ---------------------*)

\* actor_id is a UUID that references users: 'system' is refused.
ActorAccepted(a) == a \in Users \cup Staff

\* The handlers that go on to audit_logs and the notification queue.
HasEffects(q) ==
  q.op \in {"apply", "makeDecision", "disburse"} /\ q.to # "pending_second_approval"

AfterRecord(r) ==
  CASE HasEffects(req[r]) -> Goto(r, "effects")
    [] req[r].op = "closeLoan" -> Goto(r, "stamp")
    [] OTHER -> Finish(r)

RecordTransition(r) ==
  LET q == req[r] IN
  /\ q.step = "record"
  /\ ActorAccepted(q.actor)
  /\ history' = [history EXCEPT ![q.loan] = @ \cup {<<q.from, q.to>>}]
  /\ AfterRecord(r)
  /\ UNCHANGED <<kycDone, scored, loan, audit, outbox, failures>>

\* Mutant: a refused INSERT is tried again.
MutRecordRefused(r) ==
  /\ req[r].step = "record"
  /\ ~ActorAccepted(req[r].actor)
  /\ UNCHANGED <<tables, req, failures>>

\* The INSERT throws, the handler with it; its UPDATE of the state stays.
RecordRefused(r) ==
  /\ req[r].step = "record"
  /\ ~ActorAccepted(req[r].actor)
  /\ Finish(r)
  /\ UNCHANGED <<tables, failures>>

\* closeLoan's second UPDATE.  (triggerDefault's, of dpd_90_triggered_at, is
\* never reached.)
StampClosed(r) ==
  /\ req[r].step = "stamp"
  /\ loan' = [loan EXCEPT ![req[r].loan].closed = TRUE]
  /\ Goto(r, "effects")
  /\ UNCHANGED <<kycDone, scored, history, audit, outbox, failures>>

\* Audit row (closeLoan writes none) and queued notification; the handler
\* swallows the failure of either.
AuditAndNotify(r) ==
  LET q == req[r] IN
  /\ q.step = "effects"
  /\ \E audited, queued \in BOOLEAN :
       /\ failures' = failures + (IF audited /\ queued THEN 0 ELSE 1)
       /\ failures' <= MaxFailures
       /\ audit' = [audit EXCEPT ![q.loan] =
            IF audited /\ q.op # "closeLoan" THEN @ \cup {q.to} ELSE @]
       /\ outbox' = [outbox EXCEPT ![q.loan] =
            IF queued THEN @ \cup {q.to} ELSE @]
  /\ Finish(r)
  /\ UNCHANGED <<kycDone, scored, loan, history>>

\* An awaited call throws, or the process dies: what was written stays.
Fail(r) ==
  /\ failures < MaxFailures
  /\ req[r] # Idle
  /\ failures' = failures + 1
  /\ Finish(r)
  /\ UNCHANGED tables

(*------------------------------- Specification -------------------------------*)

\* A request that has been read in and checked runs on by itself.
Continue(r) ==
  \/ CheckActiveLoan(r) \/ EnsureScore(r) \/ CreateLoan(r) \/ UpdateLoan(r)
  \/ RecordTransition(r) \/ RecordRefused(r) \/ StampClosed(r)
  \/ AuditAndNotify(r)

Enter(r) ==
  \/ \E u \in Users : Apply(r, u)
  \/ \E a \in Staff, l \in Loans :
       \/ SubmitForReview(r, a, l) \/ Disburse(r, a, l)
       \/ MarkRepaying(r, a, l) \/ CloseLoan(r, a, l)
       \/ \E d \in {"approved", "rejected"} : MakeDecision(r, a, l, d)
  \/ \E l \in Loans : TriggerDefault(r, l)

Next ==
  \/ \E u \in Users : VerifyKyc(u)
  \/ \E r \in Slots : Enter(r) \/ Continue(r) \/ Fail(r)

Spec == Init /\ [][Next]_vars

\* The event loop resumes every handler whose awaited call has answered.
FairSpec == Spec /\ \A r \in Slots : WF_vars(Continue(r))

(*------------- Safety, whatever the interleaving and the failures ------------*)

Recorded(l, s) == \E row \in history[l] : row[2] = s

\* Every row of loan_state_transitions is a move of VALID_TRANSITIONS, also
\* those written by makeDecision, disburse and apply, which never consult the
\* table.
HistoryFollowsTable ==
  \A l \in Loans : history[l] \subseteq VALID_TRANSITIONS

\* makeDecision's dual approval: a loan requested above the threshold that is
\* approved, or has been paid out, went through two approval steps, each with
\* its officer on record.  Stale requests may overwrite the columns, never
\* skip a step.
LargeLoanTwoSteps ==
  \A l \in Loans :
    /\ IsLarge(loan[l].amount_requested)
    /\ loan[l].state \in {"approved"} \cup PaidOutStates
    => loan[l].lender_id # Null /\ loan[l].second_approver_id # Null

\* disburse runs on a decided loan only, and the repayment states come only
\* after it, even when requests overwrite each other's states.
MoneyAfterDecision ==
  \A l \in Loans :
    /\ loan[l].disbursed => loan[l].decided
    /\ loan[l].state \in PaidOutStates => loan[l].disbursed
    /\ loan[l].closed => loan[l].disbursed

\* Nothing is audited or announced to the borrower that the history does not
\* record: the history row is inserted first.
EffectsAreRecorded ==
  \A l \in Loans : \A s \in audit[l] \cup outbox[l] :
    Recorded(l, s)

\* apply's checks: an application belongs to a borrower whose KYC is past
\* PENDING and who has a score.
ApplicantsAreKnown ==
  \A l \in Loans :
    loan[l].state # NoLoan => loan[l].user \in kycDone \cap scored

\* As long as nothing fails, every state an application is in, or a recorded
\* move starts from, is recorded, or the request that wrote it is about to
\* record it, however many requests overlap.  DEFAULTED is the exception: its
\* row names 'system' as the actor, which is no user, so the INSERT is refused.
HistoryHasNoGap ==
  failures = 0 => \A l \in Loans :
    \A s \in {loan[l].state} \cup {row[1] : row \in history[l]} :
      \/ s \in {NoLoan, "draft", "defaulted"}
      \/ Recorded(l, s)
      \/ \E r \in Slots : /\ req[r].step = "record"
                         /\ req[r].loan = l
                         /\ req[r].to = s

(*---------------------- What one request at a time gives ---------------------*)

\* findActiveByUser's promise.
OneActiveLoan ==
  \A k, l \in Loans :
    /\ k # l
    /\ loan[k].user = loan[l].user
    /\ loan[k].state \in ActiveStates
    => loan[l].state \notin ActiveStates

(*---------------------------------- Liveness ---------------------------------*)

\* Every request comes to its end, however it interleaves with others.  With
\* HistoryHasNoGap: without failures, every state but DEFAULTED that an
\* application takes gets its history row.
RequestsEnd == \A r \in Slots : req[r] # Idle ~> req[r] = Idle

(*------------- Claims of the repository that the code does not keep ----------*)

\* "Valid State Transitions": a loan only makes the moves of the table.  Two
\* concurrent requests break it.
OnlyTableMoves ==
  [][\A l \in Loans :
       loan[l].state \notin {loan'[l].state, NoLoan}
         => <<loan[l].state, loan'[l].state>> \in VALID_TRANSITIONS]_vars

===============================================================================
