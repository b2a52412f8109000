-------------------------------- MODULE Scoring --------------------------------
(* Credit scores of one borrower (scoring.service.ts, scoring.repository.ts):  *)
(* the call of the ML service, the mock it falls back to, and createOrUpdate   *)
(* on the table credit_scores, whose rule turns every UPDATE into nothing.     *)
(* Calculations interleave between the calls they await.                       *)
EXTENDS Serving, Sequences

CONSTANTS
  MlScores,    \* scores the ML service may answer with
  MockScores,  \* scores the fallback may draw
  MaxCalls,    \* bound: calculations started
  MaxFaults    \* bound: database and queue calls that fail, requests that die

ASSUME ScoringBoundsAreNat == MaxCalls \in Nat /\ MaxFaults \in Nat

\* train.py's round(300 + p ** 0.7 * 600) for p in [0.001, 0.999], and the
\* fallback's random draw; the column's CHECK accepts both.
ASSUME ScoresInRange == MlScores \subseteq 305..900 /\ MockScores \subseteq 300..850

VARIABLES
  rows,       \* credit_scores of the borrower, oldest generated_at first
  announced,  \* scores of the SCORE_GENERATED jobs in the queue
  answered,   \* scores that calculations have answered with
  req,        \* the calculations in flight
  calls,      \* calculations started so far
  faults      \* faults so far

scoringVars == <<rows, announced, answered, req, calls, faults>>

Scores == MlScores \cup MockScores

RiskBand == {"high", "medium", "low"}

Row == [score : Scores, band : RiskBand]

Steps == {"idle", "ml", "find", "insert", "update", "notify"}

\* real: the score is the ML service's.  score 0: none yet.
Request == [step : Steps, real : BOOLEAN, score : {0} \cup Scores]

Idle == [step |-> "idle", real |-> FALSE, score |-> 0]

ScoringTypeOK ==
  /\ rows \in Seq(Row)
  /\ announced \subseteq Scores
  /\ answered \subseteq Scores
  /\ req \in [Requests -> Request]
  /\ calls \in 0..MaxCalls
  /\ faults \in 0..MaxFaults

ScoringInit ==
  /\ rows = <<>>
  /\ announced = {} /\ answered = {}
  /\ req = [r \in Requests |-> Idle]
  /\ calls = 0 /\ faults = 0

(*--------------------------------- Risk bands --------------------------------*)

\* classify_risk_band, its label as the set of its words.
MlLabel(s) ==
  IF s >= 750 THEN {"low", "risk"}
  ELSE IF s >= 550 THEN {"medium", "risk"}
  ELSE {"high", "risk"}

\* Mutant: the label is matched against the names of the enum only.
MutMapRiskBand(words) ==
  CASE words = {"low"} -> "low" [] words = {"medium"} -> "medium"
    [] OTHER -> "high"

MapRiskBand(words) ==
  IF words \cap {"low", "excellent", "good"} # {} THEN "low"
  ELSE IF words \cap {"medium", "fair"} # {} THEN "medium"
  ELSE "high"

\* Mutant: the worst band of the enum for the lowest draws.
MutMockBand(s) ==
  IF s > 750 THEN "low" ELSE IF s > 600 THEN "medium" ELSE "very_high"

MockBand(s) ==
  IF s > 750 THEN "low" ELSE IF s > 600 THEN "medium" ELSE "high"

Band(q) == IF q.real THEN MapRiskBand(MlLabel(q.score)) ELSE MockBand(q.score)

(*------------------------------- calculateScore ------------------------------*)

Goto(r, step) == req' = [req EXCEPT ![r].step = step]

Finish(r) == req' = [req EXCEPT ![r] = Idle]

\* createOrUpdate is entered with a score of either source.
Store(r, real, s) ==
  req' = [req EXCEPT ![r] = [step |-> "find", real |-> real, score |-> s]]

\* calculateScoreFallback.
Fallback(r) == \E s \in MockScores : Store(r, FALSE, s)

\* Asked for by the borrower, or by apply when getScore found no row.
CalculateScore(r) ==
  /\ req[r] = Idle
  /\ calls < MaxCalls
  /\ calls' = calls + 1
  /\ Goto(r, "ml")
  /\ UNCHANGED <<rows, announced, answered, faults>>

ScoreSurvey(r) ==
  /\ req[r].step = "ml"
  /\ \E s \in MlScores : Store(r, TRUE, s)
  /\ UNCHANGED <<rows, announced, answered, calls, faults>>

\* Mutant: the failure is passed on to the caller.
MutScoreSurveyFails(r) ==
  /\ req[r].step = "ml"
  /\ Finish(r)
  /\ UNCHANGED <<rows, announced, answered, calls, faults>>

\* Unreachable, 503, malformed, or no answer within 30 seconds.
ScoreSurveyFails(r) ==
  /\ req[r].step = "ml"
  /\ Fallback(r)
  /\ UNCHANGED <<rows, announced, answered, calls, faults>>

\* Mutant: a new row for every calculation.
MutFindLatest(r) ==
  /\ req[r].step = "find"
  /\ Goto(r, "insert")
  /\ UNCHANGED <<rows, announced, answered, calls, faults>>

FindLatest(r) ==
  /\ req[r].step = "find"
  /\ Goto(r, IF rows = <<>> THEN "insert" ELSE "update")
  /\ UNCHANGED <<rows, announced, answered, calls, faults>>

\* What follows a save: a real score is announced, a mock one answered at once.
Saved(r) ==
  IF req[r].real
  THEN Goto(r, "notify") /\ UNCHANGED answered
  ELSE Finish(r) /\ answered' = answered \cup {req[r].score}

NewRow(q) == [score |-> q.score, band |-> Band(q)]

InsertScore(r) ==
  /\ req[r].step = "insert"
  /\ rows' = Append(rows, NewRow(req[r]))
  /\ Saved(r)
  /\ UNCHANGED <<announced, calls, faults>>

\* Mutant: the rule is not installed, the UPDATE overwrites the latest row.
MutUpdateScore(r) ==
  /\ req[r].step = "update"
  /\ rows' = [rows EXCEPT ![Len(rows)] = NewRow(req[r])]
  /\ Saved(r)
  /\ UNCHANGED <<announced, calls, faults>>

\* no_update_scores: DO INSTEAD NOTHING.  save does not look at the count.
UpdateScore(r) ==
  /\ req[r].step = "update"
  /\ Saved(r)
  /\ UNCHANGED <<rows, announced, calls, faults>>

\* The catch covers the database as well: after a real score it stores a mock
\* one.  A failure in the fallback itself is the caller's.  The INSERT may have
\* been committed although its answer was lost.
CallFails(r) ==
  /\ req[r].step \in {"find", "insert", "update"}
  /\ faults < MaxFaults
  /\ faults' = faults + 1
  /\ \/ UNCHANGED rows
     \/ req[r].step = "insert" /\ rows' = Append(rows, NewRow(req[r]))
  /\ IF req[r].real THEN Fallback(r) ELSE Finish(r)
  /\ UNCHANGED <<announced, answered, calls>>

\* The job is queued or, when the queue fails, forgotten with a warning.
Notify(r) ==
  /\ req[r].step = "notify"
  /\ \/ announced' = announced \cup {req[r].score} /\ UNCHANGED faults
     \/ faults < MaxFaults /\ faults' = faults + 1 /\ UNCHANGED announced
  /\ answered' = answered \cup {req[r].score}
  /\ Finish(r)
  /\ UNCHANGED <<rows, calls>>

\* The process dies.
Die(r) ==
  /\ req[r] # Idle
  /\ faults < MaxFaults
  /\ faults' = faults + 1
  /\ Finish(r)
  /\ UNCHANGED <<rows, announced, answered, calls>>

(*------------------------------- Specification -------------------------------*)

Continue(r) ==
  \/ ScoreSurvey(r) \/ ScoreSurveyFails(r) \/ FindLatest(r) \/ InsertScore(r)
  \/ UpdateScore(r) \/ Notify(r)

ScoringNext ==
  \E r \in Requests :
    CalculateScore(r) \/ Continue(r) \/ CallFails(r) \/ Die(r)

ScoringSpec == ScoringInit /\ [][ScoringNext]_scoringVars

\* The event loop resumes every handler whose call answered; the call of the ML
\* service answers or times out.
ScoringFairness == \A r \in Requests : WF_scoringVars(Continue(r))

(*--------------------------------- Properties --------------------------------*)

\* createOrUpdate: whatever is recalculated, repeated or lost, a borrower has
\* at most one row per calculation that was in flight together with the first.
OneRowPerRequest == Len(rows) <= Cardinality(Requests)

\* A calculation that is still going to insert.
Inserting == {r \in Requests : req[r].step = "insert"}

\* getScore settles: with a row on record and no INSERT pending, no later
\* calculation changes what it answers.
ScoreSettles ==
  [][rows # <<>> /\ Inserting = {} => rows' = rows]_scoringVars

\* SCORE_GENERATED is queued only after a score was saved, also when a save
\* fails and the fallback takes over.
AnnouncedIsOnRecord == announced # {} => rows # <<>>

\* The bands of both sources agree that 750 is good and 600 is not bad.
BandFitsScore ==
  \A i \in DOMAIN rows :
    /\ rows[i].band = "low" => rows[i].score >= 750
    /\ rows[i].band = "high" => rows[i].score <= 600

\* "Fallback: mock scoring if ML service is unreachable": a calculation that
\* the database does not fail leaves the borrower with a score, ML or no ML.
AskedIsScored ==
  (\E r \in Requests : req[r] # Idle) ~> (rows # <<>> \/ faults > 0)

\* "Scores are immutable: never update a score, create a new one": every score
\* a calculation has answered with is on record.
AnsweredIsOnRecord ==
  \A s \in answered : \E i \in DOMAIN rows : rows[i].score = s
================================================================================
