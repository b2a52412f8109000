------------------------------ MODULE ScoringProofs -----------------------------
(* Scoring, for any number of calculations in flight: types, the number of     *)
(* rows, what is announced, the bands, and that the score settles.             *)
EXTENDS Scoring, FiniteSetTheorems, TLAPS

\* A calculation that reached createOrUpdate has a score.
HasScore ==
  \A r \in Requests : req[r].step \notin {"idle", "ml"} => req[r].score \in Scores

\* Each row on record was inserted by a calculation of its own, and there is
\* room for those that still insert.
RoomForInserts ==
  rows # <<>> => Len(rows) + Cardinality(Inserting) <= Cardinality(Requests)

\* An update and an announcement come after a row was found or inserted.
SavedIsOnRecord ==
  \A r \in Requests : req[r].step \in {"update", "notify"} => rows # <<>>

\* The inductive invariant.
ScoringInv ==
  /\ ScoringTypeOK
  /\ HasScore
  /\ RoomForInserts
  /\ SavedIsOnRecord
  /\ AnnouncedIsOnRecord
  /\ BandFitsScore

\* The scores of both sources are numbers.
LEMMA ScoresAreNat == Scores \subseteq Nat
<1>1. 305..900 \subseteq Nat /\ 300..850 \subseteq Nat
  OBVIOUS
<1>2. QED
  BY <1>1, ScoresInRange DEF Scores

\* What createOrUpdate inserts: a row of the table's type whose band fits.
LEMMA NewRowFits ==
  ASSUME NEW q \in Request, q.score \in Scores
  PROVE  /\ NewRow(q) \in Row
         /\ NewRow(q).band = "low" => NewRow(q).score >= 750
         /\ NewRow(q).band = "high" => NewRow(q).score <= 600
<1>1. q.score \in Nat
  BY ScoresAreNat
<1>2. CASE q.real
  <2>1. Band(q) = IF q.score >= 750 THEN "low"
                  ELSE IF q.score >= 550 THEN "medium" ELSE "high"
    BY <1>1, <1>2 DEF Band, MlLabel, MapRiskBand
  <2>2. QED
    BY <1>1, <2>1 DEF NewRow, Row, RiskBand
<1>3. CASE ~q.real
  <2>1. Band(q) = IF q.score > 750 THEN "low"
                  ELSE IF q.score > 600 THEN "medium" ELSE "high"
    BY <1>3 DEF Band, MockBand
  <2>2. QED
    BY <1>1, <2>1 DEF NewRow, Row, RiskBand
<1>4. QED
  BY <1>2, <1>3

\* The calculations that insert are among finitely many.
LEMMA InsertingIsFinite ==
  /\ IsFiniteSet(Inserting) /\ Cardinality(Inserting) \in Nat
  /\ Cardinality(Requests) \in Nat
  /\ Cardinality(Inserting) <= Cardinality(Requests)
<1>1. Inserting \subseteq Requests
  BY DEF Inserting
<1>2. QED
  BY <1>1, RequestsFinite, FS_Subset, FS_CardinalityType

\* Appending one row keeps the rows' type and bands.
LEMMA AppendFits ==
  ASSUME ScoringTypeOK, BandFitsScore, NEW q \in Request, q.score \in Scores,
         rows' = Append(rows, NewRow(q))
  PROVE  rows' \in Seq(Row) /\ rows' # <<>> /\ Len(rows') = Len(rows) + 1
         /\ BandFitsScore'
<1>1. NewRow(q) \in Row
  BY NewRowFits
<1>2. rows \in Seq(Row) /\ Len(rows) \in Nat
  BY DEF ScoringTypeOK
<1>3. rows' \in Seq(Row) /\ Len(rows') = Len(rows) + 1
  BY <1>1, <1>2
<1>4. rows' # <<>>
  BY <1>2, <1>3
<1>5. ASSUME NEW i \in DOMAIN rows'
      PROVE  /\ rows'[i].band = "low" => rows'[i].score >= 750
             /\ rows'[i].band = "high" => rows'[i].score <= 600
  <2>1. CASE i = Len(rows) + 1
    <3>1. rows'[i] = NewRow(q)
      BY <1>1, <1>2, <2>1
    <3>2. QED
      BY <3>1, NewRowFits
  <2>2. CASE i # Len(rows) + 1
    <3>1. i \in DOMAIN rows /\ rows'[i] = rows[i]
      BY <1>1, <1>2, <1>3, <1>5, <2>2
    <3>2. QED
      BY <3>1 DEF BandFitsScore
  <2>3. QED
    BY <2>1, <2>2
<1>6. QED
  BY <1>3, <1>4, <1>5 DEF BandFitsScore

\* A step that adds no row, and lets no calculation insert that did not, keeps
\* the room; so does one that starts an INSERT while there is no row.
LEMMA RoomIsKept ==
  ASSUME ScoringTypeOK, RoomForInserts, rows' = rows, Inserting' \subseteq Inserting
  PROVE  RoomForInserts'
<1>1. Cardinality(Inserting') <= Cardinality(Inserting)
      /\ Cardinality(Inserting') \in Nat
  BY InsertingIsFinite, FS_Subset, FS_CardinalityType
<1>2. Len(rows) \in Nat /\ Cardinality(Inserting) \in Nat
      /\ Cardinality(Requests) \in Nat
  BY InsertingIsFinite DEF ScoringTypeOK
<1>3. QED
  BY <1>1, <1>2 DEF RoomForInserts

\* The step of an INSERT: one row more, one calculation less to insert.
LEMMA RoomIsUsed ==
  ASSUME ScoringTypeOK, RoomForInserts, NEW r \in Inserting,
         Len(rows') = Len(rows) + 1, Inserting' = Inserting \ {r}
  PROVE  RoomForInserts'
<1>1. Cardinality(Inserting') = Cardinality(Inserting) - 1
  BY InsertingIsFinite, FS_RemoveElement
<1>2. Len(rows) \in Nat /\ Cardinality(Inserting) \in Nat
      /\ Cardinality(Requests) \in Nat
      /\ Cardinality(Inserting) <= Cardinality(Requests)
  BY InsertingIsFinite DEF ScoringTypeOK
<1>3. CASE rows = <<>>
  <2>1. Len(rows) = 0
    BY <1>3
  <2>2. QED
    BY <1>1, <1>2, <2>1 DEF RoomForInserts
<1>4. CASE rows # <<>>
  BY <1>1, <1>2, <1>4 DEF RoomForInserts
<1>5. QED
  BY <1>3, <1>4

LEMMA InitHolds == ScoringInit => ScoringInv
<1>1. SUFFICES ASSUME ScoringInit PROVE ScoringInv
  OBVIOUS
<1>2. ScoringTypeOK
  BY <1>1, ScoringBoundsAreNat DEF ScoringInit, ScoringTypeOK, Idle, Request, Steps
<1>3. HasScore /\ SavedIsOnRecord
  BY <1>1 DEF ScoringInit, HasScore, SavedIsOnRecord, Idle
<1>4. RoomForInserts /\ AnnouncedIsOnRecord /\ BandFitsScore
  BY <1>1 DEF ScoringInit, RoomForInserts, AnnouncedIsOnRecord, BandFitsScore
<1>5. QED
  BY <1>2, <1>3, <1>4 DEF ScoringInv

\* A step of calculation r that leaves the rows alone and sends r anywhere but
\* to an INSERT, an UPDATE or an announcement it was not entitled to.
LEMMA QuietStep ==
  ASSUME ScoringInv, NEW r \in Requests, NEW q \in Request,
         req' = [req EXCEPT ![r] = q], rows' = rows,
         q.step \notin {"idle", "ml"} => q.score \in Scores,
         q.step # "insert",
         q.step \in {"update", "notify"} => rows # <<>>,
         announced' \subseteq Scores, announced' # {} => rows # <<>>,
         answered' \subseteq Scores, calls' \in 0..MaxCalls,
         faults' \in 0..MaxFaults
  PROVE  ScoringInv'
<1>1. ScoringTypeOK'
  BY DEF ScoringInv, ScoringTypeOK
<1>2. HasScore'
  BY DEF ScoringInv, ScoringTypeOK, HasScore
<1>3. RoomForInserts'
  <2>1. Inserting' \subseteq Inserting
    BY DEF ScoringInv, ScoringTypeOK, Inserting
  <2>2. QED
    BY <2>1, RoomIsKept DEF ScoringInv
<1>4. SavedIsOnRecord'
  BY DEF ScoringInv, ScoringTypeOK, SavedIsOnRecord
<1>5. AnnouncedIsOnRecord' /\ BandFitsScore'
  BY DEF ScoringInv, AnnouncedIsOnRecord, BandFitsScore
<1>6. QED
  BY <1>1, <1>2, <1>3, <1>4, <1>5 DEF ScoringInv

\* An INSERT that is committed, whatever becomes of the calculation then.
LEMMA InsertStep ==
  ASSUME ScoringInv, NEW r \in Requests, NEW q \in Request, req[r].step = "insert",
         req' = [req EXCEPT ![r] = q],
         rows' = Append(rows, NewRow(req[r])),
         q.step \notin {"idle", "ml"} => q.score \in Scores,
         q.step # "insert", UNCHANGED announced,
         answered' \subseteq Scores, calls' \in 0..MaxCalls,
         faults' \in 0..MaxFaults
  PROVE  ScoringInv'
<1>1. req[r] \in Request /\ req[r].score \in Scores
  BY DEF ScoringInv, ScoringTypeOK, HasScore
<1>2. /\ rows' \in Seq(Row) /\ rows' # <<>> /\ Len(rows') = Len(rows) + 1
      /\ BandFitsScore'
  BY <1>1, AppendFits DEF ScoringInv
<1>3. ScoringTypeOK'
  BY <1>2 DEF ScoringInv, ScoringTypeOK
<1>4. HasScore'
  BY DEF ScoringInv, ScoringTypeOK, HasScore
<1>5. RoomForInserts'
  <2>1. r \in Inserting /\ Inserting' = Inserting \ {r}
    BY DEF ScoringInv, ScoringTypeOK, Inserting
  <2>2. QED
    BY <1>2, <2>1, RoomIsUsed DEF ScoringInv
<1>6. SavedIsOnRecord' /\ AnnouncedIsOnRecord'
  BY <1>2 DEF SavedIsOnRecord, AnnouncedIsOnRecord
<1>7. QED
  BY <1>2, <1>3, <1>4, <1>5, <1>6 DEF ScoringInv

\* createOrUpdate entered with a score of either source.
LEMMA StoreStep ==
  ASSUME ScoringInv, NEW r \in Requests, NEW real \in BOOLEAN, NEW s \in Scores,
         Store(r, real, s), rows' = rows, UNCHANGED <<announced, answered, calls>>,
         faults' \in 0..MaxFaults
  PROVE  ScoringInv'
<1> DEFINE q == [step |-> "find", real |-> real, score |-> s]
<1>1. q \in Request /\ q.step = "find" /\ q.score \in Scores
  BY DEF Request, Steps
<1>2. req' = [req EXCEPT ![r] = q]
  BY DEF Store
<1>3. /\ announced' \subseteq Scores /\ (announced' # {} => rows # <<>>)
      /\ answered' \subseteq Scores /\ calls' \in 0..MaxCalls
  BY DEF ScoringInv, ScoringTypeOK, AnnouncedIsOnRecord
<1> HIDE DEF q
<1>4. QED
  BY <1>1, <1>2, <1>3, QuietStep

\* The two forms in which a handler's slot is written.
LEMMA SlotForms ==
  ASSUME ScoringTypeOK, NEW r \in Requests
  PROVE  /\ req[r] \in Request /\ Idle \in Request /\ Idle.step = "idle"
         /\ Finish(r) => req' = [req EXCEPT ![r] = Idle]
         /\ \A step \in Steps :
              /\ Goto(r, step) => req' = [req EXCEPT ![r] = [req[r] EXCEPT !.step = step]]
              /\ [req[r] EXCEPT !.step = step] \in Request
              /\ [req[r] EXCEPT !.step = step].step = step
              /\ [req[r] EXCEPT !.step = step].score = req[r].score
  BY DEF ScoringTypeOK, Request, Steps, Idle, Finish, Goto

\* The same, for a calculation that goes on and for one that ends.
LEMMA GotoSlot ==
  ASSUME ScoringTypeOK, NEW r \in Requests, NEW step \in Steps, Goto(r, step)
  PROVE  \E q \in Request : /\ req' = [req EXCEPT ![r] = q]
                            /\ q.step = step /\ q.score = req[r].score
<1> DEFINE q == [req[r] EXCEPT !.step = step]
<1>1. q \in Request /\ q.step = step /\ q.score = req[r].score
  BY SlotForms
<1>2. req' = [req EXCEPT ![r] = q]
  BY SlotForms
<1> HIDE DEF q
<1>3. QED
  BY <1>1, <1>2

LEMMA FinishSlot ==
  ASSUME ScoringTypeOK, NEW r \in Requests, Finish(r)
  PROVE  \E q \in Request : req' = [req EXCEPT ![r] = q] /\ q.step = "idle"
BY SlotForms

\* Each action of a calculation keeps the invariant.
LEMMA StepKeeps ==
  ASSUME ScoringInv, NEW r \in Requests,
         CalculateScore(r) \/ Continue(r) \/ CallFails(r) \/ Die(r)
  PROVE  ScoringInv'
<1>t. /\ ScoringTypeOK /\ HasScore /\ SavedIsOnRecord /\ AnnouncedIsOnRecord
      /\ MaxFaults \in Nat /\ MaxCalls \in Nat
  BY ScoringBoundsAreNat DEF ScoringInv
<1>u. /\ announced \subseteq Scores /\ answered \subseteq Scores
      /\ calls \in 0..MaxCalls /\ faults \in 0..MaxFaults
      /\ announced # {} => rows # <<>>
  BY <1>t DEF ScoringTypeOK, AnnouncedIsOnRecord
<1>s. {"idle", "ml", "find", "insert", "update", "notify"} \subseteq Steps
  BY DEF Steps
<1>1. CASE CalculateScore(r)
  <2>1. PICK q \in Request : req' = [req EXCEPT ![r] = q] /\ q.step = "ml"
    BY <1>1, <1>t, <1>s, GotoSlot DEF CalculateScore
  <2>2. /\ rows' = rows /\ announced' = announced /\ answered' = answered
        /\ faults' = faults
    BY <1>1 DEF CalculateScore
  <2>3. calls' \in 0..MaxCalls
    BY <1>1, <1>t, <1>u DEF CalculateScore
  <2>4. QED
    BY <1>u, <2>1, <2>2, <2>3, QuietStep
<1>2. CASE ScoreSurvey(r)
  <2>1. PICK s \in MlScores : Store(r, TRUE, s)
    BY <1>2 DEF ScoreSurvey
  <2>2. QED
    BY <1>2, <1>u, <2>1, StoreStep DEF ScoreSurvey, Scores
<1>3. CASE ScoreSurveyFails(r)
  <2>1. PICK s \in MockScores : Store(r, FALSE, s)
    BY <1>3 DEF ScoreSurveyFails, Fallback
  <2>2. QED
    BY <1>3, <1>u, <2>1, StoreStep DEF ScoreSurveyFails, Scores
<1>4. CASE FindLatest(r)
  <2>1. req[r].score \in Scores
    BY <1>4, <1>t DEF FindLatest, HasScore
  <2>2. CASE rows = <<>>
    <3>1. PICK q \in Request : /\ req' = [req EXCEPT ![r] = q]
                               /\ q.step = "insert" /\ q.score = req[r].score
      BY <1>4, <1>t, <1>s, <2>2, GotoSlot DEF FindLatest
    <3>2. ScoringTypeOK'
      BY <1>4, <1>t, <3>1 DEF FindLatest, ScoringTypeOK
    <3>3. HasScore' /\ SavedIsOnRecord'
      BY <1>4, <1>t, <2>1, <3>1 DEF FindLatest, ScoringTypeOK, HasScore, SavedIsOnRecord
    <3>4. RoomForInserts' /\ AnnouncedIsOnRecord' /\ BandFitsScore'
      BY <1>4, <2>2 DEF FindLatest, ScoringInv, RoomForInserts, AnnouncedIsOnRecord,
                        BandFitsScore
    <3>5. QED
      BY <3>2, <3>3, <3>4 DEF ScoringInv
  <2>3. CASE rows # <<>>
    <3>1. PICK q \in Request : /\ req' = [req EXCEPT ![r] = q]
                               /\ q.step = "update" /\ q.score = req[r].score
      BY <1>4, <1>t, <1>s, <2>3, GotoSlot DEF FindLatest
    <3>2. /\ rows' = rows /\ announced' = announced /\ answered' = answered
          /\ calls' = calls /\ faults' = faults
      BY <1>4 DEF FindLatest
    <3>3. QED
      BY <1>u, <2>1, <2>3, <3>1, <3>2, QuietStep
  <2>4. QED
    BY <2>2, <2>3
<1>5. CASE InsertScore(r)
  <2>1. req[r].step = "insert" /\ req[r].score \in Scores
    BY <1>5, <1>t DEF InsertScore, HasScore
  <2>2. /\ rows' = Append(rows, NewRow(req[r])) /\ announced' = announced
        /\ calls' = calls /\ faults' = faults /\ Saved(r)
    BY <1>5 DEF InsertScore
  <2>3. PICK q \in Request :
          /\ req' = [req EXCEPT ![r] = q]
          /\ \/ q.step = "notify" /\ q.score = req[r].score
             \/ q.step = "idle"
    BY <1>t, <1>s, <2>2, GotoSlot, FinishSlot DEF Saved
  <2>4. answered' \subseteq Scores
    BY <1>u, <2>1, <2>2 DEF Saved
  <2>5. QED
    BY <1>u, <2>1, <2>2, <2>3, <2>4, InsertStep
<1>6. CASE UpdateScore(r)
  <2>1. req[r].step = "update" /\ req[r].score \in Scores /\ rows # <<>>
    BY <1>6, <1>t DEF UpdateScore, HasScore, SavedIsOnRecord
  <2>2. /\ rows' = rows /\ announced' = announced
        /\ calls' = calls /\ faults' = faults /\ Saved(r)
    BY <1>6 DEF UpdateScore
  <2>3. PICK q \in Request :
          /\ req' = [req EXCEPT ![r] = q]
          /\ \/ q.step = "notify" /\ q.score = req[r].score
             \/ q.step = "idle"
    BY <1>t, <1>s, <2>2, GotoSlot, FinishSlot DEF Saved
  <2>4. answered' \subseteq Scores
    BY <1>u, <2>1, <2>2 DEF Saved
  <2>5. QED
    BY <1>u, <2>1, <2>2, <2>3, <2>4, QuietStep
<1>7. CASE Notify(r)
  <2>1. req[r].score \in Scores /\ rows # <<>>
    BY <1>7, <1>t DEF Notify, HasScore, SavedIsOnRecord
  <2>2. PICK q \in Request : req' = [req EXCEPT ![r] = q] /\ q.step = "idle"
    BY <1>7, <1>t, FinishSlot DEF Notify
  <2>3. announced' \subseteq Scores /\ answered' \subseteq Scores
    BY <1>7, <1>u, <2>1 DEF Notify
  <2>4. rows' = rows /\ calls' = calls /\ faults' \in 0..MaxFaults
    BY <1>7, <1>t, <1>u DEF Notify
  <2>5. QED
    BY <1>u, <2>1, <2>2, <2>3, <2>4, QuietStep
<1>8. CASE CallFails(r)
  <2>1. /\ faults' \in 0..MaxFaults
        /\ announced' = announced /\ answered' = answered /\ calls' = calls
    BY <1>8, <1>t, <1>u DEF CallFails
  <2>2. CASE rows' = rows /\ req[r].real
    <3>1. PICK s \in MockScores : Store(r, FALSE, s)
      BY <1>8, <2>2 DEF CallFails, Fallback
    <3>2. QED
      BY <2>1, <2>2, <3>1, StoreStep DEF Scores
  <2>3. CASE rows' = rows /\ ~req[r].real
    <3>1. PICK q \in Request : req' = [req EXCEPT ![r] = q] /\ q.step = "idle"
      BY <1>8, <1>t, <2>3, FinishSlot DEF CallFails
    <3>2. QED
      BY <1>u, <2>1, <2>3, <3>1, QuietStep
  <2>4. CASE req[r].step = "insert" /\ rows' = Append(rows, NewRow(req[r]))
    <3>1. PICK q \in Request :
            /\ req' = [req EXCEPT ![r] = q] /\ q.step # "insert"
            /\ (q.step \notin {"idle", "ml"} => q.score \in Scores)
      <4>1. CASE req[r].real
        <5>1. PICK s \in MockScores : Store(r, FALSE, s)
          BY <1>8, <4>1 DEF CallFails, Fallback
        <5>2. [step |-> "find", real |-> FALSE, score |-> s] \in Request
          BY <1>s DEF Request, Scores
        <5>3. s \in Scores
          BY DEF Scores
        <5>4. QED
          BY <5>1, <5>2, <5>3 DEF Store
      <4>2. CASE ~req[r].real
        <5>1. PICK q \in Request : req' = [req EXCEPT ![r] = q] /\ q.step = "idle"
          BY <1>8, <1>t, <4>2, FinishSlot DEF CallFails
        <5>2. QED
          BY <5>1
      <4>3. QED
        BY <4>1, <4>2
    <3>2. QED
      BY <1>u, <2>1, <2>4, <3>1, InsertStep
  <2>5. QED
    BY <1>8, <2>2, <2>3, <2>4 DEF CallFails
<1>9. CASE Die(r)
  <2>1. PICK q \in Request : req' = [req EXCEPT ![r] = q] /\ q.step = "idle"
    BY <1>9, <1>t, FinishSlot DEF Die
  <2>2. /\ rows' = rows /\ announced' = announced /\ answered' = answered
        /\ calls' = calls /\ faults' \in 0..MaxFaults
    BY <1>9, <1>t, <1>u DEF Die
  <2>3. QED
    BY <1>u, <2>1, <2>2, QuietStep
<1>10. QED
  BY <1>1, <1>2, <1>3, <1>4, <1>5, <1>6, <1>7, <1>8, <1>9 DEF Continue

LEMMA StutterKeeps == ASSUME ScoringInv, UNCHANGED scoringVars PROVE ScoringInv'
BY DEF scoringVars, ScoringInv, ScoringTypeOK, HasScore, RoomForInserts, Inserting, SavedIsOnRecord,
       AnnouncedIsOnRecord, BandFitsScore

\* The inductive invariant of calculateScore and createOrUpdate.
THEOREM Invariance == ScoringSpec => []ScoringInv
<1>1. ScoringInit => ScoringInv
  BY InitHolds
<1>2. ScoringInv /\ [ScoringNext]_scoringVars => ScoringInv'
  BY StepKeeps, StutterKeeps DEF ScoringNext
<1>3. QED
  BY <1>1, <1>2, PTL DEF ScoringSpec

\* Rows, queue and calculations keep their types.
THEOREM TypeCorrect == ScoringSpec => []ScoringTypeOK
<1>1. ScoringInv => ScoringTypeOK
  BY DEF ScoringInv
<1>2. QED
  BY <1>1, Invariance, PTL

LEMMA InvRows == ScoringInv => OneRowPerRequest
<1>1. SUFFICES ASSUME ScoringInv PROVE Len(rows) <= Cardinality(Requests)
  BY DEF OneRowPerRequest
<1>2. Len(rows) \in Nat
  BY <1>1 DEF ScoringInv, ScoringTypeOK
<1>3. CASE rows = <<>>
  BY <1>3, InsertingIsFinite
<1>4. CASE rows # <<>>
  BY <1>1, <1>2, <1>4, InsertingIsFinite DEF ScoringInv, RoomForInserts
<1>5. QED
  BY <1>3, <1>4

\* createOrUpdate never gives a borrower more rows than calculations overlap.
THEOREM RowsCorrect == ScoringSpec => []OneRowPerRequest
BY InvRows, Invariance, PTL

\* A queued SCORE_GENERATED tells of a borrower whose score was saved.
THEOREM AnnouncedCorrect == ScoringSpec => []AnnouncedIsOnRecord
<1>1. ScoringInv => AnnouncedIsOnRecord
  BY DEF ScoringInv
<1>2. QED
  BY <1>1, Invariance, PTL

\* The bands on record fit their scores, whichever source they come from.
THEOREM BandsCorrect == ScoringSpec => []BandFitsScore
<1>1. ScoringInv => BandFitsScore
  BY DEF ScoringInv
<1>2. QED
  BY <1>1, Invariance, PTL

\* With a row on record and no INSERT pending, getScore's answer is final.
THEOREM SettleCorrect == ScoringSpec => ScoreSettles
<1>1. [ScoringNext]_scoringVars => [rows # <<>> /\ Inserting = {} => rows' = rows]_scoringVars
  BY DEF ScoringNext, scoringVars, Continue, CalculateScore, ScoreSurvey, ScoreSurveyFails,
         FindLatest, InsertScore, UpdateScore, Notify, CallFails, Die, Inserting
<1>2. QED
  BY <1>1, PTL DEF ScoringSpec, ScoreSettles

(*------------------------ Calculations come to their end ----------------------*)

\* The awaits a calculation still has before it, at most: those of the ML
\* service's score, and, should the database fail it, those of the mock score.
AwaitsLeft(q) ==
  CASE q.step = "ml" -> 6
    [] q.step = "find" /\ q.real -> 5
    [] q.step \in {"insert", "update"} /\ q.real -> 4
    [] q.step = "notify" -> 3
    [] q.step = "find" /\ ~q.real -> 2
    [] q.step \in {"insert", "update"} /\ ~q.real -> 1
    [] OTHER -> 0

\* What keeps AskedIsScored from failing: no calculation is moved by another
\* one or turns back, the fallback is taken once, and whoever comes to the end
\* leaves the borrower with a score, or a fault did not let it.
CalculationsRunOut ==
  [][\A r \in Requests : req'[r] # req[r] /\ req[r] # Idle =>
       /\ AwaitsLeft(req'[r]) < AwaitsLeft(req[r])
       /\ req'[r] = Idle => rows' # <<>> \/ faults' > 0]_scoringVars

\* Only Idle has no await left.
InFlight == \A r \in Requests : req[r].step = "idle" => req[r] = Idle

LEMMA CalculationMoves ==
  ASSUME ScoringInv, InFlight, NEW r \in Requests,
         CalculateScore(r) \/ Continue(r) \/ CallFails(r) \/ Die(r)
  PROVE  /\ \A x \in Requests : x # r => req'[x] = req[x]
         /\ req'[r].step = "idle" => req'[r] = Idle
         /\ req[r] # Idle => /\ AwaitsLeft(req'[r]) < AwaitsLeft(req[r])
                             /\ req'[r] = Idle => rows' # <<>> \/ faults' > 0
<1>1. ScoringTypeOK /\ SavedIsOnRecord /\ req[r] \in Request /\ faults \in Nat
      /\ (req[r].step = "idle" => req[r] = Idle)
  BY ScoringBoundsAreNat DEF ScoringInv, ScoringTypeOK, InFlight
<1>2. /\ AwaitsLeft(Idle) = 0 /\ Idle.step = "idle"
      /\ req[r].step # "idle" => AwaitsLeft(req[r]) \in 1..6
  BY <1>1 DEF AwaitsLeft, Idle, Request, Steps
<1>3. ASSUME NEW step \in Steps, Goto(r, step)
      PROVE  /\ \A x \in Requests : x # r => req'[x] = req[x]
             /\ req'[r].step = step /\ req'[r].real = req[r].real
  BY <1>1, <1>3 DEF Goto, ScoringTypeOK, Request
<1>4. ASSUME Finish(r)
      PROVE  req'[r] = Idle /\ \A x \in Requests : x # r => req'[x] = req[x]
  BY <1>1, <1>4 DEF Finish, ScoringTypeOK
<1>5. ASSUME NEW real \in BOOLEAN, NEW s, Store(r, real, s)
      PROVE  /\ \A x \in Requests : x # r => req'[x] = req[x]
             /\ req'[r].step = "find" /\ req'[r].real = real
  BY <1>1, <1>5 DEF Store, ScoringTypeOK
<1>6. CASE CalculateScore(r)
  BY <1>3, <1>6 DEF CalculateScore, Steps
<1>7. CASE ScoreSurvey(r) \/ ScoreSurveyFails(r)
  <2>1. PICK real \in BOOLEAN : \E s : Store(r, real, s)
    BY <1>7 DEF ScoreSurvey, ScoreSurveyFails, Fallback
  <2>2. req[r].step = "ml"
    BY <1>7 DEF ScoreSurvey, ScoreSurveyFails
  <2>3. AwaitsLeft(req[r]) = 6 /\ AwaitsLeft(req'[r]) \in {5, 2}
    BY <1>5, <2>1, <2>2 DEF AwaitsLeft
  <2>4. req'[r] # Idle
    BY <1>2, <1>5, <2>1
  <2>5. QED
    BY <1>2, <1>5, <2>1, <2>3, <2>4
<1>8. CASE FindLatest(r)
  <2>1. PICK step \in {"insert", "update"} : Goto(r, step)
    BY <1>8 DEF FindLatest
  <2>2. req[r].step = "find" /\ step \in Steps
    BY <1>8 DEF FindLatest, Steps
  <2>3. AwaitsLeft(req'[r]) < AwaitsLeft(req[r])
    BY <1>1, <1>3, <2>1, <2>2 DEF AwaitsLeft, Request
  <2>4. QED
    BY <1>2, <1>3, <2>1, <2>2, <2>3
<1>9. CASE InsertScore(r) \/ UpdateScore(r)
  <2>1. rows' # <<>>
    <3>1. CASE InsertScore(r)
      BY <1>1, <3>1, AppendFits DEF InsertScore, HasScore, ScoringInv
    <3>2. CASE UpdateScore(r)
      BY <1>1, <3>2 DEF UpdateScore, SavedIsOnRecord
    <3>3. QED
      BY <1>9, <3>1, <3>2
  <2>2. req[r].step \in {"insert", "update"} /\ Saved(r)
    BY <1>9 DEF InsertScore, UpdateScore
  <2>3. CASE Finish(r)
    BY <1>2, <1>4, <2>1, <2>2, <2>3
  <2>4. CASE Goto(r, "notify") /\ req[r].real
    <3>1. AwaitsLeft(req'[r]) = 3 /\ AwaitsLeft(req[r]) = 4
      BY <1>3, <2>2, <2>4 DEF AwaitsLeft, Steps
    <3>2. QED
      BY <1>2, <1>3, <2>1, <2>4, <3>1 DEF Steps
  <2>5. QED
    BY <2>2, <2>3, <2>4 DEF Saved
<1>10. CASE Notify(r)
  <2>1. req[r].step = "notify" /\ rows' = rows /\ Finish(r)
    BY <1>10 DEF Notify
  <2>2. rows # <<>>
    BY <1>1, <2>1 DEF SavedIsOnRecord
  <2>3. QED
    BY <1>2, <1>4, <2>1, <2>2
<1>11. CASE CallFails(r)
  <2>1. req[r].step \in {"find", "insert", "update"} /\ faults' > 0
    BY <1>1, <1>11 DEF CallFails
  <2>2. CASE Finish(r)
    BY <1>2, <1>4, <2>1, <2>2
  <2>3. CASE req[r].real /\ Fallback(r)
    <3>1. PICK s : Store(r, FALSE, s)
      BY <2>3 DEF Fallback
    <3>2. AwaitsLeft(req'[r]) = 2 /\ AwaitsLeft(req[r]) \in {4, 5}
      BY <1>5, <2>1, <2>3, <3>1 DEF AwaitsLeft
    <3>3. /\ req'[r].step = "find" /\ faults' > 0
          /\ \A x \in Requests : x # r => req'[x] = req[x]
      BY <1>5, <2>1, <3>1
    <3>4. AwaitsLeft(req'[r]) < AwaitsLeft(req[r])
      BY <3>2
    <3>5. QED
      BY <3>3, <3>4
  <2>4. QED
    BY <1>11, <2>2, <2>3 DEF CallFails
<1>12. CASE Die(r)
  <2>1. req[r] # Idle /\ faults' > 0 /\ Finish(r)
    BY <1>1, <1>12 DEF Die
  <2>2. QED
    BY <1>1, <1>2, <1>4, <2>1
<1>13. QED
  BY <1>6, <1>7, <1>8, <1>9, <1>10, <1>11, <1>12 DEF Continue

\* A calculation takes at most six steps and ends with a score on record or a
\* fault, for any number of calculations, failures of the ML service and of the
\* database.
THEOREM CalculationsEnd == ScoringSpec => CalculationsRunOut
<1> DEFINE Nearer ==
      \A r \in Requests : req'[r] # req[r] /\ req[r] # Idle =>
        /\ AwaitsLeft(req'[r]) < AwaitsLeft(req[r])
        /\ req'[r] = Idle => rows' # <<>> \/ faults' > 0
<1>1. ScoringInit => InFlight
  BY DEF ScoringInit, InFlight
<1>2. ASSUME ScoringInv, InFlight, [ScoringNext]_scoringVars
      PROVE  InFlight' /\ [Nearer]_scoringVars
  <2>1. CASE UNCHANGED scoringVars
    BY <1>2, <2>1 DEF InFlight, scoringVars
  <2>2. CASE ScoringNext
    BY <1>2, <2>2, CalculationMoves DEF ScoringNext, InFlight
  <2>3. QED
    BY <1>2, <2>1, <2>2
<1> HIDE DEF Nearer
<1>3. ScoringSpec => [][Nearer]_scoringVars
  BY <1>1, <1>2, Invariance, PTL DEF ScoringSpec
<1>4. QED
  BY <1>3 DEF CalculationsRunOut, Nearer

(*---------------------------- The first calculation ---------------------------*)

\* The course of a borrower's first calculation as long as nothing fails.
FirstInv ==
  calls <= 1 /\ faults = 0 =>
    /\ calls = 0 => rows = <<>> /\ answered = {} /\ \A r \in Requests : req[r] = Idle
    /\ \A r, x \in Requests : req[r] # Idle /\ req[x] # Idle => r = x
    /\ \A r \in Requests :
         /\ req[r].step # "update"
         /\ req[r].step \in {"ml", "find", "insert"} => rows = <<>> /\ answered = {}
         /\ req[r].step = "notify" =>
              answered = {} /\ \E i \in DOMAIN rows : rows[i].score = req[r].score
    /\ AnsweredIsOnRecord

\* One calculation moves, the others are idle.
LEMMA FirstMoves ==
  ASSUME FirstInv, ScoringTypeOK, calls <= 1, faults = 0, NEW r \in Requests, req[r] # Idle,
         NEW q, req' = [req EXCEPT ![r] = q], calls' = calls, q.step # "update",
         q.step \in {"ml", "find", "insert"} => rows' = <<>> /\ answered' = {},
         q.step = "notify" =>
           answered' = {} /\ \E i \in DOMAIN rows' : rows'[i].score = q.score,
         AnsweredIsOnRecord'
  PROVE  FirstInv'
<1>1. calls # 0 /\ \A x \in Requests : x # r => req[x] = Idle
  BY DEF FirstInv
<1>2. \A x \in Requests : req'[x] = IF x = r THEN q ELSE Idle
  BY <1>1 DEF ScoringTypeOK
<1>3. Idle.step = "idle"
  BY DEF Idle
<1>4. QED
  BY <1>1, <1>2, <1>3 DEF FirstInv

LEMMA FirstKept ==
  ASSUME ScoringInv, FirstInv, [ScoringNext]_scoringVars
  PROVE  FirstInv'
<1>1. CASE UNCHANGED scoringVars
  BY <1>1 DEF scoringVars, FirstInv, AnsweredIsOnRecord
<1>2. SUFFICES ASSUME ScoringNext, calls' <= 1, faults' = 0 PROVE FirstInv'
  BY <1>1 DEF FirstInv
<1>3. ScoringTypeOK /\ calls \in Nat /\ faults \in Nat
  BY ScoringBoundsAreNat DEF ScoringInv, ScoringTypeOK
<1>4. PICK r \in Requests : CalculateScore(r) \/ Continue(r)
  BY <1>2, <1>3 DEF ScoringNext, CallFails, Die
<1>5. calls <= 1 /\ faults = 0
  <2>1. CASE CalculateScore(r)
    BY <1>2, <1>3, <2>1 DEF CalculateScore
  <2>2. CASE Continue(r)
    <3>1. calls' = calls /\ (faults' = faults \/ faults' = faults + 1)
      BY <2>2 DEF Continue, ScoreSurvey, ScoreSurveyFails, FindLatest,
         InsertScore, UpdateScore, Notify
    <3>2. QED
      BY <1>2, <1>3, <3>1
  <2>3. QED
    BY <1>4, <2>1, <2>2
<1>6. Idle.step = "idle" /\ req[r] \in Request
  BY <1>3 DEF Idle, ScoringTypeOK
<1>7. CASE CalculateScore(r)
  <2>1. calls = 0
    BY <1>2, <1>3, <1>7 DEF CalculateScore
  <2>2. /\ rows' = <<>> /\ answered' = {} /\ calls' = 1
        /\ \A x \in Requests : x # r => req'[x] = Idle
        /\ req'[r].step = "ml"
    BY <1>3, <1>5, <1>7, <2>1 DEF CalculateScore, FirstInv, Goto, ScoringTypeOK, Request
  <2>3. QED
    BY <1>6, <2>2 DEF FirstInv, AnsweredIsOnRecord
<1>8. CASE ScoreSurvey(r) \/ ScoreSurveyFails(r)
  <2>1. PICK q : q.step = "find" /\ req' = [req EXCEPT ![r] = q]
    BY <1>8 DEF ScoreSurvey, ScoreSurveyFails, Fallback, Store
  <2>2. /\ req[r].step = "ml" /\ calls' = calls
        /\ rows' = rows /\ answered' = answered
    BY <1>8 DEF ScoreSurvey, ScoreSurveyFails
  <2>3. rows = <<>> /\ answered = {}
    BY <1>5, <2>2 DEF FirstInv
  <2>4. QED
    BY <1>3, <1>5, <1>6, <2>1, <2>2, <2>3, FirstMoves DEF AnsweredIsOnRecord
<1>9. CASE FindLatest(r)
  <2>1. /\ req[r].step = "find" /\ calls' = calls
        /\ rows' = rows /\ answered' = answered
    BY <1>9 DEF FindLatest
  <2>2. rows = <<>> /\ answered = {}
    BY <1>5, <2>1 DEF FirstInv
  <2>3. PICK q \in Request : req' = [req EXCEPT ![r] = q] /\ q.step = "insert"
    BY <1>3, <1>9, <2>2, GotoSlot DEF FindLatest, Steps
  <2>4. QED
    BY <1>3, <1>5, <1>6, <2>1, <2>2, <2>3, FirstMoves DEF AnsweredIsOnRecord
<1>10. CASE InsertScore(r)
  <2>1. /\ req[r].step = "insert" /\ calls' = calls /\ Saved(r)
        /\ rows' = Append(rows, NewRow(req[r]))
    BY <1>10 DEF InsertScore
  <2>2. rows = <<>> /\ answered = {}
    BY <1>5, <2>1 DEF FirstInv
  <2>3. 1 \in DOMAIN rows' /\ rows'[1].score = req[r].score
    BY <2>1, <2>2 DEF NewRow
  <2>4. CASE Goto(r, "notify") /\ answered' = answered
    <3>1. PICK q \in Request : /\ req' = [req EXCEPT ![r] = q]
                               /\ q.step = "notify" /\ q.score = req[r].score
      BY <1>3, <2>4, GotoSlot DEF Steps
    <3>2. QED
      BY <1>3, <1>5, <1>6, <2>1, <2>2, <2>3, <2>4, <3>1, FirstMoves
      DEF AnsweredIsOnRecord
  <2>5. CASE Finish(r) /\ answered' = answered \cup {req[r].score}
    <3>1. AnsweredIsOnRecord'
      BY <2>2, <2>3, <2>5 DEF AnsweredIsOnRecord
    <3>2. QED
      BY <1>3, <1>5, <1>6, <2>1, <2>5, <3>1, FirstMoves DEF Finish
  <2>6. QED
    BY <2>1, <2>4, <2>5 DEF Saved
<1>11. CASE UpdateScore(r)
  BY <1>5, <1>11 DEF UpdateScore, FirstInv
<1>12. CASE Notify(r)
  <2>1. /\ req[r].step = "notify" /\ calls' = calls /\ rows' = rows /\ Finish(r)
        /\ answered' = answered \cup {req[r].score}
    BY <1>12 DEF Notify
  <2>2. AnsweredIsOnRecord'
    BY <1>5, <2>1 DEF FirstInv, AnsweredIsOnRecord
  <2>3. QED
    BY <1>3, <1>5, <1>6, <2>1, <2>2, FirstMoves DEF Finish
<1>13. QED
  BY <1>4, <1>7, <1>8, <1>9, <1>10, <1>11, <1>12 DEF Continue

\* "Create a new one": an answered score is missing from the table only after a
\* recalculation, which the table's rule swallows, or a fault, after which the
\* mock score is answered in place of the real one on record.
THEOREM FirstScoreIsOnRecord ==
  ScoringSpec => [](AnsweredIsOnRecord \/ calls > 1 \/ faults > 0)
<1>1. ScoringInit => FirstInv
  BY DEF ScoringInit, FirstInv, AnsweredIsOnRecord, Idle
<1>2. ScoringInv /\ FirstInv /\ [ScoringNext]_scoringVars => FirstInv'
  BY FirstKept
<1>3. ScoringInv /\ FirstInv => AnsweredIsOnRecord \/ calls > 1 \/ faults > 0
  BY ScoringBoundsAreNat DEF ScoringInv, ScoringTypeOK, FirstInv
<1>4. QED
  BY <1>1, <1>2, <1>3, Invariance, PTL DEF ScoringSpec
================================================================================
