----------------------------- MODULE RecordsProofs -----------------------------
(* Proofs about the record-keeping services, for any number of requests, keys,  *)
(* calls, types, files, locales, versions, jobs and workers: one section for    *)
(* each, and the six of them side by side (Scoring's proofs are its own).       *)
EXTENDS MCRecords, ScoringProofs, FiniteSetTheorems, TLAPS

(*---------------------------------- Consent ----------------------------------*)

\* A grant that found a row still finds one: no row ever leaves its key.
FoundStays ==
  \A r \in Requests :
    asking[r] # NotAsking /\ asking[r].op = "grant" /\ asking[r].found
      => RowsOf(asking[r].key) # {}

ConsentInv == ConsentTypeOK /\ GrantedIsOnRecord /\ FoundStays

\* Every row is still there, with its key and is_active, and not renewed.
RowsStay ==
  \A row \in consents : \E later \in consents' :
    /\ later.key = row.key /\ later.active = row.active
    /\ later.valid => row.valid

LEMMA ConsentInitInv ==
  ASSUME ConsentInit
  PROVE  ConsentInv
BY DEF ConsentInit, ConsentInv, ConsentTypeOK, GrantedIsOnRecord, FoundStays,
       Asking, NotAsking, ConsentRow

\* A step of ConsentNext never loses a row.
LEMMA NextKeepsRows ==
  ASSUME ConsentTypeOK, ConsentNext
  PROVE  RowsStay
<1>1. ASSUME UNCHANGED consents PROVE RowsStay
  BY <1>1 DEF RowsStay
<1>2. ASSUME consents \subseteq consents' PROVE RowsStay
  BY <1>2 DEF RowsStay
<1>3. ASSUME NEW r \in Requests, NEW k \in Keys, NEW op \in {"grant", "check"},
             FindConsent(r, op, k)
      PROVE  RowsStay
  BY <1>1, <1>3 DEF FindConsent
<1>4. ASSUME NEW r \in Requests, SaveConsent(r)
      PROVE  RowsStay
  BY <1>2, <1>4 DEF SaveConsent, InsertConsent, Updated
<1>5. ASSUME NEW r \in Requests, AnswerCheck(r)
      PROVE  RowsStay
  BY <1>1, <1>5 DEF AnswerCheck, Updated
<1>6. ASSUME NEW r \in Requests, ConsentFails(r)
      PROVE  RowsStay
  BY <1>1, <1>6 DEF ConsentFails
<1>7. ASSUME NEW k \in Keys, RevokeConsent(k)
      PROVE  RowsStay
  BY <1>1, <1>7 DEF RevokeConsent, Updated
<1>8. ASSUME NEW row \in consents, ConsentExpires(row)
      PROVE  RowsStay
  <2> DEFINE expired == [row EXCEPT !.valid = FALSE]
  <2>1. row \in ConsentRow
    BY DEF ConsentTypeOK
  <2>2. expired.key = row.key /\ expired.active = row.active /\ ~expired.valid
    BY <2>1 DEF ConsentRow
  <2>3. expired \in consents' /\ consents \ {row} \subseteq consents'
    BY <1>8 DEF ConsentExpires
  <2> HIDE DEF expired
  <2> QED BY <2>2, <2>3 DEF RowsStay
<1> QED BY <1>3, <1>4, <1>5, <1>6, <1>7, <1>8 DEF ConsentNext

LEMMA RowsStayOnRecord ==
  ASSUME RowsStay, NEW k \in Keys, RowsOf(k) # {}
  PROVE  RowsOf(k)' # {}
BY DEF RowsStay, RowsOf

LEMMA ConsentTypeKept ==
  ASSUME ConsentTypeOK, ConsentNext
  PROVE  ConsentTypeOK'
<1> USE DEF ConsentTypeOK
<1>1. ASSUME NEW r \in Requests, NEW k \in Keys, NEW op \in {"grant", "check"},
             FindConsent(r, op, k)
      PROVE  ConsentTypeOK'
  <2> DEFINE hits == {row \in RowsOf(k) : op = "grant" \/ row.active}
  <2>1. PICK valid \in BOOLEAN :
          asking' = [asking EXCEPT ![r] = [op |-> op, key |-> k,
                       found |-> hits # {}, expired |-> ~valid]]
    BY <1>1 DEF FindConsent, RowsOf, ConsentRow
  <2> HIDE DEF hits
  <2>2. [op |-> op, key |-> k, found |-> hits # {}, expired |-> ~valid] \in Asking
    BY DEF Asking
  <2> QED BY <1>1, <2>1, <2>2 DEF FindConsent
<1>2. ASSUME NEW r \in Requests, SaveConsent(r)
      PROVE  ConsentTypeOK'
  <2>1. asking[r].key \in Keys
    BY <1>2 DEF SaveConsent, Asking, NotAsking
  <2>2. asking' \in [Requests -> Asking]
    BY <1>2 DEF SaveConsent, Asking
  <2> DEFINE new == [key |-> asking[r].key, active |-> TRUE, valid |-> TRUE]
  <2>3. new \in ConsentRow
    BY <2>1 DEF ConsentRow
  <2>4. /\ consents' = consents \/ consents' = consents \cup {new}
        /\ granted' = granted \cup {asking[r].key}
    BY <1>2 DEF SaveConsent, InsertConsent, Updated
  <2> HIDE DEF new
  <2>5. consents' \subseteq ConsentRow /\ granted' \subseteq Keys
    BY <2>1, <2>3, <2>4
  <2> QED BY <2>2, <2>5
<1>3. ASSUME NEW r \in Requests, AnswerCheck(r) \/ ConsentFails(r)
      PROVE  ConsentTypeOK'
  BY <1>3 DEF AnswerCheck, ConsentFails, Updated, Asking
<1>4. ASSUME NEW k \in Keys, RevokeConsent(k)
      PROVE  ConsentTypeOK'
  BY <1>4 DEF RevokeConsent, Updated
<1>5. ASSUME NEW row \in consents, ConsentExpires(row)
      PROVE  ConsentTypeOK'
  <2>1. [row EXCEPT !.valid = FALSE] \in ConsentRow
    BY DEF ConsentRow
  <2> QED BY <1>5, <2>1 DEF ConsentExpires
<1> QED BY <1>1, <1>2, <1>3, <1>4, <1>5 DEF ConsentNext

LEMMA ConsentInvKept ==
  ASSUME ConsentInv, ConsentNext
  PROVE  ConsentInv'
<1>1. ConsentTypeOK /\ GrantedIsOnRecord /\ FoundStays
  BY DEF ConsentInv
<1>2. ConsentTypeOK' /\ RowsStay
  BY <1>1, ConsentTypeKept, NextKeepsRows
<1>3. \A k \in Keys : RowsOf(k) # {} => RowsOf(k)' # {}
  BY <1>2, RowsStayOnRecord
<1>4. GrantedIsOnRecord' /\ FoundStays'
  <2>1. ASSUME UNCHANGED granted PROVE GrantedIsOnRecord'
    BY <1>1, <1>3, <2>1 DEF GrantedIsOnRecord, ConsentTypeOK, RowsOf
  <2>2. ASSUME NEW r \in Requests, asking' = [asking EXCEPT ![r] = NotAsking]
        PROVE  FoundStays'
    <3> SUFFICES ASSUME NEW x \in Requests, asking'[x] # NotAsking,
                        asking'[x].op = "grant", asking'[x].found
                 PROVE  {row \in consents' : row.key = asking'[x].key} # {}
      BY DEF FoundStays, RowsOf
    <3>1. asking'[x] = asking[x]
      BY <1>1, <2>2 DEF ConsentTypeOK
    <3>2. PICK k \in Keys : k = asking[x].key
      BY <1>1, <3>1 DEF ConsentTypeOK, Asking
    <3>3. RowsOf(k) # {}
      BY <1>1, <3>1, <3>2 DEF FoundStays
    <3>4. RowsOf(k)' # {}
      BY <1>3, <3>3
    <3> QED BY <3>1, <3>2, <3>4 DEF RowsOf
  <2>3. ASSUME UNCHANGED asking PROVE FoundStays'
    <3> SUFFICES ASSUME NEW x \in Requests, asking[x] # NotAsking,
                        asking[x].op = "grant", asking[x].found
                 PROVE  {row \in consents' : row.key = asking[x].key} # {}
      BY <2>3 DEF FoundStays, RowsOf
    <3>1. PICK k \in Keys : k = asking[x].key
      BY <1>1 DEF ConsentTypeOK, Asking
    <3>2. RowsOf(k)' # {}
      BY <1>1, <1>3, <3>1 DEF FoundStays
    <3> QED BY <3>1, <3>2 DEF RowsOf
  <2>4. ASSUME NEW r \in Requests, NEW k \in Keys, NEW op \in {"grant", "check"},
               FindConsent(r, op, k)
        PROVE  FoundStays'
    <3> SUFFICES ASSUME NEW x \in Requests, asking'[x] # NotAsking,
                        asking'[x].op = "grant", asking'[x].found
                 PROVE  RowsOf(asking'[x].key) # {}
      BY <2>4 DEF FoundStays, FindConsent, RowsOf
    <3>1. CASE x = r
      <4> DEFINE hits == {row \in RowsOf(k) : op = "grant" \/ row.active}
      <4>1. PICK valid \in BOOLEAN :
              asking' = [asking EXCEPT ![r] = [op |-> op, key |-> k,
                           found |-> hits # {}, expired |-> ~valid]]
        BY <1>1, <2>4 DEF FindConsent, RowsOf, ConsentRow, ConsentTypeOK
      <4>2. asking'[x].key = k /\ asking'[x].found = (hits # {})
        BY <1>1, <3>1, <4>1 DEF ConsentTypeOK
      <4> QED BY <4>2
    <3>2. CASE x # r
      BY <1>1, <2>4, <3>2 DEF FindConsent, ConsentTypeOK, FoundStays
    <3> QED BY <3>1, <3>2
  <2>5. ASSUME NEW r \in Requests, SaveConsent(r)
        PROVE  GrantedIsOnRecord'
    <3>1. PICK k \in Keys : k = asking[r].key
      BY <1>1, <2>5 DEF SaveConsent, ConsentTypeOK, Asking, NotAsking
    <3>2. RowsOf(k)' # {} /\ granted' = granted \cup {k}
      <4>1. CASE asking[r].found
        <5>1. asking[r] # NotAsking /\ asking[r].op = "grant"
          BY <1>1, <2>5 DEF SaveConsent, NotAsking, ConsentTypeOK, Asking
        <5>2. RowsOf(k) # {}
          BY <1>1, <3>1, <4>1, <5>1 DEF FoundStays
        <5>3. granted' = granted \cup {k}
          BY <2>5, <3>1, <4>1 DEF SaveConsent
        <5> QED BY <1>3, <5>2, <5>3
      <4>2. CASE ~asking[r].found
        <5>1. [key |-> k, active |-> TRUE, valid |-> TRUE] \in consents'
              /\ granted' = granted \cup {k}
          BY <2>5, <3>1, <4>2 DEF SaveConsent, InsertConsent
        <5> QED BY <5>1 DEF RowsOf
      <4> QED BY <4>1, <4>2
    <3>3. ASSUME NEW x \in granted' PROVE {row \in consents' : row.key = x} # {}
      <4>1. CASE x = k
        BY <3>2, <4>1 DEF RowsOf
      <4>2. CASE x # k
        <5>1. x \in granted
          BY <3>2, <3>3, <4>2
        <5>2. PICK y \in Keys : y = x
          BY <1>1, <5>1 DEF ConsentTypeOK
        <5>3. RowsOf(y)' # {}
          BY <1>1, <1>3, <5>1, <5>2 DEF GrantedIsOnRecord
        <5> QED BY <5>2, <5>3 DEF RowsOf
      <4> QED BY <4>1, <4>2
    <3> QED BY <3>3 DEF GrantedIsOnRecord, RowsOf
  <2>6. ASSUME NEW k \in Keys, RevokeConsent(k)
        PROVE  GrantedIsOnRecord' /\ FoundStays'
    BY <1>1, <1>3, <2>3, <2>6
       DEF RevokeConsent, GrantedIsOnRecord, ConsentTypeOK, RowsOf
  <2>7. ASSUME NEW row \in consents, ConsentExpires(row)
        PROVE  GrantedIsOnRecord' /\ FoundStays'
    BY <2>1, <2>3, <2>7 DEF ConsentExpires
  <2>8. ASSUME NEW r \in Requests, SaveConsent(r) \/ AnswerCheck(r) \/ ConsentFails(r)
        PROVE  FoundStays'
    BY <2>2, <2>8 DEF SaveConsent, AnswerCheck, ConsentFails
  <2>9. ASSUME NEW r \in Requests, AnswerCheck(r) \/ ConsentFails(r)
        PROVE  GrantedIsOnRecord'
    BY <2>1, <2>9 DEF AnswerCheck, ConsentFails
  <2>10. ASSUME NEW r \in Requests, NEW k \in Keys, NEW op \in {"grant", "check"},
                FindConsent(r, op, k)
         PROVE  GrantedIsOnRecord'
    BY <2>1, <2>10 DEF FindConsent
  <2> QED BY <2>4, <2>5, <2>6, <2>7, <2>8, <2>9, <2>10 DEF ConsentNext
<1> QED BY <1>2, <1>4 DEF ConsentInv

LEMMA ConsentUnchanged == ConsentInv /\ UNCHANGED consentVars => ConsentInv'
BY DEF ConsentInv, consentVars, ConsentTypeOK, GrantedIsOnRecord, FoundStays,
       RowsOf

LEMMA ConsentInvariance == ConsentSpec => []ConsentInv
BY ConsentUnchanged, ConsentInitInv, ConsentInvKept, PTL DEF ConsentSpec

\* Whoever was told that a consent is granted has a row of it, for any number of
\* overlapping grants, checks and revocations.
THEOREM GrantsCorrect == ConsentSpec => []GrantedIsOnRecord
BY ConsentInvariance, PTL DEF ConsentInv

(*--------------------------------- Documents ---------------------------------*)

\* The blob of x, or that of a rival, is there.
HasBlob(x) == OwnBlob(x) \/ Rivalled(x)

Token(up) == [type |-> up.type, at |-> up.at, file |-> up.file]

\* What an upload knows: it was begun, and once it stored its blob that one, or
\* a rival's, is there.
UploadsHoldFiles ==
  \A r \in Requests : \A up \in Upload \ {NoUpload} :
    uploads[r] = up =>
      Token(up) \in begun /\ (up.pc = "insert" => up.mocked \/ HasBlob(up))

DocumentInv == DocumentTypeOK /\ DocumentHasBlob /\ UploadsHoldFiles

LEMMA DocumentInitInv ==
  ASSUME DocumentInit
  PROVE  DocumentInv
<1>1. DocumentTypeOK
  <2>1. now \in Times
    BY MaxClockIsNat DEF DocumentInit, Times
  <2>2. uploads \in [Requests -> Upload]
    BY DEF DocumentInit, Upload
  <2> QED BY <2>1, <2>2 DEF DocumentInit, DocumentTypeOK
<1>2. DocumentHasBlob /\ UploadsHoldFiles
  BY DEF DocumentInit, DocumentHasBlob, UploadsHoldFiles
<1> QED BY <1>1, <1>2 DEF DocumentInv

\* An upload overwrites nobody's blob but a rival's, and is its rival then.
LEMMA OverwriteKeeps ==
  ASSUME NEW x, HasBlob(x), begun \subseteq begun', NEW up, Token(up) \in begun,
         blobs' = Overwritten(up)
  PROVE  HasBlob(x)'
<1> DEFINE own == [key |-> BlobKey(up), file |-> up.file]
<1>1. own \in blobs' /\ \A b \in blobs : b.key # BlobKey(up) => b \in blobs'
  BY DEF Overwritten
<1>2. CASE x.type = up.type /\ x.at = up.at /\ x.file = up.file
  <2>1. BlobKey(x) = BlobKey(up)
    BY <1>2 DEF BlobKey
  <2> QED BY <1>1, <1>2, <2>1 DEF HasBlob, OwnBlob, BlobKey
<1>3. CASE x.type = up.type /\ x.at = up.at /\ x.file # up.file
  <2> DEFINE token == Token(up)
  <2>1. /\ token \in begun' /\ token.type = x.type /\ token.at = x.at
        /\ token.file # x.file
        /\ BlobKey(token) = BlobKey(up) /\ token.file = up.file
    BY <1>3 DEF Token, BlobKey
  <2>2. [key |-> BlobKey(token), file |-> token.file] \in blobs'
    BY <1>1, <2>1
  <2> HIDE DEF token
  <2> QED BY <2>1, <2>2 DEF HasBlob, Rivalled, OwnBlob, BlobKey
<1>4. CASE ~(x.type = up.type /\ x.at = up.at)
  <2>1. ASSUME NEW y, y.type = x.type, y.at = x.at, OwnBlob(y)
        PROVE  OwnBlob(y)'
    <3>1. BlobKey(y) # BlobKey(up)
      BY <1>4, <2>1 DEF BlobKey
    <3> DEFINE b == [key |-> BlobKey(y), file |-> y.file]
    <3>2. b \in blobs /\ b.key # BlobKey(up)
      BY <2>1, <3>1 DEF OwnBlob
    <3>3. b \in blobs'
      BY <1>1, <3>2
    <3> QED BY <3>3 DEF OwnBlob, BlobKey
  <2>2. CASE OwnBlob(x)
    BY <2>1, <2>2 DEF HasBlob
  <2>3. CASE Rivalled(x)
    <3>1. PICK old \in begun : /\ old.type = x.type /\ old.at = x.at
                               /\ old.file # x.file /\ OwnBlob(old)
      BY <2>3 DEF Rivalled
    <3>2. OwnBlob(old)' /\ old \in begun'
      BY <2>1, <3>1
    <3> QED BY <3>1, <3>2 DEF HasBlob, Rivalled
  <2> QED BY <2>2, <2>3 DEF HasBlob
<1> QED BY <1>2, <1>3, <1>4

LEMMA BlobsStay ==
  ASSUME NEW x, HasBlob(x), begun \subseteq begun', UNCHANGED blobs
  PROVE  HasBlob(x)'
BY DEF HasBlob, OwnBlob, Rivalled, BlobKey

\* A step begins or goes on with the upload of one request, or drops some; the
\* blobs stay but for one that an upload in flight stores.
LEMMA UploadsMove ==
  ASSUME DocumentInv, DocumentTypeOK', begun \subseteq begun',
         \/ UNCHANGED blobs
         \/ \E q \in Requests : /\ uploads[q] # NoUpload
                                /\ blobs' = Overwritten(uploads[q]),
         \A d \in documents' : d \in documents \/ d.mocked \/ HasBlob(d)',
         \A r \in Requests :
           \/ uploads'[r] \in {uploads[r], NoUpload}
           \/ /\ Token(uploads'[r]) \in begun'
              /\ \A up \in Upload : uploads'[r] = up /\ up.pc = "insert"
                                      => up.mocked \/ HasBlob(up)'
  PROVE  DocumentInv'
<1>1. ASSUME NEW x, HasBlob(x) PROVE HasBlob(x)'
  <2>1. CASE UNCHANGED blobs
    BY <1>1, <2>1, BlobsStay
  <2>2. ASSUME NEW q \in Requests, uploads[q] # NoUpload,
               blobs' = Overwritten(uploads[q])
        PROVE  HasBlob(x)'
    <3>1. PICK up \in Upload \ {NoUpload} : up = uploads[q]
      BY <2>2 DEF DocumentInv, DocumentTypeOK
    <3>2. Token(up) \in begun
      BY <3>1 DEF DocumentInv, UploadsHoldFiles
    <3>3. blobs' = Overwritten(up)
      BY <2>2, <3>1
    <3> QED BY <1>1, <3>2, <3>3, OverwriteKeeps
  <2> QED BY <2>1, <2>2
<1>2. DocumentHasBlob'
  <2>1. \A d \in documents' : d.mocked \/ HasBlob(d)'
    BY <1>1 DEF DocumentInv, DocumentHasBlob, HasBlob
  <2> QED BY <2>1 DEF DocumentHasBlob, HasBlob
<1>3. UploadsHoldFiles'
  <2>1. ASSUME NEW r \in Requests, NEW up \in Upload \ {NoUpload}, uploads'[r] = up
        PROVE  Token(up) \in begun' /\ (up.pc = "insert" => up.mocked \/ HasBlob(up)')
    <3>1. CASE uploads[r] = up
      <4>1. Token(up) \in begun /\ (up.pc = "insert" => up.mocked \/ HasBlob(up))
        BY <3>1 DEF DocumentInv, UploadsHoldFiles
      <4> QED BY <1>1, <4>1
    <3>2. CASE uploads[r] # up
      <4>1. Token(uploads'[r]) \in begun'
            /\ (up.pc = "insert" => up.mocked \/ HasBlob(up)')
        BY <2>1, <3>2
      <4> QED BY <2>1, <4>1
    <3> QED BY <3>1, <3>2
  <2>2. \A r \in Requests : \A up \in Upload \ {NoUpload} :
          uploads'[r] = up =>
            /\ Token(up) \in begun'
            /\ up.pc = "insert" => up.mocked \/ HasBlob(up)'
    BY <2>1
  <2> QED BY <2>2 DEF UploadsHoldFiles, Token
<1> QED BY <1>2, <1>3 DEF DocumentInv

LEMMA BeginUploadKeeps ==
  ASSUME DocumentInv, NEW r \in Requests, NEW type \in DocTypes, NEW file \in Files,
         BeginUpload(r, type, file)
  PROVE  DocumentInv'
<1> DEFINE new == [pc |-> "store", type |-> type, at |-> now, file |-> file]
           token == [type |-> type, at |-> now, file |-> file]
<1>1. DocumentTypeOK
  BY DEF DocumentInv
<1>2. /\ new \in Upload /\ new.pc = "store" /\ Token(new) = token
      /\ token \in Begun
  BY <1>1 DEF Upload, Token, Begun, DocumentTypeOK
<1>3. /\ uploads' = [uploads EXCEPT ![r] = new]
      /\ begun' = begun \cup {token}
      /\ UNCHANGED <<now, configured, ready, blobs, documents>>
  BY DEF BeginUpload
<1> HIDE DEF new, token
<1>4. DocumentTypeOK'
  BY <1>1, <1>2, <1>3 DEF DocumentTypeOK
<1>5. \A q \in Requests : uploads'[q] = IF q = r THEN new ELSE uploads[q]
  BY <1>1, <1>3 DEF DocumentTypeOK
<1>6. \A q \in Requests :
        \/ uploads'[q] \in {uploads[q], NoUpload}
        \/ /\ Token(uploads'[q]) \in begun'
           /\ \A up \in Upload : uploads'[q] = up /\ up.pc = "insert"
                                   => up.mocked \/ HasBlob(up)'
  BY <1>2, <1>3, <1>5
<1> QED BY <1>3, <1>4, <1>6, UploadsMove

LEMMA OverwrittenType ==
  ASSUME DocumentTypeOK, NEW r \in Requests, uploads[r] # NoUpload
  PROVE  /\ Overwritten(uploads[r]) \subseteq [key : DocTypes \X Times, file : Files]
         /\ uploads[r].type \in DocTypes /\ uploads[r].at \in Times
         /\ uploads[r].file \in Files
<1>1. /\ uploads[r].type \in DocTypes /\ uploads[r].at \in Times
      /\ uploads[r].file \in Files
  BY DEF DocumentTypeOK, Upload
<1>2. BlobKey(uploads[r]) \in DocTypes \X Times
  BY <1>1 DEF BlobKey
<1> QED BY <1>1, <1>2 DEF Overwritten, DocumentTypeOK

\* upload answers: with a mock, or with the blob in the container.
LEMMA StoredKeeps ==
  ASSUME DocumentInv, NEW r \in Requests, uploads[r].pc = "store",
         NEW mocked \in BOOLEAN, Stored(r, mocked),
         IF mocked THEN UNCHANGED blobs ELSE blobs' = Overwritten(uploads[r]),
         UNCHANGED <<now, configured, ready, documents, begun>>
  PROVE  DocumentInv'
<1>1. DocumentTypeOK /\ uploads[r] # NoUpload
  BY DEF DocumentInv, NoUpload
<1>2. PICK old \in Upload \ {NoUpload} : old = uploads[r]
  BY <1>1 DEF DocumentTypeOK
<1> DEFINE new == [pc |-> "insert", type |-> old.type, at |-> old.at,
                   file |-> old.file, mocked |-> mocked]
<1>3. /\ new \in Upload /\ Token(new) = Token(old) /\ new.mocked = mocked
      /\ BlobKey(new) = BlobKey(old) /\ new.file = old.file
  BY <1>1, <1>2, OverwrittenType DEF Upload, Token, BlobKey
<1>4. uploads' = [uploads EXCEPT ![r] = new]
  BY <1>1, <1>2 DEF Stored, DocumentTypeOK
<1> HIDE DEF new
<1>5. \A q \in Requests : uploads'[q] = IF q = r THEN new ELSE uploads[q]
  BY <1>1, <1>4 DEF DocumentTypeOK
<1>6. DocumentTypeOK'
  BY <1>1, <1>3, <1>4, OverwrittenType DEF DocumentTypeOK
<1>7. Token(new) \in begun'
  BY <1>2, <1>3 DEF DocumentInv, UploadsHoldFiles
<1>8. mocked \/ HasBlob(new)'
  <2>1. ~mocked => [key |-> BlobKey(new), file |-> new.file] \in blobs'
    BY <1>2, <1>3 DEF Overwritten
  <2> QED BY <2>1 DEF HasBlob, OwnBlob, BlobKey
<1>9. \A q \in Requests :
        \/ uploads'[q] \in {uploads[q], NoUpload}
        \/ /\ Token(uploads'[q]) \in begun'
           /\ \A up \in Upload : uploads'[q] = up /\ up.pc = "insert"
                                   => up.mocked \/ HasBlob(up)'
  <2> SUFFICES ASSUME NEW q \in Requests, q = r
               PROVE  /\ Token(uploads'[q]) \in begun'
                      /\ \A up \in Upload : uploads'[q] = up /\ up.pc = "insert"
                                              => up.mocked \/ HasBlob(up)'
    BY <1>5
  <2>1. uploads'[q] = new
    BY <1>5
  <2>2. ASSUME NEW up \in Upload, uploads'[q] = up
        PROVE  up.mocked \/ HasBlob(up)'
    <3>1. up = new /\ up.mocked = mocked
      BY <1>3, <2>1, <2>2
    <3> QED BY <1>8, <3>1
  <2> QED BY <1>7, <2>1, <2>2
<1>10. \A d \in documents' : d \in documents
  OBVIOUS
<1>11. \/ UNCHANGED blobs
       \/ \E q \in Requests : /\ uploads[q] # NoUpload
                              /\ blobs' = Overwritten(uploads[q])
  BY <1>1
<1> QED BY <1>6, <1>9, <1>10, <1>11, UploadsMove

\* The row that is inserted takes the file of its upload along.
LEMMA InsertDocumentKeeps ==
  ASSUME DocumentInv, NEW r \in Requests, InsertDocument(r)
  PROVE  DocumentInv'
<1>1. DocumentTypeOK /\ uploads[r] # NoUpload /\ uploads[r].pc = "insert"
  BY DEF DocumentInv, InsertDocument, NoUpload
<1>2. PICK up \in Upload \ {NoUpload} : up = uploads[r]
  BY <1>1 DEF DocumentTypeOK
<1> DEFINE new == [type |-> up.type, at |-> up.at, file |-> up.file,
                   mocked |-> up.mocked]
<1>3. /\ documents' = documents \cup {new}
      /\ uploads' = [uploads EXCEPT ![r] = NoUpload]
      /\ UNCHANGED <<now, configured, ready, blobs, begun>>
  BY <1>2 DEF InsertDocument, Dropped
<1>4. /\ new \in Document /\ new.mocked = up.mocked /\ new.type = up.type
      /\ new.at = up.at /\ new.file = up.file
  BY <1>1, <1>2 DEF Document, Upload
<1> HIDE DEF new
<1>5. new.mocked \/ HasBlob(new)'
  <2>1. up.mocked \/ HasBlob(up)
    BY <1>1, <1>2 DEF DocumentInv, UploadsHoldFiles
  <2>2. HasBlob(up) => HasBlob(new)
    BY <1>4 DEF HasBlob, OwnBlob, Rivalled, BlobKey
  <2> QED BY <1>3, <1>4, <2>1, <2>2, BlobsStay
<1>6. DocumentTypeOK'
  BY <1>1, <1>3, <1>4 DEF DocumentTypeOK, Upload
<1>7. \A q \in Requests : uploads'[q] \in {uploads[q], NoUpload}
  BY <1>1, <1>3 DEF DocumentTypeOK
<1>8. \A d \in documents' : d \in documents \/ d.mocked \/ HasBlob(d)'
  BY <1>3, <1>5
<1> QED BY <1>3, <1>6, <1>7, <1>8, UploadsMove

LEMMA DocumentInvKept ==
  ASSUME DocumentInv, DocumentNext
  PROVE  DocumentInv'
<1>1. DocumentTypeOK
  BY DEF DocumentInv
<1>2. ASSUME \/ UNCHANGED blobs
             \/ \E q \in Requests : /\ uploads[q] # NoUpload
                                    /\ blobs' = Overwritten(uploads[q]),
             \A q \in Requests : uploads'[q] \in {uploads[q], NoUpload},
             UNCHANGED <<documents, begun>>, DocumentTypeOK'
      PROVE  DocumentInv'
  BY <1>2, UploadsMove
<1>3. CASE Tick \/ ClientReady
  <2>1. DocumentTypeOK'
    <3>1. CASE Tick
      <4>1. now' \in Times
        BY <1>1, <3>1, MaxClockIsNat DEF Tick, DocumentTypeOK, Times
      <4> QED BY <1>1, <3>1, <4>1 DEF Tick, DocumentTypeOK
    <3>2. CASE ClientReady
      BY <1>1, <3>2 DEF ClientReady, DocumentTypeOK
    <3> QED BY <1>3, <3>1, <3>2
  <2>2. /\ \A q \in Requests : uploads'[q] \in {uploads[q], NoUpload}
        /\ UNCHANGED blobs /\ UNCHANGED <<documents, begun>>
    BY <1>3 DEF Tick, ClientReady
  <2> QED BY <1>2, <2>1, <2>2
<1>4. CASE RestartServer
  <2>1. DocumentTypeOK'
    BY <1>1, <1>4 DEF RestartServer, DocumentTypeOK, Upload
  <2>2. /\ \A q \in Requests : uploads'[q] \in {uploads[q], NoUpload}
        /\ UNCHANGED blobs /\ UNCHANGED <<documents, begun>>
    BY <1>4 DEF RestartServer
  <2> QED BY <1>2, <2>1, <2>2
<1>5. ASSUME NEW r \in Requests, Dropped(r)
      PROVE  /\ uploads' \in [Requests -> Upload]
             /\ \A q \in Requests : uploads'[q] \in {uploads[q], NoUpload}
  BY <1>1, <1>5 DEF Dropped, DocumentTypeOK, Upload
<1>6. ASSUME NEW r \in Requests, StoreBlob(r)
      PROVE  DocumentInv'
  <2>1. CASE Stored(r, TRUE) /\ UNCHANGED blobs
    BY <1>6, <2>1, StoredKeeps DEF StoreBlob
  <2>2. CASE Stored(r, FALSE) /\ blobs' = Overwritten(uploads[r])
    BY <1>6, <2>2, StoredKeeps DEF StoreBlob
  <2>3. CASE UploadFails(r)
    <3>1. uploads[r] # NoUpload
          /\ UNCHANGED <<now, configured, ready, documents, begun>>
      BY <1>6 DEF StoreBlob, NoUpload
    <3>2. Dropped(r) /\ (UNCHANGED blobs \/ blobs' = Overwritten(uploads[r]))
      BY <2>3 DEF UploadFails
    <3>3. DocumentTypeOK'
      BY <1>1, <1>5, <3>1, <3>2, OverwrittenType DEF DocumentTypeOK
    <3> QED BY <1>2, <1>5, <3>1, <3>2, <3>3
  <2> QED BY <1>6, <2>1, <2>2, <2>3 DEF StoreBlob
<1>7. ASSUME NEW r \in Requests, InsertFails(r)
      PROVE  DocumentInv'
  <2>1. /\ Dropped(r)
        /\ UNCHANGED <<now, configured, ready, blobs, documents, begun>>
    BY <1>7 DEF InsertFails
  <2>2. DocumentTypeOK'
    BY <1>1, <1>5, <2>1 DEF DocumentTypeOK
  <2> QED BY <1>2, <1>5, <2>1, <2>2
<1> QED BY <1>3, <1>4, <1>6, <1>7, BeginUploadKeeps, InsertDocumentKeeps
        DEF DocumentNext

LEMMA DocumentUnchanged == DocumentInv /\ UNCHANGED documentVars => DocumentInv'
BY DEF DocumentInv, documentVars, DocumentTypeOK, DocumentHasBlob,
       UploadsHoldFiles, HasBlob, OwnBlob, Rivalled, BlobKey, Token

\* For any number of overlapping uploads, failures and restarts, a document that
\* was not uploaded to the mock has its own blob, unless an upload of the same
\* type in the same millisecond wrote over it.
THEOREM DocumentsHaveBlobs == DocumentSpec => []DocumentHasBlob
<1>1. DocumentInv => DocumentHasBlob
  BY DEF DocumentInv
<1> QED BY <1>1, DocumentInitInv, DocumentInvKept, DocumentUnchanged, PTL
        DEF DocumentSpec

(*---------------------------------- CmsCache ---------------------------------*)

\* What a request at this step is about to cache is the text of its locale; only
\* another locale falls back to the English text.
Current(step) ==
  /\ step.pc = "fallback" => step.locale # "en"
  /\ step.pc = "set" /\ step.text.from = step.locale
       => \/ /\ Published(step.locale)
             /\ step.text.version = content[step.locale].version
          \/ step.locale \in unsure

ReadersCurrent == \A r \in Requests : Current(serving[r])

CmsInv == CmsTypeOK /\ ReadersCurrent /\ StaleOnlyByRace

LEMMA CmsInitInv ==
  ASSUME CmsInit
  PROVE  CmsInv
BY CmsBounds DEF CmsInit, CmsInv, CmsTypeOK, ReadersCurrent, Current,
   StaleOnlyByRace, Entries, NoEntry, Serves, NotServing

\* A request that goes on to a step of Serves leaves the others where they are.
LEMMA GoEffect ==
  ASSUME CmsTypeOK, NEW r \in Requests, NEW step \in Serves, Go(r, step)
  PROVE  /\ serving' \in [Requests -> Serves]
         /\ \A q \in Requests : serving'[q] = IF q = r THEN step ELSE serving[q]
BY DEF CmsTypeOK, Go

\* The facts about a request that is serving, by what it is about to do.
LEMMA ServingFacts ==
  ASSUME CmsTypeOK, NEW r \in Requests,
         serving[r].pc \in {"own", "fallback", "find", "del", "set", "save"}
  PROVE  /\ serving[r].locale \in Locales
         /\ serving[r].pc = "set" => serving[r].text \in Texts
BY DEF CmsTypeOK, Serves, NotServing

\* Nothing of this is due to a step that only reads, from any step but the
\* deletion.
LEMMA GoKeeps ==
  ASSUME CmsInv, NEW r \in Requests, NEW step \in Serves, Go(r, step),
         Current(step), serving[r].pc # "del", UNCHANGED <<content, cached, unsure>>
  PROVE  CmsInv'
<1>1. CmsTypeOK /\ ReadersCurrent /\ StaleOnlyByRace
  BY DEF CmsInv
<1>2. /\ serving' \in [Requests -> Serves]
      /\ \A q \in Requests : serving'[q] = IF q = r THEN step ELSE serving[q]
  BY <1>1, GoEffect
<1>3. CmsTypeOK'
  BY <1>1, <1>2 DEF CmsTypeOK
<1>4. ReadersCurrent'
  BY <1>1, <1>2 DEF ReadersCurrent, Current, Published
<1>5. \A l \in Locales : Deleting(l) => Deleting(l)'
  BY <1>2 DEF Deleting
<1>6. StaleOnlyByRace'
  BY <1>1, <1>5 DEF StaleOnlyByRace, Published
<1> QED BY <1>3, <1>4, <1>6 DEF CmsInv

LEMMA IdleIsCurrent == NotServing \in Serves /\ Current(NotServing)
BY DEF Serves, NotServing, Current

\* getContent caches under a locale its own text, or the English one.
LEMMA ReadContentKeeps ==
  ASSUME CmsInv, NEW r \in Requests, ReadContent(r)
  PROVE  CmsInv'
<1>1. PICK l \in Locales : l = serving[r].locale
  BY ServingFacts DEF CmsInv, ReadContent
<1>2. serving[r].pc # "del" /\ UNCHANGED <<content, cached, unsure>>
  BY DEF ReadContent
<1>3. ASSUME NEW m \in Locales, Published(m), m = l \/ l # m,
             Go(r, [pc |-> "set", locale |-> l, text |-> Text(m)])
      PROVE  CmsInv'
  <2> DEFINE step == [pc |-> "set", locale |-> l, text |-> Text(m)]
  <2>1. Text(m) \in Texts /\ Text(m).from = m /\ Text(m).version = content[m].version
    BY <1>3 DEF Text, Texts, Published, CmsInv, CmsTypeOK
  <2>2. step \in Serves
    BY <2>1 DEF Serves
  <2>3. Current(step)
    BY <1>3, <2>1 DEF Current
  <2> QED BY <1>2, <1>3, <2>2, <2>3, GoKeeps
<1>4. ASSUME l # "en", Go(r, [pc |-> "fallback", locale |-> l])
      PROVE  CmsInv'
  <2> DEFINE step == [pc |-> "fallback", locale |-> l]
  <2>1. step \in Serves /\ Current(step)
    BY <1>4 DEF Serves, Current
  <2> QED BY <1>2, <1>4, <2>1, GoKeeps
<1>5. ASSUME Go(r, NotServing)
      PROVE  CmsInv'
  BY <1>2, <1>5, IdleIsCurrent, GoKeeps
<1>6. CASE serving[r].pc = "own"
  BY <1>1, <1>3, <1>4, <1>5, <1>6 DEF ReadContent
<1>7. CASE serving[r].pc = "fallback"
  <2>1. Published("en") => CmsInv'
    BY <1>1, <1>3, <1>7, CmsBounds DEF ReadContent
  <2>2. ~Published("en") => CmsInv'
    BY <1>5, <1>7 DEF ReadContent
  <2> QED BY <2>1, <2>2
<1> QED BY <1>6, <1>7 DEF ReadContent

\* What is cached is what the reader holds.
LEMMA FillCacheKeeps ==
  ASSUME CmsInv, NEW r \in Requests, FillCache(r)
  PROVE  CmsInv'
<1>1. CmsTypeOK /\ ReadersCurrent /\ StaleOnlyByRace
  BY DEF CmsInv
<1>2. PICK l \in Locales : l = serving[r].locale
  BY <1>1, ServingFacts DEF FillCache
<1>3. PICK text \in Texts : text = serving[r].text
  BY <1>1, ServingFacts DEF FillCache
<1>4. /\ serving[r].pc = "set" /\ Go(r, NotServing)
      /\ cached' \in {cached, [cached EXCEPT ![l] = CachedText(text)]}
      /\ UNCHANGED <<content, unsure>>
  BY <1>2, <1>3 DEF FillCache
<1>5. CASE cached' = cached
  BY <1>4, <1>5, IdleIsCurrent, GoKeeps
<1>6. CASE cached' = [cached EXCEPT ![l] = CachedText(text)]
  <2>1. /\ CachedText(text) \in Entries /\ CachedText(text).from = text.from
        /\ CachedText(text).version = text.version
    BY DEF CachedText, Entries, Texts
  <2>2. /\ serving' \in [Requests -> Serves]
        /\ \A q \in Requests :
             serving'[q] = IF q = r THEN NotServing ELSE serving[q]
    BY <1>1, <1>4, IdleIsCurrent, GoEffect
  <2>3. CmsTypeOK'
    BY <1>1, <1>4, <1>6, <2>1, <2>2 DEF CmsTypeOK
  <2>4. ReadersCurrent'
    BY <1>1, <1>4, <2>2 DEF ReadersCurrent, Current, Published, NotServing
  <2>5. \A k \in Locales : Deleting(k) => Deleting(k)'
    BY <1>4, <2>2 DEF Deleting
  <2>6. ASSUME text.from = l
        PROVE  \/ Published(l) /\ text.version = content[l].version
               \/ l \in unsure
    BY <1>1, <1>2, <1>3, <1>4, <2>6 DEF ReadersCurrent, Current
  <2>7. \A k \in Locales :
          cached'[k] = IF k = l THEN CachedText(text) ELSE cached[k]
    BY <1>1, <1>6 DEF CmsTypeOK
  <2>8. StaleOnlyByRace'
    BY <1>1, <1>4, <2>1, <2>5, <2>6, <2>7 DEF StaleOnlyByRace, Published
  <2> QED BY <2>3, <2>4, <2>8 DEF CmsInv
<1> QED BY <1>4, <1>5, <1>6

\* A save makes the readers of the locale unsure, and its entry is about to go.
LEMMA SaveContentKeeps ==
  ASSUME CmsInv, NEW r \in Requests, SaveContent(r)
  PROVE  CmsInv'
<1>1. CmsTypeOK /\ ReadersCurrent /\ StaleOnlyByRace
  BY DEF CmsInv
<1>2. PICK l \in Locales : l = serving[r].locale
  BY <1>1, ServingFacts DEF SaveContent
<1>3. PICK active \in BOOLEAN :
        content' = [content EXCEPT ![l] =
                      [version |-> @.version + 1, active |-> active]]
  BY <1>2 DEF SaveContent
<1> DEFINE step == [pc |-> "del", locale |-> l]
<1>4. /\ serving[r].pc = "save" /\ content[l].version < MaxVersions
      /\ Go(r, step) /\ cached' = cached
      /\ unsure' = unsure \cup {k \in {l} : ReaderHolds(k)}
  BY <1>2 DEF SaveContent
<1>5. step \in Serves /\ step.pc = "del" /\ step.locale = l
  BY DEF Serves
<1> HIDE DEF step
<1>6. /\ serving' \in [Requests -> Serves]
      /\ \A q \in Requests : serving'[q] = IF q = r THEN step ELSE serving[q]
  BY <1>1, <1>4, <1>5, GoEffect
<1>7. CmsTypeOK'
  <2>1. content' \in [Locales -> [version : 0..MaxVersions, active : BOOLEAN]]
    <3>1. [version |-> content[l].version + 1, active |-> active]
            \in [version : 0..MaxVersions, active : BOOLEAN]
      BY <1>1, <1>4, CmsBounds DEF CmsTypeOK
    <3> QED BY <1>1, <1>3, <3>1 DEF CmsTypeOK
  <2> QED BY <1>1, <1>4, <1>6, <2>1 DEF CmsTypeOK
<1>8. \A k \in Locales : k # l => content'[k] = content[k]
  BY <1>1, <1>3 DEF CmsTypeOK
<1>9. ReadersCurrent'
  <2> SUFFICES ASSUME NEW q \in Requests PROVE Current(serving[q])'
    BY DEF ReadersCurrent
  <2>1. CASE q = r
    BY <1>5, <1>6, <2>1 DEF Current
  <2>2. CASE q # r
    <3>1. serving'[q] = serving[q] /\ Current(serving[q])
      BY <1>1, <1>6, <2>2 DEF ReadersCurrent
    <3>2. ASSUME serving[q].pc = "set", serving[q].text.from = serving[q].locale
          PROVE  \/ Published(serving[q].locale)'
                    /\ serving[q].text.version = content'[serving[q].locale].version
                 \/ serving[q].locale \in unsure'
      <4>1. serving[q].locale \in Locales
        BY <1>1, <3>2, ServingFacts
      <4>2. CASE serving[q].locale = l
        BY <1>4, <3>2, <4>2 DEF ReaderHolds
      <4>3. CASE serving[q].locale # l
        <5>1. content'[serving[q].locale] = content[serving[q].locale]
          BY <1>8, <4>1, <4>3
        <5> QED BY <1>4, <3>1, <3>2, <5>1 DEF Current, Published
      <4> QED BY <4>2, <4>3
    <3> QED BY <3>1, <3>2 DEF Current, Published
  <2> QED BY <2>1, <2>2
<1>10. Deleting(l)' /\ \A k \in Locales : Deleting(k) => Deleting(k)'
  BY <1>4, <1>5, <1>6 DEF Deleting
<1>11. StaleOnlyByRace'
  BY <1>1, <1>4, <1>8, <1>10 DEF StaleOnlyByRace, Published
<1> QED BY <1>7, <1>9, <1>11 DEF CmsInv

\* After the deletion, or without it, the entry is gone or the locale unsure.
LEMMA DeleteEntryKeeps ==
  ASSUME CmsInv, NEW r \in Requests, DeleteEntry(r) \/ ServingFails(r)
  PROVE  CmsInv'
<1>1. CmsTypeOK /\ ReadersCurrent /\ StaleOnlyByRace
  BY DEF CmsInv
<1>2. Go(r, NotServing) /\ UNCHANGED content
  BY DEF DeleteEntry, ServingFails
<1>3. /\ serving' \in [Requests -> Serves]
      /\ \A q \in Requests :
           serving'[q] = IF q = r THEN NotServing ELSE serving[q]
  BY <1>1, <1>2, IdleIsCurrent, GoEffect
<1>4. serving[r].pc = "del" => serving[r].locale \in Locales
  BY <1>1, ServingFacts
<1>5. /\ cached' \in [Locales -> Entries] /\ unsure \subseteq unsure'
      /\ unsure' \subseteq Locales
      /\ \A k \in Locales : cached'[k] = cached[k] \/ cached'[k] = NoEntry
      /\ serving[r].pc = "del" =>
           cached'[serving[r].locale] = NoEntry \/ serving[r].locale \in unsure'
  BY <1>1, <1>4 DEF DeleteEntry, ServingFails, CmsTypeOK, DeletedKey, Entries
<1>6. CmsTypeOK'
  BY <1>1, <1>2, <1>3, <1>5 DEF CmsTypeOK
<1>7. ReadersCurrent'
  BY <1>1, <1>2, <1>3, <1>5 DEF ReadersCurrent, Current, Published, NotServing
<1>8. \A k \in Locales :
        Deleting(k) => Deleting(k)' \/ cached'[k] = NoEntry \/ k \in unsure'
  BY <1>3, <1>5 DEF Deleting
<1>9. StaleOnlyByRace'
  BY <1>1, <1>2, <1>5, <1>8 DEF StaleOnlyByRace, Published, NoEntry
<1> QED BY <1>6, <1>7, <1>9 DEF CmsInv

LEMMA CmsInvKept ==
  ASSUME CmsInv, CmsNext
  PROVE  CmsInv'
<1>1. ASSUME NEW r \in Requests, NEW l \in Locales, GetMisses(r, l)
      PROVE  CmsInv'
  <2> DEFINE step == [pc |-> "own", locale |-> l]
  <2>1. step \in Serves /\ Current(step)
    BY DEF Serves, Current
  <2> QED BY <1>1, <2>1, GoKeeps DEF GetMisses, NotServing
<1>2. ASSUME NEW r \in Requests, NEW l \in Locales, BeginUpsert(r, l)
      PROVE  CmsInv'
  <2> DEFINE step == [pc |-> "find", locale |-> l]
  <2>1. step \in Serves /\ Current(step)
    BY DEF Serves, Current
  <2> QED BY <1>2, <2>1, GoKeeps DEF BeginUpsert, NotServing
<1>3. ASSUME NEW r \in Requests, FindRow(r)
      PROVE  CmsInv'
  <2>1. PICK l \in Locales : l = serving[r].locale
    BY <1>3, ServingFacts DEF FindRow, CmsInv
  <2> DEFINE step == [pc |-> "save", locale |-> l, found |-> content[l].version > 0]
  <2>2. step \in Serves /\ Current(step)
    BY DEF Serves, Current
  <2>3. /\ serving[r].pc # "del" /\ Go(r, step)
        /\ UNCHANGED <<content, cached, unsure>>
    BY <1>3, <2>1 DEF FindRow
  <2> HIDE DEF step
  <2> QED BY <2>2, <2>3, GoKeeps
<1>4. ASSUME NEW l \in Locales, EntryExpires(l)
      PROVE  CmsInv'
  <2>1. /\ cached' = [cached EXCEPT ![l] = NoEntry]
        /\ UNCHANGED <<content, serving, unsure>>
    BY <1>4 DEF EntryExpires
  <2>2. CmsTypeOK' /\ ReadersCurrent'
    BY <2>1 DEF CmsInv, CmsTypeOK, Entries, ReadersCurrent, Current, Published
  <2>3. \A k \in Locales : cached'[k] = cached[k] \/ cached'[k] = NoEntry
    BY <2>1 DEF CmsInv, CmsTypeOK
  <2>4. StaleOnlyByRace'
    BY <2>1, <2>3 DEF CmsInv, StaleOnlyByRace, Published, Deleting
  <2> QED BY <2>2, <2>4 DEF CmsInv
<1> QED BY <1>1, <1>2, <1>3, <1>4, ReadContentKeeps, FillCacheKeeps,
           SaveContentKeeps, DeleteEntryKeeps DEF CmsNext

LEMMA CmsUnchanged == CmsInv /\ UNCHANGED cmsVars => CmsInv'
BY DEF CmsInv, cmsVars, CmsTypeOK, ReadersCurrent, Current, StaleOnlyByRace,
       Published, Deleting

\* For any number of readers and writers, texts and locales, the cache holds an
\* old text of a locale only after one of the two races, or a failure of Redis
\* or of the process, has touched it.
THEOREM StaleEntriesExplained == CmsSpec => []StaleOnlyByRace
<1>1. CmsInv => StaleOnlyByRace
  BY DEF CmsInv
<1> QED BY <1>1, CmsInitInv, CmsInvKept, CmsUnchanged, PTL DEF CmsSpec

\* What is cached, or about to be, under a locale: a text that was written for
\* it or in English, never one of a third locale or one that was never saved.
Written(text, l) ==
  /\ text.from \in {l, "en"}
  /\ text.version <= content[text.from].version

\* And it expires.
EntriesAreWritten ==
  \A l \in Locales :
    cached[l] # NoEntry => Written(cached[l], l) /\ cached[l].timed = TRUE

ReadersHoldWritten ==
  \A r \in Requests :
    serving[r].pc = "set" => Written(serving[r].text, serving[r].locale)

WrittenInv == CmsTypeOK /\ EntriesAreWritten /\ ReadersHoldWritten

LEMMA VersionsGrow ==
  ASSUME CmsTypeOK, CmsNext, NEW l \in Locales
  PROVE  /\ content[l].version \in Nat /\ content'[l].version \in Nat
         /\ content'[l].version >= content[l].version
<1>1. content[l].version \in Nat
  BY CmsBounds DEF CmsTypeOK
<1>2. CASE content' = content
  BY <1>1, <1>2
<1>3. ASSUME NEW r \in Requests, SaveContent(r)
      PROVE  /\ content'[l].version \in Nat
             /\ content'[l].version >= content[l].version
  BY <1>1, <1>3 DEF SaveContent, CmsTypeOK
<1> QED BY <1>1, <1>2, <1>3 DEF CmsNext, GetMisses, BeginUpsert, ReadContent,
           FillCache, FindRow, DeleteEntry, ServingFails, EntryExpires

LEMMA WrittenStays ==
  ASSUME CmsTypeOK, CmsNext, NEW l \in Locales, NEW text, text.version \in Nat,
         Written(text, l)
  PROVE  Written(text, l)'
<1>1. text.from \in Locales
  BY CmsBounds DEF Written
<1> QED BY <1>1, VersionsGrow DEF Written

LEMMA WrittenInvKept ==
  ASSUME WrittenInv, CmsTypeOK', [CmsNext]_cmsVars
  PROVE  WrittenInv'
<1>1. CASE UNCHANGED cmsVars
  BY <1>1 DEF cmsVars, WrittenInv, EntriesAreWritten, ReadersHoldWritten, Written
<1> SUFFICES ASSUME CmsNext PROVE WrittenInv'
  BY <1>1
<1>2. CmsTypeOK
  BY DEF WrittenInv
\* A step caches what a reader holds, or nothing new.
<1>3. ASSUME NEW l \in Locales, cached'[l] # NoEntry
      PROVE  /\ cached'[l].timed = TRUE
             /\ \/ cached'[l] = cached[l]
                \/ \E r \in Requests :
                     /\ serving[r].pc = "set" /\ serving[r].locale = l
                     /\ cached'[l].from = serving[r].text.from
                     /\ cached'[l].version = serving[r].text.version
  <2>1. CASE cached'[l] = cached[l]
    BY <1>3, <2>1 DEF WrittenInv, EntriesAreWritten
  <2>2. ASSUME NEW r \in Requests, FillCache(r), cached'[l] # cached[l]
        PROVE  /\ cached'[l].timed = TRUE
               /\ serving[r].pc = "set" /\ serving[r].locale = l
               /\ cached'[l].from = serving[r].text.from
               /\ cached'[l].version = serving[r].text.version
    BY <1>2, <2>2 DEF FillCache, CachedText, CmsTypeOK
  <2>3. ASSUME NEW r \in Requests, DeleteEntry(r)
        PROVE  cached'[l] = cached[l]
    BY <1>2, <1>3, <2>3 DEF DeleteEntry, CmsTypeOK
  <2>4. ASSUME NEW k \in Locales, EntryExpires(k)
        PROVE  cached'[l] = cached[l]
    BY <1>2, <1>3, <2>4 DEF EntryExpires, CmsTypeOK
  <2> QED BY <2>1, <2>2, <2>3, <2>4 DEF CmsNext, GetMisses, BeginUpsert,
             ReadContent, FindRow, SaveContent, ServingFails
<1>4. EntriesAreWritten'
  <2> SUFFICES ASSUME NEW l \in Locales, cached'[l] # NoEntry
               PROVE  Written(cached[l], l)' /\ cached'[l].timed = TRUE
    BY DEF EntriesAreWritten
  <2>1. PICK entry : entry = cached'[l]
    OBVIOUS
  <2>2. entry.version \in Nat
    BY <2>1, CmsBounds DEF CmsTypeOK, Entries, NoEntry
  <2>3. Written(entry, l)
    BY <1>3, <2>1 DEF WrittenInv, EntriesAreWritten, ReadersHoldWritten, Written
  <2>4. Written(entry, l)'
    BY <1>2, <2>2, <2>3, WrittenStays
  <2> QED BY <1>3, <2>1, <2>4 DEF Written
\* A reader caches what it has just read.
<1>5. ASSUME NEW r \in Requests, serving'[r].pc = "set"
      PROVE  \/ serving'[r] = serving[r]
             \/ \E m \in {serving'[r].locale, "en"} :
                  serving'[r].text = Text(m) /\ content' = content
  <2>1. CASE serving'[r] = serving[r]
    BY <2>1
  <2>2. ASSUME NEW q \in Requests, NEW step, Go(q, step), step.pc # "set"
        PROVE  serving'[r] = serving[r]
    BY <1>2, <1>5, <2>2 DEF Go, CmsTypeOK
  <2>3. ASSUME NEW q \in Requests, ReadContent(q)
        PROVE  \/ serving'[r] = serving[r]
               \/ \E m \in {serving'[r].locale, "en"} :
                    serving'[r].text = Text(m) /\ content' = content
    <3>1. PICK l : l = serving[q].locale
      OBVIOUS
    <3>2. CASE Go(q, [pc |-> "set", locale |-> l, text |-> Text(l)])
      BY <1>2, <2>3, <3>2 DEF Go, CmsTypeOK, ReadContent
    <3>3. CASE Go(q, [pc |-> "set", locale |-> l, text |-> Text("en")])
      BY <1>2, <2>3, <3>3 DEF Go, CmsTypeOK, ReadContent
    <3>4. CASE \/ Go(q, NotServing) \/ Go(q, [pc |-> "fallback", locale |-> l])
      BY <2>2, <3>4 DEF NotServing
    <3> QED BY <2>3, <3>1, <3>2, <3>3, <3>4 DEF ReadContent
  <2>4. ASSUME NEW q \in Requests, NEW l \in Locales,
               GetMisses(q, l) \/ BeginUpsert(q, l)
        PROVE  serving'[r] = serving[r]
    BY <2>2, <2>4 DEF GetMisses, BeginUpsert
  <2>5. ASSUME NEW q \in Requests,
               \/ FillCache(q) \/ FindRow(q) \/ SaveContent(q) \/ DeleteEntry(q)
               \/ ServingFails(q)
        PROVE  serving'[r] = serving[r]
    BY <2>2, <2>5 DEF FillCache, FindRow, SaveContent, DeleteEntry, ServingFails,
       NotServing
  <2>6. ASSUME NEW l \in Locales, EntryExpires(l)
        PROVE  serving'[r] = serving[r]
    BY <2>6 DEF EntryExpires
  <2> QED BY <2>1, <2>3, <2>4, <2>5, <2>6 DEF CmsNext
<1>6. ReadersHoldWritten'
  <2> SUFFICES ASSUME NEW r \in Requests, serving'[r].pc = "set"
               PROVE  Written(serving[r].text, serving[r].locale)'
    BY DEF ReadersHoldWritten
  <2>1. PICK text, l : text = serving'[r].text /\ l = serving'[r].locale
    OBVIOUS
  <2>2. l \in Locales /\ text.version \in Nat
    BY <2>1, CmsBounds DEF CmsTypeOK, Serves, Texts, NotServing
  <2>3. CASE serving'[r] = serving[r]
    <3>1. Written(text, l)
      BY <2>1, <2>3 DEF WrittenInv, ReadersHoldWritten
    <3>2. Written(text, l)'
      BY <1>2, <2>2, <3>1, WrittenStays
    <3> QED BY <2>1, <3>2 DEF Written
  <2>4. ASSUME NEW m \in {serving'[r].locale, "en"},
               serving'[r].text = Text(m), content' = content
        PROVE  Written(serving[r].text, serving[r].locale)'
    <3>1. m \in Locales /\ content[m].version \in Nat
      BY <1>2, <2>1, <2>2, CmsBounds DEF CmsTypeOK
    <3> QED BY <2>4, <3>1 DEF Written, Text
  <2> QED BY <1>5, <2>3, <2>4
<1> QED BY <1>4, <1>6 DEF WrittenInv

\* getContent never answers from the cache with a text of a third locale or one
\* that was not saved, and every entry expires: however stale, it is gone within
\* its hour.  For any overlap of readers and writers, and any failures of Redis.
THEOREM EntriesSound == CmsSpec => []EntriesAreWritten
<1>1. CmsInit => WrittenInv
  BY CmsInitInv DEF CmsInit, CmsInv, WrittenInv, EntriesAreWritten,
     ReadersHoldWritten, NotServing
<1>2. CmsInv => CmsTypeOK
  BY DEF CmsInv
<1>3. WrittenInv => EntriesAreWritten
  BY DEF WrittenInv
<1> QED BY <1>1, <1>2, <1>3, CmsInitInv, CmsInvKept, CmsUnchanged, WrittenInvKept,
           PTL DEF CmsSpec

(*---------------------------------- AuditLog ---------------------------------*)

Flying(r) == logging[r] # NotLogging

Committing(r) == logging[r].pc = "commit"

OnTrail(hash) == \E e \in trail : e.hash = hash

\* The hash of a call in flight is its own, and on no row yet.
HashesFresh ==
  /\ \A e \in trail : e.hash <= hashes
  /\ \A r \in Requests :
       Flying(r) => logging[r].hash <= hashes /\ ~OnTrail(logging[r].hash)
  /\ \A r, q \in Requests :
       r # q /\ Flying(r) /\ Flying(q) => logging[r].hash # logging[q].hash

\* The time of a row, on record or about to be, is its own and past.
TimesDistinct ==
  /\ \A e \in trail : e.at <= clock
  /\ \A e, f \in trail : e.at = f.at => e = f
  /\ \A r \in Requests :
       Committing(r) => logging[r].at <= clock
                        /\ \A e \in trail : e.at # logging[r].at
  /\ \A r, q \in Requests :
       r # q /\ Committing(r) /\ Committing(q) => logging[r].at # logging[q].at

\* A row or a call carries the hash of the latest of the rows that it saw.
Linked(x) ==
  /\ \A hash \in x.seen : OnTrail(hash)
  /\ \/ x.seen = {}
     \/ \E g \in trail :
          /\ g.hash = x.prev /\ g.hash \in x.seen
          /\ \A h \in trail : h.hash \in x.seen => h.at <= g.at

\* What was seen is older.
SeenIsOlder(x) == \A h \in trail : h.hash \in x.seen => h.at < x.at

ChainLinked ==
  /\ \A e \in trail : Linked(e) /\ SeenIsOlder(e)
  /\ \A r \in Requests : Flying(r) => Linked(logging[r])
  /\ \A r \in Requests : Committing(r) => SeenIsOlder(logging[r])

AuditInv == AuditTypeOK /\ HashesFresh /\ TimesDistinct /\ ChainLinked

LEMMA AuditInitInv ==
  ASSUME AuditInit
  PROVE  AuditInv
BY MaxLogsNat
   DEF AuditInit, AuditInv, AuditTypeOK, HashesFresh, TimesDistinct, ChainLinked,
       Flying, Committing, Logging, NotLogging

\* What a call in flight carries.
LEMMA CallFacts ==
  ASSUME AuditTypeOK, NEW r \in Requests, logging[r].pc \in {"insert", "commit"}
  PROVE  /\ logging[r].hash \in Hashes /\ logging[r].prev \in Hashes \cup {NoHash}
         /\ logging[r].seen \in SUBSET Hashes /\ Flying(r)
         /\ logging[r].pc = "commit" => logging[r].at \in 1..MaxLogs
BY DEF AuditTypeOK, Logging, NotLogging, Flying

LEMMA ReadLatestKeeps ==
  ASSUME AuditInv, NEW r \in Requests, ReadLatest(r)
  PROVE  AuditInv'
<1>1. AuditTypeOK /\ HashesFresh /\ TimesDistinct /\ ChainLinked
  BY DEF AuditInv
<1>2. PICK prev \in LatestHashes :
        logging' = [logging EXCEPT ![r] = [pc |-> "insert", hash |-> hashes + 1,
                      prev |-> prev, seen |-> {e.hash : e \in trail}]]
  BY DEF ReadLatest
<1> DEFINE call == [pc |-> "insert", hash |-> hashes + 1, prev |-> prev,
                    seen |-> {e.hash : e \in trail}]
<1>3. /\ logging[r] = NotLogging /\ hashes < MaxLogs /\ hashes' = hashes + 1
      /\ UNCHANGED <<trail, clock>>
  BY DEF ReadLatest
<1>4. /\ hashes \in 0..MaxLogs /\ hashes + 1 \in Hashes
      /\ \A e \in trail : e \in Entry
  BY <1>1, <1>3, MaxLogsNat DEF AuditTypeOK, Hashes
<1>5. prev \in Hashes \cup {NoHash}
  BY <1>4 DEF LatestHashes, Entry
<1>6. /\ call \in Logging /\ call.pc = "insert" /\ call.hash = hashes + 1
      /\ call.seen = {e.hash : e \in trail} /\ call.prev = prev /\ call # NotLogging
  BY <1>4, <1>5 DEF Logging, Entry, NotLogging
<1> HIDE DEF call
<1>7. \A q \in Requests : logging'[q] = IF q = r THEN call ELSE logging[q]
  BY <1>1, <1>2 DEF AuditTypeOK, call
<1>8. AuditTypeOK'
  <2>1. logging' \in [Requests -> Logging]
    BY <1>1, <1>2, <1>6 DEF AuditTypeOK, call
  <2> QED BY <1>1, <1>3, <1>4, <2>1, MaxLogsNat DEF AuditTypeOK
<1>9. HashesFresh'
  <2>1. \A e \in trail : e.hash \in Nat /\ e.hash <= hashes
    BY <1>1, <1>4, MaxLogsNat DEF HashesFresh, Entry, Hashes
  <2>2. \A q \in Requests :
          Flying(q) => logging[q].hash \in Nat /\ logging[q].hash <= hashes
    BY <1>1, MaxLogsNat
       DEF HashesFresh, AuditTypeOK, Logging, Flying, Hashes
  <2>3. ~OnTrail(hashes + 1)
    BY <1>4, <2>1 DEF OnTrail
  <2> QED BY <1>1, <1>3, <1>4, <1>6, <1>7, <2>1, <2>2, <2>3
          DEF HashesFresh, Flying, OnTrail
<1>10. TimesDistinct'
  BY <1>1, <1>3, <1>6, <1>7 DEF TimesDistinct, Committing
<1>11. Linked(call)
  <2>1. \A hash \in call.seen : OnTrail(hash)
    BY <1>6 DEF OnTrail
  <2>2. CASE trail = {}
    BY <1>6, <2>1, <2>2 DEF Linked
  <2>3. CASE trail # {}
    <3>1. PICK g \in trail : IsLatest(g) /\ prev = g.hash
      BY <2>3 DEF LatestHashes
    <3> QED BY <1>6, <2>1, <3>1 DEF Linked, IsLatest
  <2> QED BY <2>2, <2>3
<1>12. ChainLinked'
  <2>1. \A q \in Requests : Flying(q)' => Linked(logging'[q])
    BY <1>1, <1>7, <1>11 DEF ChainLinked, Flying
  <2>2. \A q \in Requests : Committing(q)' => SeenIsOlder(logging'[q])
    BY <1>1, <1>6, <1>7 DEF ChainLinked, Committing
  <2> QED BY <1>1, <1>3, <2>1, <2>2 DEF ChainLinked, Linked, SeenIsOlder, OnTrail
<1> QED BY <1>8, <1>9, <1>10, <1>12 DEF AuditInv

\* The time of a new row is later than that of every row there is.
LEMMA BeginInsertKeeps ==
  ASSUME AuditInv, NEW r \in Requests, BeginInsert(r)
  PROVE  AuditInv'
<1> DEFINE call == [pc |-> "commit", hash |-> logging[r].hash,
                    prev |-> logging[r].prev, seen |-> logging[r].seen,
                    at |-> clock + 1]
<1>1. AuditTypeOK /\ HashesFresh /\ TimesDistinct /\ ChainLinked
  BY DEF AuditInv
<1>2. /\ logging[r].pc = "insert" /\ clock < MaxLogs /\ clock' = clock + 1
      /\ logging' = [logging EXCEPT ![r] = call] /\ UNCHANGED <<trail, hashes>>
  BY DEF BeginInsert
<1>3. clock \in 0..MaxLogs /\ clock + 1 \in 1..MaxLogs
      /\ \A e \in trail : e.at \in Nat
  BY <1>1, <1>2, MaxLogsNat DEF AuditTypeOK, Entry
<1>4. /\ call \in Logging /\ call.pc = "commit" /\ call.hash = logging[r].hash
      /\ call.prev = logging[r].prev /\ call.seen = logging[r].seen
      /\ call.at = clock + 1 /\ call # NotLogging /\ Flying(r)
  BY <1>1, <1>2, <1>3, CallFacts DEF Logging, NotLogging
<1> HIDE DEF call
<1>5. \A q \in Requests : logging'[q] = IF q = r THEN call ELSE logging[q]
  BY <1>1, <1>2 DEF AuditTypeOK
<1>6. AuditTypeOK'
  <2>1. logging' \in [Requests -> Logging]
    BY <1>1, <1>2, <1>4 DEF AuditTypeOK
  <2> QED BY <1>1, <1>2, <1>3, <2>1, MaxLogsNat DEF AuditTypeOK
<1>7. HashesFresh'
  BY <1>1, <1>2, <1>4, <1>5 DEF HashesFresh, Flying, OnTrail
<1>8. TimesDistinct'
  <2>1. \A e \in trail : e.at <= clock
    BY <1>1 DEF TimesDistinct
  <2>2. \A q \in Requests :
          Committing(q) => logging[q].at <= clock /\ logging[q].at \in Nat
    BY <1>1, CallFacts DEF TimesDistinct, Committing
  <2> QED BY <1>1, <1>2, <1>3, <1>4, <1>5, <2>1, <2>2
          DEF TimesDistinct, Committing
<1>9. ChainLinked'
  <2>1. Linked(call)
    BY <1>1, <1>4 DEF ChainLinked, Linked
  <2>2. SeenIsOlder(call)
    BY <1>1, <1>3, <1>4 DEF SeenIsOlder, TimesDistinct
  <2>3. \A q \in Requests : Flying(q)' => Linked(logging'[q])
    BY <1>1, <1>5, <2>1 DEF ChainLinked, Flying
  <2>4. \A q \in Requests : Committing(q)' => SeenIsOlder(logging'[q])
    BY <1>1, <1>5, <2>2 DEF ChainLinked, Committing
  <2> QED BY <1>1, <1>2, <2>3, <2>4 DEF ChainLinked, Linked, SeenIsOlder, OnTrail
<1> QED BY <1>6, <1>7, <1>8, <1>9 DEF AuditInv

\* A row that nobody has seen joins the trail: no call or row links past it.
LEMMA CommitInsertKeeps ==
  ASSUME AuditInv, NEW r \in Requests, CommitInsert(r)
  PROVE  AuditInv'
<1> DEFINE row == [hash |-> logging[r].hash, prev |-> logging[r].prev,
                   seen |-> logging[r].seen, at |-> logging[r].at]
<1>1. AuditTypeOK /\ HashesFresh /\ TimesDistinct /\ ChainLinked
  BY DEF AuditInv
<1>2. /\ Committing(r) /\ trail' = trail \cup {row}
      /\ logging' = [logging EXCEPT ![r] = NotLogging] /\ UNCHANGED <<hashes, clock>>
  BY DEF CommitInsert, Committing
<1>3. /\ row \in Entry /\ row.hash = logging[r].hash /\ row.prev = logging[r].prev
      /\ row.seen = logging[r].seen /\ row.at = logging[r].at /\ Flying(r)
  BY <1>1, <1>2, CallFacts DEF Entry, Committing
<1> HIDE DEF row
<1>4. \A q \in Requests : logging'[q] = IF q = r THEN NotLogging ELSE logging[q]
  BY <1>1, <1>2 DEF AuditTypeOK
<1>5. NotLogging \in Logging /\ NotLogging.pc = "idle"
  BY DEF Logging, NotLogging
<1>6. AuditTypeOK'
  BY <1>1, <1>2, <1>3, <1>5 DEF AuditTypeOK
<1>7. HashesFresh'
  BY <1>1, <1>2, <1>3, <1>4 DEF HashesFresh, Flying, OnTrail
<1>8. TimesDistinct'
  BY <1>1, <1>2, <1>3, <1>4, <1>5 DEF TimesDistinct, Committing
<1>9. ~OnTrail(row.hash)
  BY <1>1, <1>3 DEF HashesFresh
<1>10. ASSUME NEW x, Linked(x)
       PROVE  Linked(x)'
  <2>1. row.hash \notin x.seen
    BY <1>9, <1>10 DEF Linked
  <2> QED BY <1>2, <1>10, <2>1 DEF Linked, OnTrail
<1>11. ASSUME NEW x, Linked(x), SeenIsOlder(x)
       PROVE  SeenIsOlder(x)'
  <2>1. row.hash \notin x.seen
    BY <1>9, <1>11 DEF Linked
  <2> QED BY <1>2, <1>11, <2>1 DEF SeenIsOlder
<1>12. ChainLinked'
  <2>1. Linked(row) /\ SeenIsOlder(row)
    BY <1>1, <1>2, <1>3 DEF ChainLinked, Linked, SeenIsOlder
  <2>2. \A e \in trail' : Linked(e)' /\ SeenIsOlder(e)'
    BY <1>1, <1>2, <1>10, <1>11, <2>1 DEF ChainLinked
  <2>3. ASSUME NEW q \in Requests, Flying(q)'
        PROVE  Linked(logging[q])'
    <3>1. logging'[q] = logging[q] /\ Linked(logging[q])
      BY <1>1, <1>4, <2>3 DEF ChainLinked, Flying
    <3> QED BY <1>10, <3>1
  <2>4. ASSUME NEW q \in Requests, Committing(q)'
        PROVE  SeenIsOlder(logging[q])'
    <3>1. logging'[q] = logging[q] /\ Linked(logging[q]) /\ SeenIsOlder(logging[q])
      BY <1>1, <1>4, <1>5, <2>4, CallFacts DEF ChainLinked, Committing
    <3> QED BY <1>11, <3>1
  <2> QED BY <2>2, <2>3, <2>4 DEF ChainLinked
<1> QED BY <1>6, <1>7, <1>8, <1>12 DEF AuditInv

LEMMA LogFailsKeeps ==
  ASSUME AuditInv, NEW r \in Requests, LogFails(r)
  PROVE  AuditInv'
<1>1. AuditTypeOK /\ HashesFresh /\ TimesDistinct /\ ChainLinked
  BY DEF AuditInv
<1>2. /\ logging' = [logging EXCEPT ![r] = NotLogging]
      /\ UNCHANGED <<trail, hashes, clock>>
  BY DEF LogFails
<1>3. NotLogging \in Logging /\ NotLogging.pc = "idle"
  BY DEF Logging, NotLogging
<1>4. \A q \in Requests : logging'[q] = IF q = r THEN NotLogging ELSE logging[q]
  BY <1>1, <1>2 DEF AuditTypeOK
<1>5. AuditTypeOK' /\ HashesFresh'
  BY <1>1, <1>2, <1>3, <1>4 DEF AuditTypeOK, HashesFresh, Flying, OnTrail
<1>6. TimesDistinct'
  BY <1>1, <1>2, <1>3, <1>4 DEF TimesDistinct, Committing
<1>7. ChainLinked'
  <2>1. \A q \in Requests : Flying(q)' => Linked(logging'[q])
    BY <1>1, <1>4 DEF ChainLinked, Flying
  <2>2. \A q \in Requests : Committing(q)' => SeenIsOlder(logging'[q])
    BY <1>1, <1>3, <1>4 DEF ChainLinked, Committing
  <2> QED BY <1>1, <1>2, <2>1, <2>2 DEF ChainLinked, Linked, SeenIsOlder, OnTrail
<1> QED BY <1>5, <1>6, <1>7 DEF AuditInv

LEMMA AuditUnchanged == AuditInv /\ UNCHANGED auditVars => AuditInv'
BY DEF AuditInv, auditVars, AuditTypeOK, HashesFresh, TimesDistinct, ChainLinked,
       Flying, Committing, OnTrail, Linked, SeenIsOlder

LEMMA AuditInvKept ==
  ASSUME AuditInv, AuditNext
  PROVE  AuditInv'
BY ReadLatestKeeps, BeginInsertKeeps, CommitInsertKeeps, LogFailsKeeps
   DEF AuditNext

LEMMA AuditInvariance == AuditSpec => []AuditInv
BY AuditUnchanged, AuditInvKept, AuditInitInv, PTL DEF AuditSpec

\* A row that had seen the row before it carries its hash: no later row it could
\* have seen lies between, and the times are distinct.
LEMMA SeenRowsLink ==
  ASSUME AuditInv
  PROVE  BreaksAreOverlaps
<1> SUFFICES ASSUME NEW e \in trail, NEW f \in trail, Follows(f, e),
                    e.hash \in f.seen
             PROVE  f.prev = e.hash
  BY DEF BreaksAreOverlaps, Breaks
<1>1. PICK g \in trail :
        /\ g.hash = f.prev /\ g.hash \in f.seen
        /\ \A h \in trail : h.hash \in f.seen => h.at <= g.at
  BY DEF AuditInv, ChainLinked, Linked
<1>2. e.at <= g.at /\ g.at < f.at
  BY <1>1 DEF AuditInv, ChainLinked, SeenIsOlder
<1>3. e.at \in Nat /\ f.at \in Nat /\ g.at \in Nat
  BY MaxLogsNat DEF AuditInv, AuditTypeOK, Entry
<1>4. g.at = e.at
  BY <1>2, <1>3 DEF Follows
<1> QED BY <1>1, <1>4 DEF AuditInv, TimesDistinct

\* For any number of concurrent calls of log, a break that verifyChain reports
\* is the overlap of two of them.
THEOREM ChainBreaksExplained == AuditSpec => []BreaksAreOverlaps
BY AuditInvariance, SeenRowsLink, PTL

(*---------------------- The trail as an append-only chain --------------------*)

\* The hash of the latest of the rows t.
TipOf(t) ==
  IF t = {} THEN NoHash ELSE (CHOOSE e \in t : \A f \in t : f.at <= e.at).hash

Links == {[hash |-> e.hash, prev |-> e.prev] : e \in trail}

Tree == INSTANCE HashTrail
          WITH Hash <- Hashes, MayFork <- TRUE, links <- Links, tip <- TipOf(trail)

Chain == INSTANCE HashTrail
          WITH Hash <- Hashes, MayFork <- FALSE, links <- Links, tip <- TipOf(trail)

\* Some row is the latest, and what a call in flight or a row links to is on it.
TrailInv ==
  /\ AuditInv
  /\ trail # {} => \E e \in trail : IsLatest(e)
  /\ \A r \in Requests :
       Flying(r) => logging[r].prev = NoHash \/ OnTrail(logging[r].prev)
  /\ \A e \in trail : e.prev = NoHash \/ OnTrail(e.prev)

LEMMA TipOfLatest ==
  ASSUME NEW t, \A e \in t : e.at \in Nat, \A e, f \in t : e.at = f.at => e = f,
         NEW e \in t, \A f \in t : f.at <= e.at
  PROVE  TipOf(t) = e.hash
<1> DEFINE g == CHOOSE g \in t : \A f \in t : f.at <= g.at
<1>1. g \in t /\ \A f \in t : f.at <= g.at
  OBVIOUS
<1>2. TipOf(t) = g.hash
  BY DEF TipOf
<1> HIDE DEF g
<1>3. g.at = e.at
  BY <1>1
<1> QED BY <1>1, <1>2, <1>3

LEMMA TipOfEmpty == TipOf({}) = NoHash
BY DEF TipOf

\* The row of r joins the trail: it has a hash and a time of its own, and is the
\* latest row unless an older call was slower.
LEMMA CommitFacts ==
  ASSUME TrailInv, NEW r \in Requests, CommitInsert(r)
  PROVE  \E row \in Entry :
           /\ trail' = trail \cup {row}
           /\ row.hash = logging[r].hash /\ row.prev = logging[r].prev
           /\ row.at = logging[r].at /\ ~OnTrail(row.hash)
           /\ Flying(r) /\ Committing(r)
           /\ \A e \in trail : e.at # row.at
           /\ \A e \in trail' : e.at \in Nat /\ e.at \in 1..MaxLogs
           /\ \A e, f \in trail' : e.at = f.at => e = f
<1> DEFINE row == [hash |-> logging[r].hash, prev |-> logging[r].prev,
                   seen |-> logging[r].seen, at |-> logging[r].at]
<1>1. AuditTypeOK /\ HashesFresh /\ TimesDistinct
  BY DEF TrailInv, AuditInv
<1>2. Committing(r) /\ trail' = trail \cup {row}
  BY DEF CommitInsert, Committing
<1>3. /\ row \in Entry /\ row.hash = logging[r].hash /\ row.prev = logging[r].prev
      /\ row.at = logging[r].at /\ Flying(r)
  BY <1>1, <1>2, CallFacts DEF Entry, Committing
<1> HIDE DEF row
<1>4. ~OnTrail(row.hash) /\ \A e \in trail : e.at # row.at
  BY <1>1, <1>2, <1>3 DEF HashesFresh, TimesDistinct
<1>5. /\ \A e \in trail' : e.at \in Nat /\ e.at \in 1..MaxLogs
      /\ \A e, f \in trail' : e.at = f.at => e = f
  BY <1>1, <1>2, <1>3, <1>4, MaxLogsNat DEF AuditTypeOK, TimesDistinct, Entry
<1> QED BY <1>2, <1>3, <1>4, <1>5

LEMMA TrailInvKept ==
  ASSUME TrailInv, AuditNext
  PROVE  TrailInv'
<1>1. AuditInv' /\ AuditTypeOK /\ TimesDistinct
  BY AuditInvKept DEF TrailInv, AuditInv
<1>2. ASSUME NEW r \in Requests, CommitInsert(r)
      PROVE  TrailInv'
  <2>1. PICK row \in Entry :
           /\ trail' = trail \cup {row}
           /\ row.hash = logging[r].hash /\ row.prev = logging[r].prev
           /\ Flying(r) /\ \A e \in trail' : e.at \in Nat
    BY <1>2, CommitFacts
  <2>2. \A hash : OnTrail(hash) => OnTrail(hash)'
    BY <2>1 DEF OnTrail
  <2>3. \E e \in trail' : IsLatest(e)'
    <3>1. CASE trail = {}
      BY <2>1, <3>1 DEF IsLatest
    <3>2. CASE trail # {}
      <4>1. PICK g \in trail : \A f \in trail : f.at <= g.at
        BY <3>2 DEF TrailInv, IsLatest
      <4>2. CASE row.at <= g.at
        BY <2>1, <4>1, <4>2 DEF IsLatest
      <4>3. CASE ~(row.at <= g.at)
        <5>1. g.at <= row.at /\ row.at <= row.at
          BY <2>1, <4>3
        <5>2. \A f \in trail' : f.at <= row.at
          BY <2>1, <4>1, <5>1
        <5> QED BY <2>1, <5>2 DEF IsLatest
      <4> QED BY <4>2, <4>3
    <3> QED BY <3>1, <3>2
  <2>4. \A q \in Requests : Flying(q)' => Flying(q) /\ logging'[q] = logging[q]
    BY <1>1, <1>2 DEF CommitInsert, Flying, AuditTypeOK
  <2>5. \A q \in Requests :
          Flying(q)' => logging'[q].prev = NoHash \/ OnTrail(logging[q].prev)'
    BY <2>2, <2>4 DEF TrailInv
  <2>6. \A e \in trail' : e.prev = NoHash \/ OnTrail(e.prev)'
    BY <2>1, <2>2 DEF TrailInv
  <2> QED BY <1>1, <2>3, <2>5, <2>6 DEF TrailInv, OnTrail
<1>3. ASSUME NEW r \in Requests, ReadLatest(r) \/ BeginInsert(r) \/ LogFails(r)
      PROVE  TrailInv'
  <2>1. trail' = trail
    BY <1>3 DEF ReadLatest, BeginInsert, LogFails
  <2>2. \A q \in Requests : q # r => logging'[q] = logging[q]
    BY <1>1, <1>3 DEF ReadLatest, BeginInsert, LogFails, AuditTypeOK
  <2>3. Flying(r)' => logging'[r].prev = NoHash \/ OnTrail(logging'[r].prev)
    <3>1. CASE ReadLatest(r)
      <4>1. logging'[r].prev \in LatestHashes
        BY <1>1, <3>1 DEF ReadLatest, AuditTypeOK
      <4> QED BY <4>1 DEF LatestHashes, OnTrail
    <3>2. CASE BeginInsert(r)
      <4>1. logging'[r].prev = logging[r].prev /\ Flying(r)
        BY <1>1, <3>2 DEF BeginInsert, AuditTypeOK, Flying, NotLogging
      <4> QED BY <4>1 DEF TrailInv
    <3>3. CASE LogFails(r)
      BY <1>1, <3>3 DEF LogFails, AuditTypeOK, Flying
    <3> QED BY <1>3, <3>1, <3>2, <3>3
  <2> QED BY <1>1, <2>1, <2>2, <2>3 DEF TrailInv, IsLatest, Flying, OnTrail
<1> QED BY <1>2, <1>3 DEF AuditNext

LEMMA TrailInvariance == AuditSpec => []TrailInv
<1>1. AuditInit => TrailInv
  BY AuditInitInv DEF TrailInv, AuditInit, Flying
<1>2. TrailInv /\ UNCHANGED auditVars => TrailInv'
  BY AuditUnchanged DEF TrailInv, auditVars, IsLatest, Flying, OnTrail
<1> QED BY <1>1, <1>2, TrailInvKept, PTL DEF AuditSpec

\* A commit adds one link, of a new hash; nothing else touches the trail.
LEMMA LinksGrow ==
  ASSUME TrailInv, NEW row \in Entry, trail' = trail \cup {row}, ~OnTrail(row.hash)
  PROVE  /\ Links' = Links \cup {[hash |-> row.hash, prev |-> row.prev]}
         /\ row.hash \in Hashes \ {link.hash : link \in Links}
         /\ row.prev \in Hashes \cup {NoHash}
         /\ OnTrail(row.prev) => row.prev \in {link.hash : link \in Links}
<1>1. ASSUME NEW hash
      PROVE  hash \in {link.hash : link \in Links} <=> OnTrail(hash)
  <2> DEFINE link(e) == [hash |-> e.hash, prev |-> e.prev]
  <2>1. \A e \in trail : link(e).hash = e.hash /\ link(e) \in Links
    BY DEF Links
  <2>2. \A x \in Links : \E e \in trail : x.hash = e.hash
    BY DEF Links
  <2> QED BY <2>1, <2>2 DEF OnTrail
<1>2. Links' = Links \cup {[hash |-> row.hash, prev |-> row.prev]}
  BY DEF Links
<1> QED BY <1>1, <1>2 DEF Entry

\* Calls that overlap as they like leave a trail that only grows, in which every
\* row names a row that was there, or none: a tree, with verifyChain's breaks
\* where it forks.
THEOREM TrailIsTree == AuditSpec => Tree!Spec
<1>1. AuditInit => Tree!Init
  BY TipOfEmpty DEF AuditInit, Tree!Init, Links
<1>2. ASSUME TrailInv, [AuditNext]_auditVars
      PROVE  [Tree!Next]_(Tree!trailVars)
  <2>1. ASSUME NEW r \in Requests, CommitInsert(r)
        PROVE  Tree!Next
    <3>1. PICK row \in Entry :
             /\ trail' = trail \cup {row} /\ row.prev = logging[r].prev
             /\ ~OnTrail(row.hash) /\ Flying(r)
             /\ \A e \in trail' : e.at \in Nat
             /\ \A e, f \in trail' : e.at = f.at => e = f
      BY <1>2, <2>1, CommitFacts
    <3>2. /\ Links' = Links \cup {[hash |-> row.hash, prev |-> row.prev]}
          /\ row.hash \in Hashes \ {link.hash : link \in Links}
          /\ row.prev \in Hashes \cup {NoHash}
          /\ OnTrail(row.prev) => row.prev \in {link.hash : link \in Links}
      BY <1>2, <3>1, LinksGrow
    <3>3. row.prev \in {link.hash : link \in Links} \cup {NoHash}
      BY <1>2, <3>1, <3>2 DEF TrailInv
    <3>4. PICK t, next : t = trail /\ next = trail'
      OBVIOUS
    <3>5. TipOf(next) = row.hash \/ (TipOf(next) = TipOf(t) /\ t # {})
      <4>1. PICK last \in next : \A f \in next : f.at <= last.at
        BY <1>2, <2>1, <3>4, TrailInvKept, <3>1 DEF TrailInv, IsLatest, AuditNext
      <4>2. TipOf(next) = last.hash
        BY <3>1, <3>4, <4>1, TipOfLatest
      <4>3. CASE last = row
        BY <4>2, <4>3
      <4>4. CASE last # row
        <5>1. last \in t /\ \A f \in t : f.at <= last.at
          BY <3>1, <3>4, <4>1, <4>4
        <5>2. TipOf(t) = last.hash
          BY <3>1, <3>4, <5>1, TipOfLatest
        <5> QED BY <4>2, <5>1, <5>2
      <4> QED BY <4>3, <4>4
    <3>6. TipOf(trail)' = row.hash \/ (TipOf(trail)' = TipOf(trail) /\ Links # {})
      <4>1. t # {} => Links # {}
        BY <3>4 DEF Links
      <4> QED BY <3>4, <3>5, <4>1
    <3>7. Tree!Extend(row.hash, row.prev)
      BY <3>2, <3>3, <3>6 DEF Tree!Extend, Tree!Recorded
    <3> QED BY <3>2, <3>7 DEF Tree!Next
  <2>2. ASSUME UNCHANGED trail
        PROVE  UNCHANGED Tree!trailVars
    BY <2>2 DEF Tree!trailVars, Links, TipOf
  <2> QED BY <1>2, <2>1, <2>2
          DEF AuditNext, auditVars, ReadLatest, BeginInsert, LogFails
<1> QED BY <1>1, <1>2, TrailInvariance, PTL DEF AuditSpec, Tree!Spec

\* Calls of log that never overlap: there is one of them at a time.
OneLogCall == \E r : Requests = {r}

\* The call in flight links to the tip, and will be later than every row.
LoneCallAtTip ==
  \A r \in Requests :
    /\ Flying(r) => logging[r].prev = TipOf(trail)
    /\ Committing(r) => \A e \in trail : e.at < logging[r].at

LEMMA LoneCallKept ==
  ASSUME OneLogCall, TrailInv, LoneCallAtTip, AuditNext
  PROVE  LoneCallAtTip'
<1>1. PICK r : Requests = {r}
  BY DEF OneLogCall
<1>2. /\ AuditTypeOK /\ TimesDistinct
      /\ \A e \in trail : e.at \in Nat /\ e.hash \in Hashes
  BY MaxLogsNat DEF TrailInv, AuditInv, AuditTypeOK, Entry
<1>3. CASE ReadLatest(r)
  <2>1. PICK prev \in LatestHashes :
          logging'[r].prev = prev /\ logging'[r].pc = "insert" /\ trail' = trail
    BY <1>1, <1>2, <1>3 DEF ReadLatest, AuditTypeOK
  <2>2. prev = TipOf(trail)
    <3>1. CASE trail = {}
      BY <2>1, <3>1, TipOfEmpty DEF LatestHashes
    <3>2. CASE trail # {}
      <4>1. PICK e \in trail : prev = e.hash /\ \A f \in trail : f.at <= e.at
        BY <2>1, <3>2 DEF LatestHashes, IsLatest
      <4>2. PICK t : t = trail
        OBVIOUS
      <4>3. TipOf(t) = e.hash
        BY <1>2, <4>1, <4>2, TipOfLatest DEF TimesDistinct
      <4> QED BY <4>1, <4>2, <4>3
    <3> QED BY <3>1, <3>2
  <2>3. TipOf(trail)' = TipOf(trail)
    BY <2>1 DEF TipOf
  <2> QED BY <1>1, <2>1, <2>2, <2>3 DEF LoneCallAtTip, Committing
<1>4. CASE BeginInsert(r)
  <2>1. /\ Flying(r) /\ trail' = trail /\ clock \in Nat
        /\ logging'[r].prev = logging[r].prev /\ logging'[r].at = clock + 1
    BY <1>1, <1>2, <1>4 DEF BeginInsert, AuditTypeOK, Flying, NotLogging
  <2>2. TipOf(trail)' = TipOf(trail)
    BY <2>1 DEF TipOf
  <2>3. \A e \in trail : e.at < clock + 1
    BY <1>2, <2>1 DEF TimesDistinct
  <2> QED BY <1>1, <2>1, <2>2, <2>3 DEF LoneCallAtTip
<1>5. CASE CommitInsert(r) \/ LogFails(r)
  <2>1. logging'[r] = NotLogging
    BY <1>1, <1>2, <1>5 DEF CommitInsert, LogFails, AuditTypeOK
  <2> QED BY <1>1, <2>1 DEF LoneCallAtTip, Flying, Committing, NotLogging
<1> QED BY <1>1, <1>3, <1>4, <1>5 DEF AuditNext

\* Without overlapping calls the trail is one chain: each row names the one before
\* it, and verifyChain finds nothing.
THEOREM TrailIsChain ==
  ASSUME OneLogCall
  PROVE  AuditSpec => Chain!Spec
<1>1. AuditInit => Chain!Init /\ LoneCallAtTip
  BY TipOfEmpty
  DEF AuditInit, Chain!Init, Links, LoneCallAtTip, Flying, Committing, NotLogging
<1>2. LoneCallAtTip /\ UNCHANGED auditVars => LoneCallAtTip'
  BY DEF LoneCallAtTip, auditVars, Flying, Committing, TipOf
<1>3. ASSUME TrailInv, LoneCallAtTip, [AuditNext]_auditVars
      PROVE  [Chain!Next]_(Chain!trailVars)
  <2>1. ASSUME NEW r \in Requests, CommitInsert(r)
        PROVE  Chain!Next
    <3>1. PICK row \in Entry :
             /\ trail' = trail \cup {row} /\ row.prev = logging[r].prev
             /\ row.at = logging[r].at
             /\ ~OnTrail(row.hash) /\ Flying(r) /\ Committing(r)
             /\ \A e \in trail' : e.at \in Nat
             /\ \A e, f \in trail' : e.at = f.at => e = f
      BY <1>3, <2>1, CommitFacts
    <3>2. /\ Links' = Links \cup {[hash |-> row.hash, prev |-> row.prev]}
          /\ row.hash \in Hashes \ {link.hash : link \in Links}
          /\ row.prev \in Hashes \cup {NoHash}
      BY <1>3, <3>1, LinksGrow
    <3>3. row.prev = TipOf(trail) /\ \A e \in trail : e.at < row.at
      BY <1>3, <3>1 DEF LoneCallAtTip
    <3>4. PICK next : next = trail'
      OBVIOUS
    <3>5. TipOf(next) = row.hash
      <4>1. row \in next /\ \A f \in next : f.at <= row.at
        BY <3>1, <3>3, <3>4
      <4> QED BY <3>1, <3>4, <4>1, TipOfLatest
    <3>6. TipOf(trail)' = row.hash
      BY <3>4, <3>5
    <3>7. Chain!Extend(row.hash, row.prev)
      BY <3>2, <3>3, <3>6 DEF Chain!Extend, Chain!Recorded
    <3> QED BY <3>2, <3>7 DEF Chain!Next
  <2>2. ASSUME UNCHANGED trail
        PROVE  UNCHANGED Chain!trailVars
    BY <2>2 DEF Chain!trailVars, Links, TipOf
  <2> QED BY <1>3, <2>1, <2>2
          DEF AuditNext, auditVars, ReadLatest, BeginInsert, LogFails
<1> QED BY <1>1, <1>2, <1>3, TrailInvariance, LoneCallKept, PTL
        DEF AuditSpec, Chain!Spec

\* What the chain promises, from the contract alone: its tip is an entry that no
\* other names, and every entry names another one or is the first.
ChainWhole ==
  /\ Chain!OneChain /\ Chain!Grounded
  /\ Chain!Recorded \subseteq Hashes
  /\ TipOf(trail) \in Chain!Recorded \cup {NoHash}

LEMMA ChainWholeKept ==
  ASSUME ChainWhole, Chain!Next
  PROVE  ChainWhole'
<1>1. PICK h \in Hashes \ Chain!Recorded :
        /\ Links' = Links \cup {[hash |-> h, prev |-> TipOf(trail)]}
        /\ TipOf(trail)' = h
  BY DEF Chain!Next, Chain!Extend
<1> DEFINE new == [hash |-> h, prev |-> TipOf(trail)]
<1>2. /\ Links' = Links \cup {new} /\ new.hash = h /\ new.prev = TipOf(trail)
      /\ h # NoHash /\ h \in Hashes
  BY <1>1, MaxLogsNat DEF Hashes, NoHash
<1>3. Chain!Recorded' = Chain!Recorded \cup {h}
  BY <1>2 DEF Chain!Recorded
<1> HIDE DEF new
<1>4. Chain!Grounded' /\ (Chain!Recorded \subseteq Hashes)'
  BY <1>2, <1>3 DEF ChainWhole, Chain!Grounded
<1>5. \A link \in Links : link.prev # h /\ link.prev # TipOf(trail)
  BY <1>1, <1>2 DEF ChainWhole, Chain!Grounded, Chain!OneChain
<1>6. new.prev # h
  BY <1>1, <1>2 DEF ChainWhole
<1>7. Chain!OneChain'
  <2>1. \A link \in Links' : link \in Links \/ link = new
    BY <1>2
  <2>2. \A a, b \in Links : a.prev = b.prev => a = b
    BY DEF ChainWhole, Chain!OneChain
  <2>3. \A a, b \in Links' : a.prev = b.prev => a = b
    BY <1>2, <1>5, <2>1, <2>2
  <2>4. \A link \in Links' : link.prev # h
    BY <1>5, <1>6, <2>1
  <2> QED BY <1>1, <2>3, <2>4 DEF Chain!OneChain
<1> QED BY <1>1, <1>3, <1>4, <1>7 DEF ChainWhole

\* So no two rows name the same one, none names the latest, and each names a row
\* that is still there: with one call of log at a time nothing forks or vanishes.
THEOREM TrailHasNoForks ==
  ASSUME OneLogCall
  PROVE  AuditSpec => [](Chain!OneChain /\ Chain!Grounded)
<1>1. Chain!Init => ChainWhole
  BY DEF Chain!Init, ChainWhole, Chain!OneChain, Chain!Grounded, Chain!Recorded
<1>2. ChainWhole /\ UNCHANGED Chain!trailVars => ChainWhole'
  BY DEF ChainWhole, Chain!trailVars, Chain!OneChain, Chain!Grounded, Chain!Recorded
<1>3. ChainWhole => Chain!OneChain /\ Chain!Grounded
  BY DEF ChainWhole
<1> QED BY <1>1, <1>2, <1>3, TrailIsChain, ChainWholeKept, PTL DEF Chain!Spec

\* It has seen every row, and so had each row when it was written.
AllSeen ==
  /\ \A r \in Requests :
       Flying(r) => \A e \in trail : e.hash \in logging[r].seen
  /\ \A e, f \in trail : e.at < f.at => e.hash \in f.seen

LEMMA AllSeenKept ==
  ASSUME OneLogCall, TrailInv, LoneCallAtTip, AllSeen, AuditNext
  PROVE  AllSeen'
<1>1. PICK r : Requests = {r}
  BY DEF OneLogCall
<1>2. AuditTypeOK /\ \A e \in trail : e.at \in Nat
  BY MaxLogsNat DEF TrailInv, AuditInv, AuditTypeOK, Entry
<1>3. CASE ReadLatest(r)
  <2>1. logging'[r].seen = {e.hash : e \in trail} /\ trail' = trail
    BY <1>1, <1>2, <1>3 DEF ReadLatest, AuditTypeOK
  <2> QED BY <1>1, <2>1 DEF AllSeen
<1>4. CASE BeginInsert(r)
  <2>1. Flying(r) /\ trail' = trail /\ logging'[r].seen = logging[r].seen
    BY <1>1, <1>2, <1>4 DEF BeginInsert, AuditTypeOK, Flying, NotLogging
  <2> QED BY <1>1, <2>1 DEF AllSeen
<1>5. CASE CommitInsert(r)
  <2> DEFINE row == [hash |-> logging[r].hash, prev |-> logging[r].prev,
                     seen |-> logging[r].seen, at |-> logging[r].at]
  <2>1. /\ trail' = trail \cup {row} /\ logging'[r] = NotLogging
        /\ Flying(r) /\ Committing(r) /\ logging[r].at \in Nat
    BY <1>1, <1>2, <1>5, CallFacts, MaxLogsNat
    DEF CommitInsert, AuditTypeOK, Committing
  <2>2. /\ \A e \in trail : e.hash \in row.seen /\ e.at < row.at
        /\ row.at \in Nat
    BY <1>1, <2>1 DEF AllSeen, LoneCallAtTip
  <2> HIDE DEF row
  <2>3. \A e \in trail' : e = row \/ e \in trail
    BY <2>1
  <2>4. \A e, f \in trail' : e.at < f.at => e.hash \in f.seen
    BY <1>2, <2>2, <2>3 DEF AllSeen
  <2> QED BY <1>1, <2>1, <2>4 DEF AllSeen, Flying
<1>6. CASE LogFails(r)
  <2>1. logging'[r] = NotLogging /\ trail' = trail
    BY <1>1, <1>2, <1>6 DEF LogFails, AuditTypeOK
  <2> QED BY <1>1, <2>1 DEF AllSeen, Flying
<1> QED BY <1>1, <1>3, <1>4, <1>5, <1>6 DEF AuditNext

\* verifyChain's own walk over the rows reports nothing while calls of log do not
\* overlap, whatever else failed.
THEOREM ChainVerifies ==
  ASSUME OneLogCall
  PROVE  AuditSpec => []VerifyChain
<1> DEFINE Inv == LoneCallAtTip /\ AllSeen
<1>1. AuditInit => Inv
  BY DEF AuditInit, LoneCallAtTip, AllSeen, Flying, Committing, NotLogging
<1>2. Inv /\ UNCHANGED auditVars => Inv'
  BY DEF LoneCallAtTip, AllSeen, auditVars, Flying, Committing, TipOf
<1>3. TrailInv /\ Inv /\ AuditNext => Inv'
  BY LoneCallKept, AllSeenKept
<1>4. ASSUME TrailInv, AllSeen
      PROVE  VerifyChain
  <2>1. BreaksAreOverlaps
    BY <1>4, SeenRowsLink DEF TrailInv
  <2> QED BY <1>4, <2>1 DEF AllSeen, VerifyChain, BreaksAreOverlaps, Breaks, Follows
<1> QED BY <1>1, <1>2, <1>3, <1>4, TrailInvariance, PTL DEF AuditSpec

(*-------------------------------- Notification -------------------------------*)

Live == {"new", "waiting", "active"}

\* Only an active job has a holder, and only an unfinished one attempts left; a
\* stall can add one to them.
JobFits(job) ==
  /\ job.attempts <= MaxAttempts + job.stalls
  /\ job.holder # NoWorker => job.state = "active"
  /\ job.state \in Live => job.attempts < MaxAttempts + job.stalls

\* What the worker w read of its job is not newer than the job: a worker that
\* lost the lock of a job still to be done took it before the stall.
RunFits(w, run, job) ==
  /\ run.attempts < MaxAttempts + job.stalls
  /\ job.state \in Live /\ run.pc = "deliver" /\ job.holder # w
       => job.stalls > 0 /\ run.attempts + 1 < MaxAttempts + job.stalls
  /\ job.stalls = 0 /\ job.holder = w => run.attempts = job.attempts

QueueInv ==
  /\ jobs \in [Jobs -> JobState]
  /\ workers \in [Workers -> WorkerState]
  /\ \A j \in Jobs : JobFits(jobs[j])
  /\ \A w \in Workers :
       workers[w] # Free => RunFits(w, workers[w], jobs[workers[w].job])

\* Workers that have taken j and have not handed its message out yet.
Delivering(j) ==
  {w \in Workers : workers[w].pc = "deliver" /\ workers[w].job = j}

\* The delivery that a job still to be taken may lead to.
Pending(j) == IF jobs[j].state \in {"new", "waiting"} THEN 1 ELSE 0

Spent(j) == delivered[j] + Cardinality(Delivering(j)) + Pending(j)

\* The deliveries made, under way and to come stay within one for each time that
\* the job is handed out.
WithinBudget ==
  /\ delivered \in [Jobs -> 0..MaxStalls + 1]
  /\ \A j \in Jobs : Spent(j) <= 1 + jobs[j].stalls

NotificationInv == QueueInv /\ WithinBudget

(*------------------------------ Jobs and workers -----------------------------*)

LEMMA NotificationInitInv ==
  ASSUME NotificationInit
  PROVE  NotificationInv
<1>1. PICK channel \in ChannelChoices :
        jobs = [j \in Jobs |-> [channel |-> channel[j], state |-> "new",
                  attempts |-> 0, stalls |-> 0, holder |-> NoWorker]]
  BY DEF NotificationInit
<1>2. QueueInv
  BY <1>1, ChoicesAreChannels
     DEF NotificationInit, QueueInv, JobState, WorkerState, Free, MaxAttempts,
         MaxStalls, Attempts, JobFits
<1>3. \A j \in Jobs : Cardinality(Delivering(j)) = 0
  <2>1. \A j \in Jobs : Delivering(j) = {}
    BY DEF NotificationInit, Delivering, Free
  <2> QED BY <2>1, FS_EmptySet
<1>4. WithinBudget
  BY <1>1, <1>3 DEF NotificationInit, WithinBudget, Spent, Pending, MaxStalls
<1> QED BY <1>2, <1>4 DEF NotificationInv

\* A step touches the job k and the workers that run it.
LEMMA QueueMoves ==
  ASSUME QueueInv, NEW k \in Jobs, NEW job \in JobState,
         jobs' = [jobs EXCEPT ![k] = job], workers' \in [Workers -> WorkerState],
         JobFits(job),
         \A x \in Workers : workers'[x] # Free =>
           IF workers'[x].job = k THEN RunFits(x, workers'[x], job)
                                  ELSE workers'[x] = workers[x]
  PROVE  QueueInv'
<1>1. \A j \in Jobs : jobs'[j] = IF j = k THEN job ELSE jobs[j]
  BY DEF QueueInv
<1>2. jobs' \in [Jobs -> JobState] /\ \A j \in Jobs : JobFits(jobs'[j])
  BY <1>1 DEF QueueInv
<1>3. ASSUME NEW x \in Workers, workers'[x] # Free
      PROVE  RunFits(x, workers'[x], jobs'[workers'[x].job])
  <2>1. workers'[x].job \in Jobs
    BY <1>3 DEF WorkerState
  <2>2. CASE workers'[x].job = k
    <3>1. jobs'[workers'[x].job] = job
      BY <1>1, <2>2
    <3> QED BY <1>3, <2>2, <3>1
  <2>3. CASE workers'[x].job # k
    <3>1. workers'[x] = workers[x] /\ workers[x] # Free
      BY <1>3, <2>3
    <3>2. jobs'[workers'[x].job] = jobs[workers[x].job]
      BY <1>1, <2>1, <2>3, <3>1
    <3> QED BY <3>1, <3>2 DEF QueueInv
  <2> QED BY <2>2, <2>3
<1>4. (\A j \in Jobs : JobFits(jobs[j]))'
  BY <1>2
<1>5. (\A w \in Workers :
         workers[w] # Free => RunFits(w, workers[w], jobs[workers[w].job]))'
  BY <1>3
<1> QED BY <1>2, <1>4, <1>5 DEF QueueInv

\* A worker goes on, or dies, and the jobs stay.
LEMMA WorkerMoves ==
  ASSUME QueueInv, NEW w \in Workers, UNCHANGED jobs, workers[w] # Free,
         \/ workers' = [workers EXCEPT ![w] = Free]
         \/ workers' = [workers EXCEPT ![w].pc = "status"]
         \/ workers' = [workers EXCEPT ![w].pc = "finish"]
  PROVE  QueueInv'
<1> DEFINE k == workers[w].job
<1>1. k \in Jobs /\ jobs[k] \in JobState
  BY DEF QueueInv, WorkerState
<1>2. jobs' = [jobs EXCEPT ![k] = jobs[k]] /\ JobFits(jobs[k])
  BY <1>1 DEF QueueInv
<1>3. PICK step \in WorkerState :
        /\ workers' = [workers EXCEPT ![w] = step]
        /\ step = Free \/ /\ step.job = k /\ step.attempts = workers[w].attempts
                          /\ step.pc # "deliver"
  <2>1. CASE workers' = [workers EXCEPT ![w] = Free]
    BY <2>1 DEF WorkerState
  <2>2. ASSUME NEW pc \in {"status", "finish"},
               workers' = [workers EXCEPT ![w].pc = pc]
        PROVE  \E step \in WorkerState :
                 /\ workers' = [workers EXCEPT ![w] = step]
                 /\ step = Free \/ /\ step.job = k
                                   /\ step.attempts = workers[w].attempts
                                   /\ step.pc # "deliver"
    <3> DEFINE step == [workers[w] EXCEPT !.pc = pc]
    <3>1. /\ step \in WorkerState /\ step.job = k
          /\ step.attempts = workers[w].attempts /\ step.pc # "deliver"
      BY DEF QueueInv, WorkerState, Free
    <3>2. workers' = [workers EXCEPT ![w] = step]
      BY <2>2
    <3> HIDE DEF step
    <3> QED BY <3>1, <3>2
  <2> QED BY <2>1, <2>2
<1>4. /\ workers' \in [Workers -> WorkerState]
      /\ \A x \in Workers : workers'[x] = IF x = w THEN step ELSE workers[x]
  BY <1>3 DEF QueueInv
<1>5. RunFits(w, workers[w], jobs[k])
  BY DEF QueueInv
<1>6. ASSUME NEW x \in Workers, workers'[x] # Free
      PROVE  IF workers'[x].job = k THEN RunFits(x, workers'[x], jobs[k])
                                    ELSE workers'[x] = workers[x]
  <2>1. CASE x = w
    BY <1>3, <1>4, <1>5, <1>6, <2>1 DEF RunFits
  <2>2. CASE x # w
    BY <1>4, <1>6, <2>2 DEF QueueInv
  <2> QED BY <2>1, <2>2
<1> HIDE DEF k
<1> QED BY <1>1, <1>2, <1>4, <1>6, QueueMoves

\* A worker ends its run of k with the counter it makes of its own copy.
LEMMA RunEnds ==
  ASSUME QueueInv, NEW w \in Workers, workers[w] # Free, NEW k \in Jobs,
         k = workers[w].job, NEW state \in {"waiting", "completed", "failed"},
         NEW n \in Nat, Ended(w, k, state, n),
         \/ state = "completed" /\ n = jobs[k].attempts
         \/ /\ workers[w].pc = "deliver" /\ n = workers[w].attempts + 1
            /\ state = IF n < MaxAttempts THEN "waiting" ELSE "failed"
  PROVE  QueueInv'
<1>1. /\ jobs[k] \in JobState /\ JobFits(jobs[k])
      /\ RunFits(w, workers[w], jobs[k]) /\ workers[w] \in WorkerState
      /\ workers[w].attempts \in Attempts
  BY DEF QueueInv, WorkerState
<1>2. /\ jobs[k].attempts \in 0..4 /\ jobs[k].stalls \in 0..1
      /\ workers[w].attempts \in 0..4 /\ MaxAttempts = 3 /\ MaxStalls = 1
      /\ Attempts = 0..4
  BY <1>1 DEF JobState, Attempts, MaxAttempts, MaxStalls
<1>3. n \in Attempts /\ n <= MaxAttempts + jobs[k].stalls
  BY <1>1, <1>2 DEF JobFits, RunFits
<1> DEFINE job == IF jobs[k].holder = w
                  THEN [jobs[k] EXCEPT !.state = state, !.attempts = n,
                                       !.holder = NoWorker]
                  ELSE [jobs[k] EXCEPT !.attempts = n]
<1>4. /\ job \in JobState /\ job.attempts = n /\ job.stalls = jobs[k].stalls
      /\ job.state = IF jobs[k].holder = w THEN state ELSE jobs[k].state
      /\ job.holder = IF jobs[k].holder = w THEN NoWorker ELSE jobs[k].holder
  BY <1>1, <1>3 DEF JobState
<1>5. jobs' = [jobs EXCEPT ![k] = job]
  BY DEF Ended, QueueInv
<1>6. /\ workers' \in [Workers -> WorkerState]
      /\ \A x \in Workers : workers'[x] = IF x = w THEN Free ELSE workers[x]
  BY DEF Ended, QueueInv, WorkerState
<1> HIDE DEF job
<1>7. w # NoWorker /\ NoWorker \notin Workers
  BY WorkersFinite
<1>8. JobFits(job)
  <2>1. CASE jobs[k].holder = w
    BY <1>1, <1>2, <1>3, <1>4, <2>1 DEF JobFits, Live
  <2>2. CASE jobs[k].holder # w
    BY <1>1, <1>2, <1>3, <1>4, <2>2 DEF JobFits, RunFits, Live
  <2> QED BY <2>1, <2>2
<1>9. ASSUME NEW x \in Workers, workers'[x] # Free
      PROVE  IF workers'[x].job = k THEN RunFits(x, workers'[x], job)
                                    ELSE workers'[x] = workers[x]
  <2>1. x # w /\ workers'[x] = workers[x]
    BY <1>6, <1>9
  <2>2. ASSUME workers[x].job = k
        PROVE  RunFits(x, workers[x], job)
    <3>1. RunFits(x, workers[x], jobs[k])
      BY <1>9, <2>1, <2>2 DEF QueueInv
    <3>2. CASE jobs[k].holder = w
      <4>1. job.holder # x /\ jobs[k].holder # x
        BY <1>4, <1>7, <2>1, <3>2
      <4>2. job.state \in Live => jobs[k].state \in Live
        BY <1>1, <1>7, <3>2 DEF JobFits, Live
      <4> QED BY <1>4, <3>1, <4>1, <4>2 DEF RunFits
    <3>3. CASE jobs[k].holder # w
      <4>1. jobs[k].stalls = 0 /\ jobs[k].holder = x => n = jobs[k].attempts
        BY <1>1, <1>2, <1>7, <3>3 DEF JobFits, RunFits, Live
      <4> QED BY <1>4, <3>1, <3>3, <4>1 DEF RunFits
    <3> QED BY <3>2, <3>3
  <2> QED BY <2>1, <2>2
<1> QED BY <1>4, <1>5, <1>6, <1>8, <1>9, QueueMoves

LEMMA AttemptFailsKeeps ==
  ASSUME QueueInv, NEW w \in Workers, workers[w].pc = "deliver",
         AttemptFails(w, workers[w].job)
  PROVE  QueueInv'
<1>1. /\ workers[w] # Free /\ workers[w].job \in Jobs
      /\ workers[w].attempts \in Nat
  BY DEF QueueInv, WorkerState, Free, Attempts
<1> DEFINE n == workers[w].attempts + 1
           state == IF n < MaxAttempts THEN "waiting" ELSE "failed"
<1>2. Ended(w, workers[w].job, state, n)
  BY DEF AttemptFails, Attempted
<1>3. n \in Nat /\ state \in {"waiting", "completed", "failed"}
  BY <1>1
<1> HIDE DEF n
<1>4. n = workers[w].attempts + 1
  BY DEF n
<1> QED BY <1>1, <1>2, <1>3, <1>4, RunEnds

LEMMA CompleteJobKeeps ==
  ASSUME QueueInv, NEW w \in Workers, CompleteJob(w)
  PROVE  QueueInv'
<1>1. workers[w] # Free /\ workers[w].job \in Jobs
  BY DEF CompleteJob, QueueInv, WorkerState, Free
<1>2. jobs[workers[w].job].attempts \in Nat
  BY <1>1 DEF QueueInv, JobState, Attempts
<1>3. Ended(w, workers[w].job, "completed", jobs[workers[w].job].attempts)
  BY DEF CompleteJob
<1> QED BY <1>1, <1>2, <1>3, RunEnds

LEMMA TakeJobKeeps ==
  ASSUME QueueInv, NEW w \in Workers, NEW k \in Jobs, TakeJob(w, k)
  PROVE  QueueInv'
<1> DEFINE job == [jobs[k] EXCEPT !.state = "active", !.holder = w]
           run == [pc |-> "deliver", job |-> k, attempts |-> jobs[k].attempts]
<1>1. jobs[k] \in JobState /\ JobFits(jobs[k]) /\ jobs[k].state = "waiting"
  BY DEF QueueInv, TakeJob
<1>2. /\ job \in JobState /\ job.state = "active" /\ job.stalls = jobs[k].stalls
      /\ job.attempts = jobs[k].attempts /\ job.holder = w
  BY <1>1 DEF JobState
<1>3. /\ run \in WorkerState /\ run.job = k /\ run.pc = "deliver"
      /\ run.attempts = jobs[k].attempts
  BY <1>1 DEF WorkerState, JobState
<1>4. jobs' = [jobs EXCEPT ![k] = job] /\ workers' = [workers EXCEPT ![w] = run]
  BY DEF TakeJob, QueueInv
<1> HIDE DEF job, run
<1>5. /\ workers' \in [Workers -> WorkerState]
      /\ \A x \in Workers : workers'[x] = IF x = w THEN run ELSE workers[x]
  BY <1>3, <1>4 DEF QueueInv
<1>6. JobFits(job)
  BY <1>1, <1>2 DEF JobFits, Live
<1>7. ASSUME NEW x \in Workers, workers'[x] # Free
      PROVE  IF workers'[x].job = k THEN RunFits(x, workers'[x], job)
                                    ELSE workers'[x] = workers[x]
  <2>1. CASE x = w
    BY <1>1, <1>2, <1>3, <1>5, <2>1 DEF RunFits, JobFits, Live
  <2>2. CASE x # w /\ workers[x].job = k
    <3>1. RunFits(x, workers[x], jobs[k]) /\ workers'[x] = workers[x]
      BY <1>5, <1>7, <2>2 DEF QueueInv
    <3>2. jobs[k].holder # x
      BY <1>1, WorkersFinite DEF JobFits
    <3> QED BY <1>1, <1>2, <2>2, <3>1, <3>2 DEF RunFits, Live
  <2>3. CASE x # w /\ workers[x].job # k
    BY <1>5, <2>3
  <2> QED BY <2>1, <2>2, <2>3
<1> QED BY <1>2, <1>4, <1>5, <1>6, <1>7, QueueMoves

\* A job is queued, or its lock expires: no worker moves.
LEMMA QueueKeeps ==
  ASSUME QueueInv, NEW k \in Jobs, QueueNotification(k) \/ JobStalls(k)
  PROVE  QueueInv'
<1>1. /\ jobs[k] \in JobState /\ JobFits(jobs[k])
      /\ jobs[k].stalls \in 0..1 /\ jobs[k].attempts \in 0..4
      /\ MaxAttempts = 3 /\ MaxStalls = 1
  BY DEF QueueInv, JobState, Attempts, MaxAttempts, MaxStalls
<1>2. /\ workers' \in [Workers -> WorkerState] /\ UNCHANGED workers
      /\ \A x \in Workers : workers[x] # Free => workers[x] \in WorkerState
                                                /\ workers[x].attempts \in Nat
  BY DEF QueueNotification, JobStalls, QueueInv, WorkerState, Attempts
<1>3. ASSUME NEW job \in JobState, jobs' = [jobs EXCEPT ![k] = job], JobFits(job),
             \A x \in Workers : workers[x] # Free /\ workers[x].job = k
               => RunFits(x, workers[x], job)
      PROVE  QueueInv'
  BY <1>2, <1>3, QueueMoves
<1>4. \A x \in Workers : workers[x] # Free /\ workers[x].job = k
        => RunFits(x, workers[x], jobs[k])
  BY DEF QueueInv
<1>5. CASE QueueNotification(k)
  <2> DEFINE job == [jobs[k] EXCEPT !.state = "waiting"]
  <2>1. /\ job \in JobState /\ job.state = "waiting" /\ job.holder = jobs[k].holder
        /\ job.attempts = jobs[k].attempts /\ job.stalls = jobs[k].stalls
        /\ jobs' = [jobs EXCEPT ![k] = job] /\ jobs[k].state = "new"
    BY <1>1, <1>5 DEF QueueNotification, QueueInv, JobState
  <2> HIDE DEF job
  <2>2. JobFits(job)
    BY <1>1, <2>1 DEF JobFits, Live
  <2>3. \A x \in Workers : workers[x] # Free /\ workers[x].job = k
          => RunFits(x, workers[x], job)
    BY <1>4, <2>1 DEF RunFits, Live
  <2> QED BY <1>3, <2>1, <2>2, <2>3
<1>6. CASE JobStalls(k)
  <2> DEFINE again == jobs[k].stalls < MaxStalls
             state == IF again THEN "waiting" ELSE "failed"
             stalls == IF again THEN jobs[k].stalls + 1 ELSE jobs[k].stalls
             job == [jobs[k] EXCEPT !.state = state, !.stalls = stalls,
                                    !.holder = NoWorker]
  <2>1. /\ state \in {"waiting", "failed"} /\ stalls \in 0..1
        /\ jobs[k].state = "active"
        /\ state = "waiting" => jobs[k].stalls = 0 /\ stalls = 1
        /\ state = "failed" => stalls = jobs[k].stalls
    BY <1>1, <1>6 DEF JobStalls
  <2>2. jobs' = [jobs EXCEPT ![k] = job]
    BY <1>6 DEF JobStalls, QueueInv
  <2> HIDE DEF state, stalls
  <2>3. /\ job \in JobState /\ job.holder = NoWorker
        /\ job.attempts = jobs[k].attempts
        /\ job.state = state /\ job.stalls = stalls
    BY <1>1, <2>1 DEF JobState
  <2> HIDE DEF job, again
  <2>4. JobFits(job)
    BY <1>1, <2>1, <2>3 DEF JobFits, Live
  <2>5. ASSUME NEW x \in Workers, workers[x] # Free, workers[x].job = k
        PROVE  RunFits(x, workers[x], job)
    <3>1. x # NoWorker /\ workers[x].attempts \in Nat
      BY <1>2, <2>5, WorkersFinite
    <3> QED BY <1>1, <1>4, <2>1, <2>3, <2>5, <3>1 DEF RunFits, Live
  <2> QED BY <1>3, <2>2, <2>3, <2>4, <2>5
<1> QED BY <1>5, <1>6

LEMMA QueueInvKept ==
  ASSUME QueueInv, NotificationNext
  PROVE  QueueInv'
<1>1. ASSUME NEW w \in Workers, LookupFails(w)
      PROVE  QueueInv'
  BY <1>1, AttemptFailsKeeps DEF LookupFails
<1>2. ASSUME NEW w \in Workers,
             SendSms(w) \/ SendWhatsapp(w) \/ SendPush(w) \/ SendEmail(w)
      PROVE  QueueInv'
  <2>1. workers[w].pc = "deliver" /\ workers[w] # Free
    BY <1>2 DEF SendSms, SendWhatsapp, SendPush, SendEmail, Delivers, Free
  <2>2. CASE Deliver(w)
    BY <2>1, <2>2, WorkerMoves DEF Deliver
  <2>3. CASE AttemptFails(w, workers[w].job)
    BY <2>1, <2>3, AttemptFailsKeeps
  <2> QED BY <1>2, <2>2, <2>3 DEF SendSms, SendWhatsapp, SendPush, SendEmail
<1>3. ASSUME NEW w \in Workers, UpdateStatus(w) \/ WorkerDies(w)
      PROVE  QueueInv'
  <2>1. workers[w] # Free
    BY <1>3 DEF UpdateStatus, WorkerDies, Free
  <2> QED BY <1>3, <2>1, WorkerMoves DEF UpdateStatus, WorkerDies
<1> QED BY <1>1, <1>2, <1>3, CompleteJobKeeps, TakeJobKeeps, QueueKeeps
        DEF NotificationNext, Work

(*------------------------------- The deliveries ------------------------------*)

LEMMA DeliveringFinite ==
  ASSUME NEW j \in Jobs
  PROVE  /\ IsFiniteSet(Delivering(j)) /\ Cardinality(Delivering(j)) \in Nat
         /\ Cardinality(Delivering(j)) = 0 <=> Delivering(j) = {}
<1>1. IsFiniteSet(Delivering(j))
  BY WorkersFinite, FS_Subset DEF Delivering
<1> QED BY <1>1, FS_CardinalityType, FS_EmptySet

\* A worker that goes on to another step than a delivery.
LEMMA WorkerLeaves ==
  ASSUME QueueInv, NEW w \in Workers, NEW step,
         workers' = [workers EXCEPT ![w] = step], step.pc # "deliver",
         NEW j \in Jobs
  PROVE  /\ Cardinality(Delivering(j)') \in Nat
         /\ Cardinality(Delivering(j)') <= Cardinality(Delivering(j))
         /\ w \in Delivering(j) =>
              Cardinality(Delivering(j)') = Cardinality(Delivering(j)) - 1
<1>1. Delivering(j)' = Delivering(j) \ {w}
  BY DEF Delivering, QueueInv
<1>2. CASE w \in Delivering(j)
  <2>1. Cardinality(Delivering(j) \ {w}) = Cardinality(Delivering(j)) - 1
    BY <1>2, DeliveringFinite, FS_RemoveElement
  <2>2. Cardinality(Delivering(j)) \in Nat /\ Cardinality(Delivering(j)) # 0
    BY <1>2, DeliveringFinite
  <2> QED BY <1>1, <2>1, <2>2
<1>3. CASE w \notin Delivering(j)
  <2>1. Delivering(j)' = Delivering(j)
    BY <1>1, <1>3
  <2>2. Cardinality(Delivering(j)') = Cardinality(Delivering(j))
    BY <2>1
  <2> QED BY <1>3, <2>2, DeliveringFinite
<1> QED BY <1>2, <1>3

\* A free worker that takes k.
LEMMA WorkerTakes ==
  ASSUME QueueInv, NEW w \in Workers, NEW k \in Jobs, TakeJob(w, k), NEW j \in Jobs
  PROVE  Cardinality(Delivering(j)')
           = Cardinality(Delivering(j)) + (IF j = k THEN 1 ELSE 0)
<1>1. w \notin Delivering(j)
  BY DEF Delivering, TakeJob, Free
<1>2. CASE j = k
  <2>1. Delivering(j)' = Delivering(j) \cup {w}
    BY <1>2 DEF Delivering, TakeJob, QueueInv
  <2> QED BY <1>1, <1>2, <2>1, DeliveringFinite, FS_AddElement
<1>3. CASE j # k
  <2>1. Delivering(j)' = Delivering(j)
    BY <1>1, <1>3 DEF Delivering, TakeJob, QueueInv
  <2> QED BY <1>3, <2>1, DeliveringFinite
<1> QED BY <1>2, <1>3

\* No job may spend more than it gains by a stall.
LEMMA BudgetKept ==
  ASSUME QueueInv', QueueInv, WithinBudget, delivered' \in [Jobs -> Nat],
         \A j \in Jobs :
           /\ Cardinality(Delivering(j)') \in Nat
           /\ delivered'[j] + Cardinality(Delivering(j)') + Pending(j)'
                - jobs'[j].stalls
              <= delivered[j] + Cardinality(Delivering(j)) + Pending(j)
                   - jobs[j].stalls
  PROVE  WithinBudget'
<1>1. ASSUME NEW j \in Jobs
      PROVE  Spent(j)' <= 1 + jobs'[j].stalls /\ delivered'[j] \in 0..2
  <2>1. /\ delivered[j] \in Nat /\ delivered'[j] \in Nat
        /\ jobs[j].stalls \in 0..1 /\ jobs'[j].stalls \in 0..1
        /\ Pending(j) \in Nat /\ Pending(j)' \in Nat
        /\ Cardinality(Delivering(j)) \in Nat /\ Cardinality(Delivering(j)') \in Nat
    BY DeliveringFinite DEF QueueInv, WithinBudget, JobState, Pending, MaxStalls
  <2>2. delivered[j] + Cardinality(Delivering(j)) + Pending(j) <= 1 + jobs[j].stalls
    BY DEF WithinBudget, Spent
  <2>3. delivered'[j] + Cardinality(Delivering(j)') + Pending(j)' - jobs'[j].stalls
        <= delivered[j] + Cardinality(Delivering(j)) + Pending(j) - jobs[j].stalls
    OBVIOUS
  <2>4. delivered'[j] + Cardinality(Delivering(j)') + Pending(j)'
          <= 1 + jobs'[j].stalls
    BY <2>1, <2>2, <2>3
  <2> QED BY <2>1, <2>4 DEF Spent
<1>2. delivered' \in [Jobs -> 0..MaxStalls + 1]
  BY <1>1 DEF MaxStalls
<1> QED BY <1>1, <1>2 DEF WithinBudget

\* A worker leaves its delivery, at most once with a message handed out, and no
\* job is to be taken once more.
LEMMA LeaveWithinBudget ==
  ASSUME QueueInv', QueueInv, WithinBudget, NEW w \in Workers, NEW step,
         workers' = [workers EXCEPT ![w] = step], step.pc # "deliver",
         \A j \in Jobs : /\ jobs'[j].state = jobs[j].state
                         /\ jobs'[j].stalls = jobs[j].stalls,
         \/ UNCHANGED delivered
         \/ \E j \in Jobs : w \in Delivering(j)
                            /\ delivered' = [delivered EXCEPT ![j] = @ + 1]
  PROVE  WithinBudget'
<1>1. delivered \in [Jobs -> Nat] /\ delivered' \in [Jobs -> Nat]
  BY DEF WithinBudget
<1>2. ASSUME NEW j \in Jobs
      PROVE  /\ Cardinality(Delivering(j)') \in Nat
             /\ delivered'[j] + Cardinality(Delivering(j)') + Pending(j)'
                  - jobs'[j].stalls
                <= delivered[j] + Cardinality(Delivering(j)) + Pending(j)
                     - jobs[j].stalls
  <2>1. /\ Cardinality(Delivering(j)) \in Nat
        /\ Cardinality(Delivering(j)') \in Nat
        /\ Cardinality(Delivering(j)') <= Cardinality(Delivering(j))
        /\ w \in Delivering(j) =>
             Cardinality(Delivering(j)') = Cardinality(Delivering(j)) - 1
    BY WorkerLeaves, DeliveringFinite
  <2>2. \/ delivered'[j] = delivered[j]
        \/ w \in Delivering(j) /\ delivered'[j] = delivered[j] + 1
    BY <1>1
  <2>3. /\ Pending(j)' = Pending(j) /\ Pending(j) \in Nat
        /\ jobs'[j].stalls = jobs[j].stalls /\ jobs[j].stalls \in Nat
        /\ delivered[j] \in Nat
    BY <1>1 DEF Pending, QueueInv, JobState, MaxStalls
  <2> QED BY <2>1, <2>2, <2>3
<1> QED BY <1>1, <1>2, BudgetKept

\* A worker that gives its run of k up has the job taken once more only when it
\* has not handed the message out.
LEMMA EndWithinBudget ==
  ASSUME QueueInv', QueueInv, WithinBudget, NEW w \in Workers, NEW k \in Jobs,
         NEW state \in {"waiting", "completed", "failed"}, NEW n,
         Ended(w, k, state, n), UNCHANGED delivered,
         state = "waiting" => w \in Delivering(k)
  PROVE  WithinBudget'
<1>1. /\ delivered \in [Jobs -> Nat] /\ delivered' \in [Jobs -> Nat]
      /\ Free.pc # "deliver" /\ workers' = [workers EXCEPT ![w] = Free]
  BY DEF WithinBudget, Ended, Free
<1>2. CASE jobs[k].holder # w
  <2>1. \A j \in Jobs : /\ jobs'[j].state = jobs[j].state
                        /\ jobs'[j].stalls = jobs[j].stalls
    BY <1>2 DEF Ended, QueueInv, JobState
  <2> QED BY <1>1, <2>1, LeaveWithinBudget
<1>3. CASE jobs[k].holder = w
  <2>1. Pending(k) = 0
    BY <1>3, WorkersFinite DEF QueueInv, JobFits, Pending
  <2>2. ASSUME NEW j \in Jobs
        PROVE  /\ Cardinality(Delivering(j)') \in Nat
               /\ delivered'[j] + Cardinality(Delivering(j)') + Pending(j)'
                    - jobs'[j].stalls
                  <= delivered[j] + Cardinality(Delivering(j)) + Pending(j)
                       - jobs[j].stalls
    <3>1. /\ Cardinality(Delivering(j)) \in Nat
          /\ Cardinality(Delivering(j)') \in Nat
          /\ Cardinality(Delivering(j)') <= Cardinality(Delivering(j))
          /\ w \in Delivering(j) =>
               Cardinality(Delivering(j)') = Cardinality(Delivering(j)) - 1
      BY <1>1, WorkerLeaves, DeliveringFinite
    <3>2. /\ jobs'[j].stalls = jobs[j].stalls /\ jobs[j].stalls \in Nat
          /\ Pending(j) \in Nat /\ delivered[j] \in Nat
          /\ delivered'[j] = delivered[j]
      <4>1. jobs[k] \in JobState /\ jobs[j].stalls \in 0..1
        BY DEF QueueInv, JobState, MaxStalls
      <4>2. jobs'[j].stalls = jobs[j].stalls
        BY <1>3, <4>1 DEF Ended, QueueInv, JobState
      <4> QED BY <1>1, <4>1, <4>2 DEF Pending
    <3>3. \/ Pending(j)' = Pending(j)
          \/ j = k /\ state = "waiting" /\ Pending(j)' = 1
      BY <1>3, <2>1 DEF Ended, QueueInv, JobState, Pending
    <3> QED BY <2>1, <3>1, <3>2, <3>3
  <2> QED BY <1>1, <2>2, BudgetKept
<1> QED BY <1>2, <1>3

LEMMA AttemptWithinBudget ==
  ASSUME QueueInv', QueueInv, WithinBudget, NEW w \in Workers,
         workers[w].pc = "deliver", AttemptFails(w, workers[w].job),
         UNCHANGED delivered
  PROVE  WithinBudget'
<1>1. workers[w].job \in Jobs /\ w \in Delivering(workers[w].job)
  BY DEF QueueInv, WorkerState, Free, Delivering
<1> DEFINE n == workers[w].attempts + 1
           state == IF n < MaxAttempts THEN "waiting" ELSE "failed"
<1>2. /\ Ended(w, workers[w].job, state, n)
      /\ state \in {"waiting", "completed", "failed"}
  BY DEF AttemptFails, Attempted
<1> HIDE DEF n, state
<1> QED BY <1>1, <1>2, EndWithinBudget

\* Each channel delivers at most once, as the worker leaves for the status.
LEMMA DeliverWithinBudget ==
  ASSUME QueueInv', QueueInv, WithinBudget, NEW w \in Workers,
         workers[w].pc = "deliver", Deliver(w)
  PROVE  WithinBudget'
<1>1. workers[w].job \in Jobs /\ w \in Delivering(workers[w].job)
  BY DEF QueueInv, WorkerState, Free, Delivering
<1> DEFINE step == [workers[w] EXCEPT !.pc = "status"]
<1>2. workers' = [workers EXCEPT ![w] = step] /\ step.pc # "deliver"
  BY <1>1 DEF Deliver, QueueInv, WorkerState, Free
<1>3. \A j \in Jobs : /\ jobs'[j].state = jobs[j].state
                      /\ jobs'[j].stalls = jobs[j].stalls
  BY DEF Deliver
<1>4. \/ UNCHANGED delivered
      \/ \E j \in Jobs : w \in Delivering(j)
                         /\ delivered' = [delivered EXCEPT ![j] = @ + 1]
  BY <1>1 DEF Deliver
<1> HIDE DEF step
<1> QED BY <1>2, <1>3, <1>4, LeaveWithinBudget

\* Taking a job turns the delivery to come into one under way; a stall adds one
\* to come and the right to it.
LEMMA QueueWithinBudget ==
  ASSUME QueueInv', QueueInv, WithinBudget, NEW k \in Jobs,
         \/ QueueNotification(k) \/ JobStalls(k)
         \/ \E w \in Workers : TakeJob(w, k)
  PROVE  WithinBudget'
<1>1. delivered \in [Jobs -> Nat] /\ delivered' \in [Jobs -> Nat]
  BY DEF WithinBudget, QueueNotification, JobStalls, TakeJob
<1>2. ASSUME NEW j \in Jobs
      PROVE  /\ Cardinality(Delivering(j)') \in Nat
             /\ delivered'[j] + Cardinality(Delivering(j)') + Pending(j)'
                  - jobs'[j].stalls
                <= delivered[j] + Cardinality(Delivering(j)) + Pending(j)
                     - jobs[j].stalls
  <2>1. /\ Cardinality(Delivering(j)) \in Nat /\ delivered[j] \in Nat
        /\ delivered'[j] = delivered[j]
        /\ jobs[j].stalls \in 0..1 /\ Pending(j) \in {0, 1}
    BY <1>1, DeliveringFinite
    DEF QueueNotification, JobStalls, TakeJob, QueueInv, JobState, MaxStalls,
        Pending
  <2>2. CASE \E w \in Workers : TakeJob(w, k)
    <3>1. Cardinality(Delivering(j)')
            = Cardinality(Delivering(j)) + (IF j = k THEN 1 ELSE 0)
      BY <2>2, WorkerTakes
    <3>2. /\ jobs'[j].stalls = jobs[j].stalls
          /\ j = k => Pending(j) = 1 /\ Pending(j)' = 0
          /\ j # k => Pending(j)' = Pending(j)
      <4>1. PICK w \in Workers :
              /\ jobs[k].state = "waiting"
              /\ jobs' = [jobs EXCEPT ![k].state = "active", ![k].holder = w]
        BY <2>2 DEF TakeJob
      <4>2. jobs \in [Jobs -> JobState]
        BY DEF QueueInv
      <4>3. jobs'[j] = IF j = k THEN [jobs[k] EXCEPT !.state = "active",
                                                     !.holder = w]
                                ELSE jobs[j]
        BY <4>1, <4>2
      <4> QED BY <4>1, <4>2, <4>3 DEF JobState, Pending
    <3> QED BY <2>1, <3>1, <3>2
  <2>3. CASE QueueNotification(k) \/ JobStalls(k)
    <3>1. Delivering(j)' = Delivering(j)
      BY <2>3 DEF QueueNotification, JobStalls, Delivering
    <3>2. Cardinality(Delivering(j)') = Cardinality(Delivering(j))
      BY <3>1
    <3>3. jobs'[j].stalls \in Nat /\ Pending(j)' \in Nat
          /\ Pending(j)' - jobs'[j].stalls <= Pending(j) - jobs[j].stalls
      <4>1. CASE j # k
        BY <2>1, <2>3, <4>1
           DEF QueueNotification, JobStalls, QueueInv, JobState, Pending
      <4>2. CASE j = k /\ QueueNotification(k)
        BY <2>1, <4>2 DEF QueueNotification, QueueInv, JobState, Pending
      <4>3. CASE j = k /\ JobStalls(k)
        <5>1. jobs[k].state = "active" /\ Pending(k) = 0
          BY <4>3 DEF JobStalls, Pending
        <5>2. CASE jobs[k].stalls < MaxStalls
          <6>1. Pending(k)' = 1 /\ jobs'[k].stalls = jobs[k].stalls + 1
            BY <4>3, <5>2 DEF JobStalls, QueueInv, JobState, Pending
          <6> QED BY <2>1, <4>3, <5>1, <6>1
        <5>3. CASE ~(jobs[k].stalls < MaxStalls)
          <6>1. Pending(k)' = 0 /\ jobs'[k].stalls = jobs[k].stalls
            BY <4>3, <5>3 DEF JobStalls, QueueInv, JobState, Pending
          <6> QED BY <2>1, <4>3, <5>1, <6>1
        <5> QED BY <5>2, <5>3
      <4> QED BY <2>3, <4>1, <4>2, <4>3
    <3> QED BY <2>1, <3>2, <3>3
  <2> QED BY <2>2, <2>3
<1> QED BY <1>1, <1>2, BudgetKept

LEMMA NotificationInvKept ==
  ASSUME NotificationInv, NotificationNext
  PROVE  NotificationInv'
<1>1. QueueInv /\ QueueInv' /\ WithinBudget
  BY QueueInvKept DEF NotificationInv
<1>2. ASSUME NEW w \in Workers,
             \/ LookupFails(w) \/ SendSms(w) \/ SendWhatsapp(w) \/ SendPush(w)
             \/ SendEmail(w)
      PROVE  WithinBudget'
  <2>1. /\ workers[w].pc = "deliver"
        /\ Deliver(w) \/ (AttemptFails(w, workers[w].job) /\ UNCHANGED delivered)
    BY <1>2 DEF LookupFails, SendSms, SendWhatsapp, SendPush, SendEmail, Delivers
  <2> QED BY <1>1, <2>1, AttemptWithinBudget, DeliverWithinBudget
<1>3. ASSUME NEW w \in Workers, UpdateStatus(w) \/ WorkerDies(w)
      PROVE  WithinBudget'
  <2> DEFINE step == IF WorkerDies(w) THEN Free
                     ELSE [workers[w] EXCEPT !.pc = "finish"]
  <2>1. workers' = [workers EXCEPT ![w] = step] /\ step.pc # "deliver"
    <3>1. CASE WorkerDies(w)
      BY <3>1 DEF WorkerDies, Free
    <3>2. CASE ~WorkerDies(w)
      <4>1. /\ workers' = [workers EXCEPT ![w] = [workers[w] EXCEPT !.pc = "finish"]]
            /\ workers[w].pc = "status"
        BY <1>3, <3>2 DEF UpdateStatus
      <4>2. [workers[w] EXCEPT !.pc = "finish"].pc = "finish"
        BY <1>1, <4>1 DEF QueueInv, WorkerState, Free
      <4> QED BY <3>2, <4>1, <4>2
    <3> QED BY <3>1, <3>2
  <2>2. UNCHANGED jobs /\ UNCHANGED delivered
    BY <1>3 DEF UpdateStatus, WorkerDies
  <2> HIDE DEF step
  <2> QED BY <1>1, <2>1, <2>2, LeaveWithinBudget
<1>4. ASSUME NEW w \in Workers, CompleteJob(w)
      PROVE  WithinBudget'
  <2>1. workers[w].job \in Jobs
    BY <1>1, <1>4 DEF CompleteJob, QueueInv, WorkerState, Free
  <2>2. /\ Ended(w, workers[w].job, "completed", jobs[workers[w].job].attempts)
        /\ UNCHANGED delivered
    BY <1>4 DEF CompleteJob
  <2> QED BY <1>1, <2>1, <2>2, EndWithinBudget
<1>5. WithinBudget'
  BY <1>1, <1>2, <1>3, <1>4, QueueWithinBudget DEF NotificationNext, Work
<1> QED BY <1>1, <1>5 DEF NotificationInv

LEMMA NotificationUnchanged ==
  NotificationInv /\ UNCHANGED notificationVars => NotificationInv'
BY DEF NotificationInv, notificationVars, QueueInv, WithinBudget, Spent, Pending,
       Delivering

LEMMA NotificationInvariance == NotificationSpec => []NotificationInv
BY NotificationUnchanged, NotificationInitInv, NotificationInvKept, PTL
   DEF NotificationSpec

LEMMA NotificationInvTypes == NotificationInv => NotificationTypeOK
BY DEF NotificationInv, QueueInv, JobFits, WithinBudget, NotificationTypeOK

\* Every variable keeps its type: a job counts no attempt beyond the third but
\* for one after a stall, and stalls at most once.
THEOREM NotificationTyped == NotificationSpec => []NotificationTypeOK
BY NotificationInvariance, NotificationInvTypes, PTL

LEMMA BudgetBoundsRepeats ==
  ASSUME NotificationInv
  PROVE  RepeatsNeedStalls
<1> SUFFICES ASSUME NEW j \in Jobs
             PROVE  delivered[j] <= 1 + jobs[j].stalls
  BY DEF RepeatsNeedStalls
<1>1. /\ delivered[j] \in Nat /\ jobs[j].stalls \in Nat
      /\ Cardinality(Delivering(j)) \in Nat /\ Pending(j) \in Nat
  BY DeliveringFinite
  DEF NotificationInv, QueueInv, WithinBudget, JobState, Pending, MaxStalls
<1>2. delivered[j] + Cardinality(Delivering(j)) + Pending(j) <= 1 + jobs[j].stalls
  BY DEF NotificationInv, WithinBudget, Spent
<1> QED BY <1>1, <1>2

\* For any number of jobs and workers, with workers that die and locks that
\* expire while their worker goes on, a message goes out at most once for each
\* time that its job was handed out.
THEOREM RepeatsBounded == NotificationSpec => []RepeatsNeedStalls
BY NotificationInvariance, BudgetBoundsRepeats, PTL

(*---------------------------------- The rounds -------------------------------*)

\* A worker runs j and has its lock.
Held(j) ==
  LET w == jobs[j].holder IN
  w \in Workers /\ workers[w] # Free /\ workers[w].job = j

\* Workers that lost the lock of j and may still write its counter.
Strays(j) ==
  {w \in Workers : /\ workers[w].pc = "deliver" /\ workers[w].job = j
                   /\ jobs[j].holder # w}

\* The count that the next failing attempt adds to.
Made(j) == IF Held(j) THEN workers[jobs[j].holder].attempts ELSE jobs[j].attempts

\* A stall weighs more than the worker it leaves behind, and that worker more
\* than the attempts that its late write can take back.
Rounds(j) ==
  8 * (MaxStalls - jobs[j].stalls) + 6 * Cardinality(Strays(j))
    + 2 * (MaxAttempts + MaxStalls - Made(j))

\* What is left for a job to do at most: each of its rounds, after an attempt or
\* a stall, is a wait and a run.
Left(j) ==
  CASE jobs[j].state = "new"     -> Rounds(j) + 3
    [] jobs[j].state = "waiting" -> Rounds(j) + 2
    [] jobs[j].state = "active"  ->
         IF Held(j) \/ jobs[j].stalls < MaxStalls THEN Rounds(j) + 1 ELSE 1
    [] OTHER                     -> 0

RoundsFit(j) ==
  /\ IsFiniteSet(Strays(j)) /\ Cardinality(Strays(j)) \in Nat
  /\ Made(j) \in 0..4 /\ jobs[j].stalls \in 0..1
  /\ Rounds(j) = 8 * (1 - jobs[j].stalls) + 6 * Cardinality(Strays(j))
                   + 2 * (4 - Made(j))
  /\ Rounds(j) \in Nat /\ Left(j) \in Nat

LEMMA RoundsType == QueueInv => \A j \in Jobs : RoundsFit(j)
<1> SUFFICES ASSUME QueueInv, NEW j \in Jobs
             PROVE  RoundsFit(j)
  OBVIOUS
<1>1. IsFiniteSet(Strays(j)) /\ Cardinality(Strays(j)) \in Nat
  <2>1. IsFiniteSet(Strays(j))
    BY WorkersFinite, FS_Subset DEF Strays
  <2> QED BY <2>1, FS_CardinalityType
<1>2. Made(j) \in 0..4
  BY DEF Made, Held, QueueInv, JobState, WorkerState, Attempts, MaxAttempts,
         MaxStalls
<1>3. jobs[j].stalls \in 0..1
  BY DEF QueueInv, JobState, MaxStalls
<1>4. Rounds(j) = 8 * (1 - jobs[j].stalls) + 6 * Cardinality(Strays(j))
                    + 2 * (4 - Made(j))
  BY <1>1, <1>2, <1>3 DEF Rounds, MaxAttempts, MaxStalls
<1>5. Rounds(j) \in Nat
  BY <1>1, <1>2, <1>3, <1>4
<1> QED BY <1>1, <1>2, <1>3, <1>4, <1>5 DEF Left, RoundsFit

LEMMA RoundsTypeNext == QueueInv' => \A j \in Jobs : RoundsFit(j)'
<1>1. QueueInv' => (\A j \in Jobs : RoundsFit(j))'
  BY RoundsType, PTL
<1> QED BY <1>1

LEMMA StraysFall ==
  ASSUME QueueInv, NEW j \in Jobs, Strays(j)' \subseteq Strays(j)
  PROVE  /\ Cardinality(Strays(j)') \in Nat
         /\ Cardinality(Strays(j)') <= Cardinality(Strays(j))
         /\ Strays(j)' # Strays(j) =>
              Cardinality(Strays(j)') < Cardinality(Strays(j))
<1>1. /\ IsFiniteSet(Strays(j)') /\ IsFiniteSet(Strays(j))
      /\ Cardinality(Strays(j)') <= Cardinality(Strays(j))
      /\ Cardinality(Strays(j)') = Cardinality(Strays(j)) =>
           Strays(j)' = Strays(j)
  BY RoundsType, FS_Subset DEF RoundsFit
<1>2. Cardinality(Strays(j)') \in Nat /\ Cardinality(Strays(j)) \in Nat
  BY <1>1, FS_CardinalityType
<1> QED BY <1>1, <1>2

\* The state of j stays: its counter falls by two at most, when a worker that
\* lost the lock writes it, or its own worker leaves.
LEMMA JobStays ==
  ASSUME QueueInv, QueueInv', NEW j \in Jobs, jobs'[j].state = jobs[j].state,
         jobs'[j].stalls = jobs[j].stalls, Strays(j)' \subseteq Strays(j),
         \/ Held(j)' = Held(j) /\ Made(j)' = Made(j)
         \/ Held(j)' = Held(j) /\ Strays(j)' # Strays(j) /\ Made(j) <= Made(j)' + 2
         \/ Held(j) /\ ~Held(j)' /\ (jobs[j].stalls = 0 => Made(j)' = Made(j))
  PROVE  Left(j)' <= Left(j)
<1>1. /\ Cardinality(Strays(j)) \in Nat /\ Made(j) \in 0..4
      /\ jobs[j].stalls \in 0..1
      /\ Rounds(j) = 8 * (1 - jobs[j].stalls) + 6 * Cardinality(Strays(j))
                       + 2 * (4 - Made(j))
      /\ Rounds(j) \in Nat /\ Left(j) \in Nat
  BY RoundsType DEF RoundsFit
<1>2. /\ Cardinality(Strays(j)') \in Nat /\ Made(j)' \in 0..4
      /\ Rounds(j)' = 8 * (1 - jobs'[j].stalls) + 6 * Cardinality(Strays(j)')
                        + 2 * (4 - Made(j)')
      /\ Rounds(j)' \in Nat /\ Left(j)' \in Nat
  BY RoundsTypeNext DEF RoundsFit
<1>3. /\ Cardinality(Strays(j)') <= Cardinality(Strays(j))
      /\ Strays(j)' # Strays(j) =>
           Cardinality(Strays(j)') < Cardinality(Strays(j))
  BY StraysFall
<1>4. CASE Held(j)' = Held(j)
  <2>1. Rounds(j)' <= Rounds(j)
    BY <1>1, <1>2, <1>3, <1>4
  <2> QED BY <1>1, <1>2, <1>4, <2>1 DEF Left
<1>5. CASE Held(j) /\ ~Held(j)' /\ (jobs[j].stalls = 0 => Made(j)' = Made(j))
  <2>1. jobs[j].state = "active"
    BY <1>5, WorkersFinite DEF QueueInv, JobFits, Held
  <2>2. CASE jobs[j].stalls = 0
    <3>1. Rounds(j)' <= Rounds(j)
      BY <1>1, <1>2, <1>3, <1>5, <2>2
    <3> QED BY <1>1, <1>2, <1>5, <2>1, <2>2, <3>1 DEF Left, MaxStalls
  <2>3. CASE jobs[j].stalls = 1
    <3>1. Left(j) = Rounds(j) + 1 /\ Left(j)' = 1
      BY <1>5, <2>1, <2>3 DEF Left, MaxStalls
    <3> QED BY <1>1, <3>1
  <2> QED BY <1>1, <2>2, <2>3
<1> QED BY <1>4, <1>5

\* A worker goes on, or dies, and the jobs stay.
LEMMA WorkerStays ==
  ASSUME QueueInv, QueueInv', UNCHANGED jobs, NEW w \in Workers, workers[w] # Free,
         \/ workers' = [workers EXCEPT ![w] = Free]
         \/ workers' = [workers EXCEPT ![w].pc = "status"]
         \/ workers' = [workers EXCEPT ![w].pc = "finish"],
         NEW j \in Jobs
  PROVE  Left(j)' <= Left(j)
<1>1. /\ workers'[w].pc # "deliver" /\ \A x \in Workers \ {w} : workers'[x] = workers[x]
      /\ \/ workers'[w] = Free
         \/ /\ workers'[w] # Free /\ workers'[w].job = workers[w].job
            /\ workers'[w].attempts = workers[w].attempts
  BY DEF QueueInv, WorkerState, Free
<1>2. Strays(j)' \subseteq Strays(j)
  BY <1>1 DEF Strays
<1>3. CASE jobs[j].holder = w /\ workers'[w] = Free /\ workers[w].job = j
  <2>1. Held(j) /\ ~Held(j)'
    BY <1>3 DEF Held
  <2>2. Made(j) = workers[w].attempts /\ Made(j)' = jobs[j].attempts
    BY <1>3, <2>1 DEF Made
  <2>3. jobs[j].stalls = 0 => Made(j)' = Made(j)
    BY <1>3, <2>2 DEF QueueInv, RunFits
  <2> QED BY <1>2, <2>1, <2>3, JobStays
<1>4. CASE ~(jobs[j].holder = w /\ workers'[w] = Free /\ workers[w].job = j)
  <2>1. Held(j)' = Held(j) /\ Made(j)' = Made(j)
    BY <1>1, <1>4 DEF Held, Made
  <2> QED BY <1>2, <2>1, JobStays
<1> QED BY <1>3, <1>4

\* A worker ends its run of k: if it holds k, the job ends or goes round with one
\* attempt more; if it lost the lock, it may take two attempts back.
LEMMA EndRunsOut ==
  ASSUME QueueInv, QueueInv', NEW w \in Workers, NEW k \in Jobs, workers[w] # Free,
         workers[w].job = k, NEW state \in {"waiting", "completed", "failed"},
         NEW n \in Nat, Ended(w, k, state, n),
         \/ state = "completed" /\ n = jobs[k].attempts
         \/ /\ workers[w].pc = "deliver" /\ n = workers[w].attempts + 1
            /\ state = IF n < MaxAttempts THEN "waiting" ELSE "failed",
         NEW j \in Jobs
  PROVE  /\ Left(j)' <= Left(j)
         /\ jobs'[j].state # jobs[j].state => Left(j)' < Left(j)
<1>1. /\ workers'[w] = Free /\ \A x \in Workers \ {w} : workers'[x] = workers[x]
      /\ w # NoWorker /\ NoWorker \notin Workers
  BY WorkersFinite DEF Ended, QueueInv
<1>2. CASE j # k
  <2>1. jobs'[j] = jobs[j]
    BY <1>2 DEF Ended, QueueInv
  <2>2. Strays(j)' \subseteq Strays(j)
    BY <1>1, <1>2, <2>1 DEF Strays, Free
  <2>3. Held(j)' = Held(j) /\ Made(j)' = Made(j)
    BY <1>1, <1>2, <2>1 DEF Held, Made
  <2> QED BY <2>1, <2>2, <2>3, JobStays
<1>3. CASE j = k /\ jobs[k].holder # w
  <2>1. /\ jobs'[j].state = jobs[j].state /\ jobs'[j].stalls = jobs[j].stalls
        /\ jobs'[j].holder = jobs[j].holder /\ jobs'[j].attempts = n
    BY <1>3 DEF Ended, QueueInv, JobState
  <2>2. Strays(j)' = Strays(j) \ {w}
    BY <1>1, <2>1 DEF Strays, Free
  <2>3. Held(j)' = Held(j) /\ (Held(j) => Made(j)' = Made(j))
    BY <1>1, <1>3, <2>1 DEF Held, Made
  <2>4. CASE state = "completed" /\ n = jobs[k].attempts
    <3>1. Made(j)' = Made(j)
      BY <1>3, <2>1, <2>3, <2>4 DEF Made
    <3> QED BY <2>1, <2>2, <2>3, <3>1, JobStays
  <2>5. CASE workers[w].pc = "deliver" /\ n = workers[w].attempts + 1
    <3>1. Strays(j)' # Strays(j)
      BY <1>3, <2>2, <2>5 DEF Strays
    <3>2. CASE jobs[j].state \in Live
      <4>1. jobs[j].attempts \in 0..4 /\ jobs[j].stalls \in 0..1
        BY DEF QueueInv, JobState, Attempts, MaxAttempts, MaxStalls
      <4>2. jobs[j].attempts <= 3
        BY <3>2, <4>1 DEF QueueInv, JobFits, MaxAttempts
      <4>3. workers[w].attempts \in Nat
        BY DEF QueueInv, WorkerState, Attempts
      <4>4. ~Held(j) => Made(j) <= Made(j)' + 2
        BY <2>1, <2>3, <2>5, <4>1, <4>2, <4>3 DEF Made
      <4>5. Held(j) => Made(j) <= Made(j)' + 2
        BY <2>3, RoundsType DEF RoundsFit
      <4> QED BY <2>1, <2>2, <2>3, <3>1, <4>4, <4>5, JobStays
    <3>3. CASE jobs[j].state \notin Live
      <4>1. Left(j) = 0 /\ Left(j)' = 0
        BY <2>1, <3>3 DEF Left, Live
      <4> QED BY <2>1, <4>1
    <3> QED BY <3>2, <3>3
  <2> QED BY <2>4, <2>5
<1>4. CASE j = k /\ jobs[k].holder = w
  <2>1. /\ Held(j) /\ jobs[j].state = "active"
        /\ Made(j) = workers[w].attempts
    BY <1>1, <1>4 DEF Held, Made, QueueInv, JobFits
  <2>2. /\ jobs'[j].state = state /\ jobs'[j].stalls = jobs[j].stalls
        /\ jobs'[j].holder = NoWorker /\ jobs'[j].attempts = n
    BY <1>4 DEF Ended, QueueInv, JobState
  <2>3. RoundsFit(j) /\ RoundsFit(j)' /\ Left(j) = Rounds(j) + 1
    BY <2>1, RoundsType, RoundsTypeNext DEF Left
  <2>4. CASE state # "waiting"
    <3>1. Left(j)' = 0
      BY <2>2, <2>4 DEF Left
    <3> QED BY <2>3, <3>1 DEF RoundsFit
  <2>5. CASE state = "waiting"
    <3>1. Made(j)' = n /\ n = Made(j) + 1
      BY <1>1, <2>1, <2>2, <2>5 DEF Held, Made
    <3>2. Strays(j)' \subseteq Strays(j)
      <4>1. \A x \in Strays(j)' : x # w /\ workers[x] = workers'[x]
        BY <1>1 DEF Strays, Free
      <4> QED BY <1>4, <4>1 DEF Strays
    <3>3. Cardinality(Strays(j)') <= Cardinality(Strays(j))
      BY <3>2, StraysFall
    <3>4. Rounds(j)' + 2 <= Rounds(j)
      <4>1. /\ Cardinality(Strays(j)) \in Nat /\ Cardinality(Strays(j)') \in Nat
            /\ Made(j) \in 0..4 /\ Made(j)' = Made(j) + 1
            /\ jobs[j].stalls \in 0..1 /\ jobs'[j].stalls = jobs[j].stalls
        BY <2>2, <2>3, <3>1 DEF RoundsFit
      <4>2. /\ Rounds(j) = 8 * (1 - jobs[j].stalls)
                             + 6 * Cardinality(Strays(j)) + 2 * (4 - Made(j))
            /\ Rounds(j)' = 8 * (1 - jobs'[j].stalls)
                             + 6 * Cardinality(Strays(j)') + 2 * (4 - Made(j)')
        BY <2>3 DEF RoundsFit
      <4> QED BY <3>3, <4>1, <4>2
    <3>5. Left(j)' = Rounds(j)' + 2
      BY <2>2, <2>5 DEF Left
    <3> QED BY <2>3, <3>4, <3>5 DEF RoundsFit
  <2> QED BY <2>4, <2>5
<1> QED BY <1>2, <1>3, <1>4

LEMMA TakeRunsOut ==
  ASSUME QueueInv, QueueInv', NEW w \in Workers, NEW k \in Jobs, TakeJob(w, k),
         NEW j \in Jobs
  PROVE  /\ Left(j)' <= Left(j)
         /\ jobs'[j].state # jobs[j].state => Left(j)' < Left(j)
<1>1. /\ workers[w] = Free /\ workers'[w] # Free
      /\ workers'[w].job = k /\ workers'[w].attempts = jobs[k].attempts
      /\ \A x \in Workers \ {w} : workers'[x] = workers[x]
      /\ w # NoWorker /\ NoWorker \notin Workers
  BY WorkersFinite DEF TakeJob, QueueInv, Free
<1>2. CASE j # k
  <2>1. jobs'[j] = jobs[j]
    BY <1>2 DEF TakeJob, QueueInv
  <2>2. Strays(j)' \subseteq Strays(j)
    BY <1>1, <1>2, <2>1 DEF Strays
  <2>3. Held(j)' = Held(j) /\ Made(j)' = Made(j)
    BY <1>1, <1>2, <2>1 DEF Held, Made
  <2> QED BY <2>1, <2>2, <2>3, JobStays
<1>3. CASE j = k
  <2>1. /\ jobs'[j].state = "active" /\ jobs[j].state = "waiting"
        /\ jobs'[j].holder = w /\ jobs'[j].stalls = jobs[j].stalls
    BY <1>3 DEF TakeJob, QueueInv, JobState
  <2>2. jobs[j].holder = NoWorker
    BY <2>1 DEF QueueInv, JobFits
  <2>3. Held(j)' /\ Made(j)' = Made(j)
    BY <1>1, <1>3, <2>1, <2>2 DEF Held, Made
  <2>4. Strays(j)' \subseteq Strays(j)
    BY <1>1, <2>1, <2>2 DEF Strays
  <2>5. Cardinality(Strays(j)') <= Cardinality(Strays(j))
    BY <2>4, StraysFall
  <2>6. RoundsFit(j) /\ RoundsFit(j)'
    BY RoundsType, RoundsTypeNext
  <2>7. Rounds(j)' <= Rounds(j)
    BY <2>1, <2>3, <2>5, <2>6 DEF RoundsFit
  <2>8. Left(j) = Rounds(j) + 2 /\ Left(j)' = Rounds(j)' + 1
    BY <2>1, <2>3 DEF Left
  <2> QED BY <2>6, <2>7, <2>8 DEF RoundsFit
<1> QED BY <1>2, <1>3

\* A job is queued, or stalls and leaves one more worker behind.
LEMMA QueueRunsOut ==
  ASSUME QueueInv, QueueInv', NEW k \in Jobs, QueueNotification(k) \/ JobStalls(k),
         NEW j \in Jobs
  PROVE  /\ Left(j)' <= Left(j)
         /\ jobs'[j].state # jobs[j].state => Left(j)' < Left(j)
<1>1. /\ workers' = workers /\ RoundsFit(j) /\ RoundsFit(j)'
      /\ NoWorker \notin Workers /\ jobs[k] \in JobState
  BY RoundsType, RoundsTypeNext, WorkersFinite
  DEF QueueNotification, JobStalls, QueueInv
<1>2. CASE j # k
  <2>1. jobs'[j] = jobs[j]
    BY <1>2 DEF QueueNotification, JobStalls, QueueInv
  <2>2. Strays(j)' = Strays(j) /\ Held(j)' = Held(j) /\ Made(j)' = Made(j)
    BY <1>1, <2>1 DEF Strays, Held, Made
  <2> QED BY <2>1, <2>2, JobStays
<1>3. CASE j = k /\ QueueNotification(k)
  <2>1. /\ jobs'[j] = [jobs[j] EXCEPT !.state = "waiting"]
        /\ jobs[j].state = "new"
    BY <1>3 DEF QueueNotification, QueueInv
  <2>2. /\ jobs'[j].state = "waiting" /\ jobs'[j].stalls = jobs[j].stalls
        /\ jobs'[j].holder = jobs[j].holder /\ jobs'[j].attempts = jobs[j].attempts
    BY <1>1, <1>3, <2>1 DEF JobState
  <2>3. Strays(j)' = Strays(j) /\ Made(j)' = Made(j)
    BY <1>1, <2>2 DEF Strays, Held, Made
  <2>4. Rounds(j)' = Rounds(j)
    BY <2>2, <2>3 DEF Rounds
  <2>5. Left(j) = Rounds(j) + 3 /\ Left(j)' = Rounds(j)' + 2
    BY <2>1, <2>2 DEF Left
  <2> QED BY <1>1, <2>4, <2>5 DEF RoundsFit
<1>4. CASE j = k /\ JobStalls(k)
  <2>1. jobs[j].state = "active"
    BY <1>4 DEF JobStalls
  <2>2. CASE ~(jobs[j].stalls < MaxStalls)
    <3>1. jobs'[j].state = "failed"
      BY <1>1, <1>4, <2>2 DEF JobStalls, QueueInv, JobState
    <3>2. Left(j)' = 0 /\ (Left(j) = Rounds(j) + 1 \/ Left(j) = 1)
      BY <2>1, <3>1 DEF Left
    <3> QED BY <1>1, <3>2 DEF RoundsFit
  <2>3. CASE jobs[j].stalls < MaxStalls
    <3>1. /\ jobs'[j].state = "waiting" /\ jobs'[j].holder = NoWorker
          /\ jobs'[j].stalls = 1 /\ jobs[j].stalls = 0
          /\ jobs'[j].attempts = jobs[j].attempts
      BY <1>1, <1>4, <2>3 DEF JobStalls, QueueInv, JobState, RoundsFit, MaxStalls
    <3>2. Made(j)' = Made(j)
      <4>1. Made(j)' = jobs[j].attempts
        BY <1>1, <3>1 DEF Made, Held
      <4>2. Made(j) = jobs[j].attempts
        BY <3>1 DEF Made, Held, QueueInv, RunFits
      <4> QED BY <4>1, <4>2
    <3>3. Cardinality(Strays(j)') <= Cardinality(Strays(j)) + 1
      <4>1. /\ IsFiniteSet(Strays(j) \cup {jobs[j].holder})
            /\ Cardinality(Strays(j) \cup {jobs[j].holder})
                 = IF jobs[j].holder \in Strays(j) THEN Cardinality(Strays(j))
                   ELSE Cardinality(Strays(j)) + 1
        BY <1>1, FS_AddElement DEF RoundsFit
      <4>2. Strays(j)' \subseteq Strays(j) \cup {jobs[j].holder}
        BY <1>1 DEF Strays
      <4>3. Cardinality(Strays(j)')
              <= Cardinality(Strays(j) \cup {jobs[j].holder})
        BY <4>1, <4>2, FS_Subset
      <4> QED BY <1>1, <4>1, <4>3 DEF RoundsFit
    <3>4. Rounds(j)' + 2 <= Rounds(j)
      BY <1>1, <3>1, <3>2, <3>3 DEF RoundsFit
    <3>5. Left(j) = Rounds(j) + 1 /\ Left(j)' = Rounds(j)' + 2
      BY <2>1, <2>3, <3>1 DEF Left
    <3> QED BY <1>1, <3>4, <3>5 DEF RoundsFit
  <2> QED BY <2>2, <2>3
<1> QED BY <1>2, <1>3, <1>4

LEMMA StepRunsOut ==
  ASSUME QueueInv, QueueInv', NotificationNext, NEW j \in Jobs
  PROVE  /\ Left(j)' <= Left(j)
         /\ jobs'[j].state # jobs[j].state => Left(j)' < Left(j)
<1> DEFINE RunsOut == /\ Left(j)' <= Left(j)
                      /\ jobs'[j].state # jobs[j].state => Left(j)' < Left(j)
<1>1. ASSUME NEW w \in Workers, workers[w].pc = "deliver",
             AttemptFails(w, workers[w].job)
      PROVE  RunsOut
  <2>1. /\ workers[w] # Free /\ workers[w].job \in Jobs
        /\ workers[w].attempts \in Nat
    BY <1>1 DEF QueueInv, WorkerState, Free, Attempts
  <2> DEFINE n == workers[w].attempts + 1
             state == IF n < MaxAttempts THEN "waiting" ELSE "failed"
  <2>2. /\ Ended(w, workers[w].job, state, n) /\ n \in Nat
        /\ state \in {"waiting", "completed", "failed"}
    BY <1>1, <2>1 DEF AttemptFails, Attempted
  <2>3. n = workers[w].attempts + 1
    OBVIOUS
  <2> HIDE DEF n
  <2> QED BY <1>1, <2>1, <2>2, <2>3, EndRunsOut
<1>2. ASSUME NEW w \in Workers, workers[w] # Free, UNCHANGED jobs,
             \/ workers' = [workers EXCEPT ![w] = Free]
             \/ workers' = [workers EXCEPT ![w].pc = "status"]
             \/ workers' = [workers EXCEPT ![w].pc = "finish"]
      PROVE  RunsOut
  BY <1>2, WorkerStays
<1>3. ASSUME NEW w \in Workers,
             \/ LookupFails(w) \/ SendSms(w) \/ SendWhatsapp(w) \/ SendPush(w)
             \/ SendEmail(w)
      PROVE  RunsOut
  <2>1. /\ workers[w].pc = "deliver" /\ workers[w] # Free
        /\ Deliver(w) \/ AttemptFails(w, workers[w].job)
    BY <1>3 DEF LookupFails, SendSms, SendWhatsapp, SendPush, SendEmail, Delivers,
                Free
  <2> QED BY <1>1, <1>2, <2>1 DEF Deliver
<1>4. ASSUME NEW w \in Workers, UpdateStatus(w) \/ WorkerDies(w)
      PROVE  RunsOut
  <2>1. workers[w] # Free
    BY <1>4 DEF UpdateStatus, WorkerDies, Free
  <2> QED BY <1>2, <1>4, <2>1 DEF UpdateStatus, WorkerDies
<1>5. ASSUME NEW w \in Workers, CompleteJob(w)
      PROVE  RunsOut
  <2>1. workers[w] # Free /\ workers[w].job \in Jobs
    BY <1>5 DEF CompleteJob, QueueInv, WorkerState, Free
  <2>2. jobs[workers[w].job].attempts \in Nat
    BY <2>1 DEF QueueInv, JobState, Attempts
  <2>3. Ended(w, workers[w].job, "completed", jobs[workers[w].job].attempts)
    BY <1>5 DEF CompleteJob
  <2> QED BY <2>1, <2>2, <2>3, EndRunsOut
<1> HIDE DEF RunsOut
<1>6. ASSUME NEW k \in Jobs,
             \/ QueueNotification(k) \/ JobStalls(k)
             \/ \E w \in Workers : TakeJob(w, k)
      PROVE  RunsOut
  BY <1>6, TakeRunsOut, QueueRunsOut DEF RunsOut
<1>7. RunsOut
  BY <1>3, <1>4, <1>5, <1>6 DEF NotificationNext, Work
<1> QED BY <1>7 DEF RunsOut

\* No job goes round for ever: nothing that happens to one gives it more to do,
\* not even a late worker that lost its lock and writes an older count, and
\* every change of its state brings it strictly nearer to its end.
JobsRunOut ==
  [][\A j \in Jobs :
       /\ Left(j)' <= Left(j)
       /\ jobs'[j].state # jobs[j].state => Left(j)' < Left(j)]_notificationVars

\* So JobsEnd is a matter of some step being taken, which the fairness of workers
\* and of Bull's check for stalled jobs provides.
THEOREM RoundsRunOut ==
  NotificationSpec => JobsRunOut /\ [](\A j \in Jobs : Left(j) \in Nat)
<1>1. NotificationInv => \A j \in Jobs : Left(j) \in Nat
  BY RoundsType DEF NotificationInv, RoundsFit
<1>2. ASSUME NotificationInv, NotificationInv', [NotificationNext]_notificationVars
      PROVE  [\A j \in Jobs : /\ Left(j)' <= Left(j)
                              /\ jobs'[j].state # jobs[j].state
                                   => Left(j)' < Left(j)]_notificationVars
  BY <1>2, StepRunsOut DEF NotificationInv
<1> QED BY <1>1, <1>2, NotificationInvariance, PTL DEF NotificationSpec, JobsRunOut

(*------------------------------- Side by side --------------------------------*)

RecordsInv ==
  /\ ConsentInv /\ AuditInv /\ CmsInv /\ DocumentInv /\ NotificationInv
  /\ ScoringInv

LEMMA RecordsInitInv ==
  ASSUME Init
  PROVE  RecordsInv
BY ConsentInitInv, AuditInitInv, CmsInitInv, DocumentInitInv, NotificationInitInv,
   InitHolds
   DEF Init, RecordsInv

LEMMA RecordsInvKept ==
  ASSUME RecordsInv, [Next]_recordsVars
  PROVE  RecordsInv'
<1>1. /\ ConsentNext \/ UNCHANGED consentVars
      /\ AuditNext \/ UNCHANGED auditVars
      /\ CmsNext \/ UNCHANGED cmsVars
      /\ DocumentNext \/ UNCHANGED documentVars
      /\ NotificationNext \/ UNCHANGED notificationVars
      /\ ScoringNext \/ UNCHANGED scoringVars
  BY DEF Next, recordsVars
<1>2. ConsentInv'
  BY <1>1, ConsentInvKept, ConsentUnchanged DEF RecordsInv
<1>3. AuditInv'
  BY <1>1, AuditInvKept, AuditUnchanged DEF RecordsInv
<1>4. CmsInv'
  BY <1>1, CmsInvKept, CmsUnchanged DEF RecordsInv
<1>5. DocumentInv'
  BY <1>1, DocumentInvKept, DocumentUnchanged DEF RecordsInv
<1>6. NotificationInv'
  BY <1>1, NotificationInvKept, NotificationUnchanged DEF RecordsInv
<1>7. ScoringInv'
  BY <1>1, StepKeeps, StutterKeeps DEF RecordsInv, ScoringNext
<1> QED BY <1>2, <1>3, <1>4, <1>5, <1>6, <1>7 DEF RecordsInv

LEMMA RecordsInvariance == Spec => []RecordsInv
BY RecordsInitInv, RecordsInvKept, PTL DEF Spec

\* The rows, cache entries, blobs, jobs and calls of all six services keep their
\* types: a job counts no attempt beyond the third but for one after a stall.
THEOREM RecordsTyped == Spec => []TypeOK
<1>1. RecordsInv => TypeOK
  BY NotificationInvTypes
  DEF RecordsInv, ConsentInv, AuditInv, CmsInv, DocumentInv, ScoringInv, TypeOK
<1> QED BY <1>1, RecordsInvariance, PTL

\* What the six services promise holds of them side by side: each step belongs
\* to one of them, and leaves what the others rely on alone.
THEOREM RecordsSafe ==
  Spec => []( /\ GrantedIsOnRecord /\ BreaksAreOverlaps /\ StaleOnlyByRace
              /\ DocumentHasBlob /\ RepeatsNeedStalls /\ OneRowPerRequest
              /\ BandFitsScore )
<1>1. RecordsInv => GrantedIsOnRecord /\ StaleOnlyByRace /\ DocumentHasBlob
  BY DEF RecordsInv, ConsentInv, CmsInv, DocumentInv
<1>2. RecordsInv => BreaksAreOverlaps
  BY SeenRowsLink DEF RecordsInv
<1>3. RecordsInv => RepeatsNeedStalls
  BY BudgetBoundsRepeats DEF RecordsInv
<1>4. RecordsInv => OneRowPerRequest /\ BandFitsScore
  BY InvRows DEF RecordsInv, ScoringInv
<1> QED BY <1>1, <1>2, <1>3, <1>4, RecordsInvariance, PTL

================================================================================
