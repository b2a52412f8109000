-------------------------------- MODULE Consent --------------------------------
(* The consents of one borrower: recordConsent, checkConsent and revokeConsent *)
(* over a table that discards every UPDATE and holds one active row per user   *)
(* and data source, which for these handlers is always BANK.                   *)
EXTENDS Serving

CONSTANT Keys \* pairs of a scope and a purpose

VARIABLES
  consents,  \* the rows of consent_records
  asking,    \* what each request is doing
  granted    \* keys whose grant was answered, and no revocation since

consentVars == <<consents, asking, granted>>

ConsentRow == [key : Keys, active : BOOLEAN, valid : BOOLEAN]

NotAsking == [op |-> "none"]

\* grant: a POST to consent/grant.  check: a call of checkConsent, which no
\* route or service makes yet.
Asking ==
  {NotAsking} \cup
  [op : {"grant", "check"}, key : Keys, found : BOOLEAN, expired : BOOLEAN]

ConsentInit ==
  /\ consents = {}
  /\ asking = [r \in Requests |-> NotAsking]
  /\ granted = {}

ConsentTypeOK ==
  /\ consents \subseteq ConsentRow
  /\ asking \in [Requests -> Asking]
  /\ granted \subseteq Keys

(*----------------------------------- Table -----------------------------------*)

RowsOf(k) == {row \in consents : row.key = k}

\* The rule no_update_consent: DO INSTEAD NOTHING, and no error.
Updated(k, active, renew) == consents

\* UNIQUE (user_id, data_source, is_active) says nothing of the scope.
Taken(k) == \E row \in consents : row.active

(*---------------------------------- Handlers ---------------------------------*)

\* createOrUpdate looks for a row of the key, findActiveConsent for an active one.
FindConsent(r, op, k) ==
  LET rows == {row \in RowsOf(k) : op = "grant" \/ row.active} IN
  /\ asking[r] = NotAsking
  /\ \E valid \in IF rows = {} THEN {TRUE} ELSE {row.valid : row \in rows} :
       asking' = [asking EXCEPT ![r] = [op |-> op, key |-> k,
                    found |-> rows # {}, expired |-> ~valid]]
  /\ UNCHANGED <<consents, granted>>

\* Mutant: an INSERT that meets another row is ignored, and answers.
MutInsertConsent(r, k) ==
  /\ consents' = IF Taken(k) THEN consents
                 ELSE consents \cup {[key |-> k, active |-> TRUE, valid |-> TRUE]}
  /\ granted' = granted \cup {k}

\* The INSERT of createOrUpdate; the unique constraint makes save throw.
InsertConsent(r, k) ==
  /\ ~Taken(k)
  /\ consents' = consents \cup {[key |-> k, active |-> TRUE, valid |-> TRUE]}
  /\ granted' = granted \cup {k}

\* save updates the row that was found, or inserts one.
SaveConsent(r) ==
  LET k == asking[r].key IN
  /\ asking[r].op = "grant"
  /\ asking' = [asking EXCEPT ![r] = NotAsking]
  /\ IF asking[r].found
     THEN consents' = Updated(k, TRUE, TRUE) /\ granted' = granted \cup {k}
     ELSE InsertConsent(r, k)

\* An expired consent is revoked before the answer is false.
AnswerCheck(r) ==
  /\ asking[r].op = "check"
  /\ asking' = [asking EXCEPT ![r] = NotAsking]
  /\ consents' = IF asking[r].found /\ asking[r].expired
                 THEN Updated(asking[r].key, FALSE, FALSE) ELSE consents
  /\ UNCHANGED granted

\* A statement fails, on the constraint or for another reason: 500.
ConsentFails(r) ==
  /\ asking[r] # NotAsking
  /\ asking' = [asking EXCEPT ![r] = NotAsking]
  /\ UNCHANGED <<consents, granted>>

\* revokeConsent: one UPDATE, and "Consent revoked successfully".
RevokeConsent(k) ==
  /\ consents' = Updated(k, FALSE, FALSE)
  /\ granted' = granted \ {k}
  /\ UNCHANGED asking

\* The 90 days of a consent are over.
ConsentExpires(row) ==
  /\ row.valid
  /\ consents' = (consents \ {row}) \cup {[row EXCEPT !.valid = FALSE]}
  /\ UNCHANGED <<asking, granted>>

ConsentNext ==
  \/ \E r \in Requests :
       \/ \E k \in Keys, op \in {"grant", "check"} : FindConsent(r, op, k)
       \/ SaveConsent(r) \/ AnswerCheck(r) \/ ConsentFails(r)
  \/ \E k \in Keys : RevokeConsent(k)
  \/ \E row \in consents : ConsentExpires(row)

ConsentSpec == ConsentInit /\ [][ConsentNext]_consentVars

(*--------------------------------- Properties --------------------------------*)

\* A borrower who was told that a consent is granted has a row of that scope and
\* purpose, whatever overlapped: the constraint makes the second of two inserts
\* an error, never a silent loss.
GrantedIsOnRecord == \A k \in granted : RowsOf(k) # {}

\* "Revoke consent for a specific scope/purpose", "Consent revoked successfully":
\* a consent that is active was granted and has not been revoked since.
RevokedIsInactive == \A row \in consents : row.active => row.key \in granted
===============================================================================
