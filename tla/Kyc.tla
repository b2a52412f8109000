---------------------------------- MODULE Kyc ----------------------------------
(* Identity verification of one borrower (kyc.service.ts): DigiLocker sessions *)
(* at Setu, their mapping in Redis, the callback that starts a background job, *)
(* and the liveness check.  Requests and jobs interleave between the calls     *)
(* they await.                                                                 *)
EXTENDS Naturals, FiniteSets

CONSTANTS
  Slots,       \* HTTP requests in flight at the same time
  Jobs,        \* processKycData runs in flight at the same time
  Sessions,    \* kyc session ids, each with its Setu session
  Aadhaars,    \* hashes of masked Aadhaar numbers the borrower may consent with
  MaxFaults,   \* bound: calls that fail, requests and jobs that throw or die
  Null         \* no kyc record, no session

ASSUME NullIsNoValue == Null \notin Aadhaars \cup Sessions
ASSUME MaxFaultsIsNat == MaxFaults \in Nat

VARIABLES
  hash,        \* aadhaar_hash of the borrower's kyc_records row; Null: no row
  status,      \* verification_status of the row, "pending" without a row
  liveness,    \* liveness_check_status is 'passed'
  setu,        \* setu[k]: the session at Setu
  aadhaar,     \* aadhaar[k]: the identity the borrower consents with
  cached,      \* sessions whose kyc_session key is in Redis
  req,         \* the requests in flight
  job,         \* the background jobs
  faults       \* faults so far

vars == <<hash, status, liveness, setu, aadhaar, cached, req, job, faults>>

record == <<hash, status, liveness>>

\* The statuses some handler writes or reports.
KycStatus == {"pending", "aadhaar_verified", "fully_verified"}

ReqSteps == {"idle", "create", "cache", "lookup", "start", "uncache",
             "check", "passed", "promote"}

JobSteps == {"idle", "fetch", "read", "insert", "update", "revoke"}

Idle == [step |-> "idle", session |-> Null]

TypeOK ==
  /\ hash \in Aadhaars \cup {Null}
  /\ status \in KycStatus
  /\ liveness \in BOOLEAN
  /\ setu \in [Sessions -> {"none", "open", "revoked"}]
  /\ aadhaar \in [Sessions -> Aadhaars]
  /\ cached \subseteq Sessions
  /\ req \in [Slots -> [step : ReqSteps, session : Sessions \cup {Null}]]
  /\ job \in [Jobs -> [step : JobSteps, session : Sessions \cup {Null}]]
  /\ faults \in 0..MaxFaults

Init ==
  /\ hash = Null /\ status = "pending" /\ liveness = FALSE
  /\ setu = [k \in Sessions |-> "none"]
  /\ aadhaar \in [Sessions -> Aadhaars]
  /\ cached = {}
  /\ req = [r \in Slots |-> Idle]
  /\ job = [j \in Jobs |-> Idle]
  /\ faults = 0

Begin(r, step, k) ==
  /\ req[r] = Idle
  /\ req' = [req EXCEPT ![r] = [step |-> step, session |-> k]]

Goto(r, step) == req' = [req EXCEPT ![r].step = step]

Finish(r) == req' = [req EXCEPT ![r] = Idle]

JobGoto(j, step) == job' = [job EXCEPT ![j].step = step]

JobFinish(j) == job' = [job EXCEPT ![j] = Idle]

(*--------------------------------- initiateKyc -------------------------------*)

\* KYC_ALREADY_VERIFIED refuses a fully verified borrower.
InitiateKyc(r, k) ==
  /\ status # "fully_verified"
  /\ setu[k] = "none" /\ \A x \in Slots : req[x].session # k
  /\ Begin(r, "create", k)
  /\ UNCHANGED <<record, setu, aadhaar, cached, job, faults>>

CreateSession(r) ==
  /\ req[r].step = "create"
  /\ setu' = [setu EXCEPT ![req[r].session] = "open"]
  /\ Goto(r, "cache")
  /\ UNCHANGED <<record, aadhaar, cached, job, faults>>

CacheSession(r) ==
  /\ req[r].step = "cache"
  /\ cached' = cached \cup {req[r].session}
  /\ Finish(r)
  /\ UNCHANGED <<record, setu, aadhaar, job, faults>>

(*-------------------------------- handleCallback -----------------------------*)

\* DigiLocker redirects the browser, possibly twice.
HandleCallback(r, k) ==
  /\ setu[k] # "none"
  /\ Begin(r, "lookup", k)
  /\ UNCHANGED <<record, setu, aadhaar, cached, job, faults>>

\* SESSION_EXPIRED and a refused consent end the request; the mapping of a
\* refused consent stays.
LookupSession(r) ==
  /\ req[r].step = "lookup"
  /\ \E consented \in BOOLEAN :
       IF req[r].session \in cached /\ consented
       THEN Goto(r, "start") ELSE Finish(r)
  /\ UNCHANGED <<record, setu, aadhaar, cached, job, faults>>

\* processKycData is called and not awaited.  A scope without ADHAR goes
\* straight to the revocation.
StartJob(r, j) ==
  LET k == req[r].session IN
  /\ req[r].step = "start"
  /\ job[j] = Idle
  /\ \E step \in {"fetch", "revoke"} :
       job' = [job EXCEPT ![j] = [step |-> step, session |-> k]]
  /\ Goto(r, "uncache")
  /\ UNCHANGED <<record, setu, aadhaar, cached, faults>>

DeleteSession(r) ==
  /\ req[r].step = "uncache"
  /\ cached' = cached \ {req[r].session}
  /\ Finish(r)
  /\ UNCHANGED <<record, setu, aadhaar, job, faults>>

ExpireSession(k) ==
  /\ k \in cached
  /\ cached' = cached \ {k}
  /\ UNCHANGED <<record, setu, aadhaar, req, job, faults>>

(*------------------------ processKycData, storeAadhaarKyc --------------------*)

\* AADHAAR_FETCH_FAILED ends the job when the session is already revoked.
FetchAadhaar(j) ==
  /\ job[j].step = "fetch"
  /\ IF setu[job[j].session] = "open" THEN JobGoto(j, "read") ELSE JobFinish(j)
  /\ UNCHANGED <<record, setu, aadhaar, cached, req, faults>>

\* Mutant: no comparison with the record's hash.
MutReadRecord(j) ==
  /\ job[j].step = "read"
  /\ JobGoto(j, IF hash = Null THEN "insert" ELSE "update")
  /\ UNCHANGED <<record, setu, aadhaar, cached, req, faults>>

\* AADHAAR_MISMATCH ends the job.
ReadRecord(j) ==
  LET h == aadhaar[job[j].session] IN
  /\ job[j].step = "read"
  /\ CASE hash = Null -> JobGoto(j, "insert")
       [] hash = h -> JobGoto(j, "update")
       [] OTHER -> JobFinish(j)
  /\ UNCHANGED <<record, setu, aadhaar, cached, req, faults>>

\* Mutant: an upsert in place of the INSERT.
MutInsertRecord(j) ==
  /\ job[j].step = "insert"
  /\ hash' = aadhaar[job[j].session] /\ status' = "aadhaar_verified"
  /\ JobGoto(j, "revoke")
  /\ UNCHANGED <<liveness, setu, aadhaar, cached, req, faults>>

\* user_id is unique: the INSERT throws when another job was faster.
InsertRecord(j) ==
  /\ job[j].step = "insert"
  /\ IF hash = Null
     THEN /\ hash' = aadhaar[job[j].session] /\ status' = "aadhaar_verified"
          /\ JobGoto(j, "revoke")
     ELSE UNCHANGED <<hash, status>> /\ JobFinish(j)
  /\ UNCHANGED <<liveness, setu, aadhaar, cached, req, faults>>

\* Mutant: the record takes the status that loan applications call verified.
MutUpdateRecord(j) ==
  /\ job[j].step = "update"
  /\ hash' = aadhaar[job[j].session] /\ status' = "verified"
  /\ JobGoto(j, "revoke")
  /\ UNCHANGED <<liveness, setu, aadhaar, cached, req, faults>>

\* The UPDATE writes hash and status whatever they are by now.
UpdateRecord(j) ==
  /\ job[j].step = "update"
  /\ hash' = aadhaar[job[j].session] /\ status' = "aadhaar_verified"
  /\ JobGoto(j, "revoke")
  /\ UNCHANGED <<liveness, setu, aadhaar, cached, req, faults>>

RevokeSession(j) ==
  /\ job[j].step = "revoke"
  /\ setu' = [setu EXCEPT ![job[j].session] = "revoked"]
  /\ JobFinish(j)
  /\ UNCHANGED <<record, aadhaar, cached, req, faults>>

(*-------------------------------- checkLiveness ------------------------------*)

CheckLiveness(r) ==
  /\ Begin(r, "check", Null)
  /\ UNCHANGED <<record, setu, aadhaar, cached, job, faults>>

\* AADHAAR_NOT_VERIFIED ends the request.  The mocked match score lies between
\* 95.5 and 99.5, so the check always passes.
ReadAadhaar(r) ==
  /\ req[r].step = "check"
  /\ IF hash = Null THEN Finish(r) ELSE Goto(r, "passed")
  /\ UNCHANGED <<record, setu, aadhaar, cached, job, faults>>

\* Mutant: the status is written before the liveness columns.
MutPassLiveness(r) ==
  /\ req[r].step = "passed"
  /\ status' = "fully_verified"
  /\ Goto(r, "promote")
  /\ UNCHANGED <<hash, liveness, setu, aadhaar, cached, job, faults>>

PassLiveness(r) ==
  /\ req[r].step = "passed"
  /\ liveness' = TRUE
  /\ Goto(r, "promote")
  /\ UNCHANGED <<hash, status, setu, aadhaar, cached, job, faults>>

Promote(r) ==
  /\ req[r].step = "promote"
  /\ status' = "fully_verified"
  /\ Finish(r)
  /\ UNCHANGED <<hash, liveness, setu, aadhaar, cached, job, faults>>

(*----------------------------------- Faults ----------------------------------*)

\* A call of CacheService that fails does nothing: a set like one that expires
\* at once, a get like a refused consent, a del like a request cut off before it.

FailRequest(r) ==
  /\ req[r] # Idle
  /\ faults < MaxFaults
  /\ faults' = faults + 1
  /\ Finish(r)
  /\ UNCHANGED <<record, setu, aadhaar, cached, job>>

\* The rejection of a job is logged and dropped; a restart forgets the job.
FailJob(j) ==
  /\ job[j] # Idle
  /\ faults < MaxFaults
  /\ faults' = faults + 1
  /\ JobFinish(j)
  /\ UNCHANGED <<record, setu, aadhaar, cached, req>>

(*------------------------------- Specification -------------------------------*)

ContinueRequest(r) ==
  \/ CreateSession(r) \/ CacheSession(r) \/ LookupSession(r) \/ DeleteSession(r)
  \/ ReadAadhaar(r) \/ PassLiveness(r) \/ Promote(r)
  \/ \E j \in Jobs : StartJob(r, j)

ContinueJob(j) ==
  \/ FetchAadhaar(j) \/ ReadRecord(j) \/ InsertRecord(j) \/ UpdateRecord(j)
  \/ RevokeSession(j)

Next ==
  \/ \E r \in Slots :
       \/ ContinueRequest(r) \/ CheckLiveness(r) \/ FailRequest(r)
       \/ \E k \in Sessions : InitiateKyc(r, k) \/ HandleCallback(r, k)
  \/ \E j \in Jobs : ContinueJob(j) \/ FailJob(j)
  \/ \E k \in Sessions : ExpireSession(k)

Spec == Init /\ [][Next]_vars

(*--------------------------------- Properties --------------------------------*)

\* AADHAAR_MISMATCH: once an identity is on record, no later consent, parallel
\* job or duplicated callback replaces it.  Two first consents are told apart
\* by the unique user_id alone.
IdentityIsStable ==
  [][hash # Null => hash' = hash]_vars

\* FULLY_VERIFIED stands on a verified Aadhaar and a passed liveness check,
\* also when the request dies between its two UPDATEs.
FullyVerifiedIsEarned ==
  status = "fully_verified" => hash # Null /\ liveness

\* The KYC status that loan applications rely on leaves "pending" with the first
\* record and never returns to it.
PendingIsLeftForGood ==
  [][status # "pending" => status' # "pending"]_vars

\* KYC_ALREADY_VERIFIED: the verification of a fully verified borrower is over.
FullyVerifiedStays ==
  [][status = "fully_verified" => status' = "fully_verified"]_vars
================================================================================
