-------------------------------- MODULE KycProofs --------------------------------
(* Proofs about Kyc: the inductive invariant and what follows from it, for any  *)
(* number of sessions, identities, requests, jobs and faults.                   *)
EXTENDS Kyc, TLAPS

(*----------------------------- Inductive invariant ---------------------------*)

\* The row's columns agree.
RecordInv ==
  /\ status # "pending" => hash # Null
  /\ status = "fully_verified" => liveness

\* What a request relies on when it writes: a row, once there, stays.
ReqInv ==
  \A r \in Slots :
    /\ req[r].step \in {"create", "cache", "lookup", "start", "uncache"} =>
         req[r].session \in Sessions
    /\ req[r].step \in {"passed", "promote"} => hash # Null
    /\ req[r].step = "promote" => liveness

\* A job that is about to UPDATE compared its identity with the row's.
JobInv ==
  \A j \in Jobs :
    /\ job[j].step # "idle" => job[j].session \in Sessions
    /\ job[j].step = "update" => hash = aadhaar[job[j].session]

IInv == TypeOK /\ RecordInv /\ ReqInv /\ JobInv

\* A change of the row that the requests and jobs in flight may not notice.
RowGrows ==
  /\ hash # Null => hash' = hash
  /\ liveness => liveness'
  /\ aadhaar' = aadhaar

(*-------------------------------- Requests, jobs -----------------------------*)

ReqTable == [Slots -> [step : ReqSteps, session : Sessions \cup {Null}]]

JobTable == [Jobs -> [step : JobSteps, session : Sessions \cup {Null}]]

\* One request moves, the others keep what they rely on.
LEMMA ReqMoves ==
  ASSUME IInv, RowGrows, NEW r \in Slots,
         \A x \in Slots : x # r => req'[x] = req[x],
         \/ req'[r].step = "idle"
         \/ req'[r].step = "check"
         \/ /\ req'[r].step \in {"create", "cache", "lookup", "start", "uncache"}
            /\ req'[r].session \in Sessions
         \/ req'[r].step \in {"passed", "promote"} /\ hash' # Null
            /\ (req'[r].step = "promote" => liveness')
  PROVE  ReqInv'
BY DEF IInv, ReqInv, RowGrows

LEMMA ReqKept ==
  ASSUME IInv, RowGrows, UNCHANGED req
  PROVE  ReqInv'
BY DEF IInv, ReqInv, RowGrows

LEMMA JobMoves ==
  ASSUME IInv, RowGrows, NEW j \in Jobs,
         \A x \in Jobs : x # j => job'[x] = job[x],
         \/ job'[j].step = "idle"
         \/ /\ job'[j].step \in {"fetch", "read", "insert", "revoke"}
            /\ job'[j].session \in Sessions
         \/ /\ job'[j].step = "update"
            /\ job'[j].session \in Sessions
            /\ hash' = aadhaar[job'[j].session]
  PROVE  JobInv'
<1>1. ASSUME NEW x \in Jobs, x # j, job[x].step = "update"
      PROVE  hash' = aadhaar[job[x].session]
  BY <1>1, NullIsNoValue DEF IInv, TypeOK, JobInv, RowGrows
<1> QED
  BY <1>1 DEF IInv, JobInv, RowGrows

LEMMA JobKept ==
  ASSUME IInv, RowGrows, UNCHANGED job
  PROVE  JobInv'
<1>1. ASSUME NEW x \in Jobs, job[x].step = "update"
      PROVE  hash' = aadhaar[job[x].session]
  BY <1>1, NullIsNoValue DEF IInv, TypeOK, JobInv, RowGrows
<1> QED
  BY <1>1 DEF IInv, JobInv, RowGrows

LEMMA GotoReq ==
  ASSUME TypeOK, NEW r \in Slots, NEW step \in ReqSteps, Goto(r, step)
  PROVE  /\ req' \in ReqTable
         /\ \A x \in Slots : x # r => req'[x] = req[x]
         /\ req'[r].step = step /\ req'[r].session = req[r].session
BY DEF TypeOK, Goto, ReqTable

LEMMA FinishReq ==
  ASSUME TypeOK, NEW r \in Slots, Finish(r)
  PROVE  /\ req' \in ReqTable
         /\ \A x \in Slots : x # r => req'[x] = req[x]
         /\ req'[r].step = "idle"
BY DEF TypeOK, Finish, ReqTable, Idle, ReqSteps

LEMMA BeginReq ==
  ASSUME TypeOK, NEW r \in Slots, NEW step \in ReqSteps,
         NEW k \in Sessions \cup {Null}, Begin(r, step, k)
  PROVE  /\ req' \in ReqTable
         /\ \A x \in Slots : x # r => req'[x] = req[x]
         /\ req'[r].step = step /\ req'[r].session = k
BY DEF TypeOK, Begin, ReqTable

LEMMA GotoJob ==
  ASSUME TypeOK, NEW j \in Jobs, NEW step \in JobSteps, JobGoto(j, step)
  PROVE  /\ job' \in JobTable
         /\ \A x \in Jobs : x # j => job'[x] = job[x]
         /\ job'[j].step = step /\ job'[j].session = job[j].session
BY DEF TypeOK, JobGoto, JobTable

LEMMA FinishJob ==
  ASSUME TypeOK, NEW j \in Jobs, JobFinish(j)
  PROVE  /\ job' \in JobTable
         /\ \A x \in Jobs : x # j => job'[x] = job[x]
         /\ job'[j].step = "idle"
BY DEF TypeOK, JobFinish, JobTable, Idle, JobSteps

(*--------------------------------- Each action -------------------------------*)

\* What every step of the system keeps.
Kept == IInv' /\ RowGrows /\ (status # "pending" => status' # "pending")

LEMMA InitInv == Init => IInv
<1> SUFFICES ASSUME Init PROVE IInv
  OBVIOUS
<1>1. TypeOK
  <2>1. /\ Idle \in [step : ReqSteps, session : Sessions \cup {Null}]
        /\ Idle \in [step : JobSteps, session : Sessions \cup {Null}]
    BY DEF Idle, ReqSteps, JobSteps
  <2>2. req \in ReqTable /\ job \in JobTable
    BY <2>1 DEF Init, ReqTable, JobTable
  <2>3. setu \in [Sessions -> {"none", "open", "revoked"}]
    BY DEF Init
  <2>4. faults \in 0..MaxFaults
    BY MaxFaultsIsNat DEF Init
  <2> QED
    BY <2>2, <2>3, <2>4 DEF Init, TypeOK, KycStatus, ReqTable, JobTable
<1>2. RecordInv /\ ReqInv /\ JobInv
  BY DEF Init, RecordInv, ReqInv, JobInv, Idle
<1> QED
  BY <1>1, <1>2 DEF IInv

\* A request's step that writes neither the row nor the job table.
LEMMA RequestStep ==
  ASSUME IInv, NEW r \in Slots, UNCHANGED <<record, aadhaar, job>>,
         setu' \in [Sessions -> {"none", "open", "revoked"}],
         cached' \subseteq Sessions, faults' \in 0..MaxFaults,
         req' \in ReqTable,
         \A x \in Slots : x # r => req'[x] = req[x],
         \/ req'[r].step = "idle"
         \/ req'[r].step = "check"
         \/ /\ req'[r].step \in {"create", "cache", "lookup", "start", "uncache"}
            /\ req'[r].session \in Sessions
         \/ req'[r].step = "passed" /\ hash # Null
  PROVE  Kept
<1>1. TypeOK' /\ RecordInv' /\ RowGrows
  BY DEF IInv, TypeOK, RecordInv, RowGrows, record, ReqTable
<1>2. hash' = hash /\ status' = status
  BY DEF record
<1>3. ReqInv' /\ JobInv'
  BY <1>1, <1>2, ReqMoves, JobKept
<1> QED
  BY <1>1, <1>2, <1>3 DEF Kept, IInv

LEMMA InitiateKycInv ==
  ASSUME IInv, NEW r \in Slots, NEW k \in Sessions, InitiateKyc(r, k)
  PROVE  Kept
<1>1. TypeOK /\ "create" \in ReqSteps /\ Begin(r, "create", k)
  BY DEF IInv, InitiateKyc, ReqSteps
<1>2. /\ req' \in ReqTable
      /\ \A x \in Slots : x # r => req'[x] = req[x]
      /\ req'[r].step = "create" /\ req'[r].session = k
  BY <1>1, BeginReq
<1> QED
  BY <1>1, <1>2, RequestStep DEF InitiateKyc, TypeOK

LEMMA HandleCallbackInv ==
  ASSUME IInv, NEW r \in Slots, NEW k \in Sessions, HandleCallback(r, k)
  PROVE  Kept
<1>1. TypeOK /\ "lookup" \in ReqSteps /\ Begin(r, "lookup", k)
  BY DEF IInv, HandleCallback, ReqSteps
<1>2. /\ req' \in ReqTable
      /\ \A x \in Slots : x # r => req'[x] = req[x]
      /\ req'[r].step = "lookup" /\ req'[r].session = k
  BY <1>1, BeginReq
<1> QED
  BY <1>1, <1>2, RequestStep DEF HandleCallback, TypeOK

LEMMA CheckLivenessInv ==
  ASSUME IInv, NEW r \in Slots, CheckLiveness(r) PROVE Kept
<1>1. TypeOK /\ "check" \in ReqSteps /\ Begin(r, "check", Null)
  BY DEF IInv, CheckLiveness, ReqSteps
<1>2. /\ req' \in ReqTable
      /\ \A x \in Slots : x # r => req'[x] = req[x]
      /\ req'[r].step = "check"
  BY <1>1, BeginReq
<1> QED
  BY <1>1, <1>2, RequestStep DEF CheckLiveness, TypeOK

LEMMA CreateSessionInv ==
  ASSUME IInv, NEW r \in Slots, CreateSession(r) PROVE Kept
<1>1. TypeOK /\ "cache" \in ReqSteps /\ Goto(r, "cache")
      /\ req[r].session \in Sessions
  BY DEF IInv, ReqInv, CreateSession, ReqSteps
<1>2. /\ req' \in ReqTable
      /\ \A x \in Slots : x # r => req'[x] = req[x]
      /\ req'[r].step = "cache" /\ req'[r].session = req[r].session
  BY <1>1, GotoReq
<1> QED
  BY <1>1, <1>2, RequestStep DEF CreateSession, TypeOK

LEMMA FinishInv ==
  ASSUME IInv, NEW r \in Slots, Finish(r),
         cached' \subseteq Sessions, faults' \in 0..MaxFaults,
         UNCHANGED <<record, setu, aadhaar, job>>
  PROVE  Kept
<1>1. TypeOK
  BY DEF IInv
<1>2. /\ req' \in ReqTable
      /\ \A x \in Slots : x # r => req'[x] = req[x]
      /\ req'[r].step = "idle"
  BY <1>1, FinishReq
<1> QED
  BY <1>1, <1>2, RequestStep DEF TypeOK

LEMMA CacheSessionInv ==
  ASSUME IInv, NEW r \in Slots, CacheSession(r) PROVE Kept
<1>1. Finish(r) /\ cached' \subseteq Sessions /\ faults' \in 0..MaxFaults
  BY DEF IInv, TypeOK, ReqInv, CacheSession
<1> QED
  BY <1>1, FinishInv DEF CacheSession

LEMMA LookupSessionInv ==
  ASSUME IInv, NEW r \in Slots, LookupSession(r) PROVE Kept
<1>1. TypeOK /\ "start" \in ReqSteps /\ req[r].session \in Sessions
      /\ UNCHANGED <<record, setu, aadhaar, cached, job, faults>>
  BY DEF IInv, ReqInv, LookupSession, ReqSteps
<1>2. CASE Finish(r)
  BY <1>1, <1>2, FinishInv DEF TypeOK
<1>3. CASE Goto(r, "start")
  <2>1. /\ req' \in ReqTable
        /\ \A x \in Slots : x # r => req'[x] = req[x]
        /\ req'[r].step = "start" /\ req'[r].session = req[r].session
    BY <1>1, <1>3, GotoReq
  <2> QED
    BY <1>1, <2>1, RequestStep DEF TypeOK
<1> QED
  BY <1>2, <1>3 DEF LookupSession

LEMMA DeleteSessionInv ==
  ASSUME IInv, NEW r \in Slots, DeleteSession(r) PROVE Kept
BY FinishInv DEF IInv, TypeOK, DeleteSession

LEMMA ReadAadhaarInv ==
  ASSUME IInv, NEW r \in Slots, ReadAadhaar(r) PROVE Kept
<1>1. TypeOK /\ "passed" \in ReqSteps
      /\ UNCHANGED <<record, setu, aadhaar, cached, job, faults>>
  BY DEF IInv, ReadAadhaar, ReqSteps
<1>2. CASE Finish(r)
  BY <1>1, <1>2, FinishInv DEF TypeOK
<1>3. CASE hash # Null /\ Goto(r, "passed")
  <2>1. /\ req' \in ReqTable
        /\ \A x \in Slots : x # r => req'[x] = req[x]
        /\ req'[r].step = "passed"
    BY <1>1, <1>3, GotoReq
  <2> QED
    BY <1>1, <1>3, <2>1, RequestStep DEF TypeOK
<1> QED
  BY <1>2, <1>3 DEF ReadAadhaar

LEMMA PassLivenessInv ==
  ASSUME IInv, NEW r \in Slots, PassLiveness(r) PROVE Kept
<1>1. TypeOK /\ "promote" \in ReqSteps /\ Goto(r, "promote") /\ hash # Null
  BY DEF IInv, ReqInv, PassLiveness, ReqSteps
<1>2. /\ req' \in ReqTable
      /\ \A x \in Slots : x # r => req'[x] = req[x]
      /\ req'[r].step = "promote"
  BY <1>1, GotoReq
<1>3. TypeOK' /\ RowGrows /\ RecordInv' /\ status' = status
  BY <1>1, <1>2 DEF IInv, TypeOK, RowGrows, RecordInv, PassLiveness, ReqTable
<1>4. hash' # Null /\ liveness'
  BY <1>1 DEF PassLiveness
<1>5. ReqInv'
  BY <1>2, <1>3, <1>4, ReqMoves
<1>6. JobInv'
  BY <1>3, JobKept DEF PassLiveness
<1> QED
  BY <1>3, <1>5, <1>6 DEF Kept, IInv

LEMMA PromoteInv ==
  ASSUME IInv, NEW r \in Slots, Promote(r) PROVE Kept
<1>1. TypeOK /\ Finish(r) /\ hash # Null /\ liveness
  BY DEF IInv, ReqInv, Promote
<1>2. /\ req' \in ReqTable
      /\ \A x \in Slots : x # r => req'[x] = req[x]
      /\ req'[r].step = "idle"
  BY <1>1, FinishReq
<1>3. TypeOK' /\ RowGrows /\ RecordInv' /\ status' # "pending"
  BY <1>1, <1>2
  DEF TypeOK, RowGrows, RecordInv, Promote, ReqTable, KycStatus
<1>4. ReqInv'
  BY <1>2, <1>3, ReqMoves
<1>5. JobInv'
  BY <1>3, JobKept DEF Promote
<1> QED
  BY <1>3, <1>4, <1>5 DEF Kept, IInv

LEMMA ExpireSessionInv ==
  ASSUME IInv, NEW k \in Sessions, ExpireSession(k) PROVE Kept
<1>1. RowGrows /\ hash' = hash /\ status' = status
  BY DEF RowGrows, ExpireSession, record
<1>2. TypeOK' /\ RecordInv'
  BY DEF IInv, TypeOK, RecordInv, ExpireSession, record
<1>3. ReqInv' /\ JobInv'
  BY <1>1, ReqKept, JobKept DEF ExpireSession
<1> QED
  BY <1>1, <1>2, <1>3 DEF Kept, IInv

LEMMA StartJobInv ==
  ASSUME IInv, NEW r \in Slots, NEW j \in Jobs, StartJob(r, j) PROVE Kept
<1>1. TypeOK /\ "uncache" \in ReqSteps /\ Goto(r, "uncache")
      /\ req[r].session \in Sessions
  BY DEF IInv, ReqInv, StartJob, ReqSteps
<1>2. /\ req' \in ReqTable
      /\ \A x \in Slots : x # r => req'[x] = req[x]
      /\ req'[r].step = "uncache" /\ req'[r].session = req[r].session
  BY <1>1, GotoReq
<1>3. /\ job' \in JobTable
      /\ \A x \in Jobs : x # j => job'[x] = job[x]
      /\ job'[j].step \in {"fetch", "revoke"}
      /\ job'[j].session \in Sessions
  BY <1>1 DEF TypeOK, StartJob, JobTable, JobSteps
<1>4. RowGrows /\ hash' = hash /\ status' = status
  BY DEF RowGrows, StartJob, record
<1>5. TypeOK' /\ RecordInv'
  BY <1>2, <1>3
  DEF IInv, TypeOK, RecordInv, StartJob, record, ReqTable, JobTable
<1>6. ReqInv'
  BY <1>1, <1>2, <1>4, ReqMoves
<1>7. JobInv'
  BY <1>3, <1>4, JobMoves
<1> QED
  BY <1>4, <1>5, <1>6, <1>7 DEF Kept, IInv

\* A job's step that leaves the row alone.
LEMMA JobStep ==
  ASSUME IInv, NEW j \in Jobs, UNCHANGED <<record, aadhaar, cached, req>>,
         setu' \in [Sessions -> {"none", "open", "revoked"}],
         faults' \in 0..MaxFaults,
         job' \in JobTable,
         \A x \in Jobs : x # j => job'[x] = job[x],
         \/ job'[j].step = "idle"
         \/ job'[j].step \in {"read", "insert"} /\ job'[j].session \in Sessions
         \/ /\ job'[j].step = "update"
            /\ job'[j].session \in Sessions
            /\ hash = aadhaar[job'[j].session]
  PROVE  Kept
<1>1. TypeOK' /\ RecordInv' /\ RowGrows
  BY DEF IInv, TypeOK, RecordInv, RowGrows, record, JobTable
<1>2. hash' = hash /\ status' = status
  BY DEF record
<1>3. ReqInv'
  BY <1>1, ReqKept
<1>4. JobInv'
  BY <1>1, <1>2, JobMoves
<1> QED
  BY <1>1, <1>2, <1>3, <1>4 DEF Kept, IInv

LEMMA JobFinishInv ==
  ASSUME IInv, NEW j \in Jobs, JobFinish(j),
         setu' \in [Sessions -> {"none", "open", "revoked"}],
         faults' \in 0..MaxFaults, UNCHANGED <<record, aadhaar, cached, req>>
  PROVE  Kept
<1>1. TypeOK
  BY DEF IInv
<1>2. /\ job' \in JobTable
      /\ \A x \in Jobs : x # j => job'[x] = job[x]
      /\ job'[j].step = "idle"
  BY <1>1, FinishJob
<1> QED
  BY <1>2, JobStep

LEMMA FetchAadhaarInv ==
  ASSUME IInv, NEW j \in Jobs, FetchAadhaar(j) PROVE Kept
<1>1. TypeOK /\ "read" \in JobSteps /\ job[j].session \in Sessions
      /\ UNCHANGED <<record, setu, aadhaar, cached, req, faults>>
  BY DEF IInv, JobInv, FetchAadhaar, JobSteps
<1>2. CASE JobFinish(j)
  BY <1>1, <1>2, JobFinishInv DEF TypeOK
<1>3. CASE JobGoto(j, "read")
  <2>1. /\ job' \in JobTable
        /\ \A x \in Jobs : x # j => job'[x] = job[x]
        /\ job'[j].step = "read" /\ job'[j].session = job[j].session
    BY <1>1, <1>3, GotoJob
  <2> QED
    BY <1>1, <2>1, JobStep DEF TypeOK
<1> QED
  BY <1>2, <1>3 DEF FetchAadhaar

LEMMA ReadRecordInv ==
  ASSUME IInv, NEW j \in Jobs, ReadRecord(j) PROVE Kept
<1>1. TypeOK /\ "insert" \in JobSteps /\ "update" \in JobSteps
      /\ job[j].session \in Sessions
      /\ UNCHANGED <<record, setu, aadhaar, cached, req, faults>>
  BY DEF IInv, JobInv, ReadRecord, JobSteps
<1>2. CASE JobFinish(j)
  BY <1>1, <1>2, JobFinishInv DEF TypeOK
<1>3. CASE JobGoto(j, "insert")
  <2>1. /\ job' \in JobTable
        /\ \A x \in Jobs : x # j => job'[x] = job[x]
        /\ job'[j].step = "insert" /\ job'[j].session = job[j].session
    BY <1>1, <1>3, GotoJob
  <2> QED
    BY <1>1, <2>1, JobStep DEF TypeOK
<1>4. CASE hash = aadhaar[job[j].session] /\ JobGoto(j, "update")
  <2>1. /\ job' \in JobTable
        /\ \A x \in Jobs : x # j => job'[x] = job[x]
        /\ job'[j].step = "update" /\ job'[j].session = job[j].session
    BY <1>1, <1>4, GotoJob
  <2> QED
    BY <1>1, <1>4, <2>1, JobStep DEF TypeOK
<1> QED
  BY <1>2, <1>3, <1>4 DEF ReadRecord

\* A job's write of the row: it never changes an identity on record.
LEMMA WriteInv ==
  ASSUME IInv, NEW j \in Jobs, JobGoto(j, "revoke"),
         job[j].session \in Sessions,
         hash = Null \/ hash = aadhaar[job[j].session],
         hash' = aadhaar[job[j].session], status' = "aadhaar_verified",
         UNCHANGED <<liveness, setu, aadhaar, cached, req, faults>>
  PROVE  Kept
<1>1. TypeOK /\ "revoke" \in JobSteps
  BY DEF IInv, JobSteps
<1>2. /\ job' \in JobTable
      /\ \A x \in Jobs : x # j => job'[x] = job[x]
      /\ job'[j].step = "revoke" /\ job'[j].session = job[j].session
  BY <1>1, GotoJob
<1>3. hash' \in Aadhaars /\ hash' # Null
  BY <1>1, NullIsNoValue DEF TypeOK
<1>4. TypeOK' /\ RowGrows /\ RecordInv'
  BY <1>1, <1>2, <1>3
  DEF TypeOK, RowGrows, RecordInv, JobTable, KycStatus
<1>5. ReqInv'
  BY <1>4, ReqKept
<1>6. JobInv'
  BY <1>2, <1>4, JobMoves
<1> QED
  BY <1>4, <1>5, <1>6 DEF Kept, IInv

LEMMA InsertRecordInv ==
  ASSUME IInv, NEW j \in Jobs, InsertRecord(j) PROVE Kept
<1>1. CASE hash = Null
  BY <1>1, WriteInv DEF InsertRecord, IInv, JobInv
<1>2. CASE hash # Null
  BY <1>2, JobFinishInv DEF InsertRecord, IInv, TypeOK, record
<1> QED
  BY <1>1, <1>2

LEMMA UpdateRecordInv ==
  ASSUME IInv, NEW j \in Jobs, UpdateRecord(j) PROVE Kept
BY WriteInv DEF UpdateRecord, IInv, JobInv

LEMMA RevokeSessionInv ==
  ASSUME IInv, NEW j \in Jobs, RevokeSession(j) PROVE Kept
<1>1. setu' \in [Sessions -> {"none", "open", "revoked"}]
  BY DEF RevokeSession, IInv, TypeOK
<1> QED
  BY <1>1, JobFinishInv DEF RevokeSession, IInv, TypeOK

(*---------------------------------- Theorems ---------------------------------*)

LEMMA NextInv == ASSUME IInv, [Next]_vars PROVE Kept
<1>1. CASE UNCHANGED vars
  <2>1. RowGrows /\ TypeOK' /\ RecordInv' /\ status' = status
    BY <1>1 DEF vars, IInv, TypeOK, RecordInv, RowGrows
  <2>2. ReqInv' /\ JobInv'
    BY <1>1, <2>1, ReqKept, JobKept DEF vars
  <2> QED
    BY <2>1, <2>2 DEF Kept, IInv
<1>2. ASSUME NEW r \in Slots, ContinueRequest(r) PROVE Kept
  BY <1>2, CreateSessionInv, CacheSessionInv, LookupSessionInv,
     DeleteSessionInv, ReadAadhaarInv, PassLivenessInv, PromoteInv, StartJobInv
  DEF ContinueRequest
<1>3. ASSUME NEW r \in Slots, FailRequest(r) PROVE Kept
  BY <1>3, FinishInv, MaxFaultsIsNat DEF FailRequest, IInv, TypeOK
<1>4. ASSUME NEW j \in Jobs, ContinueJob(j) PROVE Kept
  BY <1>4, FetchAadhaarInv, ReadRecordInv, InsertRecordInv, UpdateRecordInv,
     RevokeSessionInv
  DEF ContinueJob
<1>5. ASSUME NEW j \in Jobs, FailJob(j) PROVE Kept
  BY <1>5, JobFinishInv, MaxFaultsIsNat DEF FailJob, IInv, TypeOK
<1> QED
  BY <1>1, <1>2, <1>3, <1>4, <1>5, InitiateKycInv, HandleCallbackInv,
     CheckLivenessInv, ExpireSessionInv
  DEF Next

\* The kyc_records row, the requests and the jobs stay in the inductive
\* invariant for any number of parallel callbacks and liveness checks.
THEOREM Invariance == Spec => []IInv
<1>1. Init => IInv
  BY InitInv
<1>2. IInv /\ [Next]_vars => IInv'
  BY NextInv DEF Kept
<1> QED
  BY <1>1, <1>2, PTL DEF Spec

\* The row, the sessions at Setu, the requests and the jobs keep their types.
THEOREM TypeCorrect == Spec => []TypeOK
<1>1. IInv => TypeOK
  BY DEF IInv
<1> QED
  BY <1>1, Invariance, PTL

\* checkLiveness: FULLY_VERIFIED is only ever written over a verified Aadhaar
\* and a passed liveness check.
THEOREM VerificationCorrect == Spec => []FullyVerifiedIsEarned
<1>1. IInv => FullyVerifiedIsEarned
  BY DEF IInv, RecordInv, FullyVerifiedIsEarned
<1> QED
  BY <1>1, Invariance, PTL

\* storeAadhaarKyc: the comparison before the UPDATE and the unique user_id
\* behind the INSERT keep the first identity, although neither read is locked.
THEOREM IdentityCorrect == Spec => IdentityIsStable
<1>1. IInv /\ [Next]_vars => [hash # Null => hash' = hash]_vars
  BY NextInv DEF Kept, RowGrows
<1> QED
  BY <1>1, Invariance, PTL DEF Spec, IdentityIsStable

\* The status that loan applications rely on never returns to PENDING.
THEOREM PendingCorrect == Spec => PendingIsLeftForGood
<1>1. IInv /\ [Next]_vars => [status # "pending" => status' # "pending"]_vars
  BY NextInv DEF Kept
<1> QED
  BY <1>1, Invariance, PTL DEF Spec, PendingIsLeftForGood

(*----------------------- When fully verified is for good ----------------------*)

\* KYC_ALREADY_VERIFIED looks at new sessions only.  Verification is over once
\* no session, no request that opens one and no job is left that carries the
\* identity on record: another consent with it is what overwrites the status.
SameIdentity(k) == aadhaar[k] = hash

Settled ==
  /\ status = "fully_verified"
  /\ \A k \in Sessions : setu[k] = "open" => ~SameIdentity(k)
  /\ \A r \in Slots : req[r].step = "create" => ~SameIdentity(req[r].session)
  /\ \A j \in Jobs :
       job[j].step \in {"read", "update"} => ~SameIdentity(job[j].session)

\* Settled is for good.
SettledIsFinal == [][Settled => Settled']_vars

\* What a step of a settled borrower may do to sessions, requests and jobs.
LEMMA SettledMoves ==
  ASSUME IInv, Settled,
         status' = status, hash' = hash, aadhaar' = aadhaar,
         \A k \in Sessions : setu'[k] = "open" /\ setu[k] # "open"
                               => \E r \in Slots : /\ req[r].step = "create"
                                                  /\ req[r].session = k,
         \A r \in Slots : req'[r].step = "create" => req'[r] = req[r],
         \A j \in Jobs : job'[j].step \in {"read", "update"} =>
           /\ job'[j].session = job[j].session
           /\ \/ job[j].step \in {"read", "update"}
              \/ setu[job[j].session] = "open" /\ job[j].session \in Sessions
  PROVE  Settled'
BY DEF Settled, SameIdentity

\* A settled borrower's row is written by nothing that is left in flight.
LEMMA SettledStep ==
  ASSUME IInv, Settled, [Next]_vars
  PROVE  Settled'
<1>1. hash # Null /\ status = "fully_verified" /\ TypeOK
  BY DEF IInv, RecordInv, Settled
<1>2. CASE UNCHANGED vars
  BY <1>2 DEF vars, Settled, SameIdentity
<1>3. ASSUME NEW r \in Slots, CreateSession(r)
      PROVE  Settled'
  <2>1. \A x \in Slots : req'[x].step = "create" => req'[x] = req[x]
    BY <1>1, <1>3, GotoReq DEF CreateSession, ReqSteps
  <2>2. \A k \in Sessions : setu'[k] = "open" /\ setu[k] # "open"
          => req[r].session = k
    BY <1>1, <1>3 DEF CreateSession, TypeOK
  <2> QED
    BY <1>3, <2>1, <2>2, SettledMoves DEF CreateSession, Settled, record
<1>4. ASSUME NEW r \in Slots,
             \/ CacheSession(r) \/ LookupSession(r) \/ DeleteSession(r)
             \/ ReadAadhaar(r) \/ PassLiveness(r) \/ Promote(r) \/ FailRequest(r)
      PROVE  Settled'
  <2>1. \A x \in Slots : req'[x].step = "create" => req'[x] = req[x]
    BY <1>1, <1>4, GotoReq, FinishReq
    DEF CacheSession, LookupSession, DeleteSession, ReadAadhaar, PassLiveness,
        Promote, FailRequest, ReqSteps
  <2>2. /\ status' = status /\ hash' = hash /\ aadhaar' = aadhaar
        /\ setu' = setu /\ job' = job
    BY <1>1, <1>4 DEF CacheSession, LookupSession, DeleteSession, ReadAadhaar,
       PassLiveness, Promote, FailRequest, record
  <2> QED
    BY <2>1, <2>2, SettledMoves DEF Settled
<1>5. ASSUME NEW r \in Slots, NEW j \in Jobs, StartJob(r, j)
      PROVE  Settled'
  <2>1. \A x \in Slots : req'[x].step = "create" => req'[x] = req[x]
    BY <1>1, <1>5, GotoReq DEF StartJob, ReqSteps
  <2>2. \A x \in Jobs : job'[x].step \in {"read", "update"} => job'[x] = job[x]
    BY <1>1, <1>5 DEF StartJob, TypeOK
  <2> QED
    BY <1>5, <2>1, <2>2, SettledMoves DEF StartJob, Settled, record
<1>6. ASSUME NEW r \in Slots,
             \/ CheckLiveness(r)
             \/ \E k \in Sessions : InitiateKyc(r, k) \/ HandleCallback(r, k)
      PROVE  Settled'
  <2>1. \A x \in Slots : req'[x].step = "create" => req'[x] = req[x]
    BY <1>1, <1>6 DEF CheckLiveness, InitiateKyc, HandleCallback, Begin, TypeOK
  <2>2. /\ status' = status /\ hash' = hash /\ aadhaar' = aadhaar
        /\ setu' = setu /\ job' = job
    BY <1>6 DEF CheckLiveness, InitiateKyc, HandleCallback, record
  <2> QED
    BY <2>1, <2>2, SettledMoves DEF Settled
<1>7. ASSUME NEW j \in Jobs, ContinueJob(j) \/ FailJob(j)
      PROVE  Settled'
  <2>1. job[j].step # "update"
    <3>1. job[j].step = "update" => hash = aadhaar[job[j].session]
      BY DEF IInv, JobInv
    <3> QED
      BY <3>1 DEF Settled, SameIdentity
  <2>2. /\ status' = status /\ hash' = hash /\ aadhaar' = aadhaar /\ req' = req
    BY <1>1, <1>7, <2>1 DEF ContinueJob, FetchAadhaar, ReadRecord, InsertRecord,
       UpdateRecord, RevokeSession, FailJob, record
  <2>3. \A k \in Sessions : setu'[k] = "open" => setu[k] = "open"
    BY <1>1, <1>7, <2>1 DEF ContinueJob, FetchAadhaar, ReadRecord, InsertRecord,
       UpdateRecord, RevokeSession, FailJob, TypeOK
  <2>4. job[j].step # "idle" => job[j].session \in Sessions
    BY DEF IInv, JobInv
  <2>5. \A x \in Jobs : x # j => job'[x] = job[x]
    BY <1>1, <1>7 DEF ContinueJob, FetchAadhaar, ReadRecord, InsertRecord,
       UpdateRecord, RevokeSession, FailJob, JobGoto, JobFinish, TypeOK
  <2>6. job'[j].step \in {"read", "update"} =>
          /\ job'[j].session = job[j].session
          /\ job[j].step # "idle"
          /\ job[j].step = "read" \/ setu[job[j].session] = "open"
    BY <1>1, <1>7, <2>1, GotoJob, FinishJob
    DEF ContinueJob, FetchAadhaar, ReadRecord, InsertRecord, UpdateRecord,
        RevokeSession, FailJob, JobSteps
  <2> QED
    BY <2>2, <2>3, <2>4, <2>5, <2>6, SettledMoves DEF Settled
<1>8. ASSUME NEW k \in Sessions, ExpireSession(k)
      PROVE  Settled'
  BY <1>8, SettledMoves DEF ExpireSession, Settled, record
<1> QED
  BY <1>2, <1>3, <1>4, <1>5, <1>6, <1>7, <1>8 DEF Next, ContinueRequest

\* checkLiveness, initiateKyc: a borrower whose verification is settled stays
\* fully verified, whatever callbacks, retries and failures follow.
THEOREM VerifiedForGood == Spec => SettledIsFinal
<1>1. IInv /\ [Next]_vars => [Settled => Settled']_vars
  BY SettledStep DEF vars
<1> QED
  BY <1>1, Invariance, PTL DEF Spec, SettledIsFinal
================================================================================
