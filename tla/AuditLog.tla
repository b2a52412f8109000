-------------------------------- MODULE AuditLog -------------------------------
(* The audit trail of one entity: AuditService.log reads the latest row and    *)
(* appends one that carries its hash; verifyChain walks the rows by logged_at. *)
EXTENDS Serving

CONSTANT MaxLogs \* bound: calls of log

ASSUME MaxLogsNat == MaxLogs \in Nat

VARIABLES
  trail,    \* the rows of audit_logs
  logging,  \* what each call of log is doing
  hashes,   \* payload hashes made so far: they are 1..hashes, and never collide
  clock     \* the database's NOW() in its latest INSERT

auditVars == <<trail, logging, hashes, clock>>

NoHash == 0 \* prev_hash is null

Hashes == 1..MaxLogs

\* seen (for the properties): the hashes on record when the latest was read.
Entry == [hash : Hashes, prev : Hashes \cup {NoHash}, seen : SUBSET Hashes,
          at : 1..MaxLogs]

NotLogging == [pc |-> "idle"]

Logging ==
  {NotLogging} \cup [pc : {"insert"}, hash : Hashes, prev : Hashes \cup {NoHash},
                     seen : SUBSET Hashes]
  \cup [pc : {"commit"}, hash : Hashes, prev : Hashes \cup {NoHash},
        seen : SUBSET Hashes, at : 1..MaxLogs]

AuditInit ==
  /\ trail = {}
  /\ logging = [r \in Requests |-> NotLogging]
  /\ hashes = 0 /\ clock = 0

AuditTypeOK ==
  /\ trail \subseteq Entry
  /\ logging \in [Requests -> Logging]
  /\ hashes \in 0..MaxLogs /\ clock \in 0..MaxLogs

(*------------------------------- AuditRepository -----------------------------*)

\* Mutant: findLatest without its descending order.
MutIsLatest(e) == \A f \in trail : e.at <= f.at

IsLatest(e) == \A f \in trail : f.at <= e.at

LatestHashes ==
  IF trail = {} THEN {NoHash} ELSE {e.hash : e \in {f \in trail : IsLatest(f)}}

(*--------------------------------- AuditService ------------------------------*)

\* findLatest, and the hash of the payload with the hash it returned.
ReadLatest(r) ==
  /\ logging[r] = NotLogging
  /\ hashes < MaxLogs
  /\ hashes' = hashes + 1
  /\ \E prev \in LatestHashes :
       logging' = [logging EXCEPT ![r] = [pc |-> "insert", hash |-> hashes + 1,
                     prev |-> prev, seen |-> {e.hash : e \in trail}]]
  /\ UNCHANGED <<trail, clock>>

\* The transaction of the INSERT begins: logged_at is its time.
BeginInsert(r) ==
  LET call == logging[r] IN
  /\ call.pc = "insert"
  /\ clock < MaxLogs /\ clock' = clock + 1
  /\ logging' = [logging EXCEPT ![r] = [pc |-> "commit", hash |-> call.hash,
                   prev |-> call.prev, seen |-> call.seen, at |-> clock + 1]]
  /\ UNCHANGED <<trail, hashes>>

\* It commits: from now on findLatest sees the row.
CommitInsert(r) ==
  LET call == logging[r] IN
  /\ call.pc = "commit"
  /\ trail' = trail \cup {[hash |-> call.hash, prev |-> call.prev,
                           seen |-> call.seen, at |-> call.at]}
  /\ logging' = [logging EXCEPT ![r] = NotLogging]
  /\ UNCHANGED <<hashes, clock>>

\* A statement fails or the process dies: nothing is appended.
LogFails(r) ==
  /\ logging[r] # NotLogging
  /\ logging' = [logging EXCEPT ![r] = NotLogging]
  /\ UNCHANGED <<trail, hashes, clock>>

AuditNext ==
  \E r \in Requests :
    ReadLatest(r) \/ BeginInsert(r) \/ CommitInsert(r) \/ LogFails(r)

AuditSpec == AuditInit /\ [][AuditNext]_auditVars

\* verifyChain finds a break between two rows that follow each other.
Follows(f, e) ==
  /\ e.at < f.at
  /\ \A g \in trail : g.at <= e.at \/ f.at <= g.at

Breaks(e, f) == Follows(f, e) /\ f.prev # e.hash

VerifyChain == \A e, f \in trail : ~Breaks(e, f)

(*--------------------------------- Properties --------------------------------*)

\* A break that verifyChain reports is an overlap, not a tampering: the call
\* that wrote the later row had read the latest one before the earlier row was
\* committed.  Calls that do not overlap always leave a chain that verifies.
BreaksAreOverlaps ==
  \A e, f \in trail : Breaks(e, f) => e.hash \notin f.seen
===============================================================================
