------------------------------- MODULE OtpLogin --------------------------------
(* Login of one mobile number by one-time code: sendOtp and verifyOtp of       *)
(* auth.service.ts over the Redis keys otp, otp_attempts and otp_lock.  Every  *)
(* Redis call is a step of its own; requests interleave between them and keys  *)
(* expire between them.                                                        *)
EXTENDS Integers, FiniteSets

CONSTANTS
  Slots,        \* requests in flight at the same time
  MaxAttempts,  \* OTP_MAX_ATTEMPTS
  MaxSends,     \* bound: codes sent
  MaxFaults     \* bound: Redis calls that fail, requests that throw or die

ASSUME SlotsAreFinite == IsFiniteSet(Slots)
ASSUME MaxAttemptsIsPositive == MaxAttempts \in Nat \ {0}
ASSUME BoundsAreNat == MaxSends \in Nat /\ MaxFaults \in Nat

VARIABLES
  otp,          \* the code whose hash is stored, or None
  attempts,     \* the counter's value; 0 when the key is absent as well
  countedFor,   \* the code whose sendOtp set the counter's TTL; None: no TTL
  lock,         \* the lock key is set
  hasUser,      \* the mobile's users row exists
  logins,       \* logins[c]: sessions opened with code c
  tried,        \* tried[c]: guesses compared with code c
  sent,         \* codes generated so far
  req,          \* the requests in flight
  faults        \* faults so far

vars == <<otp, attempts, countedFor, lock, hasUser, logins, tried, sent, req,
          faults>>

Codes == 1..MaxSends

None == 0

Steps == {"idle", "checkLock", "store", "reset", "sms",
          "read", "count", "lock", "unstore", "consume", "clear", "find",
          "create", "session"}

\* code: the one a sendOtp generated, or the one a verifyOtp was given (None
\* for a wrong guess); stored: what a verifyOtp read.
Request == [step : Steps, code : {None} \cup Codes, stored : {None} \cup Codes]

Idle == [step |-> "idle", code |-> None, stored |-> None]

TypeOK ==
  /\ otp \in {None} \cup Codes
  /\ attempts \in Nat
  /\ countedFor \in {None} \cup Codes
  /\ lock \in BOOLEAN /\ hasUser \in BOOLEAN
  /\ logins \in [Codes -> Nat]
  /\ tried \in [Codes -> Nat]
  /\ sent \in 0..MaxSends
  /\ req \in [Slots -> Request]
  /\ faults \in 0..MaxFaults

Init ==
  /\ otp = None /\ attempts = 0 /\ countedFor = None
  /\ lock = FALSE
  /\ hasUser \in BOOLEAN
  /\ logins = [c \in Codes |-> 0]
  /\ tried = [c \in Codes |-> 0]
  /\ sent = 0
  /\ req = [r \in Slots |-> Idle]
  /\ faults = 0

Goto(r, step) == req' = [req EXCEPT ![r].step = step]

Finish(r) == req' = [req EXCEPT ![r] = Idle]

\* A call of CacheService answers, or fails: then a get reads null, a set or a
\* del does nothing and an increment returns 0.
Answers(ok) ==
  IF ok THEN faults' = faults
  ELSE faults < MaxFaults /\ faults' = faults + 1

(*---------------------------------- sendOtp ----------------------------------*)

SendOtp(r) ==
  /\ req[r] = Idle
  /\ sent < MaxSends
  /\ Goto(r, "checkLock")
  /\ UNCHANGED <<otp, attempts, countedFor, lock, hasUser, logins, tried, sent,
                 faults>>

\* Mutant: the lock is not consulted.
MutCheckLock(r) ==
  /\ req[r].step = "checkLock"
  /\ sent < MaxSends
  /\ sent' = sent + 1
  /\ req' = [req EXCEPT ![r].step = "store", ![r].code = sent + 1]
  /\ UNCHANGED <<otp, attempts, countedFor, lock, hasUser, logins, tried, faults>>

\* OTP_LOCKED ends the request; otherwise a fresh code is generated.
CheckLock(r) ==
  /\ req[r].step = "checkLock"
  /\ \E ok \in BOOLEAN :
       /\ Answers(ok)
       /\ IF lock /\ ok
          THEN Finish(r) /\ UNCHANGED sent
          ELSE /\ sent < MaxSends
               /\ sent' = sent + 1
               /\ req' = [req EXCEPT ![r].step = "store", ![r].code = sent + 1]
  /\ UNCHANGED <<otp, attempts, countedFor, lock, hasUser, logins, tried>>

StoreOtp(r) ==
  /\ req[r].step = "store"
  /\ \E ok \in BOOLEAN :
       Answers(ok) /\ otp' = IF ok THEN req[r].code ELSE otp
  /\ Goto(r, "reset")
  /\ UNCHANGED <<attempts, countedFor, lock, hasUser, logins, tried, sent>>

ResetAttempts(r) ==
  /\ req[r].step = "reset"
  /\ \E ok \in BOOLEAN :
       /\ Answers(ok)
       /\ IF ok THEN attempts' = 0 /\ countedFor' = req[r].code
          ELSE UNCHANGED <<attempts, countedFor>>
  /\ Goto(r, "sms")
  /\ UNCHANGED <<otp, lock, hasUser, logins, tried, sent>>

\* Delivered or not (SMS_DELIVERY_FAILED): the stored code stays.
SendSms(r) ==
  /\ req[r].step = "sms"
  /\ Finish(r)
  /\ UNCHANGED <<otp, attempts, countedFor, lock, hasUser, logins, tried, sent,
                 faults>>

(*--------------------------------- verifyOtp ---------------------------------*)

\* The code given is any that was generated, or a wrong one.
VerifyOtp(r, code) ==
  /\ req[r] = Idle
  /\ code <= sent
  /\ req' = [req EXCEPT ![r].step = "read", ![r].code = code]
  /\ UNCHANGED <<otp, attempts, countedFor, lock, hasUser, logins, tried, sent,
                 faults>>

\* OTP_EXPIRED ends the request.
ReadOtp(r) ==
  /\ req[r].step = "read"
  /\ \E ok \in BOOLEAN :
       /\ Answers(ok)
       /\ IF ok /\ otp # None
          THEN req' = [req EXCEPT ![r].step = "count", ![r].stored = otp]
          ELSE Finish(r)
  /\ UNCHANGED <<otp, attempts, countedFor, lock, hasUser, logins, tried, sent>>

\* Mutant: the limit is compared with the counter from before the INCR.
MutCountAttempt(r) ==
  LET q == req[r] IN
  /\ q.step = "count"
  /\ attempts' = attempts + 1
  /\ IF attempts > MaxAttempts
     THEN Goto(r, "lock") /\ UNCHANGED tried
     ELSE /\ tried' = [tried EXCEPT ![q.stored] = @ + 1]
          /\ IF q.code = q.stored THEN Goto(r, "consume") ELSE Finish(r)
  /\ UNCHANGED <<otp, countedFor, lock, hasUser, logins, sent, faults>>

\* INCR, then, without another await, the limit and the comparison.
CountAttempt(r) ==
  LET q == req[r] IN
  /\ q.step = "count"
  /\ \E ok \in BOOLEAN :
       LET n == IF ok THEN attempts + 1 ELSE 0 IN
       /\ Answers(ok)
       /\ attempts' = IF ok THEN n ELSE attempts
       /\ IF n > MaxAttempts
          THEN Goto(r, "lock") /\ UNCHANGED tried
          ELSE /\ tried' = [tried EXCEPT ![q.stored] = @ + 1]
               /\ IF q.code = q.stored THEN Goto(r, "consume") ELSE Finish(r)
  /\ UNCHANGED <<otp, countedFor, lock, hasUser, logins, sent>>

SetLock(r) ==
  /\ req[r].step = "lock"
  /\ \E ok \in BOOLEAN : Answers(ok) /\ lock' = (lock \/ ok)
  /\ Goto(r, "unstore")
  /\ UNCHANGED <<otp, attempts, countedFor, hasUser, logins, tried, sent>>

DeleteOtp == \E ok \in BOOLEAN :
  Answers(ok) /\ otp' = IF ok THEN None ELSE otp

\* The code goes with the lock; ACCOUNT_LOCKED.
LockDeletesOtp(r) ==
  /\ req[r].step = "unstore"
  /\ DeleteOtp
  /\ Finish(r)
  /\ UNCHANGED <<attempts, countedFor, lock, hasUser, logins, tried, sent>>

\* Mutant: an accepted code stays until it expires.
MutConsumeOtp(r) ==
  /\ req[r].step = "consume"
  /\ Goto(r, "clear")
  /\ UNCHANGED <<otp, attempts, countedFor, lock, hasUser, logins, tried, sent,
                 faults>>

ConsumeOtp(r) ==
  /\ req[r].step = "consume"
  /\ DeleteOtp
  /\ Goto(r, "clear")
  /\ UNCHANGED <<attempts, countedFor, lock, hasUser, logins, tried, sent>>

\* Mutant: the accepted attempt is given back in place of a DEL.
MutClearAttempts(r) ==
  /\ req[r].step = "clear"
  /\ attempts' = attempts - 1
  /\ Goto(r, "find")
  /\ UNCHANGED <<otp, countedFor, lock, hasUser, logins, tried, sent, faults>>

ClearAttempts(r) ==
  /\ req[r].step = "clear"
  /\ \E ok \in BOOLEAN :
       /\ Answers(ok)
       /\ IF ok THEN attempts' = 0 /\ countedFor' = None
          ELSE UNCHANGED <<attempts, countedFor>>
  /\ Goto(r, "find")
  /\ UNCHANGED <<otp, lock, hasUser, logins, tried, sent>>

\* Mutant: an INSERT for every login, left to the unique mobile_number.
MutFindUser(r) ==
  /\ req[r].step = "find"
  /\ Goto(r, "create")
  /\ UNCHANGED <<otp, attempts, countedFor, lock, hasUser, logins, tried, sent,
                 faults>>

FindUser(r) ==
  /\ req[r].step = "find"
  /\ Goto(r, IF hasUser THEN "session" ELSE "create")
  /\ UNCHANGED <<otp, attempts, countedFor, lock, hasUser, logins, tried, sent,
                 faults>>

\* users.mobile_number is unique: the second INSERT throws.
CreateUser(r) ==
  /\ req[r].step = "create"
  /\ IF hasUser THEN Finish(r) ELSE Goto(r, "session")
  /\ hasUser' = TRUE
  /\ UNCHANGED <<otp, attempts, countedFor, lock, logins, tried, sent, faults>>

CreateSession(r) ==
  /\ req[r].step = "session"
  /\ logins' = [logins EXCEPT ![req[r].code] = @ + 1]
  /\ Finish(r)
  /\ UNCHANGED <<otp, attempts, countedFor, lock, hasUser, tried, sent, faults>>

(*-------------------------------- Environment --------------------------------*)

ExpireOtp ==
  /\ otp # None
  /\ otp' = None
  /\ UNCHANGED <<attempts, countedFor, lock, hasUser, logins, tried, sent, req,
                 faults>>

\* The counter is set after the code of the same sendOtp, with the same TTL:
\* it outlives that code and every older one.  A counter that INCR created has
\* no TTL.
ExpireAttempts ==
  /\ countedFor # None
  /\ otp = None \/ countedFor < otp
  /\ attempts' = 0 /\ countedFor' = None
  /\ UNCHANGED <<otp, lock, hasUser, logins, tried, sent, req, faults>>

ExpireLock ==
  /\ lock
  /\ lock' = FALSE
  /\ UNCHANGED <<otp, attempts, countedFor, hasUser, logins, tried, sent, req,
                 faults>>

\* An awaited call throws, or the process dies.
Fail(r) ==
  /\ req[r] # Idle
  /\ faults < MaxFaults
  /\ faults' = faults + 1
  /\ Finish(r)
  /\ UNCHANGED <<otp, attempts, countedFor, lock, hasUser, logins, tried, sent>>

(*------------------------------- Specification -------------------------------*)

Continue(r) ==
  \/ CheckLock(r) \/ StoreOtp(r) \/ ResetAttempts(r) \/ SendSms(r)
  \/ ReadOtp(r) \/ CountAttempt(r) \/ SetLock(r) \/ LockDeletesOtp(r)
  \/ ConsumeOtp(r) \/ ClearAttempts(r) \/ FindUser(r) \/ CreateUser(r)
  \/ CreateSession(r)

Next ==
  \/ \E r \in Slots :
       \/ SendOtp(r) \/ Continue(r) \/ Fail(r)
       \/ \E code \in {None} \cup Codes : VerifyOtp(r, code)
  \/ ExpireOtp \/ ExpireAttempts \/ ExpireLock

Spec == Init /\ [][Next]_vars

(*--------------------------------- Properties --------------------------------*)

\* verifyOtp's limit, as long as no sendOtp overlaps another request: while a
\* code is live, at most MaxAttempts guesses were compared with it, whatever
\* verifications run in parallel.  Each fault (a reset that never happened, an
\* INCR that failed) can cost one more round.
LiveCodeAttempts ==
  otp # None => tried[otp] <= MaxAttempts * (1 + faults)

\* One-time: a code opens one session; parallel verifications that had read it
\* before it was deleted open one each, and so does each deletion that failed.
LoginsPerCode ==
  \A c \in Codes : logins[c] <= Cardinality(Slots) + faults
===============================================================================
