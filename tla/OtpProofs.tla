------------------------------- MODULE OtpProofs -------------------------------
(* Proofs about OtpLogin, for any number of requests, attempts, codes and       *)
(* faults.  What holds only until a sendOtp overlaps another request says so    *)
(* with the history variable mixed of MCOtpLogin.                               *)
EXTENDS MCOtpLogin, FiniteSetTheorems, TLAPS

\* A verifyOtp that found its code right, and one past the DEL of it.
Accepted == {"consume", "clear", "find", "create", "session"}
Consumed == {"clear", "find", "create", "session"}

\* Nobody was given code c yet.
Unused(c) ==
  /\ otp # c /\ tried[c] = 0 /\ logins[c] = 0
  /\ \A r \in Slots : req[r].stored # c

\* What a request at each step holds.
Holding(q) ==
  /\ q.code <= sent /\ q.stored <= sent
  /\ q.step = "checkLock" => q.code = None
  /\ q.step \in {"store", "reset"} => q.code # None
  /\ q.step \in SendSteps => q.stored = None
  /\ q.step = "count" => q.stored # None
  /\ q.step \in Accepted => q.code = q.stored /\ q.code # None

\* A code is stored once, by the sendOtp that generated it.
CodesInv ==
  /\ otp <= sent
  /\ \A c \in Codes : c > sent => Unused(c)
  /\ \A r \in Slots : Holding(req[r])
  /\ \A r \in Slots : req[r].step = "store" =>
       /\ Unused(req[r].code)
       /\ \A x \in Slots \ {r} :
            req[x].step \in SendSteps => req[x].code # req[r].code

CodeInv == TypeOK /\ CodesInv

LEMMA SlotSets ==
  ASSUME NEW S \in SUBSET Slots
  PROVE  /\ IsFiniteSet(S) /\ Cardinality(S) \in Nat
         /\ Cardinality(Slots) \in Nat /\ Cardinality(S) <= Cardinality(Slots)
         /\ \A T \in SUBSET S : Cardinality(T) <= Cardinality(S)
         /\ \A r \in Slots : Cardinality(S \cup {r}) <= Cardinality(S) + 1
         /\ \A r \in S : Cardinality(S \ {r}) = Cardinality(S) - 1
<1>1. IsFiniteSet(S) /\ Cardinality(S) <= Cardinality(Slots)
  BY SlotsAreFinite, FS_Subset
<1>2. Cardinality(S) \in Nat /\ Cardinality(Slots) \in Nat
  BY <1>1, SlotsAreFinite, FS_CardinalityType
<1>3. ASSUME NEW T \in SUBSET S PROVE Cardinality(T) <= Cardinality(S)
  BY <1>1, <1>3, FS_Subset
<1>4. ASSUME NEW r \in Slots PROVE Cardinality(S \cup {r}) <= Cardinality(S) + 1
  BY <1>1, <1>2, FS_AddElement
<1>5. ASSUME NEW r \in S PROVE Cardinality(S \ {r}) = Cardinality(S) - 1
  BY <1>1, FS_RemoveElement
<1> QED BY <1>1, <1>2, <1>3, <1>4, <1>5

(*----------------------------- Types and codes -----------------------------*)

LEMMA OtpInitInv ==
  ASSUME Init
  PROVE  CodeInv
<1>1. Idle \in Request
  BY DEF Idle, Request, Steps
<1>2. TypeOK
  <2>1. /\ logins \in [Codes -> Nat] /\ tried \in [Codes -> Nat]
        /\ req \in [Slots -> Request]
    BY <1>1 DEF Init
  <2>2. 0 \in 0..MaxSends /\ 0 \in 0..MaxFaults /\ 0 \in Nat
    BY BoundsAreNat
  <2> QED BY <2>1, <2>2 DEF Init, TypeOK
<1>3. \A c \in Codes : c > 0 /\ c # None /\ Unused(c)
  BY DEF Init, Unused, Codes, None, Idle
<1>4. \A r \in Slots : Holding(req[r]) /\ req[r].step = "idle"
  BY DEF Init, Holding, Idle, None, SendSteps, Accepted
<1> QED BY <1>2, <1>3, <1>4 DEF Init, CodeInv, CodesInv, None

\* A step of one request leaves the others alone.
LEMMA ReqTyped ==
  ASSUME TypeOK, NEW r \in Slots, NEW q \in Request,
         req' = [req EXCEPT ![r] = q]
  PROVE  req' \in [Slots -> Request]
BY DEF TypeOK

LEMMA TypeKept ==
  ASSUME CodeInv, Next
  PROVE  TypeOK'
<1> USE DEF CodeInv, TypeOK
<1>0. /\ None \notin Codes /\ \A c \in Codes : c \in Nat
      /\ Idle \in Request
  BY DEF None, Codes, Idle, Request, Steps
<1>1. ASSUME NEW r \in Slots, SendOtp(r)
      PROVE  TypeOK'
  BY <1>1 DEF SendOtp, Goto, Request, Steps
<1>2. ASSUME NEW r \in Slots, NEW code \in {None} \cup Codes, VerifyOtp(r, code)
      PROVE  TypeOK'
  BY <1>2 DEF VerifyOtp, Request, Steps
<1>3. ASSUME NEW r \in Slots, CheckLock(r)
      PROVE  TypeOK'
  <2>1. faults' \in 0..MaxFaults /\ sent' \in 0..MaxSends
    BY <1>3, BoundsAreNat DEF CheckLock, Answers
  <2>2. req' \in [Slots -> Request]
    <3>1. CASE req' = [req EXCEPT ![r] = Idle]
      BY <1>0, <3>1
    <3>2. CASE req' # [req EXCEPT ![r] = Idle]
      <4>1. /\ sent < MaxSends
            /\ req' = [req EXCEPT ![r].step = "store", ![r].code = sent + 1]
        BY <1>3, <3>2 DEF CheckLock, Finish
      <4>2. sent + 1 \in Codes
        BY <4>1, BoundsAreNat DEF Codes
      <4>3. [req[r] EXCEPT !.step = "store", !.code = sent + 1] \in Request
        BY <4>2 DEF Request, Steps
      <4> QED BY <4>1, <4>3
    <3> QED BY <3>1, <3>2
  <2> QED BY <1>3, <2>1, <2>2 DEF CheckLock
<1>4. ASSUME NEW r \in Slots, StoreOtp(r)
      PROVE  TypeOK'
  BY <1>4, BoundsAreNat DEF StoreOtp, Answers, Goto, Request, Steps
<1>5. ASSUME NEW r \in Slots, ResetAttempts(r)
      PROVE  TypeOK'
  BY <1>5, BoundsAreNat DEF ResetAttempts, Answers, Goto, Request, Steps
<1>6. ASSUME NEW r \in Slots, SendSms(r) \/ Fail(r)
      PROVE  TypeOK'
  BY <1>0, <1>6, BoundsAreNat DEF SendSms, Fail, Finish
<1>7. ASSUME NEW r \in Slots, ReadOtp(r)
      PROVE  TypeOK'
  BY <1>0, <1>7, BoundsAreNat DEF ReadOtp, Answers, Finish, Request, Steps
<1>8. ASSUME NEW r \in Slots, CountAttempt(r)
      PROVE  TypeOK'
  <2>1. req[r].stored \in Codes
    BY <1>8 DEF CountAttempt, CodesInv, Holding, Request
  <2>2. attempts' \in Nat /\ faults' \in 0..MaxFaults
    BY <1>8, BoundsAreNat DEF CountAttempt, Answers
  <2>3. tried' \in [Codes -> Nat]
    BY <1>8, <2>1 DEF CountAttempt
  <2>4. req' \in [Slots -> Request]
    BY <1>0, <1>8 DEF CountAttempt, Goto, Finish, Request, Steps
  <2> QED BY <1>8, <2>2, <2>3, <2>4 DEF CountAttempt
<1>9. ASSUME NEW r \in Slots, SetLock(r)
      PROVE  TypeOK'
  BY <1>9, BoundsAreNat DEF SetLock, Answers, Goto, Request, Steps
<1>10. ASSUME NEW r \in Slots, LockDeletesOtp(r)
       PROVE  TypeOK'
  BY <1>0, <1>10, BoundsAreNat DEF LockDeletesOtp, DeleteOtp, Answers, Finish
<1>11. ASSUME NEW r \in Slots, ConsumeOtp(r)
       PROVE  TypeOK'
  BY <1>11, BoundsAreNat DEF ConsumeOtp, DeleteOtp, Answers, Goto, Request, Steps
<1>12. ASSUME NEW r \in Slots, ClearAttempts(r)
       PROVE  TypeOK'
  BY <1>12, BoundsAreNat DEF ClearAttempts, Answers, Goto, Request, Steps
<1>13. ASSUME NEW r \in Slots, FindUser(r)
       PROVE  TypeOK'
  BY <1>13 DEF FindUser, Goto, Request, Steps
<1>14. ASSUME NEW r \in Slots, CreateUser(r)
       PROVE  TypeOK'
  BY <1>0, <1>14 DEF CreateUser, Goto, Finish, Request, Steps
<1>15. ASSUME NEW r \in Slots, CreateSession(r)
       PROVE  TypeOK'
  <2>1. req[r].code \in Codes
    BY <1>15 DEF CreateSession, CodesInv, Holding, Accepted, Request
  <2> QED BY <1>0, <1>15, <2>1 DEF CreateSession, Finish
<1>16. ASSUME ExpireOtp \/ ExpireAttempts \/ ExpireLock
       PROVE  TypeOK'
  <2>1. CASE ExpireOtp
    BY <2>1 DEF ExpireOtp
  <2>2. CASE ExpireAttempts
    BY <2>2 DEF ExpireAttempts
  <2>3. CASE ExpireLock
    BY <2>3 DEF ExpireLock
  <2> QED BY <1>16, <2>1, <2>2, <2>3
<1> QED BY <1>1, <1>2, <1>3, <1>4, <1>5, <1>6, <1>7, <1>8, <1>9, <1>10, <1>11,
           <1>12, <1>13, <1>14, <1>15, <1>16 DEF Next, Continue

\* What a step of request r, other than the generation and the SET of a code,
\* may do to the codes.
Follows(r, q) ==
  /\ req' = [req EXCEPT ![r] = q]
  /\ Holding(q) /\ q.step # "store"
  /\ q.step \in SendSteps =>
       \/ q.code = None
       \/ req[r].step \in SendSteps /\ q.code = req[r].code
  /\ q.stored \in {None, otp, req[r].stored}
  /\ otp' \in {otp, None} /\ sent' = sent
  /\ \A c \in Codes : Unused(c) => tried'[c] = 0 /\ logins'[c] = 0

LEMMA RequestFollows ==
  ASSUME CodeInv, NEW r \in Slots,
         \/ SendOtp(r) \/ ResetAttempts(r) \/ SendSms(r) \/ Fail(r)
         \/ \E code \in {None} \cup Codes : VerifyOtp(r, code)
         \/ ReadOtp(r) \/ CountAttempt(r) \/ SetLock(r) \/ LockDeletesOtp(r)
         \/ ConsumeOtp(r) \/ ClearAttempts(r) \/ FindUser(r) \/ CreateUser(r)
         \/ CreateSession(r)
  PROVE  \E q \in Request : Follows(r, q)
<1> USE DEF CodeInv, TypeOK
<1>0. /\ Holding(req[r]) /\ req[r] \in Request
      /\ Holding(Idle) /\ Idle \in Request /\ Idle.step = "idle"
      /\ Idle.stored = None /\ Idle.code = None
      /\ \A c \in Codes : c # None /\ c \in Nat
      /\ \A c \in Codes : Unused(c) => tried[c] = 0 /\ logins[c] = 0
  BY DEF CodesInv, Holding, Idle, None, Request, Steps, SendSteps, Accepted,
     Unused, Codes
<1>1. ASSUME req' = [req EXCEPT ![r] = Idle], otp' \in {otp, None}, sent' = sent,
             UNCHANGED <<tried, logins>>
      PROVE  Follows(r, Idle)
  BY <1>0, <1>1 DEF Follows, SendSteps
<1>2. ASSUME NEW step \in Steps, Goto(r, step), otp' \in {otp, None},
             UNCHANGED <<sent, tried, logins>>, step # "store",
             step \in SendSteps => \/ req[r].step \in SendSteps /\ step = "sms"
                                   \/ req[r] = Idle,
             step \in Accepted => req[r].step \in Accepted,
             step \notin {"count", "reset"}
      PROVE  \E q \in Request : Follows(r, q)
  <2> DEFINE q == [req[r] EXCEPT !.step = step]
  <2>1. /\ q \in Request /\ q.step = step
        /\ q.code = req[r].code /\ q.stored = req[r].stored
    BY <1>0 DEF Request
  <2>2. req' = [req EXCEPT ![r] = q]
    BY <1>2 DEF Goto
  <2> HIDE DEF q
  <2>3. Holding(q)
    BY <1>0, <1>2, <2>1 DEF Holding, SendSteps, Accepted
  <2> QED BY <1>0, <1>2, <2>1, <2>2, <2>3 DEF Follows, SendSteps
<1>3. CASE SendOtp(r)
  BY <1>2, <1>3 DEF SendOtp, Steps, SendSteps, Accepted
<1>4. CASE ResetAttempts(r)
  BY <1>2, <1>4 DEF ResetAttempts, Steps, SendSteps, Accepted
<1>5. CASE SendSms(r) \/ Fail(r)
  BY <1>0, <1>1, <1>5 DEF SendSms, Fail, Finish
<1>6. ASSUME NEW code \in {None} \cup Codes, VerifyOtp(r, code)
      PROVE  \E q \in Request : Follows(r, q)
  <2> DEFINE q == [Idle EXCEPT !.step = "read", !.code = code]
  <2>1. /\ q \in Request /\ q.step = "read"
        /\ q.code = code /\ q.stored = None
    BY DEF Idle, Request, Steps
  <2>2. req' = [req EXCEPT ![r] = q]
    BY <1>6 DEF VerifyOtp
  <2> HIDE DEF q
  <2>3. code <= sent /\ None <= sent
    <3>1. code <= sent
      BY <1>6, Zenon DEF VerifyOtp
    <3>2. None <= sent
      BY BoundsAreNat DEF None
    <3> QED BY <3>1, <3>2
  <2>4. Holding(q)
    BY <2>1, <2>3 DEF Holding, SendSteps, Accepted
  <2> QED BY <1>0, <1>6, <2>1, <2>2, <2>4 DEF Follows, SendSteps, VerifyOtp
<1>7. CASE ReadOtp(r)
  <2>1. CASE req' = [req EXCEPT ![r] = Idle]
    BY <1>0, <1>1, <1>7, <2>1 DEF ReadOtp
  <2>2. CASE req' # [req EXCEPT ![r] = Idle]
    <3> DEFINE q == [req[r] EXCEPT !.step = "count", !.stored = otp]
    <3>1. otp # None /\ req' = [req EXCEPT ![r] = q]
      BY <1>7, <2>2 DEF ReadOtp, Finish
    <3>2. /\ q \in Request /\ q.step = "count"
          /\ q.code = req[r].code /\ q.stored = otp
      BY <1>0 DEF Request, Steps
    <3> HIDE DEF q
    <3>3. Holding(q)
      BY <1>0, <3>1, <3>2 DEF Holding, CodesInv, SendSteps, Accepted
    <3> QED BY <1>0, <1>7, <3>1, <3>2, <3>3 DEF Follows, SendSteps, ReadOtp
  <2> QED BY <2>1, <2>2
<1>8. CASE CountAttempt(r)
  <2>1. req[r].step = "count" /\ req[r].stored \in Codes
    BY <1>0, <1>8 DEF CountAttempt, Holding, Request
  <2>2. \A c \in Codes : Unused(c) => tried'[c] = 0 /\ logins'[c] = 0
    BY <1>0, <1>8, <2>1 DEF CountAttempt, Unused
  <2>3. CASE req' = [req EXCEPT ![r] = Idle]
    BY <1>0, <1>8, <2>2, <2>3 DEF CountAttempt, Follows, SendSteps
  <2>4. ASSUME NEW step \in {"lock", "consume"}, Goto(r, step),
               step = "consume" => req[r].code = req[r].stored
        PROVE  \E q \in Request : Follows(r, q)
    <3> DEFINE q == [req[r] EXCEPT !.step = step]
    <3>1. /\ q \in Request /\ q.step = step
          /\ q.code = req[r].code /\ q.stored = req[r].stored
      BY <1>0, <2>4 DEF Request, Steps
    <3>2. req' = [req EXCEPT ![r] = q]
      BY <2>4 DEF Goto
    <3> HIDE DEF q
    <3>3. Holding(q)
      BY <1>0, <2>1, <2>4, <3>1 DEF Holding, SendSteps, Accepted
    <3> QED BY <1>0, <1>8, <2>2, <2>4, <3>1, <3>2, <3>3
            DEF Follows, SendSteps, CountAttempt
  <2> QED BY <1>0, <1>8, <2>3, <2>4 DEF CountAttempt, Finish
<1>9. CASE SetLock(r)
  BY <1>2, <1>9 DEF SetLock, Steps, SendSteps, Accepted
<1>10. CASE LockDeletesOtp(r)
  BY <1>0, <1>1, <1>10 DEF LockDeletesOtp, DeleteOtp, Finish
<1>11. CASE ConsumeOtp(r)
  BY <1>2, <1>11 DEF ConsumeOtp, DeleteOtp, Steps, SendSteps, Accepted
<1>12. CASE ClearAttempts(r)
  BY <1>2, <1>12 DEF ClearAttempts, Steps, SendSteps, Accepted
<1>13. CASE FindUser(r)
  BY <1>2, <1>13 DEF FindUser, Steps, SendSteps, Accepted
<1>14. CASE CreateUser(r)
  BY <1>0, <1>1, <1>2, <1>14 DEF CreateUser, Finish, Steps, SendSteps, Accepted
<1>15. CASE CreateSession(r)
  <2>1. req[r].code \in Codes /\ req[r].code = req[r].stored
    BY <1>0, <1>15 DEF CreateSession, Holding, Accepted, Request
  <2>2. \A c \in Codes : Unused(c) => tried'[c] = 0 /\ logins'[c] = 0
    BY <1>0, <1>15, <2>1 DEF CreateSession, Unused
  <2> QED BY <1>0, <1>15, <2>2 DEF CreateSession, Finish, Follows, SendSteps
<1> QED BY <1>3, <1>4, <1>5, <1>6, <1>7, <1>8, <1>9, <1>10, <1>11, <1>12,
           <1>13, <1>14, <1>15

LEMMA FollowsKeeps ==
  ASSUME CodeInv, NEW r \in Slots, NEW q \in Request, Follows(r, q)
  PROVE  CodesInv'
<1> USE DEF CodeInv, TypeOK
<1>1. \A x \in Slots : req'[x] = IF x = r THEN q ELSE req[x]
  BY DEF Follows
<1>2. ASSUME NEW c \in Codes, Unused(c)
      PROVE  Unused(c)'
  BY <1>1, <1>2 DEF Follows, Unused, None, Codes
<1>3. otp' <= sent' /\ \A x \in Slots : Holding(req[x])'
  BY <1>1 DEF Follows, Holding, CodesInv, None
<1>4. \A c \in Codes : c > sent' => Unused(c)'
  BY <1>2 DEF Follows, CodesInv
<1>5. ASSUME NEW x \in Slots, req'[x].step = "store"
      PROVE  /\ Unused(req[x].code)'
             /\ \A y \in Slots \ {x} :
                  req'[y].step \in SendSteps => req'[y].code # req'[x].code
  <2>1. x # r /\ req'[x] = req[x] /\ req[x].step = "store"
    BY <1>1, <1>5 DEF Follows
  <2>2. PICK c \in Codes : c = req[x].code
    BY <2>1 DEF CodesInv, Holding, Request
  <2>3. Unused(c) /\ c # None
    BY <2>1, <2>2 DEF CodesInv, Codes, None
  <2>4. Unused(c)'
    BY <1>2, <2>3
  <2>5. Unused(req[x].code)'
    BY <2>1, <2>2, <2>4 DEF Unused
  <2>6. ASSUME NEW y \in Slots \ {x}, req'[y].step \in SendSteps
        PROVE  req'[y].code # c
    BY <1>1, <2>1, <2>2, <2>3, <2>6 DEF CodesInv, Follows
  <2> QED BY <2>1, <2>2, <2>5, <2>6
<1> QED BY <1>3, <1>4, <1>5 DEF CodesInv

LEMMA CheckLockKeeps ==
  ASSUME CodeInv, NEW r \in Slots, CheckLock(r)
  PROVE  CodesInv'
<1> USE DEF CodeInv, TypeOK
<1>1. CASE req' = [req EXCEPT ![r] = Idle] /\ sent' = sent
  <2>1. Holding(Idle) /\ Idle.stored = None /\ Idle.step = "idle"
        /\ Idle \in Request
    BY BoundsAreNat DEF Idle, Holding, None, SendSteps, Accepted, Request, Steps
  <2>2. \A c \in Codes : Unused(c) => tried'[c] = 0 /\ logins'[c] = 0
    BY <1>1 DEF CheckLock, Unused
  <2>3. Follows(r, Idle)
    BY <1>1, <2>1, <2>2 DEF Follows, SendSteps, CheckLock
  <2> QED BY <2>1, <2>3, FollowsKeeps
<1>2. CASE /\ sent < MaxSends /\ sent' = sent + 1
           /\ req' = [req EXCEPT ![r].step = "store", ![r].code = sent + 1]
  <2>1. PICK d \in Codes : d = sent + 1
    BY <1>2, BoundsAreNat DEF Codes
  <2>2. PICK q \in Request :
          /\ \A x \in Slots : req'[x] = IF x = r THEN q ELSE req[x]
          /\ q.step = "store" /\ q.code = d /\ q.stored = None
    <3> DEFINE q == [req[r] EXCEPT !.step = "store", !.code = sent + 1]
    <3>1. /\ q \in Request /\ q.step = "store"
          /\ q.code = d /\ q.stored = None
      BY <1>2, <2>1 DEF CheckLock, Request, Steps, CodesInv, Holding, SendSteps
    <3>2. \A x \in Slots : req'[x] = IF x = r THEN q ELSE req[x]
      BY <1>2
    <3> HIDE DEF q
    <3> QED BY <3>1, <3>2
  <2>3. ASSUME NEW c \in Codes, Unused(c) PROVE Unused(c)'
    BY <1>2, <2>2, <2>3 DEF Unused, CheckLock, None, Codes
  <2>4. d > sent /\ d # None /\ sent \in Nat /\ sent' = d
    BY <1>2, <2>1, BoundsAreNat DEF None
  <2>5. Unused(d)
    BY <2>4 DEF CodesInv
  <2>6. Holding(q)'
    BY <1>2, <2>2, <2>4 DEF Holding, None, SendSteps, Accepted
  <2>7. ASSUME NEW x \in Slots PROVE Holding(req[x])'
    <3>1. CASE x = r
      BY <2>2, <2>6, <3>1 DEF Holding
    <3>2. CASE x # r
      <4>1. /\ req[x] \in Request
            /\ req[x].code \in Int /\ req[x].stored \in Int
        BY DEF Request, Codes, None
      <4> QED BY <2>1, <2>2, <2>4, <3>2, <4>1 DEF Holding, CodesInv
    <3> QED BY <3>1, <3>2
  <2>8. otp' <= sent' /\ \A c \in Codes : c > sent' => Unused(c)'
    BY <1>2, <2>1, <2>3, <2>4 DEF CodesInv, CheckLock, Codes, None
  <2>9. ASSUME NEW x \in Slots, req'[x].step = "store"
        PROVE  /\ Unused(req[x].code)'
               /\ \A y \in Slots \ {x} :
                    req'[y].step \in SendSteps => req'[y].code # req'[x].code
    <3>1. \A y \in Slots : req[y].code # d
      BY <2>4 DEF CodesInv, Holding, Request, Codes, None
    <3>2. CASE x = r
      <4>1. Unused(d)' /\ req'[x].code = d
        BY <2>2, <2>3, <2>5, <3>2
      <4>2. Unused(req[x].code)'
        BY <4>1 DEF Unused
      <4> QED BY <2>2, <3>1, <3>2, <4>1, <4>2
    <3>3. CASE x # r
      <4>1. PICK c \in Codes : c = req[x].code
        BY <2>2, <2>9, <3>3 DEF CodesInv, Holding, Request
      <4>2. Unused(c)'
        BY <2>2, <2>3, <2>9, <3>3, <4>1 DEF CodesInv
      <4>3. Unused(req[x].code)'
        BY <2>2, <3>3, <4>1, <4>2 DEF Unused
      <4> QED BY <2>2, <2>9, <3>1, <3>3, <4>3 DEF CodesInv
    <3> QED BY <3>2, <3>3
  <2> QED BY <2>7, <2>8, <2>9 DEF CodesInv
<1> QED BY <1>1, <1>2 DEF CheckLock, Finish

LEMMA StoreOtpKeeps ==
  ASSUME CodeInv, NEW r \in Slots, StoreOtp(r)
  PROVE  CodesInv'
<1> USE DEF CodeInv, TypeOK
<1> DEFINE q == [req[r] EXCEPT !.step = "reset"]
<1>1. PICK d \in Codes : d = req[r].code
  BY DEF StoreOtp, CodesInv, Holding, Request
<1>2. /\ q.step = "reset" /\ q.code = d /\ q.stored = None /\ d # None
      /\ req[r].step = "store" /\ Unused(d) /\ d <= sent
  BY <1>1 DEF StoreOtp, Request, CodesInv, Holding, SendSteps, Codes, None
<1>3. \A x \in Slots : req'[x] = IF x = r THEN q ELSE req[x]
  BY DEF StoreOtp, Goto
<1> HIDE DEF q
<1>4. otp' \in {otp, d} /\ UNCHANGED <<tried, logins, sent>>
  BY <1>1 DEF StoreOtp
<1>5. ASSUME NEW c \in Codes, Unused(c), c # d PROVE Unused(c)'
  BY <1>2, <1>3, <1>4, <1>5 DEF Unused, None, Codes
<1>6. otp' <= sent' /\ \A x \in Slots : Holding(req[x])'
  <2>1. Holding(q)
    BY <1>2, BoundsAreNat DEF Holding, None, SendSteps, Accepted
  <2>2. \A x \in Slots : Holding(req[x])
    BY DEF CodesInv
  <2> QED BY <1>2, <1>3, <1>4, <2>1, <2>2 DEF Holding, CodesInv
<1>7. \A c \in Codes : c > sent' => Unused(c)'
  BY <1>2, <1>4, <1>5, BoundsAreNat DEF CodesInv, Codes
<1>8. ASSUME NEW x \in Slots, req'[x].step = "store"
      PROVE  /\ Unused(req[x].code)'
             /\ \A y \in Slots \ {x} :
                  req'[y].step \in SendSteps => req'[y].code # req'[x].code
  <2>1. x # r /\ req'[x] = req[x] /\ req[x].step = "store"
    BY <1>2, <1>3, <1>8
  <2>2. PICK c \in Codes : c = req[x].code
    BY <2>1 DEF CodesInv, Holding, Request
  <2>3. c # d /\ Unused(c)
    BY <1>1, <1>2, <2>1, <2>2 DEF CodesInv, SendSteps
  <2>4. Unused(c)'
    BY <1>5, <2>3
  <2>5. Unused(req[x].code)'
    BY <2>1, <2>2, <2>4 DEF Unused
  <2>6. \A y \in Slots \ {x} : req'[y].step \in SendSteps => req'[y].code # c
    BY <1>1, <1>2, <1>3, <2>1, <2>2, <2>3 DEF CodesInv
  <2> QED BY <2>1, <2>2, <2>5, <2>6
<1> QED BY <1>6, <1>7, <1>8 DEF CodesInv

LEMMA CodeInvKept ==
  ASSUME CodeInv, [Next]_vars
  PROVE  CodeInv'
<1>1. CASE UNCHANGED vars
  BY <1>1 DEF vars, CodeInv, TypeOK, CodesInv, Unused, Holding
<1>2. CASE ExpireOtp \/ ExpireAttempts \/ ExpireLock
  <2>1. otp' \in {otp, None} /\ UNCHANGED <<tried, logins, req, sent>>
    BY <1>2 DEF ExpireOtp, ExpireAttempts, ExpireLock
  <2>2. ASSUME NEW c \in Codes, Unused(c) PROVE Unused(c)'
    BY <2>1, <2>2 DEF Unused, None, Codes
  <2>3. otp' <= sent' /\ \A x \in Slots : Holding(req[x])'
    BY <2>1, BoundsAreNat DEF CodeInv, TypeOK, CodesInv, Holding, None
  <2>4. ASSUME NEW x \in Slots, req[x].step = "store"
        PROVE  Unused(req[x].code)'
    <3>1. PICK c \in Codes : c = req[x].code
      BY <2>4 DEF CodeInv, TypeOK, CodesInv, Holding, Request
    <3>2. Unused(c)'
      BY <2>2, <2>4, <3>1 DEF CodeInv, CodesInv
    <3> QED BY <2>1, <3>1, <3>2 DEF Unused
  <2>5. CodesInv'
    BY <2>1, <2>2, <2>3, <2>4 DEF CodeInv, CodesInv
  <2> QED BY <1>2, <2>5, TypeKept DEF CodeInv, Next
<1>3. ASSUME NEW r \in Slots, Next, CheckLock(r) PROVE CodeInv'
  BY <1>3, CheckLockKeeps, TypeKept DEF CodeInv
<1>4. ASSUME NEW r \in Slots, Next, StoreOtp(r) PROVE CodeInv'
  BY <1>4, StoreOtpKeeps, TypeKept DEF CodeInv
<1>5. ASSUME NEW r \in Slots, Next, NEW q \in Request, Follows(r, q)
      PROVE  CodeInv'
  BY <1>5, FollowsKeeps, TypeKept DEF CodeInv
<1> QED BY <1>1, <1>2, <1>3, <1>4, <1>5, RequestFollows DEF Next, Continue

LEMMA CodeInvariance == Spec => []CodeInv
BY OtpInitInv, CodeInvKept, PTL DEF Spec

\* Every state is well-typed: above all, no guess is counted against, and no
\* session opened with, a code that was never stored, and the counter never
\* goes below zero.
THEOREM OtpTyped == Spec => []TypeOK
<1>1. CodeInv => TypeOK
  BY DEF CodeInv
<1> QED BY <1>1, CodeInvariance, PTL

(*-------------------------------- One-time codes -----------------------------*)

\* Verifications that read code c, and those already past its deletion.
Holders(c) ==
  {r \in Slots : req[r].stored = c /\ req[r].step \in {"count"} \cup Accepted}
Through(c) == {r \in Slots : req[r].stored = c /\ req[r].step \in Consumed}

\* A code that got somebody through and is still stored owes it to a DEL that
\* failed; after its deletion only those who hold it log in.
LoginBound(c) ==
  /\ otp = c => logins[c] + Cardinality(Through(c)) <= faults
  /\ logins[c] + Cardinality(Holders(c)) <= Cardinality(Slots) + faults

LoginInv == \A c \in Codes : LoginBound(c)

\* A live code's first bound implies its second.
LEMMA LiveBound ==
  ASSUME TypeOK, NEW c \in Codes,
         logins[c] + Cardinality(Through(c)) <= faults
  PROVE  LoginBound(c)
<1>1. Holders(c) \in SUBSET Slots /\ Through(c) \in SUBSET Slots
  BY DEF Holders, Through
<1>2. /\ Cardinality(Holders(c)) \in Nat /\ Cardinality(Through(c)) \in Nat
      /\ Cardinality(Slots) \in Nat
      /\ Cardinality(Holders(c)) <= Cardinality(Slots)
  BY <1>1, SlotSets
<1>3. logins[c] \in Nat /\ faults \in Nat
  BY BoundsAreNat DEF TypeOK
<1> QED BY <1>2, <1>3 DEF LoginBound

\* Steps by which nobody else comes to hold code c, or gets past its deletion.
LEMMA LoginBoundKept ==
  ASSUME TypeOK, TypeOK', NEW c \in Codes, LoginBound(c),
         logins'[c] = logins[c], faults <= faults', otp' = c => otp = c,
         Through(c)' \subseteq Through(c), Holders(c)' \subseteq Holders(c)
  PROVE  LoginBound(c)'
<1>1. Holders(c) \in SUBSET Slots /\ Through(c) \in SUBSET Slots
  BY DEF Holders, Through
<1>2. /\ Cardinality(Holders(c)) \in Nat /\ Cardinality(Through(c)) \in Nat
      /\ Cardinality(Slots) \in Nat
      /\ Cardinality(Holders(c)') <= Cardinality(Holders(c))
      /\ Cardinality(Through(c)') <= Cardinality(Through(c))
  BY <1>1, SlotSets
<1>3. Cardinality(Holders(c)') \in Nat /\ Cardinality(Through(c)') \in Nat
  <2>1. Holders(c)' \in SUBSET Slots /\ Through(c)' \in SUBSET Slots
    BY <1>1
  <2> QED BY <2>1, SlotSets
<1>4. logins[c] \in Nat /\ faults \in Nat /\ faults' \in Nat
  BY BoundsAreNat DEF TypeOK
<1> QED BY <1>2, <1>3, <1>4 DEF LoginBound

\* A step of request r that neither takes up a code nor passes its deletion.
NoNearer(r, q) ==
  /\ req' = [req EXCEPT ![r] = q]
  /\ q.step \in {"count"} \cup Accepted =>
       /\ req[r].step \in {"count"} \cup Accepted
       /\ q.stored = req[r].stored
  /\ q.step \in Consumed => req[r].step \in Consumed
  /\ UNCHANGED logins /\ otp' \in {otp, None} /\ faults <= faults'

LEMMA NoNearerKeeps ==
  ASSUME CodeInv, TypeOK', LoginInv, NEW r \in Slots, NEW q \in Request,
         NoNearer(r, q)
  PROVE  LoginInv'
<1> SUFFICES ASSUME NEW c \in Codes PROVE LoginBound(c)'
  BY DEF LoginInv
<1> USE DEF CodeInv
<1>1. \A x \in Slots : req'[x] = IF x = r THEN q ELSE req[x]
  BY DEF NoNearer, TypeOK
<1>2. /\ Through(c)' \subseteq Through(c)
      /\ Holders(c)' \subseteq Holders(c)
  BY <1>1 DEF NoNearer, Through, Holders, Consumed, Accepted
<1>3. otp' = c => otp = c
  BY DEF NoNearer, None, Codes
<1> QED BY <1>2, <1>3, LoginBoundKept DEF NoNearer, LoginInv

LEMMA NoNearerSteps ==
  ASSUME CodeInv, NEW r \in Slots,
         \/ SendOtp(r) \/ CheckLock(r) \/ ResetAttempts(r) \/ SendSms(r)
         \/ Fail(r) \/ \E code \in {None} \cup Codes : VerifyOtp(r, code)
         \/ CountAttempt(r) \/ SetLock(r) \/ LockDeletesOtp(r)
         \/ ClearAttempts(r) \/ FindUser(r) \/ CreateUser(r)
  PROVE  \E q \in Request : NoNearer(r, q)
<1> USE DEF CodeInv, TypeOK
<1>0. /\ Idle \in Request /\ Idle.step = "idle" /\ req[r] \in Request
      /\ faults \in Nat
  BY BoundsAreNat DEF Idle, Request, Steps, None
<1>1. ASSUME Finish(r), UNCHANGED logins, otp' \in {otp, None},
             faults <= faults'
      PROVE  NoNearer(r, Idle)
  BY <1>0, <1>1 DEF NoNearer, Finish, Consumed, Accepted
<1>2. ASSUME NEW step \in Steps, Goto(r, step), UNCHANGED <<otp, logins>>,
             faults <= faults', step # "count",
             step \in Accepted => req[r].step \in {"count"} \cup Accepted,
             step \in Consumed => req[r].step \in Consumed
      PROVE  \E q \in Request : NoNearer(r, q)
  <2> DEFINE q == [req[r] EXCEPT !.step = step]
  <2>1. q \in Request /\ q.step = step /\ q.stored = req[r].stored
    BY <1>0 DEF Request
  <2>2. req' = [req EXCEPT ![r] = q]
    BY <1>2 DEF Goto
  <2> HIDE DEF q
  <2> QED BY <1>2, <2>1, <2>2 DEF NoNearer, Consumed, Accepted
<1>3. ASSUME NEW ok \in BOOLEAN, Answers(ok) PROVE faults <= faults'
  BY <1>0, <1>3 DEF Answers
<1>4. CASE SendOtp(r)
  BY <1>0, <1>2, <1>4 DEF SendOtp, Steps, Consumed, Accepted
<1>5. CASE CheckLock(r)
  <2>1. UNCHANGED <<otp, logins>> /\ faults <= faults'
    BY <1>3, <1>5 DEF CheckLock
  <2>2. CASE Finish(r)
    BY <1>0, <1>1, <2>1, <2>2
  <2>3. CASE /\ sent < MaxSends
             /\ req' = [req EXCEPT ![r].step = "store", ![r].code = sent + 1]
    <3> DEFINE q == [req[r] EXCEPT !.step = "store", !.code = sent + 1]
    <3>1. sent + 1 \in Codes
      BY <2>3, BoundsAreNat DEF Codes
    <3>2. q \in Request /\ q.step = "store" /\ req' = [req EXCEPT ![r] = q]
      BY <1>0, <2>3, <3>1 DEF Request, Steps
    <3> HIDE DEF q
    <3> QED BY <2>1, <3>2 DEF NoNearer, Consumed, Accepted
  <2> QED BY <1>5, <2>2, <2>3 DEF CheckLock
<1>6. CASE ResetAttempts(r)
  BY <1>2, <1>3, <1>6 DEF ResetAttempts, Steps, Consumed, Accepted
<1>7. CASE SendSms(r) \/ Fail(r)
  BY <1>0, <1>1, <1>7 DEF SendSms, Fail
<1>8. ASSUME NEW code \in {None} \cup Codes, VerifyOtp(r, code)
      PROVE  \E q \in Request : NoNearer(r, q)
  <2> DEFINE q == [req[r] EXCEPT !.step = "read", !.code = code]
  <2>1. q \in Request /\ q.step = "read" /\ req' = [req EXCEPT ![r] = q]
    BY <1>0, <1>8 DEF VerifyOtp, Request, Steps
  <2> HIDE DEF q
  <2>2. UNCHANGED <<otp, logins, faults>>
    BY <1>8 DEF VerifyOtp
  <2>3. faults <= faults'
    BY <1>0, <2>2
  <2>4. NoNearer(r, q)
    BY <2>1, <2>2, <2>3 DEF NoNearer, Consumed, Accepted
  <2> QED BY <2>1, <2>4
<1>9. CASE CountAttempt(r)
  <2>1. UNCHANGED <<otp, logins>> /\ faults <= faults'
    BY <1>3, <1>9 DEF CountAttempt
  <2>2. Finish(r) \/ Goto(r, "lock") \/ Goto(r, "consume")
    BY <1>9 DEF CountAttempt
  <2>3. req[r].step = "count"
    BY <1>9 DEF CountAttempt
  <2> QED BY <1>0, <1>1, <1>2, <2>1, <2>2, <2>3 DEF Steps, Consumed, Accepted
<1>10. CASE SetLock(r)
  BY <1>2, <1>3, <1>10 DEF SetLock, Steps, Consumed, Accepted
<1>11. CASE LockDeletesOtp(r)
  BY <1>0, <1>1, <1>3, <1>11 DEF LockDeletesOtp, DeleteOtp
<1>12. CASE ClearAttempts(r)
  BY <1>2, <1>3, <1>12 DEF ClearAttempts, Steps, Consumed, Accepted
<1>13. CASE FindUser(r)
  BY <1>0, <1>2, <1>13 DEF FindUser, Steps, Consumed, Accepted
<1>14. CASE CreateUser(r)
  BY <1>0, <1>1, <1>2, <1>14 DEF CreateUser, Steps, Consumed, Accepted
<1> QED BY <1>4, <1>5, <1>6, <1>7, <1>8, <1>9, <1>10, <1>11, <1>12, <1>13,
           <1>14

\* The only way to hold a code is to have read it while it was stored.
LEMMA ReadOtpLogins ==
  ASSUME CodeInv, TypeOK', LoginInv, NEW r \in Slots, ReadOtp(r)
  PROVE  LoginInv'
<1> USE DEF CodeInv
<1>1. faults \in Nat /\ faults <= faults' /\ UNCHANGED <<otp, logins>>
  BY BoundsAreNat DEF ReadOtp, Answers, TypeOK
<1>2. CASE Finish(r)
  <2>1. Idle \in Request /\ NoNearer(r, Idle)
    BY <1>1, <1>2 DEF NoNearer, Finish, Idle, Consumed, Accepted, Request, Steps,
       None
  <2> QED BY <2>1, NoNearerKeeps
<1>3. CASE /\ otp # None
           /\ req' = [req EXCEPT ![r].step = "count", ![r].stored = otp]
  <2>1. /\ \A x \in Slots \ {r} : req'[x] = req[x]
        /\ req'[r].step = "count" /\ req'[r].stored = otp
    BY <1>3 DEF TypeOK, Request
  <2> SUFFICES ASSUME NEW c \in Codes PROVE LoginBound(c)'
    BY DEF LoginInv
  <2>2. Through(c)' \subseteq Through(c)
    BY <2>1 DEF Through, Consumed
  <2>3. CASE otp = c
    <3>1. Through(c) \in SUBSET Slots /\ Through(c)' \in SUBSET Through(c)
      BY <2>2 DEF Through
    <3>2. /\ Cardinality(Through(c)) \in Nat /\ Cardinality(Through(c)') \in Nat
          /\ Cardinality(Through(c)') <= Cardinality(Through(c))
      BY <3>1, SlotSets
    <3>3. logins[c] \in Nat /\ faults' \in Nat /\ logins'[c] = logins[c]
      BY <1>1, BoundsAreNat DEF TypeOK
    <3>4. logins[c] + Cardinality(Through(c)) <= faults
      BY <2>3 DEF LoginInv, LoginBound
    <3>5. (logins[c] + Cardinality(Through(c)) <= faults)'
      BY <1>1, <3>2, <3>3, <3>4
    <3>6. Holders(c)' \in SUBSET Slots
      BY DEF Holders
    <3>7. /\ Cardinality(Holders(c)') \in Nat /\ Cardinality(Slots) \in Nat
          /\ Cardinality(Holders(c)') <= Cardinality(Slots)
      BY <3>6, SlotSets
    <3> QED BY <3>2, <3>3, <3>5, <3>7 DEF LoginBound
  <2>4. CASE otp # c
    <3>1. Holders(c)' \subseteq Holders(c)
      BY <2>1, <2>4 DEF Holders, Accepted
    <3> QED BY <1>1, <2>2, <2>4, <3>1, LoginBoundKept DEF LoginInv
  <2> QED BY <2>3, <2>4
<1> QED BY <1>2, <1>3 DEF ReadOtp

\* A code is stored before anybody holds it.
LEMMA StoreOtpLogins ==
  ASSUME CodeInv, TypeOK', LoginInv, NEW r \in Slots, StoreOtp(r)
  PROVE  LoginInv'
<1> USE DEF CodeInv
<1>0. PICK d \in Codes : d = req[r].code
  BY DEF StoreOtp, CodesInv, Holding, TypeOK, Request
<1>1. /\ \A x \in Slots \ {r} : req'[x] = req[x]
      /\ req'[r].step = "reset" /\ otp' \in {otp, d} /\ UNCHANGED logins
      /\ Unused(d)
  BY <1>0 DEF StoreOtp, Goto, TypeOK, Request, CodesInv
<1>2. faults \in Nat /\ faults' \in Nat /\ faults <= faults'
  BY BoundsAreNat DEF StoreOtp, Answers, TypeOK
<1> SUFFICES ASSUME NEW c \in Codes PROVE LoginBound(c)'
  BY DEF LoginInv
<1>3. Through(c)' \subseteq Through(c) /\ Holders(c)' \subseteq Holders(c)
  BY <1>1 DEF Through, Holders, Consumed, Accepted
<1>4. CASE c # d
  BY <1>1, <1>2, <1>3, <1>4, LoginBoundKept DEF LoginInv
<1>5. CASE c = d
  <2>1. Through(c)' = {} /\ Holders(c)' = {} /\ logins'[c] = 0
    BY <1>1, <1>3, <1>5 DEF Unused, Through, Holders
  <2>2. Cardinality(Slots) \in Nat /\ Cardinality(Through(c)') = 0
        /\ Cardinality(Holders(c)') = 0
    BY <2>1, SlotsAreFinite, FS_CardinalityType, FS_EmptySet
  <2> QED BY <1>2, <2>1, <2>2 DEF LoginBound
<1> QED BY <1>4, <1>5

\* Either the code is gone, or a fault pays for the login.
LEMMA ConsumeOtpLogins ==
  ASSUME CodeInv, TypeOK', LoginInv, NEW r \in Slots, ConsumeOtp(r)
  PROVE  LoginInv'
<1> USE DEF CodeInv
<1>1. /\ \A x \in Slots \ {r} : req'[x] = req[x]
      /\ req'[r].step = "clear" /\ req'[r].stored = req[r].stored
      /\ UNCHANGED logins /\ req[r].step = "consume"
  BY DEF ConsumeOtp, Goto, TypeOK, Request
<1>2. faults \in Nat /\ faults' \in Nat
  BY BoundsAreNat DEF TypeOK
<1>3. \/ otp' = None /\ faults' = faults
      \/ otp' = otp /\ faults' = faults + 1
  BY DEF ConsumeOtp, DeleteOtp, Answers
<1> SUFFICES ASSUME NEW c \in Codes PROVE LoginBound(c)'
  BY DEF LoginInv
<1>4. /\ Holders(c)' \subseteq Holders(c)
      /\ Through(c)' \subseteq Through(c) \cup {r}
  BY <1>1 DEF Through, Holders, Consumed, Accepted
<1>5. /\ Holders(c) \in SUBSET Slots /\ Holders(c)' \in SUBSET Holders(c)
      /\ Holders(c)' \in SUBSET Slots /\ Through(c) \in SUBSET Slots
      /\ Through(c)' \in SUBSET (Through(c) \cup {r})
      /\ Through(c)' \in SUBSET Slots /\ Through(c) \cup {r} \in SUBSET Slots
  BY <1>4 DEF Through, Holders
<1>6. /\ Cardinality(Holders(c)) \in Nat /\ Cardinality(Holders(c)') \in Nat
      /\ Cardinality(Holders(c)') <= Cardinality(Holders(c))
      /\ Cardinality(Slots) \in Nat
      /\ Cardinality(Through(c)) \in Nat /\ Cardinality(Through(c)') \in Nat
      /\ Cardinality(Through(c) \cup {r}) \in Nat
      /\ Cardinality(Through(c)') <= Cardinality(Through(c) \cup {r})
      /\ Cardinality(Through(c) \cup {r}) <= Cardinality(Through(c)) + 1
  BY <1>5, SlotSets
<1>7. LoginBound(c) /\ logins[c] \in Nat /\ logins'[c] = logins[c]
  BY <1>1 DEF LoginInv, TypeOK
<1>8. c # None
  BY DEF Codes, None
<1>9. faults <= faults'
  BY <1>2, <1>3
<1>10. (logins[c] + Cardinality(Holders(c)) <= Cardinality(Slots) + faults)'
  BY <1>2, <1>6, <1>7, <1>9 DEF LoginBound
<1>11. ASSUME otp' = c
       PROVE  (logins[c] + Cardinality(Through(c)) <= faults)'
  <2>1. otp = c /\ faults' = faults + 1
    BY <1>3, <1>8, <1>11
  <2>2. logins[c] + Cardinality(Through(c)) <= faults
    BY <1>7, <2>1 DEF LoginBound
  <2> QED BY <1>2, <1>6, <1>7, <2>1, <2>2
<1> QED BY <1>10, <1>11 DEF LoginBound

\* A login takes its holder away.
LEMMA CreateSessionLogins ==
  ASSUME CodeInv, TypeOK', LoginInv, NEW r \in Slots, CreateSession(r)
  PROVE  LoginInv'
<1> USE DEF CodeInv
<1>1. PICK d \in Codes : d = req[r].code /\ d = req[r].stored
  BY DEF CreateSession, CodesInv, Holding, Accepted, TypeOK, Request
<1>2. /\ \A x \in Slots \ {r} : req'[x] = req[x]
      /\ req'[r].step = "idle" /\ req[r].step = "session"
      /\ UNCHANGED <<otp, faults>>
      /\ \A c \in Codes :
           logins'[c] = IF c = d THEN logins[c] + 1 ELSE logins[c]
  BY <1>1 DEF CreateSession, Finish, Idle, TypeOK
<1> SUFFICES ASSUME NEW c \in Codes PROVE LoginBound(c)'
  BY DEF LoginInv
<1>3. /\ Through(c)' = Through(c) \ {r}
      /\ Holders(c)' = Holders(c) \ {r}
  BY <1>2 DEF Through, Holders, Consumed, Accepted
<1>4. CASE c # d
  <2>1. logins'[c] = logins[c] /\ faults <= faults'
    BY <1>2, <1>4, BoundsAreNat DEF TypeOK
  <2> QED BY <1>2, <1>3, <2>1, LoginBoundKept DEF LoginInv
<1>5. CASE c = d
  <2>1. r \in Through(c) /\ r \in Holders(c) /\ logins'[c] = logins[c] + 1
    BY <1>1, <1>2, <1>5 DEF Through, Holders, Consumed, Accepted
  <2>2. Holders(c) \in SUBSET Slots /\ Through(c) \in SUBSET Slots
    BY DEF Holders, Through
  <2>3. /\ Cardinality(Holders(c)') = Cardinality(Holders(c)) - 1
        /\ Cardinality(Through(c)') = Cardinality(Through(c)) - 1
        /\ Cardinality(Holders(c)) \in Nat /\ Cardinality(Through(c)) \in Nat
        /\ Cardinality(Slots) \in Nat
    BY <1>3, <2>1, <2>2, SlotSets
  <2>4. LoginBound(c) /\ logins[c] \in Nat /\ faults \in Nat
    BY BoundsAreNat DEF LoginInv, TypeOK
  <2> QED BY <1>2, <2>1, <2>3, <2>4 DEF LoginBound
<1> QED BY <1>4, <1>5

LEMMA LoginInvKept ==
  ASSUME CodeInv, LoginInv, [Next]_vars
  PROVE  LoginInv'
<1>1. TypeOK' /\ TypeOK
  BY CodeInvKept DEF CodeInv
<1>2. CASE UNCHANGED vars
  BY <1>2 DEF vars, LoginInv, LoginBound, Through, Holders
<1>3. CASE ExpireOtp \/ ExpireAttempts \/ ExpireLock
  <2> SUFFICES ASSUME NEW c \in Codes PROVE LoginBound(c)'
    BY DEF LoginInv
  <2>1. otp' \in {otp, None} /\ UNCHANGED <<logins, faults, req>>
    BY <1>3 DEF ExpireOtp, ExpireAttempts, ExpireLock
  <2>2. /\ Through(c)' \subseteq Through(c)
        /\ Holders(c)' \subseteq Holders(c)
        /\ otp' = c => otp = c
        /\ faults <= faults'
    BY <1>1, <2>1, BoundsAreNat DEF Through, Holders, None, Codes, TypeOK
  <2> QED BY <1>1, <2>1, <2>2, LoginBoundKept DEF LoginInv
<1>4. ASSUME NEW r \in Slots, NEW q \in Request, NoNearer(r, q)
      PROVE  LoginInv'
  BY <1>1, <1>4, NoNearerKeeps
<1>5. ASSUME NEW r \in Slots,
             ReadOtp(r) \/ StoreOtp(r) \/ ConsumeOtp(r) \/ CreateSession(r)
      PROVE  LoginInv'
  BY <1>1, <1>5, ReadOtpLogins, StoreOtpLogins, ConsumeOtpLogins,
     CreateSessionLogins
<1> QED BY <1>2, <1>3, <1>4, <1>5, NoNearerSteps DEF Next, Continue

LEMMA LoginInvariance == Spec => [](CodeInv /\ LoginInv)
<1>1. Init => CodeInv /\ LoginInv
  <2> SUFFICES ASSUME Init PROVE LoginInv
    BY OtpInitInv
  <2> SUFFICES ASSUME NEW c \in Codes PROVE LoginBound(c)
    BY DEF LoginInv
  <2>1. Through(c) = {} /\ Holders(c) = {} /\ logins[c] = 0 /\ faults = 0
    BY DEF Init, Through, Holders, Idle, None, Codes
  <2>2. Cardinality(Slots) \in Nat /\ Cardinality({}) = 0
    BY SlotsAreFinite, FS_CardinalityType, FS_EmptySet
  <2> QED BY <2>1, <2>2 DEF LoginBound
<1> QED BY <1>1, CodeInvKept, LoginInvKept, PTL DEF Spec

\* One-time: whatever the sends and verifications do in parallel, a code opens
\* at most one session for each request in flight, and one more for each
\* deletion that failed.
THEOREM CodesLogInOnce == Spec => []LoginsPerCode
<1>1. CodeInv /\ LoginInv => LoginsPerCode
  <2> SUFFICES ASSUME CodeInv, LoginInv, NEW c \in Codes
               PROVE  logins[c] <= Cardinality(Slots) + faults
    BY DEF LoginsPerCode
  <2>1. Holders(c) \in SUBSET Slots
    BY DEF Holders
  <2>2. Cardinality(Holders(c)) \in Nat /\ Cardinality(Slots) \in Nat
    BY <2>1, SlotSets
  <2>3. logins[c] \in Nat /\ faults \in Nat
    BY BoundsAreNat DEF CodeInv, TypeOK
  <2> QED BY <2>2, <2>3 DEF LoginInv, LoginBound
<1> QED BY <1>1, LoginInvariance, PTL

(*--------------------------- Attempts at a live code -------------------------*)

\* While a sendOtp runs nobody else does; its code is the latest, and nobody has
\* guessed at it.
AloneInv ==
  \A r \in Slots :
    /\ req[r].step \in SendSteps => \A x \in Slots \ {r} : req[x] = Idle
    /\ req[r].step \in {"store", "reset"} => req[r].code = sent
    /\ req[r].step = "reset" /\ otp = req[r].code => tried[otp] = 0

\* Resets of the counter that faults have paid for and that are still to come
\* while the code stays: the DEL of a code failed before its counter is
\* cleared; the reset of the counter was lost, so that it expires early; the
\* SET of a code failed before the counter is reset.
Clearing == {r \in Slots : req[r].step = "clear"}
Early ==
  /\ countedFor # None /\ countedFor < otp
  /\ \A r \in Slots : req[r].step = "reset" => req[r].code # otp
Unset == \E r \in Slots : req[r].step = "reset" /\ req[r].code # otp
Owed ==
  Cardinality(Clearing) + (IF Early THEN 1 ELSE 0) + (IF Unset THEN 1 ELSE 0)

Counted == IF attempts < MaxAttempts THEN attempts ELSE MaxAttempts

\* The guesses at the stored code: those counted now, and one round of
\* MaxAttempts for each fault that is not owed a reset any more.
RoundsInv ==
  otp # None => tried[otp] <= Counted + MaxAttempts * (faults - Owed)

LEMMA ExpiryKeepsAlone ==
  ASSUME CodeInv, AloneInv, ExpireOtp \/ ExpireAttempts \/ ExpireLock
  PROVE  AloneInv'
<1>1. otp' \in {otp, None} /\ UNCHANGED <<tried, req, sent>>
  BY DEF ExpireOtp, ExpireAttempts, ExpireLock
<1> SUFFICES ASSUME NEW r \in Slots
             PROVE  /\ req[r].step \in SendSteps =>
                         \A x \in Slots \ {r} : req[x] = Idle
                    /\ req[r].step \in {"store", "reset"} => req[r].code = sent
                    /\ req[r].step = "reset" /\ otp' = req[r].code
                         => tried[otp'] = 0
  BY <1>1 DEF AloneInv
<1>2. req[r].step = "reset" => req[r].code # None
  BY DEF CodeInv, CodesInv, Holding
<1> QED BY <1>1, <1>2 DEF AloneInv

LEMMA AloneInvKept ==
  ASSUME CodeInv, TypeOK', AloneInv, ~Mixed', [Next]_vars
  PROVE  AloneInv'
<1> USE DEF CodeInv, TypeOK
<1>0. faults \in Nat /\ Idle.step = "idle"
      /\ \A c \in Codes : c # None
  BY BoundsAreNat DEF Idle, Codes, None
<1>1. CASE UNCHANGED vars
  BY <1>1 DEF vars, AloneInv
<1>2. CASE ExpireOtp \/ ExpireAttempts \/ ExpireLock
  BY <1>2, ExpiryKeepsAlone
\* A step of a request that is not sending, or not past its SMS.
<1>3. ASSUME NEW r \in Slots, NEW q \in Request, req' = [req EXCEPT ![r] = q],
             q.step \in SendSteps => \A x \in Slots \ {r} : req[x] = Idle,
             q.step \notin {"store", "reset"}, req[r] # Idle,
             sent' = sent
      PROVE  AloneInv'
  <2>1. \A x \in Slots : req'[x] = IF x = r THEN q ELSE req[x]
    BY <1>3
  <2> SUFFICES ASSUME NEW x \in Slots, req'[x].step \in SendSteps
               PROVE  /\ \A y \in Slots \ {x} : req'[y] = Idle
                      /\ req'[x].step \notin {"store", "reset"}
    BY DEF AloneInv, SendSteps
  <2>2. CASE x = r
    BY <1>3, <2>1, <2>2
  <2>3. CASE x # r
    <3>1. req[x].step \in SendSteps
      BY <2>1, <2>3
    <3>2. req[r] = Idle
      BY <2>3, <3>1 DEF AloneInv
    <3> QED BY <1>3, <3>2
  <2> QED BY <2>2, <2>3
<1>4. ASSUME NEW r \in Slots, NEW q \in Request, req' = [req EXCEPT ![r] = q],
             req[r] = Idle, \A x \in Slots : req[x].step \notin SendSteps,
             q.step \notin SendSteps \/ \A x \in Slots : req[x] = Idle,
             q.step \notin {"store", "reset"}
      PROVE  AloneInv'
  BY <1>3, <1>4 DEF AloneInv, SendSteps
<1>5. ASSUME NEW r \in Slots, SendOtp(r) PROVE AloneInv'
  <2>2. PICK q \in Request : req' = [req EXCEPT ![r] = q] /\ q.step = "checkLock"
    <3> DEFINE q == [req[r] EXCEPT !.step = "checkLock"]
    <3>1. q \in Request /\ q.step = "checkLock"
      BY DEF Request, Steps
    <3>2. req' = [req EXCEPT ![r] = q]
      BY <1>5 DEF SendOtp, Goto
    <3> HIDE DEF q
    <3> QED BY <3>1, <3>2
  <2>1. \A x \in Slots : req[x] = Idle
    <3>1. \A x \in Slots : req'[x] = IF x = r THEN q ELSE req[x]
      BY <2>2
    <3>2. req[r] = Idle
      BY <1>5 DEF SendOtp
    <3> QED BY <2>2, <3>1, <3>2 DEF Mixed, SendSteps
  <2>3. \A x \in Slots : req[x].step \notin SendSteps
    BY <1>0, <2>1 DEF SendSteps
  <2> QED BY <1>4, <2>1, <2>2, <2>3
<1>6. ASSUME NEW r \in Slots, NEW code \in {None} \cup Codes, VerifyOtp(r, code)
      PROVE  AloneInv'
  <2>2. PICK q \in Request : req' = [req EXCEPT ![r] = q] /\ q.step = "read"
    <3> DEFINE q == [req[r] EXCEPT !.step = "read", !.code = code]
    <3>1. q \in Request /\ q.step = "read"
      BY DEF Request, Steps
    <3>2. req' = [req EXCEPT ![r] = q]
      BY <1>6 DEF VerifyOtp
    <3> HIDE DEF q
    <3> QED BY <3>1, <3>2
  <2>1. req[r] = Idle /\ \A x \in Slots : req[x].step \notin SendSteps
    <3>1. \A x \in Slots : req'[x] = IF x = r THEN q ELSE req[x]
      BY <2>2
    <3>2. req[r] = Idle /\ q # Idle
      BY <1>0, <1>6, <2>2 DEF VerifyOtp
    <3> QED BY <1>0, <2>2, <3>1, <3>2 DEF Mixed, SendSteps
  <2> QED BY <1>4, <2>1, <2>2 DEF SendSteps
<1>7. ASSUME NEW r \in Slots, CheckLock(r) PROVE AloneInv'
  <2>1. req[r] # Idle /\ req[r].step \in SendSteps
        /\ \A x \in Slots \ {r} : req[x] = Idle
    BY <1>0, <1>7 DEF CheckLock, SendSteps, AloneInv
  <2>2. CASE req' = [req EXCEPT ![r] = Idle] /\ sent' = sent
    <3>1. Idle \in Request
      BY DEF Idle, Request, Steps
    <3> QED BY <1>0, <1>3, <2>1, <2>2, <3>1 DEF SendSteps
  <2>3. CASE /\ sent' = sent + 1
             /\ req' = [req EXCEPT ![r].step = "store", ![r].code = sent + 1]
    <3>1. /\ \A x \in Slots \ {r} : req'[x] = Idle
          /\ req'[r].step = "store" /\ req'[r].code = sent'
      BY <2>1, <2>3 DEF Request
    <3> QED BY <1>0, <1>7, <2>3, <3>1 DEF AloneInv, SendSteps, CheckLock
  <2>4. \/ req' = [req EXCEPT ![r] = Idle] /\ sent' = sent
        \/ /\ sent' = sent + 1
           /\ req' = [req EXCEPT ![r].step = "store", ![r].code = sent + 1]
    BY <1>0, <1>7 DEF CheckLock, Finish, Answers
  <2> QED BY <2>2, <2>3, <2>4
<1>8. ASSUME NEW r \in Slots, StoreOtp(r) PROVE AloneInv'
  <2>1. /\ \A x \in Slots \ {r} : req[x] = Idle
        /\ req[r].code = sent /\ req[r].step = "store"
        /\ req[r].code \in Codes /\ tried[req[r].code] = 0
    BY <1>8 DEF StoreOtp, SendSteps, AloneInv, CodesInv, Holding, Request, Unused
  <2>2. /\ \A x \in Slots \ {r} : req'[x] = Idle
        /\ req'[r].step = "reset" /\ req'[r].code = req[r].code
    BY <1>8, <2>1 DEF StoreOtp, Goto, Request
  <2> QED BY <1>0, <1>8, <2>1, <2>2 DEF AloneInv, StoreOtp, SendSteps
<1>9. ASSUME NEW r \in Slots, ResetAttempts(r) \/ SendSms(r) PROVE AloneInv'
  <2>1. req[r] # Idle /\ \A x \in Slots \ {r} : req[x] = Idle
    BY <1>0, <1>9 DEF ResetAttempts, SendSms, SendSteps, AloneInv
  <2>2. PICK q \in Request : /\ req' = [req EXCEPT ![r] = q]
                             /\ q.step \in {"sms", "idle"}
    BY <1>0, <1>9 DEF ResetAttempts, SendSms, Goto, Finish, Request, Steps, Idle
  <2> QED BY <1>3, <1>9, <2>1, <2>2 DEF ResetAttempts, SendSms
<1>10. ASSUME NEW r \in Slots,
              \/ Fail(r) \/ ReadOtp(r) \/ CountAttempt(r) \/ SetLock(r)
              \/ LockDeletesOtp(r) \/ ConsumeOtp(r) \/ ClearAttempts(r)
              \/ FindUser(r) \/ CreateUser(r) \/ CreateSession(r)
       PROVE  AloneInv'
  <2>1. req[r] # Idle /\ sent' = sent
    BY <1>0, <1>10 DEF Fail, ReadOtp, CountAttempt, SetLock, LockDeletesOtp,
       ConsumeOtp, ClearAttempts, FindUser, CreateUser, CreateSession
  <2>2. PICK q : req' = [req EXCEPT ![r] = q] /\ q.step \notin SendSteps
    BY <1>0, <1>10 DEF Fail, ReadOtp, CountAttempt, SetLock, LockDeletesOtp,
       ConsumeOtp, ClearAttempts, FindUser, CreateUser, CreateSession, Goto,
       Finish, SendSteps, Request
  <2>3. q \in Request
    BY <2>2
  <2> QED BY <1>3, <2>1, <2>2, <2>3 DEF SendSteps
<1> QED BY <1>1, <1>2, <1>5, <1>6, <1>7, <1>8, <1>9, <1>10 DEF Next, Continue

LEMMA Rounds ==
  /\ MaxAttempts \in Nat /\ MaxAttempts >= 1
  /\ \A n \in Int : MaxAttempts * n \in Int
  /\ \A n \in Int : MaxAttempts * (n + 1) = MaxAttempts * n + MaxAttempts
  /\ \A m, n \in Int : m <= n => MaxAttempts * m <= MaxAttempts * n
<1>1. MaxAttempts \in Nat /\ MaxAttempts >= 1
  BY MaxAttemptsIsPositive
<1>2. \A n \in Int : MaxAttempts * n \in Int
  BY <1>1
<1>3. \A n \in Int : MaxAttempts * (n + 1) = MaxAttempts * n + MaxAttempts
  BY <1>1
<1>4. ASSUME NEW m \in Int, NEW n \in Int, m <= n
      PROVE  MaxAttempts * m <= MaxAttempts * n
  <2>1. PICK k \in Nat : n = m + k
    <3>1. n - m \in Nat /\ n = m + (n - m)
      BY <1>4
    <3> QED BY <3>1
  <2>2. MaxAttempts * (m + k) = MaxAttempts * m + MaxAttempts * k
    BY <1>1
  <2>3. MaxAttempts * k \in Nat
    BY <1>1
  <2> QED BY <1>2, <2>1, <2>2, <2>3
<1> QED BY <1>1, <1>2, <1>3, <1>4

\* RoundsInv as a bound on g guesses, c of them counted, where f faults happened
\* and a of them are owed a reset.
Paid(g, c, a, f) == g <= c + MaxAttempts * (f - a)

LEMMA PaidSteps ==
  ASSUME NEW g \in Nat, NEW c \in Nat, c <= MaxAttempts, NEW a \in Nat,
         NEW f \in Nat, Paid(g, c, a, f),
         NEW h \in Nat, NEW d \in Nat, NEW b \in Nat, NEW e \in Nat
  PROVE  /\ h <= g /\ c <= d /\ b <= a /\ f <= e => Paid(h, d, b, e)
         /\ h <= g /\ c <= d /\ b <= a + 1 /\ e = f + 1 => Paid(h, d, b, e)
         /\ h <= g /\ b + 1 <= a /\ e = f => Paid(h, d, b, e)
         /\ h <= g + 1 /\ c + 1 <= d /\ b <= a /\ e = f => Paid(h, d, b, e)
         /\ h <= g + 1 /\ c <= d /\ b <= a /\ e = f + 1 => Paid(h, d, b, e)
<1> DEFINE n == f - a
           m == e - b
           x == MaxAttempts * n
           y == MaxAttempts * m
           z == MaxAttempts * (n + 1)
<1>1. n \in Int /\ m \in Int
  OBVIOUS
<1>2. /\ b <= a /\ f <= e => n <= m
      /\ b <= a + 1 /\ e = f + 1 => n <= m
      /\ b + 1 <= a /\ e = f => n + 1 <= m
      /\ b <= a /\ e = f => n <= m
      /\ b <= a /\ e = f + 1 => n + 1 <= m
  OBVIOUS
<1>3. g <= c + x
  BY DEF Paid
<1> SUFFICES /\ h <= g /\ c <= d /\ b <= a /\ f <= e => h <= d + y
             /\ h <= g /\ c <= d /\ b <= a + 1 /\ e = f + 1 => h <= d + y
             /\ h <= g /\ b + 1 <= a /\ e = f => h <= d + y
             /\ h <= g + 1 /\ c + 1 <= d /\ b <= a /\ e = f => h <= d + y
             /\ h <= g + 1 /\ c <= d /\ b <= a /\ e = f + 1 => h <= d + y
  BY DEF Paid
<1> HIDE DEF n, m
<1>4. /\ x \in Int /\ y \in Int /\ z = x + MaxAttempts
      /\ MaxAttempts \in Nat /\ MaxAttempts >= 1
      /\ n <= m => x <= y
      /\ n + 1 <= m => z <= y
  <2>1. n + 1 \in Int
    BY <1>1
  <2> QED BY <1>1, <2>1, Rounds
<1> HIDE DEF x, y, z
<1> QED BY <1>2, <1>3, <1>4

\* A reset that was owed: whatever is counted from now on.
LEMMA PaidReset ==
  ASSUME NEW g \in Nat, NEW c \in Nat, c <= MaxAttempts, NEW a \in Nat,
         NEW f \in Nat, Paid(g, c, a, f), NEW d \in Nat, NEW b \in Nat,
         b + 1 <= a
  PROVE  Paid(g, d, b, f)
<1>1. g <= g
  OBVIOUS
<1> QED BY <1>1, PaidSteps

\* No guesses yet.
LEMMA PaidAtFirst ==
  ASSUME NEW c \in Nat, NEW a \in Nat, NEW f \in Nat, a <= f
  PROVE  Paid(0, c, a, f)
<1>1. 0 <= f - a /\ f - a \in Int
  OBVIOUS
<1>2. MaxAttempts * 0 <= MaxAttempts * (f - a) /\ MaxAttempts * (f - a) \in Int
  BY <1>1, Rounds
<1>3. MaxAttempts * 0 = 0
  BY Rounds
<1> QED BY <1>2, <1>3 DEF Paid

CreditOK ==
  /\ Owed \in Nat /\ faults \in Nat
  /\ Counted \in Nat /\ Counted <= MaxAttempts
  /\ otp # None => otp \in Codes /\ tried[otp] \in Nat

LEMMA CreditTyped == TypeOK => CreditOK
<1> SUFFICES ASSUME TypeOK PROVE CreditOK
  OBVIOUS
<1>1. Clearing \in SUBSET Slots
  BY DEF Clearing
<1>2. Cardinality(Clearing) \in Nat
  BY <1>1, SlotSets
<1>3. Owed \in Nat /\ faults \in Nat
  BY <1>2, BoundsAreNat DEF Owed, TypeOK
<1>4. Counted \in Nat /\ Counted <= MaxAttempts
  BY MaxAttemptsIsPositive DEF Counted, TypeOK
<1> QED BY <1>1, <1>2, <1>3, <1>4 DEF TypeOK, CreditOK

LEMMA RoundsAsPaid ==
  RoundsInv <=> (otp # None => Paid(tried[otp], Counted, Owed, faults))
BY DEF RoundsInv, Paid

\* A code that stays, with no guess more, the same count and no more owed than
\* faults have added.
LEMMA RoundsKept ==
  ASSUME CreditOK, CreditOK', RoundsInv, Counted' = Counted,
         otp' = otp, tried' = tried,
         \/ Owed' <= Owed /\ faults <= faults'
         \/ Owed' <= Owed + 1 /\ faults' = faults + 1
  PROVE  RoundsInv'
<1> SUFFICES ASSUME otp # None
             PROVE  Paid(tried[otp], Counted', Owed', faults')
  BY DEF RoundsInv, Paid
<1>1. Paid(tried[otp], Counted, Owed, faults)
  BY RoundsAsPaid
<1>2. /\ tried[otp] \in Nat /\ Counted \in Nat /\ Counted <= MaxAttempts
      /\ Counted' \in Nat /\ Counted <= Counted'
      /\ Owed \in Nat /\ Owed' \in Nat /\ faults \in Nat /\ faults' \in Nat
  BY DEF CreditOK
<1> QED BY <1>1, <1>2, PaidSteps

\* A step of a request that neither clears nor resets the counter owes no more.
LEMMA QuietOwes ==
  ASSUME TypeOK, TypeOK', NEW r \in Slots, NEW q \in Request,
         req' = [req EXCEPT ![r] = q], q.step \notin {"clear", "reset"},
         req[r].step # "reset", UNCHANGED <<otp, countedFor>>
  PROVE  Owed' <= Owed
<1>1. \A x \in Slots : req'[x] = IF x = r THEN q ELSE req[x]
  BY DEF TypeOK
<1>2. Clearing' \subseteq Clearing
  BY <1>1 DEF Clearing
<1>3. Cardinality(Clearing) \in Nat /\ Cardinality(Clearing') \in Nat
      /\ Cardinality(Clearing') <= Cardinality(Clearing)
  <2>1. Clearing \in SUBSET Slots /\ Clearing' \in SUBSET Slots
        /\ Clearing' \in SUBSET Clearing
    BY <1>2 DEF Clearing
  <2> QED BY <2>1, SlotSets
<1>4. (Early' <=> Early) /\ (Unset' <=> Unset)
  BY <1>1 DEF Early, Unset
<1> QED BY <1>3, <1>4 DEF Owed

\* The steps that leave the code, the guesses and the counter alone.
LEMMA QuietRounds ==
  ASSUME CodeInv, TypeOK', RoundsInv, NEW r \in Slots,
         \/ SendOtp(r) \/ CheckLock(r) \/ SendSms(r) \/ ReadOtp(r) \/ SetLock(r)
         \/ \E code \in {None} \cup Codes : VerifyOtp(r, code)
         \/ FindUser(r) \/ CreateUser(r) \/ CreateSession(r)
         \/ (Fail(r) /\ req[r].step # "reset")
  PROVE  RoundsInv'
<1>0. req[r] \in Request /\ Idle \in Request /\ Idle.step = "idle" /\ TypeOK
  BY DEF CodeInv, TypeOK, Idle, Request, Steps, None
<1>1. UNCHANGED <<otp, attempts, countedFor, tried>> /\ faults <= faults'
  <2>1. faults \in Nat
    BY BoundsAreNat DEF CodeInv, TypeOK
  <2>2. ASSUME NEW ok \in BOOLEAN, Answers(ok) PROVE faults <= faults'
    BY <2>1, <2>2 DEF Answers
  <2>3. ASSUME NEW code \in {None} \cup Codes, VerifyOtp(r, code)
        PROVE  UNCHANGED <<otp, attempts, countedFor, tried, faults>>
    BY <2>3 DEF VerifyOtp
  <2>4. ASSUME CheckLock(r) \/ ReadOtp(r) \/ SetLock(r)
        PROVE  UNCHANGED <<otp, attempts, countedFor, tried>>
               /\ faults <= faults'
    BY <2>2, <2>4 DEF CheckLock, ReadOtp, SetLock
  <2>5. ASSUME \/ SendOtp(r) \/ SendSms(r) \/ FindUser(r) \/ CreateUser(r)
               \/ CreateSession(r) \/ Fail(r)
        PROVE  UNCHANGED <<otp, attempts, countedFor, tried>>
               /\ faults <= faults'
    BY <2>1, <2>5 DEF SendOtp, SendSms, FindUser, CreateUser, CreateSession, Fail
  <2> QED BY <2>1, <2>3, <2>4, <2>5
<1>2. ASSUME NEW code \in {None} \cup Codes, VerifyOtp(r, code)
      PROVE  req[r].step # "reset" /\ \E q \in Request :
               req' = [req EXCEPT ![r] = q] /\ q.step \notin {"clear", "reset"}
  <2> DEFINE q == [req[r] EXCEPT !.step = "read", !.code = code]
  <2>1. q \in Request /\ q.step = "read"
    BY <1>0 DEF Request, Steps
  <2>2. req' = [req EXCEPT ![r] = q] /\ req[r] = Idle
    BY <1>2 DEF VerifyOtp
  <2> HIDE DEF q
  <2> QED BY <1>0, <2>1, <2>2
<1>3. ASSUME CheckLock(r)
      PROVE  req[r].step # "reset" /\ \E q \in Request :
               req' = [req EXCEPT ![r] = q] /\ q.step \notin {"clear", "reset"}
  <2> DEFINE q == [req[r] EXCEPT !.step = "store", !.code = sent + 1]
  <2>1. q.step = "store"
    BY <1>0 DEF Request
  <2>2. \/ req' = [req EXCEPT ![r] = Idle]
        \/ sent < MaxSends /\ req' = [req EXCEPT ![r] = q]
    BY <1>3 DEF CheckLock, Finish
  <2>3. sent < MaxSends => q \in Request
    <3>1. sent < MaxSends => sent + 1 \in Codes
      BY <1>0, BoundsAreNat DEF Codes, TypeOK
    <3> QED BY <1>0, <3>1 DEF Request, Steps
  <2>4. req[r].step # "reset"
    BY <1>3 DEF CheckLock
  <2> HIDE DEF q
  <2> QED BY <1>0, <2>1, <2>2, <2>3, <2>4
<1>4. ASSUME ReadOtp(r)
      PROVE  req[r].step # "reset" /\ \E q \in Request :
               req' = [req EXCEPT ![r] = q] /\ q.step \notin {"clear", "reset"}
  <2> DEFINE q == [req[r] EXCEPT !.step = "count", !.stored = otp]
  <2>1. q.step = "count" /\ q \in Request
    BY <1>0 DEF Request, Steps, TypeOK
  <2>2. \/ req' = [req EXCEPT ![r] = Idle]
        \/ req' = [req EXCEPT ![r] = q]
    BY <1>4 DEF ReadOtp, Finish
  <2>3. req[r].step # "reset"
    BY <1>4 DEF ReadOtp
  <2> HIDE DEF q
  <2> QED BY <1>0, <2>1, <2>2, <2>3
<1>5. ASSUME NEW step \in Steps \ {"clear", "reset"}, Goto(r, step)
      PROVE  \E q \in Request :
               req' = [req EXCEPT ![r] = q] /\ q.step \notin {"clear", "reset"}
  <2> DEFINE q == [req[r] EXCEPT !.step = step]
  <2>1. q \in Request /\ q.step = step /\ req' = [req EXCEPT ![r] = q]
    BY <1>0, <1>5 DEF Goto, Request
  <2> HIDE DEF q
  <2> QED BY <2>1
<1>6. ASSUME \/ SendOtp(r) \/ SendSms(r) \/ SetLock(r) \/ FindUser(r)
             \/ CreateUser(r) \/ CreateSession(r)
             \/ (Fail(r) /\ req[r].step # "reset")
      PROVE  req[r].step # "reset" /\ \E q \in Request :
               req' = [req EXCEPT ![r] = q] /\ q.step \notin {"clear", "reset"}
  <2>1. req[r].step # "reset"
    BY <1>0, <1>6 DEF SendOtp, SendSms, SetLock, FindUser, CreateUser,
       CreateSession
  <2>2. \/ Finish(r)
        \/ \E step \in Steps \ {"clear", "reset"} : Goto(r, step)
    BY <1>6 DEF SendOtp, SendSms, SetLock, FindUser, CreateUser, CreateSession,
       Fail, Steps
  <2> QED BY <1>0, <1>5, <2>1, <2>2 DEF Finish
<1>7. PICK q \in Request :
        /\ req' = [req EXCEPT ![r] = q] /\ q.step \notin {"clear", "reset"}
        /\ req[r].step # "reset"
  BY <1>2, <1>3, <1>4, <1>6
<1>8. Owed' <= Owed
  BY <1>0, <1>1, <1>7, QuietOwes
<1>9. CreditOK /\ CreditOK'
  BY <1>0, CreditTyped, PTL
<1>10. Counted' = Counted
  BY <1>1 DEF Counted
<1> QED BY <1>1, <1>8, <1>9, <1>10, RoundsKept

\* A fresh code has no guesses; one whose SET failed leaves a reset owed.
LEMMA StoreRounds ==
  ASSUME CodeInv, TypeOK', AloneInv, RoundsInv, NEW r \in Slots, StoreOtp(r)
  PROVE  RoundsInv'
<1>0. CreditOK /\ CreditOK' /\ TypeOK
  BY CreditTyped, PTL DEF CodeInv
<1>1. PICK d \in Codes : d = req[r].code
  BY DEF StoreOtp, CodeInv, CodesInv, Holding, TypeOK, Request
<1>2. /\ req[r].step = "store" /\ \A x \in Slots \ {r} : req[x] = Idle
      /\ tried[d] = 0 /\ otp # d
  BY <1>1 DEF StoreOtp, AloneInv, SendSteps, CodeInv, CodesInv, Unused
<1>3. /\ req'[r].step = "reset" /\ req'[r].code = d
      /\ \A x \in Slots \ {r} : req'[x] = Idle
      /\ UNCHANGED <<attempts, countedFor, tried>>
  BY <1>1, <1>2 DEF StoreOtp, Goto, CodeInv, TypeOK, Request
<1>4. Clearing' = {} /\ Clearing = {} /\ Idle.step = "idle"
  BY <1>2, <1>3 DEF Clearing, Idle
<1>5. Cardinality(Clearing') = 0 /\ Cardinality(Clearing) = 0
  BY <1>4, FS_EmptySet
<1>6. CASE otp' = d
  <2>1. ~Early' /\ ~Unset'
    BY <1>3, <1>4, <1>6 DEF Early, Unset
  <2>2. Owed' = 0
    BY <1>5, <2>1 DEF Owed
  <2>3. Owed' <= faults'
    BY <1>0, <2>2 DEF CreditOK
  <2>4. Paid(0, Counted', Owed', faults')
    BY <1>0, <2>3, PaidAtFirst DEF CreditOK
  <2> QED BY <1>2, <1>3, <1>6, <2>4 DEF RoundsInv, Paid
<1>7. CASE otp' = otp /\ faults' = faults + 1
  <2>1. Early' => Early
    BY <1>2, <1>3, <1>4, <1>7 DEF Early
  <2>2. Owed' <= Owed + 1
    BY <1>5, <2>1 DEF Owed, Unset
  <2>3. Counted' = Counted
    BY <1>3 DEF Counted
  <2> QED BY <1>0, <1>3, <1>7, <2>2, <2>3, RoundsKept
<1> QED BY <1>1, <1>6, <1>7 DEF StoreOtp, Answers

\* The counter is reset, for a fresh code or for one round owed; or the reset
\* is lost and the fault pays for an early expiry.
LEMMA ResetRounds ==
  ASSUME CodeInv, TypeOK', AloneInv, RoundsInv, NEW r \in Slots,
         ResetAttempts(r) \/ (Fail(r) /\ req[r].step = "reset")
  PROVE  RoundsInv'
<1>0. CreditOK /\ CreditOK' /\ TypeOK
  BY CreditTyped, PTL DEF CodeInv
<1>1. PICK d \in Codes : d = req[r].code
  BY DEF ResetAttempts, CodeInv, CodesInv, Holding, TypeOK, Request
<1>2. /\ req[r].step = "reset" /\ \A x \in Slots \ {r} : req[x] = Idle
      /\ otp = d => tried[otp] = 0
      /\ otp <= d
  BY <1>1 DEF ResetAttempts, AloneInv, SendSteps, CodeInv, CodesInv
<1>3. /\ req'[r].step \in {"sms", "idle"}
      /\ \A x \in Slots \ {r} : req'[x] = Idle
      /\ UNCHANGED <<otp, tried>>
  BY <1>2 DEF ResetAttempts, Fail, Finish, Goto, CodeInv, TypeOK, Request, Idle
<1>4. Clearing' = {} /\ Clearing = {} /\ Idle.step = "idle" /\ ~Unset'
  BY <1>2, <1>3 DEF Clearing, Idle, Unset
<1>5. Cardinality(Clearing') = 0 /\ Cardinality(Clearing) = 0
  BY <1>4, FS_EmptySet
<1>6. \/ attempts' = 0 /\ countedFor' = d /\ faults' = faults
      \/ UNCHANGED <<attempts, countedFor>> /\ faults' = faults + 1
  BY <1>1 DEF ResetAttempts, Fail, Answers
<1>7. CASE countedFor' = d /\ faults' = faults
  <2>1. d \in Nat /\ (otp \in Codes => otp \in Nat)
    BY DEF Codes
  <2>2. ~Early'
    <3>1. ~(d < otp) \/ otp = None
      BY <1>0, <1>2, <2>1 DEF CreditOK
    <3> QED BY <1>3, <1>7, <3>1 DEF Early, Codes, None
  <2>3. Owed' = 0
    BY <1>4, <1>5, <2>2 DEF Owed
  <2>4. CASE otp = d
    <3>1. Owed' <= faults'
      BY <1>0, <2>3 DEF CreditOK
    <3>2. Paid(0, Counted', Owed', faults')
      BY <1>0, <3>1, PaidAtFirst DEF CreditOK
    <3> QED BY <1>2, <1>3, <2>4, <3>2 DEF RoundsInv, Paid
  <2>5. CASE otp # d /\ otp # None
    <3>1. Unset
      BY <1>1, <1>2, <2>5 DEF Unset
    <3>2. Owed' + 1 <= Owed
      BY <1>5, <2>3, <3>1 DEF Owed
    <3>3. Paid(tried[otp], Counted, Owed, faults)
      BY <2>5, RoundsAsPaid
    <3>4. /\ tried[otp] \in Nat /\ Counted \in Nat /\ Counted <= MaxAttempts
          /\ Owed \in Nat /\ faults \in Nat /\ Counted' \in Nat
          /\ Owed' \in Nat /\ faults' \in Nat
      BY <1>0, <2>5 DEF CreditOK
    <3>5. Paid(tried[otp], Counted', Owed', faults')
      BY <1>7, <3>2, <3>3, <3>4, PaidReset
    <3> QED BY <1>3, <3>5 DEF RoundsInv, Paid
  <2> QED BY <1>3, <2>4, <2>5 DEF RoundsInv
<1>8. CASE UNCHANGED <<attempts, countedFor>> /\ faults' = faults + 1
  <2>1. CASE otp = d
    <3>1. Owed' <= 1
      BY <1>4, <1>5 DEF Owed
    <3>2. 1 <= faults' /\ Owed' \in Nat
      BY <1>0, <1>8 DEF CreditOK
    <3>3. \A a, b \in Nat : a <= 1 /\ 1 <= b => a <= b
      OBVIOUS
    <3>4. Owed' <= faults'
      BY <1>0, <3>1, <3>2, <3>3 DEF CreditOK
    <3>5. Paid(0, Counted', Owed', faults')
      BY <1>0, <3>4, PaidAtFirst DEF CreditOK
    <3> QED BY <1>2, <1>3, <2>1, <3>5 DEF RoundsInv, Paid
  <2>2. CASE otp # d
    <3>1. Early' => Early
      BY <1>1, <1>2, <1>3, <1>4, <1>8, <2>2 DEF Early
    <3>2. Owed' <= Owed + 1
      BY <1>4, <1>5, <3>1 DEF Owed
    <3>3. Counted' = Counted
      BY <1>8 DEF Counted
    <3> QED BY <1>0, <1>3, <1>8, <3>2, <3>3, RoundsKept
  <2> QED BY <2>1, <2>2
<1> QED BY <1>6, <1>7, <1>8

\* A guess is counted; where the INCR fails the fault pays for it.
LEMMA CountRounds ==
  ASSUME CodeInv, TypeOK', RoundsInv, NEW r \in Slots, CountAttempt(r)
  PROVE  RoundsInv'
<1>c. CreditOK /\ CreditOK'
  BY CreditTyped, PTL DEF CodeInv
<1>0. /\ TypeOK /\ attempts \in Nat /\ attempts' \in Nat
      /\ Idle \in Request /\ Idle.step = "idle" /\ req[r] \in Request
  BY DEF CodeInv, TypeOK, Idle, Request, Steps, None
<1>1. req[r].step = "count" /\ UNCHANGED <<otp, countedFor>>
  BY DEF CountAttempt
<1>2. Finish(r) \/ Goto(r, "lock") \/ Goto(r, "consume")
  BY DEF CountAttempt
<1>3. PICK q \in Request :
        req' = [req EXCEPT ![r] = q] /\ q.step \notin {"clear", "reset"}
  <2>1. ASSUME NEW step \in {"lock", "consume"}, Goto(r, step)
        PROVE  \E q \in Request :
                 req' = [req EXCEPT ![r] = q] /\ q.step \notin {"clear", "reset"}
    <3> DEFINE q == [req[r] EXCEPT !.step = step]
    <3>1. q \in Request /\ q.step = step /\ req' = [req EXCEPT ![r] = q]
      BY <1>0, <2>1 DEF Goto, Request, Steps
    <3> HIDE DEF q
    <3> QED BY <3>1
  <2> QED BY <1>0, <1>2, <2>1 DEF Finish
<1>4. Owed' <= Owed
  BY <1>0, <1>1, <1>3, QuietOwes
<1> SUFFICES ASSUME otp # None
             PROVE  Paid(tried'[otp], Counted', Owed', faults')
  BY <1>1 DEF RoundsInv, Paid
<1>5. Paid(tried[otp], Counted, Owed, faults)
  BY RoundsAsPaid
<1>6. /\ tried[otp] \in Nat /\ Counted \in Nat /\ Counted <= MaxAttempts
      /\ Counted' \in Nat /\ faults \in Nat /\ faults' \in Nat
      /\ Owed \in Nat /\ Owed' \in Nat
  BY <1>c DEF CreditOK
<1>7. tried'[otp] \in Nat
  BY <1>0, <1>c DEF CreditOK, TypeOK
<1>8. CASE tried' = tried /\ attempts' \in {attempts, attempts + 1}
           /\ faults <= faults'
  <2>1. Counted <= Counted'
    BY <1>0, <1>8, MaxAttemptsIsPositive DEF Counted
  <2> QED BY <1>4, <1>5, <1>6, <1>8, <2>1, PaidSteps
<1>9. CASE /\ attempts' = attempts + 1 /\ attempts + 1 <= MaxAttempts
           /\ tried'[otp] <= tried[otp] + 1 /\ faults' = faults
  <2>1. Counted + 1 <= Counted'
    BY <1>0, <1>9, MaxAttemptsIsPositive DEF Counted
  <2> QED BY <1>4, <1>5, <1>6, <1>7, <1>9, <2>1, PaidSteps
<1>10. CASE attempts' = attempts /\ tried'[otp] <= tried[otp] + 1
            /\ faults' = faults + 1
  <2>1. Counted' = Counted
    BY <1>10 DEF Counted
  <2>2. Counted <= Counted'
    BY <1>6, <2>1
  <2> QED BY <1>4, <1>5, <1>6, <1>7, <1>10, <2>2, PaidSteps
<1>11. \/ /\ tried' = tried /\ attempts' \in {attempts, attempts + 1}
          /\ faults <= faults'
       \/ /\ attempts' = attempts + 1 /\ attempts + 1 <= MaxAttempts
          /\ tried'[otp] <= tried[otp] + 1 /\ faults' = faults
       \/ /\ attempts' = attempts /\ tried'[otp] <= tried[otp] + 1
          /\ faults' = faults + 1
  <2>1. tried \in [Codes -> Nat] /\ otp \in Codes
    BY <1>0 DEF TypeOK
  <2>2. tried' = [tried EXCEPT ![req[r].stored] = @ + 1]
          => tried'[otp] <= tried[otp] + 1
    BY <1>6, <2>1
  <2>3. PICK ok \in BOOLEAN :
          /\ Answers(ok)
          /\ attempts' = IF ok THEN attempts + 1 ELSE attempts
          /\ IF (IF ok THEN attempts + 1 ELSE 0) > MaxAttempts
             THEN tried' = tried
             ELSE tried' = [tried EXCEPT ![req[r].stored] = @ + 1]
    BY DEF CountAttempt
  <2>4. CASE ok
    BY <1>0, <1>6, <2>2, <2>3, <2>4, MaxAttemptsIsPositive DEF Answers
  <2>5. CASE ~ok
    BY <1>0, <1>6, <2>2, <2>3, <2>5, MaxAttemptsIsPositive DEF Answers
  <2> QED BY <2>4, <2>5
<1> QED BY <1>8, <1>9, <1>10, <1>11

\* Once the code is gone the bound says nothing; a DEL that failed pays for the
\* reset it is followed by.
LEMMA DeleteRounds ==
  ASSUME CodeInv, TypeOK', RoundsInv, NEW r \in Slots,
         LockDeletesOtp(r) \/ ConsumeOtp(r)
  PROVE  RoundsInv'
<1>c. CreditOK /\ CreditOK'
  BY CreditTyped, PTL DEF CodeInv
<1>0. TypeOK /\ req[r] \in Request
  BY DEF CodeInv, TypeOK
<1>1. \/ otp' = None
      \/ otp' = otp /\ faults' = faults + 1
  BY DEF LockDeletesOtp, ConsumeOtp, DeleteOtp, Answers
<1>2. CASE otp' = None
  BY <1>2 DEF RoundsInv
<1>3. CASE otp' = otp /\ faults' = faults + 1
  <2>1. /\ UNCHANGED <<attempts, countedFor, tried>>
        /\ req[r].step \in {"unstore", "consume"}
    BY DEF LockDeletesOtp, ConsumeOtp
  <2>2. /\ \A x \in Slots \ {r} : req'[x] = req[x]
        /\ req'[r].step \in {"idle", "clear"}
    BY <1>0 DEF LockDeletesOtp, ConsumeOtp, Goto, Finish, Idle, TypeOK, Request
  <2>3. Clearing' \subseteq Clearing \cup {r}
    BY <2>2 DEF Clearing
  <2>4. /\ Cardinality(Clearing') \in Nat /\ Cardinality(Clearing) \in Nat
        /\ Cardinality(Clearing') <= Cardinality(Clearing) + 1
    <3>1. /\ Clearing \in SUBSET Slots /\ Clearing' \in SUBSET Slots
          /\ Clearing \cup {r} \in SUBSET Slots
          /\ Clearing' \in SUBSET (Clearing \cup {r})
      BY <2>3 DEF Clearing
    <3>2. /\ Cardinality(Clearing') \in Nat /\ Cardinality(Clearing) \in Nat
          /\ Cardinality(Clearing \cup {r}) \in Nat
          /\ Cardinality(Clearing \cup {r}) <= Cardinality(Clearing) + 1
          /\ Cardinality(Clearing') <= Cardinality(Clearing \cup {r})
      BY <3>1, SlotSets
    <3> QED BY <3>2
  <2>5. (Early' <=> Early) /\ (Unset' <=> Unset)
    BY <1>3, <2>1, <2>2 DEF Early, Unset
  <2>6. Owed' <= Owed + 1
    BY <2>4, <2>5 DEF Owed
  <2>7. Counted' = Counted
    BY <2>1 DEF Counted
  <2> QED BY <1>c, <1>3, <2>1, <2>6, <2>7, RoundsKept
<1> QED BY <1>1, <1>2, <1>3

\* A counter cleared while the code is still there was owed.
LEMMA ClearRounds ==
  ASSUME CodeInv, TypeOK', RoundsInv, NEW r \in Slots, ClearAttempts(r)
  PROVE  RoundsInv'
<1>c. CreditOK /\ CreditOK'
  BY CreditTyped, PTL DEF CodeInv
<1>0. TypeOK /\ req[r] \in Request
  BY DEF CodeInv, TypeOK
<1>1. /\ UNCHANGED <<otp, tried>> /\ req[r].step = "clear"
      /\ \/ attempts' = 0 /\ countedFor' = None /\ faults' = faults
         \/ UNCHANGED <<attempts, countedFor>> /\ faults' = faults + 1
  BY DEF ClearAttempts, Answers
<1>2. /\ \A x \in Slots \ {r} : req'[x] = req[x]
      /\ req'[r].step = "find"
  BY <1>0 DEF ClearAttempts, Goto, TypeOK, Request
<1>3. Clearing' = Clearing \ {r} /\ r \in Clearing
  BY <1>1, <1>2 DEF Clearing
<1>4. /\ Cardinality(Clearing') = Cardinality(Clearing) - 1
      /\ Cardinality(Clearing) \in Nat
  <2>1. Clearing \in SUBSET Slots
    BY DEF Clearing
  <2> QED BY <1>3, <2>1, SlotSets
<1>5. (Early' => Early) /\ (Unset' <=> Unset)
  BY <1>1, <1>2 DEF Early, Unset
<1>6. Owed' + 1 <= Owed
  BY <1>4, <1>5 DEF Owed
<1>7. /\ Counted \in Nat /\ Counted <= MaxAttempts /\ Counted' \in Nat
      /\ faults \in Nat /\ faults' \in Nat /\ Owed \in Nat /\ Owed' \in Nat
  BY <1>c DEF CreditOK
<1>8. CASE faults' = faults
  <2> SUFFICES ASSUME otp # None
               PROVE  Paid(tried[otp], Counted', Owed', faults')
    BY <1>1 DEF RoundsInv, Paid
  <2>1. Paid(tried[otp], Counted, Owed, faults) /\ tried[otp] \in Nat
    BY <1>c, RoundsAsPaid DEF CreditOK
  <2> QED BY <1>6, <1>7, <1>8, <2>1, PaidReset
<1>9. CASE UNCHANGED <<attempts, countedFor>> /\ faults' = faults + 1
  <2>1. Counted' = Counted
    BY <1>9 DEF Counted
  <2>2. Owed' <= Owed + 1
    BY <1>4, <1>5 DEF Owed
  <2> QED BY <1>c, <1>1, <1>9, <2>1, <2>2, RoundsKept
<1> QED BY <1>1, <1>8, <1>9

\* Keys that expire: a counter goes before its code only where a fault let it.
LEMMA ExpiryRounds ==
  ASSUME CodeInv, AloneInv, TypeOK', RoundsInv,
         ExpireOtp \/ ExpireAttempts \/ ExpireLock
  PROVE  RoundsInv'
<1>c. CreditOK /\ CreditOK'
  BY CreditTyped, PTL DEF CodeInv
<1>1. CASE ExpireOtp
  BY <1>1 DEF ExpireOtp, RoundsInv
<1>2. CASE ExpireLock
  <2>1. UNCHANGED <<otp, attempts, countedFor, tried, req, faults>>
    BY <1>2 DEF ExpireLock
  <2>2. Clearing' = Clearing /\ (Early' <=> Early) /\ (Unset' <=> Unset)
    BY <2>1 DEF Clearing, Early, Unset
  <2>3. Owed' = Owed /\ Counted' = Counted
    BY <2>1, <2>2 DEF Owed, Counted
  <2>4. Owed' <= Owed /\ faults <= faults'
    BY <1>c, <2>1, <2>3 DEF CreditOK
  <2> QED BY <1>c, <2>1, <2>3, <2>4, RoundsKept
<1>3. CASE ExpireAttempts
  <2>1. /\ attempts' = 0 /\ countedFor' = None /\ countedFor # None
        /\ otp = None \/ countedFor < otp
        /\ UNCHANGED <<otp, tried, req, faults>>
    BY <1>3 DEF ExpireAttempts
  <2>2. Clearing' = Clearing /\ ~Early' /\ (Unset' <=> Unset)
    BY <2>1 DEF Clearing, Early, Unset
  <2>3. Cardinality(Clearing) \in Nat
    <3>1. Clearing \in SUBSET Slots
      BY DEF Clearing
    <3> QED BY <3>1, SlotSets
  <2> SUFFICES ASSUME otp # None
               PROVE  Paid(tried[otp], Counted', Owed', faults)
    BY <2>1 DEF RoundsInv, Paid
  <2>4. /\ Paid(tried[otp], Counted, Owed, faults) /\ tried[otp] \in Nat
        /\ Counted \in Nat /\ Counted <= MaxAttempts /\ Counted' \in Nat
        /\ Owed \in Nat /\ Owed' \in Nat /\ faults \in Nat
    BY <1>c, RoundsAsPaid DEF CreditOK
  <2>5. CASE Early
    <3>1. Owed' + 1 <= Owed
      BY <2>2, <2>3, <2>5 DEF Owed
    <3> QED BY <2>4, <3>1, PaidReset
  <2>6. CASE ~Early
    <3>1. PICK r \in Slots : req[r].step = "reset" /\ req[r].code = otp
      BY <2>1, <2>6 DEF Early
    <3>2. tried[otp] = 0 /\ \A x \in Slots \ {r} : req[x] = Idle
      BY <3>1 DEF AloneInv, SendSteps
    <3>3. Clearing = {} /\ ~Unset'
      BY <2>1, <3>1, <3>2 DEF Clearing, Unset, Idle
    <3>4. Owed' = 0
      BY <2>2, <3>3, FS_EmptySet DEF Owed
    <3>5. Owed' <= faults
      BY <2>4, <3>4
    <3> QED BY <2>4, <3>2, <3>5, PaidAtFirst
  <2> QED BY <2>5, <2>6
<1> QED BY <1>1, <1>2, <1>3

LEMMA RoundsInvKept ==
  ASSUME CodeInv, AloneInv, RoundsInv, [Next]_vars
  PROVE  RoundsInv'
<1>1. TypeOK'
  BY CodeInvKept DEF CodeInv
<1>2. CASE UNCHANGED vars
  <2>1. UNCHANGED <<otp, attempts, countedFor, tried, req, faults>>
    BY <1>2 DEF vars
  <2>2. Clearing' = Clearing /\ (Early' <=> Early) /\ (Unset' <=> Unset)
    BY <2>1 DEF Clearing, Early, Unset
  <2>3. Owed' = Owed /\ Counted' = Counted
    BY <2>1, <2>2 DEF Owed, Counted
  <2> QED BY <2>1, <2>3 DEF RoundsInv
<1>3. CASE ExpireOtp \/ ExpireAttempts \/ ExpireLock
  BY <1>1, <1>3, ExpiryRounds
<1>4. ASSUME NEW r \in Slots, Fail(r)
      PROVE  RoundsInv'
  BY <1>1, <1>4, QuietRounds, ResetRounds
<1>5. ASSUME NEW r \in Slots,
             \/ SendOtp(r) \/ Continue(r)
             \/ \E code \in {None} \cup Codes : VerifyOtp(r, code)
      PROVE  RoundsInv'
  BY <1>1, <1>5, QuietRounds, StoreRounds, ResetRounds, CountRounds,
     DeleteRounds, ClearRounds DEF Continue
<1> QED BY <1>2, <1>3, <1>4, <1>5 DEF Next

\* A step of MCNext, seen from OtpLogin.
LEMMA HistoryStep ==
  ASSUME mixed \in BOOLEAN, [MCNext]_mcVars
  PROVE  /\ mixed' \in BOOLEAN /\ [Next]_vars
         /\ ~mixed' => ~mixed /\ (UNCHANGED vars \/ ~Mixed')
<1>1. CASE UNCHANGED mcVars
  BY <1>1 DEF mcVars
<1>2. CASE MCNext
  BY <1>2 DEF MCNext
<1> QED BY <1>1, <1>2

LEMMA UnmixedStaysAlone ==
  ASSUME CodeInv, TypeOK', AloneInv, UNCHANGED vars \/ ~Mixed', [Next]_vars
  PROVE  AloneInv'
<1>1. CASE UNCHANGED vars
  BY <1>1 DEF vars, AloneInv
<1> QED BY <1>1, AloneInvKept

LEMMA AloneAtFirst ==
  ASSUME Init
  PROVE  AloneInv
BY DEF Init, AloneInv, Idle, SendSteps

\* The inductive invariant of the guesses: the rounds are kept until a sendOtp
\* overlaps another request.
AttemptInv == mixed \in BOOLEAN /\ CodeInv /\ (mixed \/ (AloneInv /\ RoundsInv))

LEMMA AttemptInvariance == MCSpec => []AttemptInv
<1>1. ASSUME MCInit PROVE AttemptInv
  <2>1. CodeInv /\ AloneInv
    BY <1>1, OtpInitInv, AloneAtFirst DEF MCInit
  <2>2. RoundsInv
    BY <1>1 DEF MCInit, Init, RoundsInv
  <2> QED BY <1>1, <2>1, <2>2 DEF AttemptInv, MCInit
<1>2. ASSUME AttemptInv, [MCNext]_mcVars PROVE AttemptInv'
  <2>1. /\ mixed' \in BOOLEAN /\ [Next]_vars
        /\ ~mixed' => ~mixed /\ (UNCHANGED vars \/ ~Mixed')
    BY <1>2, HistoryStep DEF AttemptInv
  <2>2. CodeInv' /\ TypeOK'
    BY <1>2, <2>1, CodeInvKept DEF AttemptInv, CodeInv
  <2>3. ASSUME ~mixed' PROVE AloneInv' /\ RoundsInv'
    <3>1. CodeInv /\ AloneInv /\ RoundsInv
      BY <1>2, <2>1, <2>3 DEF AttemptInv
    <3>2. AloneInv'
      BY <2>1, <2>2, <2>3, <3>1, UnmixedStaysAlone
    <3> QED BY <2>1, <3>1, <3>2, RoundsInvKept
  <2> QED BY <2>1, <2>2, <2>3 DEF AttemptInv
<1> QED BY <1>1, <1>2, PTL DEF MCSpec

\* verifyOtp's limit, for any number of verifications in parallel with keys
\* expiring at any time: MaxAttempts guesses at a stored code, and one round
\* more for each fault, until a sendOtp overlaps another request.
THEOREM AttemptsLimited == MCSpec => []UnmixedCodeAttempts
<1>1. AttemptInv => UnmixedCodeAttempts
  <2> SUFFICES ASSUME AttemptInv, ~mixed, otp # None
               PROVE  tried[otp] <= MaxAttempts * (1 + faults)
    BY DEF UnmixedCodeAttempts, LiveCodeAttempts
  <2>1. CreditOK
    BY CreditTyped DEF AttemptInv, CodeInv
  <2>2. /\ Paid(tried[otp], Counted, Owed, faults) /\ tried[otp] \in Nat
        /\ Counted \in Nat /\ Counted <= MaxAttempts /\ Owed \in Nat
        /\ faults \in Nat
    BY <2>1, RoundsAsPaid DEF AttemptInv, CreditOK
  <2>3. ASSUME NEW g \in Nat, NEW c \in Nat, c <= MaxAttempts, NEW a \in Nat,
               NEW f \in Nat, Paid(g, c, a, f)
        PROVE  g <= MaxAttempts * (1 + f)
    <3>1. f - a \in Int /\ f - a <= f /\ f \in Int /\ 1 + f = f + 1
      OBVIOUS
    <3>2. MaxAttempts * (f - a) <= MaxAttempts * f
      BY <3>1, Rounds
    <3>3. MaxAttempts * (f + 1) = MaxAttempts * f + MaxAttempts
      BY <3>1, Rounds
    <3>4. /\ MaxAttempts * (f - a) \in Int /\ MaxAttempts * f \in Int
          /\ MaxAttempts \in Nat
      BY <3>1, Rounds
    <3>5. g <= c + MaxAttempts * (f - a)
      BY <2>3 DEF Paid
    <3> DEFINE x == MaxAttempts * (f - a)
               y == MaxAttempts * f
    <3>6. g <= c + x /\ x <= y /\ MaxAttempts * (f + 1) = y + MaxAttempts
          /\ x \in Int /\ y \in Int
      BY <3>2, <3>3, <3>4, <3>5
    <3> HIDE DEF x, y
    <3>7. g <= MaxAttempts * (f + 1)
      BY <2>3, <3>4, <3>6
    <3> QED BY <3>1, <3>7
  <2> QED BY <2>2, <2>3
<1> QED BY <1>1, AttemptInvariance, PTL

(*---------------------------- Codes and the lock -----------------------------*)

\* While Redis answers, nobody is on the way into a locked mobile but those who
\* were when the lock was set.
PassedInv == CodeInv /\ (lock /\ faults = 0 => OnTheirWay \subseteq passed)

\* Who is about to store a code was so before, or read the lock in this step.
LEMMA WhoStores ==
  ASSUME CodeInv, Next, faults' = 0
  PROVE  /\ faults = 0
         /\ lock => OnTheirWay' \subseteq OnTheirWay
         /\ ~lock /\ lock' => \E r \in Slots : SetLock(r)
<1> USE DEF CodeInv, TypeOK
<1>1. faults \in Nat /\ faults' = 0
  BY BoundsAreNat
<1>2. CASE ExpireOtp \/ ExpireAttempts \/ ExpireLock
  BY <1>1, <1>2 DEF ExpireOtp, ExpireAttempts, ExpireLock, OnTheirWay
<1>3. ASSUME NEW r \in Slots,
             \/ SendOtp(r) \/ Continue(r) \/ Fail(r)
             \/ \E code \in {None} \cup Codes : VerifyOtp(r, code)
      PROVE  faults = 0
  <2>1. ASSUME NEW ok \in BOOLEAN, Answers(ok) PROVE faults = 0
    BY <1>1, <2>1 DEF Answers
  <2> QED BY <1>1, <1>3, <2>1 DEF Continue, SendOtp, CheckLock, StoreOtp,
             ResetAttempts, SendSms, VerifyOtp, ReadOtp, CountAttempt, SetLock,
             LockDeletesOtp, DeleteOtp, ConsumeOtp, ClearAttempts, FindUser,
             CreateUser, CreateSession, Fail
<1>4. ASSUME NEW r \in Slots, NEW q \in Request, Follows(r, q)
      PROVE  OnTheirWay' \subseteq OnTheirWay
  <2>1. \A x \in Slots : req'[x] = IF x = r THEN q ELSE req[x]
    BY <1>4 DEF Follows
  <2> QED BY <1>4, <2>1 DEF Follows, OnTheirWay
<1>5. ASSUME NEW r \in Slots, CheckLock(r), lock
      PROVE  OnTheirWay' \subseteq OnTheirWay
  <2>1. req' = [req EXCEPT ![r] = Idle]
    BY <1>1, <1>5 DEF CheckLock, Answers, Finish
  <2>2. \A x \in Slots : req'[x] = IF x = r THEN Idle ELSE req[x]
    BY <2>1
  <2> QED BY <2>2 DEF OnTheirWay, Idle
<1>6. ASSUME NEW r \in Slots, StoreOtp(r)
      PROVE  OnTheirWay' \subseteq OnTheirWay
  <2>1. \A x \in Slots : x # r => req'[x] = req[x]
    BY <1>6 DEF StoreOtp, Goto
  <2>2. req'[r].step = "reset"
    BY <1>6 DEF StoreOtp, Goto, Request
  <2> QED BY <2>1, <2>2 DEF OnTheirWay
<1>7. ~lock /\ lock' => \E r \in Slots : SetLock(r)
  BY DEF Next, Continue, SendOtp, CheckLock, StoreOtp, ResetAttempts, SendSms,
     VerifyOtp, ReadOtp, CountAttempt, LockDeletesOtp, ConsumeOtp, ClearAttempts,
     FindUser, CreateUser, CreateSession, Fail, ExpireOtp, ExpireAttempts,
     ExpireLock
<1> QED BY <1>2, <1>3, <1>4, <1>5, <1>6, <1>7, RequestFollows DEF Next, Continue

LEMMA SetLockStores ==
  ASSUME CodeInv, NEW r \in Slots, SetLock(r)
  PROVE  OnTheirWay' \subseteq OnTheirWay
<1>1. \A x \in Slots : x # r => req'[x] = req[x]
  BY DEF SetLock, Goto, CodeInv, TypeOK
<1>2. req'[r].step = "unstore"
  BY DEF SetLock, Goto, CodeInv, TypeOK, Request
<1> QED BY <1>1, <1>2 DEF OnTheirWay

LEMMA PassedInvKept ==
  ASSUME PassedInv, [MCNext]_mcVars
  PROVE  PassedInv'
<1>1. CASE UNCHANGED mcVars
  <2>1. /\ UNCHANGED <<lock, faults, req, passed>> /\ [Next]_vars
    BY <1>1 DEF mcVars, vars
  <2>2. CodeInv'
    BY <2>1, CodeInvKept DEF PassedInv
  <2> QED BY <2>1, <2>2 DEF PassedInv, OnTheirWay
<1>2. CASE MCNext
  <2>1. CodeInv /\ CodeInv' /\ Next
    BY <1>2, CodeInvKept DEF MCNext, PassedInv
  <2>2. ASSUME lock', faults' = 0 PROVE OnTheirWay' \subseteq passed'
    <3>1. CASE lock
      BY <1>2, <2>1, <2>2, <3>1, WhoStores DEF MCNext, PassedInv
    <3>2. CASE ~lock
      <4>1. passed' = OnTheirWay
        BY <1>2, <2>2, <3>2 DEF MCNext
      <4> QED BY <2>1, <2>2, <3>2, <4>1, WhoStores, SetLockStores
    <3> QED BY <3>1, <3>2
  <2> QED BY <2>1, <2>2 DEF PassedInv
<1> QED BY <1>1, <1>2

LEMMA PassedInvariance == MCSpec => []PassedInv
<1>1. ASSUME MCInit PROVE PassedInv
  BY <1>1, OtpInitInv DEF MCInit, Init, PassedInv
<1> QED BY <1>1, PassedInvKept, PTL DEF MCSpec

\* However requests overlap, a code reaches a locked mobile only from a sendOtp
\* that read the lock before it was set: the lock read of sendOtp and its SET
\* are separate calls, and nothing but that gap, or Redis failing, lets a code
\* past the lock.
THEOREM LockStopsCodes == MCSpec => LockStoresOnlyPassed
<1> DEFINE Stored == lock /\ faults' = 0 => otp' \in {otp, None} \cup passed
<1>1. ASSUME PassedInv, [MCNext]_mcVars
      PROVE  [Stored]_mcVars
  <2> SUFFICES ASSUME MCNext, lock, faults' = 0
               PROVE  otp' \in {otp, None} \cup passed
    BY <1>1
  <2>0. CodeInv /\ Next /\ faults = 0
    BY <1>1, WhoStores DEF PassedInv, MCNext
  <2>1. CASE ExpireOtp \/ ExpireAttempts \/ ExpireLock
    BY <2>1 DEF ExpireOtp, ExpireAttempts, ExpireLock
  <2>2. ASSUME NEW r \in Slots, StoreOtp(r)
        PROVE  otp' \in {otp, None} \cup passed
    <3>1. otp' \in {otp, req[r].code} /\ req[r].code \in OnTheirWay
      BY <2>2 DEF StoreOtp, OnTheirWay
    <3> QED BY <1>1, <2>0, <3>1 DEF PassedInv
  <2>3. ASSUME NEW r \in Slots, CheckLock(r) PROVE otp' \in {otp, None}
    BY <2>3 DEF CheckLock
  <2>4. ASSUME NEW r \in Slots, NEW q \in Request, Follows(r, q)
        PROVE  otp' \in {otp, None}
    BY <2>4 DEF Follows
  <2> QED BY <2>0, <2>1, <2>2, <2>3, <2>4, RequestFollows DEF Next, Continue
<1> HIDE DEF Stored
<1>2. MCSpec => [][Stored]_mcVars
  BY <1>1, PassedInvariance, PTL DEF MCSpec
<1> QED BY <1>2 DEF LockStoresOnlyPassed, Stored

\* Fewer codes than there are requests in parallel get past a lock: the
\* verification that sets it is one of those requests.
FewPassed == passed # {} => Cardinality(passed) < Cardinality(Slots)

LEMMA FewOnTheirWay ==
  ASSUME CodeInv, NEW r \in Slots, SetLock(r)
  PROVE  Cardinality(OnTheirWay) < Cardinality(Slots)
<1> DEFINE S == {x \in Slots : req[x].step = "store"}
           f == [x \in S |-> req[x].code]
<1>1. S \in SUBSET (Slots \ {r}) /\ Slots \in SUBSET Slots
  BY DEF SetLock
<1>2. Cardinality(Slots \ {r}) = Cardinality(Slots) - 1
  BY <1>1, SlotSets
<1>3. /\ IsFiniteSet(S) /\ Cardinality(S) <= Cardinality(Slots \ {r})
      /\ Cardinality(S) \in Nat /\ Cardinality(Slots) \in Nat
  <2>1. Slots \ {r} \in SUBSET Slots /\ S \in SUBSET Slots
    BY <1>1
  <2> QED BY <1>1, <2>1, SlotSets
<1>4. f \in Surjection(S, OnTheirWay)
  <2>1. f \in [S -> OnTheirWay] /\ \A c \in OnTheirWay : \E x \in S : f[x] = c
    BY DEF OnTheirWay
  <2> QED BY <2>1 DEF Surjection
<1>5. Cardinality(OnTheirWay) <= Cardinality(S) /\ IsFiniteSet(OnTheirWay)
  BY <1>3, <1>4, FS_Surjection
<1>6. Cardinality(OnTheirWay) \in Nat
  BY <1>5, FS_CardinalityType
<1> QED BY <1>2, <1>3, <1>5, <1>6

\* The gap of the lock is as wide as the requests in parallel, less the one that
\* locked the mobile: with one request at a time no code passes.
THEOREM FewPassTheLock == MCSpec => []FewPassed
<1>1. MCInit => FewPassed
  BY DEF MCInit, FewPassed
<1>2. ASSUME CodeInv, FewPassed, [MCNext]_mcVars PROVE FewPassed'
  <2>1. CASE passed' \in {passed, {}}
    BY <1>2, <2>1 DEF FewPassed
  <2>2. CASE passed' \notin {passed, {}}
    <3>1. MCNext /\ ~lock /\ lock' /\ passed' = OnTheirWay
      BY <1>2, <2>2 DEF MCNext, mcVars
    <3>2. PICK r \in Slots : SetLock(r)
      BY <3>1 DEF MCNext, Next, Continue, SendOtp, CheckLock, StoreOtp,
         ResetAttempts, SendSms, VerifyOtp, ReadOtp, CountAttempt,
         LockDeletesOtp, ConsumeOtp, ClearAttempts, FindUser, CreateUser,
         CreateSession, Fail, ExpireOtp, ExpireAttempts, ExpireLock
    <3> QED BY <1>2, <3>1, <3>2, FewOnTheirWay DEF FewPassed
  <2> QED BY <2>1, <2>2
<1>3. PassedInv => CodeInv
  BY DEF PassedInv
<1> QED BY <1>1, <1>2, <1>3, PassedInvariance, PTL DEF MCSpec

(*--------------------- An accepted code is never dropped ----------------------*)

\* Where sendOtp runs alone, the requests that have read a code have read the
\* same one, and no other is stored.
OneCode ==
  \A r, x \in Slots : req[r].stored # None =>
    /\ req[x].stored \in {None, req[r].stored}
    /\ otp \in {None, req[r].stored}

\* Whoever finds the user's row taken has lost to a request with the same code.
UserInv ==
  faults = 0 =>
    \A r \in Slots : req[r].step = "create" /\ hasUser =>
      \/ logins[req[r].code] > 0
      \/ \E x \in Slots : req[x].step = "session" /\ req[x].code = req[r].code

\* What keeps UnmixedCodeLogsIn from failing: without a fault, and until a
\* sendOtp overlaps another request, a request that got its code accepted hands
\* it on, to its own next step or to the login that it lost the INSERT of the
\* user to.
AcceptedIsKept ==
  [][\A c \in Codes :
       (\E r \in Slots : req[r].step \in Accepted /\ req[r].code = c)
         => \/ \E r \in Slots : req'[r].step \in Accepted /\ req'[r].code = c
            \/ logins'[c] > 0 \/ faults' > 0 \/ mixed']_mcVars

LEMMA OneCodeKept ==
  ASSUME CodeInv, AloneInv, OneCode, [Next]_vars
  PROVE  OneCode'
<1> USE DEF CodeInv, TypeOK
<1>1. CASE UNCHANGED vars
  BY <1>1 DEF vars, OneCode
<1>2. CASE ExpireOtp \/ ExpireAttempts \/ ExpireLock
  BY <1>2 DEF ExpireOtp, ExpireAttempts, ExpireLock, OneCode
<1>3. ASSUME NEW r \in Slots, NEW q \in Request, Follows(r, q)
      PROVE  OneCode'
  <2>1. \A x \in Slots : req'[x] = IF x = r THEN q ELSE req[x]
    BY <1>3 DEF Follows
  <2>2. otp' \in {otp, None} /\ q.stored \in {None, otp, req[r].stored}
    BY <1>3 DEF Follows
  <2> QED BY <2>1, <2>2 DEF OneCode
<1>4. ASSUME NEW r \in Slots, CheckLock(r) \/ StoreOtp(r)
      PROVE  OneCode'
  <2>1. req[r].stored = None /\ \A x \in Slots \ {r} : req[x] = Idle
    BY <1>4 DEF CheckLock, StoreOtp, SendSteps, AloneInv, CodesInv, Holding
  <2>2. req'[r].stored = None
    BY <1>4, <2>1 DEF CheckLock, StoreOtp, Goto, Finish, Idle, Request
  <2>3. \A x \in Slots \ {r} : req'[x] = req[x]
    BY <1>4 DEF CheckLock, StoreOtp, Goto, Finish
  <2> QED BY <2>1, <2>2, <2>3 DEF OneCode, Idle
<1> QED BY <1>1, <1>2, <1>3, <1>4, RequestFollows DEF Next, Continue

LEMMA LoginsGrow ==
  ASSUME CodeInv, Next, NEW c \in Codes
  PROVE  logins'[c] >= logins[c] /\ faults' >= faults
<1> USE DEF CodeInv, TypeOK
<1>1. faults' >= faults
  <2>1. faults \in Nat
    BY BoundsAreNat
  <2>2. ASSUME NEW ok \in BOOLEAN, Answers(ok) PROVE faults' >= faults
    BY <2>1, <2>2 DEF Answers
  <2>3. ASSUME NEW r \in Slots,
               \/ CheckLock(r) \/ StoreOtp(r) \/ ResetAttempts(r) \/ ReadOtp(r)
               \/ CountAttempt(r) \/ SetLock(r) \/ LockDeletesOtp(r)
               \/ ConsumeOtp(r) \/ ClearAttempts(r)
        PROVE  \E ok \in BOOLEAN : Answers(ok)
    BY <2>3 DEF CheckLock, StoreOtp, ResetAttempts, ReadOtp, CountAttempt, SetLock,
       LockDeletesOtp, ConsumeOtp, DeleteOtp, ClearAttempts
  <2>4. ASSUME NEW r \in Slots,
               \/ SendOtp(r) \/ SendSms(r) \/ FindUser(r) \/ CreateUser(r)
               \/ CreateSession(r) \/ Fail(r)
               \/ \E code \in {None} \cup Codes : VerifyOtp(r, code)
        PROVE  faults' >= faults
    BY <2>1, <2>4 DEF SendOtp, SendSms, FindUser, CreateUser, CreateSession, Fail,
       VerifyOtp
  <2>5. CASE ExpireOtp \/ ExpireAttempts \/ ExpireLock
    BY <2>1, <2>5 DEF ExpireOtp, ExpireAttempts, ExpireLock
  <2> QED BY <2>2, <2>3, <2>4, <2>5 DEF Next, Continue
<1>2. CASE \E r \in Slots : CreateSession(r)
  BY <1>1, <1>2 DEF CreateSession
<1>3. CASE ~\E r \in Slots : CreateSession(r)
  <2>1. logins' = logins
    BY <1>3 DEF Next, Continue, SendOtp, CheckLock, StoreOtp,
       ResetAttempts, SendSms, VerifyOtp, ReadOtp, CountAttempt, SetLock,
       LockDeletesOtp, ConsumeOtp, ClearAttempts, FindUser, CreateUser,
       Fail, ExpireOtp, ExpireAttempts, ExpireLock
  <2> QED BY <1>1, <2>1
<1> QED BY <1>2, <1>3

\* What a step does to a request that got its code accepted: nothing, its next
\* step, its login, its loss to another login, or its death.
LEMMA AcceptedMoves ==
  ASSUME CodeInv, Next, NEW x \in Slots, req[x].step \in Accepted
  PROVE  \/ req'[x] = req[x]
         \/ /\ req'[x].step \in Accepted /\ req'[x].code = req[x].code
            /\ req[x].step # "session"
            /\ req'[x].step = "create" => hasUser' = FALSE
         \/ logins'[req[x].code] > 0 /\ req'[x].step = "idle"
         \/ /\ req[x].step = "create" /\ hasUser /\ req'[x].step = "idle"
            /\ \A y \in Slots \ {x} : req'[y] = req[y]
         \/ faults' > 0
<1> USE DEF CodeInv, TypeOK
<1>1. /\ req[x].code \in Codes /\ req[x] \in Request /\ faults \in Nat
      /\ req[x] # Idle
  BY BoundsAreNat DEF CodesInv, Holding, Request, Accepted, Idle
<1>2. CASE Fail(x)
  BY <1>1, <1>2 DEF Fail
<1>3. CASE ConsumeOtp(x) \/ ClearAttempts(x) \/ FindUser(x)
  BY <1>1, <1>3 DEF ConsumeOtp, ClearAttempts, FindUser, Goto, Accepted, Request
<1>4. CASE CreateUser(x)
  <2>1. CASE hasUser
    BY <1>4, <2>1 DEF CreateUser, Finish, Idle
  <2>2. CASE ~hasUser
    BY <1>1, <1>4, <2>2 DEF CreateUser, Goto, Accepted, Request
  <2> QED BY <2>1, <2>2
<1>5. CASE CreateSession(x)
  BY <1>1, <1>5 DEF CreateSession, Finish, Idle
<1>6. ASSUME NEW r \in Slots, r # x,
             \/ SendOtp(r) \/ Continue(r) \/ Fail(r)
             \/ \E code \in {None} \cup Codes : VerifyOtp(r, code)
      PROVE  req'[x] = req[x]
  BY <1>6 DEF Continue, SendOtp, CheckLock, StoreOtp, ResetAttempts, SendSms,
     VerifyOtp, ReadOtp, CountAttempt, SetLock, LockDeletesOtp, ConsumeOtp,
     ClearAttempts, FindUser, CreateUser, CreateSession, Fail, Goto, Finish
<1>7. CASE ExpireOtp \/ ExpireAttempts \/ ExpireLock
  BY <1>7 DEF ExpireOtp, ExpireAttempts, ExpireLock
<1>8. ~ \/ SendOtp(x) \/ \E code \in {None} \cup Codes : VerifyOtp(x, code)
        \/ CheckLock(x) \/ StoreOtp(x) \/ ResetAttempts(x) \/ SendSms(x)
        \/ ReadOtp(x) \/ CountAttempt(x) \/ SetLock(x) \/ LockDeletesOtp(x)
  BY <1>1 DEF Accepted, SendOtp, CheckLock, StoreOtp, ResetAttempts, SendSms,
     VerifyOtp, ReadOtp, CountAttempt, SetLock, LockDeletesOtp
<1> QED BY <1>2, <1>3, <1>4, <1>5, <1>6, <1>7, <1>8 DEF Next, Continue

LEMMA CreateFollowsFind ==
  ASSUME CodeInv, Next, NEW x \in Slots, req'[x].step = "create"
  PROVE  req[x].step \in Accepted
<1> USE DEF CodeInv, TypeOK
<1>1. CASE req'[x] = req[x]
  BY <1>1 DEF Accepted
<1>2. ASSUME NEW r \in Slots, NEW step \in Steps \ {"create"},
             Goto(r, step) \/ Finish(r)
      PROVE  req'[x] = req[x]
  BY <1>2 DEF Goto, Finish, Idle, Request
<1>3. ASSUME NEW r \in Slots,
             \/ CheckLock(r) \/ StoreOtp(r) \/ ResetAttempts(r) \/ SendSms(r)
             \/ SendOtp(r) \/ \E code \in {None} \cup Codes : VerifyOtp(r, code)
      PROVE  req'[x] = req[x]
  BY <1>2, <1>3 DEF CheckLock, StoreOtp, ResetAttempts, SendSms, SendOtp,
     VerifyOtp, Steps, Request
<1>4. ASSUME NEW r \in Slots,
             \/ ReadOtp(r) \/ CountAttempt(r) \/ SetLock(r) \/ LockDeletesOtp(r)
             \/ CreateUser(r) \/ CreateSession(r) \/ Fail(r)
             \/ ConsumeOtp(r) \/ ClearAttempts(r)
      PROVE  req'[x] = req[x]
  BY <1>2, <1>4 DEF ReadOtp, CountAttempt, SetLock, LockDeletesOtp, CreateUser,
     CreateSession, Fail, ConsumeOtp, ClearAttempts, Steps, Request
<1>5. ASSUME NEW r \in Slots, FindUser(r)
      PROVE  req[x].step \in Accepted
  BY <1>1, <1>5 DEF FindUser, Goto, Accepted
<1>6. CASE ExpireOtp \/ ExpireAttempts \/ ExpireLock
  BY <1>1, <1>6 DEF ExpireOtp, ExpireAttempts, ExpireLock
<1> QED BY <1>1, <1>3, <1>4, <1>5, <1>6 DEF Next, Continue

LEMMA UserInvKept ==
  ASSUME CodeInv, CodeInv', OneCode, UserInv, [Next]_vars
  PROVE  UserInv'
<1>1. CASE UNCHANGED vars
  BY <1>1 DEF vars, UserInv
<1> SUFFICES ASSUME Next, faults' = 0, NEW r \in Slots,
                    req'[r].step = "create", hasUser'
             PROVE  \/ logins'[req'[r].code] > 0
                    \/ \E x \in Slots : /\ req'[x].step = "session"
                                        /\ req'[x].code = req'[r].code
  BY <1>1 DEF UserInv
<1> USE DEF CodeInv, TypeOK
<1>2. req[r].step \in Accepted
  BY CreateFollowsFind
<1>3. /\ req[r].code \in Codes /\ req[r].stored = req[r].code
      /\ req[r].code # None
  BY <1>2 DEF CodesInv, Holding, Request
<1>4. /\ faults = 0
      /\ logins[req[r].code] > 0 => logins'[req[r].code] > 0
  <2>1. logins'[req[r].code] >= logins[req[r].code] /\ faults' >= faults
    BY <1>3, LoginsGrow
  <2>2. logins'[req[r].code] \in Nat /\ logins[req[r].code] \in Nat /\ faults \in Nat
    BY <1>3, BoundsAreNat
  <2> QED BY <2>1, <2>2
<1>5. req'[r] = req[r]
  BY <1>2, <1>4, AcceptedMoves
<1>6. CASE hasUser
  <2>1. CASE logins[req[r].code] > 0
    BY <1>4, <1>5, <2>1
  <2>2. ASSUME NEW x \in Slots, req[x].step = "session", req[x].code = req[r].code
        PROVE  req'[x] = req[x] \/ logins'[req[r].code] > 0
    BY <1>4, <2>2, AcceptedMoves DEF Accepted
  <2> QED BY <1>4, <1>5, <1>6, <2>1, <2>2 DEF UserInv
<1>7. CASE hasUser = FALSE
  <2>1. PICK y \in Slots : CreateUser(y)
    BY <1>7 DEF Next, Continue, SendOtp, CheckLock, StoreOtp, ResetAttempts,
       SendSms, VerifyOtp, ReadOtp, CountAttempt, SetLock, LockDeletesOtp,
       ConsumeOtp, ClearAttempts, FindUser, CreateSession, Fail, ExpireOtp,
       ExpireAttempts, ExpireLock
  <2>2. req'[y].step = "session" /\ req'[y].code = req[y].code
    BY <1>7, <2>1 DEF CreateUser, Goto, Request
  <2>3. req[y].code = req[y].stored /\ req[y].code # None
    BY <2>1 DEF CreateUser, CodesInv, Holding, Accepted
  <2>4. req[y].code = req[r].code
    BY <1>3, <2>3 DEF OneCode
  <2> QED BY <1>5, <2>2, <2>4
<1> QED BY <1>6, <1>7

\* The inductive invariant of an accepted code.
HandOnInv ==
  mixed \in BOOLEAN /\ CodeInv /\ (mixed \/ (AloneInv /\ OneCode /\ UserInv))

\* verifyOtp loses no user: until a sendOtp overlaps another request,
\* verifications in parallel that compete for the INSERT of a new user never
\* leave an accepted code without a session, unless a fault does.
THEOREM AcceptedCodesKept == MCSpec => AcceptedIsKept
<1>1. ASSUME MCInit PROVE HandOnInv
  <2>1. CodeInv /\ AloneInv
    BY <1>1, OtpInitInv, AloneAtFirst DEF MCInit
  <2>2. OneCode /\ UserInv
    BY <1>1 DEF MCInit, Init, OneCode, UserInv, Idle
  <2> QED BY <1>1, <2>1, <2>2 DEF HandOnInv, MCInit
<1>2. ASSUME HandOnInv, [MCNext]_mcVars PROVE HandOnInv'
  <2>1. /\ mixed' \in BOOLEAN /\ [Next]_vars
        /\ ~mixed' => ~mixed /\ (UNCHANGED vars \/ ~Mixed')
    BY <1>2, HistoryStep DEF HandOnInv
  <2>2. CodeInv' /\ TypeOK'
    BY <1>2, <2>1, CodeInvKept DEF HandOnInv, CodeInv
  <2>3. ASSUME ~mixed' PROVE AloneInv' /\ OneCode' /\ UserInv'
    <3>1. CodeInv /\ AloneInv /\ OneCode /\ UserInv
      BY <1>2, <2>1, <2>3 DEF HandOnInv
    <3>2. AloneInv'
      BY <2>1, <2>2, <2>3, <3>1, UnmixedStaysAlone
    <3> QED BY <2>1, <2>2, <3>1, <3>2, OneCodeKept, UserInvKept
  <2> QED BY <2>1, <2>2, <2>3 DEF HandOnInv
<1> DEFINE Handed ==
      \A c \in Codes :
        (\E r \in Slots : req[r].step \in Accepted /\ req[r].code = c)
          => \/ \E r \in Slots : req'[r].step \in Accepted /\ req'[r].code = c
             \/ logins'[c] > 0 \/ faults' > 0 \/ mixed'
<1>3. ASSUME HandOnInv, [MCNext]_mcVars
      PROVE  [Handed]_mcVars
  <2> SUFFICES ASSUME MCNext, NEW r \in Slots, req[r].step \in Accepted,
                      ~(faults' > 0), ~mixed'
               PROVE  \/ \E x \in Slots : /\ req'[x].step \in Accepted
                                          /\ req'[x].code = req[r].code
                      \/ logins'[req[r].code] > 0
    BY <1>3
  <2>1. CodeInv /\ UserInv /\ Next
    BY <1>3, HistoryStep DEF HandOnInv, MCNext
  <2>2. req[r].code \in Codes /\ faults \in Nat
    BY <2>1, BoundsAreNat DEF CodeInv, TypeOK, CodesInv, Holding, Request
  <2>3. CASE \/ req'[r] = req[r]
             \/ req'[r].step \in Accepted /\ req'[r].code = req[r].code
             \/ logins'[req[r].code] > 0
    BY <2>3
  <2>4. CASE /\ req[r].step = "create" /\ hasUser
             /\ \A y \in Slots \ {r} : req'[y] = req[y]
    <3>1. logins'[req[r].code] >= logins[req[r].code] /\ faults' >= faults
      BY <2>1, <2>2, LoginsGrow
    <3>2. faults = 0 /\ logins'[req[r].code] \in Nat /\ logins[req[r].code] \in Nat
      <4>1. CodeInv'
        BY <1>2, <1>3 DEF HandOnInv
      <4>2. faults' \in Nat
        BY <4>1, BoundsAreNat DEF CodeInv, TypeOK
      <4> QED BY <2>1, <2>2, <3>1, <4>1, <4>2 DEF CodeInv, TypeOK
    <3> QED BY <2>1, <2>4, <3>1, <3>2 DEF UserInv, Accepted
  <2> QED BY <2>1, <2>3, <2>4, AcceptedMoves
<1> HIDE DEF Handed
<1>4. MCSpec => [][Handed]_mcVars
  BY <1>1, <1>2, <1>3, PTL DEF MCSpec
<1> QED BY <1>4 DEF AcceptedIsKept, Handed

(*--------------------------- Requests run to their end ------------------------*)

\* The awaits a request still has before it, at most.
AwaitsLeft(q) ==
  CASE q.step = "read" -> 8
    [] q.step = "count" -> 7
    [] q.step \in {"consume", "lock"} -> 6
    [] q.step \in {"clear", "unstore"} -> 5
    [] q.step \in {"find", "checkLock"} -> 4
    [] q.step \in {"create", "store"} -> 3
    [] q.step \in {"session", "reset"} -> 2
    [] q.step = "sms" -> 1
    [] OTHER -> 0

\* No request is moved by another one, repeats a call or turns back: each step
\* of a request in flight brings it nearer to its end.
RequestsRunOut ==
  [][\A r \in Slots :
       req'[r] # req[r] /\ req[r] # Idle
         => AwaitsLeft(req'[r]) < AwaitsLeft(req[r])]_vars

\* Only Idle has no await left.
InFlight == \A r \in Slots : req[r].step = "idle" => req[r] = Idle

LEMMA StepNearer ==
  ASSUME TypeOK, InFlight, NEW r \in Slots,
         Continue(r) \/ Fail(r)
  PROVE  /\ \A x \in Slots : x # r => req'[x] = req[x]
         /\ req'[r].step = "idle" => req'[r] = Idle
         /\ AwaitsLeft(req'[r]) < AwaitsLeft(req[r])
<1> USE DEF TypeOK
<1>1. /\ Idle.step = "idle" /\ AwaitsLeft(Idle) = 0 /\ req[r] \in Request
      /\ req[r].step # "idle" => AwaitsLeft(req[r]) \in 1..8
  BY DEF Idle, AwaitsLeft, Request, Steps
<1>2. req[r].step # "idle"
  BY <1>1 DEF Continue, CheckLock, StoreOtp, ResetAttempts, SendSms, ReadOtp,
     CountAttempt, SetLock, LockDeletesOtp, ConsumeOtp, ClearAttempts, FindUser,
     CreateUser, CreateSession, Fail, InFlight
<1>3. CASE Finish(r)
  BY <1>1, <1>2, <1>3 DEF Finish
<1>4. ASSUME NEW step \in Steps, Goto(r, step)
      PROVE  /\ \A x \in Slots : x # r => req'[x] = req[x]
             /\ req'[r].step = step
  BY <1>1, <1>4 DEF Goto, Request
<1>5. ASSUME NEW from \in Steps, NEW step \in Steps, req[r].step = from,
             \A x \in Slots : x # r => req'[x] = req[x], req'[r].step = step,
             <<from, step>> \in
               {<<"checkLock", "store">>, <<"store", "reset">>,
                <<"reset", "sms">>, <<"read", "count">>, <<"count", "lock">>,
                <<"count", "consume">>, <<"lock", "unstore">>,
                <<"consume", "clear">>, <<"clear", "find">>,
                <<"find", "create">>, <<"find", "session">>,
                <<"create", "session">>}
      PROVE  /\ \A x \in Slots : x # r => req'[x] = req[x]
             /\ req'[r].step = "idle" => req'[r] = Idle
             /\ AwaitsLeft(req'[r]) < AwaitsLeft(req[r])
  <2>1. AwaitsLeft(req'[r]) < AwaitsLeft(req[r])
    BY <1>5 DEF AwaitsLeft
  <2> QED BY <1>5, <2>1
<1>6. CASE CheckLock(r)
  <2>1. CASE req' = [req EXCEPT ![r].step = "store", ![r].code = sent + 1]
    <3>1. /\ req'[r].step = "store" /\ \A x \in Slots : x # r => req'[x] = req[x]
          /\ req[r].step = "checkLock"
      BY <1>1, <1>6, <2>1 DEF CheckLock, Request
    <3> QED BY <1>5, <3>1 DEF Steps
  <2> QED BY <1>3, <1>6, <2>1 DEF CheckLock
<1>7. CASE ReadOtp(r)
  <2>1. CASE req' = [req EXCEPT ![r].step = "count", ![r].stored = otp]
    <3>1. /\ req'[r].step = "count" /\ \A x \in Slots : x # r => req'[x] = req[x]
          /\ req[r].step = "read"
      BY <1>1, <1>7, <2>1 DEF ReadOtp, Request
    <3> QED BY <1>5, <3>1 DEF Steps
  <2> QED BY <1>3, <1>7, <2>1 DEF ReadOtp
<1>8. CASE \/ StoreOtp(r) \/ ResetAttempts(r) \/ SetLock(r) \/ ConsumeOtp(r)
           \/ ClearAttempts(r)
  BY <1>4, <1>5, <1>8 DEF StoreOtp, ResetAttempts, SetLock, ConsumeOtp,
     ClearAttempts, Steps
<1>9. CASE CountAttempt(r)
  BY <1>3, <1>4, <1>5, <1>9 DEF CountAttempt, Steps
<1>10. CASE FindUser(r) \/ CreateUser(r)
  BY <1>3, <1>4, <1>5, <1>10 DEF FindUser, CreateUser, Steps
<1>11. CASE SendSms(r) \/ LockDeletesOtp(r) \/ CreateSession(r) \/ Fail(r)
  BY <1>3, <1>11 DEF SendSms, LockDeletesOtp, CreateSession, Fail
<1> QED BY <1>6, <1>7, <1>8, <1>9, <1>10, <1>11 DEF Continue

\* sendOtp and verifyOtp take at most eight steps each, however they overlap:
\* with AcceptedCodesKept, the reason why an accepted code logs somebody in.
THEOREM OtpRequestsRunOut == Spec => RequestsRunOut
<1> DEFINE Nearer ==
      \A r \in Slots : req'[r] # req[r] /\ req[r] # Idle
        => AwaitsLeft(req'[r]) < AwaitsLeft(req[r])
<1>1. Init => InFlight
  BY DEF Init, InFlight
<1>2. ASSUME TypeOK, InFlight, [Next]_vars
      PROVE  InFlight' /\ [Nearer]_vars
  <2>1. CASE UNCHANGED req
    BY <1>2, <2>1 DEF InFlight
  <2>2. ASSUME NEW r \in Slots, Continue(r) \/ Fail(r)
        PROVE  InFlight' /\ Nearer
    BY <1>2, <2>2, StepNearer DEF InFlight
  <2>3. ASSUME NEW r \in Slots,
               SendOtp(r) \/ \E code \in {None} \cup Codes : VerifyOtp(r, code)
        PROVE  InFlight' /\ Nearer
    <3>1. /\ req[r] = Idle /\ req'[r].step \in {"checkLock", "read"}
          /\ \A x \in Slots : x # r => req'[x] = req[x]
      BY <1>2, <2>3 DEF TypeOK, SendOtp, VerifyOtp, Goto, Request
    <3> QED BY <1>2, <3>1 DEF InFlight
  <2>4. CASE ExpireOtp \/ ExpireAttempts \/ ExpireLock
    BY <2>1, <2>4 DEF ExpireOtp, ExpireAttempts, ExpireLock
  <2>5. CASE UNCHANGED vars
    BY <2>1, <2>5 DEF vars
  <2> HIDE DEF Nearer
  <2> QED BY <1>2, <2>2, <2>3, <2>4, <2>5 DEF Next
<1> HIDE DEF Nearer
<1>3. Spec => [][Nearer]_vars
  BY <1>1, <1>2, OtpTyped, PTL DEF Spec
<1> QED BY <1>3 DEF RequestsRunOut, Nearer
===============================================================================
