----------------------------- MODULE SessionsProofs ------------------------------
(* Proofs about Sessions: the inductive invariant and what follows from it, for *)
(* any number of tokens, requests, ticks and faults.                            *)
EXTENDS MCSessions, TLAPS

(*----------------------------- Inductive invariant ---------------------------*)

\* A row belongs to an issued pair and a login, a request to a row.
Issued ==
  /\ \A t \in Tokens : Holds(t) => t <= issued /\ login[t] # None
  /\ \A r \in Slots : req[r].step # "idle" =>
       req[r].token # None /\ Holds(req[r].token)

\* The pair a refresh is about to insert: its own, and without a row.
Fresh ==
  \A r \in Slots : req[r].step \in {"revoke", "insert"} =>
    /\ req[r].new # None /\ req[r].new <= issued
    /\ row[req[r].new] = "absent"
    /\ \A x \in Slots : x # r /\ req[x].step \in {"revoke", "insert"} =>
         req[x].new # req[r].new

\* Between its UPDATE and its INSERT a refresh relies on the old row.
OldIsRevoked ==
  \A r \in Slots : req[r].step = "insert" => row[req[r].token] = "revoked"

\* A blacklist key lasts at least as long as its token.
KeyOutlivesToken ==
  \A t \in blacklisted : t <= issued /\ access[t] <= black[t]

IInv ==
  /\ TypeOK
  /\ Issued
  /\ Fresh
  /\ OldIsRevoked
  /\ ReplacedIsRevoked
  /\ KeyOutlivesToken

(*-------------------------------- Requests -----------------------------------*)

\* What each kind of write to the request table may assume and has to show.
LEMMA GotoType ==
  ASSUME TypeOK, NEW r \in Slots, NEW step \in Steps, Goto(r, step)
  PROVE  /\ req' \in [Slots -> Request]
         /\ \A x \in Slots : x # r => req'[x] = req[x]
         /\ req'[r].step = step
         /\ req'[r].token = req[r].token
         /\ req'[r].new = req[r].new
BY DEF TypeOK, Goto, Request

LEMMA FinishType ==
  ASSUME TypeOK, NEW r \in Slots, Finish(r)
  PROVE  /\ req' \in [Slots -> Request]
         /\ \A x \in Slots : x # r => req'[x] = req[x]
         /\ req'[r].step = "idle"
BY DEF TypeOK, Finish, Request, Idle, Steps, None

LEMMA StartType ==
  ASSUME TypeOK, NEW r \in Slots, NEW step \in Steps, NEW t \in Tokens,
         Start(r, step, t)
  PROVE  /\ req' \in [Slots -> Request]
         /\ \A x \in Slots : x # r => req'[x] = req[x]
         /\ req'[r].step = step
         /\ req'[r].token = t
BY DEF TypeOK, Start, Request, Idle, Steps, None

\* Steps that leave the tables and the keys alone and let one request finish.
LEMMA FinishInv ==
  ASSUME IInv, NEW r \in Slots, Finish(r), faults' \in 0..MaxFaults,
         UNCHANGED <<issued, row, login, parent, access, refresh, black,
                     blacklisted, ended>>
  PROVE  IInv'
<1>1. TypeOK
  BY DEF IInv
<1>2. TypeOK'
  BY <1>1, FinishType DEF TypeOK
<1>3. \A x \in Slots : x # r => req'[x] = req[x]
  BY <1>1, FinishType
<1>4. req'[r].step = "idle"
  BY <1>1, FinishType
<1>5. Issued'
  BY <1>3, <1>4 DEF IInv, Issued, Holds
<1>6. Fresh'
  BY <1>3, <1>4 DEF IInv, Fresh
<1>7. OldIsRevoked' /\ ReplacedIsRevoked' /\ KeyOutlivesToken'
  BY <1>3, <1>4 DEF IInv, OldIsRevoked, ReplacedIsRevoked, KeyOutlivesToken
<1> QED
  BY <1>2, <1>5, <1>6, <1>7 DEF IInv

\* The first step of a request: any handler's, for a pair the client holds.
LEMMA StartInv ==
  ASSUME IInv, NEW r \in Slots, NEW t \in Tokens,
         NEW step \in {"find", "blacklist", "revokeAll"},
         Start(r, step, t), Holds(t), faults' \in 0..MaxFaults,
         UNCHANGED <<issued, row, login, parent, access, refresh, black,
                     blacklisted, ended>>
  PROVE  IInv'
<1>1. TypeOK /\ step \in Steps
  BY DEF IInv, Steps
<1>2. /\ req' \in [Slots -> Request]
      /\ \A x \in Slots : x # r => req'[x] = req[x]
      /\ req'[r].step = step
      /\ req'[r].token = t
  BY <1>1, StartType
<1>3. TypeOK'
  BY <1>1, <1>2 DEF TypeOK
<1>4. Issued'
  BY <1>2 DEF IInv, Issued, Holds, Tokens, None
<1>5. Fresh'
  BY <1>2 DEF IInv, Fresh
<1>6. OldIsRevoked' /\ ReplacedIsRevoked' /\ KeyOutlivesToken'
  BY <1>2 DEF IInv, OldIsRevoked, ReplacedIsRevoked, KeyOutlivesToken
<1> QED
  BY <1>3, <1>4, <1>5, <1>6 DEF IInv

\* A step of a request that revokes rows and inserts none: what was revoked
\* stays revoked, what was absent stays absent.
LEMMA RevokeInv ==
  ASSUME IInv, NEW r \in Slots,
         row' \in [Tokens -> {"absent", "active", "revoked"}],
         \A t \in Tokens : row[t] = "revoked" => row'[t] = "revoked",
         \A t \in Tokens : row'[t] = "absent" <=> row[t] = "absent",
         \A t \in Tokens : row'[t] = "active" => row[t] = "active",
         req' \in [Slots -> Request],
         \A x \in Slots : x # r => req'[x] = req[x],
         req'[r].step = "idle" \/
           /\ req[r].step = "revoke" /\ req'[r].step = "insert"
           /\ req'[r].token = req[r].token /\ req'[r].new = req[r].new
           /\ row'[req[r].token] = "revoked",
         ended' \subseteq Tokens,
         UNCHANGED <<issued, login, parent, access, refresh, black,
                     blacklisted, faults>>
  PROVE  IInv'
<1>1. TypeOK'
  BY DEF IInv, TypeOK
<1>2. \A x \in Slots : req[x] \in Request
  BY DEF IInv, TypeOK
<1>3. Issued'
  <2>1. \A t \in Tokens : row'[t] # "absent" =>
          t <= issued' /\ login'[t] # None
    BY DEF IInv, Issued, Holds
  <2>2. ASSUME NEW x \in Slots, req'[x].step # "idle"
        PROVE  req'[x].token # None /\ row'[req'[x].token] # "absent"
    <3>1. req'[x].token = req[x].token /\ req[x].step # "idle"
      BY <2>2
    <3>2. req[x].token # None /\ row[req[x].token] # "absent"
      BY <3>1 DEF IInv, Issued, Holds
    <3>3. req[x].token \in Tokens
      BY <1>2, <3>2 DEF Request
    <3> QED
      BY <3>1, <3>2, <3>3
  <2> QED
    BY <2>1, <2>2 DEF Issued, Holds
<1>4. Fresh'
  <2>1. \A x \in Slots : req'[x].step \in {"revoke", "insert"} =>
          req[x].step \in {"revoke", "insert"} /\ req'[x].new = req[x].new
    OBVIOUS
  <2>2. \A x \in Slots : req[x].step \in {"revoke", "insert"} =>
          req[x].new \in Tokens
    BY <1>2 DEF IInv, Fresh, Request, None
  <2> QED
    BY <2>1, <2>2 DEF IInv, Fresh
<1>5. OldIsRevoked'
  <2>1. \A x \in Slots : req[x].step = "insert" => req[x].token \in Tokens
    BY <1>2 DEF IInv, Issued, Request, None
  <2> QED
    BY <2>1 DEF IInv, OldIsRevoked
<1>6. ReplacedIsRevoked'
  BY DEF IInv, TypeOK, ReplacedIsRevoked, None
<1>7. KeyOutlivesToken'
  BY DEF IInv, KeyOutlivesToken
<1> QED
  BY <1>1, <1>3, <1>4, <1>5, <1>6, <1>7 DEF IInv

(*--------------------------------- Each action -------------------------------*)

LEMMA InitInv == Init => IInv
<1> SUFFICES ASSUME Init PROVE IInv
  OBVIOUS
<1>1. TypeOK
  BY BoundsAreNat, TtlsArePositive
  DEF Init, TypeOK, Tokens, Request, Idle, Steps, None
<1>2. Issued /\ Fresh /\ OldIsRevoked
  BY DEF Init, Issued, Holds, Fresh, OldIsRevoked, Idle
<1>3. ReplacedIsRevoked /\ KeyOutlivesToken
  BY DEF Init, ReplacedIsRevoked, KeyOutlivesToken
<1> QED
  BY <1>1, <1>2, <1>3 DEF IInv

LEMMA LoginInv == ASSUME IInv, Login PROVE IInv'
<1>1. issued \in Nat /\ issued + 1 \in Tokens
  BY BoundsAreNat DEF IInv, TypeOK, Login, Tokens
<1>2. row[issued + 1] = "absent"
  BY <1>1 DEF IInv, Issued, Holds
<1>3. TypeOK'
  BY <1>1, BoundsAreNat, TtlsArePositive DEF IInv, TypeOK, Login, None
<1>4. \A t \in Tokens : row[t] # "absent" => row'[t] = row[t]
  BY <1>1, <1>2 DEF IInv, TypeOK, Login
<1>5. \A t \in Tokens : t <= issued => row'[t] = row[t]
  BY <1>1 DEF IInv, TypeOK, Login, Tokens
<1>6. Issued'
  BY <1>1, <1>4 DEF IInv, TypeOK, Issued, Holds, Login, Tokens, Request, None
<1>7. Fresh'
  BY <1>1, <1>5 DEF IInv, TypeOK, Fresh, Login, Tokens, Request
<1>8. OldIsRevoked'
  BY <1>4 DEF IInv, TypeOK, OldIsRevoked, Issued, Holds, Login, Request
<1>9. ReplacedIsRevoked'
  BY <1>4 DEF IInv, TypeOK, ReplacedIsRevoked, Login
<1>10. KeyOutlivesToken'
  BY <1>1 DEF IInv, TypeOK, KeyOutlivesToken, Login, Tokens
<1> QED
  BY <1>3, <1>6, <1>7, <1>8, <1>9, <1>10 DEF IInv

LEMMA TickInv == ASSUME IInv, Tick PROVE IInv'
<1>1. TypeOK'
  BY TtlsArePositive DEF IInv, TypeOK, Tick, Minus1
<1>2. Issued' /\ Fresh' /\ OldIsRevoked' /\ ReplacedIsRevoked'
  BY DEF IInv, Tick, Issued, Holds, Fresh, OldIsRevoked, ReplacedIsRevoked
<1>3. KeyOutlivesToken'
  BY TtlsArePositive DEF IInv, TypeOK, Tick, Minus1, KeyOutlivesToken
<1> QED
  BY <1>1, <1>2, <1>3 DEF IInv

LEMMA FindSessionInv ==
  ASSUME IInv, NEW r \in Slots, FindSession(r) PROVE IInv'
<1>1. CASE Finish(r)
  BY <1>1, FinishInv DEF FindSession, IInv, TypeOK
<1>2. CASE Goto(r, "issue")
  <2>1. /\ TypeOK
        /\ UNCHANGED <<issued, row, login, parent, access, refresh, black,
                       blacklisted, ended, faults>>
        /\ req[r].step = "find"
    BY DEF FindSession, IInv
  <2>2. /\ req' \in [Slots -> Request]
        /\ \A x \in Slots : x # r => req'[x] = req[x]
        /\ req'[r].step = "issue"
        /\ req'[r].token = req[r].token
    BY <1>2, <2>1, GotoType DEF Steps
  <2>3. TypeOK'
    BY <2>1, <2>2 DEF TypeOK
  <2>4. Issued'
    BY <2>1, <2>2 DEF IInv, Issued, Holds
  <2>5. Fresh' /\ OldIsRevoked' /\ ReplacedIsRevoked' /\ KeyOutlivesToken'
    BY <2>1, <2>2
    DEF IInv, Fresh, OldIsRevoked, ReplacedIsRevoked, KeyOutlivesToken
  <2> QED
    BY <2>3, <2>4, <2>5 DEF IInv
<1> QED
  BY <1>1, <1>2 DEF FindSession

LEMMA IssueTokenPairInv ==
  ASSUME IInv, NEW r \in Slots, IssueTokenPair(r) PROVE IInv'
<1>1. issued \in Nat /\ issued + 1 \in Tokens /\ issued' = issued + 1
  BY BoundsAreNat DEF IInv, TypeOK, IssueTokenPair, Tokens
<1>2. row[issued + 1] = "absent"
  BY <1>1 DEF IInv, Issued, Holds
<1>3. /\ req' \in [Slots -> Request]
      /\ \A x \in Slots : x # r => req'[x] = req[x]
      /\ req'[r].step = "revoke"
      /\ req'[r].token = req[r].token
      /\ req'[r].new = issued + 1
  BY <1>1 DEF IInv, TypeOK, IssueTokenPair, Request, Steps
<1>4. TypeOK'
  BY <1>1, <1>3, BoundsAreNat, TtlsArePositive
  DEF IInv, TypeOK, IssueTokenPair, Tokens
<1>5. Issued'
  BY <1>1, <1>3 DEF IInv, Issued, Holds, IssueTokenPair, Tokens
<1>6. Fresh'
  <2>1. ASSUME NEW x \in Slots, req'[x].step \in {"revoke", "insert"}
        PROVE  /\ req'[x].new # None /\ req'[x].new <= issued'
               /\ row'[req'[x].new] = "absent"
    <3>1. CASE x = r
      BY <3>1, <1>1, <1>2, <1>3 DEF IssueTokenPair, None
    <3>2. CASE x # r
      BY <3>2, <2>1, <1>1, <1>3
      DEF IInv, TypeOK, Request, Fresh, IssueTokenPair, None, Tokens
    <3> QED
      BY <3>1, <3>2
  <2>2. ASSUME NEW x \in Slots, NEW y \in Slots, x # y,
               req'[x].step \in {"revoke", "insert"},
               req'[y].step \in {"revoke", "insert"}
        PROVE  req'[x].new # req'[y].new
    <3>1. \A z \in Slots : z # r /\ req'[z].step \in {"revoke", "insert"} =>
            req'[z].new # issued + 1
      BY <1>1, <1>3 DEF IInv, TypeOK, Request, Fresh, None, Tokens
    <3> QED
      BY <2>2, <3>1, <1>3 DEF IInv, Fresh
  <2> QED
    BY <2>1, <2>2 DEF Fresh
<1>7. OldIsRevoked' /\ ReplacedIsRevoked'
  BY <1>3 DEF IInv, OldIsRevoked, ReplacedIsRevoked, IssueTokenPair
<1>8. KeyOutlivesToken'
  BY <1>1 DEF IInv, TypeOK, KeyOutlivesToken, IssueTokenPair, Tokens
<1> QED
  BY <1>4, <1>5, <1>6, <1>7, <1>8 DEF IInv

LEMMA RevokeSessionInv ==
  ASSUME IInv, NEW r \in Slots, RevokeSession(r) PROVE IInv'
<1>1. TypeOK /\ req[r].token \in Tokens /\ row[req[r].token] # "absent"
  BY DEF IInv, TypeOK, Issued, Holds, Request, RevokeSession
<1>2. /\ req' \in [Slots -> Request]
      /\ \A x \in Slots : x # r => req'[x] = req[x]
      /\ req'[r].step = "insert"
      /\ req'[r].token = req[r].token
      /\ req'[r].new = req[r].new
  BY <1>1, GotoType DEF RevokeSession, Steps
<1>3. /\ row' \in [Tokens -> {"absent", "active", "revoked"}]
      /\ row'[req[r].token] = "revoked"
      /\ \A t \in Tokens : row[t] = "revoked" => row'[t] = "revoked"
      /\ \A t \in Tokens : row'[t] = "absent" <=> row[t] = "absent"
      /\ \A t \in Tokens : row'[t] = "active" => row[t] = "active"
  BY <1>1 DEF TypeOK, RevokeSession
<1>4. /\ req[r].step = "revoke" /\ ended' \subseteq Tokens
      /\ UNCHANGED <<issued, login, parent, access, refresh, black,
                     blacklisted, faults>>
  BY <1>1 DEF TypeOK, RevokeSession
<1> QED
  BY <1>2, <1>3, <1>4, RevokeInv

LEMMA RevokeByJtiInv ==
  ASSUME IInv, NEW r \in Slots, RevokeByJti(r) PROVE IInv'
<1>1. TypeOK /\ req[r].token \in Tokens /\ row[req[r].token] # "absent"
  BY DEF IInv, TypeOK, Issued, Holds, Request, RevokeByJti
<1>2. /\ req' \in [Slots -> Request]
      /\ \A x \in Slots : x # r => req'[x] = req[x]
      /\ req'[r].step = "idle"
  BY <1>1, FinishType DEF RevokeByJti
<1>3. /\ row' \in [Tokens -> {"absent", "active", "revoked"}]
      /\ \A t \in Tokens : row[t] = "revoked" => row'[t] = "revoked"
      /\ \A t \in Tokens : row'[t] = "absent" <=> row[t] = "absent"
      /\ \A t \in Tokens : row'[t] = "active" => row[t] = "active"
  BY <1>1 DEF TypeOK, RevokeByJti
<1>4. /\ ended' \subseteq Tokens
      /\ UNCHANGED <<issued, login, parent, access, refresh, black,
                     blacklisted, faults>>
  BY <1>1 DEF TypeOK, RevokeByJti
<1> QED
  BY <1>2, <1>3, <1>4, RevokeInv

LEMMA RevokeAllUserSessionsInv ==
  ASSUME IInv, NEW r \in Slots, RevokeAllUserSessions(r) PROVE IInv'
<1>1. TypeOK
  BY DEF IInv
<1>2. /\ req' \in [Slots -> Request]
      /\ \A x \in Slots : x # r => req'[x] = req[x]
      /\ req'[r].step = "idle"
  BY <1>1, FinishType DEF RevokeAllUserSessions
<1>3. /\ row' \in [Tokens -> {"absent", "active", "revoked"}]
      /\ \A t \in Tokens : row[t] = "revoked" => row'[t] = "revoked"
      /\ \A t \in Tokens : row'[t] = "absent" <=> row[t] = "absent"
      /\ \A t \in Tokens : row'[t] = "active" => row[t] = "active"
  BY <1>1 DEF TypeOK, RevokeAllUserSessions, Holds
<1>4. /\ ended' \subseteq Tokens
      /\ UNCHANGED <<issued, login, parent, access, refresh, black,
                     blacklisted, faults>>
  BY <1>1 DEF IInv, Issued, TypeOK, RevokeAllUserSessions
<1> QED
  BY <1>2, <1>3, <1>4, RevokeInv

LEMMA CreateSessionInv ==
  ASSUME IInv, NEW r \in Slots, CreateSession(r) PROVE IInv'
<1> DEFINE old == req[r].token
           new == req[r].new
<1>1. TypeOK /\ req[r].step = "insert" /\ issued \in 0..MaxTokens
  BY DEF IInv, TypeOK, CreateSession
<1>2. old \in Tokens /\ row[old] = "revoked"
  BY <1>1 DEF IInv, TypeOK, Issued, Request, OldIsRevoked
<1>3. new \in Tokens /\ row[new] = "absent" /\ new <= issued /\ new # old
  BY <1>1, <1>2 DEF IInv, TypeOK, Fresh, Request
<1>4. /\ req' \in [Slots -> Request]
      /\ \A x \in Slots : x # r => req'[x] = req[x]
      /\ req'[r].step = "idle"
  BY <1>1, FinishType DEF CreateSession
<1>5. /\ row' \in [Tokens -> {"absent", "active", "revoked"}]
      /\ row'[new] = "active"
      /\ \A t \in Tokens : t # new => row'[t] = row[t]
      /\ parent'[new] = old
      /\ \A t \in Tokens : t # new => parent'[t] = parent[t]
  BY <1>1, <1>3 DEF TypeOK, CreateSession
<1>6. TypeOK'
  BY <1>1, <1>2, <1>3, <1>4, <1>5, TtlsArePositive DEF TypeOK, CreateSession
<1>7. Issued'
  <2>1. \A t \in Tokens : row'[t] # "absent" =>
          t <= issued' /\ login'[t] # None
    BY <1>1, <1>2, <1>3, <1>5 DEF IInv, TypeOK, Issued, Holds, CreateSession
  <2>2. ASSUME NEW x \in Slots, req'[x].step # "idle"
        PROVE  req'[x].token # None /\ row'[req'[x].token] # "absent"
    <3>1. req'[x] = req[x] /\ req[x].token # None
          /\ row[req[x].token] # "absent"
      BY <2>2, <1>4 DEF IInv, Issued, Holds
    <3>2. req[x].token \in Tokens
      BY <1>1, <3>1 DEF TypeOK, Request
    <3> QED
      BY <3>1, <3>2, <1>5
  <2> QED
    BY <2>1, <2>2 DEF Issued, Holds
<1>8. Fresh'
  <2>1. ASSUME NEW x \in Slots, req'[x].step \in {"revoke", "insert"}
        PROVE  /\ x # r /\ req'[x] = req[x]
               /\ req[x].new \in Tokens /\ req[x].new # new
    BY <2>1, <1>1, <1>4 DEF IInv, TypeOK, Fresh, Request
  <2> QED
    BY <2>1, <1>5 DEF IInv, Fresh, CreateSession
<1>9. OldIsRevoked'
  <2>1. ASSUME NEW x \in Slots, req'[x].step = "insert"
        PROVE  row'[req'[x].token] = "revoked"
    <3>1. req'[x] = req[x] /\ row[req[x].token] = "revoked"
      BY <2>1, <1>4 DEF IInv, OldIsRevoked
    <3>2. req[x].token \in Tokens
      BY <2>1, <3>1, <1>1 DEF IInv, TypeOK, Issued, Request
    <3> QED
      BY <3>1, <3>2, <1>3, <1>5
  <2> QED
    BY <2>1 DEF OldIsRevoked
<1>10. ReplacedIsRevoked'
  BY <1>1, <1>2, <1>3, <1>5 DEF IInv, TypeOK, ReplacedIsRevoked
<1>11. KeyOutlivesToken'
  BY DEF IInv, KeyOutlivesToken, CreateSession
<1> QED
  BY <1>6, <1>7, <1>8, <1>9, <1>10, <1>11 DEF IInv

LEMMA SetBlacklistInv ==
  ASSUME IInv, NEW r \in Slots, SetBlacklist(r) PROVE IInv'
<1> DEFINE t == req[r].token
<1>1. TypeOK /\ t \in Tokens /\ t <= issued
  BY DEF IInv, TypeOK, Issued, Request, SetBlacklist
<1>2. /\ req' \in [Slots -> Request]
      /\ \A x \in Slots : x # r => req'[x] = req[x]
      /\ req'[r].step = "revokeJti"
      /\ req'[r].token = req[r].token
  BY <1>1, GotoType DEF SetBlacklist, Steps
<1>3. TypeOK'
  BY <1>1, <1>2, TtlsArePositive, BoundsAreNat DEF TypeOK, SetBlacklist
<1>4. Issued'
  BY <1>1, <1>2 DEF IInv, Issued, Holds, SetBlacklist
<1>5. Fresh' /\ OldIsRevoked' /\ ReplacedIsRevoked'
  BY <1>2 DEF IInv, Fresh, OldIsRevoked, ReplacedIsRevoked, SetBlacklist
<1>6. KeyOutlivesToken'
  <2>1. access[t] <= BlacklistTtl
    BY <1>1, TtlsArePositive, BlacklistCoversToken DEF TypeOK
  <2> QED
    BY <1>1, <2>1 DEF IInv, TypeOK, KeyOutlivesToken, SetBlacklist
<1> QED
  BY <1>3, <1>4, <1>5, <1>6 DEF IInv

(*---------------------------------- Theorems ---------------------------------*)

LEMMA NextInv == ASSUME IInv, [Next]_vars PROVE IInv'
<1>1. CASE UNCHANGED vars
  BY <1>1
  DEF vars, IInv, TypeOK, Issued, Holds, Fresh, OldIsRevoked,
      ReplacedIsRevoked, KeyOutlivesToken
<1>2. CASE Login \/ Tick
  BY <1>2, LoginInv, TickInv
<1>3. ASSUME NEW r \in Slots,
             \/ FindSession(r) \/ IssueTokenPair(r) \/ RevokeSession(r)
             \/ CreateSession(r) \/ SetBlacklist(r) \/ RevokeByJti(r)
             \/ RevokeAllUserSessions(r)
      PROVE  IInv'
  BY <1>3, FindSessionInv, IssueTokenPairInv, RevokeSessionInv,
     CreateSessionInv, SetBlacklistInv, RevokeByJtiInv, RevokeAllUserSessionsInv
<1>4. ASSUME NEW r \in Slots, Fail(r) PROVE IInv'
  BY <1>4, FinishInv, BoundsAreNat DEF Fail, IInv, TypeOK
<1>5. ASSUME NEW r \in Slots, NEW t \in Tokens,
             Refresh(r, t) \/ Logout(r, t) \/ LogoutAll(r, t)
      PROVE  IInv'
  <2>1. faults' \in 0..MaxFaults /\ Holds(t)
    BY <1>5, BoundsAreNat
    DEF Refresh, Logout, LogoutAll, Guard, IInv, TypeOK
  <2>2. /\ \E step \in {"find", "blacklist", "revokeAll"} : Start(r, step, t)
        /\ UNCHANGED <<issued, row, login, parent, access, refresh, black,
                       blacklisted, ended>>
    BY <1>5 DEF Refresh, Logout, LogoutAll
  <2> QED
    BY <2>1, <2>2, StartInv
<1> QED
  BY <1>1, <1>2, <1>3, <1>4, <1>5 DEF Next

\* Sessions, keys and requests of any number of parallel refreshes and logouts
\* stay in the inductive invariant.
THEOREM Invariance == Spec => []IInv
<1>1. Init => IInv
  BY InitInv
<1>2. IInv /\ [Next]_vars => IInv'
  BY NextInv
<1> QED
  BY <1>1, <1>2, PTL DEF Spec

\* The sessions table, the blacklist and the requests keep their types.
THEOREM TypeCorrect == Spec => []TypeOK
<1>1. IInv => TypeOK
  BY DEF IInv
<1> QED
  BY <1>1, Invariance, PTL

\* refresh: a session that a later one of its chain replaced is revoked for
\* good, whatever refreshes, logouts and crashes interleave.
THEOREM RotationCorrect == Spec => []ReplacedIsRevoked
<1>1. IInv => ReplacedIsRevoked
  BY DEF IInv
<1> QED
  BY <1>1, Invariance, PTL

\* logout: its 900 seconds cover every token whose lifetime they cover, so the
\* guard never accepts that token again.
THEOREM LogoutCorrect == Spec => []LoggedOutStaysOut
<1>1. IInv => LoggedOutStaysOut
  BY TtlsArePositive
  DEF IInv, TypeOK, KeyOutlivesToken, LoggedOutStaysOut, Accepts
<1> QED
  BY <1>1, Invariance, PTL

(*--------------------------- One request at a time ---------------------------*)

\* Login numbers come from pairs that were issued.
LoginsIssued ==
  /\ \A t \in Tokens : Holds(t) => login[t] <= issued
  /\ \A t \in ended : t <= issued

NoneOverlaps == \A p, q \in Slots : p # q => req[p] = Idle \/ req[q] = Idle

\* A refresh that nobody disturbs: the session it found is its login's active
\* one until it revokes it, and then the login has none and was not ended.
Rotating(r) ==
  /\ req[r].step \in {"issue", "revoke"} => row[req[r].token] = "active"
  /\ req[r].step = "insert" =>
       /\ login[req[r].token] \notin ended
       /\ \A t \in Tokens : row[t] = "active" => login[t] # login[req[r].token]

SerialFacts ==
  /\ OneActivePerLogin /\ EndedStaysEnded /\ NoneOverlaps
  /\ \A r \in Slots : Rotating(r)

SerialInv ==
  /\ LoginsIssued
  /\ overlapped \in {TRUE, FALSE}
  /\ overlapped = FALSE => SerialFacts

\* What is known of the request that takes a step.
LEMMA RunningFacts ==
  ASSUME IInv, NEW r \in Slots, req[r].step # "idle"
  PROVE  req[r].token \in Tokens /\ Holds(req[r].token) /\ req[r] # Idle
BY DEF IInv, TypeOK, Issued, Request, Idle

\* While it runs, the others have nothing in flight.
LEMMA OthersIdle ==
  ASSUME NoneOverlaps, NEW r \in Slots, req[r] # Idle, NEW x \in Slots, x # r
  PROVE  req[x].step = "idle"
BY DEF NoneOverlaps, Idle

LEMMA InsertFacts ==
  ASSUME IInv, NEW r \in Slots, req[r].step = "insert"
  PROVE  /\ req[r].new \in Tokens /\ req[r].new # req[r].token
         /\ row[req[r].new] = "absent" /\ req[r].new <= issued
BY RunningFacts DEF IInv, TypeOK, Fresh, Request, Holds

LEMMA LoginsIssuedKept ==
  ASSUME IInv, LoginsIssued, [Next]_vars
  PROVE  LoginsIssued'
<1> USE DEF LoginsIssued, Holds
<1>1. TypeOK /\ issued \in Nat /\ \A t \in Tokens : t \in Nat
  BY BoundsAreNat DEF IInv, TypeOK, Tokens
<1>2. ASSUME issued' = issued \/ issued' = issued + 1,
             \A t \in Tokens : row'[t] # "absent" =>
               login'[t] = login[t] /\ row[t] # "absent",
             ended' = ended
      PROVE  LoginsIssued'
  <2>1. /\ \A t \in Tokens : row[t] # "absent" => login[t] \in Nat /\ login[t] <= issued
        /\ \A t \in ended : t \in Nat
    BY <1>1 DEF TypeOK, None
  <2> QED
    BY <1>1, <1>2, <2>1
<1>3. CASE Login
  <2>1. issued' = issued + 1 /\ issued + 1 \in Tokens
    BY <1>1, <1>3, BoundsAreNat DEF Login, TypeOK, Tokens
  <2>2. ended' = ended /\ \A t \in ended : t \in Nat /\ t <= issued
    BY <1>1, <1>3 DEF Login, TypeOK
  <2>3. ASSUME NEW t \in Tokens, row'[t] # "absent"
        PROVE  login'[t] <= issued'
    <3>1. CASE t = issued + 1
      BY <1>1, <1>3, <2>1, <3>1 DEF Login, TypeOK
    <3>2. CASE t # issued + 1
      <4>1. login'[t] = login[t] /\ row[t] # "absent" /\ login[t] \in Nat
        BY <1>1, <1>3, <2>1, <2>3, <3>2 DEF Login, TypeOK, None
      <4> QED
        BY <1>1, <2>1, <4>1
    <3> QED
      BY <3>1, <3>2
  <2> QED
    BY <1>1, <2>1, <2>2, <2>3
<1>4. ASSUME NEW r \in Slots, CreateSession(r) PROVE LoginsIssued'
  <2>1. /\ req[r].token \in Tokens /\ row[req[r].token] # "absent"
        /\ req[r].new \in Tokens
    BY <1>4, RunningFacts, InsertFacts DEF CreateSession
  <2>2. /\ login'[req[r].new] = login[req[r].token]
        /\ \A t \in Tokens : t # req[r].new =>
             login'[t] = login[t] /\ row'[t] = row[t]
        /\ issued' = issued /\ ended' = ended
    BY <1>1, <1>4, <2>1 DEF CreateSession, TypeOK
  <2> QED
    BY <2>1, <2>2
<1>5. ASSUME NEW r \in Slots, RevokeAllUserSessions(r) PROVE LoginsIssued'
  BY <1>1, <1>5 DEF RevokeAllUserSessions, TypeOK
<1>6. ASSUME NEW r \in Slots, RevokeSession(r) \/ RevokeByJti(r)
      PROVE  LoginsIssued'
  <2>1. req[r].token \in Tokens /\ row[req[r].token] # "absent"
    BY <1>6, RunningFacts DEF RevokeSession, RevokeByJti
  <2> QED
    BY <1>1, <1>2, <1>6, <2>1 DEF RevokeSession, RevokeByJti, TypeOK
<1>7. ASSUME NEW r \in Slots,
             \/ FindSession(r) \/ IssueTokenPair(r) \/ SetBlacklist(r) \/ Fail(r)
             \/ \E t \in Tokens : Refresh(r, t) \/ Logout(r, t) \/ LogoutAll(r, t)
      PROVE  LoginsIssued'
  BY <1>2, <1>7 DEF FindSession, IssueTokenPair, SetBlacklist, Fail, Refresh,
                    Logout, LogoutAll
<1>8. CASE Tick \/ UNCHANGED vars
  BY <1>2, <1>8 DEF Tick, vars
<1> QED
  BY <1>3, <1>4, <1>5, <1>6, <1>7, <1>8 DEF Next

\* An action that activates no row and ends no login keeps the login's facts.
LEMMA NoneActivated ==
  ASSUME SerialFacts,
         \A t \in Tokens : row'[t] = "active" =>
           row[t] = "active" /\ login'[t] = login[t],
         ended' = ended
  PROVE  OneActivePerLogin' /\ EndedStaysEnded'
BY DEF SerialFacts, OneActivePerLogin, EndedStaysEnded

\* Requests that are not in the middle of a rotation.
LEMMA NotRotating ==
  ASSUME \A x \in Slots : req'[x].step \notin {"issue", "revoke", "insert"}
  PROVE  (\A x \in Slots : Rotating(x))'
BY DEF Rotating

LEMMA LoginSerial ==
  ASSUME IInv, LoginsIssued, SerialFacts, Login
  PROVE  SerialFacts'
<1> DEFINE n == issued + 1
<1>1. /\ TypeOK /\ issued \in Nat /\ n \in Tokens /\ row[n] = "absent"
      /\ req' = req /\ ended' = ended
  <2>1. TypeOK /\ issued \in Nat /\ n \in Tokens
    <3>1. TypeOK /\ issued < MaxTokens
      BY DEF IInv, Login
    <3> QED
      BY <3>1, BoundsAreNat DEF TypeOK, Tokens
  <2>2. row[n] = "absent"
    BY <2>1 DEF IInv, Issued, Holds
  <2> QED
    BY <2>1, <2>2 DEF Login
<1>2. /\ row'[n] = "active" /\ login'[n] = n
      /\ \A t \in Tokens : t # n => row'[t] = row[t] /\ login'[t] = login[t]
  BY <1>1 DEF Login, TypeOK
<1>3. /\ \A t \in Tokens : row[t] # "absent" => login[t] # n
      /\ n \notin ended
  BY <1>1 DEF LoginsIssued, Holds
<1>4. OneActivePerLogin' /\ EndedStaysEnded'
  BY <1>1, <1>2, <1>3 DEF SerialFacts, OneActivePerLogin, EndedStaysEnded
<1>5. NoneOverlaps'
  BY <1>1 DEF SerialFacts, NoneOverlaps
<1>6. ASSUME NEW r \in Slots PROVE Rotating(r)'
  <2>1. req'[r] = req[r] /\ Rotating(r)
    BY <1>1 DEF SerialFacts
  <2>2. CASE req[r].step \in {"issue", "revoke", "insert"}
    <3>1. PICK t \in Tokens : t = req[r].token /\ row[t] # "absent"
      BY <2>2, RunningFacts DEF Holds
    <3>2. t # n /\ row'[t] = row[t] /\ login'[t] = login[t]
      BY <1>1, <1>2, <3>1
    <3>3. login[t] # n
      BY <1>3, <3>1
    <3> QED
      BY <1>1, <1>2, <2>1, <3>1, <3>2, <3>3 DEF Rotating
  <2>3. CASE req[r].step \notin {"issue", "revoke", "insert"}
    BY <2>1, <2>3 DEF Rotating
  <2> QED
    BY <2>2, <2>3
<1> QED
  BY <1>4, <1>5, <1>6 DEF SerialFacts

\* What a running request leaves to the others: nothing in flight.
LEMMA RunnerAlone ==
  ASSUME SerialFacts, NEW r \in Slots, req[r] # Idle,
         \A x \in Slots : x # r => req'[x] = req[x]
  PROVE  \A x \in Slots : x # r => req'[x].step = "idle"
BY OthersIdle DEF SerialFacts

LEMMA FindSessionSerial ==
  ASSUME IInv, SerialFacts, NEW r \in Slots, FindSession(r), NoneOverlaps'
  PROVE  SerialFacts'
<1>1. TypeOK /\ req[r].step = "find" /\ row' = row /\ login' = login
      /\ ended' = ended
  BY DEF IInv, FindSession
<1>2. OneActivePerLogin' /\ EndedStaysEnded'
  BY <1>1, NoneActivated
<1>3. \/ Finish(r)
      \/ row[req[r].token] = "active" /\ Goto(r, "issue")
  BY DEF FindSession
<1>4. CASE Finish(r)
  <2>1. (\A x \in Slots : x # r => req'[x] = req[x]) /\ req'[r].step = "idle"
    BY <1>1, <1>4, FinishType
  <2>2. \A x \in Slots : req'[x].step = "idle"
    BY <1>1, <2>1, RunnerAlone DEF Idle
  <2> QED
    BY <1>2, <2>2, NotRotating DEF SerialFacts
<1>5. CASE row[req[r].token] = "active" /\ Goto(r, "issue")
  <2>1. /\ \A x \in Slots : x # r => req'[x] = req[x]
        /\ req'[r].step = "issue" /\ req'[r].token = req[r].token
    BY <1>1, <1>5, GotoType DEF Steps
  <2>2. \A x \in Slots : x # r => req'[x].step = "idle"
    BY <1>1, <2>1, RunnerAlone DEF Idle
  <2>3. \A x \in Slots : Rotating(x)'
    BY <1>1, <1>5, <2>1, <2>2 DEF Rotating
  <2> QED
    BY <1>2, <2>3 DEF SerialFacts
<1> QED
  BY <1>3, <1>4, <1>5

LEMMA IssueTokenPairSerial ==
  ASSUME IInv, SerialFacts, NEW r \in Slots, IssueTokenPair(r), NoneOverlaps'
  PROVE  SerialFacts'
<1>1. req[r].step = "issue" /\ row' = row /\ login' = login /\ ended' = ended
  BY DEF IssueTokenPair
<1>2. /\ \A x \in Slots : x # r => req'[x] = req[x]
      /\ req'[r].step = "revoke" /\ req'[r].token = req[r].token
  BY DEF IInv, TypeOK, IssueTokenPair, Request
<1>3. \A x \in Slots : x # r => req'[x].step = "idle"
  BY <1>1, <1>2, RunnerAlone DEF Idle
<1>4. row[req[r].token] = "active"
  BY <1>1 DEF SerialFacts, Rotating
<1>5. \A x \in Slots : Rotating(x)'
  BY <1>1, <1>2, <1>3, <1>4 DEF Rotating
<1>6. OneActivePerLogin' /\ EndedStaysEnded'
  BY <1>1, NoneActivated
<1> QED
  BY <1>5, <1>6 DEF SerialFacts

LEMMA RevokeSessionSerial ==
  ASSUME IInv, SerialFacts, NEW r \in Slots, RevokeSession(r), NoneOverlaps'
  PROVE  SerialFacts'
<1>1. TypeOK /\ req[r].step = "revoke" /\ login' = login /\ ended' = ended
  BY DEF IInv, RevokeSession
<1>2. PICK t \in Tokens : t = req[r].token
  BY <1>1, RunningFacts
<1>3. row[t] = "active"
  BY <1>1, <1>2 DEF SerialFacts, Rotating
<1>4. row'[t] = "revoked" /\ \A u \in Tokens : u # t => row'[u] = row[u]
  BY <1>1, <1>2 DEF TypeOK, RevokeSession
<1>5. /\ \A x \in Slots : x # r => req'[x] = req[x]
      /\ req'[r].step = "insert" /\ req'[r].token = t
  BY <1>1, <1>2, GotoType DEF RevokeSession, Steps
<1>6. \A x \in Slots : x # r => req'[x].step = "idle"
  BY <1>1, <1>5, RunnerAlone DEF Idle
<1>7. OneActivePerLogin' /\ EndedStaysEnded'
  BY <1>1, <1>4, NoneActivated
<1>8. /\ login[t] \notin ended
      /\ \A u \in Tokens : row'[u] = "active" => login[u] # login[t]
  BY <1>3, <1>4 DEF SerialFacts, OneActivePerLogin, EndedStaysEnded
<1>9. \A x \in Slots : Rotating(x)'
  BY <1>1, <1>5, <1>6, <1>8 DEF Rotating
<1> QED
  BY <1>7, <1>9 DEF SerialFacts

LEMMA CreateSessionSerial ==
  ASSUME IInv, SerialFacts, NEW r \in Slots, CreateSession(r), NoneOverlaps'
  PROVE  SerialFacts'
<1>1. TypeOK /\ req[r].step = "insert" /\ ended' = ended
  BY DEF IInv, CreateSession
<1>2. PICK t \in Tokens : t = req[r].token
  BY <1>1, RunningFacts
<1>3. PICK n \in Tokens : n = req[r].new
  BY <1>1, InsertFacts
<1>4. row'[n] = "active" /\ login'[n] = login[t]
      /\ \A u \in Tokens : u # n => row'[u] = row[u] /\ login'[u] = login[u]
  BY <1>1, <1>2, <1>3 DEF TypeOK, CreateSession
<1>5. /\ login[t] \notin ended
      /\ \A u \in Tokens : row[u] = "active" => login[u] # login[t]
  BY <1>1, <1>2 DEF SerialFacts, Rotating
<1>6. OneActivePerLogin' /\ EndedStaysEnded'
  BY <1>1, <1>4, <1>5 DEF SerialFacts, OneActivePerLogin, EndedStaysEnded
<1>7. (\A x \in Slots : x # r => req'[x] = req[x]) /\ req'[r].step = "idle"
  BY <1>1, FinishType DEF CreateSession
<1>8. \A x \in Slots : req'[x].step = "idle"
  BY <1>1, <1>7, RunnerAlone DEF Idle
<1> QED
  BY <1>6, <1>8, NotRotating DEF SerialFacts

\* The steps of logout and logoutAll, and a request that is cut off.
LEMMA EndingSerial ==
  ASSUME IInv, SerialFacts, NEW r \in Slots, NoneOverlaps',
         \/ SetBlacklist(r) \/ RevokeByJti(r) \/ RevokeAllUserSessions(r)
         \/ Fail(r)
  PROVE  SerialFacts'
<1>1. TypeOK /\ req[r] \in Request
  BY DEF IInv, TypeOK
<1>2. req[r] # Idle
  BY DEF SetBlacklist, RevokeByJti, RevokeAllUserSessions, Fail, Idle
<1>3. /\ \A x \in Slots : x # r => req'[x] = req[x]
      /\ req'[r].step \in {"idle", "revokeJti"}
  BY <1>1, GotoType, FinishType
  DEF SetBlacklist, RevokeByJti, RevokeAllUserSessions, Fail, Steps
<1>4. \A x \in Slots : req'[x].step \notin {"issue", "revoke", "insert"}
  BY <1>2, <1>3, RunnerAlone DEF Idle
<1>5. OneActivePerLogin' /\ EndedStaysEnded'
  <2>1. CASE RevokeAllUserSessions(r)
    BY <1>1, <2>1
    DEF TypeOK, OneActivePerLogin, EndedStaysEnded, RevokeAllUserSessions, Holds
  <2>2. CASE SetBlacklist(r) \/ Fail(r)
    BY <2>2, NoneActivated DEF SetBlacklist, Fail
  <2>3. CASE RevokeByJti(r)
    <3>1. req[r].token \in Tokens
      BY <2>3, RunningFacts DEF RevokeByJti
    <3>2. ended' = ended /\ \A t \in Tokens : row'[t] = "active" =>
            row[t] = "active" /\ login'[t] = login[t]
      BY <1>1, <2>3, <3>1 DEF RevokeByJti, TypeOK
    <3> QED
      BY <3>2, NoneActivated
  <2> QED
    BY <2>1, <2>2, <2>3
<1> QED
  BY <1>4, <1>5, NotRotating DEF SerialFacts

LEMMA SerialKept ==
  ASSUME IInv, LoginsIssued, SerialFacts, [Next]_vars, NoneOverlaps'
  PROVE  SerialFacts'
<1>1. CASE Login
  BY <1>1, LoginSerial
<1>2. CASE Tick \/ UNCHANGED vars
  <2>1. row' = row /\ login' = login /\ ended' = ended /\ req' = req
    BY <1>2 DEF Tick, vars
  <2>2. (\A x \in Slots : Rotating(x))'
    BY <2>1 DEF SerialFacts, Rotating
  <2> QED
    BY <2>1, <2>2, NoneActivated DEF SerialFacts
<1>3. ASSUME NEW r \in Slots,
             \/ FindSession(r) \/ IssueTokenPair(r) \/ RevokeSession(r)
             \/ CreateSession(r)
      PROVE  SerialFacts'
  BY <1>3, FindSessionSerial, IssueTokenPairSerial, RevokeSessionSerial,
     CreateSessionSerial
<1>4. ASSUME NEW r \in Slots,
             \/ SetBlacklist(r) \/ RevokeByJti(r) \/ RevokeAllUserSessions(r)
             \/ Fail(r)
      PROVE  SerialFacts'
  BY <1>4, EndingSerial
<1>5. ASSUME NEW r \in Slots, NEW t \in Tokens,
             Refresh(r, t) \/ Logout(r, t) \/ LogoutAll(r, t)
      PROVE  SerialFacts'
  <2>1. PICK step \in {"find", "blacklist", "revokeAll"} : Start(r, step, t)
    BY <1>5 DEF Refresh, Logout, LogoutAll
  <2>2. row' = row /\ login' = login /\ ended' = ended /\ TypeOK
    BY <1>5 DEF Refresh, Logout, LogoutAll, IInv
  <2>3. (\A x \in Slots : x # r => req'[x] = req[x]) /\ req'[r].step = step
    BY <2>1, <2>2, StartType DEF Steps
  <2>4. \A x \in Slots : x # r => req'[x] = Idle
    BY <2>3 DEF NoneOverlaps, Idle
  <2>5. \A x \in Slots : req'[x].step \notin {"issue", "revoke", "insert"}
    BY <2>3, <2>4 DEF Idle
  <2> QED
    BY <2>2, <2>5, NoneActivated, NotRotating DEF SerialFacts
<1> QED
  BY <1>1, <1>2, <1>3, <1>4, <1>5 DEF Next

LEMMA SerialInvariance == MCSpec => [](IInv /\ SerialInv)
<1>1. MCInit => IInv /\ SerialInv
  <2> SUFFICES ASSUME MCInit PROVE IInv /\ SerialInv
    OBVIOUS
  <2>1. IInv /\ overlapped = FALSE /\ LoginsIssued
    BY InitInv DEF MCInit, Init, LoginsIssued, Holds
  <2>2. SerialFacts
    BY DEF MCInit, Init, SerialFacts, OneActivePerLogin, EndedStaysEnded,
           NoneOverlaps, Rotating, Idle
  <2> QED
    BY <2>1, <2>2 DEF SerialInv
<1>2. IInv /\ SerialInv /\ [MCNext]_<<vars, overlapped>> =>
        (IInv /\ SerialInv)'
  <2> SUFFICES ASSUME IInv, SerialInv, [MCNext]_<<vars, overlapped>>
               PROVE  (IInv /\ SerialInv)'
    OBVIOUS
  <2>1. [Next]_vars
    BY DEF MCNext
  <2>2. IInv' /\ LoginsIssued'
    BY <2>1, NextInv, LoginsIssuedKept DEF SerialInv
  <2>3. ASSUME overlapped' = FALSE
        PROVE  SerialFacts'
    <3>1. CASE UNCHANGED <<vars, overlapped>>
      <4>1. overlapped = FALSE /\ UNCHANGED vars
        BY <2>3, <3>1
      <4>2. SerialFacts
        BY <4>1 DEF SerialInv
      <4>3. NoneOverlaps'
        BY <4>1, <4>2 DEF SerialFacts, NoneOverlaps, vars
      <4> QED
        BY <2>1, <4>2, <4>3, SerialKept DEF SerialInv
    <3>2. CASE MCNext
      <4>1. /\ overlapped = FALSE
            /\ ~ \E p, q \in Slots : /\ p # q
                                     /\ req'[p] # Idle
                                     /\ req'[q] # Idle
        BY <2>3, <3>2 DEF MCNext, SerialInv
      <4>2. SerialFacts /\ NoneOverlaps'
        BY <4>1 DEF SerialInv, NoneOverlaps
      <4> QED
        BY <2>1, <4>2, SerialKept DEF SerialInv
    <3> QED
      BY <3>1, <3>2
  <2>4. overlapped' \in {TRUE, FALSE}
    BY DEF MCNext, SerialInv
  <2> QED
    BY <2>2, <2>3, <2>4 DEF SerialInv
<1> QED
  BY <1>1, <1>2, PTL DEF MCSpec

\* refresh: as long as requests come one at a time, a login has one session that
\* can be refreshed, wherever a request is cut off.
THEOREM SerialRotation == MCSpec => []SerialOneActivePerLogin
<1>1. SerialInv => SerialOneActivePerLogin
  BY DEF SerialInv, SerialFacts, SerialOneActivePerLogin
<1> QED
  BY <1>1, SerialInvariance, PTL

\* logoutAll: as long as requests come one at a time, no refresh brings a login
\* that it ended back.
THEOREM SerialLogoutAll == MCSpec => []SerialEndedStaysEnded
<1>1. SerialInv => SerialEndedStaysEnded
  BY DEF SerialInv, SerialFacts, SerialEndedStaysEnded
<1> QED
  BY <1>1, SerialInvariance, PTL
===============================================================================
