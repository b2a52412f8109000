------------------------------- MODULE Sessions --------------------------------
(* The sessions of one user: refresh, logout and logoutAll of auth.service.ts  *)
(* over the sessions table, and the blacklist that jwt-auth.guard.ts consults. *)
(* A session, its access token (by its jti) and its refresh token share one    *)
(* number.  Time passes in ticks; a key or token with n ticks left is valid    *)
(* while n > 0.                                                                *)
EXTENDS Naturals

CONSTANTS
  Slots,          \* requests in flight at the same time
  MaxTokens,      \* bound: token pairs issued
  AccessTtl,      \* jwt.accessExpiry, 900 seconds unless configured
  BlacklistTtl,   \* the 900 seconds of logout
  RefreshTtl,     \* seven days
  MaxFaults       \* bound: Redis calls that fail, requests that throw or die

ASSUME TtlsArePositive ==
  /\ AccessTtl \in Nat \ {0}
  /\ BlacklistTtl \in Nat \ {0}
  /\ RefreshTtl \in Nat \ {0}

\* logout's literal covers the configured lifetime of an access token.
ASSUME BlacklistCoversToken == AccessTtl <= BlacklistTtl

ASSUME BoundsAreNat == MaxTokens \in Nat /\ MaxFaults \in Nat

VARIABLES
  issued,       \* token pairs issued so far
  row,          \* sessions: row[t] is absent, active or revoked
  login,        \* login[t]: the first session of t's chain of refreshes
  parent,       \* parent[t]: the session t was refreshed from, or None
  access,       \* access[t]: ticks until access token t expires
  refresh,      \* refresh[t]: ticks until expires_at of session t
  black,        \* black[t]: ticks until the blacklist key of jti t expires
  blacklisted,  \* tokens that a logout has put on the blacklist
  ended,        \* logins that a logoutAll has found
  req,          \* the requests in flight
  faults        \* faults so far

vars == <<issued, row, login, parent, access, refresh, black, blacklisted,
          ended, req, faults>>

Tokens == 1..MaxTokens

None == 0

Steps == {"idle", "find", "issue", "revoke", "insert", "blacklist", "revokeJti",
          "revokeAll"}

\* token: the session the request was made with; new: the pair it issues.
Request == [step : Steps, token : {None} \cup Tokens, new : {None} \cup Tokens]

Idle == [step |-> "idle", token |-> None, new |-> None]

TypeOK ==
  /\ issued \in 0..MaxTokens
  /\ row \in [Tokens -> {"absent", "active", "revoked"}]
  /\ login \in [Tokens -> {None} \cup Tokens]
  /\ parent \in [Tokens -> {None} \cup Tokens]
  /\ access \in [Tokens -> 0..AccessTtl]
  /\ refresh \in [Tokens -> 0..RefreshTtl]
  /\ black \in [Tokens -> 0..BlacklistTtl]
  /\ blacklisted \subseteq Tokens
  /\ ended \subseteq Tokens
  /\ req \in [Slots -> Request]
  /\ faults \in 0..MaxFaults

Init ==
  /\ issued = 0
  /\ row = [t \in Tokens |-> "absent"]
  /\ login = [t \in Tokens |-> None]
  /\ parent = [t \in Tokens |-> None]
  /\ access = [t \in Tokens |-> 0]
  /\ refresh = [t \in Tokens |-> 0]
  /\ black = [t \in Tokens |-> 0]
  /\ blacklisted = {} /\ ended = {}
  /\ req = [r \in Slots |-> Idle]
  /\ faults = 0

Goto(r, step) == req' = [req EXCEPT ![r].step = step]

Finish(r) == req' = [req EXCEPT ![r] = Idle]

Start(r, step, t) ==
  /\ req[r] = Idle
  /\ req' = [req EXCEPT ![r].step = step, ![r].token = t]

\* The client holds the pair t once its session row is inserted.
Holds(t) == row[t] # "absent"

\* JwtAuthGuard: the signature's expiry, then the blacklist; never the sessions
\* table.
Accepts(t) == access[t] > 0 /\ black[t] = 0

\* A blacklist read that fails reads null and lets the token pass.
Guard(t) ==
  \/ Accepts(t) /\ UNCHANGED faults
  \/ access[t] > 0 /\ faults < MaxFaults /\ faults' = faults + 1

(*----------------------------- verifyOtp's last step -------------------------*)

Login ==
  /\ issued < MaxTokens
  /\ LET t == issued + 1 IN
       /\ issued' = t
       /\ row' = [row EXCEPT ![t] = "active"]
       /\ login' = [login EXCEPT ![t] = t]
       /\ access' = [access EXCEPT ![t] = AccessTtl]
       /\ refresh' = [refresh EXCEPT ![t] = RefreshTtl]
  /\ UNCHANGED <<parent, black, blacklisted, ended, req, faults>>

(*---------------------------------- refresh ----------------------------------*)

Refresh(r, t) ==
  /\ Holds(t)
  /\ Start(r, "find", t)
  /\ UNCHANGED <<issued, row, login, parent, access, refresh, black,
                 blacklisted, ended, faults>>

\* Mutant: is_revoked is not looked at.
MutFindSession(r) ==
  LET t == req[r].token IN
  /\ req[r].step = "find"
  /\ IF refresh[t] > 0 THEN Goto(r, "issue") ELSE Finish(r)
  /\ UNCHANGED <<issued, row, login, parent, access, refresh, black,
                 blacklisted, ended, faults>>

\* REFRESH_TOKEN_INVALID ends the request.
FindSession(r) ==
  LET t == req[r].token IN
  /\ req[r].step = "find"
  /\ IF row[t] = "active" /\ refresh[t] > 0 THEN Goto(r, "issue") ELSE Finish(r)
  /\ UNCHANGED <<issued, row, login, parent, access, refresh, black,
                 blacklisted, ended, faults>>

\* The user is read and the new pair signed.
IssueTokenPair(r) ==
  /\ req[r].step = "issue"
  /\ issued < MaxTokens
  /\ issued' = issued + 1
  /\ access' = [access EXCEPT ![issued + 1] = AccessTtl]
  /\ req' = [req EXCEPT ![r].step = "revoke", ![r].new = issued + 1]
  /\ UNCHANGED <<row, login, parent, refresh, black, blacklisted, ended, faults>>

\* Mutant: the new session is inserted before the old one is revoked.
MutRevokeSession(r) ==
  /\ req[r].step = "revoke"
  /\ row' = [row EXCEPT ![req[r].new] = "active"]
  /\ parent' = [parent EXCEPT ![req[r].new] = req[r].token]
  /\ Goto(r, "insert")
  /\ UNCHANGED <<issued, login, access, refresh, black, blacklisted, ended,
                 faults>>

\* UPDATE by id: a session that was revoked meanwhile is revoked again.
RevokeSession(r) ==
  /\ req[r].step = "revoke"
  /\ row' = [row EXCEPT ![req[r].token] = "revoked"]
  /\ Goto(r, "insert")
  /\ UNCHANGED <<issued, login, parent, access, refresh, black, blacklisted,
                 ended, faults>>

CreateSession(r) ==
  LET q == req[r] IN
  /\ q.step = "insert"
  /\ row' = [row EXCEPT ![q.new] = "active"]
  /\ login' = [login EXCEPT ![q.new] = login[q.token]]
  /\ parent' = [parent EXCEPT ![q.new] = q.token]
  /\ refresh' = [refresh EXCEPT ![q.new] = RefreshTtl]
  /\ Finish(r)
  /\ UNCHANGED <<issued, access, black, blacklisted, ended, faults>>

(*------------------------------ logout, logoutAll ----------------------------*)

Logout(r, t) ==
  /\ Holds(t) /\ Guard(t)
  /\ Start(r, "blacklist", t)
  /\ UNCHANGED <<issued, row, login, parent, access, refresh, black,
                 blacklisted, ended>>

\* Mutant: the key lives one tick less than the token.
MutSetBlacklist(r) ==
  /\ req[r].step = "blacklist"
  /\ black' = [black EXCEPT ![req[r].token] = AccessTtl - 1]
  /\ blacklisted' = blacklisted \cup {req[r].token}
  /\ Goto(r, "revokeJti")
  /\ UNCHANGED <<issued, row, login, parent, access, refresh, ended, faults>>

\* CacheService.set does nothing when Redis is away, and logout goes on.
SetBlacklist(r) ==
  LET t == req[r].token IN
  /\ req[r].step = "blacklist"
  /\ \/ /\ black' = [black EXCEPT ![t] = BlacklistTtl]
        /\ blacklisted' = blacklisted \cup {t}
        /\ UNCHANGED faults
     \/ /\ faults < MaxFaults
        /\ faults' = faults + 1
        /\ UNCHANGED <<black, blacklisted>>
  /\ Goto(r, "revokeJti")
  /\ UNCHANGED <<issued, row, login, parent, access, refresh, ended>>

\* Mutant: the row is deleted in place of being marked.
MutRevokeByJti(r) ==
  /\ req[r].step = "revokeJti"
  /\ row' = [row EXCEPT ![req[r].token] = "deleted"]
  /\ Finish(r)
  /\ UNCHANGED <<issued, login, parent, access, refresh, black, blacklisted,
                 ended, faults>>

RevokeByJti(r) ==
  /\ req[r].step = "revokeJti"
  /\ row' = [row EXCEPT ![req[r].token] = "revoked"]
  /\ Finish(r)
  /\ UNCHANGED <<issued, login, parent, access, refresh, black, blacklisted,
                 ended, faults>>

LogoutAll(r, t) ==
  /\ Holds(t) /\ Guard(t)
  /\ Start(r, "revokeAll", t)
  /\ UNCHANGED <<issued, row, login, parent, access, refresh, black,
                 blacklisted, ended>>

\* Mutant: only the caller's session is revoked.
MutRevokeAllUserSessions(r) ==
  /\ req[r].step = "revokeAll"
  /\ row' = [row EXCEPT ![req[r].token] = "revoked"]
  /\ ended' = ended \cup {login[t] : t \in {u \in Tokens : Holds(u)}}
  /\ Finish(r)
  /\ UNCHANGED <<issued, login, parent, access, refresh, black, blacklisted,
                 faults>>

\* One UPDATE of every session of the user that is not revoked.
RevokeAllUserSessions(r) ==
  /\ req[r].step = "revokeAll"
  /\ row' = [t \in Tokens |-> IF Holds(t) THEN "revoked" ELSE "absent"]
  /\ ended' = ended \cup {login[t] : t \in {u \in Tokens : Holds(u)}}
  /\ Finish(r)
  /\ UNCHANGED <<issued, login, parent, access, refresh, black, blacklisted,
                 faults>>

(*-------------------------------- Environment --------------------------------*)

Minus1(f) == [t \in Tokens |-> IF f[t] > 0 THEN f[t] - 1 ELSE 0]

\* Time passes for every token and key at once.
Tick ==
  /\ \E t \in Tokens : access[t] > 0 \/ refresh[t] > 0 \/ black[t] > 0
  /\ access' = Minus1(access)
  /\ refresh' = Minus1(refresh)
  /\ black' = Minus1(black)
  /\ UNCHANGED <<issued, row, login, parent, blacklisted, ended, req, faults>>

\* An awaited call throws, or the process dies.
Fail(r) ==
  /\ req[r] # Idle
  /\ faults < MaxFaults
  /\ faults' = faults + 1
  /\ Finish(r)
  /\ UNCHANGED <<issued, row, login, parent, access, refresh, black,
                 blacklisted, ended>>

(*------------------------------- Specification -------------------------------*)

Next ==
  \/ Login \/ Tick
  \/ \E r \in Slots :
       \/ FindSession(r) \/ IssueTokenPair(r) \/ RevokeSession(r)
       \/ CreateSession(r) \/ SetBlacklist(r) \/ RevokeByJti(r)
       \/ RevokeAllUserSessions(r) \/ Fail(r)
       \/ \E t \in Tokens : Refresh(r, t) \/ Logout(r, t) \/ LogoutAll(r, t)

Spec == Init /\ [][Next]_vars

(*--------------------------------- Properties --------------------------------*)

\* refresh inserts a session only after it revoked the one it replaces: also
\* after a crash between the two, and with refreshes and logouts in parallel, a
\* chain never offers both.
ReplacedIsRevoked ==
  \A t \in Tokens : parent[t] # None => row[parent[t]] = "revoked"

\* A token whose logout reached Redis is never accepted again by a guard that
\* Redis answers: its blacklist key outlives it.
LoggedOutStaysOut ==
  \A t \in blacklisted : ~Accepts(t)

\* "Rotate tokens: revoke old session, create new one": a login has at most one
\* session that can be refreshed.
OneActivePerLogin ==
  \A s, t \in Tokens :
    s # t /\ row[s] = "active" /\ row[t] = "active" => login[s] # login[t]

\* "Revoke all sessions": a login that logoutAll ended has no active session.
EndedStaysEnded ==
  \A t \in Tokens : row[t] = "active" => login[t] \notin ended
===============================================================================
