--------------------------------- MODULE WebTab --------------------------------
(* One browser tab of the web client: the mounted page, the token in           *)
(* localStorage, the requests that services/api.ts and the KYC pages have in   *)
(* flight, and the timers.  A request is answered in a later step, when its    *)
(* page may be gone: React then drops the state updates of the handler, while  *)
(* localStorage and the router still act.                                      *)
EXTENDS Naturals, FiniteSets, Bags

CONSTANTS
  MaxCalls,    \* bound: requests in flight at the same time
  MaxTokens,   \* bound: access tokens in use at the same time
  MaxRedirects \* bound: pending timers that will push /kyc

ASSUME WebBounds ==
  MaxCalls \in Nat /\ MaxTokens \in Nat /\ MaxRedirects \in Nat

VARIABLES
  page,        \* the mounted page, or "setu": the tab is at DigiLocker
  view,        \* the page's `step`, `state` or `status`
  busy,        \* its spinners: those of `loading`, `calculating` that are set
  login,       \* what else the login page remembers
  token,       \* access_token in localStorage, or NoToken
  live,        \* tokens the backend still accepts
  kyc,         \* the borrower's verification_status
  job,         \* a processKycData of the borrower is running
  calls,       \* the bag of the requests in flight
  timers       \* the timers that are armed

vars == <<page, view, busy, login, token, live, kyc, job, calls, timers>>

backend == <<live, kyc, job>>

NoToken == 0

Tokens == 1..MaxTokens

\* The views of each page; the first one in a mount is InitialView.
Views ==
  [login |-> {"mobile", "otp", "success"}, onboarding |-> {"form"},
   digilocker |-> {"form"}, kyc |-> {"loading", "ready", "initiating",
   "already_verified", "error", "crashed"}, setu |-> {"form"}, callback |-> {"form"},
   processing |-> {"processing", "verified", "failed"}, failed |-> {"form"},
   dashboard |-> {"form"}]

Pages == DOMAIN Views

InitialView(p) ==
  CASE p = "login" -> "mobile" [] p = "kyc" -> "loading"
    [] p = "processing" -> "processing" [] OTHER -> "form"

(*--------------------------------- Requests ----------------------------------*)

\* "own" is the borrower's number, "other" a stranger's, "short" no number yet.
Numbers == {"short", "own", "other"}

Kinds == {"sendOtp", "verifyOtp", "updateProfile", "initiateKyc", "kycStatus",
          "kycInitiate", "kycPoll", "getScore", "calculateScore"}

KycStatus == {"pending", "aadhaar_verified", "fully_verified"}

\* mounted: the page that sent it is still there.
Call == [kind : Kinds, mounted : BOOLEAN, tok : {NoToken} \cup Tokens,
         number : Numbers]

Request(kind, tok, number) ==
  [kind |-> kind, mounted |-> TRUE, tok |-> tok, number |-> number]

\* The requests of the bag cs one by one: call is there cs[call] times.
InFlight(cs) == UNION {{call} \X (1..cs[call]) : call \in BagToSet(cs)}

Room(cs) == Cardinality(InFlight(cs)) < MaxCalls

\* cs with one more request.
With(cs, call) == cs (+) SetToBag({call})

Done(call) == calls (-) SetToBag({call})

Send(kind, tok, number) ==
  Room(calls) /\ calls' = With(calls, Request(kind, tok, number))

(*--------------------------------- Navigation --------------------------------*)

FreshLogin == [number |-> "short", otp |-> FALSE, auto |-> FALSE,
               sentTo |-> {}, edited |-> FALSE]

\* polling: the token the interval of the processing page polls with; stop: its
\* two-minute timeout; redirects outlive their page.
NoTimers == [polling |-> NoToken, stop |-> FALSE, redirects |-> 0]

\* The requests whose handlers do more than update the state of their page.
Outlives == {"verifyOtp", "updateProfile", "kycStatus", "kycInitiate", "kycPoll"}

\* The page is unmounted: what it alone was waiting for is forgotten.
Orphan(call) == [call EXCEPT !.mounted = FALSE]

Copies(c, cs) == IF c \in BagToSet(cs) THEN cs[c] ELSE 0

Orphans(cs) ==
  [c \in {Orphan(d) : d \in {e \in BagToSet(cs) : e.kind \in Outlives}} |->
     Copies(c, cs) + Copies([c EXCEPT !.mounted = TRUE], cs)]

\* Page p is mounted and its effects run, with tok in localStorage and cs in
\* flight.  The two pages that need a token push /login without one.
Mount(p, tok, cs, ts) ==
  IF p \in {"kyc", "processing"} /\ tok = NoToken
  THEN /\ page' = "login" /\ view' = "mobile" /\ busy' = {}
       /\ login' = FreshLogin /\ calls' = cs /\ timers' = ts
  ELSE /\ page' = p /\ view' = InitialView(p) /\ login' = FreshLogin
       /\ busy' = IF p = "dashboard" /\ tok # NoToken THEN {"loading"} ELSE {}
       /\ IF p \in {"kyc", "dashboard"} /\ tok # NoToken
          THEN /\ Room(cs)
               /\ calls' = With(cs, Request(IF p = "kyc" THEN "kycStatus"
                                            ELSE "getScore", tok, "short"))
          ELSE calls' = cs
       /\ timers' = IF p = "processing"
                    THEN [ts EXCEPT !.polling = tok, !.stop = TRUE] ELSE ts

\* Mutant: the cleanup of the processing page forgets the two-minute timeout.
MutPush(p, tok, cs) ==
  IF p = page
  THEN calls' = cs /\ UNCHANGED <<page, view, busy, login, timers>>
  ELSE Mount(p, tok, Orphans(cs), [timers EXCEPT !.polling = NoToken])

\* router.push, from a handler that leaves tok and cs: the page is unmounted,
\* its effects are cleaned up.  Pushing the mounted page changes nothing.
Push(p, tok, cs) ==
  IF p = page
  THEN calls' = cs /\ UNCHANGED <<page, view, busy, login, timers>>
  ELSE Mount(p, tok, Orphans(cs),
             [timers EXCEPT !.polling = NoToken, !.stop = FALSE])

\* A full page load ends every request and timer of the tab.
Load(p) == Mount(p, token, EmptyBag, NoTimers)

\* The user opens a page, or reloads it, from the address bar.
Visit(p) ==
  /\ Load(p)
  /\ UNCHANGED <<token, backend>>

(*---------------------------------- The API ----------------------------------*)

\* No controller has a route POST /kyc/digilocker/init.
Accepted(call) ==
  CASE call.kind = "initiateKyc" -> FALSE
    [] call.kind \in {"sendOtp", "verifyOtp"} -> TRUE
    [] OTHER -> call.tok \in live

\* What the backend may answer now: the status to the KYC pages, 401 to a token
\* it does not know; or an error, also when the network or the backend is down.
Answers(call) ==
  {"error"} \cup
    CASE ~Accepted(call) -> {"denied"}
      [] call.kind \in {"kycStatus", "kycPoll"} -> {kyc}
      [] call.kind = "verifyOtp" /\ call.number # "own" -> {}
      [] OTHER -> {"ok"}

\* Tokens somebody still holds; a new one is the least that nobody does.
Held == live \cup {token, timers.polling} \cup {c.tok : c \in BagToSet(calls)}

NewToken == CHOOSE t \in Tokens \ Held : \A u \in Tokens \ Held : t <= u

(*-------------------------------- The backend --------------------------------*)

\* The 15 minutes of an access token are over, or its session was ended.
ExpireToken(t) ==
  /\ t \in live /\ live' = live \ {t}
  /\ UNCHANGED <<page, view, busy, login, token, kyc, job, calls, timers>>

\* The background job stores the Aadhaar data, or fails and is forgotten.
EndJob ==
  /\ job /\ job' = FALSE
  /\ kyc' \in {kyc, "aadhaar_verified"}
  /\ UNCHANGED <<page, view, busy, login, token, live, calls, timers>>

\* POST /kyc/liveness, which no page of the web client calls.
PassLiveness ==
  /\ kyc = "aadhaar_verified" /\ kyc' = "fully_verified"
  /\ UNCHANGED <<page, view, busy, login, token, live, job, calls, timers>>
===============================================================================
