--------------------------------- MODULE WebKyc --------------------------------
(* Identity verification in the tab: the KYC page (app/kyc), DigiLocker and    *)
(* the way back from it, the processing page that polls the backend, and the   *)
(* failure page.                                                               *)
EXTENDS WebLogin

(*---------------------------------- app/kyc ----------------------------------*)

\* What the page shows after an answer.  A request that fails lets the user
\* proceed; an error that the backend answers with is taken for a status, which
\* has no fields_verified to render.
ShownFor(ans) ==
  CASE ans = "fully_verified" -> {"already_verified"}
    [] ans = "error" -> {"ready", "crashed"}
    [] OTHER -> {"ready"}

\* 401 removes the token in storage, whichever it is by now.
StatusKnown(c, ans) ==
  /\ c.kind = "kycStatus"
  /\ IF ans = "denied"
     THEN token' = NoToken /\ Push("login", NoToken, Done(c))
     ELSE /\ calls' = Done(c)
          /\ view' \in IF c.mounted THEN ShownFor(ans) ELSE {view}
          /\ UNCHANGED <<token, page, busy, login, timers>>
  /\ UNCHANGED backend

\* "Verify with DigiLocker", also in the error view.
InitiateKyc ==
  /\ page = "kyc" /\ view \in {"ready", "error"}
  /\ IF token = NoToken
     THEN Push("login", token, calls)
     ELSE /\ view' = "initiating"
          /\ Send("kycInitiate", token, "short")
          /\ UNCHANGED <<page, busy, login, timers>>
  /\ UNCHANGED Rest

\* window.location leaves for DigiLocker even from another page.
KycInitiated(c, ans) ==
  /\ c.kind = "kycInitiate"
  /\ IF ans = "ok"
     THEN Load("setu")
     ELSE /\ calls' = Done(c)
          /\ view' = IF c.mounted THEN "error" ELSE view
          /\ UNCHANGED <<page, busy, login, timers>>
  /\ UNCHANGED Rest

TryAgain ==
  /\ page = "kyc" /\ view = "error"
  /\ view' = "ready"
  /\ UNCHANGED <<page, busy, login, calls, timers, Rest>>

GoToDashboard ==
  /\ page = "kyc" /\ view = "already_verified"
  /\ Push("dashboard", token, calls)
  /\ UNCHANGED Rest

SignOut ==
  /\ page = "kyc" /\ view \notin {"loading", "crashed"}
  /\ token' = NoToken
  /\ Push("login", NoToken, calls)
  /\ UNCHANGED backend

(*------------------------- DigiLocker and the way back -----------------------*)

\* The backend's callback redirects to the processing page after it started
\* the job, or to the failure page: no consent, or the session has expired.
BackendCallback ==
  \/ job' = TRUE /\ Load("processing")
  \/ job' = job /\ Load("failed")

\* The redirect URI names the backend, or the callback page of the frontend.
ReturnFromSetu ==
  /\ page = "setu"
  /\ BackendCallback \/ (job' = job /\ Load("callback"))
  /\ UNCHANGED <<token, live, kyc>>

\* app/kyc/callback: on to the backend, or, by its parameters, to the failure
\* page or the KYC page.
ForwardCallback ==
  /\ page = "callback"
  /\ \/ BackendCallback
     \/ job' = job /\ Push("failed", token, calls)
     \/ job' = job /\ Push("kyc", token, calls)
  /\ UNCHANGED <<token, live, kyc>>

LeaveFailed ==
  /\ page = "failed"
  /\ \E p \in {"kyc", "login"} : Push(p, token, calls)
  /\ UNCHANGED Rest

(*------------------------------ app/kyc/processing ---------------------------*)

\* Every three seconds, whether or not the last poll has been answered.
Poll ==
  /\ timers.polling # NoToken
  /\ Send("kycPoll", timers.polling, "short")
  /\ UNCHANGED <<page, view, busy, login, timers, Rest>>

VerifiedStatus == {"aadhaar_verified", "fully_verified"}

\* Mutant: an answered poll clears the two-minute timeout.
MutPolled(c, ans) ==
  /\ c.kind = "kycPoll"
  /\ CASE ans = "denied" -> Push("login", token, Done(c))
       [] ans \in VerifiedStatus ->
            /\ timers.redirects < MaxRedirects
            /\ calls' = Done(c)
            /\ view' = IF c.mounted THEN "verified" ELSE view
            /\ timers' = [timers EXCEPT !.redirects = @ + 1,
                 !.polling = IF c.mounted THEN NoToken ELSE @]
            /\ UNCHANGED <<page, busy, login>>
       [] OTHER -> /\ calls' = Done(c)
                   /\ timers' = IF c.mounted
                                THEN [timers EXCEPT !.stop = FALSE] ELSE timers
                   /\ UNCHANGED <<page, view, busy, login>>
  /\ UNCHANGED Rest

\* A verified status stops the polling, not the two-minute timeout, and pushes
\* /kyc 2.5 seconds later.  401 pushes /login and keeps the token.  Other
\* answers are ignored.  (clearInterval after the unmount changes nothing.)
Polled(c, ans) ==
  /\ c.kind = "kycPoll"
  /\ CASE ans = "denied" ->
            Push("login", token, Done(c))
       [] ans \in VerifiedStatus ->
            /\ timers.redirects < MaxRedirects
            /\ calls' = Done(c)
            /\ view' = IF c.mounted THEN "verified" ELSE view
            /\ timers' = [timers EXCEPT !.redirects = @ + 1,
                 !.polling = IF c.mounted THEN NoToken ELSE @]
            /\ UNCHANGED <<page, busy, login>>
       [] OTHER -> /\ calls' = Done(c)
                   /\ UNCHANGED <<page, view, busy, login, timers>>
  /\ UNCHANGED Rest

\* The timer survives its page: it pulls the user to /kyc from any other.
Redirect ==
  /\ timers.redirects > 0
  /\ LET left == [timers EXCEPT !.redirects = @ - 1] IN
       IF page = "kyc"
       THEN timers' = left /\ UNCHANGED <<page, view, busy, login, calls>>
       ELSE Mount("kyc", token, Orphans(calls),
                  [left EXCEPT !.polling = NoToken, !.stop = FALSE])
  /\ UNCHANGED Rest

StopPolling ==
  /\ timers.stop
  /\ timers' = [timers EXCEPT !.stop = FALSE, !.polling = NoToken]
  /\ view' = "failed"
  /\ UNCHANGED <<page, busy, login, calls, Rest>>

\* "Check Status".
CheckStatus ==
  /\ page = "processing" /\ view = "failed"
  /\ Push("kyc", token, calls)
  /\ UNCHANGED Rest

(*----------------------------------- Steps -----------------------------------*)

KycStep ==
  \/ InitiateKyc \/ TryAgain \/ GoToDashboard \/ SignOut \/ ReturnFromSetu
  \/ ForwardCallback \/ LeaveFailed \/ Poll \/ CheckStatus

KycAnswer(c, ans) ==
  StatusKnown(c, ans) \/ KycInitiated(c, ans) \/ Polled(c, ans)
===============================================================================
