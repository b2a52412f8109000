-------------------------------- MODULE WebLogin -------------------------------
(* Signing up in the tab: the login page (app/login), the profile form         *)
(* (app/onboarding) and the mock DigiLocker form (app/kyc/digilocker).         *)
EXTENDS WebTab

Rest == <<token, backend>>

(*--------------------------------- app/login ---------------------------------*)

Sending == \E c \in BagToSet(calls) : c.kind = "sendOtp"

\* The number can be edited at any time before the code step, also while
\* sendOtp is in flight.
TypeNumber(n) ==
  /\ page = "login" /\ view = "mobile"
  /\ login' = [login EXCEPT !.number = n, !.edited = @ \/ Sending]
  /\ UNCHANGED <<page, view, busy, calls, timers, Rest>>

SendOtp ==
  /\ page = "login" /\ view = "mobile"
  /\ busy = {} /\ login.number # "short"
  /\ Send("sendOtp", NoToken, login.number)
  /\ busy' = {"loading"}
  /\ login' = [login EXCEPT !.edited = @ /\ Sending]
  /\ UNCHANGED <<page, view, timers, Rest>>

\* The arrow and "Edit Number": the code typed so far stays.
EditNumber ==
  /\ page = "login" /\ view = "otp"
  /\ view' = "mobile"
  /\ login' = [login EXCEPT !.auto = FALSE]
  /\ UNCHANGED <<page, busy, calls, timers, Rest>>

\* A full code arms the timer of the auto-verify effect; a
\* digit that is deleted disarms it.
TypeCode(full) ==
  /\ page = "login" /\ view = "otp"
  /\ login' = [login EXCEPT !.otp = full, !.auto = full]
  /\ UNCHANGED <<page, view, busy, calls, timers, Rest>>

\* The user can only have a code that was sent to the borrower's own number.
Verify ==
  /\ Send("verifyOtp", NoToken,
          IF login.number \in login.sentTo THEN login.number ELSE "short")
  /\ busy' = {"loading"}
  /\ UNCHANGED <<page, view, timers, Rest>>

\* handleVerifyOtp, from the effect's timer: `loading` is not looked at.
AutoVerify ==
  /\ page = "login" /\ login.auto
  /\ login' = [login EXCEPT !.auto = FALSE]
  /\ Verify

\* handleVerifyOtp, from the button.
PressContinue ==
  /\ page = "login" /\ view = "otp"
  /\ busy = {} /\ login.otp
  /\ UNCHANGED login
  /\ Verify

\* "Let's Explore".
Explore ==
  /\ page = "login" /\ view = "success"
  /\ Push("onboarding", token, calls)
  /\ UNCHANGED Rest

\* Mutant: the code step is shown whatever the answer was.
MutOtpSent(c, ans) ==
  /\ c.kind = "sendOtp"
  /\ calls' = Done(c)
  /\ busy' = {}
  /\ view' = "otp"
  /\ login' = [login EXCEPT !.auto = @ \/ (view # "otp" /\ login.otp),
       !.sentTo = IF ans = "ok" THEN @ \cup {c.number} ELSE @]
  /\ UNCHANGED <<page, timers, Rest>>

\* The code step is shown whatever the page shows by now; entering it with a
\* full code arms the auto-verify timer again.
OtpSent(c, ans) ==
  /\ c.kind = "sendOtp"
  /\ calls' = Done(c)
  /\ busy' = {}
  /\ IF ans = "ok"
     THEN /\ view' = "otp"
          /\ login' = [login EXCEPT !.sentTo = @ \cup {c.number},
               !.auto = @ \/ (view # "otp" /\ login.otp)]
     ELSE UNCHANGED <<view, login>>
  /\ UNCHANGED <<page, timers, Rest>>

\* A code that fits opens a session; without one, nothing is stored.
Stored(ans) ==
  IF ans = "ok"
  THEN Tokens \ Held # {} /\ token' = NewToken /\ live' = live \cup {NewToken}
  ELSE UNCHANGED <<token, live>>

\* Mutant: loading is reset after a successful answer only.
MutOtpVerified(c, ans) ==
  /\ c.kind = "verifyOtp"
  /\ calls' = Done(c)
  /\ Stored(ans)
  /\ IF c.mounted
     THEN /\ busy' = IF ans = "ok" THEN {} ELSE busy
          /\ view' = IF ans = "ok" THEN "success" ELSE view
          /\ login' = [login EXCEPT !.auto = @ /\ ans # "ok"]
     ELSE UNCHANGED <<view, busy, login>>
  /\ UNCHANGED <<page, timers, kyc, job>>

\* A token is stored even when the page that asked for it is gone.
OtpVerified(c, ans) ==
  /\ c.kind = "verifyOtp"
  /\ calls' = Done(c)
  /\ Stored(ans)
  /\ IF c.mounted
     THEN /\ busy' = {}
          /\ view' = IF ans = "ok" THEN "success" ELSE view
          /\ login' = [login EXCEPT !.auto = @ /\ ans # "ok"]
     ELSE UNCHANGED <<view, busy, login>>
  /\ UNCHANGED <<page, timers, kyc, job>>

(*------------------------------- app/onboarding ------------------------------*)

\* The form with a name and a date of birth 18 or more years back; without a
\* token the request carries 'mock-token', which the backend does not know.
SubmitProfile ==
  /\ page = "onboarding" /\ busy = {}
  /\ Send("updateProfile", token, "short")
  /\ busy' = {"loading"}
  /\ UNCHANGED <<page, view, login, timers, Rest>>

ProfileSaved(c, ans) ==
  /\ c.kind = "updateProfile"
  /\ IF ans = "ok"
     THEN Push("digilocker", token, Done(c))
     ELSE /\ calls' = Done(c)
          /\ busy' = IF c.mounted THEN {} ELSE busy
          /\ UNCHANGED <<page, view, login, timers>>
  /\ UNCHANGED Rest

(*----------------------------- app/kyc/digilocker ----------------------------*)

\* Twelve digits; without a token nothing is sent.
SubmitAadhaar ==
  /\ page = "digilocker" /\ busy = {} /\ token # NoToken
  /\ Send("initiateKyc", token, "short")
  /\ busy' = {"loading"}
  /\ UNCHANGED <<page, view, login, timers, Rest>>

\* Success pushes /dashboard 1.5 seconds later (here: at once).
AadhaarLinked(c, ans) ==
  /\ c.kind = "initiateKyc"
  /\ IF ans = "ok"
     THEN Push("dashboard", token, Done(c))
     ELSE /\ calls' = Done(c)
          /\ busy' = {}
          /\ UNCHANGED <<page, view, login, timers>>
  /\ UNCHANGED Rest

(*----------------------------------- Steps -----------------------------------*)

LoginStep ==
  \/ \E n \in Numbers : TypeNumber(n)
  \/ \E full \in BOOLEAN : TypeCode(full)
  \/ SendOtp \/ EditNumber \/ AutoVerify \/ PressContinue \/ Explore
  \/ SubmitProfile \/ SubmitAadhaar

LoginAnswer(c, ans) ==
  \/ OtpSent(c, ans) \/ OtpVerified(c, ans)
  \/ ProfileSaved(c, ans) \/ AadhaarLinked(c, ans)
===============================================================================
