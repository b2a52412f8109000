------------------------------- MODULE WebClient -------------------------------
(* The web client in one tab: signing up, identity verification and the        *)
(* dashboard, over the backend they call.                                      *)
EXTENDS WebKyc

Init ==
  /\ page = "login" /\ view = "mobile" /\ busy = {}
  /\ login = FreshLogin
  /\ token = NoToken /\ live = {}
  /\ kyc = "pending" /\ job = FALSE
  /\ calls = EmptyBag
  /\ timers = NoTimers

\* Each view is one that its page can show.
TabTyped ==
  /\ page \in Pages /\ view \in Views[page]
  /\ busy \subseteq {"loading", "calculating"}
  /\ login \in [number : Numbers, otp : BOOLEAN, auto : BOOLEAN,
                sentTo : SUBSET Numbers, edited : BOOLEAN]
  /\ token \in {NoToken} \cup Tokens
  /\ live \subseteq Tokens
  /\ kyc \in KycStatus /\ job \in BOOLEAN
  /\ IsABag(calls) /\ BagToSet(calls) \subseteq Call
  /\ timers \in [polling : {NoToken} \cup Tokens, stop : BOOLEAN,
                 redirects : 0..MaxRedirects]

\* And no more requests are in flight than the bound allows.
TypeOK == TabTyped /\ Cardinality(InFlight(calls)) <= MaxCalls

(*-------------------------------- app/dashboard ------------------------------*)

\* fetchScore's answer.
ScoreFetched(c, ans) ==
  /\ c.kind = "getScore"
  /\ calls' = Done(c)
  /\ busy' = busy \ {"loading"}
  /\ UNCHANGED <<page, view, login, timers, Rest>>

\* Without a token nothing is sent.
CalculateScore ==
  /\ page = "dashboard" /\ busy = {} /\ token # NoToken
  /\ Send("calculateScore", token, "short")
  /\ busy' = {"calculating"}
  /\ UNCHANGED <<page, view, login, timers, Rest>>

\* The fetchScore that follows a second later shows no spinner.
ScoreCalculated(c, ans) ==
  /\ c.kind = "calculateScore"
  /\ calls' = Done(c)
  /\ busy' = busy \ {"calculating"}
  /\ UNCHANGED <<page, view, login, timers, Rest>>

\* The layout's "Sign Out" is a link to /login; the token stays.
LeaveDashboard ==
  /\ page = "dashboard"
  /\ Push("login", token, calls)
  /\ UNCHANGED Rest

(*------------------------------- Specification -------------------------------*)

\* The answer to c arrives and the handler that waited for it goes on.
Answer(c) ==
  \E ans \in Answers(c) :
    \/ LoginAnswer(c, ans) \/ KycAnswer(c, ans)
    \/ ScoreFetched(c, ans) \/ ScoreCalculated(c, ans)

Next ==
  \/ LoginStep \/ KycStep \/ CalculateScore \/ LeaveDashboard
  \/ Redirect \/ StopPolling \/ EndJob \/ PassLiveness
  \/ \E c \in BagToSet(calls) : Answer(c)
  \/ \E t \in Tokens : ExpireToken(t)
  \/ \E p \in Pages \ {"setu", "callback", "failed"} : Visit(p)

Spec == Init /\ [][Next]_vars

\* The browser fires its timers.  Answers, the user and the backend's job owe
\* nothing.
FairSpec == Spec /\ WF_vars(Redirect) /\ WF_vars(StopPolling)

(*--------------------------------- Properties --------------------------------*)

Waiting(kinds) ==
  \E c \in BagToSet(calls) : c.mounted /\ c.kind \in kinds

\* A spinner, or a button disabled by one, has a request of the same page in
\* flight that will end it: whichever requests overlapped, failed, came back
\* late or were forgotten by a reload, the user is not left with a dead form.
BusyHasRequest ==
  /\ page = "login" /\ busy # {} => Waiting({"sendOtp", "verifyOtp"})
  /\ page = "onboarding" /\ busy # {} => Waiting({"updateProfile"})
  /\ page = "digilocker" /\ busy # {} => Waiting({"initiateKyc"})
  /\ page = "kyc" /\ view = "loading" => Waiting({"kycStatus"})
  /\ page = "kyc" /\ view = "initiating" => Waiting({"kycInitiate"})
  /\ "loading" \in busy /\ page = "dashboard" => Waiting({"getScore"})
  /\ "calculating" \in busy => Waiting({"calculateScore"})

\* "Enter the six digit security code we sent to +91 ...": the code step names a
\* number that sendOtp was called for, unless the number was edited while the
\* request was in flight.
CodeStepNamesNumber ==
  page = "login" /\ view = "otp" /\ login.number \notin login.sentTo
    => login.edited

\* "Stop after 2 minutes": the processing page does not poll forever.  It fails
\* or sends the user to /kyc, even if no poll is ever answered, and a verified
\* page does not stay either.
ProcessingEnds ==
  page = "processing" /\ view # "failed"
    ~> page # "processing" \/ view = "failed"
===============================================================================
