------------------------------ MODULE MCOtpLogin -------------------------------
(* OtpLogin with two history variables: whether a sendOtp was ever in flight   *)
(* together with another request, and which codes were on their way into Redis *)
(* when the mobile was locked.                                                 *)
EXTENDS OtpLogin

VARIABLES
  mixed,  \* a sendOtp has overlapped another request
  passed  \* while locked: the codes whose sendOtp had passed the lock before

mcVars == <<vars, mixed, passed>>

SendSteps == {"checkLock", "store", "reset", "sms"}

\* Two requests of which one is a sendOtp.
Mixed ==
  \E r, x \in Slots : r # x /\ req[r].step \in SendSteps /\ req[x] # Idle

\* The codes whose sendOtp read the lock and has yet to store them.
OnTheirWay == {req[r].code : r \in {x \in Slots : req[x].step = "store"}}

MCInit == Init /\ mixed = FALSE /\ passed = {}

MCNext ==
  /\ Next
  /\ mixed' = (mixed \/ Mixed')
  /\ passed' = IF ~lock' THEN {} ELSE IF lock THEN passed ELSE OnTheirWay

MCSpec == MCInit /\ [][MCNext]_mcVars

\* Bound of the run: a sendOtp overlaps other requests or something fails, not
\* both in one behaviour.
BoundedNext == MCNext /\ (mixed' => faults' = 0)

\* The event loop resumes every handler whose Redis or database call answered.
BoundedFairSpec ==
  /\ MCInit /\ [][BoundedNext]_mcVars
  /\ \A r \in Slots : WF_vars(Continue(r))

(*--------------------------------- Properties --------------------------------*)

\* verifyOtp's limit, as long as no sendOtp overlaps another request: one that
\* does may clear the counter in the middle of a round.
UnmixedCodeAttempts == mixed \/ LiveCodeAttempts

\* "Too many attempts. Please try again after 30 minutes": sendOtp reads the
\* lock and stores its code in separate calls, so a code may reach a locked
\* mobile after all, but, while Redis answers, only one whose sendOtp had read
\* the lock before it was set.
LockStoresOnlyPassed ==
  [][lock /\ faults' = 0 => otp' \in {otp, None} \cup passed]_mcVars

\* Without faults a code that verifyOtp accepted logs somebody in, although
\* parallel verifications of a new mobile compete to create its user: as long as
\* no sendOtp overlaps them, so that they compete with one and the same code.
UnmixedCodeLogsIn ==
  \A c \in Codes :
    (\E r \in Slots : req[r].step = "consume" /\ req[r].code = c)
      ~> (logins[c] > 0 \/ faults > 0 \/ mixed)
===============================================================================
