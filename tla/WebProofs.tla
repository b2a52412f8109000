------------------------------- MODULE WebProofs -------------------------------
(* Proofs about WebClient: the inductive invariant of the tab and what follows *)
(* from it, for any number of requests in flight, tokens and pending redirects. *)
EXTENDS WebClient, FiniteSetTheorems, FunctionTheorems,
        NaturalsInduction, WellFoundedInduction, TLAPS

(*----------------------------- Inductive invariant ---------------------------*)

\* The page a request is sent from.
PageOf ==
  [sendOtp |-> "login", verifyOtp |-> "login", updateProfile |-> "onboarding",
   initiateKyc |-> "digilocker", kycStatus |-> "kyc", kycInitiate |-> "kyc",
   kycPoll |-> "processing", getScore |-> "dashboard",
   calculateScore |-> "dashboard"]

\* A mounted request belongs to the page of its kind; another one is in flight
\* only when its handler outlives the page.
CallsBelong ==
  \A c \in BagToSet(calls) :
    IF c.mounted = TRUE THEN page = PageOf[c.kind] ELSE c.kind \in Outlives

\* The poll and the two-minute timeout belong to the processing page.
TimersBelong ==
  timers.stop = TRUE \/ timers.polling # NoToken => page = "processing"

\* The processing page waits for a timer: its two-minute timeout, or a redirect
\* when an answer that came after the timeout verified it.
TimeoutArmed ==
  page = "processing" /\ view # "failed" =>
    timers.stop = TRUE \/ timers.redirects > 0

\* A sendOtp in flight carries the number shown, unless that was edited.
SentNumbers ==
  \A c \in BagToSet(calls) : c.kind = "sendOtp" =>
    c.number = login.number \/ login.edited = TRUE

\* The types of what the browser keeps, and of what outlives a page load.
Screen ==
  /\ page \in Pages /\ view \in Views[page]
  /\ busy \subseteq {"loading", "calculating"}
  /\ login \in [number : Numbers, otp : BOOLEAN, auto : BOOLEAN,
                sentTo : SUBSET Numbers, edited : BOOLEAN]
  /\ IsABag(calls) /\ BagToSet(calls) \subseteq Call
  /\ timers \in [polling : {NoToken} \cup Tokens, stop : BOOLEAN,
                 redirects : 0..MaxRedirects]

Store ==
  /\ token \in {NoToken} \cup Tokens
  /\ live \subseteq Tokens
  /\ kyc \in KycStatus /\ job \in BOOLEAN

TabInv ==
  /\ Screen
  /\ CallsBelong
  /\ TimersBelong /\ TimeoutArmed
  /\ BusyHasRequest
  /\ SentNumbers
  /\ CodeStepNamesNumber

\* The requests of cs can be counted and are no more than the bound.
Few(cs) ==
  IsFiniteSet(InFlight(cs)) /\ Cardinality(InFlight(cs)) <= MaxCalls

CallsFew == Few(calls)

IInv == Store /\ TabInv /\ CallsFew

(*----------------------------- Bags of requests ------------------------------*)

LEMMA WithBag ==
  ASSUME NEW cs, IsABag(cs), NEW call
  PROVE  IsABag(With(cs, call)) /\ BagToSet(With(cs, call)) = BagToSet(cs) \cup {call}
BY DEF IsABag, BagToSet, With, SetToBag, (+)

LEMMA DoneBag ==
  ASSUME IsABag(calls), NEW call
  PROVE  /\ IsABag(Done(call))
         /\ BagToSet(Done(call)) \subseteq BagToSet(calls)
         /\ \A d \in BagToSet(calls) : d # call => d \in BagToSet(Done(call))
BY DEF IsABag, BagToSet, Done, SetToBag, (-)

LEMMA EmptyIsBag == IsABag(EmptyBag) /\ BagToSet(EmptyBag) = {}
BY DEF IsABag, BagToSet, EmptyBag, SetToBag

LEMMA OrphansBag ==
  ASSUME NEW cs, IsABag(cs), BagToSet(cs) \subseteq Call
  PROVE  /\ IsABag(Orphans(cs))
         /\ BagToSet(Orphans(cs)) \subseteq Call
         /\ \A c \in BagToSet(Orphans(cs)) :
              c.mounted = FALSE /\ c.kind \in Outlives
<1> DEFINE kept == {d \in BagToSet(cs) : d.kind \in Outlives}
           gone == {Orphan(d) : d \in kept}
           Sum2(c) == Copies(c, cs) + Copies([c EXCEPT !.mounted = TRUE], cs)
<1>1. ASSUME NEW d \in kept
      PROVE  /\ Orphan(d) \in Call
             /\ Orphan(d).mounted = FALSE /\ Orphan(d).kind \in Outlives
             /\ d = Orphan(d) \/ d = [Orphan(d) EXCEPT !.mounted = TRUE]
  BY <1>1 DEF Orphan, Call
<1>2. \A c : Copies(c, cs) \in Nat /\ (c \in BagToSet(cs) => Copies(c, cs) > 0)
  BY DEF Copies, BagToSet, IsABag
<1>3. \A d \in kept : Sum2(Orphan(d)) \in Nat /\ Sum2(Orphan(d)) > 0
  <2> TAKE d \in kept
  <2> DEFINE c == Orphan(d)
  <2>1. /\ Copies(c, cs) \in Nat /\ Copies([c EXCEPT !.mounted = TRUE], cs) \in Nat
        /\ c \in BagToSet(cs) => Copies(c, cs) > 0
        /\ [c EXCEPT !.mounted = TRUE] \in BagToSet(cs) =>
             Copies([c EXCEPT !.mounted = TRUE], cs) > 0
    BY <1>2
  <2>2. c \in BagToSet(cs) \/ [c EXCEPT !.mounted = TRUE] \in BagToSet(cs)
    BY <1>1
  <2> QED
    BY <2>1, <2>2
<1>4. Orphans(cs) = [c \in gone |-> Sum2(c)]
  BY DEF Orphans
<1>5. \A c \in gone : Sum2(c) \in {n \in Nat : n > 0}
  BY <1>3
<1>6. IsABag(Orphans(cs)) /\ BagToSet(Orphans(cs)) = gone
  <2> HIDE DEF Sum2, gone
  <2> QED
    BY <1>4, <1>5 DEF IsABag, BagToSet
<1> QED
  BY <1>1, <1>6

(*------------------------- The number of requests in flight ------------------*)

LEMMA InFlightMember ==
  ASSUME NEW cs, NEW x
  PROVE  x \in InFlight(cs) <=>
           \E d \in BagToSet(cs) : \E i \in 1..cs[d] : x = <<d, i>>
BY DEF InFlight

LEMMA EmptyIsFew == Few(EmptyBag)
<1>1. InFlight(EmptyBag) = {}
  BY EmptyIsBag DEF InFlight
<1> QED
  BY <1>1, FS_EmptySet, WebBounds DEF Few

\* Sending adds one copy, and only where there is room for it.
LEMMA WithFew ==
  ASSUME NEW cs, IsABag(cs), Few(cs), Room(cs), NEW call
  PROVE  Few(With(cs, call))
<1>1. PICK n \in Nat : n = IF call \in BagToSet(cs) THEN cs[call] ELSE 0
  BY DEF IsABag, BagToSet
<1>2. PICK more : more = With(cs, call)
  OBVIOUS
<1>3. /\ BagToSet(more) = BagToSet(cs) \cup {call}
      /\ more[call] = n + 1
      /\ \A d \in BagToSet(cs) : d # call => more[d] = cs[d]
      /\ \A d \in BagToSet(cs) : cs[d] \in Nat
  BY <1>1, <1>2 DEF IsABag, BagToSet, With, SetToBag, (+)
<1>4. InFlight(more) = InFlight(cs) \cup {<<call, n + 1>>}
  <2>1. ASSUME NEW x \in InFlight(more)
        PROVE  x \in InFlight(cs) \cup {<<call, n + 1>>}
    <3>1. PICK d \in BagToSet(more) : \E i \in 1..more[d] : x = <<d, i>>
      BY <2>1, InFlightMember
    <3>2. PICK i \in 1..more[d] : x = <<d, i>>
      BY <3>1
    <3>3. CASE d # call
      BY <1>3, <3>2, <3>3, InFlightMember
    <3>4. CASE d = call /\ i # n + 1
      <4>1. i \in 1..n
        BY <1>1, <1>3, <3>2, <3>4
      <4>2. call \in BagToSet(cs) /\ n = cs[call]
        BY <1>1, <4>1
      <4> QED
        BY <3>2, <3>4, <4>1, <4>2, InFlightMember
    <3> QED
      BY <3>2, <3>3, <3>4
  <2>2. ASSUME NEW x \in InFlight(cs) PROVE x \in InFlight(more)
    <3>1. PICK d \in BagToSet(cs) : \E i \in 1..cs[d] : x = <<d, i>>
      BY <2>2, InFlightMember
    <3>2. PICK i \in 1..cs[d] : x = <<d, i>>
      BY <3>1
    <3>3. d \in BagToSet(more) /\ i \in 1..more[d]
      BY <1>1, <1>3, <3>2
    <3> QED
      BY <3>2, <3>3, InFlightMember
  <2>3. <<call, n + 1>> \in InFlight(more)
    <3>1. call \in BagToSet(more) /\ n + 1 \in 1..more[call]
      BY <1>1, <1>3
    <3> QED
      BY <3>1, InFlightMember
  <2> QED
    BY <2>1, <2>2, <2>3
<1>5. PICK S : S = InFlight(cs)
  OBVIOUS
<1>6. IsFiniteSet(S) /\ Cardinality(S) \in Nat /\ Cardinality(S) < MaxCalls
  BY <1>5, FS_CardinalityType DEF Few, Room
<1>7. PICK T : T = S \cup {<<call, n + 1>>}
  OBVIOUS
<1>8. IsFiniteSet(T) /\ Cardinality(T) <= MaxCalls
  <2>1. /\ IsFiniteSet(T)
        /\ Cardinality(T) = Cardinality(S) \/ Cardinality(T) = Cardinality(S) + 1
    BY <1>6, <1>7, FS_AddElement
  <2> QED
    BY <1>6, <2>1, WebBounds
<1> QED
  BY <1>2, <1>4, <1>5, <1>7, <1>8 DEF Few

\* Whatever has an image in S for each of its elements is no larger.
LEMMA InjectedFew ==
  ASSUME NEW S, NEW T, IsFiniteSet(T), Cardinality(T) <= MaxCalls,
         NEW f \in [S -> T], \A x, y \in S : f[x] = f[y] => x = y
  PROVE  IsFiniteSet(S) /\ Cardinality(S) <= MaxCalls
<1>1. f \in Injection(S, T)
  BY Fun_IsInj
<1>2. IsFiniteSet(S) /\ Cardinality(S) <= Cardinality(T)
  BY <1>1, FS_Injection
<1> QED
  BY <1>2, FS_CardinalityType, WebBounds

\* An answer leaves fewer.
LEMMA DoneFew ==
  ASSUME IsABag(calls), Few(calls), NEW call
  PROVE  Few(Done(call))
<1>1. PICK less : less = Done(call)
  OBVIOUS
<1>2. /\ BagToSet(less) \subseteq BagToSet(calls)
      /\ \A d \in BagToSet(less) : less[d] \in Nat /\ less[d] <= calls[d]
      /\ \A d \in BagToSet(calls) : calls[d] \in Nat
  BY <1>1 DEF IsABag, BagToSet, Done, SetToBag, (-)
<1>3. InFlight(less) \subseteq InFlight(calls)
  <2>1. ASSUME NEW x \in InFlight(less) PROVE x \in InFlight(calls)
    <3>1. PICK d \in BagToSet(less) : \E i \in 1..less[d] : x = <<d, i>>
      BY <2>1, InFlightMember
    <3>2. PICK i \in 1..less[d] : x = <<d, i>>
      BY <3>1
    <3>3. d \in BagToSet(calls) /\ i \in 1..calls[d]
      BY <1>2, <3>2
    <3> QED
      BY <3>2, <3>3, InFlightMember
  <2> QED
    BY <2>1
<1>4. PICK S, T : S = InFlight(less) /\ T = InFlight(calls)
  OBVIOUS
<1>5. IsFiniteSet(S) /\ Cardinality(S) <= Cardinality(T)
  BY <1>3, <1>4, FS_Subset DEF Few
<1>6. Cardinality(T) <= MaxCalls /\ Cardinality(T) \in Nat /\ Cardinality(S) \in Nat
  BY <1>4, <1>5, FS_CardinalityType DEF Few
<1>7. Cardinality(S) <= MaxCalls
  BY <1>5, <1>6, WebBounds
<1> QED
  BY <1>1, <1>4, <1>5, <1>7 DEF Few

\* An unmounted page leaves at most the requests it had: a copy that is orphaned
\* is one that was orphaned before, or one that was mounted.
LEMMA OrphansFew ==
  ASSUME NEW cs, IsABag(cs), BagToSet(cs) \subseteq Call, Few(cs)
  PROVE  Few(Orphans(cs))
<1> DEFINE mounted(c) == [c EXCEPT !.mounted = TRUE]
           back(c, i) == IF i <= Copies(c, cs) THEN <<c, i>>
                         ELSE <<mounted(c), i - Copies(c, cs)>>
<1>1. PICK left : left = Orphans(cs)
  OBVIOUS
<1>2. /\ \A c \in BagToSet(left) : c \in Call /\ c.mounted = FALSE
      /\ \A c \in BagToSet(left) :
           left[c] = Copies(c, cs) + Copies(mounted(c), cs)
  <2>1. \A c \in BagToSet(left) : c \in Call /\ c.mounted = FALSE
    BY <1>1, OrphansBag
  <2>2. \A c \in BagToSet(left) :
           left[c] = Copies(c, cs) + Copies(mounted(c), cs)
    BY <1>1 DEF Orphans, BagToSet
  <2> QED
    BY <2>1, <2>2
<1>3. \A c : /\ Copies(c, cs) \in Nat
             /\ Copies(c, cs) > 0 => c \in BagToSet(cs) /\ Copies(c, cs) = cs[c]
  BY DEF Copies, BagToSet, IsABag
<1>4. PICK S, T : S = InFlight(left) /\ T = InFlight(cs)
  OBVIOUS
<1>5. ASSUME NEW c \in BagToSet(left), NEW i \in 1..left[c]
      PROVE  back(c, i) \in T
  <2>1. PICK m, n \in Nat : m = Copies(c, cs) /\ n = Copies(mounted(c), cs)
    BY <1>3
  <2>2. i \in Nat /\ i >= 1 /\ i <= m + n
    BY <1>2, <1>5, <2>1
  <2>3. CASE i <= m
    <3>1. c \in BagToSet(cs) /\ i \in 1..cs[c]
      BY <1>3, <2>1, <2>2, <2>3
    <3> QED
      BY <1>4, <2>1, <2>3, <3>1, InFlightMember
  <2>4. CASE ~ (i <= m)
    <3>1. mounted(c) \in BagToSet(cs) /\ i - m \in 1..cs[mounted(c)]
      BY <1>3, <2>1, <2>2, <2>4
    <3>2. back(c, i) = <<mounted(c), i - m>>
      BY <2>1, <2>4
    <3> QED
      BY <1>4, <3>1, <3>2, InFlightMember
  <2> QED
    BY <2>3, <2>4
<1>6. ASSUME NEW c \in BagToSet(left), NEW i \in 1..left[c],
             NEW d \in BagToSet(left), NEW j \in 1..left[d],
             back(c, i) = back(d, j)
      PROVE  c = d /\ i = j
  <2>1. c.mounted = FALSE /\ d.mounted = FALSE /\ c \in Call /\ d \in Call
    BY <1>2, <1>6
  <2>2. /\ mounted(c).mounted = TRUE /\ mounted(d).mounted = TRUE
        /\ (mounted(c) = mounted(d) => c = d)
    BY <2>1 DEF Call
  <2>3. PICK m \in Nat : m = Copies(c, cs)
    BY <1>3
  <2>4. PICK n \in Nat : n = Copies(d, cs)
    BY <1>3
  <2>5. i \in Nat /\ j \in Nat
    <3>1. left[c] \in Nat /\ left[d] \in Nat
      BY <1>2, <1>3, <1>6
    <3> QED
      BY <1>6, <3>1
  <2>6. (IF i <= m THEN <<c, i>> ELSE <<mounted(c), i - m>>)
          = (IF j <= n THEN <<d, j>> ELSE <<mounted(d), j - n>>)
    BY <1>6, <2>3, <2>4
  <2> HIDE DEF mounted, back
  <2>7. CASE i <= m /\ j <= n
    BY <2>6, <2>7
  <2>8. CASE ~ (i <= m) /\ ~ (j <= n)
    <3>1. mounted(c) = mounted(d) /\ i - m = j - n
      BY <2>6, <2>8
    <3> QED
      BY <2>2, <2>3, <2>4, <2>5, <3>1
  <2>9. CASE (i <= m /\ ~ (j <= n)) \/ (~ (i <= m) /\ j <= n)
    <3>1. c = mounted(d) \/ mounted(c) = d
      BY <2>6, <2>9
    <3> QED
      BY <2>1, <2>2, <3>1
  <2> QED
    BY <2>7, <2>8, <2>9
<1>7. \A x \in S : /\ x = <<x[1], x[2]>> /\ x[1] \in BagToSet(left)
                   /\ x[2] \in 1..left[x[1]]
  BY <1>4, InFlightMember
<1>8. PICK f : f = [x \in S |-> back(x[1], x[2])]
  OBVIOUS
<1>9. f \in [S -> T] /\ \A x, y \in S : f[x] = f[y] => x = y
  <2> HIDE DEF back
  <2>1. f \in [S -> T]
    BY <1>5, <1>7, <1>8
  <2>2. \A x, y \in S : f[x] = f[y] => x = y
    BY <1>6, <1>7, <1>8
  <2> QED
    BY <2>1, <2>2
<1>10. IsFiniteSet(S) /\ Cardinality(S) <= MaxCalls
  BY <1>4, <1>9, InjectedFew DEF Few
<1> QED
  BY <1>1, <1>4, <1>10 DEF Few

(*---------------------------------- Tokens -----------------------------------*)

LEMMA NewTokenTyped ==
  ASSUME Tokens \ Held # {}, MaxTokens \in Nat
  PROVE  NewToken \in Tokens
<1> DEFINE free == Tokens \ Held
           R == {ss \in Nat \X Nat : ss[1] < ss[2]}
<1>1. free \subseteq Nat /\ free # {}
  BY DEF Tokens
<1>2. IsWellFoundedOn(R, Nat)
  BY NatLessThanWellFounded DEF OpToRel
<1>3. \E t \in free : \A u \in free : ~ (<<u, t>> \in R)
  <2> HIDE DEF free, R
  <2> QED
    BY <1>1, <1>2, WFMin
<1>4. \E t \in free : \A u \in free : t <= u
  <2>1. ASSUME NEW t \in Nat, NEW u \in Nat, <<u, t>> \notin R PROVE t <= u
    BY <2>1
  <2> HIDE DEF free, R
  <2> QED
    BY <1>1, <1>3, <2>1
<1> QED
  BY <1>4 DEF NewToken

(*--------------------------------- Navigation --------------------------------*)

\* Requests that no page is waiting for.
Unattended(cs) ==
  /\ IsABag(cs) /\ BagToSet(cs) \subseteq Call
  /\ \A c \in BagToSet(cs) : c.mounted = FALSE /\ c.kind \in Outlives

\* Timers without those of the processing page.
Cleared(ts) ==
  /\ ts \in [polling : {NoToken} \cup Tokens, stop : BOOLEAN,
             redirects : 0..MaxRedirects]
  /\ ts.polling = NoToken /\ ts.stop = FALSE

LEMMA PageFacts ==
  /\ Pages = {"login", "onboarding", "digilocker", "kyc", "setu", "callback",
              "processing", "failed", "dashboard"}
  /\ \A p \in Pages : InitialView(p) \in Views[p]
BY DEF Pages, Views, InitialView

LEMMA FreshLoginTyped ==
  FreshLogin \in [number : Numbers, otp : BOOLEAN, auto : BOOLEAN,
                  sentTo : SUBSET Numbers, edited : BOOLEAN]
BY DEF FreshLogin, Numbers

\* A mount that sends nothing and shows no spinner.
LEMMA QuietMount ==
  ASSUME NEW p \in Pages, NEW cs, Unattended(cs), page' = p,
         view' = InitialView(p), p # "kyc", busy' = {}, login' = FreshLogin,
         calls' = cs,
         timers' \in [polling : {NoToken} \cup Tokens, stop : BOOLEAN,
                      redirects : 0..MaxRedirects],
         IF p = "processing" THEN timers'.stop = TRUE
         ELSE timers'.polling = NoToken /\ timers'.stop = FALSE
  PROVE  TabInv'
<1>1. Screen'
  BY PageFacts, FreshLoginTyped DEF Screen, Unattended
<1>2. CallsBelong' /\ SentNumbers'
  BY DEF CallsBelong, SentNumbers, Unattended, Outlives
<1>3. TimersBelong' /\ TimeoutArmed'
  BY DEF TimersBelong, TimeoutArmed
<1>4. BusyHasRequest'
  BY DEF BusyHasRequest
<1>5. CodeStepNamesNumber'
  BY DEF CodeStepNamesNumber, InitialView
<1> QED
  BY <1>1, <1>2, <1>3, <1>4, <1>5 DEF TabInv

\* The KYC page and the dashboard send a request, and show that they wait.
LEMMA LoadingMount ==
  ASSUME NEW kind \in {"kycStatus", "getScore"}, NEW cs, Unattended(cs),
         NEW tok \in {NoToken} \cup Tokens,
         page' = PageOf[kind], view' = InitialView(PageOf[kind]),
         busy' \subseteq {"loading"}, login' = FreshLogin,
         calls' = With(cs, Request(kind, tok, "short")),
         Cleared(timers')
  PROVE  TabInv'
<1>1. PICK c : c = Request(kind, tok, "short")
  OBVIOUS
<1>2. c \in Call /\ c.kind = kind /\ c.mounted = TRUE
  BY <1>1 DEF Request, Call, Kinds, Numbers
<1>3. IsABag(calls') /\ BagToSet(calls') = BagToSet(cs) \cup {c}
  BY <1>1, WithBag DEF Unattended
<1>4. Screen'
  BY <1>2, <1>3, PageFacts, FreshLoginTyped
  DEF Screen, Unattended, PageOf, Cleared
<1>5. CallsBelong'
  BY <1>2, <1>3 DEF CallsBelong, Unattended
<1>6. SentNumbers'
  BY <1>2, <1>3 DEF SentNumbers, Unattended, Outlives
<1>7. TimersBelong' /\ TimeoutArmed'
  BY DEF TimersBelong, TimeoutArmed, Cleared, PageOf
<1>8. BusyHasRequest'
  BY <1>2, <1>3 DEF BusyHasRequest, Waiting, PageOf, InitialView
<1>9. CodeStepNamesNumber'
  BY DEF CodeStepNamesNumber, PageOf
<1> QED
  BY <1>4, <1>5, <1>6, <1>7, <1>8, <1>9 DEF TabInv

LEMMA MountInv ==
  ASSUME NEW p \in Pages, NEW tok \in {NoToken} \cup Tokens, NEW cs, NEW ts,
         Unattended(cs), Cleared(ts), Mount(p, tok, cs, ts)
  PROVE  TabInv'
<1>1. CASE p \in {"kyc", "processing"} /\ tok = NoToken
  <2>1. /\ page' = "login" /\ view' = InitialView("login") /\ busy' = {}
        /\ login' = FreshLogin /\ calls' = cs /\ timers' = ts
    BY <1>1 DEF Mount, InitialView
  <2> QED
    BY <2>1, PageFacts, QuietMount DEF Cleared
<1>2. CASE p = "kyc" /\ tok # NoToken
  <2>1. /\ page' = PageOf["kycStatus"] /\ view' = InitialView(PageOf["kycStatus"])
        /\ busy' = {} /\ login' = FreshLogin /\ timers' = ts
        /\ calls' = With(cs, Request("kycStatus", tok, "short"))
    BY <1>2 DEF Mount, PageOf
  <2> QED
    BY <2>1, LoadingMount
<1>3. CASE p = "dashboard" /\ tok # NoToken
  <2>1. /\ page' = PageOf["getScore"] /\ view' = InitialView(PageOf["getScore"])
        /\ busy' = {"loading"} /\ login' = FreshLogin /\ timers' = ts
        /\ calls' = With(cs, Request("getScore", tok, "short"))
    BY <1>3 DEF Mount, PageOf
  <2> QED
    BY <2>1, LoadingMount
<1>4. CASE p = "processing" /\ tok # NoToken
  <2>1. /\ page' = p /\ view' = InitialView(p) /\ busy' = {}
        /\ login' = FreshLogin /\ calls' = cs
        /\ timers' = [ts EXCEPT !.polling = tok, !.stop = TRUE]
    BY <1>4 DEF Mount
  <2>2. /\ timers' \in [polling : {NoToken} \cup Tokens, stop : BOOLEAN,
                        redirects : 0..MaxRedirects]
        /\ timers'.stop = TRUE
    BY <2>1 DEF Cleared
  <2> QED
    BY <1>4, <2>1, <2>2, QuietMount
<1>5. CASE \/ p = "dashboard" /\ tok = NoToken
           \/ p \notin {"kyc", "processing", "dashboard"}
  <2>1. /\ page' = p /\ view' = InitialView(p) /\ busy' = {}
        /\ login' = FreshLogin /\ calls' = cs /\ timers' = ts
    BY <1>5 DEF Mount
  <2> QED
    BY <1>5, <2>1, QuietMount DEF Cleared
<1> QED
  BY <1>1, <1>2, <1>3, <1>4, <1>5

\* A full page load.
LEMMA LoadInv ==
  ASSUME Store, NEW p \in Pages, Load(p)
  PROVE  TabInv'
<1>1. Unattended(EmptyBag)
  BY EmptyIsBag DEF Unattended
<1>2. Cleared(NoTimers)
  BY WebBounds DEF Cleared, NoTimers
<1> QED
  BY <1>1, <1>2, MountInv DEF Load, Store

\* What a push does to another page than the mounted one, for requests that
\* were in flight on it.
LEMMA PushInv ==
  ASSUME Screen, NEW p \in Pages, p # page, NEW tok \in {NoToken} \cup Tokens,
         NEW cs, IsABag(cs), BagToSet(cs) \subseteq BagToSet(calls),
         Push(p, tok, cs)
  PROVE  TabInv'
<1> DEFINE ts == [timers EXCEPT !.polling = NoToken, !.stop = FALSE]
<1>1. Unattended(Orphans(cs))
  BY OrphansBag DEF Unattended, Screen
<1>2. Cleared(ts)
  BY DEF Cleared, Screen
<1>3. Mount(p, tok, Orphans(cs), ts)
  BY DEF Push
<1> QED
  BY <1>1, <1>2, <1>3, MountInv

(*------------------------------ Requests in flight ---------------------------*)

\* The page sends one more request.
LEMMA SendFacts ==
  ASSUME Screen, CallsBelong, NEW kind \in Kinds, page = PageOf[kind],
         NEW tok \in {NoToken} \cup Tokens, NEW number \in Numbers,
         Send(kind, tok, number), page' = page
  PROVE  /\ IsABag(calls') /\ BagToSet(calls') \subseteq Call
         /\ CallsBelong'
         /\ \E c \in BagToSet(calls') : c.mounted /\ c.kind = kind
         /\ \A c \in BagToSet(calls) : c \in BagToSet(calls')
         /\ \A c \in BagToSet(calls') :
              c \in BagToSet(calls) \/ (c.kind = kind /\ c.number = number)
<1>1. PICK new : new = Request(kind, tok, number)
  OBVIOUS
<1>2. /\ new \in Call /\ new.kind = kind /\ new.mounted = TRUE
      /\ new.number = number
  BY <1>1 DEF Request, Call
<1>3. IsABag(calls') /\ BagToSet(calls') = BagToSet(calls) \cup {new}
  BY <1>1, WithBag DEF Send, Screen
<1>4. CallsBelong'
  BY <1>2, <1>3 DEF CallsBelong
<1> QED
  BY <1>2, <1>3, <1>4 DEF Screen

\* One that was in flight is answered.
LEMMA DoneFacts ==
  ASSUME Screen, CallsBelong, NEW c \in BagToSet(calls), calls' = Done(c),
         page' = page
  PROVE  /\ IsABag(calls') /\ BagToSet(calls') \subseteq Call
         /\ CallsBelong'
         /\ BagToSet(calls') \subseteq BagToSet(calls)
         /\ \A d \in BagToSet(calls) : d # c => d \in BagToSet(calls')
<1>1. /\ IsABag(calls') /\ BagToSet(calls') \subseteq BagToSet(calls)
      /\ \A d \in BagToSet(calls) : d # c => d \in BagToSet(calls')
  BY DoneBag DEF Screen
<1>2. CallsBelong'
  BY <1>1 DEF CallsBelong
<1> QED
  BY <1>1, <1>2 DEF Screen

\* An answer that no spinner waited for leaves the spinners their requests.
LEMMA StillWaiting ==
  ASSUME NEW c, NEW kinds, Waiting(kinds),
         c.mounted = FALSE \/ c.kind \notin kinds,
         \A d \in BagToSet(calls) : d # c => d \in BagToSet(calls')
  PROVE  Waiting(kinds)'
BY DEF Waiting

(*-------------------------------- The login page -----------------------------*)

LEMMA TypeNumberInv ==
  ASSUME IInv, NEW n \in Numbers, TypeNumber(n)
  PROVE  TabInv'
<1>1. /\ Screen /\ CallsBelong /\ TimersBelong
      /\ TimeoutArmed /\ BusyHasRequest /\ SentNumbers
      /\ page = "login" /\ view = "mobile"
      /\ page' = page /\ view' = view /\ busy' = busy /\ calls' = calls
      /\ timers' = timers
      /\ login' = [login EXCEPT !.number = n, !.edited = @ \/ Sending]
  BY DEF IInv, TabInv, TypeNumber
<1>2. Screen'
  <2>1. Sending \in BOOLEAN
    BY DEF Sending
  <2>2. (login.edited \/ Sending) \in BOOLEAN
    BY <2>1
  <2> HIDE DEF Sending
  <2> QED
    BY <1>1, <2>1, <2>2 DEF Screen
<1>3. Sending => login'.edited = TRUE
  BY <1>1 DEF Screen
<1>4. SentNumbers'
  BY <1>1, <1>3 DEF SentNumbers, Sending
<1>5. BusyHasRequest' /\ CallsBelong' /\ TimersBelong' /\ TimeoutArmed'
  BY <1>1 DEF BusyHasRequest, Waiting, CallsBelong, TimersBelong, TimeoutArmed
<1>6. CodeStepNamesNumber'
  BY <1>1 DEF CodeStepNamesNumber
<1> QED
  BY <1>2, <1>4, <1>5, <1>6 DEF TabInv

\* The code step is typed in, or left for the number.
LEMMA CodeStepInv ==
  ASSUME IInv, (\E full \in BOOLEAN : TypeCode(full)) \/ EditNumber
  PROVE  TabInv'
<1>1. /\ Screen /\ CallsBelong /\ TimersBelong
      /\ TimeoutArmed /\ BusyHasRequest /\ SentNumbers
      /\ CodeStepNamesNumber
      /\ page = "login" /\ view = "otp" /\ view' \in {"otp", "mobile"}
      /\ page' = page /\ busy' = busy /\ calls' = calls /\ timers' = timers
  BY DEF IInv, TabInv, TypeCode, EditNumber
<1>2. /\ login' \in [number : Numbers, otp : BOOLEAN, auto : BOOLEAN,
                     sentTo : SUBSET Numbers, edited : BOOLEAN]
      /\ login'.number = login.number /\ login'.sentTo = login.sentTo
      /\ login'.edited = login.edited
  BY <1>1 DEF Screen, TypeCode, EditNumber
<1>3. Screen'
  BY <1>1, <1>2 DEF Screen, Views
<1>4. BusyHasRequest' /\ CallsBelong' /\ TimersBelong' /\ TimeoutArmed'
  BY <1>1 DEF BusyHasRequest, Waiting, CallsBelong, TimersBelong, TimeoutArmed
<1>5. SentNumbers' /\ CodeStepNamesNumber'
  BY <1>1, <1>2 DEF SentNumbers, CodeStepNamesNumber
<1> QED
  BY <1>3, <1>4, <1>5 DEF TabInv

LEMMA SendOtpInv ==
  ASSUME IInv, SendOtp
  PROVE  TabInv'
<1>1. /\ Screen /\ CallsBelong /\ TimersBelong /\ TimeoutArmed /\ SentNumbers
      /\ page = "login" /\ view = "mobile"
      /\ page' = page /\ view' = view /\ busy' = {"loading"} /\ timers' = timers
      /\ login' = [login EXCEPT !.edited = @ /\ Sending]
  BY DEF IInv, TabInv, SendOtp
<1>2. /\ IsABag(calls') /\ BagToSet(calls') \subseteq Call
      /\ CallsBelong'
      /\ \E c \in BagToSet(calls') : c.mounted /\ c.kind = "sendOtp"
      /\ \A c \in BagToSet(calls') : c \in BagToSet(calls) \/
           (c.kind = "sendOtp" /\ c.number = login.number)
  <2>1. /\ "sendOtp" \in Kinds /\ PageOf["sendOtp"] = "login"
        /\ NoToken \in {NoToken} \cup Tokens /\ login.number \in Numbers
    BY <1>1 DEF Kinds, PageOf, Screen
  <2>2. PICK n \in Numbers : n = login.number
    BY <2>1
  <2>3. Send("sendOtp", NoToken, n)
    BY <2>2 DEF SendOtp
  <2> QED
    BY <1>1, <2>1, <2>2, <2>3, SendFacts
<1>3. Screen'
  <2>1. (login.edited /\ Sending) \in BOOLEAN
    OBVIOUS
  <2> QED
    BY <1>1, <1>2, <2>1 DEF Screen
<1>4. SentNumbers'
  <2>1. login'.number = login.number /\ (Sending => login'.edited = login.edited)
    BY <1>1 DEF Screen
  <2> QED
    BY <1>1, <1>2, <2>1 DEF SentNumbers, Sending
<1>5. BusyHasRequest'
  BY <1>1, <1>2 DEF BusyHasRequest, Waiting
<1>6. CodeStepNamesNumber' /\ TimersBelong' /\ TimeoutArmed'
  BY <1>1 DEF CodeStepNamesNumber, TimersBelong, TimeoutArmed
<1> QED
  BY <1>2, <1>3, <1>4, <1>5, <1>6 DEF TabInv

\* Both ways of handleVerifyOtp.
LEMMA VerifyInv ==
  ASSUME IInv, AutoVerify \/ PressContinue
  PROVE  TabInv'
<1>1. /\ Screen /\ CallsBelong /\ TimersBelong /\ TimeoutArmed /\ SentNumbers
      /\ CodeStepNamesNumber
      /\ page = "login" /\ page' = page /\ view' = view /\ busy' = {"loading"}
      /\ timers' = timers /\ Verify
  BY DEF IInv, TabInv, AutoVerify, PressContinue, Verify
<1>2. /\ login' \in [number : Numbers, otp : BOOLEAN, auto : BOOLEAN,
                     sentTo : SUBSET Numbers, edited : BOOLEAN]
      /\ login'.number = login.number /\ login'.sentTo = login.sentTo
      /\ login'.edited = login.edited
  BY <1>1 DEF Screen, AutoVerify, PressContinue
<1>3. /\ IsABag(calls') /\ BagToSet(calls') \subseteq Call
      /\ CallsBelong'
      /\ \E c \in BagToSet(calls') : c.mounted /\ c.kind = "verifyOtp"
      /\ \A c \in BagToSet(calls') : c \in BagToSet(calls) \/ c.kind = "verifyOtp"
  <2>1. PICK n \in Numbers : Send("verifyOtp", NoToken, n)
    <3>1. (IF login.number \in login.sentTo THEN login.number ELSE "short")
            \in Numbers
      BY <1>1 DEF Screen, Numbers
    <3> QED
      BY <1>1, <3>1 DEF Verify
  <2>2. "verifyOtp" \in Kinds /\ PageOf["verifyOtp"] = "login"
    BY DEF Kinds, PageOf
  <2> QED
    BY <1>1, <2>1, <2>2, SendFacts
<1>4. Screen'
  BY <1>1, <1>2, <1>3 DEF Screen
<1>5. SentNumbers'
  BY <1>1, <1>2, <1>3 DEF SentNumbers
<1>6. BusyHasRequest'
  BY <1>1, <1>3 DEF BusyHasRequest, Waiting
<1>7. CodeStepNamesNumber' /\ TimersBelong' /\ TimeoutArmed'
  BY <1>1, <1>2 DEF CodeStepNamesNumber, TimersBelong, TimeoutArmed
<1> QED
  BY <1>3, <1>4, <1>5, <1>6, <1>7 DEF TabInv

\* sendOtp's answer: the page is still mounted, so its number is the one shown
\* unless that was edited.
LEMMA OtpSentInv ==
  ASSUME IInv, NEW c \in BagToSet(calls), NEW ans, OtpSent(c, ans)
  PROVE  TabInv'
<1>1. /\ Screen /\ CallsBelong /\ TimersBelong /\ TimeoutArmed /\ SentNumbers
      /\ CodeStepNamesNumber
      /\ c.kind = "sendOtp" /\ c \in Call
      /\ calls' = Done(c) /\ page' = page /\ busy' = {} /\ timers' = timers
  BY DEF IInv, TabInv, OtpSent, Screen
<1>2. page = "login"
  BY <1>1 DEF CallsBelong, Outlives, PageOf
<1>3. /\ IsABag(calls') /\ BagToSet(calls') \subseteq Call
      /\ CallsBelong' /\ BagToSet(calls') \subseteq BagToSet(calls)
  BY <1>1, DoneFacts
<1>4. /\ login'.number = login.number /\ login'.edited = login.edited
      /\ login' \in [number : Numbers, otp : BOOLEAN, auto : BOOLEAN,
                     sentTo : SUBSET Numbers, edited : BOOLEAN]
      /\ view' \in Views[page]
      /\ \/ view' = "otp" /\ login'.sentTo = login.sentTo \cup {c.number}
         \/ view' = view /\ login' = login
  <2>1. CASE ans = "ok"
    <3>1. /\ view' = "otp"
          /\ login' = [login EXCEPT !.sentTo = @ \cup {c.number},
                         !.auto = @ \/ (view # "otp" /\ login.otp)]
      BY <2>1 DEF OtpSent
    <3>2. (login.auto \/ (view # "otp" /\ login.otp)) \in BOOLEAN
      OBVIOUS
    <3>3. c.number \in Numbers /\ "otp" \in Views[page]
      BY <1>1, <1>2 DEF Call, Views
    <3> QED
      BY <1>1, <3>1, <3>2, <3>3 DEF Screen
  <2>2. CASE ans # "ok"
    BY <1>1, <2>2 DEF Screen, OtpSent
  <2> QED
    BY <2>1, <2>2
<1>5. Screen'
  BY <1>1, <1>3, <1>4 DEF Screen
<1>6. SentNumbers'
  BY <1>1, <1>3, <1>4 DEF SentNumbers
<1>7. BusyHasRequest' /\ TimersBelong' /\ TimeoutArmed'
  BY <1>1, <1>2 DEF BusyHasRequest, TimersBelong, TimeoutArmed
<1>8. CodeStepNamesNumber'
  BY <1>1, <1>4 DEF SentNumbers, CodeStepNamesNumber
<1> QED
  BY <1>3, <1>5, <1>6, <1>7, <1>8 DEF TabInv

\* An answer whose page is gone touches the store at most.
LEMMA LateAnswerInv ==
  ASSUME IInv, NEW c \in BagToSet(calls), c.mounted = FALSE \/ c.kind = "kycPoll",
         calls' = Done(c), page' = page, view' = view, busy' = busy,
         login' = login, timers' \in [polling : {NoToken} \cup Tokens,
                                      stop : BOOLEAN, redirects : 0..MaxRedirects],
         timers'.polling = timers.polling, timers'.stop = timers.stop,
         timers'.redirects = timers.redirects \/ timers'.redirects > 0
  PROVE  TabInv'
<1>1. /\ Screen /\ CallsBelong /\ TimersBelong
      /\ TimeoutArmed /\ BusyHasRequest /\ SentNumbers
      /\ CodeStepNamesNumber
  BY DEF IInv, TabInv
<1>2. /\ IsABag(calls') /\ BagToSet(calls') \subseteq Call
      /\ CallsBelong'
      /\ BagToSet(calls') \subseteq BagToSet(calls)
      /\ \A d \in BagToSet(calls) : d # c => d \in BagToSet(calls')
  BY <1>1, DoneFacts
<1>3. Screen' /\ TimersBelong' /\ SentNumbers' /\ CodeStepNamesNumber'
  BY <1>1, <1>2 DEF Screen, TimersBelong, SentNumbers, CodeStepNamesNumber
<1>6. TimeoutArmed'
  BY <1>1 DEF Screen, TimeoutArmed
<1>4. ASSUME NEW kinds, "kycPoll" \notin kinds, Waiting(kinds)
      PROVE  Waiting(kinds)'
    BY <1>2, <1>4, StillWaiting
<1>5. BusyHasRequest'
  BY <1>1, <1>4 DEF BusyHasRequest
<1> QED
  BY <1>2, <1>3, <1>5, <1>6 DEF TabInv

LEMMA OtpVerifiedInv ==
  ASSUME IInv, NEW c \in BagToSet(calls), NEW ans, OtpVerified(c, ans)
  PROVE  TabInv'
<1>1. /\ Screen /\ CallsBelong /\ TimersBelong /\ TimeoutArmed /\ SentNumbers
      /\ CodeStepNamesNumber
      /\ c.kind = "verifyOtp" /\ c \in Call
      /\ calls' = Done(c) /\ page' = page /\ timers' = timers
  BY DEF IInv, TabInv, OtpVerified, Screen
<1>2. CASE c.mounted = FALSE
  BY <1>1, <1>2, LateAnswerInv DEF OtpVerified, Screen
<1>3. CASE c.mounted = TRUE
  <2>1. page = "login"
    BY <1>1, <1>3 DEF CallsBelong, PageOf
  <2>2. /\ IsABag(calls') /\ BagToSet(calls') \subseteq Call
        /\ CallsBelong' /\ BagToSet(calls') \subseteq BagToSet(calls)
    BY <1>1, DoneFacts
  <2>3. /\ busy' = {} /\ view' \in {"success", view}
        /\ login' = [login EXCEPT !.auto = @ /\ ans # "ok"]
    BY <1>3 DEF OtpVerified
  <2>4. /\ login' \in [number : Numbers, otp : BOOLEAN, auto : BOOLEAN,
                       sentTo : SUBSET Numbers, edited : BOOLEAN]
        /\ login'.number = login.number /\ login'.edited = login.edited
        /\ login'.sentTo = login.sentTo
    <3>1. (login.auto /\ ans # "ok") \in BOOLEAN
      OBVIOUS
    <3> QED
      BY <1>1, <2>3, <3>1 DEF Screen
  <2>5. Screen'
    BY <1>1, <2>1, <2>2, <2>3, <2>4 DEF Screen, Views
  <2>6. /\ SentNumbers' /\ CodeStepNamesNumber' /\ TimersBelong'
        /\ TimeoutArmed' /\ BusyHasRequest'
    BY <1>1, <2>1, <2>2, <2>3, <2>4
    DEF SentNumbers, CodeStepNamesNumber, TimersBelong, TimeoutArmed, BusyHasRequest
  <2> QED
    BY <2>2, <2>5, <2>6 DEF TabInv
<1> QED
  BY <1>1, <1>2, <1>3 DEF Call

(*----------------------------- The forms and the rest ------------------------*)

\* A form, the KYC page or the dashboard sends its request.
LEMMA SubmitInv ==
  ASSUME IInv, NEW kind \in Kinds \ {"sendOtp", "verifyOtp"},
         page = PageOf[kind], NEW tok \in {NoToken} \cup Tokens,
         Send(kind, tok, "short"), page' = page, login' = login,
         timers' = timers,
         \/ busy' = busy /\ view' = view /\ kind = "kycPoll"
         \/ busy' = {"loading"} /\ view' = view
              /\ kind \in {"updateProfile", "initiateKyc"}
         \/ busy' = {"calculating"} /\ view' = view /\ kind = "calculateScore"
         \/ busy' = busy /\ view' = "initiating" /\ kind = "kycInitiate"
  PROVE  TabInv'
<1>1. /\ Screen /\ CallsBelong /\ TimersBelong
      /\ TimeoutArmed /\ BusyHasRequest /\ SentNumbers
      /\ CodeStepNamesNumber
  BY DEF IInv, TabInv
<1>2. /\ IsABag(calls') /\ BagToSet(calls') \subseteq Call
      /\ CallsBelong'
      /\ \E c \in BagToSet(calls') : c.mounted /\ c.kind = kind
      /\ \A c \in BagToSet(calls) : c \in BagToSet(calls')
      /\ \A c \in BagToSet(calls') : c \in BagToSet(calls) \/ c.kind = kind
  BY <1>1, SendFacts DEF Numbers
<1>3. Screen'
  <2>1. view' \in Views[page]
    <3>1. kind = "kycInitiate" => "initiating" \in Views[page]
      BY DEF Views, PageOf
    <3> QED
      BY <1>1, <3>1 DEF Screen
  <2> QED
    BY <1>1, <1>2, <2>1 DEF Screen
<1>4. SentNumbers' /\ TimersBelong' /\ TimeoutArmed'
  <2>1. page = "processing" => view' = view
    BY DEF PageOf
  <2> QED
    BY <1>1, <1>2, <2>1 DEF SentNumbers, TimersBelong, TimeoutArmed
<1>5. CodeStepNamesNumber'
  BY <1>1 DEF CodeStepNamesNumber
<1>6. \A kinds : Waiting(kinds) \/ kind \in kinds => Waiting(kinds)'
  BY <1>2 DEF Waiting
<1>7. BusyHasRequest'
  BY <1>1, <1>6 DEF BusyHasRequest, PageOf, Kinds
<1> QED
  BY <1>2, <1>3, <1>4, <1>5, <1>7 DEF TabInv

LEMMA FormsInv ==
  ASSUME IInv, \/ SubmitProfile \/ SubmitAadhaar \/ CalculateScore \/ Poll
               \/ InitiateKyc /\ token # NoToken
  PROVE  TabInv'
<1>1. Store /\ timers.polling \in {NoToken} \cup Tokens
      /\ (timers.polling # NoToken => page = "processing")
  BY DEF IInv, TabInv, Screen, TimersBelong, TimeoutArmed
<1>2. CASE SubmitProfile
  <2>1. "updateProfile" \in Kinds /\ page = PageOf["updateProfile"]
    BY <1>2 DEF SubmitProfile, Kinds, PageOf
  <2> QED
    BY <1>1, <1>2, <2>1, SubmitInv DEF SubmitProfile, Store
<1>3. CASE SubmitAadhaar
  <2>1. "initiateKyc" \in Kinds /\ page = PageOf["initiateKyc"]
    BY <1>3 DEF SubmitAadhaar, Kinds, PageOf
  <2> QED
    BY <1>1, <1>3, <2>1, SubmitInv DEF SubmitAadhaar, Store
<1>4. CASE CalculateScore
  <2>1. "calculateScore" \in Kinds /\ page = PageOf["calculateScore"]
    BY <1>4 DEF CalculateScore, Kinds, PageOf
  <2> QED
    BY <1>1, <1>4, <2>1, SubmitInv DEF CalculateScore, Store
<1>5. CASE Poll
  <2>1. "kycPoll" \in Kinds /\ page = PageOf["kycPoll"]
    BY <1>1, <1>5 DEF Poll, Kinds, PageOf
  <2>2. PICK tok \in {NoToken} \cup Tokens : tok = timers.polling
    BY <1>1
  <2> QED
    BY <1>5, <2>1, <2>2, SubmitInv DEF Poll
<1>6. CASE InitiateKyc /\ token # NoToken
  <2>1. "kycInitiate" \in Kinds /\ page = PageOf["kycInitiate"]
    BY <1>6 DEF InitiateKyc, Kinds, PageOf
  <2> QED
    BY <1>1, <1>6, <2>1, SubmitInv DEF InitiateKyc, Store
<1> QED
  BY <1>2, <1>3, <1>4, <1>5, <1>6

\* An answer that ends the spinner of its own page, and only that one.
LEMMA EndedInv ==
  ASSUME IInv, NEW c \in BagToSet(calls), calls' = Done(c), page' = page,
         c.kind \notin {"sendOtp", "verifyOtp", "kycPoll"}, c.mounted = TRUE,
         login' = login, timers' = timers,
         \/ busy' = {} /\ view' = view
              /\ c.kind \in {"updateProfile", "initiateKyc"}
         \/ busy' = busy \ {"loading"} /\ view' = view /\ c.kind = "getScore"
         \/ busy' = busy \ {"calculating"} /\ view' = view
              /\ c.kind = "calculateScore"
         \/ busy' = busy /\ c.kind \in {"kycStatus", "kycInitiate"}
              /\ view' \in Views["kyc"] \ {"loading", "initiating"}
  PROVE  TabInv'
<1>1. /\ Screen /\ CallsBelong /\ TimersBelong
      /\ TimeoutArmed /\ BusyHasRequest /\ SentNumbers
      /\ CodeStepNamesNumber /\ c \in Call
  BY DEF IInv, TabInv, Screen
<1>2. /\ IsABag(calls') /\ BagToSet(calls') \subseteq Call
      /\ CallsBelong'
      /\ BagToSet(calls') \subseteq BagToSet(calls)
      /\ \A d \in BagToSet(calls) : d # c => d \in BagToSet(calls')
  BY <1>1, DoneFacts
<1>3. page = PageOf[c.kind]
  BY <1>1 DEF CallsBelong
<1>4. view' \in Views[page] /\ busy' \subseteq busy
  BY <1>1, <1>3 DEF Screen, PageOf
<1>5. Screen' /\ TimersBelong' /\ TimeoutArmed' /\ SentNumbers'
  <2>1. page = "processing" => view' = view
    BY <1>3 DEF PageOf
  <2> QED
    BY <1>1, <1>2, <1>4, <2>1
    DEF Screen, TimersBelong, TimeoutArmed, SentNumbers
<1>6. CodeStepNamesNumber'
  BY <1>1, <1>3 DEF CodeStepNamesNumber, PageOf, Call, Kinds
<1>7. ASSUME NEW kinds, c.kind \notin kinds, Waiting(kinds)
      PROVE  Waiting(kinds)'
  BY <1>2, <1>7, StillWaiting
<1>8. BusyHasRequest'
  <2>1. CASE c.kind \in {"updateProfile", "initiateKyc"}
    BY <1>3, <2>1 DEF BusyHasRequest, PageOf
  <2>2. CASE c.kind = "getScore"
    BY <1>1, <1>3, <1>7, <2>2 DEF BusyHasRequest, PageOf
  <2>3. CASE c.kind = "calculateScore"
    BY <1>1, <1>3, <1>7, <2>3 DEF BusyHasRequest, PageOf
  <2>4. CASE c.kind \in {"kycStatus", "kycInitiate"}
    BY <1>1, <1>3, <1>7, <2>4 DEF BusyHasRequest, PageOf
  <2> QED
    BY <2>1, <2>2, <2>3, <2>4
<1> QED
  BY <1>2, <1>5, <1>6, <1>8 DEF TabInv

\* A push to the mounted page leaves everything as it is.
LEMMA PushFromAnswer ==
  ASSUME IInv, NEW c \in BagToSet(calls), NEW p \in Pages,
         NEW tok \in {NoToken} \cup Tokens, Push(p, tok, Done(c)),
         p # PageOf[c.kind]
  PROVE  TabInv'
<1>1. Screen /\ CallsBelong /\ c \in Call
  BY DEF IInv, TabInv, Screen
<1>2. CASE p = page
  <2>1. c.mounted = FALSE
    BY <1>1, <1>2 DEF CallsBelong, Call
  <2>2. /\ calls' = Done(c) /\ page' = page /\ view' = view /\ busy' = busy
        /\ login' = login /\ timers' = timers
    BY <1>2 DEF Push
  <2> QED
    BY <1>1, <2>1, <2>2, LateAnswerInv DEF Screen
<1>3. CASE p # page
  <2>1. PICK cs : cs = Done(c)
    OBVIOUS
  <2>2. IsABag(cs) /\ BagToSet(cs) \subseteq BagToSet(calls)
    BY <1>1, <2>1, DoneBag DEF Screen
  <2>3. Push(p, tok, cs)
    BY <2>1
  <2> QED
    BY <1>1, <1>3, <2>2, <2>3, PushInv
<1> QED
  BY <1>2, <1>3

LEMMA FormAnswersInv ==
  ASSUME IInv, NEW c \in BagToSet(calls), NEW ans,
         \/ ProfileSaved(c, ans) \/ AadhaarLinked(c, ans)
         \/ ScoreFetched(c, ans) \/ ScoreCalculated(c, ans)
  PROVE  TabInv'
<1>1. Screen /\ CallsBelong /\ Store /\ c \in Call
  BY DEF IInv, TabInv, Screen
<1>2. CASE ProfileSaved(c, ans) /\ ans = "ok"
  <2>1. "digilocker" \in Pages /\ "digilocker" # PageOf[c.kind]
    BY <1>2, PageFacts DEF ProfileSaved, PageOf
  <2> QED
    BY <1>1, <1>2, <2>1, PushFromAnswer DEF ProfileSaved, Store
<1>3. CASE ProfileSaved(c, ans) /\ ans # "ok"
  <2>1. CASE c.mounted = TRUE
    BY <1>3, <2>1, EndedInv DEF ProfileSaved
  <2>2. CASE c.mounted = FALSE
    BY <1>1, <1>3, <2>2, LateAnswerInv DEF ProfileSaved, Screen
  <2> QED
    BY <1>1, <2>1, <2>2 DEF Call
<1>4. CASE AadhaarLinked(c, ans)
  <2>1. c.kind = "initiateKyc" /\ c.mounted = TRUE
    BY <1>1, <1>4 DEF AadhaarLinked, CallsBelong, Call, Outlives
  <2>2. CASE ans = "ok"
    <3>1. "dashboard" \in Pages /\ "dashboard" # PageOf[c.kind]
      BY <2>1, PageFacts DEF PageOf
    <3> QED
      BY <1>1, <1>4, <2>2, <3>1, PushFromAnswer DEF AadhaarLinked, Store
  <2>3. CASE ans # "ok"
    BY <1>4, <2>1, <2>3, EndedInv DEF AadhaarLinked
  <2> QED
    BY <2>2, <2>3
<1>5. CASE ScoreFetched(c, ans) \/ ScoreCalculated(c, ans)
  <2>1. c.mounted = TRUE
    BY <1>1, <1>5 DEF ScoreFetched, ScoreCalculated, CallsBelong, Call, Outlives
  <2> QED
    BY <1>5, <2>1, EndedInv DEF ScoreFetched, ScoreCalculated
<1> QED
  BY <1>2, <1>3, <1>4, <1>5

(*-------------------------------- Identity checks ----------------------------*)

LEMMA StatusKnownInv ==
  ASSUME IInv, NEW c \in BagToSet(calls), NEW ans, StatusKnown(c, ans)
  PROVE  TabInv'
<1>1. /\ Screen /\ CallsBelong /\ Store /\ c \in Call
      /\ c.kind = "kycStatus" /\ PageOf[c.kind] = "kyc"
  BY DEF IInv, TabInv, Screen, StatusKnown, PageOf
<1>2. CASE ans = "denied"
  <2>1. "login" \in Pages /\ NoToken \in {NoToken} \cup Tokens
    BY PageFacts
  <2>2. Push("login", NoToken, Done(c))
    BY <1>2 DEF StatusKnown
  <2> QED
    BY <1>1, <2>1, <2>2, PushFromAnswer
<1>3. CASE ans # "denied" /\ c.mounted = TRUE
  <2>1. view' \in Views["kyc"] \ {"loading", "initiating"}
    <3>1. ShownFor(ans) \subseteq {"ready", "crashed", "already_verified"}
      BY DEF ShownFor
    <3>2. view' \in ShownFor(ans)
      BY <1>3 DEF StatusKnown
    <3> QED
      BY <3>1, <3>2 DEF Views
  <2> QED
    BY <1>1, <1>3, <2>1, EndedInv DEF StatusKnown
<1>4. CASE ans # "denied" /\ c.mounted = FALSE
  BY <1>1, <1>4, LateAnswerInv DEF StatusKnown, Screen
<1> QED
  BY <1>1, <1>2, <1>3, <1>4 DEF Call

LEMMA KycInitiatedInv ==
  ASSUME IInv, NEW c \in BagToSet(calls), NEW ans, KycInitiated(c, ans)
  PROVE  TabInv'
<1>1. Screen /\ Store /\ c \in Call /\ c.kind = "kycInitiate"
  BY DEF IInv, TabInv, Screen, KycInitiated
<1>2. CASE ans = "ok"
  BY <1>1, <1>2, LoadInv, PageFacts DEF KycInitiated
<1>3. CASE ans # "ok" /\ c.mounted = TRUE
  <2>1. view' = "error" /\ "error" \in Views["kyc"] \ {"loading", "initiating"}
    BY <1>3 DEF KycInitiated, Views
  <2> QED
    BY <1>1, <1>3, <2>1, EndedInv DEF KycInitiated
<1>4. CASE ans # "ok" /\ c.mounted = FALSE
  BY <1>1, <1>4, LateAnswerInv DEF KycInitiated, Screen
<1> QED
  BY <1>1, <1>2, <1>3, <1>4 DEF Call

LEMMA PolledInv ==
  ASSUME IInv, NEW c \in BagToSet(calls), NEW ans, Polled(c, ans)
  PROVE  TabInv'
<1>1. /\ Screen /\ CallsBelong /\ TimersBelong
      /\ TimeoutArmed /\ BusyHasRequest /\ SentNumbers
      /\ CodeStepNamesNumber /\ Store /\ c \in Call
      /\ c.kind = "kycPoll" /\ PageOf[c.kind] = "processing"
  BY DEF IInv, TabInv, Screen, Polled, PageOf
<1>2. CASE ans = "denied"
  <2>1. Push("login", token, Done(c)) /\ "login" \in Pages
    BY <1>2, PageFacts DEF Polled, VerifiedStatus
  <2> QED
    BY <1>1, <2>1, PushFromAnswer DEF Store
<1>3. CASE ans \in VerifiedStatus
  <2>1. /\ ans # "denied" /\ timers.redirects < MaxRedirects
        /\ calls' = Done(c) /\ page' = page /\ busy' = busy /\ login' = login
        /\ view' = IF c.mounted THEN "verified" ELSE view
        /\ timers' = [timers EXCEPT !.redirects = @ + 1,
                        !.polling = IF c.mounted THEN NoToken ELSE @]
    BY <1>3 DEF Polled, VerifiedStatus
  <2>2. timers' \in [polling : {NoToken} \cup Tokens, stop : BOOLEAN,
                     redirects : 0..MaxRedirects]
    <3>1. timers.redirects + 1 \in 0..MaxRedirects
      BY <1>1, <2>1, WebBounds DEF Screen
    <3> QED
      BY <1>1, <2>1, <3>1 DEF Screen
  <2>3. CASE c.mounted = FALSE
    <3>1. /\ timers'.polling = timers.polling /\ timers'.stop = timers.stop
          /\ timers'.redirects > 0
      BY <1>1, <2>1, <2>3, WebBounds DEF Screen
    <3> QED
      BY <2>1, <2>2, <2>3, <3>1, LateAnswerInv
  <2>4. CASE c.mounted = TRUE
    <3>1. page = "processing"
      BY <1>1, <2>4 DEF CallsBelong
    <3>2. /\ IsABag(calls') /\ BagToSet(calls') \subseteq Call
          /\ CallsBelong' /\ BagToSet(calls') \subseteq BagToSet(calls)
          /\ \A d \in BagToSet(calls) : d # c => d \in BagToSet(calls')
      BY <1>1, <2>1, DoneFacts
    <3>3. Screen'
      BY <1>1, <2>1, <2>2, <2>4, <3>1, <3>2 DEF Screen, Views
    <3>4. Waiting({"calculateScore"}) => Waiting({"calculateScore"})'
      BY <1>1, <3>2, StillWaiting
    <3>5. BusyHasRequest'
      BY <1>1, <2>1, <3>1, <3>4 DEF BusyHasRequest
    <3>6. TimersBelong' /\ SentNumbers' /\ CodeStepNamesNumber'
      BY <1>1, <2>1, <3>1, <3>2
      DEF TimersBelong, SentNumbers, CodeStepNamesNumber
    <3>7. TimeoutArmed'
      <4>1. timers'.redirects > 0
        BY <1>1, <2>1, WebBounds DEF Screen
      <4> QED
        BY <4>1 DEF TimeoutArmed
    <3> QED
      BY <3>2, <3>3, <3>5, <3>6, <3>7 DEF TabInv
  <2> QED
    BY <1>1, <2>3, <2>4 DEF Call
<1>4. CASE ans # "denied" /\ ans \notin VerifiedStatus
  BY <1>1, <1>4, LateAnswerInv DEF Polled, Screen
<1> QED
  BY <1>2, <1>3, <1>4 DEF VerifiedStatus

\* Links and buttons that leave the page.
LEMMA LeaveInv ==
  ASSUME IInv,
         \/ Explore \/ GoToDashboard \/ SignOut \/ LeaveFailed \/ CheckStatus
         \/ LeaveDashboard \/ (InitiateKyc /\ token = NoToken)
         \/ ForwardCallback /\ \E p \in {"failed", "kyc"} : Push(p, token, calls)
  PROVE  TabInv'
<1>1. Screen /\ Store
  BY DEF IInv, TabInv
<1>2. PICK cs : cs = calls
  OBVIOUS
<1>3. PICK p \in Pages, tok \in {NoToken} \cup Tokens :
        p # page /\ Push(p, tok, cs)
  BY <1>1, <1>2, PageFacts
  DEF Store, Explore, GoToDashboard, SignOut, LeaveFailed, CheckStatus,
      LeaveDashboard, InitiateKyc, ForwardCallback
<1> QED
  BY <1>1, <1>2, <1>3, PushInv DEF Screen

\* Steps that load a page anew.
LEMMA LoadsInv ==
  ASSUME IInv,
         \/ ReturnFromSetu \/ (ForwardCallback /\ BackendCallback)
         \/ \E p \in Pages \ {"setu", "callback", "failed"} : Visit(p)
  PROVE  TabInv'
<1>1. Store
  BY DEF IInv
<1>2. PICK p \in Pages : Load(p)
  BY PageFacts DEF ReturnFromSetu, BackendCallback, Visit
<1> QED
  BY <1>1, <1>2, LoadInv

LEMMA TryAgainInv ==
  ASSUME IInv, TryAgain
  PROVE  TabInv'
<1>1. /\ Screen /\ CallsBelong /\ TimersBelong
      /\ TimeoutArmed /\ BusyHasRequest /\ SentNumbers
      /\ page = "kyc" /\ view' = "ready" /\ page' = page /\ busy' = busy
      /\ login' = login /\ calls' = calls /\ timers' = timers
  BY DEF IInv, TabInv, TryAgain
<1>2. Screen'
  BY <1>1 DEF Screen, Views
<1>3. BusyHasRequest'
  BY <1>1 DEF BusyHasRequest, Waiting
<1>4. /\ CallsBelong' /\ TimersBelong'
      /\ TimeoutArmed' /\ SentNumbers' /\ CodeStepNamesNumber'
  BY <1>1 DEF CallsBelong, TimersBelong, TimeoutArmed,
      SentNumbers, CodeStepNamesNumber
<1> QED
  BY <1>2, <1>3, <1>4 DEF TabInv

\* The redirect's timer: from any page to /kyc.
LEMMA RedirectInv ==
  ASSUME IInv, Redirect
  PROVE  TabInv'
<1> DEFINE left == [timers EXCEPT !.redirects = @ - 1]
<1>1. /\ Screen /\ CallsBelong /\ TimersBelong
      /\ TimeoutArmed /\ BusyHasRequest /\ SentNumbers
      /\ CodeStepNamesNumber /\ Store
      /\ timers.redirects - 1 \in 0..MaxRedirects
  BY WebBounds DEF IInv, TabInv, Screen, Redirect
<1>2. left \in [polling : {NoToken} \cup Tokens, stop : BOOLEAN,
                redirects : 0..MaxRedirects]
  BY <1>1 DEF Screen
<1>3. CASE page = "kyc"
  <2>1. /\ page' = page /\ view' = view /\ busy' = busy /\ login' = login
        /\ calls' = calls /\ timers' = left
    BY <1>3 DEF Redirect
  <2>2. timers'.stop = timers.stop /\ timers'.polling = timers.polling
    BY <1>1, <2>1 DEF Screen
  <2>3. Screen'
    BY <1>1, <1>2, <2>1 DEF Screen
  <2>4. TimersBelong' /\ TimeoutArmed'
    BY <1>1, <1>3, <2>1, <2>2 DEF TimersBelong, TimeoutArmed
  <2>5. CallsBelong' /\ BusyHasRequest' /\ SentNumbers' /\ CodeStepNamesNumber'
    BY <1>1, <2>1
    DEF CallsBelong, BusyHasRequest, Waiting, SentNumbers, CodeStepNamesNumber
  <2> QED
    BY <2>3, <2>4, <2>5 DEF TabInv
<1>4. CASE page # "kyc"
  <2>1. PICK cs : cs = Orphans(calls)
    OBVIOUS
  <2>2. PICK ts : ts = [left EXCEPT !.polling = NoToken, !.stop = FALSE]
    OBVIOUS
  <2>3. Unattended(cs)
    BY <1>1, <2>1, OrphansBag DEF Unattended, Screen
  <2>4. Cleared(ts)
    BY <1>2, <2>2 DEF Cleared
  <2>5. Mount("kyc", token, cs, ts)
    BY <1>4, <2>1, <2>2 DEF Redirect
  <2> QED
    BY <1>1, <2>3, <2>4, <2>5, MountInv, PageFacts DEF Store
<1> QED
  BY <1>3, <1>4

LEMMA StopPollingInv ==
  ASSUME IInv, StopPolling
  PROVE  TabInv'
<1>1. /\ Screen /\ CallsBelong /\ BusyHasRequest /\ SentNumbers
      /\ timers.stop = TRUE /\ page = "processing"
  BY DEF IInv, TabInv, Screen, StopPolling, TimersBelong, TimeoutArmed
<1>2. /\ page' = page /\ view' = "failed" /\ busy' = busy /\ login' = login
      /\ calls' = calls
      /\ timers' = [timers EXCEPT !.stop = FALSE, !.polling = NoToken]
  BY DEF StopPolling
<1>3. Screen'
  BY <1>1, <1>2 DEF Screen, Views
<1>4. TimersBelong' /\ TimeoutArmed' /\ CodeStepNamesNumber'
  BY <1>1, <1>2 DEF TimersBelong, TimeoutArmed, CodeStepNamesNumber
<1>5. CallsBelong' /\ BusyHasRequest' /\ SentNumbers'
  BY <1>1, <1>2 DEF CallsBelong, BusyHasRequest, Waiting, SentNumbers
<1> QED
  BY <1>3, <1>4, <1>5 DEF TabInv

\* The backend's own steps do not touch the tab.
LEMMA TabUnchanged ==
  ASSUME IInv, UNCHANGED <<page, view, busy, login, calls, timers>>
  PROVE  TabInv'
BY DEF IInv, TabInv, Screen, CallsBelong, TimersBelong, TimeoutArmed,
    BusyHasRequest, Waiting,
       SentNumbers, CodeStepNamesNumber

(*-------------------- No more in flight than the bound allows ----------------*)

LEMMA MountFew ==
  ASSUME NEW p, NEW tok, NEW cs, NEW ts, IsABag(cs), Few(cs),
         Mount(p, tok, cs, ts)
  PROVE  CallsFew'
<1>1. calls' = cs \/ (Room(cs) /\ \E call : calls' = With(cs, call))
  BY DEF Mount
<1>2. PICK next : next = calls' /\ (next = cs \/ (Room(cs) /\
                     \E call : next = With(cs, call)))
  BY <1>1
<1>3. Few(next)
  BY <1>2, WithFew
<1> QED
  BY <1>2, <1>3 DEF CallsFew

LEMMA PushFew ==
  ASSUME NEW p, NEW tok, NEW cs, IsABag(cs), BagToSet(cs) \subseteq Call, Few(cs),
         Push(p, tok, cs)
  PROVE  CallsFew'
<1>1. CASE p = page
  BY <1>1 DEF Push, CallsFew
<1>2. CASE p # page
  <2>1. PICK left : left = Orphans(cs)
    OBVIOUS
  <2>2. PICK ts : Mount(p, tok, left, ts)
    BY <1>2, <2>1 DEF Push
  <2> QED
    BY <2>1, <2>2, OrphansBag, OrphansFew, MountFew
<1> QED
  BY <1>1, <1>2

LEMMA SendFew ==
  ASSUME Screen, CallsFew, NEW kind, NEW tok, NEW number, Send(kind, tok, number)
  PROVE  CallsFew'
<1>1. PICK cs : cs = calls
  OBVIOUS
<1>2. PICK next : next = calls' /\ \E call : next = With(cs, call)
  BY <1>1 DEF Send
<1>3. Few(next)
  BY <1>1, <1>2, WithFew DEF Send, Screen, CallsFew
<1> QED
  BY <1>2, <1>3 DEF CallsFew

\* A full page load starts with nothing in flight.
LEMMA LoadFew ==
  ASSUME NEW p, Load(p)
  PROVE  CallsFew'
BY EmptyIsBag, EmptyIsFew, MountFew DEF Load

\* The handler of an answer runs without the request it answers.
LEMMA AnswerFew ==
  ASSUME Screen, CallsFew, NEW c \in BagToSet(calls),
         \/ calls' = Done(c)
         \/ \E p, tok : Push(p, tok, Done(c))
         \/ \E p : Load(p)
  PROVE  CallsFew'
<1>1. PICK cs : cs = Done(c)
  OBVIOUS
<1>2. IsABag(cs) /\ BagToSet(cs) \subseteq Call /\ Few(cs)
  BY <1>1, DoneBag, DoneFew DEF Screen, CallsFew
<1>3. CASE calls' = Done(c)
  BY <1>1, <1>2, <1>3 DEF CallsFew
<1>4. CASE \E p, tok : Push(p, tok, Done(c))
  BY <1>1, <1>2, <1>4, PushFew
<1> QED
  BY <1>3, <1>4, LoadFew

LEMMA FewKept ==
  ASSUME IInv, [Next]_vars
  PROVE  CallsFew'
<1>1. Screen /\ CallsFew
  BY DEF IInv, TabInv
<1>2. CASE UNCHANGED calls
  BY <1>1, <1>2 DEF CallsFew
<1>3. CASE \E kind, tok, number : Send(kind, tok, number)
  BY <1>1, <1>3, SendFew
<1>4. CASE \E p, tok : Push(p, tok, calls)
  <2>1. PICK cs : cs = calls
    OBVIOUS
  <2>2. IsABag(cs) /\ BagToSet(cs) \subseteq Call /\ Few(cs)
    BY <1>1, <2>1 DEF Screen, CallsFew
  <2> QED
    BY <1>4, <2>1, <2>2, PushFew
<1>5. CASE \E p : Load(p)
  BY <1>5, LoadFew
<1>6. ASSUME NEW c \in BagToSet(calls), Answer(c)
      PROVE  CallsFew'
  <2>1. \/ calls' = Done(c)
        \/ \E p, tok : Push(p, tok, Done(c))
        \/ \E p : Load(p)
    BY <1>6 DEF Answer, LoginAnswer, OtpSent, OtpVerified, ProfileSaved,
                AadhaarLinked, KycAnswer, StatusKnown, KycInitiated, Polled,
                ScoreFetched, ScoreCalculated
  <2> QED
    BY <1>1, <2>1, AnswerFew
<1>7. CASE LoginStep
  <2>1. \/ UNCHANGED calls \/ \E p, tok : Push(p, tok, calls)
        \/ \E kind, tok, number : Send(kind, tok, number)
    BY <1>7 DEF LoginStep, TypeNumber, TypeCode, SendOtp, EditNumber, AutoVerify,
                PressContinue, Verify, Explore, SubmitProfile, SubmitAadhaar
  <2> QED
    BY <1>2, <1>3, <1>4, <2>1
<1>8. CASE KycStep
  <2>1. \/ UNCHANGED calls \/ \E p, tok : Push(p, tok, calls)
        \/ \E kind, tok, number : Send(kind, tok, number)
        \/ \E p : Load(p)
    BY <1>8 DEF KycStep, InitiateKyc, TryAgain, GoToDashboard, SignOut,
                LeaveFailed, Poll, CheckStatus, ReturnFromSetu, ForwardCallback,
                BackendCallback
  <2> QED
    BY <1>2, <1>3, <1>4, <1>5, <2>1
<1>9. CASE Redirect
  <2>1. CASE page = "kyc"
    BY <1>2, <1>9, <2>1 DEF Redirect
  <2>2. CASE page # "kyc"
    <3>1. PICK left : left = Orphans(calls)
      OBVIOUS
    <3>2. PICK ts : Mount("kyc", token, left, ts)
      BY <1>9, <2>2, <3>1 DEF Redirect
    <3>3. IsABag(left) /\ Few(left)
      BY <1>1, <3>1, OrphansBag, OrphansFew DEF Screen, CallsFew
    <3> QED
      BY <3>2, <3>3, MountFew
  <2> QED
    BY <2>1, <2>2
<1>10. CASE CalculateScore \/ LeaveDashboard \/ StopPolling
  BY <1>2, <1>3, <1>4, <1>10 DEF CalculateScore, LeaveDashboard, StopPolling
<1>11. CASE \E p \in Pages \ {"setu", "callback", "failed"} : Visit(p)
  BY <1>5, <1>11 DEF Visit
<1>12. CASE \/ UNCHANGED vars \/ EndJob \/ PassLiveness
            \/ \E t \in Tokens : ExpireToken(t)
  BY <1>2, <1>12 DEF vars, EndJob, PassLiveness, ExpireToken
<1> QED
  BY <1>6, <1>7, <1>8, <1>9, <1>10, <1>11, <1>12 DEF Next

(*---------------------------------- Theorems ---------------------------------*)

LEMMA StoreInv ==
  ASSUME IInv, [Next]_vars
  PROVE  Store'
<1>1. Store
  BY DEF IInv
<1>2. CASE UNCHANGED <<token, live, kyc, job>>
  BY <1>1, <1>2 DEF Store
<1>3. ASSUME NEW c \in BagToSet(calls), NEW ans, OtpVerified(c, ans)
      PROVE  Store'
  <2>1. UNCHANGED <<token, live>> \/
          (NewToken \in Tokens /\ token' = NewToken /\ live' = live \cup {NewToken})
    BY <1>3, NewTokenTyped, WebBounds DEF OtpVerified, Stored
  <2> QED
    BY <1>1, <1>3, <2>1 DEF Store, OtpVerified
<1>4. ASSUME NEW c \in BagToSet(calls), NEW ans, StatusKnown(c, ans)
      PROVE  Store'
  BY <1>1, <1>4 DEF Store, StatusKnown, backend
<1>5. ASSUME NEW c \in BagToSet(calls), NEW ans,
             \/ OtpSent(c, ans) \/ ProfileSaved(c, ans) \/ AadhaarLinked(c, ans)
             \/ KycInitiated(c, ans) \/ Polled(c, ans)
             \/ ScoreFetched(c, ans) \/ ScoreCalculated(c, ans)
      PROVE  Store'
  BY <1>2, <1>5 DEF OtpSent, ProfileSaved, AadhaarLinked, KycInitiated, Polled,
                    ScoreFetched, ScoreCalculated, Rest, backend
<1>6. CASE LoginStep
  BY <1>2, <1>6 DEF LoginStep, TypeNumber, TypeCode, SendOtp, EditNumber,
                    AutoVerify, PressContinue, Verify, Explore, SubmitProfile,
                    SubmitAadhaar, Rest, backend
<1>7. CASE KycStep
  <2>1. CASE SignOut
    BY <1>1, <2>1 DEF Store, SignOut, backend
  <2>2. CASE ReturnFromSetu \/ ForwardCallback
    BY <1>1, <2>2 DEF Store, ReturnFromSetu, ForwardCallback, BackendCallback
  <2>3. CASE \/ InitiateKyc \/ TryAgain \/ GoToDashboard \/ LeaveFailed \/ Poll
             \/ CheckStatus
    BY <1>2, <2>3 DEF InitiateKyc, TryAgain, GoToDashboard, LeaveFailed, Poll,
                      CheckStatus, Rest, backend
  <2> QED
    BY <1>7, <2>1, <2>2, <2>3 DEF KycStep
<1>8. CASE \/ CalculateScore \/ LeaveDashboard \/ Redirect \/ StopPolling
           \/ \E p \in Pages \ {"setu", "callback", "failed"} : Visit(p)
  BY <1>2, <1>8 DEF CalculateScore, LeaveDashboard, Redirect, StopPolling, Visit,
                    Rest, backend
<1>9. CASE EndJob \/ PassLiveness \/ \E t \in Tokens : ExpireToken(t)
  BY <1>1, <1>9 DEF Store, EndJob, PassLiveness, ExpireToken, KycStatus
<1> QED
  BY <1>2, <1>3, <1>4, <1>5, <1>6, <1>7, <1>8, <1>9
  DEF Next, vars, Answer, LoginAnswer, KycAnswer

LEMMA InitInv == Init => IInv
<1> SUFFICES ASSUME Init PROVE IInv
  OBVIOUS
<1>1. Store
  BY DEF Init, Store, KycStatus
<1>2. Screen
  <2>1. timers \in [polling : {NoToken} \cup Tokens, stop : BOOLEAN,
                    redirects : 0..MaxRedirects]
    BY WebBounds DEF Init, NoTimers
  <2>2. page \in Pages /\ view \in Views[page] /\ busy = {}
    BY PageFacts DEF Init, Views
  <2> QED
    BY <2>1, <2>2, EmptyIsBag, FreshLoginTyped DEF Init, Screen
<1>3. CallsBelong /\ SentNumbers
  BY EmptyIsBag DEF Init, CallsBelong, SentNumbers
<1>4. TimersBelong /\ TimeoutArmed /\ BusyHasRequest /\ CodeStepNamesNumber
  BY DEF Init, TimersBelong, TimeoutArmed,
      NoTimers, BusyHasRequest, CodeStepNamesNumber
<1>5. CallsFew
  BY EmptyIsFew DEF Init, CallsFew
<1> QED
  BY <1>1, <1>2, <1>3, <1>4, <1>5 DEF IInv, TabInv

LEMMA TabKept ==
  ASSUME IInv, [Next]_vars
  PROVE  TabInv'
<1>1. CASE LoginStep
  <2>1. ASSUME NEW n \in Numbers, TypeNumber(n) PROVE TabInv'
    BY <2>1, TypeNumberInv
  <2>2. CASE (\E full \in BOOLEAN : TypeCode(full)) \/ EditNumber
    BY <2>2, CodeStepInv
  <2>3. CASE SendOtp
    BY <2>3, SendOtpInv
  <2>4. CASE AutoVerify \/ PressContinue
    BY <2>4, VerifyInv
  <2>5. CASE Explore
    BY <2>5, LeaveInv
  <2>6. CASE SubmitProfile \/ SubmitAadhaar
    BY <2>6, FormsInv
  <2> QED
    BY <1>1, <2>1, <2>2, <2>3, <2>4, <2>5, <2>6 DEF LoginStep
<1>2. CASE KycStep
  <2>1. CASE InitiateKyc \/ Poll
    BY <2>1, FormsInv, LeaveInv
  <2>2. CASE GoToDashboard \/ SignOut \/ LeaveFailed \/ CheckStatus
    BY <2>2, LeaveInv
  <2>3. CASE TryAgain
    BY <2>3, TryAgainInv
  <2>4. CASE ReturnFromSetu
    BY <2>4, LoadsInv
  <2>5. CASE ForwardCallback
    <3>1. BackendCallback \/ \E p \in {"failed", "kyc"} : Push(p, token, calls)
      BY <2>5 DEF ForwardCallback
    <3> QED
      BY <2>5, <3>1, LoadsInv, LeaveInv
  <2> QED
    BY <1>2, <2>1, <2>2, <2>3, <2>4, <2>5 DEF KycStep
<1>3. CASE CalculateScore
  BY <1>3, FormsInv
<1>4. CASE LeaveDashboard
  BY <1>4, LeaveInv
<1>5. CASE Redirect \/ StopPolling
  BY <1>5, RedirectInv, StopPollingInv
<1>6. CASE UNCHANGED vars \/ EndJob \/ PassLiveness
           \/ \E t \in Tokens : ExpireToken(t)
  BY <1>6, TabUnchanged DEF vars, EndJob, PassLiveness, ExpireToken
<1>7. CASE \E p \in Pages \ {"setu", "callback", "failed"} : Visit(p)
  BY <1>7, LoadsInv
<1>8. ASSUME NEW c \in BagToSet(calls), NEW ans,
             \/ LoginAnswer(c, ans) \/ KycAnswer(c, ans)
             \/ ScoreFetched(c, ans) \/ ScoreCalculated(c, ans)
      PROVE  TabInv'
  <2>1. CASE \/ ProfileSaved(c, ans) \/ AadhaarLinked(c, ans)
             \/ ScoreFetched(c, ans) \/ ScoreCalculated(c, ans)
    BY <2>1, FormAnswersInv
  <2>2. CASE OtpSent(c, ans) \/ OtpVerified(c, ans)
    BY <2>2, OtpSentInv, OtpVerifiedInv
  <2>3. CASE KycAnswer(c, ans)
    BY <2>3, StatusKnownInv, KycInitiatedInv, PolledInv DEF KycAnswer
  <2> QED
    BY <1>8, <2>1, <2>2, <2>3 DEF LoginAnswer
<1> QED
  BY <1>1, <1>2, <1>3, <1>4, <1>5, <1>6, <1>7, <1>8 DEF Next, Answer

\* The tab stays in the inductive invariant, whatever is in flight when its pages
\* come and go.
THEOREM Invariance == Spec => []IInv
<1>1. Init => IInv
  BY InitInv
<1>2. IInv /\ [Next]_vars => IInv'
  BY TabKept, StoreInv, FewKept DEF IInv
<1> QED
  BY <1>1, <1>2, PTL DEF Spec

\* Pages, views, storage, requests and timers keep their types, each view is one
\* its page can show, and no more requests are in flight than the bound allows:
\* leaving a page forgets requests or orphans them, and never makes two of one.
THEOREM TabStaysTyped == Spec => []TypeOK
<1>1. IInv => TypeOK
  BY DEF IInv, Store, TabInv, Screen, CallsFew, Few, TabTyped, TypeOK
<1> QED
  BY <1>1, Invariance, PTL

\* No form stays dead: each spinner has a request in flight whose answer reaches
\* the page and ends it.
THEOREM NoDeadForm == Spec => []BusyHasRequest
<1>1. IInv => BusyHasRequest
  BY DEF IInv, TabInv
<1> QED
  BY <1>1, Invariance, PTL

\* The login page's code step names a number that sendOtp was called for, or one
\* that was edited while it was in flight.
THEOREM CodeStepCorrect == Spec => []CodeStepNamesNumber
<1>1. IInv => CodeStepNamesNumber
  BY DEF IInv, TabInv
<1> QED
  BY <1>1, Invariance, PTL

\* The processing page never waits for a poll alone: a timer is armed that will
\* end the view it shows, also when an answer came after the two minutes.
THEOREM ProcessingTimed == Spec => []TimeoutArmed
<1>1. IInv => TimeoutArmed
  BY DEF IInv, TabInv
<1> QED
  BY <1>1, Invariance, PTL
===============================================================================
