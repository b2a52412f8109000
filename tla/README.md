# BharatScore: a TLA+ verification project

BharatScore is a credit-scoring and lending platform: a NestJS backend over
PostgreSQL and Redis, a Python scoring service, and a Next.js frontend. This
directory holds TLA+ models of the logic of the backend and of the web client, the
TLC configurations that check them on small instances, and proofs checked by
TLAPS.

Paths below are relative to the repository; `modules/` stands for
`backend/src/modules/`, `shared/` for `backend/src/shared/`.

## 1. Inventory

### 1.1 Components

| Component | State it keeps | Operations | What is hard | Status |
|---|---|---|---|---|
| Loan lifecycle (`modules/loan`) | `loan_applications`, `loan_state_transitions` | apply, submitForReview, makeDecision, disburse, markRepaying, closeLoan, triggerDefault | read, check and write are separate statements without transaction, lock or version column; history, audit and notification follow in further statements | modelled, proved |
| OTP login (`modules/auth`: sendOtp, verifyOtp) | Redis keys `otp`, `otp_attempts`, `otp_lock`; `users` | sendOtp, verifyOtp | get, INCR, compare and del are separate Redis calls; keys expire between any two of them; the SMS fails after the code is stored; two verifications create the same user | modelled, proved |
| Sessions (`modules/auth`: refresh, logout, logoutAll; `guards/jwt-auth.guard.ts`) | `sessions`, Redis `blacklist` | refresh, logout, logoutAll, the guard | rotation is a revoke and an insert around awaits; logout and refresh race; the blacklist key must outlive the token | modelled, proved |
| KYC (`modules/kyc`) | `kyc_records`, Redis `kyc_session` | initiateKyc, handleCallback, processKycData, checkLiveness | a background job nobody awaits; repeated callbacks; two handlers write one status column | modelled, proved |
| Scoring (`modules/scoring`) | `credit_scores` | calculateScore, createOrUpdate, getScore | ML service down or slow; a catch that covers the database too; a table whose rule discards every UPDATE | modelled, proved |
| Consent (`modules/consent`) | `consent_records` | recordConsent, checkConsent, revokeConsent | find and save are separate; lazy expiry in a read; the table's rule discards every UPDATE; one active row per borrower | modelled, proved |
| Audit (`modules/audit`) | `audit_logs`, a hash chain per entity | log, verifyChain | the last hash is read, the next appended, in separate statements | modelled, proved |
| Notification (`modules/notification`) | Bull queue, `notifications` | queueNotification, the processor | three attempts per job, stalls and dying workers, delivery before the status is written | modelled, proved |
| CMS (`modules/cms`) | `cms_content`, Redis keys | getContent through a cache, upsertContent | a reader refills the cache after the writer deleted the key; a deletion is lost | modelled, proved |
| Documents (`modules/document`, `shared/storage`) | `documents`, object store | uploadDocument | blob and row are written separately; a mock answers while the client starts | modelled, proved |
| Web client: sign-up and KYC (`frontend/app`, `frontend/services`) | the mounted page, `localStorage`, timers | login, onboarding, DigiLocker, KYC, callback, processing, failed pages | requests overlap and come back late or to a page that is gone; timers and effects outlive or miss each other; tokens expire | modelled, proved |
| Web client: dashboard | spinners | the score requests | as above | partly |
| User profile (`modules/user`) | `users` | profile update, deletion request | nothing beyond single statements | not modelled |
| Admin (`modules/admin`) | none | dashboards | read only | not modelled |
| Cache service (`shared/cache`) | Redis | get, set, del, increment, ... | every failure is swallowed: a get reads null, a set or del does nothing, an increment returns 0 | partly, inside its callers |
| Delivery adapters (SMS, e-mail, push, WhatsApp) | none | one request to a provider | each logs its failure and answers all the same | modelled, in Notification |
| Infrastructure adapters (Kafka, encryption, MongoDB) | connections | I/O | no handler calls the Kafka producer or the MongoDB schemas | not modelled |
| Schema (`database/`) | constraints, rules, retention jobs | SQL | decides the outcome of racing INSERTs and UPDATEs | partly, in the actions |
| ML service (`ml/`) | model files | training, inference | numerical code; its answer is an input of Scoring | partly |

### 1.2 How components interact

Components meet in the database and in Redis, by direct calls, and through one
queue. Loan calls KYC (the borrower's status), Scoring (getScore, or a
calculation when there is none), Audit and Notification; Scoring calls the ML
service and Notification; every guarded route passes the JWT guard, which
consults the blacklist that logout writes and never the `sessions` table that
refresh consults. There is no transaction around any sequence of statements and
no lock or version column in any table. Node runs handlers concurrently: every
`await` is a point where another handler may run, and several processes may run
the same handlers. So a handler is modelled as a walk from await to await, over
what it has read, and the hard behaviours are interleavings between a read and
the write that relies on it, the statements that never run because an earlier
one failed or the process died, and keys that expire in between.

Consent, the audit trail, the CMS cache, documents and the notification queue
share no state with each other: Loan and Scoring append to the trail and to the
queue and never read them. The web client meets the backend in its requests only:
what it knows is its token, the status it was last told, and the timers it set.

### 1.3 What makes each component correct

* Loan: a loan makes the moves of `VALID_TRANSITIONS` only; a large loan needs
  two approval steps; money goes out after a decision; history precedes audit
  and notification and has no gap; one active loan per borrower.
* OTP: at most so many guesses per code, also in parallel; a code opens one
  session; a locked mobile gets no code but one that was already on its way; an
  accepted code logs in.
* Sessions: rotation leaves one refreshable session per login; logged out means
  refused while the token lives; logoutAll ends a login.
* KYC: an identity on record is never replaced; FULLY_VERIFIED is earned; the
  status never falls back to PENDING.
* Scoring: a score answered is a score on record; no duplicates beyond true
  overlaps; what is announced was saved; both sources' bands fit the score; a
  calculation always ends with a score, ML service or not.
* Consent: what was answered as granted is on record; what was revoked is not
  active (it is: section 4).
* Audit: a chain that does not verify had two overlapping writers, or was
  tampered with.
* Notification: every job ends; a message is repeated for a stall only.
* CMS: an old text is served after a race or a failure only, and for an hour at
  most.
* Documents: a row on record has its own file as its blob.
* Web client: no spinner without a request that ends it; the code step names the
  number a code was asked for; the processing page ends.

## 2. How the models are built

Each component module has the same shape. `Slots` (`Requests` in the smaller
modules) is the set of requests in
flight; `req[r]` holds a request's step and the values it has read; each
action is one awaited call together with the synchronous code up to the next.
`Slots` with one element is a service that serves one request at a time, with
two or more the deployed one. `Fail` (or `Die`, `CallFails`) is an awaited call
that throws or a process that dies: what was written stays, the request is
forgotten. Faults are counted and bounded. Time is not counted except in
`Sessions`, where a lifetime is compared with another; elsewhere a key expires
at any moment that the order of TTLs allows.

One representative borrower (mobile, user) is modelled where handlers of
different borrowers share nothing: OTP, Sessions, KYC, Scoring, Consent,
Documents, and the web client. Loan has sets of borrowers, officers and
applications.

### 2.1 Loan: `LoanStates`, `LoanContract`, `LoanService`, `LoanRefinement`

`LoanStates` has the enum, `VALID_TRANSITIONS`, the threshold of 200000 and the
states findActiveByUser looks for. `LoanService` models `loan.service.ts` and
`loan.repository.ts`.

| State or action | Code |
|---|---|
| `loan`, `history` | rows of `loan_applications`, `loan_state_transitions` |
| `audit`, `outbox` | audit rows and queued notifications, by the state they tell of |
| `kycDone`, `scored` | borrowers past PENDING, borrowers with a score |
| `Apply`, `CheckActiveLoan`, `EnsureScore`, `CreateLoan` | apply, one action per await |
| `SubmitForReview` ... `TriggerDefault` | the read and the check of each handler |
| `UpdateLoan` | its `UPDATE ... WHERE id`, with the columns of `DecisionColumns` |
| `RecordTransition`, `RecordRefused` | the history INSERT; the actor 'system' is refused by its foreign key |
| `StampClosed`, `AuditAndNotify` | closed_at, and the calls whose failures are swallowed |

`LoanContract` is the abstract specification: one atomic step per move, and
signatures instead of columns. `LoanRefinement` reads the contract's state off
the row; the UPDATE is the contract's step, every other statement a stutter.

### 2.2 OTP: `OtpLogin`, `MCOtpLogin`

Codes are numbered in the order they were generated; a guess is a code or
`None`, a wrong one. `CountAttempt` is the INCR with the comparison that follows
it without another await, as in the code. `ExpireAttempts` keeps the order of
the TTLs: the counter is set after the code of the same sendOtp with the same
five minutes, so it never expires before that code; a counter created by INCR
alone has no TTL. Redis calls may fail silently (`Answers`).

Nothing keeps a sendOtp from overlapping other requests for its mobile, in the
code or in the model. `MCOtpLogin` adds two history variables: `mixed`, whether a
sendOtp has overlapped another request, and `passed`, the codes whose sendOtp had
read the lock before it was set and had yet to store them.
`LockStoresOnlyPassed` is about every overlap: a code that reaches a locked mobile
is one of `passed`. `UnmixedCodeAttempts` and `UnmixedCodeLogsIn` say what holds
until `mixed`; afterwards they are false (section 5).

### 2.3 Sessions: `Sessions`, `MCSessions`

A login, its access token and its refresh token share a number; `login[t]` is
the first session of t's chain of refreshes. `access`, `refresh` and `black`
count ticks until expiry. `Guard` looks at the signature's lifetime and the
blacklist, and lets a token pass when Redis is away. `MCSessions` adds a history
variable, `overlapped`: whether two requests were ever in flight together.

### 2.4 KYC: `Kyc`, `MCKyc`

`req` holds HTTP requests and `job` the runs of processKycData, which the
callback starts and does not await. An Aadhaar is a model value; the row holds
its hash. The callback's scope is decoded from a URL in which a '+' may become
a space, so whether ADHAR is found is a choice of `StartJob`. The status FAILED
is in the enum and no handler writes it.

### 2.5 Scoring: `Scoring`

`Store` enters createOrUpdate with a score of either source; `FindLatest`
decides between INSERT and UPDATE on what it reads; `UpdateScore` saves over a
row of a table whose rule turns the UPDATE into nothing, and the repository
returns the object it was given all the same; `CallFails` is the catch, which
covers the database calls as well as the ML call and goes on with a mock score,
also when an INSERT was committed and its answer lost. Bands go through the
code's conversions: the ML service's label as the set of its words, matched by
mapRiskBand.

### 2.6 The record-keeping services

`Serving` declares the requests. Each of the next five modules is a service of its
own; `MCRecords` puts them, and Scoring, side by side for one run. They share no
state, so the product of their states says nothing new: a behaviour of `MCRecords`
chooses its `focus` and takes the steps of that service only, and each service's
properties are checked over exactly its own behaviours.

* `Consent`: `FindConsent` is the lookup of createOrUpdate or of
  findActiveConsent, `SaveConsent` and `AnswerCheck` the statements that follow.
  `Updated` is the rule of `001-init.sql:223`: an UPDATE that reports no error
  and changes nothing. checkConsent is modelled although no route or service calls
  it yet. `Taken` is the unique key, which has no scope in it: one
  active row per borrower and source, and the source is always BANK.
* `AuditLog`: hashes are numbers drawn in order (no collisions); a row's
  `logged_at` is the start of its INSERT's transaction, which becomes visible
  when it commits, so rows may become visible out of order. Two rows with one
  timestamp are not modelled.
  `HashTrail` is its abstract specification: hashes that each name an older one,
  or, where calls do not overlap, the latest. That `AuditLog` refines it is shown
  by proof and not by a run (section 5).
* `CmsCache`: one content key in its locales; the text is its locale and version.
  `GetMisses`, `ReadContent`, `FillCache` are getContent's awaits; `FindRow`,
  `SaveContent`, `DeleteEntry` upsertContent's. Redis may do nothing at any call.
  `unsure` records which locales a race or a lost deletion has touched.
* `Documents`: `BlobKey` is the key as the code builds it, the type and `Date.now()`
  (`now`, in milliseconds) before the file's name, with all files of one name. It
  is not unique: two uploads of one type in one millisecond have one key, and the
  second writes over the first's blob (`Overwritten`). `StoreBlob` has the outcomes
  of upload: the mock, the blob, an error before or after the blob is there;
  `InsertDocument` meets `UNIQUE (user_id, doc_type, is_deleted)`. `ClientReady` and
  `RestartServer` are the storage client's start, which nobody waits for.
  `DocumentHasBlob` names both ways in which a row is left without its file: the
  mock answered, or another upload had its key (`Rivalled`).
* `Notification`: `TakeJob`, `Ended`, `AttemptFails`, `JobStalls` are Bull, as the
  code configures it (three attempts, one stall); `LookupFails` to `CompleteJob`
  are the processor. A worker that has lost its job's lock goes on and delivers. It
  cannot move the job, but the `attemptsMade` it read, plus one, it writes all the
  same, so the count of a job may go back, and may reach `MaxAttempts + MaxStalls`.
  `delivered` counts requests to a provider.

### 2.7 The web client: `WebTab`, `WebLogin`, `WebKyc`, `WebClient`

One tab. `WebTab` has what the pages share: the mounted page with its view and
spinners, the token in localStorage, the bag `calls` of requests in flight, the
timers, and the backend as the pages see it (which tokens it accepts, the KYC
status, a background job). A request stays in `calls` until an `Answer`, in any
order; when its page is unmounted (`Orphans`) only what its handler does to
localStorage and the router remains, as React drops the rest. `Mount` runs a
page's effects, `Load` is a full page load, which ends requests and timers.
`WebLogin` has the login page with its auto-submit, onboarding and DigiLocker;
`WebKyc` the KYC, callback, failed and processing pages; `WebClient` the
dashboard's requests and the whole. router.push is taken to be immediate.

| State or action | Code |
|---|---|
| `view`, `busy` | `step`, `state`, `status` and `loading`, `calculating` of the pages |
| `login.auto` | the timer of the auto-verify effect (`login/page.tsx:84`) |
| `timers.polling`, `stop`, `redirects` | interval, two-minute timeout and redirect of `kyc/processing/page.tsx` |
| `Answers` | the controllers' answers, 401 for a token that is not live, or an error |

## 3. Runs

The project keeps to twelve runs. Sizes are distinct states found by TLC.

| Run | Question | Instance | States |
|---|---|---|---|
| `loan_concurrent` | what holds of the rows under any interleaving and failure; does the history catch up, without gaps, and does every request end | one application, two requests, amounts 200000 and 200001, one failure, fair | 599,253 |
| `loan_serial` | does the service, one request at a time and cut off anywhere, implement the contract | two applications of one borrower, one request, one failure | 159,416 |
| `loan_overwrite` | finding: moves outside the table | two requests | - |
| `otp_parallel` | limits of attempts and logins; which codes reach a locked mobile; does an accepted code log in | two requests, two attempts, two codes, one fault in behaviours where no sendOtp overlaps, fair | 1,178,081 |
| `session_parallel` | rotation, blacklist, and what holds while requests do not overlap | two requests, three token pairs, one fault | 963,274 |
| `session_two_refreshes` | finding: two active sessions of one login | two requests, no fault | - |
| `kyc_parallel` | identity and status under parallel jobs and requests | two requests, two jobs, two sessions, two identities, two faults | 499,152 |
| `kyc_downgrade` | finding: FULLY_VERIFIED is taken back | one request, two jobs | - |
| `scoring_recalculated` | finding: an answered score that is on no row | one at a time, two in all | - |
| `web_tab` | dead forms, wrong numbers, endless processing | one tab, two requests in flight, two tokens, one pending redirect, fair timers | 335,098 |
| `records` | what rows, blobs, caches, deliveries and scores can be trusted for; does a job, and a calculation, end | two requests; three workers on one job of any channel; two keys, locales, texts, types and milliseconds; three files and calculations, four calls of log; fair | 206,298 |
| `consent_revoked` | finding: a revoked consent that is active | one key | - |

**Why these bounds.** Two requests are enough for every race in the code: each
handler's read-check-write relies on one row, and a violation needs one other
writer between its read and its write. A third participant enters through the
bounded counters (three token pairs, three calculations, two jobs beside two
requests). 200000 and 200001 are the two sides of the strict threshold. verifyOtp's
limit of five attempts is lowered to two: the model only ever compares the
counter with that constant. `Sessions` uses lifetimes of one tick for the access
token and its blacklist key, equal as in the code (900 s each), and two for the
refresh token, so that a refresh after the access token's expiry happens.
Scores are taken on both sides of the thresholds 550 and 750 of the ML service
and 600 and 750 of the fallback. One fault per run (two where it is cheap)
reaches every cut between two statements; two reach a cut in the repair of a
cut. In `otp_parallel` the fault and the overlap of a sendOtp exclude each other in
one behaviour (`BoundedNext`), to keep the run small: the properties other than
`LoginsPerCode` and `TypeOK` exempt one or the other, and those two are theorems without
either bound. The record-keeping services but Scoring are not bounded in their faults. Two locales are
English and one that falls back to it; two texts are an old and a new one; three
calls of log would do for a fork, four leave a call that comes after it. Two
milliseconds make two uploads meet in one or miss each other, and three files leave
one for the other type. One job is enough, for jobs share their workers only, and a
worker serves a job from beginning to end; three workers are one that died or lost
the lock, one that has it, and one to spare. Two requests in flight are the two verifications, or a poll and its successor; a
third would be another of the same kind.

**Symmetry** is used in runs that check invariants and action properties only
(requests, jobs, identities), never with liveness.

**Deadlock** is checked in `kyc_parallel` and `web_tab` only: the other instances run
out of applications, codes or tokens and then have nothing left to do.

**Fairness** is weak fairness of `Continue(r)` for each request: the event loop
resumes a handler whose awaited call has answered. It does not force a client
to send, a borrower to consent or an officer to decide, and it does not keep a
request from failing (failures are never fair, nor excluded, but by the bound).
For Scoring it includes the ML call, which answers or times out after 30
seconds (`scoring.service.ts:77`). In `records`, Redis drops what has expired
(`CmsFairness`), a living worker goes on with its work and Bull looks for stalled
jobs that no worker runs (`NotificationFairness`). In `web_tab` only the browser
is fair: it fires the processing page's timers; answers may never come.

**Liveness** checked: a request to the loan service ends (`RequestsEnd`); an
accepted code opens a session although parallel verifications compete for the
INSERT of a new user, unless a fault or an overlapping sendOtp intervenes
(`UnmixedCodeLogsIn`); a calculation the database does not
fail leaves a score (`AskedIsScored`); the processing page ends, even if nothing
is ever answered (`ProcessingEnds`); a stale cache entry goes away, although
readers may refill it (`StaleExpires`); every queued job is completed or failed
(`JobsEnd`).

**Mutants.** Each checked property has a mutant in the modules (operators named
`Mut...`): a variant of an operation, as a plausible mistake would write it,
under which the run reports the property violated.

## 4. Findings

Five runs show a disagreement between the code and what the repository says.

* `loan_overwrite`: two requests read one state, both pass their checks and both
  UPDATE by id alone, so a rejected loan becomes approved. `loan.service.ts:21`
  heads the table "Valid State Transitions", where REJECTED has no successor.
  It takes an overlap: one request at a time, the claim is a theorem
  (`SerialTableMoves`).
* `session_two_refreshes`: two refreshes with one refresh token both pass the
  check and both insert a session; `auth.service.ts:195` says "Rotate tokens:
  revoke old session, create new one".
* `kyc_downgrade`: a second job writes AADHAAR_VERIFIED over FULLY_VERIFIED,
  although `kyc.service.ts:37` refuses a borrower who is "already fully
  verified". Without such a leftover session or job the status is for good
  (`VerifiedForGood`).
* `scoring_recalculated`: from the second calculation on, the score answered and
  announced is on no row; `database/sql/001-init.sql:280` says "never update a
  score, create a new one" and discards the UPDATE that createOrUpdate makes.
  The first calculation answers what it stored (`FirstScoreIsOnRecord`).
* `consent_revoked`: `consent.controller.ts:40` offers "Revoke consent for a specific
  scope/purpose" and `consent.service.ts:45` answers "Consent revoked successfully",
  but the UPDATE at `consent.repository.ts:37` meets the rule at
  `database/sql/001-init.sql:223` ("Consent is append-only: no updates, no deletes",
  line 222) and changes nothing: the consent stays active, its `revoked_at` empty, and
  getStats counts no revocation.

Further observations, met while modelling and without a run of their own.

Backend:

* triggerDefault passes the actor 'system' into a UUID column that references
  `users`; the history INSERT throws after the state was updated
  (`RecordRefused`), and `dpd_90_triggered_at` is never set. `loan.service.ts:381`
  calls this "state transition with validation + audit trail". No route calls
  triggerDefault yet.
* Two applications of one borrower submitted in parallel both pass
  findActiveByUser (`loan.service.ts:70`, INSERT at 88): `OneActiveLoan` holds
  with one request at a time only. `docs/bharascore-database-complete.md:711`
  describes an exclusion constraint `one_active_loan_per_user`, which `001-init.sql` does
  not create.
* Nothing compares the second approver with the first (`loan.service.ts:218`):
  one officer may take both steps. `LargeLoanTwoSteps` therefore says two steps,
  not two people.
* Dual approval looks at `amount_requested` (`loan.service.ts:175`), while
  line 211 stores an `amount_approved` of any size, which line 301 announces.
* sendOtp reads the lock at `auth.service.ts:41` and stores a code at line 56;
  verifyOtp never reads the lock. A mobile locked in between gets a fresh code, and
  it is accepted. `LockStoresOnlyPassed` says that no other code gets there, and
  `FewPassTheLock` how many do: fewer than there are requests in parallel.
* A sendOtp that overlaps a verification may clear the counter in the middle of a
  round, so that a code takes more guesses than the limit, or let a login with the newer code
  create the user that the older one then fails on.
* A refresh in flight inserts its session after logoutAll revoked the others:
  `SerialEndedStaysEnded` is checked as long as requests do not overlap. logoutAll
  writes to `sessions` only and blacklists no access token (`auth.service.ts:233`): the
  guard, which reads the blacklist only, accepts each until it expires.
  `LoggedOutStaysOut` is about logout.
* While Redis is away, logout answers success without a blacklist entry, and the
  guard lets blacklisted tokens pass; `LoggedOutStaysOut` exempts both.
* A job that throws on AADHAAR_MISMATCH, or on the unique user_id, skips the
  revocation of its session at Setu (`kyc.service.ts:122`).
* The bands of the sources differ between their thresholds (550-600 is medium
  for the ML service and high for the fallback, 750 is low risk and medium); `BandFitsScore` states what they
  share.
* The access lifetime is read with parseInt, so a configured "15m" gives 15
  seconds; the blacklist's 900 seconds are a literal. `BlacklistCoversToken`
  names the relation LogoutCorrect needs.
* The rule behind `consent_revoked` discards every other UPDATE as well: an expired
  consent stays active, and a renewal is lost while the caller is told that it is
  granted. `GrantedIsOnRecord` therefore speaks of a row of the key, active or valid
  or not. The unique key lets a borrower have one active row
  whatever its scope: a second scope is refused. checkConsent has no caller.
* Two overlapping calls of log for one entity leave a chain on which verifyChain
  fails for good (`BreaksAreOverlaps` says that nothing else does, and
  `ChainVerifies` that without an overlap it never fails).
* Uploads that arrive before the storage client is ready, after each restart, are
  answered by a mock: the row is there and the file is lost. A failed INSERT
  leaves its blob behind. Nothing checks that a blob's key is new
  (`document.service.ts:20`): of two uploads of one type and name in one millisecond
  the unique key lets one row in, which may be the one whose file was written over.
* Entries of another locale that fell back to the English text are not deleted
  when that text changes or their own appears; they stay for their hour.
* `backend/src/shared/database/migrations/1780607085333-Init.ts` drops the unique
  keys of `consent_records` and `documents` (lines 85, 86), which `Consent` and
  `Documents` rely on. Neither configured path (`database.module.ts:28`,
  `data-source.ts:26`) has the directory it is in, so it does not run. If it did, the
  second of two INSERTs would succeed.
* No service inserts a `notifications` row, so the processor's status UPDATE
  matches none; a provider's failure is logged and the job counts as completed.
  For the channel SMS the text goes to sendOtp in the place of the code.

Web client:

* The KYC page passes the body of a failed status request on ("Proceed even if
  status check fails", `kyc/page.tsx:54`), takes it for a status, and rendering
  it throws (view `crashed`).
* On the processing page the two-minute timeout is not cleared by success:
  "Verified" may turn into "Timed out" before the redirect, and a redirect that
  is armed pulls a user who has left back to `/kyc`.
* A late answer of verifyOtp stores its token after the user has signed out or
  logged in again, and a 401 on a status request removes whatever token is
  stored by then.
* The number can be edited while sendOtp is in flight; the code step then names
  another one. `CodeStepNamesNumber` exempts exactly that (`edited`). "Send
  Again" has no handler.
* The dashboard's "Sign Out" is a link that keeps the token. The gauge reads
  `latest_score` where the API answers `score`.
* DigiLocker's page posts to a route that no controller has; the API client
  expects a base URL that ends in `/api/v1`, while the KYC pages append it.

## 5. Proofs

Each theorem holds for every value of the constants under the named ASSUMEs of
its module: any number of requests, loans, tokens, sessions, jobs and faults.

| Module | Theorem | States |
|---|---|---|
| `LoanProofs` | `Invariance` | the inductive invariant below |
| | `TypeCorrect`, `HistoryCorrect`, `DualApproval`, `MoneyCorrect`, `EffectsCorrect`, `HistoryComplete`, `ApplicantsCorrect` | every invariant of `loan_concurrent`, and that who applies has a KYC and a score |
| | `OneActiveLoanCorrect`, `ServiceImplementsContract` | `loan_serial`, under `OneAtATime`: one active loan per borrower, and the refinement of `LoanContract` |
| | `SerialTableMoves` | under `OneAtATime`, the claim that `loan_overwrite` refutes: every UPDATE is a move of VALID_TRANSITIONS |
| | `LoanRequestsRunOut` | each step of a request is nearer to its end |
| `LoanContractProofs` | `ContractKept` | the contract's loans carry the signatures they need |
| `OtpProofs` | `OtpTyped`, `CodesLogInOnce` | types, and logins per code, unconditionally |
| | `AttemptsLimited` | the attempt limit, until a sendOtp overlaps another request |
| | `LockStopsCodes`, `FewPassTheLock` | under any overlap: which codes reach a locked mobile, and that they are fewer than the requests in parallel |
| | `AcceptedCodesKept`, `OtpRequestsRunOut` | an accepted code is not lost on its way to a session (until a sendOtp overlaps), and each step of a request is nearer to its end |
| `SessionsProofs` | `Invariance`, `TypeCorrect`, `RotationCorrect`, `LogoutCorrect` | the unconditional invariants of `session_parallel` |
| | `SerialRotation`, `SerialLogoutAll` | what holds until two requests have overlapped |
| `KycProofs` | `Invariance`, `TypeCorrect`, `VerificationCorrect`, `IdentityCorrect`, `PendingCorrect` | every property of `kyc_parallel` |
| | `VerifiedForGood` | from where on the claim that `kyc_downgrade` refutes does hold |
| `ScoringProofs` | `Invariance`, `TypeCorrect`, `RowsCorrect`, `AnnouncedCorrect`, `BandsCorrect`, `SettleCorrect` | the safety properties of `Scoring`, those that `records` checks among them |
| | `CalculationsEnd` | each step of a calculation is nearer to its end, which leaves a row or a fault |
| | `FirstScoreIsOnRecord` | the claim that `scoring_recalculated` refutes, for a first calculation without a fault |
| `RecordsProofs` | `GrantsCorrect`, `DocumentsHaveBlobs`, `StaleEntriesExplained`, `ChainBreaksExplained`, `NotificationTyped`, `RepeatsBounded` | the safety properties of `Consent`, `Documents`, `CmsCache`, `AuditLog` and `Notification` |
| | `EntriesSound` | cached texts were saved, are in the reader's locale or English, and expire |
| | `TrailIsTree` | `AuditLog` refines `HashTrail` with forks, for any overlap of calls |
| | `TrailIsChain`, `TrailHasNoForks`, `ChainVerifies` | under `OneLogCall`, it refines `HashTrail` without forks, its rows are one chain, and verifyChain finds nothing |
| | `RoundsRunOut` | nothing gives a job more to do, and each change of its state brings it nearer to its end |
| | `RecordsTyped`, `RecordsSafe` | the types and the safety invariants of `records`, where the six run side by side |
| `WebProofs` | `Invariance`, `TabStaysTyped`, `NoDeadForm`, `CodeStepCorrect`, `ProcessingTimed` | the invariants of `web_tab`, and the timer that `ProcessingEnds` rests on |

Of the properties that the passing runs check, the theorems state every one that
is not a liveness property, and of each liveness property what it rests on besides
fairness (below).

Assumptions. Loan: `ConstantsDistinct` (NULL and 'system' are no ids),
`AmountsArePositive`, `MaxFailuresIsNat`. OTP: `SlotsAreFinite`,
`MaxAttemptsIsPositive`, `BoundsAreNat`. Sessions: `TtlsArePositive`,
`BlacklistCoversToken` (used by LogoutCorrect), `BoundsAreNat`. KYC:
`NullIsNoValue`, `MaxFaultsIsNat`. Scoring: `ScoresInRange`,
`ScoringBoundsAreNat`. Requests of the record-keeping services: `RequestsFinite`. Documents:
`MaxClockIsNat`. CMS: `CmsBounds` (there is an English locale). Audit:
`MaxLogsNat`. Notification: `WorkersFinite` (and no worker is called "none"),
`ChoicesAreChannels`. Web client: `WebBounds`. TLC evaluates each of them in the
runs above.

Some theorems have a hypothesis besides, each where the statement is false
without it.

* `OneActiveLoanCorrect`, `ServiceImplementsContract` and `SerialTableMoves` assume
  `OneAtATime` (`Slots` has one element), as in `loan_serial`: two overlapping
  requests leave the contract and the table, as `loan_overwrite` shows.
* `TrailIsChain`, `TrailHasNoForks` and `ChainVerifies` assume `OneLogCall`
  (`Requests` has one element): two overlapping calls of log fork the trail.

`SerialRotation` and `SerialLogoutAll` need no hypothesis: their properties are
about behaviours of `MCSpec`, which has any number of slots, up to the first
overlap. So are `AttemptsLimited` and `AcceptedCodesKept`, up to the first sendOtp
that overlaps another request; verifications overlap each other freely. After it
both are false, as section 4 says. `LockStopsCodes` has no such limit, but that Redis answers
(`faults = 0`): a read of the lock that fails finds no lock.

**Loan.** The checked invariants are not inductive: a request writes on the
strength of a state it read long ago. `IInv` adds to each row what has happened
to it by the time it is in its state (`Reached`), and to each request that what
held of the state it read still holds of the row (`ReqInv`). The argument is that
every such fact is monotone: an UPDATE may overwrite the state but never clears a
decided flag, an approver or the disbursement (`RowGrows`), so what a request
relies on survives the writes of the others (`ReqStable`). One lemma per action;
`OneRowChanges` is the frame they share.

*No gap* (`GapInv`): each state that a row has, that its history leaves, or that
a request in flight has read, is one the history has recorded or a request is
about to record. The states read by requests have to be part of it: a request
may record a move out of a state that others have overwritten since.
*One at a time* (`SerialInv`): what the lone request has read is still so when it
writes, and the officers on a row fit its state (`SignedAs`). From these,
`UpdateLoan` is a move of the contract, with the signature it asks for, and every
other statement leaves what the contract sees as it is. Each of the contract's
moves is in the table (`MovesFollowTable`), which makeDecision and disburse do not
consult: `SerialTableMoves` says that their own checks amount to it.

*Requests end* (`AwaitsLeft`): a request has at most six statements to go, and each
of its steps, `Fail` included, leaves it fewer; no other request moves it.

**OTP.** `CodesInv`: a code is stored at most once, by the sendOtp that generated
it. For logins (`LoginBound`), a code that is still stored has let nobody through
but by a DEL that failed; from its deletion on only the requests that hold it can
log in, and there are at most as many as slots. For attempts (`RoundsInv`), the guesses at
the stored code are those the counter shows and a round of `MaxAttempts` for each
fault, less the rounds that faults have paid for and that have not begun: `Owed`
counts a code that outlived its DEL before its counter is cleared, a counter
that will expire before its code, and a SET that failed before the reset that
follows it. The bound of `LiveCodeAttempts` is the case where nothing is owed.
`AloneInv`, the part that a sendOtp in flight has the service to itself, and what
rests on it hold until `mixed`. `PassedInv`: while Redis answers, whoever is about to
store a code for a locked mobile was so when it was locked, since a later read of the
lock ends the request; the one that locks is a request itself, so `passed` has fewer
codes than there are slots.
For `AcceptedCodesKept`: the requests in flight hold at most one code between them
(`OneCode`), so whoever finds the row of a new user taken has lost to a request
with the same code, which has a session or is about to (`UserInv`). `AwaitsLeft`
ranks the awaits of sendOtp and verifyOtp; there are at most eight.

**Sessions.** `OldIsRevoked`: between its UPDATE and its INSERT a refresh relies
on the old row being revoked, and no code ever makes a revoked row active.
`Fresh`: the pair it inserts is its own and has no row. `KeyOutlivesToken`: a
blacklist key has at least the ticks its token has, which a tick preserves and
`BlacklistCoversToken` establishes. Until two requests overlap
(`SerialInv`), a refresh between its SELECT and its UPDATE has the one active
session of its login, and between its UPDATE and its INSERT the login has none
and was not ended (`Rotating`).

**KYC.** A row, once inserted, stays, and so does its hash. `JobInv`: a job
about to UPDATE has compared its identity with the one on record. `ReqInv`: a
liveness check about to promote has a row and a passed check. `Settled`, for
`VerifiedForGood`: fully verified, and no open session, request that creates one, or
job that has yet to UPDATE, has the identity on record. The row's hash never
changes, a fully verified borrower starts no session, and a job with another
identity throws, so nothing that could write AADHAAR_VERIFIED ever comes back.

**Scoring.** `RoomForInserts`: once there is a row, the rows and the pending
INSERTs together are at most the calculations in flight; no new INSERT starts
after the first row. The library's theorems on cardinality do the counting.
`BandsCorrect` covers every score of either range, not only the sampled ones.
`AwaitsLeft` ranks a real score above the fallback, so that the catch, which goes
back to createOrUpdate, still counts down; it is entered once. `FirstInv` follows the
only calculation there has been: it finds no row, inserts its own and answers it.

**Consent.** `FoundStays`: a grant that found a row saves over one that is still
there, since no step takes a row from its key (`NextKeepsRows`).

**Documents.** `UploadsHoldFiles`: an upload between its two statements has its own
blob unless it was mocked or a rival's, with the same key, is there (`HasBlob`). A blob is
only ever written over by one with its key, so a rival of its type and millisecond
takes its place (`OverwriteKeeps`); each file is uploaded once, so a rival is another.

**CMS.** `ReadersCurrent`: what a reader is about to cache is the text of its
locale, or the locale is unsure; a save makes it so for the readers it overtakes.
`WrittenInv` needs no such case: an entry, or the text a reader is about to cache,
has a version that was saved, because versions only grow (`VersionsGrow`).

**Audit.** `ChainLinked`: a row, or a call in flight, carries the hash of the latest
of the rows it saw, all of them older than itself; a row that is committed
meanwhile has a hash nobody has seen (`HashesFresh`). So two rows that follow
each other can only fail to link if the later had not seen the earlier.
The refinement of `HashTrail` maps each row to the hash it has and the hash it names,
and the latest row to the tip. A commit is the abstract step, everything else a
stutter: its hash is new (`HashesFresh`), and the one it names is still there, since
nothing removes a row (`TrailInv`). It may turn out older than the latest row, for
`logged_at` is set before the commit. A lone call's row names the tip and is younger
than it (`LoneCallAtTip`), and from there verifyChain has nothing to report.

**Notification.** `WithinBudget`: the deliveries made, under way, and to come when
the job is taken, are together at most one more than its stalls; each step moves
one of these into another, and only a stall adds to both sides.
`QueueInv` bounds the count that a worker without the lock may write: it read the job
before the stall. `Left` ranks a job by its stalls to come, the workers that lost its
lock and may yet write an older count (`Strays`), the attempts that are left
(`Made`), and its place in the round: a stall weighs more than the stray it leaves,
and a stray more than the attempts its write can take back.

**Records.** The six services share no variable: each keeps its own invariant
and its step leaves the others' alone (`RecordsInvKept`).

**Web client.** The checked invariants say nothing of which page a request
belongs to. `CallsBelong` does: a mounted request was sent by the page that is
shown, another one is in flight only if its handler outlives its page. So an
answer that ends a spinner ends it on the page that waits for it, and one that
comes late leaves the spinners, and their requests, alone (`StillWaiting`).
`SentNumbers` carries the number of each sendOtp in flight to its answer. The
requests are a bag; `WithBag`, `DoneBag` and `OrphansBag` say what sending,
answering and unmounting do to it, and how many there are: they are counted as
numbered copies (`InFlight`), whose cardinality an unmount, which may make two
requests alike, cannot raise, because the copies after it map one to one into those
before. `TimeoutArmed` says what the processing page
waits for: its two-minute timeout or, when a poll is answered after that, the
redirect.

**Model-checked only.** That a liveness property's awaited event does come: TLAPS
does not treat ENABLED, nor therefore fairness. What it rests on besides is proved:

| Liveness | Proved | Left to TLC |
|---|---|---|
| `RequestsEnd` | `LoanRequestsRunOut` | each request takes its next step |
| `UnmixedCodeLogsIn` | `AcceptedCodesKept`, `OtpRequestsRunOut` | the same |
| `AskedIsScored` | `CalculationsEnd` | the same |
| `ProcessingEnds` | `ProcessingTimed` | timers fire |
| `StaleExpires` | `EntriesSound` | keys expire |
| `JobsEnd` | `RoundsRunOut` | workers, and Bull's check for stalled jobs, go on |

## 6. Assumptions and limits

* One user, mobile or borrower in OTP, Sessions, KYC, Scoring, Consent and
  Documents; one entity in the audit trail; one content key; one tab.
* `UnmixedCodeAttempts` and `UnmixedCodeLogsIn` promise nothing once a sendOtp has
  overlapped another request of the mobile.
* The files of `Documents` all have one name, and each is uploaded once.
* A process that dies loses its own requests; PostgreSQL and Redis keep what
  they were given. Only the storage client is rebuilt in memory (`RestartServer`).
* Redis failing is bounded by `MaxFaults`; the properties that a failing Redis
  weakens say so in their statement.
* The ML service's arithmetic is an arbitrary score in its range.
* Hashing, encryption, JWT signatures and message wording carry no control and
  are left out.

* router.push takes effect at once; a tab shares its localStorage with no other.

Not modelled: User profile (single UPDATEs), Admin (reads), the FAQ cache (no
writer), the Kafka producer and the MongoDB schemas (no caller), encryption (a
pure function), ML training and features (numerical), the landing page, the
dashboard's cards and top bar (presentation), partitioning, database roles,
retention jobs, and the TypeORM migration, which no configured path finds (section 4).

## 7. Plan

Done, in this order: LoanStates, LoanContract, LoanService and its refinement,
OtpLogin, Sessions, Kyc, Scoring; Consent, AuditLog, CmsCache, Documents,
Notification; WebTab, WebLogin, WebKyc, WebClient; proofs of the safety
properties of each of them, of the refinements (`LoanContract`, `HashTrail`), of the
services that handle one request at a time, and of what the liveness properties
rest on. Left:

1. An abstract specification for the cache (a text that was current at most an
   hour ago), which the detailed one refines; it needs time to be counted there.
   `EntriesSound` is what holds without.
2. Two tabs that share localStorage.

The proofs of the small record-keeping services share a module: each theorem of
theirs is about one service, and `RecordsTyped` about all of them.
