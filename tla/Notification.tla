------------------------------ MODULE Notification -----------------------------
(* The notifications queue of Bull and the workers that run the job `send`:    *)
(* queueNotification gives a job three attempts; a worker delivers the message *)
(* and then writes the status.  Bull's lock of a job expires when its worker   *)
(* dies or is busy for too long; the job then runs once more.                  *)
EXTENDS Serving

CONSTANTS
  Jobs, Workers,
  ChannelChoices \* what the channels of the jobs may be

Channels == {"sms", "whatsapp", "email", "push"}

NoWorker == "none"

ASSUME WorkersFinite == IsFiniteSet(Workers) /\ NoWorker \notin Workers
ASSUME ChoicesAreChannels == ChannelChoices \subseteq [Jobs -> Channels]

VARIABLES
  jobs,      \* the queue: each job's state
  workers,   \* what each worker is doing
  delivered  \* how often the message of each job was handed to a provider

notificationVars == <<jobs, workers, delivered>>

MaxAttempts == 3 \* attempts: 3
MaxStalls == 1   \* Bull's maxStalledCount

Attempts == 0..MaxAttempts + MaxStalls

\* attempts: attemptsMade in Redis.
JobState == [channel : Channels,
             state : {"new", "waiting", "active", "completed", "failed"},
             attempts : Attempts, stalls : 0..MaxStalls,
             holder : Workers \cup {NoWorker}]

Free == [pc |-> "free"]

\* attempts: attemptsMade as the worker read it when it took the job.
WorkerState ==
  {Free} \cup
  [pc : {"deliver", "status", "finish"}, job : Jobs, attempts : Attempts]

NotificationInit ==
  /\ \E channel \in ChannelChoices :
       jobs = [j \in Jobs |-> [channel |-> channel[j], state |-> "new",
                 attempts |-> 0, stalls |-> 0, holder |-> NoWorker]]
  /\ workers = [w \in Workers |-> Free]
  /\ delivered = [j \in Jobs |-> 0]

NotificationTypeOK ==
  /\ jobs \in [Jobs -> JobState]
  /\ workers \in [Workers -> WorkerState]
  /\ delivered \in [Jobs -> 0..MaxStalls + 1]
  /\ \A j \in Jobs : jobs[j].attempts <= MaxAttempts + jobs[j].stalls

(*------------------------------------ Bull -----------------------------------*)

\* notificationQueue.add('send', params, ...), by the loan and scoring services.
QueueNotification(j) ==
  /\ jobs[j].state = "new"
  /\ jobs' = [jobs EXCEPT ![j].state = "waiting"]
  /\ UNCHANGED <<workers, delivered>>

TakeJob(w, j) ==
  /\ workers[w] = Free /\ jobs[j].state = "waiting"
  /\ jobs' = [jobs EXCEPT ![j].state = "active", ![j].holder = w]
  /\ workers' = [workers EXCEPT ![w] = [pc |-> "deliver", job |-> j,
                                        attempts |-> jobs[j].attempts]]
  /\ UNCHANGED delivered

\* w ends its run of j.  The counter is written in any case, the job moved only
\* by the worker that has its lock.
Ended(w, j, state, attempts) ==
  /\ workers' = [workers EXCEPT ![w] = Free]
  /\ jobs' = IF jobs[j].holder = w
             THEN [jobs EXCEPT ![j].state = state, ![j].attempts = attempts,
                               ![j].holder = NoWorker]
             ELSE [jobs EXCEPT ![j].attempts = attempts]

\* Mutant: a failed attempt is not counted.
MutAttempted(n) == n

Attempted(n) == n + 1

\* Mutant: one attempt too many.
MutAttemptFails(w, j) ==
  LET n == Attempted(workers[w].attempts) IN
  Ended(w, j, IF n <= MaxAttempts THEN "waiting" ELSE "failed", n)

\* processNotification throws: the job waits for its next attempt, if any.
AttemptFails(w, j) ==
  LET n == Attempted(workers[w].attempts) IN
  Ended(w, j, IF n < MaxAttempts THEN "waiting" ELSE "failed", n)

\* The lock of j expires: its worker is dead, or too busy to renew it.
JobStalls(j) ==
  /\ jobs[j].state = "active"
  /\ LET again == jobs[j].stalls < MaxStalls IN
       jobs' = [jobs EXCEPT ![j].state = IF again THEN "waiting" ELSE "failed",
                            ![j].stalls = IF again THEN @ + 1 ELSE @,
                            ![j].holder = NoWorker]
  /\ UNCHANGED <<workers, delivered>>

(*---------------------------- NotificationProcessor --------------------------*)

\* The user lookup throws; a text that cannot be translated has a fallback.
LookupFails(w) ==
  /\ workers[w].pc = "deliver"
  /\ AttemptFails(w, workers[w].job)
  /\ UNCHANGED delivered

Delivers(w, channel) ==
  workers[w].pc = "deliver" /\ jobs[workers[w].job].channel = channel

\* A missing address or template, a channel that is switched off or not
\* configured, and a provider that fails or answers too late are only logged.
Deliver(w) ==
  /\ delivered' \in {delivered, [delivered EXCEPT ![workers[w].job] = @ + 1]}
  /\ workers' = [workers EXCEPT ![w].pc = "status"]
  /\ UNCHANGED jobs

\* Each provider gets at most one request of a call, and no call throws.
SendSms(w) == Delivers(w, "sms") /\ Deliver(w)

SendWhatsapp(w) == Delivers(w, "whatsapp") /\ Deliver(w)

SendPush(w) == Delivers(w, "push") /\ Deliver(w)

\* An address that cannot be decrypted makes the attempt fail.
SendEmail(w) ==
  /\ Delivers(w, "email")
  /\ \/ Deliver(w)
     \/ AttemptFails(w, workers[w].job) /\ UNCHANGED delivered

\* Mutant: the UPDATE has no catch.
MutUpdateStatus(w) ==
  /\ workers[w].pc = "status"
  /\ \/ /\ workers' = [workers EXCEPT ![w].pc = "finish"]
        /\ UNCHANGED jobs
     \/ AttemptFails(w, workers[w].job)
  /\ UNCHANGED delivered

\* status = 'sent', or an UPDATE that fails and is only logged; no service
\* inserts the row it names.
UpdateStatus(w) ==
  /\ workers[w].pc = "status"
  /\ workers' = [workers EXCEPT ![w].pc = "finish"]
  /\ UNCHANGED <<jobs, delivered>>

CompleteJob(w) ==
  LET j == workers[w].job IN
  /\ workers[w].pc = "finish"
  /\ Ended(w, j, "completed", jobs[j].attempts)
  /\ UNCHANGED delivered

\* The process dies and a new worker starts; Bull still thinks the job active.
WorkerDies(w) ==
  /\ workers[w] # Free
  /\ workers' = [workers EXCEPT ![w] = Free]
  /\ UNCHANGED <<jobs, delivered>>

Work(w) ==
  \/ \E j \in Jobs : TakeJob(w, j)
  \/ LookupFails(w)
  \/ SendSms(w) \/ SendWhatsapp(w) \/ SendPush(w) \/ SendEmail(w)
  \/ UpdateStatus(w) \/ CompleteJob(w)

NotificationNext ==
  \/ \E j \in Jobs : QueueNotification(j) \/ JobStalls(j)
  \/ \E w \in Workers : Work(w) \/ WorkerDies(w)

NotificationSpec == NotificationInit /\ [][NotificationNext]_notificationVars

\* A job that Bull thinks active and no worker runs.
Abandoned(j) == ~\E w \in Workers : workers[w] # Free /\ workers[w].job = j

\* Workers run while they live, and Bull looks for stalled jobs.
NotificationFairness ==
  /\ \A w \in Workers : WF_notificationVars(Work(w))
  /\ \A j \in Jobs : WF_notificationVars(Abandoned(j) /\ JobStalls(j))

(*--------------------------------- Properties --------------------------------*)

\* A message goes out at most once for each time that its job was handed out
\* after a stall: neither a retried attempt nor a failing status UPDATE repeats
\* it, so without a stall nobody gets a notification twice.
RepeatsNeedStalls == \A j \in Jobs : delivered[j] <= 1 + jobs[j].stalls

\* Every queued job is completed, or failed after its attempts and stalls.
JobsEnd ==
  \A j \in Jobs :
    jobs[j].state = "waiting" ~> jobs[j].state \in {"completed", "failed"}
===============================================================================
