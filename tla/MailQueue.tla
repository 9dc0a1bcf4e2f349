------------------------------ MODULE MailQueue ------------------------------
(***************************************************************************)
(* The mails that MailService queues and MailProcessor sends, with BullMQ  *)
(* between them: attempts, back-off, a worker that dies with the jobs it   *)
(* holds, and the maintenance that retries what failed.  copies counts how *)
(* often the mail server took a mail, unnoticed how often it did without   *)
(* the queue learning of it.                                               *)
(***************************************************************************)
EXTENDS Naturals

CONSTANTS
    Mail,
    MaxAttempts,   \* 3 in the code
    MaxDeaths,     \* bound: how often the worker may die
    MaxSweeps      \* bound: how often retryFailedJobs may be called

ASSUME MailAssumption ==
    MaxAttempts \in Nat \ {0} /\ MaxDeaths \in Nat /\ MaxSweeps \in Nat

VARIABLES job, attempts, copies, unnoticed, stalled, sweep, deaths, sweeps

(* The calls of retryFailedJobs, which may overlap, in the order they are made *)
Sweep == 1 .. MaxSweeps

mailVars == <<job, attempts, copies, unnoticed, stalled, sweep, deaths, sweeps>>

JobState == {"none", "waiting", "active", "delivered", "delayed", "completed",
             "failed", "removed"}

MailTypeOK ==
    /\ job \in [Mail -> JobState]
    /\ attempts \in [Mail -> Nat]
    /\ copies \in [Mail -> Nat]
    /\ unnoticed \in [Mail -> Nat]
    /\ stalled \in [Mail -> BOOLEAN]
    /\ sweep \in [Sweep -> SUBSET Mail]
    /\ deaths \in 0 .. MaxDeaths
    /\ sweeps \in 0 .. MaxSweeps

MailInit ==
    /\ job = [m \in Mail |-> "none"]
    /\ attempts = [m \in Mail |-> 0]
    /\ copies = [m \in Mail |-> 0]
    /\ unnoticed = [m \in Mail |-> 0]
    /\ stalled = [m \in Mail |-> FALSE]
    /\ sweep = [s \in Sweep |-> {}]
    /\ deaths = 0
    /\ sweeps = 0

Move(m, from, to) ==
    /\ job[m] = from
    /\ job' = [job EXCEPT ![m] = to]

(* One of MailService's send methods *)
Enqueue(m) ==
    /\ Move(m, "none", "waiting")
    /\ UNCHANGED <<attempts, copies, unnoticed, stalled, sweep, deaths, sweeps>>

Take(m) ==
    /\ Move(m, "waiting", "active")
    /\ UNCHANGED <<attempts, copies, unnoticed, stalled, sweep, deaths, sweeps>>

(* process: the mail server takes the mail ... *)
Deliver(m) ==
    /\ Move(m, "active", "delivered")
    /\ copies' = [copies EXCEPT ![m] = @ + 1]
    /\ UNCHANGED <<attempts, unnoticed, stalled, sweep, deaths, sweeps>>

(* Mutant of SendFails: the error is logged and not thrown again *)
SwallowError(m) ==
    /\ Move(m, "active", "delivered")
    /\ UNCHANGED <<attempts, copies, unnoticed, stalled, sweep, deaths, sweeps>>

(* Mutant of SendFails: no failure is the last one *)
RetryForever(m) ==
    /\ Move(m, "active", "delayed")
    /\ UNCHANGED <<attempts, copies, unnoticed, stalled, sweep, deaths, sweeps>>

(* ... or sendMail throws, with the mail taken nonetheless when only the
   answer was lost.  The error is thrown again, for BullMQ to count. *)
SendFails(m) ==
    /\ job[m] = "active"
    /\ attempts' = [attempts EXCEPT ![m] = @ + 1]
    /\ job' = [job EXCEPT ![m] =
                  IF attempts[m] + 1 < MaxAttempts THEN "delayed" ELSE "failed"]
    /\ \E taken \in {0, 1} :
         /\ copies' = [copies EXCEPT ![m] = @ + taken]
         /\ unnoticed' = [unnoticed EXCEPT ![m] = @ + taken]
    /\ UNCHANGED <<stalled, sweep, deaths, sweeps>>

Finish(m) ==
    /\ Move(m, "delivered", "completed")
    /\ UNCHANGED <<attempts, copies, unnoticed, stalled, sweep, deaths, sweeps>>

BackOff(m) ==
    /\ Move(m, "delayed", "waiting")
    /\ UNCHANGED <<attempts, copies, unnoticed, stalled, sweep, deaths, sweeps>>

(* The worker dies: the jobs it held are taken up once more, and failed when
   it is the second time. *)
WorkerDies ==
    LET held == {m \in Mail : job[m] \in {"active", "delivered"}}
    IN  /\ deaths < MaxDeaths
        /\ held # {}
        /\ deaths' = deaths + 1
        /\ job' = [m \in Mail |-> IF m \notin held THEN job[m]
                                  ELSE IF stalled[m] THEN "failed" ELSE "waiting"]
        /\ stalled' = [m \in Mail |-> stalled[m] \/ m \in held]
        /\ unnoticed' = [m \in Mail |->
                            unnoticed[m] + IF job[m] = "delivered" THEN 1 ELSE 0]
        /\ sweep' = [s \in Sweep |-> {}]
        /\ UNCHANGED <<attempts, copies, sweeps>>

(* retryFailedJobs takes the list of the failed jobs ... *)
RetryFailedJobs ==
    /\ sweeps < MaxSweeps
    /\ sweeps' = sweeps + 1
    /\ sweep' = [sweep EXCEPT ![sweeps'] = {m \in Mail : job[m] = "failed"}]
    /\ UNCHANGED <<job, attempts, copies, unnoticed, stalled, deaths>>

(* Mutant of RetryJob: the attempts are counted from the start again *)
RetryAfresh(s, m) ==
    /\ m \in sweep[s]
    /\ job[m] = "failed"
    /\ job' = [job EXCEPT ![m] = "waiting"]
    /\ attempts' = [attempts EXCEPT ![m] = 0]
    /\ sweep' = [sweep EXCEPT ![s] = @ \ {m}]
    /\ UNCHANGED <<copies, unnoticed, stalled, deaths, sweeps>>

(* ... and retries them one by one, each with the attempts it has behind it;
   the first that is not failed any more, another sweep having retried it,
   throws and ends the sweep. *)
RetryJob(s, m) ==
    /\ m \in sweep[s]
    /\ IF job[m] = "failed"
       THEN /\ job' = [job EXCEPT ![m] = "waiting"]
            /\ sweep' = [sweep EXCEPT ![s] = @ \ {m}]
       ELSE sweep' = [sweep EXCEPT ![s] = {}] /\ UNCHANGED job
    /\ UNCHANGED <<attempts, copies, unnoticed, stalled, deaths, sweeps>>

(* cleanCompletedJobs, cleanFailedJobs, removeOnComplete and removeOnFail *)
Clean(m) ==
    /\ job[m] \in {"completed", "failed"}
    /\ job' = [job EXCEPT ![m] = "removed"]
    /\ UNCHANGED <<attempts, copies, unnoticed, stalled, sweep, deaths, sweeps>>

WorkerStep == \E m \in Mail : Take(m) \/ Deliver(m) \/ SendFails(m) \/ Finish(m) \/ BackOff(m)

MailNext ==
    \/ WorkerStep
    \/ \E m \in Mail : Enqueue(m) \/ Clean(m)
    \/ \E s \in Sweep, m \in Mail : RetryJob(s, m)
    \/ WorkerDies
    \/ RetryFailedJobs

MailSpec == MailInit /\ [][MailNext]_mailVars

-----------------------------------------------------------------------------
(* No mail is completed unsent, and none is sent twice but where the queue
   could not know of the first time, a lost answer or a dying worker: the
   retries by BullMQ and by retryFailedJobs add nothing to that. *)
CopiesExplained ==
    \A m \in Mail :
        job[m] # "removed" =>
            copies[m] = unnoticed[m] + IF job[m] \in {"delivered", "completed"} THEN 1 ELSE 0

(* A mail arrives at most once for each attempt it is granted, with one more
   attempt for each call of retryFailedJobs, and once more for each death of
   the worker, in whatever order refusals, lost answers, deaths and sweeps
   follow each other. *)
CopiesBounded ==
    \A m \in Mail : copies[m] <= MaxAttempts + sweeps + deaths

(* Through refusals, lost answers, dying workers and maintenance every queued
   mail comes to an end, sent or given up. *)
MailsSettled ==
    <>[](\A m \in Mail : job[m] \in {"none", "completed", "failed", "removed"})
=============================================================================
