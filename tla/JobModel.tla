------------------------------ MODULE JobModel ------------------------------
(***************************************************************************)
(* The job of rhythm as model/model.go defines it: a configuration, a      *)
(* runtime part, and the two questions the scheduler asks of it.           *)
(*                                                                         *)
(* Time is counted in cron periods: the clock reads p from the p-th firing *)
(* of the job's cron expression until the next one.  A job that has never  *)
(* been started has lastStart = 0, the zero time.                          *)
(***************************************************************************)
EXTENDS Integers

CONSTANTS
    JobIDs,       \* fully qualified identifiers of jobs (group:project:id)
    UUIDs,        \* what uuid.NewV4 may return: bounds the tasks of a job
    RetryLimit,   \* bound: largest MaxRetries a configuration may ask for
    MaxTime,      \* bound: the last cron period considered
    NoJob,        \* absence of a job (a nil pointer, a missing map key)
    NoTask        \* the empty CurrentTaskID

ASSUME BoundsAssumption == RetryLimit \in Nat /\ MaxTime \in Nat \ {0}

Period == 0..MaxTime

State == {"Idle", "Staging", "Starting", "Running", "Failed"}

(* Task identifiers: "<job id>:<uuid>", split at the last colon. *)
TaskIDs == JobIDs \X UUIDs

taskID(jid, uuid) == <<jid, uuid>>

parseTaskID(tid) == tid[1]

JobRuntime == [state     : State,
               lastStart : Period,
               task      : TaskIDs \cup {NoTask},
               retries   : Nat]

Job == [maxRetries : 0..RetryLimit, rt : JobRuntime]

ASSUME NullAssumption == NoJob \notin Job /\ NoTask \notin TaskIDs

(* The runtime of a job that has just been created. *)
NewRuntime == [state |-> "Idle", lastStart |-> 0, task |-> NoTask, retries |-> 0]

(* Runtimes of jobs at rest: never started, or started in period p and     *)
(* finished since.                                                         *)
RestRuntime(p) == {NewRuntime, [NewRuntime EXCEPT !.lastStart = p]}

(* Mutant: one retry too many. *)
RetryOneTooMany(job) == job.rt.state = "Failed" /\ job.rt.retries <= job.maxRetries

IsRetryable(job) == job.rt.state = "Failed" /\ job.rt.retries < job.maxRetries

(* A retry is due from the last start on, a scheduled run from the next    *)
(* firing of the cron expression on.                                       *)
NextRun(job) == IF IsRetryable(job) THEN job.rt.lastStart ELSE job.rt.lastStart + 1

IsRunnable(job, now) == job.rt.state \in {"Idle", "Failed"} /\ NextRun(job) <= now

(* What findJobsForResources does to the retry counter of a job it picks. *)
CountRetry(job) == [job EXCEPT !.rt.retries = IF IsRetryable(job) THEN @ + 1 ELSE 0]
=============================================================================
