------------------------ MODULE JobsSchedulerProofs ------------------------
(***************************************************************************)
(* Proofs about JobsScheduler for every set of jobs, every bound and every *)
(* choice of Features.                                                     *)
(***************************************************************************)
EXTENDS JobsScheduler, TLAPS

(* Counting a retry changes nothing but the counter.                       *)
LEMMA CountRetryType ==
    ASSUME NEW job \in Job
    PROVE  /\ CountRetry(job) \in Job
           /\ CountRetry(job).maxRetries = job.maxRetries
           /\ CountRetry(job).rt.lastStart = job.rt.lastStart
           /\ CountRetry(job).rt.retries = IF IsRetryable(job) THEN job.rt.retries + 1 ELSE 0
  BY DEF CountRetry, Job, JobRuntime, Period

(* A job whose task was built starts now and keeps its retry counter.      *)
LEMMA StagedJobType ==
    ASSUME NEW job \in Job, NEW tid \in TaskIDs, now \in Period
    PROVE  /\ StagedJob(job, tid) \in Job
           /\ StagedJob(job, tid).rt.lastStart = now
           /\ StagedJob(job, tid).rt.retries = job.rt.retries
  BY DEF StagedJob, Job, JobRuntime, State

(* So does a job whose task could not be built.                            *)
LEMMA FailedJobType ==
    ASSUME NEW job \in Job, now \in Period
    PROVE  /\ FailedJob(job) \in Job
           /\ FailedJob(job).rt.lastStart = now
           /\ FailedJob(job).rt.retries = job.rt.retries
  BY DEF FailedJob, Job, JobRuntime, State

(* Merging with storage keeps the runtime in memory.                       *)
LEMMA MergeJobType ==
    ASSUME NEW old \in Job \cup {NoJob}, NEW new \in Job \cup {NoJob}
    PROVE  /\ MergeJob(old, new) \in Job \cup {NoJob}
           /\ old # NoJob /\ new # NoJob => MergeJob(old, new).rt = old.rt
  BY DEF MergeJob, Job

(* An update changes neither lastStart nor the retry counter.              *)
LEMMA ApplyUpdateType ==
    ASSUME NEW rt \in JobRuntime, NEW s \in MesosState
    PROVE  /\ ApplyUpdate(rt, s) \in JobRuntime
           /\ ApplyUpdate(rt, s).lastStart = rt.lastStart
           /\ ApplyUpdate(rt, s).retries = rt.retries
  BY DEF ApplyUpdate, JobRuntime, State, MesosState, Live, Terminal

(* A save leaves storage well typed, done or failed. *)
LEMMA SaveJobRuntimeType ==
    ASSUME TypeOK, NEW j \in JobIDs, NEW rt \in JobRuntime, NEW ok \in BOOLEAN,
           SaveJobRuntime(j, rt, ok)
    PROVE  stored' \in [JobIDs -> Job \cup {NoJob}]
<1>1. stored \in [JobIDs -> Job \cup {NoJob}]
  BY DEF TypeOK
<1>2. CASE ~ok
  BY <1>1, <1>2 DEF SaveJobRuntime
<1>3. CASE ok
  <2>1. stored[j] \in Job
    BY <1>1, <1>3 DEF SaveJobRuntime
  <2>2. [stored[j] EXCEPT !.rt = rt] \in Job
    BY <2>1 DEF Job
  <2>3. QED
    BY <1>1, <1>3, <2>2 DEF SaveJobRuntime
<1>4. QED
  BY <1>2, <1>3

(* Neither a save nor an update of the configuration makes or removes a    *)
(* job; the runtime changes only by a save.                                *)
LEMMA SaveKeepsJobs ==
    ASSUME TypeOK, NEW j \in JobIDs, NEW rt \in JobRuntime, NEW ok \in BOOLEAN,
           SaveJobRuntime(j, rt, ok)
    PROVE  /\ \A i \in JobIDs : stored'[i] = NoJob <=> stored[i] = NoJob
           /\ \A i \in JobIDs : i # j => stored'[i] = stored[i]
           /\ stored[j] # NoJob => stored'[j].rt \in {stored[j].rt, rt}
           /\ stored[j] # NoJob /\ "savefail" \notin Features => stored'[j].rt = rt
<1>1. CASE ~ok
  BY <1>1 DEF SaveJobRuntime, TypeOK, Job
<1>2. CASE ok
  <2>1. stored[j] # NoJob /\ stored' = [stored EXCEPT ![j].rt = rt]
    BY <1>2 DEF SaveJobRuntime
  <2>2. stored[j] \in Job /\ stored \in [JobIDs -> Job \cup {NoJob}]
    BY <2>1 DEF TypeOK
  <2>3. [stored[j] EXCEPT !.rt = rt] \in Job /\ [stored[j] EXCEPT !.rt = rt].rt = rt
    BY <2>2 DEF Job
  <2>4. stored'[j] = [stored[j] EXCEPT !.rt = rt]
    BY <2>1, <2>2
  <2>5. \A i \in JobIDs : i # j => stored'[i] = stored[i]
    BY <2>1, <2>2
  <2>6. QED
    BY <2>1, <2>3, <2>4, <2>5, NullAssumption
<1>3. QED
  BY <1>1, <1>2

(* Recording a task leaves the history well typed. *)
LEMMA AddTaskType ==
    ASSUME TypeOK, NEW j \in JobIDs, NEW t \in TaskIDs \cup {NoTask}, AddTask(j, t)
    PROVE  history' \in [JobIDs -> SUBSET (TaskIDs \cup {NoTask})]
<1>1. history \in [JobIDs -> SUBSET (TaskIDs \cup {NoTask})]
  BY DEF TypeOK
<1>2. history[j] \cup {t} \in SUBSET (TaskIDs \cup {NoTask})
  BY <1>1
<1>3. QED
  BY <1>1, <1>2 DEF AddTask

(* What a step of one of the goroutines of an offer leaves of TypeOK. *)
StepType(j) ==
    /\ work' \in [JobIDs -> [pc : WorkPc, job : Job \cup {NoJob}]]
    /\ \A i \in JobIDs : work'[i].pc # "none" => work'[i].job # NoJob

(* A step of a goroutine keeps the type of its record.                     *)
LEMMA StepTypeLemma ==
    ASSUME TypeOK, NEW j \in JobIDs, NEW from \in WorkPc \ {"none"}, NEW to \in WorkPc,
           Step(j, from, to)
    PROVE  StepType(j)
<1>1. work[j] \in [pc : WorkPc, job : Job \cup {NoJob}] /\ work[j].job # NoJob
  BY DEF TypeOK, Step
<1>2. [work[j] EXCEPT !.pc = to] \in [pc : WorkPc, job : Job \cup {NoJob}]
  BY <1>1
<1>3. work' = [work EXCEPT ![j] = [work[j] EXCEPT !.pc = to]]
  BY DEF Step
<1>4. QED
  BY <1>1, <1>2, <1>3 DEF TypeOK, StepType

(* A job at rest is idle, has counted no retry and was not started later.  *)
LEMMA RestIsIdle ==
    ASSUME NEW p \in Period, NEW rt \in RestRuntime(p)
    PROVE  rt \in JobRuntime /\ rt.retries = 0 /\ rt.lastStart \in {0, p}
  BY BoundsAssumption DEF RestRuntime, NewRuntime, JobRuntime, State, Period

(* The initial states are well typed.                                      *)
LEMMA InitType == Init => TypeOK
<1> SUFFICES ASSUME Init PROVE TypeOK
  OBVIOUS
<1>1. now = 1 /\ now \in Period
  BY BoundsAssumption DEF Init, Period
<1>2. RestRuntime(now) \subseteq JobRuntime
  BY <1>1, RestIsIdle
<1>3. stored \in [JobIDs -> Job \cup {NoJob}]
  BY <1>2 DEF Init, Job
<1>4. QED
  BY <1>1, <1>3
  DEF Init, TypeOK, Period, IdleSync, EmptyCache, NoWork, WorkPc, NoUpdate

(* Every step keeps TypeOK.                                                *)
LEMMA TypeStep == TypeOK /\ [Next]_vars => TypeOK'
<1> SUFFICES ASSUME TypeOK, [Next]_vars PROVE TypeOK'
  OBVIOUS
<1>1. CASE Tick
  BY <1>1, BoundsAssumption DEF TypeOK, storage, cache, master, builds, Tick, Period
<1>2. ASSUME NEW j \in JobIDs, NEW m \in 0..RetryLimit, updateJob(j, m) PROVE TypeOK'
  <2>1. stored[j] \in Job
    BY <1>2 DEF TypeOK, updateJob
  <2>2. [stored[j] EXCEPT !.maxRetries = m] \in Job
    BY <2>1 DEF Job
  <2>3. stored' \in [JobIDs -> Job \cup {NoJob}]
    BY <1>2, <2>2 DEF TypeOK, updateJob
  <2>4. QED
    BY <1>2, <2>3 DEF TypeOK, storage, cache, master, builds, updateJob, EditStorage
<1>3. ASSUME NEW j \in JobIDs, NEW m \in 0..RetryLimit, createJob(j, m) PROVE TypeOK'
  <2>1. [maxRetries |-> m, rt |-> NewRuntime] \in Job
    BY BoundsAssumption DEF Job, JobRuntime, NewRuntime, State, Period
  <2>2. stored' \in [JobIDs -> Job \cup {NoJob}]
    BY <1>3, <2>1 DEF TypeOK, createJob
  <2>3. QED
    BY <1>3, <2>2 DEF TypeOK, storage, cache, master, builds, createJob, EditStorage
<1>4. ASSUME NEW j \in JobIDs, deleteJob(j) PROVE TypeOK'
  BY <1>4 DEF TypeOK, storage, cache, master, builds, deleteJob, EditStorage
<1>5. ASSUME NEW j \in JobIDs, runJob(j) PROVE TypeOK'
  BY <1>5 DEF TypeOK, storage, cache, master, builds, runJob, EditStorage
<1>6. CASE SyncReadJobs
  BY <1>6 DEF TypeOK, storage, cache, master, builds, SyncReadJobs, SyncUnchanged
<1>7. CASE SyncMergeJobs
  BY <1>7, MergeJobType DEF TypeOK, storage, cache, master, builds, SyncMergeJobs, SyncUnchanged, EmptyCache
<1>8. CASE SyncReadQueue
  BY <1>8 DEF TypeOK, storage, cache, master, builds, SyncReadQueue, SyncUnchanged
<1>9. CASE SyncSetQueue
  BY <1>9 DEF TypeOK, storage, cache, master, builds, SyncSetQueue, SyncUnchanged, IdleSync, EmptyCache
<1>10. ASSUME NEW S \in SUBSET JobIDs, findJobsForResources(S) PROVE TypeOK'
  BY <1>10, CountRetryType, NullAssumption DEF TypeOK, storage, cache, master, builds, findJobsForResources, Eligible, NoWork, WorkPc
<1>11. ASSUME NEW S \in SUBSET JobIDs, Accept(S) PROVE TypeOK'
  <2>1. mesos' \in [TaskIDs -> MesosState \cup {"none", "gone"}]
    BY <1>11 DEF TypeOK, Accept, MesosState, Live
  <2>2. ASSUME NEW j \in S
        PROVE  [runs[j] EXCEPT ![work[j].job.rt.lastStart] = @ + 1] \in [Period -> Nat]
    <3>1. work[j].job \in Job /\ runs[j] \in [Period -> Nat]
      BY <1>11, <2>2 DEF TypeOK, Accept, Built
    <3>2. work[j].job.rt.lastStart \in Period
      BY <3>1 DEF Job, JobRuntime
    <3>3. QED
      BY <3>1, <3>2
  <2>3. runs' \in [JobIDs -> [Period -> Nat]]
    BY <1>11, <2>2 DEF TypeOK, Accept
  <2>4. work' \in [JobIDs -> [pc : WorkPc, job : Job \cup {NoJob}]]
    BY <1>11 DEF TypeOK, Accept, NoWork, WorkPc
  <2>5. QED
    BY <1>11, <2>1, <2>3, <2>4 DEF TypeOK, storage, cache, master, builds, Accept, NoWork
<1>12. ASSUME NEW j \in JobIDs, BuildTask(j) PROVE TypeOK'
  <2>1. PICK u \in UUIDs :
          /\ issued' = issued \cup {taskID(j, u)}
          /\ work' = [work EXCEPT ![j] = [pc |-> "built",
                                         job |-> StagedJob(work[j].job, taskID(j, u))]]
    BY <1>12 DEF TypeOK, BuildTask
  <2>2. taskID(j, u) \in TaskIDs
    BY DEF taskID, TaskIDs
  <2>3. work[j].job \in Job
    BY <1>12 DEF TypeOK, BuildTask
  <2>4. StagedJob(work[j].job, taskID(j, u)) \in Job
    BY <2>2, <2>3, StagedJobType DEF TypeOK
  <2>5. work' \in [JobIDs -> [pc : WorkPc, job : Job \cup {NoJob}]]
    BY <2>1, <2>4 DEF TypeOK, WorkPc
  <2>6. \A i \in JobIDs : work'[i].pc # "none" => work'[i].job # NoJob
    BY <2>1, <2>4, NullAssumption DEF TypeOK
  <2>7. QED
    BY <1>12, <2>1, <2>2, <2>5, <2>6 DEF TypeOK, storage, cache, master, builds, BuildTask
<1>13. ASSUME NEW j \in JobIDs, BuildFails(j) PROVE TypeOK'
  <2>1. work[j].job \in Job
    BY <1>13 DEF TypeOK, BuildFails
  <2>2. FailedJob(work[j].job) \in Job
    BY <2>1, FailedJobType DEF TypeOK
  <2>3. work' = [work EXCEPT ![j] = [pc |-> "built", job |-> FailedJob(work[j].job)]]
    BY <1>13 DEF BuildFails
  <2>4. work' \in [JobIDs -> [pc : WorkPc, job : Job \cup {NoJob}]]
    BY <2>2, <2>3 DEF TypeOK, WorkPc
  <2>5. \A i \in JobIDs : work'[i].pc # "none" => work'[i].job # NoJob
    BY <2>2, <2>3, NullAssumption DEF TypeOK
  <2>6. reports' \in [JobIDs -> SUBSET {"pending", "error", "nil"}]
    BY <1>13 DEF TypeOK, BuildFails
  <2>7. QED
    BY <1>13, <2>4, <2>5, <2>6 DEF TypeOK, storage, cache, master, BuildFails
<1>14. ASSUME NEW j \in JobIDs, SaveBuilt(j) PROVE TypeOK'
  <2>1. work[j].job.rt \in JobRuntime
    BY <1>14 DEF TypeOK, SaveBuilt, Step, Job
  <2>2. PICK ok \in BOOLEAN : /\ SaveJobRuntime(j, work[j].job.rt, ok)
                              /\ reports' = [reports EXCEPT ![j] = AssignErr(@, ok)]
    BY <1>14 DEF SaveBuilt
  <2>3. StepType(j) /\ stored' \in [JobIDs -> Job \cup {NoJob}]
    BY <1>14, <2>1, <2>2, StepTypeLemma, SaveJobRuntimeType DEF SaveBuilt, Step, WorkPc
  <2>4. reports' \in [JobIDs -> SUBSET {"pending", "error", "nil"}]
    BY <2>2 DEF TypeOK, AssignErr
  <2>5. QED
    BY <1>14, <2>3, <2>4 DEF TypeOK, storage, cache, master, SaveBuilt, StepType
<1>15. ASSUME NEW j \in JobIDs, SetBuilt(j) PROVE TypeOK'
  <2>1. work[j].job \in Job
    BY <1>15 DEF TypeOK, SetBuilt, Step
  <2>2. StepType(j)
    BY <1>15, StepTypeLemma DEF SetBuilt, Step, WorkPc
  <2>3. QED
    BY <1>15, <2>1, <2>2 DEF TypeOK, storage, cache, master, builds, SetBuilt, StepType
<1>16. ASSUME NEW j \in JobIDs, DequeueStored(j) PROVE TypeOK'
  <2>1. StepType(j)
    BY <1>16, StepTypeLemma DEF DequeueStored, Step, WorkPc
  <2>2. QED
    BY <1>16, <2>1 DEF TypeOK, storage, cache, master, builds, DequeueStored, Withdrawn, StepType
<1>17. ASSUME NEW j \in JobIDs, DequeueCached(j) PROVE TypeOK'
  BY <1>17 DEF TypeOK, storage, cache, master, builds, DequeueCached, Step, WorkPc
<1>18. ASSUME NEW j \in JobIDs, NotQueued(j) PROVE TypeOK'
  <2>1. StepType(j)
    BY <1>18, StepTypeLemma DEF NotQueued, Step, WorkPc
  <2>2. QED
    BY <1>18, <2>1 DEF TypeOK, storage, cache, master, builds, NotQueued, StepType
<1>19. ASSUME NEW j \in JobIDs, BookingExpires(j) PROVE TypeOK'
  BY <1>19 DEF TypeOK, storage, cache, master, builds, BookingExpires
<1>20. CASE AcceptNothing
  BY <1>20 DEF TypeOK, storage, cache, master, builds, AcceptNothing, NoWork, WorkPc
<1>21. CASE GetUpdated
  <2> DEFINE m == Head(stream)
             j == parseTaskID(m.task)
             job == [jobs[j] EXCEPT !.rt = ApplyUpdate(@, m.state)]
  <2>1. m \in Update /\ stream' \in Seq(Update)
    BY <1>21 DEF TypeOK, GetUpdated
  <2>2. m.task \in TaskIDs /\ m.state \in MesosState /\ j \in JobIDs
    BY <2>1 DEF Update, parseTaskID, TaskIDs
  <2>3. jobs[j] \in Job
    BY <1>21, <2>2 DEF TypeOK, GetUpdated
  <2>4. job \in Job
    BY <2>2, <2>3, ApplyUpdateType DEF Job
  <2>5. history' \in [JobIDs -> SUBSET (TaskIDs \cup {NoTask})]
    BY <1>21, <2>2, AddTaskType DEF TypeOK, GetUpdated
  <2>6. upd' = [pc |-> "set", msg |-> m, job |-> job]
    BY <1>21 DEF GetUpdated
  <2>7. m # NoTask
    BY <1>21, <2>1, MessageAssumption
  <2> HIDE DEF m, j, job
  <2>8. QED
    <3>1. /\ upd' \in [pc  : {"none", "set", "save", "ack"},
                       msg : Update \cup {NoTask},
                       job : Job \cup {NoJob}]
          /\ upd'.pc # "none" => upd'.msg # NoTask
          /\ upd'.pc \in {"set", "save"} => upd'.job # NoJob
      BY <2>1, <2>4, <2>6, <2>7, NullAssumption
    <3>2. UNCHANGED <<now, stored, queue, jobs, bookedJobs, queuedJobs, sync, builds,
                      recTasks, mesos, ack, issued, runs>> /\ loop' = "update"
      BY <1>21 DEF GetUpdated, cache
    <3>3. QED
      BY <2>1, <2>5, <3>1, <3>2 DEF TypeOK, builds
<1>22. CASE IgnoreUpdate
  <2>1. Head(stream) \in Update /\ stream' \in Seq(Update)
    BY <1>22 DEF TypeOK, IgnoreUpdate
  <2>2. upd' = [pc |-> "ack", msg |-> Head(stream), job |-> NoJob]
    BY <1>22 DEF IgnoreUpdate
  <2>3. Head(stream) # NoTask
    BY <2>1, MessageAssumption
  <2>4. QED
    BY <1>22, <2>1, <2>2, <2>3 DEF TypeOK, storage, cache, master, builds, IgnoreUpdate
<1>23. CASE SetUpdated
  BY <1>23 DEF TypeOK, storage, cache, master, builds, SetUpdated, Update, parseTaskID, TaskIDs
<1>24. CASE SaveUpdated
  <2>1. PICK ok \in BOOLEAN : SaveJobRuntime(parseTaskID(upd.msg.task), upd.job.rt, ok)
    BY <1>24 DEF SaveUpdated
  <2>2. parseTaskID(upd.msg.task) \in JobIDs /\ upd.job.rt \in JobRuntime
    BY <1>24 DEF TypeOK, SaveUpdated, Update, parseTaskID, TaskIDs, Job
  <2>3. stored' \in [JobIDs -> Job \cup {NoJob}]
    BY <2>1, <2>2, SaveJobRuntimeType
  <2>4. QED
    BY <1>24, <2>3 DEF TypeOK, storage, cache, master, builds, SaveUpdated
<1>25. CASE AckUpdate
  <2>1. upd.msg \in Update /\ upd.msg.task \in TaskIDs
    BY <1>25 DEF TypeOK, AckUpdate, Update
  <2>2. recTasks' \subseteq TaskIDs
    BY <1>25 DEF TypeOK, AckUpdate
  <2>3. /\ ack' \in [TaskIDs -> {"acked", "pending", "sent"}]
        /\ mesos' \in [TaskIDs -> MesosState \cup {"none", "gone"}]
    BY <1>25, <2>1 DEF TypeOK, AckUpdate
  <2>4. \A t \in TaskIDs : ack'[t] # "acked" => mesos'[t] \in MesosState
    BY <1>25, <2>1 DEF TypeOK, AckUpdate
  <2>5. upd' = NoUpdate /\ loop' = "poll"
    BY <1>25 DEF AckUpdate
  <2>6. UNCHANGED <<now, storage, cache, sync, builds, stream, issued, runs>>
    BY <1>25 DEF AckUpdate
  <2>7. QED
    BY <2>2, <2>3, <2>4, <2>5, <2>6 DEF TypeOK, storage, cache, builds, NoUpdate
<1>26. CASE AckFails
  BY <1>26 DEF TypeOK, storage, cache, master, builds, AckFails, DropStream, NoUpdate
<1>27. ASSUME NEW t \in TaskIDs, TaskStep(t) PROVE TypeOK'
  BY <1>27 DEF TypeOK, storage, cache, master, builds, TaskStep, TaskNext, MesosUnchanged, MesosState, Live, Terminal
<1>28. ASSUME NEW t \in TaskIDs, SendUpdate(t) PROVE TypeOK'
  <2>1. [task |-> t, state |-> mesos[t], recon |-> FALSE] \in Update
    BY <1>28 DEF TypeOK, Update, SendUpdate
  <2>2. stream' \in Seq(Update)
    BY <1>28, <2>1 DEF TypeOK, SendUpdate
  <2>3. ack' \in [TaskIDs -> {"acked", "pending", "sent"}]
    BY <1>28 DEF TypeOK, SendUpdate
  <2>4. QED
    BY <1>28, <2>2, <2>3 DEF TypeOK, storage, cache, master, builds, SendUpdate, MesosUnchanged
<1>29. ASSUME NEW t \in TaskIDs, ReconcileReply(t) PROVE TypeOK'
  <2>1. [task |-> t, state |-> ReconciledState(t), recon |-> TRUE] \in Update
    BY DEF TypeOK, Update, ReconciledState, MesosState, Terminal
  <2>2. stream' \in Seq(Update)
    BY <1>29, <2>1 DEF TypeOK, ReconcileReply
  <2>3. QED
    BY <1>29, <2>2 DEF TypeOK, storage, cache, master, builds, ReconcileReply, MesosUnchanged
<1>30. CASE Disconnect
  BY <1>30 DEF TypeOK, storage, cache, master, builds, Disconnect, DropStream, MesosUnchanged
<1>31. CASE ReconcileStart
  BY <1>31 DEF TypeOK, storage, cache, master, builds, ReconcileStart, StoredTasks, MesosUnchanged, Job, JobRuntime
<1>32. CASE ReconcileFails
  BY <1>32 DEF TypeOK, storage, cache, master, builds, ReconcileFails, MesosUnchanged
<1>33. ASSUME Restart PROVE TypeOK'
  BY <1>33
  DEF TypeOK, storage, Restart, DropStream, IdleSync, EmptyCache, NoWork, WorkPc, NoUpdate
<1>34. ASSUME NEW j \in JobIDs, ReportFailure(j) PROVE TypeOK'
  <2>1. history' \in [JobIDs -> SUBSET (TaskIDs \cup {NoTask})]
    BY <1>34, AddTaskType DEF ReportFailure
  <2>2. reports' \in [JobIDs -> SUBSET {"pending", "error", "nil"}]
    BY <1>34 DEF TypeOK, ReportFailure
  <2>3. QED
    BY <1>34, <2>1, <2>2 DEF TypeOK, storage, cache, master, ReportFailure
<1>35. CASE UNCHANGED vars
  BY <1>35 DEF TypeOK, storage, cache, master, builds, vars
<1>36. QED
  BY <1>1, <1>2, <1>3, <1>4, <1>5, <1>6, <1>7, <1>8, <1>9, <1>10, <1>11, <1>12, <1>13, <1>14, <1>15, <1>16, <1>17, <1>18, <1>19, <1>20, <1>21, <1>22, <1>23, <1>24, <1>25, <1>26, <1>27, <1>28, <1>29, <1>30, <1>31, <1>32, <1>33, <1>34, <1>35
  DEF Next, APINext, SyncNext, OfferNext, BuildNext, UpdateNext, MesosNext, Failover,
      ReportPanics

(* Every variable has its type in every reachable state, whatever the      *)
(* environment does.                                                       *)
THEOREM TypeCorrect == Spec => []TypeOK
<1>1. Init => TypeOK
  BY InitType
<1>2. QED
  BY <1>1, TypeStep, PTL DEF Spec
-----------------------------------------------------------------------------
(* What holds whatever the environment may do: the event loop does one     *)
(* thing at a time, task identifiers are fresh, and, unless jobs are       *)
(* deleted (or unless they are created), caches and storage know the same  *)
(* jobs.                                                                   *)

(* The event loop does one thing at a time. *)
OneEvent ==
    /\ \A j \in JobIDs : work[j].pc # "none" => loop = "build"
    /\ upd.pc # "none" => loop = "update"

ReportsFailures == \A j \in JobIDs : reports[j] # {} => "secretfail" \in Features

(* What was launched has been handed out; what a goroutine has built is a  *)
(* task of its job, handed out and not launched.                           *)
Fresh ==
    /\ \A t \in TaskIDs : mesos[t] # "none" => t \in issued
    /\ \A j \in Built : /\ \E u \in UUIDs : work[j].job.rt.task = taskID(j, u)
                        /\ work[j].job.rt.task \in issued
                        /\ mesos[work[j].job.rt.task] = "none"

(* Updates that are no answers to the reconciler are about launched tasks. *)
Announced ==
    \A i \in 1..Len(stream) : ~stream[i].recon => mesos[stream[i].task] # "none"

(* Without deleteJob a job with a task, or with work or an update under    *)
(* way, is in the cache, and what is in the cache is in storage.           *)
Known ==
    /\ \A j \in JobIDs : jobs[j] # NoJob => stored[j] # NoJob
    /\ sync.pc = "jobs" => \A j \in JobIDs : /\ jobs[j] # NoJob => sync.jobs[j] # NoJob
                                             /\ sync.jobs[j] # NoJob => stored[j] # NoJob
    /\ \A j \in JobIDs : work[j].pc # "none" => jobs[j] # NoJob
    /\ upd.pc \in {"set", "save"} => jobs[parseTaskID(upd.msg.task)] # NoJob
    /\ \A t \in TaskIDs : mesos[t] # "none" => jobs[parseTaskID(t)] # NoJob

(* Without createJob a job that has left the cache has left storage.       *)
EvictedAreDeleted ==
    \A j \in JobIDs :
        /\ jobs[j] = NoJob => stored[j] = NoJob
        /\ sync.pc = "jobs" /\ jobs[j] = NoJob => sync.jobs[j] = NoJob
        /\ sync.pc = "jobs" /\ sync.jobs[j] = NoJob => stored[j] = NoJob

BaseInv ==
    /\ TypeOK
    /\ OneEvent
    /\ ReportsFailures
    /\ Fresh
    /\ Announced
    /\ "delete" \notin Features => Known
    /\ "create" \notin Features => EvictedAreDeleted

(* A job is not deleted and created again: its runtime is not started over.*)
KeptIdentity == ~({"create", "delete"} \subseteq Features)

(* A task identifier names its job. *)
LEMMA TaskIDType ==
    /\ \A t \in TaskIDs : parseTaskID(t) \in JobIDs
    /\ \A j \in JobIDs, u \in UUIDs : taskID(j, u) \in TaskIDs /\ parseTaskID(taskID(j, u)) = j
  BY DEF TaskIDs, taskID, parseTaskID

(* Messages are well typed, on their way and when handled. *)
LEMMA MessageType ==
    ASSUME TypeOK
    PROVE  /\ stream \in Seq(Update)
           /\ \A i \in 1..Len(stream) : /\ stream[i] \in Update /\ stream[i].task \in TaskIDs
                                        /\ stream[i].state \in MesosState
           /\ upd.pc # "none" => /\ upd.msg \in Update /\ upd.msg.task \in TaskIDs
                                 /\ upd.msg.state \in MesosState
                                 /\ parseTaskID(upd.msg.task) \in JobIDs
           /\ stream # <<>> => Head(stream) = stream[1] /\ 1 \in 1..Len(stream)
<1>1. stream \in Seq(Update)
  BY DEF TypeOK
<1>2. \A i \in 1..Len(stream) : stream[i] \in Update
  BY <1>1
<1>3. upd.pc # "none" => upd.msg \in Update
  BY DEF TypeOK
<1> QED
  BY <1>1, <1>2, <1>3, TaskIDType DEF Update

(* Three things happen to tasks: tasks of an offer are launched, a task    *)
(* moves on, the end of a task is acknowledged.                            *)
LEMMA TaskEvents ==
    ASSUME [Next]_vars
    PROVE  \/ UNCHANGED mesos
           \/ \E S \in SUBSET JobIDs : Accept(S)
           \/ \E t \in TaskIDs : TaskStep(t)
           \/ AckUpdate
<1>1. CASE \/ Tick \/ APINext \/ SyncNext \/ UNCHANGED vars \/ AcceptNothing
           \/ \E S \in SUBSET JobIDs : findJobsForResources(S)
           \/ \E j \in JobIDs : BookingExpires(j) \/ ReportFailure(j)
           \/ GetUpdated \/ IgnoreUpdate \/ SetUpdated \/ SaveUpdated \/ AckFails
           \/ \E t \in TaskIDs : SendUpdate(t) \/ ReconcileReply(t)
           \/ Disconnect \/ ReconcileStart \/ ReconcileFails \/ Restart
  BY <1>1
  DEF master, vars, Tick, APINext, updateJob, createJob, deleteJob, runJob,
      EditStorage, SyncNext, SyncReadJobs, SyncMergeJobs, SyncReadQueue, SyncSetQueue,
      SyncUnchanged, AcceptNothing, findJobsForResources, BookingExpires, ReportFailure, GetUpdated,
      IgnoreUpdate, SetUpdated, SaveUpdated, AckFails, SendUpdate, ReconcileReply, Disconnect,
      ReconcileStart, ReconcileFails, MesosUnchanged, Restart
<1>2. CASE \E j \in JobIDs : BuildNext(j)
  BY <1>2
  DEF master, BuildNext, BuildTask, BuildFails, SaveBuilt, SetBuilt, DequeueStored,
      DequeueCached, NotQueued
<1> QED
  BY <1>1, <1>2 DEF Next, OfferNext, UpdateNext, MesosNext, Failover, ReportPanics

(* A task moves on only while it runs. *)
LEMMA TaskMoves ==
    ASSUME TypeOK, NEW t \in TaskIDs, TaskStep(t)
    PROVE  /\ mesos[t] \in Live /\ mesos'[t] \in MesosState
           /\ \A u \in TaskIDs : u # t => mesos'[u] = mesos[u]
  BY DEF TypeOK, TaskStep, TaskNext, MesosState, Live, Terminal

(* A task is forgotten when its end has been acknowledged. *)
LEMMA AckMoves ==
    ASSUME TypeOK, AckUpdate
    PROVE  \/ UNCHANGED mesos
           \/ /\ ~upd.msg.recon /\ upd.msg.task \in TaskIDs
              /\ mesos[upd.msg.task] = upd.msg.state /\ upd.msg.state \in Terminal
              /\ mesos'[upd.msg.task] = "gone"
              /\ \A t \in TaskIDs : t # upd.msg.task => mesos'[t] = mesos[t]
<1>1. upd.pc = "ack"
  BY DEF AckUpdate
<1>2. upd.msg.task \in TaskIDs
  BY <1>1, MessageType
<1> QED
  BY <1>2 DEF AckUpdate, TypeOK

(* The tasks that are launched are those of goroutines, one for each job.  *)
LEMMA Launched ==
    ASSUME TypeOK, Fresh, NEW S \in SUBSET JobIDs, Accept(S)
    PROVE  /\ \A j \in S : /\ j \in Built /\ work[j].pc = "done"
                           /\ work[j].job.rt.state = "Staging"
                           /\ work[j].job.rt.task \in issued
                           /\ work[j].job.rt.task \in TaskIDs
                           /\ parseTaskID(work[j].job.rt.task) = j
                           /\ mesos[work[j].job.rt.task] = "none"
           /\ \A t \in TaskIDs :
                mesos'[t] = IF parseTaskID(t) \in S /\ t = work[parseTaskID(t)].job.rt.task
                            THEN "Staging" ELSE mesos[t]
<1>1. ASSUME NEW j \in S
      PROVE  /\ j \in Built /\ work[j].pc = "done" /\ work[j].job.rt.state = "Staging"
             /\ work[j].job.rt.task \in issued
             /\ work[j].job.rt.task \in TaskIDs
             /\ parseTaskID(work[j].job.rt.task) = j
             /\ mesos[work[j].job.rt.task] = "none"
  <2>1. j \in Built /\ work[j].pc = "done" /\ work[j].job.rt.state = "Staging"
    BY <1>1 DEF Accept, AllBuilt, Built
  <2> QED
    BY <2>1, TaskIDType DEF Fresh
<1> QED
  BY <1>1 DEF Accept

(* Only a launch makes a task known to Mesos, and nothing makes it unknown.*)
LEMMA KnownToMesos ==
    ASSUME TypeOK, Fresh, [Next]_vars
    PROVE  /\ \A t \in TaskIDs : mesos[t] # "none" => mesos'[t] # "none"
           /\ \/ \E S \in SUBSET JobIDs : Accept(S)
              \/ \A t \in TaskIDs : mesos'[t] = "none" <=> mesos[t] = "none"
<1>1. CASE UNCHANGED mesos
  BY <1>1
<1>2. CASE \E S \in SUBSET JobIDs : Accept(S)
  BY <1>2, Launched
<1>3. ASSUME NEW t \in TaskIDs, TaskStep(t)
      PROVE  \A u \in TaskIDs : mesos'[u] = "none" <=> mesos[u] = "none"
  BY <1>3, TaskMoves DEF MesosState, Live, Terminal
<1>4. CASE AckUpdate
  BY <1>4, AckMoves DEF Terminal
<1> QED
  BY <1>1, <1>2, <1>3, <1>4, TaskEvents

LEMMA EventStep ==
    ASSUME TypeOK, OneEvent, [Next]_vars
    PROVE  OneEvent'
<1>1. ASSUME UNCHANGED <<loop, work, upd>> PROVE OneEvent'
  BY <1>1 DEF OneEvent
<1>2. CASE Tick \/ APINext \/ SyncNext \/ MesosNext \/ UNCHANGED vars
           \/ \E j \in JobIDs : BookingExpires(j) \/ ReportFailure(j)
  BY <1>1, <1>2
  DEF builds, vars, Tick, APINext, updateJob, createJob, deleteJob, runJob, EditStorage,
      SyncNext, SyncReadJobs, SyncMergeJobs, SyncReadQueue, SyncSetQueue, SyncUnchanged,
      MesosNext, TaskStep, SendUpdate, ReconcileReply, Disconnect, ReconcileStart,
      ReconcileFails, MesosUnchanged, BookingExpires, ReportFailure
<1>3. ASSUME NEW j \in JobIDs, BuildNext(j) PROVE OneEvent'
  <2>1. UNCHANGED <<loop, upd>> /\ \A i \in JobIDs : work'[i].pc # "none" => work[i].pc # "none"
    BY <1>3 DEF TypeOK, BuildNext, BuildTask, BuildFails, SaveBuilt, SetBuilt, DequeueStored,
                DequeueCached, NotQueued, Step
  <2> QED
    BY <2>1 DEF OneEvent
<1>4. ASSUME NEW S \in SUBSET JobIDs, findJobsForResources(S) PROVE OneEvent'
  BY <1>4 DEF OneEvent, findJobsForResources
<1>5. ASSUME NEW S \in SUBSET JobIDs, Accept(S) \/ AcceptNothing PROVE OneEvent'
  BY <1>5 DEF OneEvent, Accept, AcceptNothing, AllBuilt, NoWork
<1>6. CASE GetUpdated \/ IgnoreUpdate
  BY <1>6 DEF OneEvent, GetUpdated, IgnoreUpdate, builds
<1>7. CASE SetUpdated \/ SaveUpdated
  BY <1>7 DEF OneEvent, SetUpdated, SaveUpdated, builds
<1>8. CASE AckUpdate \/ AckFails
  BY <1>8 DEF OneEvent, AckUpdate, AckFails, NoUpdate, builds
<1>9. CASE Restart
  BY <1>9 DEF OneEvent, Restart, NoWork, NoUpdate
<1> QED
  BY <1>2, <1>3, <1>4, <1>5, <1>6, <1>7, <1>8, <1>9
  DEF Next, OfferNext, UpdateNext, Failover, ReportPanics

(* Failures are reported only where builds may fail.                       *)
LEMMA ReportsStep == TypeOK /\ ReportsFailures /\ [Next]_vars => ReportsFailures'
<1> SUFFICES ASSUME TypeOK, ReportsFailures, [Next]_vars PROVE ReportsFailures'
  OBVIOUS
<1>1. CASE UNCHANGED reports
  BY <1>1 DEF ReportsFailures
<1>2. ASSUME NEW j \in JobIDs, BuildFails(j) PROVE ReportsFailures'
  BY <1>2 DEF ReportsFailures, BuildFails
<1>3. ASSUME NEW j \in JobIDs, SaveBuilt(j) PROVE ReportsFailures'
  <2>1. PICK ok \in BOOLEAN : reports' = [reports EXCEPT ![j] = AssignErr(@, ok)]
    BY <1>3 DEF SaveBuilt
  <2>2. AssignErr(reports[j], ok) # {} => reports[j] # {}
    BY DEF AssignErr
  <2>3. QED
    BY <2>1, <2>2 DEF TypeOK, ReportsFailures
<1>4. ASSUME NEW j \in JobIDs, ReportFailure(j) PROVE ReportsFailures'
  BY <1>4 DEF TypeOK, ReportsFailures, ReportFailure
<1>5. CASE Restart
  BY <1>5 DEF ReportsFailures, Restart
<1>6. CASE Tick \/ APINext \/ SyncNext \/ UpdateNext \/ MesosNext \/ UNCHANGED vars
  BY <1>1, <1>6
  DEF builds, vars, Tick, APINext, updateJob, createJob, deleteJob, runJob, EditStorage,
      SyncNext, SyncReadJobs, SyncMergeJobs, SyncReadQueue, SyncSetQueue, SyncUnchanged,
      UpdateNext, GetUpdated, IgnoreUpdate, SetUpdated, SaveUpdated, AckUpdate, AckFails,
      MesosNext, TaskStep, SendUpdate, ReconcileReply, Disconnect, ReconcileStart,
      ReconcileFails, MesosUnchanged
<1>7. ASSUME NEW S \in SUBSET JobIDs, findJobsForResources(S) \/ Accept(S) PROVE UNCHANGED reports
  BY <1>7 DEF findJobsForResources, Accept
<1>8. ASSUME NEW j \in JobIDs,
             BuildTask(j) \/ SetBuilt(j) \/ DequeueStored(j) \/ DequeueCached(j)
                \/ NotQueued(j) \/ BookingExpires(j)
      PROVE  UNCHANGED reports
  BY <1>8 DEF BuildTask, SetBuilt, DequeueStored, DequeueCached, NotQueued, BookingExpires,
              builds
<1>9. CASE AcceptNothing
  BY <1>1, <1>9 DEF AcceptNothing
<1>10. QED
  BY <1>1, <1>2, <1>3, <1>4, <1>5, <1>6, <1>7, <1>8, <1>9
  DEF Next, OfferNext, BuildNext, Failover, ReportPanics

(* Identifiers stay fresh: whatever goroutines, launches and restarts do.  *)
LEMMA FreshStep ==
    ASSUME TypeOK, Fresh, [Next]_vars
    PROVE  Fresh'
<1>1. issued \subseteq issued'
  BY DEF Next, vars, Tick, APINext, updateJob, createJob, deleteJob, runJob, EditStorage,
         SyncNext, SyncReadJobs, SyncMergeJobs, SyncReadQueue, SyncSetQueue, SyncUnchanged,
         OfferNext, Accept, AcceptNothing, findJobsForResources, BuildNext, BuildTask, BuildFails,
         SaveBuilt, SetBuilt, DequeueStored, DequeueCached, NotQueued, BookingExpires, ReportFailure,
         UpdateNext, GetUpdated, IgnoreUpdate, SetUpdated, SaveUpdated, AckUpdate, AckFails,
         MesosNext, TaskStep, SendUpdate, ReconcileReply, MesosUnchanged, Restart,
         Disconnect, ReconcileStart, ReconcileFails, Failover, ReportPanics
<1>2. \/ \E S \in SUBSET JobIDs : Accept(S)
      \/ \A t \in TaskIDs : mesos'[t] = "none" <=> mesos[t] = "none"
  BY KnownToMesos
<1>3. ASSUME \A t \in TaskIDs : mesos'[t] = "none" <=> mesos[t] = "none",
             \A j \in JobIDs : \/ work'[j].job = work[j].job /\ (j \in Built' => j \in Built)
                               \/ j \notin Built'
      PROVE  Fresh'
  <2>1. \A j \in Built : work[j].job.rt.task \in TaskIDs
    BY TaskIDType DEF Fresh, Built
  <2>2. \A j \in Built' : j \in JobIDs /\ j \in Built /\ work'[j].job = work[j].job
    BY <1>3 DEF Built
  <2> QED
    BY <1>1, <1>3, <2>1, <2>2 DEF Fresh
<1>4. ASSUME NEW S \in SUBSET JobIDs, Accept(S) PROVE Fresh'
  <2>1. Built' = {}
    BY <1>4 DEF Accept, NoWork, Built
  <2>2. \A t \in TaskIDs : mesos'[t] # "none" => t \in issued'
    BY <1>1, <1>4, Launched DEF Fresh
  <2> QED
    BY <2>1, <2>2 DEF Fresh
<1>5. ASSUME NEW j \in JobIDs, BuildTask(j) PROVE Fresh'
  <2>1. PICK u \in UUIDs :
          /\ taskID(j, u) \notin issued /\ issued' = issued \cup {taskID(j, u)}
          /\ work' = [work EXCEPT ![j] = [pc |-> "built", job |-> StagedJob(work[j].job, taskID(j, u))]]
    BY <1>5 DEF BuildTask
  <2>2. UNCHANGED mesos /\ work[j].pc = "picked"
    BY <1>5 DEF BuildTask, master
  <2>3. work[j].job \in Job /\ now \in Period
    BY <2>2 DEF TypeOK
  <2>4. StagedJob(work[j].job, taskID(j, u)).rt.task = taskID(j, u)
    BY <2>3 DEF StagedJob, Job, JobRuntime
  <2>5. taskID(j, u) \in TaskIDs /\ mesos[taskID(j, u)] = "none"
    BY <2>1, TaskIDType DEF Fresh
  <2>6. \A i \in JobIDs : work'[i] = IF i = j THEN [pc |-> "built", job |-> StagedJob(work[j].job, taskID(j, u))]
                                              ELSE work[i]
    BY <2>1 DEF TypeOK
  <2>7. /\ work'[j].job.rt.task = taskID(j, u)
        /\ \A i \in JobIDs : i # j => work'[i] = work[i]
    BY <2>4, <2>6
  <2>8. \A i \in Built' : /\ \E v \in UUIDs : work'[i].job.rt.task = taskID(i, v)
                          /\ work'[i].job.rt.task \in issued'
                          /\ mesos'[work'[i].job.rt.task] = "none"
    <3>1. TAKE i \in Built'
    <3>2. CASE i = j
      BY <2>1, <2>2, <2>5, <2>7, <3>2
    <3>3. CASE i # j
      <4>1. i \in Built /\ work'[i] = work[i]
        BY <2>7, <3>3 DEF Built
      <4> QED
        BY <1>1, <2>2, <4>1 DEF Fresh
    <3> QED
      BY <3>2, <3>3
  <2> QED
    BY <1>1, <2>2, <2>8 DEF Fresh
<1>6. ASSUME NEW j \in JobIDs, BuildNext(j), ~BuildTask(j) PROVE Fresh'
  <2>1. UNCHANGED mesos /\ work[j].pc \in WorkPc \ {"none"} /\ work[j].job \in Job
    <3>1. UNCHANGED mesos /\ work[j].pc \in WorkPc \ {"none"}
      BY <1>6 DEF BuildNext, BuildFails, SaveBuilt, SetBuilt, DequeueStored, DequeueCached,
                  NotQueued, Step, master, WorkPc
    <3> QED
      BY <3>1 DEF TypeOK
  <2>2. CASE BuildFails(j)
    <3>1. FailedJob(work[j].job).rt.state = "Failed"
      BY <2>1 DEF FailedJob, Job, JobRuntime
    <3>2. \A i \in JobIDs : /\ i # j => work'[i] = work[i]
                            /\ i = j => work'[i].job.rt.state = "Failed"
      BY <2>2, <3>1 DEF BuildFails, TypeOK
    <3>3. \A i \in JobIDs : \/ work'[i].job = work[i].job /\ (i \in Built' => i \in Built)
                            \/ i \notin Built'
      BY <3>2 DEF Built
    <3> QED
      BY <1>3, <2>1, <3>3
  <2>3. CASE \E to \in WorkPc : work' = [work EXCEPT ![j].pc = to] /\ work[j].pc # "picked"
    <3>1. \A i \in JobIDs : work'[i].job = work[i].job /\ (i # j => work'[i] = work[i])
      BY <2>3 DEF TypeOK
    <3>2. \A i \in JobIDs : i \in Built' => i \in Built
      BY <2>1, <2>3, <3>1 DEF Built
    <3> QED
      BY <1>3, <2>1, <3>1, <3>2
  <2> QED
    BY <1>6, <2>2, <2>3
    DEF WorkPc, BuildNext, SaveBuilt, SetBuilt, DequeueStored, DequeueCached, NotQueued, Step
<1>7. CASE (~\E j \in JobIDs : BuildNext(j)) /\ ~\E S \in SUBSET JobIDs : Accept(S)
  <2>1. \A j \in JobIDs : work'[j] = work[j] \/ work'[j].pc \in {"none", "picked"}
    <3>1. CASE \/ Tick \/ APINext \/ SyncNext \/ UNCHANGED vars \/ MesosNext
               \/ \E j \in JobIDs : BookingExpires(j) \/ ReportFailure(j)
               \/ UpdateNext
      BY <3>1
      DEF vars, builds, Tick, APINext, updateJob, createJob, deleteJob, runJob, EditStorage,
          SyncNext, SyncReadJobs, SyncMergeJobs, SyncReadQueue, SyncSetQueue, SyncUnchanged,
          BookingExpires, ReportFailure, UpdateNext, GetUpdated, IgnoreUpdate, SetUpdated,
          SaveUpdated, AckUpdate, AckFails,
          MesosNext, TaskStep, SendUpdate, ReconcileReply, MesosUnchanged,
          Disconnect, ReconcileStart, ReconcileFails
    <3>2. ASSUME NEW S \in SUBSET JobIDs, findJobsForResources(S)
          PROVE  \A j \in JobIDs : work'[j].pc \in {"none", "picked"}
      BY <3>2 DEF findJobsForResources, NoWork
    <3>3. CASE AcceptNothing \/ Restart
      BY <3>3 DEF AcceptNothing, Restart, NoWork
    <3> QED
      BY <1>7, <3>1, <3>2, <3>3 DEF Next, OfferNext, Failover, ReportPanics
  <2>2. \A j \in JobIDs : \/ work'[j].job = work[j].job /\ (j \in Built' => j \in Built)
                          \/ j \notin Built'
    BY <2>1 DEF Built
  <2> QED
    BY <1>2, <1>3, <1>7, <2>2
<1> QED
  BY <1>4, <1>5, <1>6, <1>7

(* Mesos sends updates of tasks it was given. *)
LEMMA AnnouncedStep ==
    ASSUME TypeOK, Fresh, Announced, [Next]_vars
    PROVE  Announced'
<1>0. \A t \in TaskIDs : mesos[t] # "none" => mesos'[t] # "none"
  BY KnownToMesos
<1>1. CASE UNCHANGED stream
  BY <1>0, <1>1, MessageType DEF Announced
<1>2. CASE GetUpdated \/ IgnoreUpdate
  <2>1. stream # <<>> /\ stream' = Tail(stream)
    BY <1>2 DEF GetUpdated, IgnoreUpdate
  <2>2. \A i \in 1..Len(stream') : i + 1 \in 1..Len(stream) /\ stream'[i] = stream[i + 1]
    BY <2>1, MessageType
  <2> QED
    BY <1>0, <2>2, MessageType DEF Announced
<1>3. ASSUME NEW t \in TaskIDs, SendUpdate(t) \/ ReconcileReply(t) PROVE Announced'
  <2>1. PICK m \in Update : stream' = Append(stream, m) /\ (m.recon \/ mesos[m.task] # "none")
    <3>1. CASE SendUpdate(t)
      <4>1. mesos[t] \in MesosState /\ mesos[t] # "none"
        BY <3>1 DEF SendUpdate, TypeOK, MesosState, Live, Terminal
      <4>2. [task |-> t, state |-> mesos[t], recon |-> FALSE] \in Update
        BY <4>1 DEF Update
      <4> QED
        BY <3>1, <4>1, <4>2 DEF SendUpdate
    <3>2. CASE ReconcileReply(t)
      <4>1. [task |-> t, state |-> ReconciledState(t), recon |-> TRUE] \in Update
        BY DEF Update, ReconciledState, TypeOK, MesosState, Terminal
      <4> QED
        BY <3>2, <4>1 DEF ReconcileReply
    <3> QED
      BY <1>3, <3>1, <3>2
  <2>2. \A i \in 1..Len(stream') : stream'[i] = m \/ (i \in 1..Len(stream) /\ stream'[i] = stream[i])
    BY <2>1, MessageType
  <2>3. m.task \in TaskIDs
    BY DEF Update
  <2> QED
    BY <1>0, <2>1, <2>2, <2>3, MessageType DEF Announced
<1>4. CASE AckFails \/ Disconnect \/ Restart
  <2>1. stream' = <<>>
    BY <1>4 DEF AckFails, Disconnect, Restart, DropStream
  <2> QED
    BY <2>1 DEF Announced
<1>5. CASE \/ Tick \/ APINext \/ SyncNext \/ UNCHANGED vars \/ AcceptNothing
           \/ \E S \in SUBSET JobIDs : findJobsForResources(S) \/ Accept(S)
           \/ \E j \in JobIDs : BookingExpires(j) \/ ReportFailure(j)
           \/ SetUpdated \/ SaveUpdated \/ AckUpdate
           \/ \E t \in TaskIDs : TaskStep(t)
           \/ ReconcileStart \/ ReconcileFails
  BY <1>1, <1>5
  DEF master, vars, Tick, APINext, updateJob, createJob, deleteJob, runJob,
      EditStorage, SyncNext, SyncReadJobs, SyncMergeJobs, SyncReadQueue, SyncSetQueue,
      SyncUnchanged, AcceptNothing, Accept, findJobsForResources, BookingExpires, ReportFailure,
      SetUpdated, SaveUpdated, AckUpdate, TaskStep, ReconcileStart, ReconcileFails, MesosUnchanged
<1>6. CASE \E j \in JobIDs : BuildNext(j)
  BY <1>1, <1>6
  DEF master, BuildNext, BuildTask, BuildFails, SaveBuilt, SetBuilt, DequeueStored,
      DequeueCached, NotQueued
<1> QED
  BY <1>2, <1>3, <1>4, <1>5, <1>6
  DEF Next, OfferNext, UpdateNext, MesosNext, Failover, ReportPanics

(* Editing, creating and saving jobs removes none. *)
LEMMA StoredStays ==
    ASSUME TypeOK, NEW j \in JobIDs, NEW m \in 0..RetryLimit, updateJob(j, m) \/ createJob(j, m)
    PROVE  /\ \A i \in JobIDs : stored[i] # NoJob => stored'[i] # NoJob /\ stored'[i].rt = stored[i].rt
           /\ \A i \in JobIDs : stored[i] = NoJob /\ stored'[i] # NoJob =>
                                  "create" \in Features /\ stored'[i].rt = NewRuntime
           /\ UNCHANGED <<now, queue, history, jobs, bookedJobs, queuedJobs, sync, loop, work, reports,
                          upd, mesos, ack, stream, issued, runs>>
<1>1. CASE updateJob(j, m)
  <2>1. stored[j] \in Job /\ stored' = [stored EXCEPT ![j] = [stored[j] EXCEPT !.maxRetries = m]]
    BY <1>1 DEF updateJob, TypeOK
  <2>2. /\ [stored[j] EXCEPT !.maxRetries = m] \in Job
        /\ [stored[j] EXCEPT !.maxRetries = m].rt = stored[j].rt
    BY <2>1 DEF Job
  <2>3. \A i \in JobIDs : stored'[i] = IF i = j THEN [stored[j] EXCEPT !.maxRetries = m]
                                                ELSE stored[i]
    BY <2>1 DEF TypeOK
  <2> QED
    BY <1>1, <2>2, <2>3, NullAssumption DEF updateJob, EditStorage, cache, builds, master
<1>2. CASE createJob(j, m)
  <2>1. /\ stored[j] = NoJob /\ "create" \in Features
        /\ \A i \in JobIDs : stored'[i] = IF i = j THEN [maxRetries |-> m, rt |-> NewRuntime]
                                                   ELSE stored[i]
    BY <1>2 DEF createJob, TypeOK
  <2> QED
    BY <1>2, <2>1 DEF createJob, EditStorage, cache, builds, master
<1> QED
  BY <1>1, <1>2

(* Steps that make no job and no task known or unknown. *)
LEMMA KnownKeeps ==
    ASSUME TypeOK, TypeOK', Known,
           \A j \in JobIDs :
              /\ jobs'[j] = NoJob <=> jobs[j] = NoJob
              /\ stored[j] # NoJob => stored'[j] # NoJob
              /\ work'[j].pc # "none" => work[j].pc # "none",
           sync'.pc = "jobs" => sync' = sync,
           \A t \in TaskIDs : mesos'[t] = "none" <=> mesos[t] = "none",
           \/ upd' = upd
           \/ upd'.pc \notin {"set", "save"}
           \/ jobs[parseTaskID(upd'.msg.task)] # NoJob
    PROVE  Known'
<1>1. upd.pc # "none" => parseTaskID(upd.msg.task) \in JobIDs
  BY MessageType
<1>2. upd'.pc # "none" => parseTaskID(upd'.msg.task) \in JobIDs
  BY TaskIDType DEF TypeOK, Update
<1> QED
  BY <1>1, <1>2, TaskIDType DEF Known

(* With no job deleted, caches, goroutines and updates are about jobs that *)
(* are there.                                                              *)
LEMMA KnownStep ==
    ASSUME "delete" \notin Features, TypeOK, TypeOK', Fresh, OneEvent, Known, [Next]_vars
    PROVE  Known'
<1>m. \/ \E S \in SUBSET JobIDs : Accept(S)
      \/ \A t \in TaskIDs : mesos'[t] = "none" <=> mesos[t] = "none"
  BY KnownToMesos
<1>2. CASE \/ Tick \/ ReconcileStart \/ ReconcileFails \/ Disconnect \/ UNCHANGED vars
           \/ \E j \in JobIDs : runJob(j) \/ BookingExpires(j) \/ ReportFailure(j)
           \/ \E t \in TaskIDs : SendUpdate(t) \/ ReconcileReply(t)
  <2>1. UNCHANGED <<stored, jobs, sync, work, upd, mesos>>
    BY <1>2
    DEF vars, storage, cache, builds, master, Tick, runJob, EditStorage, BookingExpires,
        ReportFailure, ReconcileStart, ReconcileFails, Disconnect, SendUpdate, ReconcileReply,
        MesosUnchanged
  <2> QED
    BY <2>1, KnownKeeps
<1>3. ASSUME NEW t \in TaskIDs, TaskStep(t) PROVE Known'
  <2>1. UNCHANGED <<stored, jobs, sync, work, upd>>
    BY <1>3 DEF TaskStep, MesosUnchanged, storage, cache, builds
  <2>2. \A u \in TaskIDs : mesos'[u] = "none" <=> mesos[u] = "none"
    BY <1>3, TaskMoves DEF MesosState, Live, Terminal
  <2> QED
    BY <2>1, <2>2, KnownKeeps
<1>4. ASSUME NEW j \in JobIDs, NEW m \in 0..RetryLimit, updateJob(j, m) \/ createJob(j, m)
      PROVE  Known'
  BY <1>4, StoredStays, KnownKeeps
<1>5. CASE SyncReadJobs
  <2>1. UNCHANGED <<stored, jobs, work, upd, mesos>> /\ sync'.jobs = stored
    BY <1>5 DEF SyncReadJobs, SyncUnchanged, storage, builds, master, TypeOK
  <2> QED
    BY <2>1 DEF Known
<1>6. CASE SyncMergeJobs
  <2>1. UNCHANGED <<stored, work, upd, mesos>> /\ sync'.pc = "queue"
    BY <1>6 DEF SyncMergeJobs, SyncUnchanged, storage, builds, master, TypeOK
  <2>2. \A j \in JobIDs : jobs'[j] = MergeJob(jobs[j], sync.jobs[j])
    BY <1>6 DEF SyncMergeJobs
  <2>3. \A j \in JobIDs : jobs[j] # NoJob => jobs'[j] # NoJob
    <3>1. ASSUME NEW j \in JobIDs, jobs[j] # NoJob PROVE jobs'[j] # NoJob
      <4>1. jobs[j] \in Job /\ sync.jobs[j] # NoJob /\ sync.jobs[j] \in Job
        BY <1>6, <3>1 DEF Known, SyncMergeJobs, TypeOK
      <4>2. jobs'[j] \in Job
        BY <2>2, <3>1, <4>1 DEF MergeJob, Job
      <4> QED
        BY <4>2, NullAssumption
    <3> QED
      BY <3>1
  <2>4. \A j \in JobIDs : jobs'[j] # NoJob => stored[j] # NoJob
    <3>1. \A j \in JobIDs : sync.jobs[j] # NoJob => stored[j] # NoJob
      BY <1>6 DEF Known, SyncMergeJobs
    <3> QED
      BY <2>2, <3>1 DEF MergeJob, Known
  <2>5. upd.pc # "none" => parseTaskID(upd.msg.task) \in JobIDs
    BY MessageType
  <2> QED
    BY <2>1, <2>3, <2>4, <2>5, TaskIDType DEF Known
<1>7. CASE SyncReadQueue \/ SyncSetQueue
  <2>1. /\ UNCHANGED <<stored, jobs, work, upd, mesos>>
        /\ sync' = [sync EXCEPT !.pc = "queued", !.queue = queue] \/ sync' = IdleSync
    BY <1>7 DEF SyncReadQueue, SyncSetQueue, SyncUnchanged, storage, builds, master
  <2>2. sync'.pc # "jobs"
    <3>1. sync \in [pc : {"idle", "jobs", "queue", "queued"}, jobs : [JobIDs -> Job \cup {NoJob}],
                    queue : SUBSET JobIDs]
      BY DEF TypeOK
    <3>2. CASE sync' = [sync EXCEPT !.pc = "queued", !.queue = queue]
      BY <3>1, <3>2
    <3>3. CASE sync' = IdleSync
      BY <3>3 DEF IdleSync
    <3> QED
      BY <2>1, <3>2, <3>3
  <2> QED
    BY <2>1, <2>2, KnownKeeps
<1>8. ASSUME NEW S \in SUBSET JobIDs, findJobsForResources(S) PROVE Known'
  <2>1. UNCHANGED <<stored, sync, upd, mesos>>
    BY <1>8 DEF findJobsForResources, storage, master
  <2>2. \A j \in JobIDs : /\ jobs'[j] = IF j \in S THEN CountRetry(jobs[j]) ELSE jobs[j]
                          /\ j \in S => jobs[j] \in Job
                          /\ work'[j].pc # "none" => j \in S
    BY <1>8 DEF findJobsForResources, Eligible, NoWork, TypeOK
  <2>3. \A j \in JobIDs : /\ jobs'[j] = NoJob <=> jobs[j] = NoJob
                          /\ work'[j].pc # "none" => jobs'[j] # NoJob
    BY <2>2, CountRetryType, NullAssumption
  <2>4. upd.pc # "none" => parseTaskID(upd.msg.task) \in JobIDs
    BY MessageType
  <2> QED
    BY <2>1, <2>3, <2>4, TaskIDType DEF Known
<1>9. ASSUME NEW S \in SUBSET JobIDs, Accept(S) PROVE Known'
  <2>1. UNCHANGED <<stored, jobs, sync, upd>> /\ \A j \in JobIDs : work'[j].pc = "none"
    BY <1>9 DEF Accept, storage, cache, NoWork
  <2>2. \A t \in TaskIDs : mesos'[t] = mesos[t] \/ jobs[parseTaskID(t)] # NoJob
    <3>1. \A j \in S : work[j].pc = "done"
      BY <1>9, Launched
    <3> QED
      BY <1>9, <3>1, Launched DEF Known
  <2> QED
    BY <2>1, <2>2 DEF Known
<1>10. CASE AcceptNothing
  <2>1. UNCHANGED <<stored, jobs, sync, upd, mesos>> /\ \A j \in JobIDs : work'[j].pc = "none"
    BY <1>10 DEF AcceptNothing, storage, cache, master, NoWork
  <2> QED
    BY <2>1, KnownKeeps
<1>11. ASSUME NEW j \in JobIDs, BuildNext(j) PROVE Known'
  <2>1. /\ UNCHANGED <<sync, upd, mesos>> /\ work[j].pc # "none"
        /\ \A i \in JobIDs : i # j => work'[i] = work[i]
    BY <1>11 DEF BuildNext, BuildTask, BuildFails, SaveBuilt, SetBuilt, DequeueStored, DequeueCached,
                 NotQueued, Step, TypeOK, master, cache
  <2>2. work[j].job \in Job /\ work[j].job.rt \in JobRuntime
    BY <2>1 DEF TypeOK, Job
  <2>3. \A i \in JobIDs : stored[i] # NoJob => stored'[i] # NoJob
    <3>1. CASE SaveBuilt(j)
      <4>1. PICK ok \in BOOLEAN : SaveJobRuntime(j, work[j].job.rt, ok)
        BY <3>1 DEF SaveBuilt
      <4> QED
        BY <2>2, <4>1, SaveKeepsJobs
    <3>2. CASE UNCHANGED stored
      BY <3>2
    <3> QED
      BY <1>11, <3>1, <3>2 DEF BuildNext, BuildTask, BuildFails, SetBuilt, DequeueStored,
                               DequeueCached, NotQueued, storage
  <2>4. \A i \in JobIDs : jobs'[i] = NoJob <=> jobs[i] = NoJob
    <3>1. CASE SetBuilt(j)
      <4>1. work[j].job # NoJob /\ jobs[j] # NoJob
        BY <2>1 DEF TypeOK, Known
      <4> QED
        BY <3>1, <4>1 DEF SetBuilt, TypeOK
    <3>2. CASE UNCHANGED jobs
      BY <3>2
    <3> QED
      BY <1>11, <3>1, <3>2 DEF BuildNext, BuildTask, BuildFails, SaveBuilt, DequeueStored,
                               DequeueCached, NotQueued, cache
  <2> QED
    BY <2>1, <2>3, <2>4, KnownKeeps
<1>12. CASE GetUpdated \/ IgnoreUpdate
  <2>1. /\ UNCHANGED <<stored, jobs, sync, work, mesos>>
        /\ upd'.pc = "ack" \/ jobs[parseTaskID(upd'.msg.task)] # NoJob
    BY <1>12 DEF GetUpdated, IgnoreUpdate, cache, builds, storage
  <2> QED
    BY <2>1, KnownKeeps
<1>13. CASE SetUpdated
  <2> DEFINE j == parseTaskID(upd.msg.task)
  <2>1. /\ UNCHANGED <<stored, sync, work, mesos>>
        /\ upd.pc = "set" /\ upd' = [upd EXCEPT !.pc = "save"]
        /\ jobs' = [jobs EXCEPT ![j] = upd.job]
    BY <1>13 DEF SetUpdated, storage, builds, master
  <2>2. upd'.msg = upd.msg /\ upd.job # NoJob /\ j \in JobIDs /\ jobs[j] # NoJob
    BY <2>1, MessageType DEF TypeOK, Known
  <2>3. \A i \in JobIDs : jobs'[i] = NoJob <=> jobs[i] = NoJob
    BY <2>1, <2>2 DEF TypeOK
  <2> QED
    BY <2>1, <2>2, <2>3, KnownKeeps
<1>14. CASE SaveUpdated
  <2>1. /\ UNCHANGED <<jobs, sync, work, mesos>>
        /\ upd.pc = "save" /\ upd' = [upd EXCEPT !.pc = "ack"]
    BY <1>14 DEF SaveUpdated, cache, builds, master
  <2>2. upd'.pc = "ack"
    BY <2>1 DEF TypeOK
  <2>3. \A i \in JobIDs : stored[i] # NoJob => stored'[i] # NoJob
    <3>1. upd.job.rt \in JobRuntime /\ parseTaskID(upd.msg.task) \in JobIDs
      BY <2>1, MessageType DEF TypeOK, Job
    <3>2. PICK ok \in BOOLEAN : SaveJobRuntime(parseTaskID(upd.msg.task), upd.job.rt, ok)
      BY <1>14 DEF SaveUpdated
    <3> QED
      BY <3>1, <3>2, SaveKeepsJobs
  <2> QED
    BY <2>1, <2>2, <2>3, KnownKeeps
<1>15. CASE AckUpdate \/ AckFails
  <2>1. UNCHANGED <<stored, jobs, sync, work>> /\ upd'.pc = "none"
    BY <1>15 DEF AckUpdate, AckFails, storage, cache, builds, NoUpdate
  <2>2. \A t \in TaskIDs : mesos'[t] = "none" <=> mesos[t] = "none"
    BY <1>15, AckMoves DEF AckFails, Terminal
  <2> QED
    BY <2>1, <2>2, KnownKeeps
<1>16. CASE Restart
  <2>1. /\ jobs' = stored /\ sync'.pc = "idle" /\ upd'.pc = "none"
        /\ \A j \in JobIDs : work'[j].pc = "none"
        /\ UNCHANGED <<stored, mesos>>
    BY <1>16 DEF Restart, IdleSync, NoUpdate, NoWork, storage
  <2> QED
    BY <2>1, TaskIDType DEF Known
<1> QED
  BY <1>2, <1>3, <1>4, <1>5, <1>6, <1>7, <1>8, <1>9, <1>10, <1>11, <1>12, <1>13, <1>14, <1>15, <1>16
  DEF Next, APINext, deleteJob, SyncNext, OfferNext, UpdateNext, MesosNext, Failover, ReportPanics

(* With no job created, what the cache has dropped is gone for good.       *)
LEMMA EvictedStep ==
    ASSUME "create" \notin Features, TypeOK, EvictedAreDeleted, [Next]_vars
    PROVE  EvictedAreDeleted'
<1>1. ASSUME \A j \in JobIDs : /\ stored[j] = NoJob => stored'[j] = NoJob
                               /\ jobs'[j] = NoJob => jobs[j] = NoJob \/ stored'[j] = NoJob,
             sync'.pc = "jobs" => UNCHANGED <<jobs, sync>>
      PROVE  EvictedAreDeleted'
  BY <1>1 DEF EvictedAreDeleted
<1>2. CASE \/ Tick \/ MesosNext \/ UNCHANGED vars
           \/ \E j \in JobIDs : runJob(j) \/ BookingExpires(j) \/ ReportFailure(j)
           \/ AcceptNothing \/ \E S \in SUBSET JobIDs : Accept(S)
           \/ GetUpdated \/ IgnoreUpdate \/ AckUpdate \/ AckFails
           \/ \E j \in JobIDs : BuildNext(j) /\ ~SaveBuilt(j) /\ ~SetBuilt(j)
  <2>1. UNCHANGED <<stored, jobs, sync>>
    BY <1>2
    DEF vars, storage, cache, Tick, runJob, EditStorage, BookingExpires, ReportFailure, AcceptNothing,
        Accept, GetUpdated, IgnoreUpdate, AckUpdate, AckFails, BuildNext, BuildTask, BuildFails,
        DequeueStored, DequeueCached, NotQueued, MesosNext, TaskStep, SendUpdate, ReconcileReply,
        Disconnect, ReconcileStart, ReconcileFails, MesosUnchanged
  <2> QED
    BY <2>1 DEF EvictedAreDeleted
<1>3. ASSUME NEW j \in JobIDs, NEW m \in 0..RetryLimit, updateJob(j, m) \/ createJob(j, m)
      PROVE  EvictedAreDeleted'
  BY <1>3, StoredStays DEF EvictedAreDeleted
<1>4. ASSUME NEW j \in JobIDs, deleteJob(j) PROVE EvictedAreDeleted'
  <2>1. UNCHANGED <<jobs, sync>> /\ \A i \in JobIDs : stored[i] = NoJob => stored'[i] = NoJob
    BY <1>4 DEF deleteJob, EditStorage, cache, TypeOK
  <2> QED
    BY <2>1 DEF EvictedAreDeleted
<1>5. CASE SyncReadJobs
  <2>1. UNCHANGED <<stored, jobs>> /\ sync'.jobs = stored
    BY <1>5 DEF SyncReadJobs, SyncUnchanged, storage, TypeOK
  <2> QED
    BY <2>1 DEF EvictedAreDeleted
<1>6. CASE SyncMergeJobs
  <2>1. UNCHANGED stored /\ sync'.pc = "queue" /\ sync.pc = "jobs"
    BY <1>6 DEF SyncMergeJobs, SyncUnchanged, storage, TypeOK
  <2>2. ASSUME NEW j \in JobIDs, jobs'[j] = NoJob PROVE sync.jobs[j] = NoJob
    <3>1. CASE jobs[j] = NoJob \/ sync.jobs[j] = NoJob
      BY <1>6, <2>1, <2>2, <3>1 DEF SyncMergeJobs, MergeJob
    <3>2. CASE jobs[j] # NoJob /\ sync.jobs[j] # NoJob
      <4>1. jobs[j] \in Job /\ sync.jobs[j] \in Job
        BY <3>2 DEF TypeOK
      <4>2. jobs'[j] = [jobs[j] EXCEPT !.maxRetries = sync.jobs[j].maxRetries]
        BY <1>6, <3>2 DEF SyncMergeJobs, MergeJob
      <4>3. jobs'[j] \in Job
        BY <4>1, <4>2 DEF Job
      <4> QED
        BY <2>2, <4>3, NullAssumption
    <3> QED
      BY <3>1, <3>2
  <2> QED
    BY <2>1, <2>2 DEF EvictedAreDeleted
<1>7. CASE SyncReadQueue \/ SyncSetQueue
  <2>1. /\ UNCHANGED <<stored, jobs>>
        /\ sync' = [sync EXCEPT !.pc = "queued", !.queue = queue] \/ sync' = IdleSync
    BY <1>7 DEF SyncReadQueue, SyncSetQueue, SyncUnchanged, storage
  <2>2. sync'.pc # "jobs"
    <3>1. sync \in [pc : {"idle", "jobs", "queue", "queued"}, jobs : [JobIDs -> Job \cup {NoJob}],
                    queue : SUBSET JobIDs]
      BY DEF TypeOK
    <3>2. CASE sync' = [sync EXCEPT !.pc = "queued", !.queue = queue]
      BY <3>1, <3>2
    <3>3. CASE sync' = IdleSync
      BY <3>3 DEF IdleSync
    <3> QED
      BY <2>1, <3>2, <3>3
  <2> QED
    BY <2>1, <2>2 DEF EvictedAreDeleted
<1>8. ASSUME NEW S \in SUBSET JobIDs, findJobsForResources(S) PROVE EvictedAreDeleted'
  <2>1. UNCHANGED <<stored, sync>>
    BY <1>8 DEF findJobsForResources, storage
  <2>2. \A j \in JobIDs : /\ jobs'[j] = IF j \in S THEN CountRetry(jobs[j]) ELSE jobs[j]
                          /\ j \in S => jobs[j] \in Job
    BY <1>8 DEF findJobsForResources, Eligible, TypeOK
  <2>3. \A j \in JobIDs : jobs'[j] = NoJob => jobs[j] = NoJob
    BY <2>2, CountRetryType, NullAssumption
  <2> QED
    BY <2>1, <2>3 DEF EvictedAreDeleted
<1>9. ASSUME NEW j \in JobIDs, SaveBuilt(j) PROVE EvictedAreDeleted'
  <2>1. work[j].job.rt \in JobRuntime /\ UNCHANGED <<jobs, sync>>
    BY <1>9 DEF SaveBuilt, Step, TypeOK, Job, cache
  <2>2. PICK ok \in BOOLEAN : SaveJobRuntime(j, work[j].job.rt, ok)
    BY <1>9 DEF SaveBuilt
  <2> QED
    BY <2>1, <2>2, SaveKeepsJobs DEF EvictedAreDeleted
<1>10. ASSUME NEW j \in JobIDs, SetBuilt(j) PROVE EvictedAreDeleted'
  <2>1. work[j].job # NoJob /\ UNCHANGED <<stored, sync>>
    BY <1>10 DEF SetBuilt, Step, TypeOK, storage
  <2>2. \A i \in JobIDs : jobs'[i] = NoJob => jobs[i] = NoJob
    BY <1>10, <2>1 DEF SetBuilt, TypeOK
  <2> QED
    BY <2>1, <2>2 DEF EvictedAreDeleted
<1>11. CASE SetUpdated
  <2>1. upd.job # NoJob /\ UNCHANGED <<stored, sync>>
    BY <1>11 DEF SetUpdated, TypeOK, storage
  <2>2. \A i \in JobIDs : jobs'[i] = NoJob => jobs[i] = NoJob
    BY <1>11, <2>1 DEF SetUpdated, TypeOK
  <2> QED
    BY <2>1, <2>2 DEF EvictedAreDeleted
<1>12. CASE SaveUpdated
  <2>1. /\ upd.job.rt \in JobRuntime /\ parseTaskID(upd.msg.task) \in JobIDs
        /\ UNCHANGED <<jobs, sync>>
    BY <1>12, MessageType DEF SaveUpdated, TypeOK, Job, cache
  <2>2. PICK ok \in BOOLEAN : SaveJobRuntime(parseTaskID(upd.msg.task), upd.job.rt, ok)
    BY <1>12 DEF SaveUpdated
  <2> QED
    BY <2>1, <2>2, SaveKeepsJobs DEF EvictedAreDeleted
<1>13. CASE Restart
  <2>1. jobs' = stored /\ UNCHANGED stored /\ sync'.pc = "idle"
    BY <1>13 DEF Restart, IdleSync, storage
  <2> QED
    BY <2>1 DEF EvictedAreDeleted
<1> QED
  BY <1>2, <1>3, <1>4, <1>5, <1>6, <1>7, <1>8, <1>9, <1>10, <1>11, <1>12, <1>13
  DEF Next, APINext, SyncNext, OfferNext, UpdateNext, Failover, ReportPanics

LEMMA BaseInit == Init => BaseInv
<1> SUFFICES ASSUME Init PROVE BaseInv
  OBVIOUS
<1>1. TypeOK
  BY InitType
<1>2. /\ jobs = stored /\ sync.pc = "idle" /\ upd.pc = "none" /\ stream = <<>>
      /\ \A j \in JobIDs : work[j].pc = "none" /\ reports[j] = {}
      /\ \A t \in TaskIDs : mesos[t] = "none"
  BY DEF Init, IdleSync, NoUpdate, NoWork
<1> QED
  BY <1>1, <1>2
  DEF BaseInv, OneEvent, ReportsFailures, Fresh, Built, Announced, Known, EvictedAreDeleted

LEMMA BaseStep ==
    ASSUME BaseInv, [Next]_vars
    PROVE  BaseInv'
<1>1. TypeOK /\ OneEvent /\ ReportsFailures /\ Fresh /\ Announced
  BY DEF BaseInv
<1>2. TypeOK' /\ OneEvent' /\ ReportsFailures' /\ Fresh' /\ Announced'
  BY <1>1, TypeStep, EventStep, ReportsStep, FreshStep, AnnouncedStep
<1>3. "delete" \notin Features => Known'
  BY <1>1, <1>2, KnownStep DEF BaseInv
<1>4. "create" \notin Features => EvictedAreDeleted'
  BY <1>1, EvictedStep DEF BaseInv
<1> QED
  BY <1>2, <1>3, <1>4 DEF BaseInv
-----------------------------------------------------------------------------
(* The launches of a job are accounted for by the runtime from which the   *)
(* next launch is decided: none after lastStart, and at lastStart at most  *)
(* one more than there were retries.  This is what makes RunsPerPeriod     *)
(* inductive.                                                              *)

Accounts(j, rt) ==
    /\ rt.retries <= RetryLimit
    /\ rt.lastStart <= now
    /\ \A p \in Period :
         /\ p > rt.lastStart => runs[j][p] = 0
         /\ p = rt.lastStart => runs[j][p] <= rt.retries + 1

(* A copy that is about to be launched leaves room for that launch. *)
Reserves(j, rt) ==
    /\ rt.retries <= RetryLimit
    /\ rt.lastStart <= now
    /\ \A p \in Period :
         /\ p > rt.lastStart => runs[j][p] = 0
         /\ p = rt.lastStart => runs[j][p] <= rt.retries

(* A copy just picked: room at lastStart, or lastStart is over. *)
Picks(j, rt) ==
    /\ rt.retries <= RetryLimit
    /\ rt.lastStart <= now
    /\ \A p \in Period :
         /\ p > rt.lastStart => runs[j][p] = 0
         /\ p = rt.lastStart => runs[j][p] <= rt.retries \/ rt.lastStart < now

NothingQueued == queue = {} /\ queuedJobs = {} /\ sync.queue = {}

Unset == {"picked", "built", "saved"}

(* The cache accounts for the launches, except while a goroutine holds a   *)
(* copy it has yet to put there.                                           *)
CacheAccounts ==
    \A j \in JobIDs :
        jobs[j] # NoJob =>
            /\ work[j].pc = "none" => Accounts(j, jobs[j].rt)
            /\ work[j].pc \in WorkPc \ (Unset \cup {"none"}) => jobs[j].rt = work[j].job.rt

WorkReserves ==
    \A j \in JobIDs :
        /\ work[j].pc = "picked" => Picks(j, work[j].job.rt)
        /\ work[j].pc \in WorkPc \ {"picked", "none"} => Reserves(j, work[j].job.rt)

UpdateAccounts ==
    upd.pc \in {"set", "save"} => Accounts(parseTaskID(upd.msg.task), upd.job.rt)

(* So does storage, if it has missed nothing. *)
StorageAccounts ==
    "savefail" \notin Features =>
        \A j \in JobIDs :
            stored[j] # NoJob =>
                /\ Accounts(j, stored[j].rt)
                /\ work[j].pc \in WorkPc \ {"picked", "built", "none"} =>
                        stored[j].rt = work[j].job.rt

(* A job that is not in the cache has never been: it was not launched, and *)
(* its runtime is that of a new job.  With jobs being deleted the cache may*)
(* drop a job, but, if none is created, it never takes one up.             *)
UncachedIsNew ==
    "delete" \notin Features =>
        \A j \in JobIDs :
            jobs[j] = NoJob =>
                /\ \A p \in Period : runs[j][p] = 0
                /\ stored[j] # NoJob => stored[j].rt = NewRuntime
                /\ sync.pc = "jobs" /\ sync.jobs[j] # NoJob => sync.jobs[j].rt = NewRuntime

RunsInv ==
    /\ BaseInv
    /\ NothingQueued
    /\ UncachedIsNew
    /\ CacheAccounts
    /\ WorkReserves
    /\ UpdateAccounts
    /\ StorageAccounts
    /\ RunsPerPeriod

(* Room for a launch is more than the accounts ask for.                    *)
LEMMA ReservesAccounts ==
    ASSUME TypeOK, NEW j \in JobIDs, NEW rt \in JobRuntime, Reserves(j, rt)
    PROVE  Accounts(j, rt)
<1>1. runs[j] \in [Period -> Nat] /\ rt.retries \in Nat
  BY DEF TypeOK, JobRuntime
<1>2. ASSUME NEW p \in Period, p = rt.lastStart
      PROVE  runs[j][p] <= rt.retries + 1
  BY <1>1, <1>2 DEF Reserves
<1>3. QED
  BY <1>2 DEF Reserves, Accounts

(* A runnable job is picked for a retry, with lastStart unchanged and one  *)
(* retry more, or afresh in a later period.                                *)
LEMMA PickLeavesRoom ==
    ASSUME TypeOK, NEW j \in JobIDs, NEW job \in Job, Accounts(j, job.rt),
           IsRunnable(job, now)
    PROVE  Picks(j, CountRetry(job).rt)
<1> USE BoundsAssumption DEF Period
<1>1. job.maxRetries \in 0..RetryLimit /\ job.rt \in JobRuntime
  BY DEF Job
<1>2. /\ CountRetry(job).rt.lastStart = job.rt.lastStart
      /\ CountRetry(job).rt.retries = IF IsRetryable(job) THEN job.rt.retries + 1 ELSE 0
  BY CountRetryType
<1>3. CASE IsRetryable(job)
  BY <1>1, <1>2, <1>3 DEF TypeOK, Accounts, Picks, IsRetryable, JobRuntime
<1>4. CASE ~IsRetryable(job)
  <2>1. job.rt.lastStart < now
    BY <1>1, <1>4 DEF TypeOK, IsRunnable, NextRun, JobRuntime
  <2>2. QED
    BY <1>1, <1>2, <1>4, <2>1 DEF TypeOK, Accounts, Picks, JobRuntime
<1>5. QED
  BY <1>3, <1>4

(* Once lastStart is the present there is room for the launch. *)
LEMMA StartReserves ==
    ASSUME TypeOK, NEW j \in JobIDs, NEW rt \in JobRuntime, Picks(j, rt),
           NEW new \in JobRuntime, new.lastStart = now, new.retries = rt.retries
    PROVE  Reserves(j, new)
<1>1. /\ runs[j] \in [Period -> Nat] /\ now \in Nat /\ rt.lastStart \in Nat
      /\ rt.retries \in Nat /\ Period \subseteq Int
  BY BoundsAssumption DEF TypeOK, JobRuntime, Period
<1>2. ASSUME NEW p \in Period, p > now
      PROVE  runs[j][p] = 0
  BY <1>1, <1>2 DEF Picks
<1>3. ASSUME NEW p \in Period, p = now
      PROVE  runs[j][p] <= rt.retries
  <2>1. CASE rt.lastStart = now
    BY <1>1, <1>3, <2>1 DEF Picks
  <2>2. CASE rt.lastStart < now
    BY <1>1, <1>3, <2>2 DEF Picks
  <2>3. QED
    BY <1>1, <2>1, <2>2 DEF Picks
<1>4. QED
  BY <1>1, <1>2, <1>3 DEF Picks, Reserves

(* A goroutine that has built its task keeps RunsInv if it reserves room. *)
LEMMA PickedToBuilt ==
    ASSUME RunsInv, BaseInv', UncachedIsNew', NEW j \in JobIDs, NEW new, work[j].pc = "picked",
           UNCHANGED <<now, stored, queue, cache, sync, loop, upd, runs>>,
           Reserves(j, new.rt),
           \A i \in JobIDs : /\ i # j => work'[i] = work[i]
                             /\ i = j => work'[i] = [pc |-> "built", job |-> new]
    PROVE  RunsInv'
<1>1. WorkReserves'
  <2>1. ASSUME NEW i \in JobIDs, work'[i].pc = "picked"
        PROVE  Picks(i, work'[i].job.rt)
    BY <2>1 DEF RunsInv, WorkReserves
  <2>2. ASSUME NEW i \in JobIDs, work'[i].pc \in WorkPc \ {"picked", "none"}
        PROVE  Reserves(i, work'[i].job.rt)
    BY <2>2 DEF RunsInv, WorkReserves
  <2>3. QED
    BY <2>1, <2>2 DEF WorkReserves, Picks, Reserves
<1>2. CacheAccounts'
  BY DEF RunsInv, CacheAccounts, Unset, cache, Accounts
<1>3. StorageAccounts'
  BY DEF RunsInv, StorageAccounts, Accounts
<1>4. NothingQueued' /\ UpdateAccounts' /\ RunsPerPeriod'
  BY DEF RunsInv, NothingQueued, UpdateAccounts,
         RunsPerPeriod, cache, Accounts
<1>5. QED
  BY <1>1, <1>2, <1>3, <1>4 DEF RunsInv

(* Steps that make no job known and save nothing for an unknown one.       *)
LEMMA UncachedKeeps ==
    ASSUME UncachedIsNew,
           "delete" \notin Features =>
              \A j \in JobIDs :
                 jobs'[j] = NoJob =>
                    /\ jobs[j] = NoJob /\ runs'[j] = runs[j]
                    /\ stored'[j] = stored[j] \/ stored'[j].rt = NewRuntime,
           sync'.pc = "jobs" => sync' = sync
    PROVE  UncachedIsNew'
  BY DEF UncachedIsNew

(* Only synchronising takes up a job, and only goroutines and updates of   *)
(* jobs in the cache write to storage or launch.                           *)
LEMMA UncachedStep ==
    ASSUME BaseInv, UncachedIsNew, [Next]_vars
    PROVE  UncachedIsNew'
<1>0. TypeOK /\ Fresh /\ OneEvent /\ ("delete" \notin Features => Known)
  BY DEF BaseInv
<1>1. CASE \/ Tick \/ MesosNext \/ UNCHANGED vars
           \/ \E j \in JobIDs : runJob(j) \/ BookingExpires(j) \/ ReportFailure(j)
           \/ AcceptNothing \/ GetUpdated \/ IgnoreUpdate \/ AckUpdate \/ AckFails
           \/ \E j \in JobIDs : BuildNext(j) /\ ~SaveBuilt(j) /\ ~SetBuilt(j)
  <2>1. UNCHANGED <<stored, jobs, sync, runs>>
    BY <1>1
    DEF vars, storage, cache, Tick, runJob, EditStorage, BookingExpires, ReportFailure, AcceptNothing,
        GetUpdated, IgnoreUpdate, AckUpdate, AckFails, BuildNext, BuildTask, BuildFails,
        DequeueStored, DequeueCached, NotQueued, MesosNext, TaskStep, SendUpdate, ReconcileReply,
        Disconnect, ReconcileStart, ReconcileFails, MesosUnchanged
  <2> QED
    BY <2>1, UncachedKeeps
<1>2. ASSUME NEW j \in JobIDs, NEW m \in 0..RetryLimit, updateJob(j, m) \/ createJob(j, m)
      PROVE  UncachedIsNew'
  BY <1>0, <1>2, StoredStays DEF UncachedIsNew
<1>3. ASSUME NEW j \in JobIDs, deleteJob(j) PROVE UncachedIsNew'
  BY <1>3 DEF deleteJob, UncachedIsNew
<1>4. CASE SyncReadJobs
  <2>1. UNCHANGED <<stored, jobs, runs>> /\ sync'.jobs = stored
    BY <1>0, <1>4 DEF SyncReadJobs, SyncUnchanged, storage, TypeOK
  <2> QED
    BY <2>1 DEF UncachedIsNew
<1>5. CASE SyncMergeJobs
  <2>1. UNCHANGED <<stored, runs>> /\ sync'.pc = "queue" /\ sync.pc = "jobs"
    BY <1>0, <1>5 DEF SyncMergeJobs, SyncUnchanged, storage, TypeOK
  <2>2. ASSUME "delete" \notin Features, NEW j \in JobIDs, jobs[j] # NoJob
        PROVE  jobs'[j] # NoJob
    <3>1. sync.jobs[j] # NoJob /\ jobs[j] \in Job /\ sync.jobs[j] \in Job
      BY <1>0, <2>1, <2>2 DEF Known, TypeOK
    <3>2. jobs'[j] = [jobs[j] EXCEPT !.maxRetries = sync.jobs[j].maxRetries]
      BY <1>5, <2>2, <3>1 DEF SyncMergeJobs, MergeJob
    <3>3. jobs'[j] \in Job
      BY <3>1, <3>2 DEF Job
    <3> QED
      BY <3>3, NullAssumption
  <2> QED
    BY <2>1, <2>2, UncachedKeeps
<1>6. CASE SyncReadQueue \/ SyncSetQueue
  <2>1. /\ UNCHANGED <<stored, jobs, runs>>
        /\ sync' = [sync EXCEPT !.pc = "queued", !.queue = queue] \/ sync' = IdleSync
    BY <1>6 DEF SyncReadQueue, SyncSetQueue, SyncUnchanged, storage
  <2>2. sync'.pc # "jobs"
    <3>1. sync \in [pc : {"idle", "jobs", "queue", "queued"}, jobs : [JobIDs -> Job \cup {NoJob}],
                    queue : SUBSET JobIDs]
      BY <1>0 DEF TypeOK
    <3>2. CASE sync' = [sync EXCEPT !.pc = "queued", !.queue = queue]
      BY <3>1, <3>2
    <3>3. CASE sync' = IdleSync
      BY <3>3 DEF IdleSync
    <3> QED
      BY <2>1, <3>2, <3>3
  <2> QED
    BY <2>1, <2>2, UncachedKeeps
<1>7. ASSUME NEW S \in SUBSET JobIDs, findJobsForResources(S) PROVE UncachedIsNew'
  <2>1. UNCHANGED <<stored, sync, runs>>
    BY <1>7 DEF findJobsForResources, storage
  <2>2. \A j \in JobIDs : /\ jobs'[j] = IF j \in S THEN CountRetry(jobs[j]) ELSE jobs[j]
                          /\ j \in S => jobs[j] \in Job
    BY <1>0, <1>7 DEF findJobsForResources, Eligible, TypeOK
  <2>3. \A j \in JobIDs : jobs'[j] = NoJob => jobs[j] = NoJob
    BY <2>2, CountRetryType, NullAssumption
  <2> QED
    BY <2>1, <2>3, UncachedKeeps
<1>8. ASSUME NEW S \in SUBSET JobIDs, Accept(S) PROVE UncachedIsNew'
  <2>1. UNCHANGED <<stored, jobs, sync>>
    BY <1>8 DEF Accept, storage, cache
  <2>2. \A j \in JobIDs : j \in S \/ runs'[j] = runs[j]
    BY <1>8 DEF Accept
  <2>3. "delete" \notin Features => \A j \in S : jobs[j] # NoJob
    <3>1. \A j \in S : work[j].pc = "done"
      BY <1>0, <1>8, Launched
    <3> QED
      BY <1>0, <3>1 DEF Known
  <2> QED
    BY <2>1, <2>2, <2>3, UncachedKeeps
<1>9. ASSUME NEW j \in JobIDs, SaveBuilt(j) PROVE UncachedIsNew'
  <2>1. work[j].pc # "none" /\ work[j].job.rt \in JobRuntime /\ UNCHANGED <<jobs, sync, runs>>
    BY <1>0, <1>9 DEF SaveBuilt, Step, TypeOK, Job, cache
  <2>2. PICK ok \in BOOLEAN : SaveJobRuntime(j, work[j].job.rt, ok)
    BY <1>9 DEF SaveBuilt
  <2>3. \A i \in JobIDs : i # j => stored'[i] = stored[i]
    BY <1>0, <2>1, <2>2, SaveKeepsJobs
  <2>4. "delete" \notin Features => jobs[j] # NoJob
    BY <1>0, <2>1 DEF Known
  <2> QED
    BY <2>1, <2>3, <2>4, UncachedKeeps
<1>10. ASSUME NEW j \in JobIDs, SetBuilt(j) PROVE UncachedIsNew'
  <2>1. work[j].job # NoJob /\ UNCHANGED <<stored, sync, runs>>
    BY <1>0, <1>10 DEF SetBuilt, Step, TypeOK, storage
  <2>2. \A i \in JobIDs : jobs'[i] = NoJob => jobs[i] = NoJob
    BY <1>0, <1>10, <2>1 DEF SetBuilt, TypeOK
  <2> QED
    BY <2>1, <2>2, UncachedKeeps
<1>11. CASE SetUpdated
  <2>1. upd.job # NoJob /\ UNCHANGED <<stored, sync, runs>>
    BY <1>0, <1>11 DEF SetUpdated, TypeOK, storage
  <2>2. \A i \in JobIDs : jobs'[i] = NoJob => jobs[i] = NoJob
    BY <1>0, <1>11, <2>1 DEF SetUpdated, TypeOK
  <2> QED
    BY <2>1, <2>2, UncachedKeeps
<1>12. CASE SaveUpdated
  <2> DEFINE j == parseTaskID(upd.msg.task)
  <2>1. /\ upd.pc = "save" /\ upd.job.rt \in JobRuntime /\ j \in JobIDs
        /\ UNCHANGED <<jobs, sync, runs>>
    BY <1>0, <1>12, MessageType DEF SaveUpdated, TypeOK, Job, cache
  <2>2. PICK ok \in BOOLEAN : SaveJobRuntime(j, upd.job.rt, ok)
    BY <1>12 DEF SaveUpdated
  <2>3. \A i \in JobIDs : i # j => stored'[i] = stored[i]
    BY <1>0, <2>1, <2>2, SaveKeepsJobs
  <2>4. "delete" \notin Features => jobs[j] # NoJob
    BY <1>0, <2>1 DEF Known
  <2> QED
    BY <2>1, <2>3, <2>4, UncachedKeeps
<1>13. CASE Restart
  <2>1. jobs' = stored /\ UNCHANGED <<stored, runs>> /\ sync'.pc = "idle"
    BY <1>13 DEF Restart, IdleSync, storage
  <2>2. "delete" \notin Features => \A j \in JobIDs : stored[j] = NoJob => jobs[j] = NoJob
    BY <1>0 DEF Known
  <2> QED
    BY <2>1, <2>2, UncachedKeeps
<1> QED
  BY <1>1, <1>2, <1>3, <1>4, <1>5, <1>6, <1>7, <1>8, <1>9, <1>10, <1>11, <1>12, <1>13
  DEF Next, APINext, SyncNext, OfferNext, UpdateNext, Failover, ReportPanics

(* Every step keeps the inductive invariant.                               *)
LEMMA RunsStep ==
    ASSUME "run" \notin Features, KeptIdentity,
           "savefail" \in Features => Features \cap {"failover", "secretfail"} = {},
           RunsInv, [Next]_vars
    PROVE  RunsInv'
<1> USE BoundsAssumption
<1>0. BaseInv' /\ UncachedIsNew'
  BY BaseStep, UncachedStep DEF RunsInv
<1>1. CASE Tick
  <2>1. ASSUME NEW j \in JobIDs, NEW rt \in JobRuntime
        PROVE  /\ Accounts(j, rt) => Accounts(j, rt)'
               /\ Reserves(j, rt) => Reserves(j, rt)'
               /\ Picks(j, rt) => Picks(j, rt)'
    BY <1>1 DEF RunsInv, BaseInv, TypeOK, Tick, Accounts, Reserves, Picks, JobRuntime, Period
  <2>2. UNCHANGED <<storage, cache, sync, loop, work, upd, runs>>
    BY <1>1 DEF Tick, builds
  <2>3. \A j \in JobIDs :
          /\ jobs[j] # NoJob => jobs[j].rt \in JobRuntime
          /\ stored[j] # NoJob => stored[j].rt \in JobRuntime
          /\ work[j].pc # "none" => work[j].job.rt \in JobRuntime
    BY DEF RunsInv, BaseInv, TypeOK, Job
  <2>4. upd.pc \in {"set", "save"} =>
          upd.job.rt \in JobRuntime /\ parseTaskID(upd.msg.task) \in JobIDs
    BY DEF RunsInv, BaseInv, TypeOK, Job, Update, TaskIDs, parseTaskID
  <2>5. CacheAccounts' /\ StorageAccounts'
    BY <2>1, <2>2, <2>3 DEF RunsInv, CacheAccounts, StorageAccounts, storage, cache
  <2>6. WorkReserves'
    BY <2>1, <2>2, <2>3 DEF RunsInv, WorkReserves
  <2>7. UpdateAccounts'
    BY <2>1, <2>2, <2>4 DEF RunsInv, UpdateAccounts
  <2>8. QED
    <3>1. NothingQueued' /\ RunsPerPeriod'
      BY <2>2 DEF RunsInv, NothingQueued, RunsPerPeriod, storage, cache
    <3>2. QED
      BY <1>0, <2>5, <2>6, <2>7, <3>1 DEF RunsInv
<1>2. ASSUME NEW j \in JobIDs, NEW m \in 0..RetryLimit, updateJob(j, m) \/ createJob(j, m)
      PROVE  RunsInv'
  <2>1. /\ UNCHANGED <<now, queue, jobs, queuedJobs, sync, work, upd, runs>>
        /\ \A i \in JobIDs : stored[i] # NoJob => stored'[i].rt = stored[i].rt
    BY <1>2, StoredStays DEF RunsInv, BaseInv
  <2>2. ASSUME NEW i \in JobIDs, stored[i] = NoJob, stored'[i] # NoJob
        PROVE  Accounts(i, stored'[i].rt) /\ work[i].pc = "none"
    <3>1. stored'[i].rt = NewRuntime /\ "delete" \notin Features
      BY <1>2, <2>2, StoredStays DEF RunsInv, BaseInv, KeptIdentity
    <3>2. jobs[i] = NoJob /\ work[i].pc = "none"
      BY <2>2, <3>1 DEF RunsInv, BaseInv, Known
    <3>3. \A p \in Period : runs[i][p] = 0
      BY <3>1, <3>2 DEF RunsInv, UncachedIsNew
    <3>4. now \in Period
      BY DEF RunsInv, BaseInv, TypeOK
    <3> QED
      BY <3>1, <3>2, <3>3, <3>4 DEF Accounts, NewRuntime, Period
  <2>3. StorageAccounts'
    <3>1. ASSUME "savefail" \notin Features, NEW i \in JobIDs, stored'[i] # NoJob
          PROVE  /\ Accounts(i, stored'[i].rt)
                 /\ work[i].pc \in WorkPc \ {"picked", "built", "none"} =>
                        stored'[i].rt = work[i].job.rt
      BY <2>1, <2>2, <3>1 DEF RunsInv, StorageAccounts
    <3> QED
      BY <2>1, <3>1 DEF StorageAccounts, Accounts
  <2> QED
    BY <1>0, <2>1, <2>3
    DEF RunsInv, NothingQueued, CacheAccounts, WorkReserves, UpdateAccounts, RunsPerPeriod,
        Accounts, Reserves, Picks
<1>4. ASSUME NEW j \in JobIDs, deleteJob(j) PROVE RunsInv'
  BY <1>0, <1>4 DEF RunsInv, BaseInv, NothingQueued, CacheAccounts, WorkReserves,
     UpdateAccounts, StorageAccounts, RunsPerPeriod, Unset,
     storage, cache, master, builds, deleteJob, EditStorage, Accounts, Reserves, Picks, TypeOK
<1>5. ASSUME NEW j \in JobIDs, runJob(j) PROVE RunsInv'
  BY <1>0, <1>5 DEF RunsInv, NothingQueued, CacheAccounts, WorkReserves,
     UpdateAccounts, StorageAccounts, RunsPerPeriod, Unset,
     storage, cache, master, builds, runJob, EditStorage
<1>6. CASE SyncReadJobs
  BY <1>0, <1>6 DEF RunsInv, BaseInv, NothingQueued, CacheAccounts, WorkReserves,
     UpdateAccounts, StorageAccounts, RunsPerPeriod, Unset,
     storage, cache, master, builds, SyncReadJobs, SyncUnchanged, Accounts, Reserves, Picks, TypeOK
<1>7. CASE SyncMergeJobs
  <2>1. \A j \in JobIDs : jobs'[j] = MergeJob(jobs[j], sync.jobs[j])
    BY <1>7 DEF SyncMergeJobs
  <2>2. /\ sync.pc = "jobs" /\ sync'.pc = "queue" /\ sync'.queue = sync.queue
        /\ UNCHANGED <<now, storage, queuedJobs, loop, work, upd, runs>>
    BY <1>7 DEF RunsInv, BaseInv, TypeOK, SyncMergeJobs, SyncUnchanged, builds
  <2>3. ASSUME NEW j \in JobIDs, jobs'[j] # NoJob, jobs[j] # NoJob
        PROVE  jobs'[j].rt = jobs[j].rt
    <3>1. jobs[j] \in Job \cup {NoJob} /\ sync.jobs[j] \in Job \cup {NoJob}
      BY DEF RunsInv, BaseInv, TypeOK
    <3>2. sync.jobs[j] # NoJob
      BY <2>1, <2>3 DEF MergeJob
    <3>3. QED
      BY <2>1, <2>3, <3>1, <3>2, MergeJobType
  <2>4. ASSUME NEW j \in JobIDs, jobs'[j] # NoJob, jobs[j] = NoJob
        PROVE  Accounts(j, jobs'[j].rt) /\ work[j].pc = "none"
    <3>1. jobs'[j] = sync.jobs[j]
      BY <2>1, <2>4 DEF MergeJob
    <3>2. "delete" \notin Features
      BY <2>2, <2>4, <3>1 DEF RunsInv, BaseInv, EvictedAreDeleted, KeptIdentity
    <3>3. jobs'[j].rt = NewRuntime /\ work[j].pc = "none" /\ \A p \in Period : runs[j][p] = 0
      BY <2>2, <2>4, <3>1, <3>2 DEF RunsInv, BaseInv, UncachedIsNew, Known
    <3>4. now \in Period
      BY DEF RunsInv, BaseInv, TypeOK
    <3> QED
      BY <3>3, <3>4 DEF Accounts, NewRuntime, Period
  <2>5. CacheAccounts'
    <3>1. ASSUME NEW j \in JobIDs, jobs'[j] # NoJob
          PROVE  /\ work[j].pc = "none" => Accounts(j, jobs'[j].rt)
                 /\ work[j].pc \in WorkPc \ (Unset \cup {"none"}) => jobs'[j].rt = work[j].job.rt
      BY <2>3, <2>4, <3>1 DEF RunsInv, CacheAccounts
    <3> QED
      BY <2>2, <3>1 DEF CacheAccounts, Accounts
  <2> QED
    BY <1>0, <2>2, <2>5
    DEF RunsInv, NothingQueued, WorkReserves, UpdateAccounts, StorageAccounts,
        RunsPerPeriod, storage, Accounts, Reserves, Picks
<1>8. CASE SyncReadQueue
  BY <1>0, <1>8 DEF RunsInv, BaseInv, NothingQueued, CacheAccounts, WorkReserves,
     UpdateAccounts, StorageAccounts, RunsPerPeriod, Unset,
     storage, cache, master, builds, SyncReadQueue, SyncUnchanged, Accounts, Reserves, Picks, TypeOK
<1>9. CASE SyncSetQueue
  BY <1>0, <1>9 DEF RunsInv, BaseInv, NothingQueued, CacheAccounts, WorkReserves,
     UpdateAccounts, StorageAccounts, RunsPerPeriod, Unset,
     storage, cache, master, builds, SyncSetQueue, SyncUnchanged, IdleSync, Accounts, Reserves, Picks, TypeOK
<1>10. ASSUME NEW S \in SUBSET JobIDs, findJobsForResources(S) PROVE RunsInv'
  <2>1. /\ loop = "poll" /\ loop' = "build"
        /\ UNCHANGED <<now, storage, queuedJobs, sync, upd, runs>>
    BY <1>10 DEF findJobsForResources
  <2>2. upd.pc = "none" /\ \A j \in JobIDs : work[j].pc = "none"
    BY <2>1 DEF RunsInv, BaseInv, OneEvent
  <2>3. \A j \in S : /\ jobs[j] \in Job /\ IsRunnable(jobs[j], now)
                     /\ Accounts(j, jobs[j].rt)
    BY <1>10, <2>2
    DEF RunsInv, BaseInv, TypeOK, findJobsForResources, Eligible, NothingQueued, CacheAccounts
  <2>4. \A j \in S : /\ jobs'[j] = CountRetry(jobs[j])
                     /\ work'[j].pc = "picked"
                     /\ work'[j].job = CountRetry(jobs[j])
    BY <1>10 DEF findJobsForResources
  <2>5. \A j \in JobIDs \ S : jobs'[j] = jobs[j] /\ work'[j].pc = "none"
    BY <1>10 DEF findJobsForResources, NoWork
  <2>6. ASSUME NEW j \in S PROVE Picks(j, work'[j].job.rt)
    <3>1. TypeOK /\ j \in JobIDs
      BY <1>10 DEF RunsInv, BaseInv
    <3>2. Picks(j, CountRetry(jobs[j]).rt)
      BY <2>3, <3>1, PickLeavesRoom
    <3>3. QED
      BY <2>4, <3>2
  <2>7. WorkReserves'
    <3>1. ASSUME NEW j \in S PROVE Picks(j, work[j].job.rt)'
      BY <2>1, <2>6 DEF Picks
    <3>2. \A j \in S : work'[j].pc = "picked"
      BY <2>4
    <3>3. \A j \in JobIDs \ S : work'[j].pc = "none"
      BY <2>5
    <3>4. QED
      BY <3>1, <3>2, <3>3 DEF WorkReserves, WorkPc
  <2>8. CacheAccounts'
    <3>1. ASSUME NEW j \in JobIDs, jobs'[j] # NoJob, work'[j].pc = "none"
          PROVE  Accounts(j, jobs[j].rt)'
      <4>1. j \notin S /\ jobs'[j] = jobs[j]
        BY <2>4, <2>5, <3>1
      <4>2. Accounts(j, jobs[j].rt)
        BY <2>2, <3>1, <4>1 DEF RunsInv, CacheAccounts
      <4>3. QED
        BY <2>1, <4>1, <4>2 DEF Accounts
    <3>2. \A j \in JobIDs : work'[j].pc \in {"picked", "none"}
      BY <2>4, <2>5
    <3>3. QED
      BY <3>1, <3>2 DEF CacheAccounts, Unset
  <2>11. StorageAccounts'
    <3>1. \A j \in JobIDs : work'[j].pc \in {"picked", "none"}
      BY <2>4, <2>5
    <3>2. QED
      BY <2>1, <3>1 DEF RunsInv, StorageAccounts, storage, Accounts
  <2>12. QED
    BY <1>0, <2>1, <2>2, <2>7, <2>8, <2>11
    DEF RunsInv, NothingQueued, UpdateAccounts, RunsPerPeriod, storage
<1>11. ASSUME NEW S \in SUBSET JobIDs, Accept(S) PROVE RunsInv'
  <2>1. /\ loop = "build" /\ loop' = "poll"
        /\ UNCHANGED <<now, storage, cache, sync, upd>>
        /\ \A j \in JobIDs : work'[j] = NoWork /\ work[j].pc \in {"none", "done"}
    BY <1>11 DEF Accept, AllBuilt
  <2>2. upd.pc = "none"
    BY <2>1 DEF RunsInv, BaseInv, OneEvent
  <2>3. ASSUME NEW j \in S
        PROVE  /\ work[j].pc = "done" /\ work[j].job.rt \in JobRuntime
               /\ Reserves(j, work[j].job.rt)
    BY <1>11, <2>1, <2>3
    DEF RunsInv, BaseInv, TypeOK, WorkPc, Job, Accept, Built, WorkReserves
  <2>4. \A j \in JobIDs \ S : runs'[j] = runs[j]
    BY <1>11 DEF Accept
  <2>5. \A j \in S : runs'[j] = [runs[j] EXCEPT ![work[j].job.rt.lastStart] = @ + 1]
    BY <1>11 DEF Accept
  <2>6. ASSUME NEW j \in S, NEW rt \in JobRuntime, rt = work[j].job.rt
        PROVE  /\ Accounts(j, rt)'
               /\ \A p \in Period : runs'[j][p] <= RetryLimit + 1
    <3>1. Reserves(j, rt) /\ runs[j] \in [Period -> Nat] /\ rt.lastStart \in Period
      BY <1>11, <2>3, <2>6 DEF RunsInv, BaseInv, TypeOK, JobRuntime
    <3>2. rt.retries \in Nat /\ rt.retries <= RetryLimit
      BY <3>1 DEF Reserves, JobRuntime
    <3>3. \A p \in Period : runs'[j][p] = IF p = rt.lastStart THEN runs[j][p] + 1
                                                            ELSE runs[j][p]
      <4>1. runs'[j] = [runs[j] EXCEPT ![rt.lastStart] = runs[j][rt.lastStart] + 1]
        BY <2>5, <2>6
      <4>2. QED
        BY <3>1, <4>1
    <3>4. \A p \in Period : runs'[j][p] <= RetryLimit + 1
      BY <1>11, <3>1, <3>2, <3>3 DEF RunsInv, RunsPerPeriod, Reserves
    <3>5. Accounts(j, rt)'
      <4>1. now' = now /\ rt.lastStart <= now
        BY <2>1, <3>1 DEF Reserves
      <4>2. \A p \in Period : p > rt.lastStart => runs'[j][p] = 0
        <5>1. ASSUME NEW p \in Period, p > rt.lastStart
              PROVE  runs'[j][p] = 0
          <6>1. rt.lastStart \in Nat /\ p \in Nat /\ p # rt.lastStart
            BY <3>1, <5>1 DEF Period
          <6>2. runs'[j][p] = runs[j][p]
            BY <3>3, <5>1, <6>1
          <6>3. QED
            BY <3>1, <5>1, <6>2 DEF Reserves
        <5>2. QED
          BY <5>1
      <4>3. \A p \in Period : p = rt.lastStart => runs'[j][p] <= rt.retries + 1
        BY <3>1, <3>2, <3>3 DEF Reserves
      <4>4. QED
        BY <3>2, <4>1, <4>2, <4>3 DEF Accounts
    <3>6. QED
      BY <3>4, <3>5
  <2>7. RunsPerPeriod'
    BY <2>3, <2>4, <2>6 DEF RunsInv, RunsPerPeriod
  <2>8. ASSUME NEW j \in JobIDs, jobs[j] # NoJob
        PROVE  Accounts(j, jobs[j].rt)'
    <3>1. CASE j \in S
      <4>1. jobs[j].rt = work[j].job.rt
        BY <2>3, <2>8, <3>1 DEF RunsInv, CacheAccounts, WorkPc, Unset
      <4>2. QED
        BY <2>1, <2>3, <2>6, <3>1, <4>1 DEF cache, Accounts
    <3>2. CASE j \notin S
      <4>1. Accounts(j, jobs[j].rt)
        <5>1. CASE work[j].pc = "none"
          BY <2>8, <5>1 DEF RunsInv, CacheAccounts
        <5>2. CASE work[j].pc = "done"
          <6>1. jobs[j].rt = work[j].job.rt /\ Reserves(j, work[j].job.rt)
            BY <2>8, <5>2 DEF RunsInv, CacheAccounts, WorkReserves, WorkPc, Unset
          <6>2. jobs[j].rt \in JobRuntime
            BY <2>8 DEF RunsInv, BaseInv, TypeOK, Job
          <6>3. QED
            BY <6>1, <6>2, ReservesAccounts DEF RunsInv, BaseInv
        <5>3. QED
          BY <2>1, <5>1, <5>2
      <4>2. QED
        BY <2>1, <2>4, <3>2, <4>1 DEF cache, Accounts
    <3>3. QED
      BY <3>1, <3>2
  <2>9. CacheAccounts'
    BY <2>1, <2>8 DEF CacheAccounts, cache, NoWork
  <2>10. ASSUME "savefail" \notin Features, NEW j \in JobIDs, stored[j] # NoJob
         PROVE  Accounts(j, stored[j].rt)'
    <3>1. CASE j \in S
      <4>1. stored[j].rt = work[j].job.rt
        BY <2>3, <2>10, <3>1 DEF RunsInv, StorageAccounts, WorkPc
      <4>2. QED
        BY <2>1, <2>3, <2>6, <3>1, <4>1 DEF storage, Accounts
    <3>2. CASE j \notin S
      BY <2>1, <2>4, <2>10, <3>2 DEF RunsInv, StorageAccounts, storage, Accounts
    <3>3. QED
      BY <3>1, <3>2
  <2>11. StorageAccounts'
    BY <2>1, <2>10 DEF StorageAccounts, storage, NoWork
  <2>12. QED
    BY <1>0, <2>1, <2>2, <2>7, <2>9, <2>11
    DEF RunsInv, NothingQueued, WorkReserves, UpdateAccounts,
        storage, cache, NoWork
<1>12. ASSUME NEW j \in JobIDs, BuildTask(j) PROVE RunsInv'
  <2>1. PICK u \in UUIDs :
          work' = [work EXCEPT ![j] = [pc |-> "built",
                                       job |-> StagedJob(work[j].job, taskID(j, u))]]
    BY <1>12 DEF BuildTask
  <2> DEFINE new == StagedJob(work[j].job, taskID(j, u))
  <2>2. work' = [work EXCEPT ![j] = [pc |-> "built", job |-> new]]
    BY <2>1
  <2>3. work[j].job \in Job /\ work[j].pc = "picked" /\ taskID(j, u) \in TaskIDs
    BY <1>12 DEF RunsInv, BaseInv, TypeOK, BuildTask, taskID, TaskIDs
  <2>4. new.rt \in JobRuntime /\ new.rt.lastStart = now /\ new.rt.retries = work[j].job.rt.retries
    BY <2>3, StagedJobType DEF RunsInv, BaseInv, TypeOK, Job
  <2> HIDE DEF new
  <2>5. UNCHANGED <<now, storage, cache, sync, loop, upd, runs>>
    BY <1>12 DEF BuildTask
  <2>6. Reserves(j, new.rt)
    BY <2>3, <2>4, StartReserves DEF RunsInv, BaseInv, WorkReserves, Job
  <2>7. \A i \in JobIDs : /\ i # j => work'[i] = work[i]
                          /\ i = j => work'[i] = [pc |-> "built", job |-> new]
    BY <2>2 DEF RunsInv, BaseInv, TypeOK
  <2>8. QED
    BY <1>0, <2>3, <2>5, <2>6, <2>7, PickedToBuilt DEF storage
<1>13. ASSUME NEW j \in JobIDs, BuildFails(j) PROVE RunsInv'
  <2> DEFINE new == FailedJob(work[j].job)
  <2>1. work' = [work EXCEPT ![j] = [pc |-> "built", job |-> new]]
    BY <1>13 DEF BuildFails
  <2>2. work[j].job \in Job /\ work[j].pc = "picked"
    BY <1>13 DEF RunsInv, BaseInv, TypeOK, BuildFails
  <2>3. new.rt \in JobRuntime /\ new.rt.lastStart = now /\ new.rt.retries = work[j].job.rt.retries
    BY <2>2, FailedJobType DEF RunsInv, BaseInv, TypeOK, Job
  <2> HIDE DEF new
  <2>4. UNCHANGED <<now, stored, queue, cache, sync, loop, upd, runs>>
    BY <1>13 DEF BuildFails, storage
  <2>5. Reserves(j, new.rt)
    BY <2>2, <2>3, StartReserves DEF RunsInv, BaseInv, WorkReserves, Job
  <2>6. \A i \in JobIDs : /\ i # j => work'[i] = work[i]
                          /\ i = j => work'[i] = [pc |-> "built", job |-> new]
    BY <2>1 DEF RunsInv, BaseInv, TypeOK
  <2>7. QED
    BY <1>0, <2>2, <2>4, <2>5, <2>6, PickedToBuilt DEF storage
<1>14. ASSUME NEW j \in JobIDs, SaveBuilt(j) PROVE RunsInv'
  <2>1. /\ work[j].pc = "built" /\ j \in JobIDs
        /\ UNCHANGED <<now, queue, history, cache, sync, loop, upd, runs>>
    BY <1>14 DEF SaveBuilt, Step
  <2>2. \A i \in JobIDs : /\ i # j => work'[i] = work[i]
                          /\ i = j => work'[i].pc = "saved" /\ work'[i].job = work[i].job
    BY <1>14 DEF RunsInv, BaseInv, TypeOK, SaveBuilt, Step
  <2>3. work[j].job.rt \in JobRuntime
    BY <2>1 DEF RunsInv, BaseInv, TypeOK, Job
  <2> PICK ok \in BOOLEAN : SaveJobRuntime(j, work[j].job.rt, ok)
    BY <1>14 DEF SaveBuilt
  <2>4. \A i \in JobIDs : /\ i # j => stored'[i] = stored[i]
                          /\ stored'[i] = NoJob <=> stored[i] = NoJob
    BY <2>3, SaveKeepsJobs DEF RunsInv, BaseInv
  <2>5. "savefail" \notin Features /\ stored[j] # NoJob => stored'[j].rt = work[j].job.rt
    BY <2>3, SaveKeepsJobs DEF RunsInv, BaseInv
  <2>6. Reserves(j, work[j].job.rt) /\ Accounts(j, work[j].job.rt)
    BY <2>1, <2>3, ReservesAccounts DEF RunsInv, BaseInv, WorkReserves, WorkPc
  <2>7. WorkReserves'
    <3>1. \A i \in JobIDs : work'[i].pc = "picked" => work[i].pc = "picked" /\ work'[i].job = work[i].job
      BY <2>2
    <3>2. \A i \in JobIDs : work'[i].pc \in WorkPc \ {"picked", "none"} =>
                               Reserves(i, work'[i].job.rt)
      BY <2>2, <2>6 DEF RunsInv, WorkReserves
    <3>3. QED
      BY <2>1, <3>1, <3>2 DEF RunsInv, WorkReserves, Picks, Reserves
  <2>8. CacheAccounts'
    BY <2>1, <2>2 DEF RunsInv, CacheAccounts, Unset, cache, Accounts
  <2>9. StorageAccounts'
    <3>1. ASSUME "savefail" \notin Features, NEW i \in JobIDs, stored'[i] # NoJob
          PROVE  /\ Accounts(i, stored'[i].rt)
                 /\ work'[i].pc \in WorkPc \ {"picked", "built", "none"} =>
                        stored'[i].rt = work'[i].job.rt
      <4>1. CASE i = j
        BY <2>2, <2>4, <2>5, <2>6, <3>1, <4>1
      <4>2. CASE i # j
        BY <2>2, <2>4, <3>1, <4>2 DEF RunsInv, StorageAccounts
      <4>3. QED
        BY <4>1, <4>2
    <3>2. QED
      BY <2>1, <3>1 DEF StorageAccounts, Accounts
  <2>10. QED
    BY <1>0, <2>1, <2>2, <2>4, <2>7, <2>8, <2>9
    DEF RunsInv, NothingQueued, UpdateAccounts, RunsPerPeriod,
        cache, Accounts
<1>15. ASSUME NEW j \in JobIDs, SetBuilt(j) PROVE RunsInv'
  BY <1>0, <1>15 DEF RunsInv, BaseInv, NothingQueued, CacheAccounts, WorkReserves,
     UpdateAccounts, StorageAccounts, RunsPerPeriod, Unset,
     storage, cache, master, builds, SetBuilt, Step, WorkPc, Accounts, Reserves, Picks, TypeOK
<1>16. ASSUME NEW j \in JobIDs, DequeueStored(j) PROVE RunsInv'
  BY <1>0, <1>16 DEF RunsInv, NothingQueued, CacheAccounts, WorkReserves,
     UpdateAccounts, StorageAccounts, RunsPerPeriod, Unset,
     storage, cache, master, builds, DequeueStored
<1>17. ASSUME NEW j \in JobIDs, DequeueCached(j) PROVE RunsInv'
  BY <1>0, <1>17 DEF RunsInv, BaseInv, NothingQueued, CacheAccounts, WorkReserves,
     UpdateAccounts, StorageAccounts, RunsPerPeriod, Unset,
     storage, cache, master, builds, DequeueCached, Step, WorkPc, Accounts, Reserves, Picks, TypeOK
<1>18. ASSUME NEW j \in JobIDs, NotQueued(j) PROVE RunsInv'
  BY <1>0, <1>18 DEF RunsInv, BaseInv, NothingQueued, CacheAccounts, WorkReserves,
     UpdateAccounts, StorageAccounts, RunsPerPeriod, Unset,
     storage, cache, master, builds, NotQueued, Step, WorkPc, Accounts, Reserves, Picks, TypeOK
<1>19. ASSUME NEW j \in JobIDs, BookingExpires(j) PROVE RunsInv'
  BY <1>0, <1>19 DEF RunsInv, NothingQueued, CacheAccounts, WorkReserves,
     UpdateAccounts, StorageAccounts, RunsPerPeriod, Unset,
     storage, cache, master, builds, BookingExpires, Accounts, Reserves, Picks
<1>20. CASE AcceptNothing
  <2>1. /\ loop = "build" /\ loop' = "poll"
        /\ UNCHANGED <<now, storage, cache, sync, upd, runs>>
        /\ \A j \in JobIDs : work'[j] = NoWork /\ work[j].pc \in {"none", "done"}
    BY <1>20 DEF AcceptNothing, AllBuilt
  <2>2. upd.pc = "none"
    BY <2>1 DEF RunsInv, BaseInv, OneEvent
  <2>3. ASSUME NEW j \in JobIDs, jobs[j] # NoJob
        PROVE  Accounts(j, jobs[j].rt)
    <3>1. CASE work[j].pc = "none"
      BY <2>3, <3>1 DEF RunsInv, CacheAccounts
    <3>2. CASE work[j].pc = "done"
      <4>1. jobs[j].rt = work[j].job.rt /\ Reserves(j, work[j].job.rt)
        BY <2>3, <3>2 DEF RunsInv, CacheAccounts, WorkReserves, WorkPc, Unset
      <4>2. jobs[j].rt \in JobRuntime
        BY <2>3 DEF RunsInv, BaseInv, TypeOK, Job
      <4>3. QED
        BY <4>1, <4>2, ReservesAccounts DEF RunsInv, BaseInv
    <3>3. QED
      BY <2>1, <3>1, <3>2
  <2>4. CacheAccounts'
    BY <2>1, <2>3 DEF CacheAccounts, cache, NoWork, Accounts
  <2>5. StorageAccounts'
    BY <2>1 DEF RunsInv, StorageAccounts, storage, NoWork, Accounts
  <2>6. QED
    BY <1>0, <2>1, <2>2, <2>4, <2>5
    DEF RunsInv, NothingQueued, WorkReserves, UpdateAccounts,
        RunsPerPeriod, storage, cache, NoWork
<1>21. CASE GetUpdated
  <2> DEFINE m == Head(stream)
             j == parseTaskID(m.task)
  <2>1. /\ loop = "poll" /\ loop' = "update" /\ jobs[j] # NoJob
        /\ upd' = [pc |-> "set", msg |-> m,
                   job |-> [jobs[j] EXCEPT !.rt = ApplyUpdate(@, m.state)]]
        /\ UNCHANGED <<now, stored, queue, cache, sync, work, runs>>
    BY <1>21 DEF GetUpdated, builds
  <2>2. m \in Update
    BY <1>21 DEF RunsInv, BaseInv, TypeOK, GetUpdated
  <2>3. j \in JobIDs /\ m.state \in MesosState
    BY <2>2 DEF Update, parseTaskID, TaskIDs
  <2>4. jobs[j] \in Job
    BY <2>1, <2>3 DEF RunsInv, BaseInv, TypeOK
  <2>5. \A i \in JobIDs : work[i].pc = "none"
    BY <2>1 DEF RunsInv, BaseInv, OneEvent
  <2>6. Accounts(j, jobs[j].rt) /\ jobs[j].rt \in JobRuntime
    BY <2>1, <2>3, <2>4, <2>5 DEF RunsInv, CacheAccounts, Job
  <2>7. /\ ApplyUpdate(jobs[j].rt, m.state).lastStart = jobs[j].rt.lastStart
        /\ ApplyUpdate(jobs[j].rt, m.state).retries = jobs[j].rt.retries
    BY <2>3, <2>6, ApplyUpdateType
  <2>8. upd'.job.rt = ApplyUpdate(jobs[j].rt, m.state) /\ upd'.msg = m
    BY <2>1, <2>4 DEF Job
  <2>9. UpdateAccounts'
    BY <2>1, <2>6, <2>7, <2>8 DEF UpdateAccounts, Accounts
  <2>10. QED
    BY <1>0, <2>1, <2>5, <2>9
    DEF RunsInv, NothingQueued, CacheAccounts, WorkReserves,
        StorageAccounts, RunsPerPeriod, cache, Accounts
<1>22. CASE IgnoreUpdate
  BY <1>0, <1>22 DEF RunsInv, NothingQueued, CacheAccounts, WorkReserves,
     UpdateAccounts, StorageAccounts, RunsPerPeriod, Unset,
     storage, cache, master, builds, IgnoreUpdate, Accounts, Reserves, Picks
<1>23. CASE SetUpdated
  <2>1. \A j \in JobIDs : work[j].pc = "none"
    BY <1>23 DEF SetUpdated, RunsInv, BaseInv, OneEvent
  <2>2. /\ upd.pc = "set" /\ upd'.pc = "save" /\ upd'.msg = upd.msg /\ upd'.job = upd.job
        /\ \A j \in JobIDs : jobs'[j] = IF j = parseTaskID(upd.msg.task) THEN upd.job
                                                                      ELSE jobs[j]
        /\ UNCHANGED <<now, stored, queue, queuedJobs, sync, work, runs>>
    BY <1>23 DEF SetUpdated, RunsInv, BaseInv, TypeOK, storage, builds
  <2>3. CacheAccounts'
    <3>1. ASSUME NEW j \in JobIDs, jobs'[j] # NoJob
          PROVE  Accounts(j, jobs'[j].rt)
      <4>1. CASE j = parseTaskID(upd.msg.task)
        BY <2>2, <4>1 DEF RunsInv, UpdateAccounts
      <4>2. CASE j # parseTaskID(upd.msg.task)
        BY <2>1, <2>2, <3>1, <4>2 DEF RunsInv, CacheAccounts
      <4>3. QED
        BY <4>1, <4>2
    <3>2. QED
      BY <2>1, <2>2, <3>1 DEF CacheAccounts, Accounts, Unset
  <2>4. WorkReserves' /\ StorageAccounts' /\ RunsPerPeriod' /\ NothingQueued'
    BY <2>1, <2>2 DEF RunsInv, WorkReserves, StorageAccounts, RunsPerPeriod, NothingQueued,
       Accounts, Reserves, Picks, Unset
  <2>5. UpdateAccounts'
    BY <2>2 DEF RunsInv, UpdateAccounts, Accounts
  <2>6. QED
    BY <1>0, <2>3, <2>4, <2>5 DEF RunsInv
<1>24. CASE SaveUpdated
  <2> DEFINE j == parseTaskID(upd.msg.task)
  <2>1. /\ upd.pc = "save" /\ upd'.pc = "ack" /\ loop = "update"
        /\ UNCHANGED <<now, queue, history, cache, sync, loop, work, runs>>
    BY <1>24 DEF RunsInv, BaseInv, TypeOK, OneEvent, SaveUpdated, builds
  <2>2. j \in JobIDs /\ Accounts(j, upd.job.rt)
    BY <2>1 DEF RunsInv, BaseInv, TypeOK, UpdateAccounts, Update, parseTaskID, TaskIDs
  <2>3. \A i \in JobIDs : work[i].pc = "none"
    BY <2>1 DEF RunsInv, BaseInv, OneEvent
  <2>4. \A i \in JobIDs :
          /\ stored'[i] = NoJob <=> stored[i] = NoJob
          /\ stored[i] # NoJob =>
               stored'[i].rt = stored[i].rt \/ (i = j /\ stored'[i].rt = upd.job.rt)
    <3>1. upd.job.rt \in JobRuntime
      BY <2>1 DEF RunsInv, BaseInv, TypeOK, Job
    <3>2. PICK ok \in BOOLEAN : SaveJobRuntime(j, upd.job.rt, ok)
      BY <1>24 DEF SaveUpdated
    <3>3. QED
      BY <2>2, <3>1, <3>2, SaveKeepsJobs DEF RunsInv, BaseInv
  <2>5. StorageAccounts'
    BY <2>1, <2>2, <2>3, <2>4 DEF RunsInv, StorageAccounts, Accounts
  <2>6. QED
    BY <1>0, <2>1, <2>3, <2>4, <2>5
    DEF RunsInv, NothingQueued, CacheAccounts, WorkReserves,
        UpdateAccounts, RunsPerPeriod, cache, Accounts
<1>25. CASE AckUpdate
  BY <1>0, <1>25 DEF RunsInv, NothingQueued, CacheAccounts, WorkReserves,
     UpdateAccounts, StorageAccounts, RunsPerPeriod, Unset,
     storage, cache, master, builds, AckUpdate, NoUpdate, Accounts, Reserves, Picks
<1>26. CASE AckFails
  BY <1>0, <1>26 DEF RunsInv, NothingQueued, CacheAccounts, WorkReserves,
     UpdateAccounts, StorageAccounts, RunsPerPeriod, Unset,
     storage, cache, master, builds, AckFails, NoUpdate, Accounts, Reserves, Picks
<1>27. ASSUME NEW t \in TaskIDs, TaskStep(t) PROVE RunsInv'
  BY <1>0, <1>27 DEF RunsInv, NothingQueued, CacheAccounts, WorkReserves,
     UpdateAccounts, StorageAccounts, RunsPerPeriod, Unset,
     storage, cache, master, builds, TaskStep, MesosUnchanged, Accounts, Reserves, Picks
<1>28. ASSUME NEW t \in TaskIDs, SendUpdate(t) PROVE RunsInv'
  BY <1>0, <1>28 DEF RunsInv, NothingQueued, CacheAccounts, WorkReserves,
     UpdateAccounts, StorageAccounts, RunsPerPeriod, Unset,
     storage, cache, master, builds, SendUpdate, MesosUnchanged, Accounts, Reserves, Picks
<1>29. ASSUME NEW t \in TaskIDs, ReconcileReply(t) PROVE RunsInv'
  BY <1>0, <1>29 DEF RunsInv, NothingQueued, CacheAccounts, WorkReserves,
     UpdateAccounts, StorageAccounts, RunsPerPeriod, Unset,
     storage, cache, master, builds, ReconcileReply, MesosUnchanged, Accounts, Reserves, Picks
<1>30. CASE Disconnect
  BY <1>0, <1>30 DEF RunsInv, NothingQueued, CacheAccounts, WorkReserves,
     UpdateAccounts, StorageAccounts, RunsPerPeriod, Unset,
     storage, cache, master, builds, Disconnect, MesosUnchanged, Accounts, Reserves, Picks
<1>31. CASE ReconcileStart
  BY <1>0, <1>31 DEF RunsInv, NothingQueued, CacheAccounts, WorkReserves,
     UpdateAccounts, StorageAccounts, RunsPerPeriod, Unset,
     storage, cache, master, builds, ReconcileStart, MesosUnchanged, Accounts, Reserves, Picks
<1>32. CASE ReconcileFails
  BY <1>0, <1>32 DEF RunsInv, NothingQueued, CacheAccounts, WorkReserves,
     UpdateAccounts, StorageAccounts, RunsPerPeriod, Unset,
     storage, cache, master, builds, ReconcileFails, MesosUnchanged, Accounts, Reserves, Picks
<1>33. ASSUME Restart, "savefail" \notin Features PROVE RunsInv'
  BY <1>0, <1>33 DEF RunsInv, BaseInv, NothingQueued, CacheAccounts, WorkReserves,
     UpdateAccounts, StorageAccounts, RunsPerPeriod, Unset, storage,
     Restart, IdleSync, NoWork, NoUpdate, Accounts, Reserves, Picks, TypeOK, WorkPc
<1>34. CASE Failover \/ \E j \in JobIDs : ReportPanics(j)
  <2>1. "savefail" \notin Features
    BY <1>34 DEF RunsInv, BaseInv, ReportsFailures, Failover, ReportPanics
  <2>2. QED
    BY <1>33, <1>34, <2>1 DEF Failover, ReportPanics
<1>35. ASSUME NEW j \in JobIDs, ReportFailure(j) PROVE RunsInv'
  BY <1>0, <1>35 DEF RunsInv, NothingQueued, CacheAccounts, WorkReserves,
     UpdateAccounts, StorageAccounts, RunsPerPeriod, Unset,
     cache, ReportFailure, Accounts, Reserves, Picks
<1>36. CASE UNCHANGED vars
  BY <1>0, <1>36 DEF RunsInv, NothingQueued, CacheAccounts, WorkReserves,
     UpdateAccounts, StorageAccounts, RunsPerPeriod, Unset,
     storage, cache, master, builds, vars, Accounts, Reserves, Picks
<1>37. QED
  BY <1>1, <1>2, <1>4, <1>5, <1>6, <1>7, <1>8, <1>9, <1>10, <1>11, <1>12, <1>13, <1>14, <1>15, <1>16, <1>17, <1>18, <1>19, <1>20, <1>21, <1>22, <1>23, <1>24, <1>25, <1>26, <1>27, <1>28, <1>29, <1>30, <1>31, <1>32, <1>34, <1>35, <1>36
  DEF Next, APINext, SyncNext, OfferNext, BuildNext, UpdateNext, MesosNext

(* However the leader fails, restarts, or hears of tasks twice, no job is  *)
(* launched more than RetryLimit + 1 times per firing of its cron          *)
(* expression: as long as jobs are neither run on request nor both deleted *)
(* and created, and as long as a leader whose writes may be lost is not    *)
(* replaced (nor ended by the report of a failed build).                   *)
THEOREM RunsBounded ==
    ASSUME "run" \notin Features, ~({"create", "delete"} \subseteq Features),
           "savefail" \in Features => Features \cap {"failover", "secretfail"} = {}
    PROVE  Spec => []RunsPerPeriod
<1>0. KeptIdentity
  BY DEF KeptIdentity
<1>1. Init => RunsInv
  <2> SUFFICES ASSUME Init PROVE RunsInv
    OBVIOUS
  <2>1. BaseInv /\ TypeOK
    BY BaseInit DEF BaseInv
  <2>2. now = 1 /\ \A j \in JobIDs, p \in Period : runs[j][p] = 0
    BY DEF Init
  <2>4. \A j \in JobIDs : /\ stored[j] # NoJob => stored[j].rt \in RestRuntime(now)
                          /\ work[j].pc = "none"
    BY DEF Init, NoWork
  <2>5. ASSUME NEW j \in JobIDs, stored[j] # NoJob
        PROVE  Accounts(j, stored[j].rt)
    <3>1. stored[j].rt.retries = 0 /\ stored[j].rt.lastStart \in {0, 1}
      BY <2>1, <2>2, <2>4, <2>5, RestIsIdle DEF TypeOK
    <3>2. QED
      BY <2>2, <3>1, BoundsAssumption DEF Accounts, Period
  <2>6. stored = jobs /\ NothingQueued /\ UncachedIsNew
    BY <2>2 DEF Init, NothingQueued, UncachedIsNew, IdleSync
  <2>7. CacheAccounts /\ StorageAccounts /\ WorkReserves
    BY <2>4, <2>5, <2>6 DEF CacheAccounts, StorageAccounts, WorkReserves, WorkPc
  <2>8. UpdateAccounts /\ RunsPerPeriod
    BY <2>2, BoundsAssumption DEF Init, UpdateAccounts, NoUpdate, RunsPerPeriod
  <2>9. QED
    BY <2>1, <2>6, <2>7, <2>8 DEF RunsInv
<1>2. RunsInv /\ [Next]_vars => RunsInv'
  BY <1>0, RunsStep
<1>3. RunsInv => RunsPerPeriod
  BY DEF RunsInv
<1>4. QED
  BY <1>1, <1>2, <1>3, PTL DEF Spec
-----------------------------------------------------------------------------
(* Tasks are stored before they are launched, and runs recorded before     *)
(* they are forgotten, as long as no write fails.                          *)

(* Storage has what a goroutine has saved, unless the job is deleted. *)
SavedIsStored ==
    \A j \in JobIDs :
        work[j].pc \in {"saved", "set", "dequeued", "done"} /\ stored[j] # NoJob =>
            stored[j].rt = work[j].job.rt

LaunchInv == BaseInv /\ SavedIsStored

(* With no write failing a saved runtime is stored.                        *)
LEMMA SaveDone ==
    ASSUME "savefail" \notin Features, NEW j \in JobIDs, stored[j] # NoJob,
           stored \in [JobIDs -> Job \cup {NoJob}], NEW rt \in JobRuntime, NEW ok \in BOOLEAN,
           SaveJobRuntime(j, rt, ok)
    PROVE  /\ stored'[j] # NoJob /\ stored'[j].rt = rt
           /\ \A i \in JobIDs : i # j => stored'[i] = stored[i]
<1>1. ok /\ stored' = [stored EXCEPT ![j].rt = rt]
  BY DEF SaveJobRuntime
<1>2. stored[j] \in Job
  OBVIOUS
<1>3. [stored[j] EXCEPT !.rt = rt] \in Job /\ [stored[j] EXCEPT !.rt = rt].rt = rt
  BY <1>2 DEF Job
<1>4. stored'[j] = [stored[j] EXCEPT !.rt = rt] /\ \A i \in JobIDs : i # j => stored'[i] = stored[i]
  BY <1>1
<1> QED
  BY <1>3, <1>4, NullAssumption

LEMMA SavedStep ==
    ASSUME "savefail" \notin Features, KeptIdentity, LaunchInv, [Next]_vars
    PROVE  SavedIsStored'
<1>0. TypeOK /\ OneEvent /\ OneEvent' /\ ("delete" \notin Features => Known)
  BY BaseStep DEF LaunchInv, BaseInv
<1>1. ASSUME UNCHANGED stored,
             \A j \in JobIDs : work'[j].pc \in {"saved", "set", "dequeued", "done"} =>
                                  /\ work[j].pc \in {"saved", "set", "dequeued", "done"}
                                  /\ work'[j].job = work[j].job
      PROVE  SavedIsStored'
  BY <1>1 DEF LaunchInv, SavedIsStored
<1>2. CASE \/ Tick \/ SyncNext \/ MesosNext \/ UNCHANGED vars
           \/ GetUpdated \/ IgnoreUpdate \/ SetUpdated \/ AckUpdate \/ AckFails
           \/ \E j \in JobIDs : runJob(j) \/ BookingExpires(j) \/ ReportFailure(j)
  <2>1. UNCHANGED <<stored, work>>
    BY <1>2
    DEF builds, storage, vars, Tick, runJob, EditStorage, SyncNext, SyncReadJobs, SyncMergeJobs,
        SyncReadQueue, SyncSetQueue, SyncUnchanged, MesosNext, TaskStep, SendUpdate,
        ReconcileReply, Disconnect, ReconcileStart, ReconcileFails, MesosUnchanged,
        BookingExpires, ReportFailure, GetUpdated, IgnoreUpdate, SetUpdated, AckUpdate, AckFails
  <2> QED
    BY <1>1, <2>1
<1>3. ASSUME NEW j \in JobIDs, NEW m \in 0..RetryLimit, updateJob(j, m) \/ createJob(j, m)
      PROVE  SavedIsStored'
  <2>1. /\ UNCHANGED work
        /\ \A i \in JobIDs : /\ stored[i] # NoJob => stored'[i].rt = stored[i].rt
                             /\ stored[i] = NoJob /\ stored'[i] # NoJob => "create" \in Features
    BY <1>0, <1>3, StoredStays
  <2>2. "create" \in Features => \A i \in JobIDs : work[i].pc # "none" => stored[i] # NoJob
    BY <1>0 DEF KeptIdentity, Known
  <2> QED
    BY <2>1, <2>2 DEF LaunchInv, SavedIsStored
<1>4. ASSUME NEW j \in JobIDs, deleteJob(j) PROVE SavedIsStored'
  BY <1>0, <1>4 DEF deleteJob, EditStorage, builds, TypeOK, LaunchInv, SavedIsStored
<1>5. ASSUME NEW S \in SUBSET JobIDs, findJobsForResources(S) PROVE SavedIsStored'
  BY <1>5 DEF findJobsForResources, NoWork, SavedIsStored
<1>6. ASSUME NEW j \in JobIDs, BuildNext(j), ~SaveBuilt(j) PROVE SavedIsStored'
  <2>1. UNCHANGED stored
    BY <1>6 DEF BuildNext, BuildTask, BuildFails, SetBuilt, DequeueStored, DequeueCached,
                NotQueued, storage
  <2>2. CASE BuildTask(j) \/ BuildFails(j)
    <3>1. \A i \in JobIDs : IF i = j THEN work'[i].pc = "built" ELSE work'[i] = work[i]
      BY <1>0, <2>2 DEF BuildTask, BuildFails, TypeOK
    <3> QED
      BY <1>1, <2>1, <3>1
  <2>3. CASE SetBuilt(j) \/ DequeueStored(j) \/ DequeueCached(j) \/ NotQueued(j)
    <3>1. PICK from \in {"saved", "set", "dequeued"}, to \in {"set", "dequeued", "done"} :
             Step(j, from, to)
      BY <2>3 DEF SetBuilt, DequeueStored, DequeueCached, NotQueued
    <3>2. \A i \in JobIDs : /\ work'[i].job = work[i].job
                            /\ IF i = j THEN work[i].pc = from ELSE work'[i].pc = work[i].pc
      BY <1>0, <3>1 DEF Step, TypeOK
    <3> QED
      BY <1>1, <2>1, <3>2
  <2> QED
    BY <1>6, <2>2, <2>3 DEF BuildNext
<1>7. ASSUME NEW j \in JobIDs, SaveBuilt(j) PROVE SavedIsStored'
  <2>1. \A i \in JobIDs : /\ work'[i].job = work[i].job
                          /\ i # j => work'[i].pc = work[i].pc
    BY <1>0, <1>7 DEF SaveBuilt, Step, TypeOK
  <2>2. PICK ok \in BOOLEAN : SaveJobRuntime(j, work[j].job.rt, ok)
    BY <1>7 DEF SaveBuilt
  <2>3. CASE stored[j] = NoJob
    <3>1. UNCHANGED stored
      BY <2>2, <2>3 DEF SaveJobRuntime
    <3> QED
      BY <2>1, <2>3, <3>1 DEF LaunchInv, SavedIsStored
  <2>4. CASE stored[j] # NoJob
    <3>1. work[j].job.rt \in JobRuntime /\ stored \in [JobIDs -> Job \cup {NoJob}]
      BY <1>0, <1>7 DEF SaveBuilt, Step, TypeOK, Job
    <3>2. stored'[j].rt = work[j].job.rt /\ \A i \in JobIDs : i # j => stored'[i] = stored[i]
      BY <2>2, <2>4, <3>1, SaveDone
    <3> QED
      BY <2>1, <3>2 DEF LaunchInv, SavedIsStored
  <2> QED
    BY <2>3, <2>4
<1>8. CASE SaveUpdated
  <2>1. \A j \in JobIDs : work'[j].pc = "none"
    BY <1>0, <1>8 DEF SaveUpdated, OneEvent, builds
  <2> QED
    BY <2>1 DEF SavedIsStored
<1>9. CASE Restart \/ AcceptNothing \/ \E S \in SUBSET JobIDs : Accept(S)
  BY <1>9 DEF Restart, AcceptNothing, Accept, NoWork, SavedIsStored
<1> QED
  BY <1>2, <1>3, <1>4, <1>5, <1>6, <1>7, <1>8, <1>9
  DEF Next, APINext, OfferNext, UpdateNext, Failover, ReportPanics

LEMMA LaunchStep ==
    ASSUME "savefail" \notin Features, KeptIdentity, LaunchInv, [Next]_vars
    PROVE  LaunchInv'
  BY BaseStep, SavedStep DEF LaunchInv

(* A task is launched only when storage names it as the task of its job    *)
(* (buildTasksForOffer saves before it returns the tasks to be accepted),  *)
(* as long as no write fails and a deleted job is not created again.       *)
THEOREM LaunchesAreRecorded ==
    ASSUME "savefail" \notin Features, ~({"create", "delete"} \subseteq Features)
    PROVE  Spec => LaunchRecorded
<1>0. KeptIdentity
  BY DEF KeptIdentity
<1>1. Init => LaunchInv
  <2> SUFFICES ASSUME Init PROVE LaunchInv
    OBVIOUS
  <2>1. \A j \in JobIDs : work[j].pc = "none"
    BY DEF Init, NoWork
  <2> QED
    BY <2>1, BaseInit DEF LaunchInv, SavedIsStored
<1>2. LaunchInv /\ [Next]_vars => LaunchInv'
  BY <1>0, LaunchStep
<1>3. ASSUME LaunchInv, [Next]_vars, NEW t \in TaskIDs, mesos[t] = "none", mesos'[t] # "none",
             stored[parseTaskID(t)] # NoJob
      PROVE  stored[parseTaskID(t)].rt.task = t
  <2>0. TypeOK /\ Fresh
    BY <1>3 DEF LaunchInv, BaseInv
  <2>1. PICK S \in SUBSET JobIDs : Accept(S)
    BY <1>3, <2>0, KnownToMesos
  <2>2. parseTaskID(t) \in S /\ t = work[parseTaskID(t)].job.rt.task
    BY <1>3, <2>0, <2>1, Launched
  <2>3. work[parseTaskID(t)].pc = "done"
    BY <2>0, <2>1, <2>2, Launched
  <2> QED
    BY <1>3, <2>2, <2>3 DEF LaunchInv, SavedIsStored
<1>4. LaunchInv /\ [Next]_vars =>
        [\A t \in TaskIDs :
           LET j == parseTaskID(t) IN
           mesos[t] = "none" /\ mesos'[t] # "none" /\ stored[j] # NoJob => stored[j].rt.task = t]_vars
  BY <1>3
<1> QED
  BY <1>1, <1>2, <1>4, PTL DEF Spec, LaunchRecorded

(* The end of a task is in the history before it is acknowledged.          *)
UpdateRecorded ==
    upd.pc # "none" /\ ~upd.msg.recon /\ upd.msg.state \in Terminal =>
        upd.msg.task \in history[parseTaskID(upd.msg.task)]

RecordInv == BaseInv /\ UpdateRecorded /\ AckedIsRecorded

(* The history grows, and with no write failing by the task recorded.      *)
LEMMA AddTaskGrows ==
    ASSUME TypeOK, NEW j \in JobIDs, NEW t \in TaskIDs \cup {NoTask}, AddTask(j, t)
    PROVE  /\ \A i \in JobIDs : history[i] \subseteq history'[i]
           /\ "savefail" \notin Features /\ stored[j] # NoJob => t \in history'[j]
<1>1. history \in [JobIDs -> SUBSET (TaskIDs \cup {NoTask})]
  BY DEF TypeOK
<1>2. CASE UNCHANGED history /\ ("savefail" \in Features \/ stored[j] = NoJob)
  BY <1>2
<1>3. CASE history' = [history EXCEPT ![j] = history[j] \cup {t}]
  BY <1>1, <1>3
<1> QED
  BY <1>2, <1>3 DEF AddTask

(* Only deleteJob takes anything out of the history.                       *)
LEMMA HistoryGrows ==
    ASSUME "delete" \notin Features, TypeOK, [Next]_vars
    PROVE  \A j \in JobIDs : history[j] \subseteq history'[j]
<1>1. CASE GetUpdated
  <2>1. stream # <<>>
    BY <1>1 DEF GetUpdated
  <2>2. Head(stream).task \in TaskIDs /\ parseTaskID(Head(stream).task) \in JobIDs
    BY <2>1, MessageType, TaskIDType
  <2>3. UNCHANGED history \/ AddTask(parseTaskID(Head(stream).task), Head(stream).task)
    BY <1>1 DEF GetUpdated
  <2> QED
    BY <2>2, <2>3, AddTaskGrows
<1>2. ASSUME NEW j \in JobIDs, ReportFailure(j)
      PROVE  \A i \in JobIDs : history[i] \subseteq history'[i]
  BY <1>2, AddTaskGrows DEF ReportFailure
<1>3. CASE \/ Tick \/ APINext \/ SyncNext \/ UNCHANGED vars \/ AcceptNothing \/ MesosNext \/ Restart
           \/ \E S \in SUBSET JobIDs : findJobsForResources(S) \/ Accept(S)
           \/ \E j \in JobIDs : BookingExpires(j) \/ BuildNext(j)
           \/ IgnoreUpdate \/ SetUpdated \/ SaveUpdated \/ AckUpdate \/ AckFails
  <2>1. UNCHANGED history
    BY <1>3
    DEF storage, vars, Tick, APINext, updateJob, createJob, deleteJob, runJob, EditStorage,
        SyncNext, SyncReadJobs, SyncMergeJobs, SyncReadQueue, SyncSetQueue, SyncUnchanged,
        AcceptNothing, Accept, findJobsForResources, BookingExpires, BuildNext, BuildTask,
        BuildFails, SaveBuilt, SetBuilt, DequeueStored, DequeueCached, NotQueued, IgnoreUpdate,
        SetUpdated, SaveUpdated, AckUpdate, AckFails, MesosNext, TaskStep, SendUpdate,
        ReconcileReply, Disconnect, ReconcileStart, ReconcileFails, MesosUnchanged, Restart
  <2> QED
    BY <2>1
<1> QED
  BY <1>1, <1>2, <1>3 DEF Next, OfferNext, UpdateNext, Failover, ReportPanics

LEMMA UpdateRecordedStep ==
    ASSUME "savefail" \notin Features, "delete" \notin Features, RecordInv, [Next]_vars
    PROVE  UpdateRecorded'
<1>0. TypeOK /\ Known /\ Announced /\ \A j \in JobIDs : history[j] \subseteq history'[j]
  BY HistoryGrows DEF RecordInv, BaseInv
<1>1. CASE /\ upd'.msg = upd.msg
           /\ upd'.pc # "none" => upd.pc # "none"
  BY <1>0, <1>1, MessageType DEF RecordInv, UpdateRecorded
<1>2. CASE upd'.pc = "none"
  BY <1>2 DEF UpdateRecorded
<1>3. CASE GetUpdated
  <2> DEFINE m == Head(stream)
  <2>1. /\ stream # <<>> /\ upd'.msg = m /\ jobs[parseTaskID(m.task)] # NoJob
        /\ IF Recorded(m.state) THEN AddTask(parseTaskID(m.task), m.task) ELSE UNCHANGED history
    BY <1>3 DEF GetUpdated
  <2>2. m \in Update /\ m.task \in TaskIDs /\ parseTaskID(m.task) \in JobIDs
    BY <1>0, <2>1, MessageType, TaskIDType
  <2> HIDE DEF m
  <2>3. stored[parseTaskID(m.task)] # NoJob
    BY <1>0, <2>1, <2>2 DEF Known
  <2>4. m.state \in Terminal => m.task \in history'[parseTaskID(m.task)]
    BY <1>0, <2>1, <2>2, <2>3, AddTaskGrows DEF Recorded
  <2> QED
    BY <2>1, <2>4 DEF UpdateRecorded
<1>4. CASE IgnoreUpdate
  <2> DEFINE m == Head(stream)
  <2>1. /\ stream # <<>> /\ upd'.msg = m
        /\ jobs[parseTaskID(m.task)] # NoJob => Overtaken(jobs[parseTaskID(m.task)], m)
    BY <1>4 DEF IgnoreUpdate
  <2>2. m \in Update /\ m.task \in TaskIDs /\ m = stream[1] /\ 1 \in 1..Len(stream)
    BY <1>0, <2>1, MessageType
  <2> HIDE DEF m
  <2>3. ~m.recon => jobs[parseTaskID(m.task)] # NoJob
    BY <1>0, <2>2 DEF Announced, Known
  <2>4. m.recon
    BY <2>1, <2>2, <2>3 DEF Overtaken, Update
  <2> QED
    BY <2>1, <2>4 DEF UpdateRecorded
<1>5. CASE SetUpdated \/ SaveUpdated
  BY <1>0, <1>1, <1>5 DEF SetUpdated, SaveUpdated, TypeOK
<1>6. CASE AckUpdate \/ AckFails \/ Restart
  BY <1>2, <1>6 DEF AckUpdate, AckFails, Restart, NoUpdate
<1>7. CASE \/ Tick \/ APINext \/ SyncNext \/ OfferNext \/ MesosNext \/ UNCHANGED vars
  <2>1. UNCHANGED upd
    BY <1>7
    DEF vars, Tick, APINext, updateJob, createJob, deleteJob, runJob, EditStorage,
        SyncNext, SyncReadJobs, SyncMergeJobs, SyncReadQueue, SyncSetQueue, SyncUnchanged,
        OfferNext, AcceptNothing, Accept, findJobsForResources, BookingExpires, BuildNext,
        BuildTask, BuildFails, SaveBuilt, SetBuilt, DequeueStored, DequeueCached, NotQueued,
        ReportFailure, MesosNext, TaskStep, SendUpdate, ReconcileReply, Disconnect,
        ReconcileStart, ReconcileFails, MesosUnchanged
  <2> QED
    BY <1>1, <2>1
<1> QED
  BY <1>3, <1>4, <1>5, <1>6, <1>7 DEF Next, UpdateNext, Failover, ReportPanics

LEMMA RecordStep ==
    ASSUME "savefail" \notin Features, "delete" \notin Features, RecordInv, [Next]_vars
    PROVE  RecordInv'
<1>0. TypeOK /\ Fresh /\ \A j \in JobIDs : history[j] \subseteq history'[j]
  BY HistoryGrows DEF RecordInv, BaseInv
<1>1. \A t \in TaskIDs : mesos'[t] = "gone" => mesos[t] = "gone" \/ t \in history[parseTaskID(t)]
  <2>1. CASE UNCHANGED mesos
    BY <2>1
  <2>2. CASE \E S \in SUBSET JobIDs : Accept(S)
    BY <1>0, <2>2, Launched
  <2>3. CASE \E t \in TaskIDs : TaskStep(t)
    BY <1>0, <2>3, TaskMoves DEF MesosState, Live, Terminal
  <2>4. CASE AckUpdate
    <3>1. upd.pc # "none"
      BY <2>4 DEF AckUpdate
    <3> QED
      BY <1>0, <2>1, <2>4, <3>1, AckMoves DEF RecordInv, UpdateRecorded
  <2> QED
    BY <2>1, <2>2, <2>3, <2>4, TaskEvents
<1>2. AckedIsRecorded'
  BY <1>0, <1>1, TaskIDType DEF RecordInv, AckedIsRecorded
<1> QED
  BY <1>2, BaseStep, UpdateRecordedStep DEF RecordInv

LEMMA RecordInit == Init => RecordInv
<1> SUFFICES ASSUME Init PROVE RecordInv
  OBVIOUS
<1>1. upd.pc = "none" /\ \A t \in TaskIDs : mesos[t] = "none"
  BY DEF Init, NoUpdate
<1> QED
  BY <1>1, BaseInit DEF RecordInv, UpdateRecorded, AckedIsRecorded

(* Mesos forgets a task only after its run is in the history of its job    *)
(* (HandleTaskStateUpdate records before handlers.go acknowledges),        *)
(* whatever restarts, repeats and reconciliations there are.               *)
THEOREM RunsAreRecorded ==
    ASSUME "savefail" \notin Features, "delete" \notin Features
    PROVE  Spec => []AckedIsRecorded
<1>1. RecordInv /\ [Next]_vars => RecordInv'
  BY RecordStep
<1>2. RecordInv => AckedIsRecorded
  BY DEF RecordInv
<1> QED
  BY <1>1, <1>2, RecordInit, PTL DEF Spec
-----------------------------------------------------------------------------
(* One task at a time: what Mesos runs for a job is what the cache says,   *)
(* and a job that the cache says is running is not picked.                 *)

Open(t) == mesos[t] \in MesosState

(* The end of a task is in the cache and about to be acknowledged. *)
InHand(t) == upd.pc \in {"save", "ack"} /\ upd.msg.task = t /\ upd.msg.state \in Terminal

(* Per task one update is under way, and it is the last one. *)
InOrder ==
    /\ \A i \in 1..Len(stream) :
         /\ ~stream[i].recon /\ ack[stream[i].task] = "sent"
         /\ mesos[stream[i].task] = stream[i].state
         /\ \A k \in 1..Len(stream) : stream[i].task = stream[k].task => i = k
    /\ upd.pc # "none" =>
         /\ ~upd.msg.recon /\ ack[upd.msg.task] = "sent" /\ mesos[upd.msg.task] = upd.msg.state
         /\ \A i \in 1..Len(stream) : stream[i].task # upd.msg.task

IsTaskOf(t, job) == job.rt.task = t /\ job.rt.state \in Live

OneOpen == \A t, u \in TaskIDs : Open(t) /\ Open(u) /\ parseTaskID(t) = parseTaskID(u) => t = u

(* A job that was deleted may be gone from the cache while its task runs,  *)
(* and be put back by a goroutine or an update that still has a copy.      *)
OpenIsCurrent ==
    /\ \A t \in TaskIDs :
         Open(t) => \/ InHand(t)
                    \/ jobs[parseTaskID(t)] = NoJob
                    \/ IsTaskOf(t, jobs[parseTaskID(t)])
    /\ upd.pc = "set" /\ upd.msg.state \in Live => IsTaskOf(upd.msg.task, upd.job)
    /\ \A t \in TaskIDs : work[parseTaskID(t)].pc # "none" => ~Open(t)
    /\ \A j \in JobIDs :
         work[j].pc \in {"set", "dequeued", "done"} /\ jobs[j] # NoJob => jobs[j].rt = work[j].job.rt

Quiet == NothingQueued /\ recTasks = {}

OneTaskInv == BaseInv /\ Quiet /\ InOrder /\ OneOpen /\ OpenIsCurrent

Plain == Features \subseteq {"slow", "edit", "create", "delete", "savefail"} /\ KeptIdentity

LEMMA QuietStep ==
    ASSUME Plain, TypeOK, ReportsFailures, Quiet, [Next]_vars
    PROVE  Quiet'
<1>2. recTasks' = {}
  BY DEF Plain, Quiet, Next, vars, Tick, APINext, updateJob, createJob, deleteJob, runJob, EditStorage,
          SyncNext, SyncReadJobs, SyncMergeJobs, SyncReadQueue, SyncSetQueue, SyncUnchanged,
          OfferNext, Accept, AcceptNothing, Restart, findJobsForResources, BuildNext, BuildTask, BuildFails,
          SaveBuilt, SetBuilt, DequeueStored, DequeueCached, NotQueued, BookingExpires, ReportFailure,
          UpdateNext, GetUpdated, IgnoreUpdate, SetUpdated, SaveUpdated, AckUpdate, AckFails,
          MesosNext, TaskStep, SendUpdate, ReconcileReply, MesosUnchanged,
          Disconnect, ReconcileStart, ReconcileFails, Failover, ReportPanics
<1>3. NothingQueued'
  <2>1. ASSUME UNCHANGED <<queue, queuedJobs>>, sync' = sync PROVE NothingQueued'
    BY <2>1 DEF Quiet, NothingQueued
  <2>2. CASE SyncNext
    <3>1. sync \in [pc : {"idle", "jobs", "queue", "queued"}, jobs : [JobIDs -> Job \cup {NoJob}],
                    queue : SUBSET JobIDs]
      BY DEF TypeOK
    <3>2. queue' = queue /\ queue = {} /\ queuedJobs = {} /\ sync.queue = {}
      BY <2>2 DEF Quiet, NothingQueued, SyncNext, SyncReadJobs, SyncMergeJobs, SyncReadQueue,
                  SyncSetQueue, SyncUnchanged, storage
    <3>3. sync'.queue = {}
      <4>1. \/ sync' = [sync EXCEPT !.pc = "jobs", !.jobs = stored]
            \/ sync' = [sync EXCEPT !.pc = "queue", !.jobs = EmptyCache]
            \/ sync' = [sync EXCEPT !.pc = "queued", !.queue = queue]
            \/ sync' = IdleSync
        BY <2>2 DEF SyncNext, SyncReadJobs, SyncMergeJobs, SyncReadQueue, SyncSetQueue
      <4>2. CASE sync' = [sync EXCEPT !.pc = "jobs", !.jobs = stored]
        BY <3>1, <3>2, <4>2
      <4>3. CASE sync' = [sync EXCEPT !.pc = "queue", !.jobs = EmptyCache]
        BY <3>1, <3>2, <4>3
      <4>4. CASE sync' = [sync EXCEPT !.pc = "queued", !.queue = queue]
        BY <3>1, <3>2, <4>4
      <4>5. CASE sync' = IdleSync
        BY <4>5 DEF IdleSync
      <4> QED
        BY <4>1, <4>2, <4>3, <4>4, <4>5
    <3>4. queuedJobs' = {}
      BY <2>2, <3>2 DEF SyncNext, SyncReadJobs, SyncMergeJobs, SyncReadQueue, SyncSetQueue, SyncUnchanged
    <3> QED
      BY <3>2, <3>3, <3>4 DEF NothingQueued
  <2>3. ASSUME NEW j \in JobIDs, BuildNext(j) PROVE NothingQueued'
    BY <2>3 DEF Quiet, NothingQueued, BuildNext, BuildTask, BuildFails, SaveBuilt, SetBuilt,
                DequeueStored, DequeueCached, NotQueued, storage, cache
  <2>4. CASE Tick \/ APINext \/ UNCHANGED vars
    BY <2>1, <2>4 DEF Plain, vars, storage, cache, Tick, APINext, updateJob, createJob, deleteJob, runJob,
                EditStorage
  <2>5. CASE OfferNext /\ ~\E j \in JobIDs : BuildNext(j)
    BY <2>1, <2>5 DEF OfferNext, findJobsForResources, Accept, AcceptNothing, BookingExpires,
                ReportFailure, storage, cache
  <2>6. CASE UpdateNext \/ MesosNext
    BY <2>1, <2>6 DEF UpdateNext, GetUpdated, IgnoreUpdate, SetUpdated, SaveUpdated, AckUpdate,
          AckFails, MesosNext, TaskStep, SendUpdate, ReconcileReply, Disconnect, ReconcileStart,
          ReconcileFails, MesosUnchanged, storage, cache
  <2> QED
    BY <2>2, <2>3, <2>4, <2>5, <2>6 DEF Next, Failover, ReportPanics, Plain, ReportsFailures
<1> QED
  BY <1>2, <1>3 DEF Quiet

LEMMA InOrderStep ==
    ASSUME Plain, OneTaskInv, TypeOK', [Next]_vars
    PROVE  InOrder'
<1>0. TypeOK /\ InOrder /\ OpenIsCurrent /\ OneEvent /\ ReportsFailures /\ Fresh /\ Quiet
  BY DEF OneTaskInv, BaseInv
<1>s. /\ stream \in Seq(Update)
      /\ \A i \in 1..Len(stream) : stream[i].task \in TaskIDs /\ stream[i].state \in MesosState
  <2>1. stream \in Seq(Update)
    BY <1>0 DEF TypeOK
  <2>2. \A i \in 1..Len(stream) : stream[i] \in Update
    BY <2>1
  <2> QED
    BY <2>1, <2>2 DEF Update
<1>u. upd.pc # "none" => upd.msg \in Update /\ upd.msg.task \in TaskIDs /\ upd.msg.state \in MesosState
  BY <1>0 DEF TypeOK, Update
<1>1. ASSUME UNCHANGED <<mesos, ack, stream>>, upd' = upd PROVE InOrder'
  BY <1>0, <1>1 DEF InOrder
<1>2. CASE Tick \/ APINext \/ SyncNext \/ UNCHANGED vars \/ AcceptNothing
           \/ (\E S \in SUBSET JobIDs : findJobsForResources(S))
           \/ (\E j \in JobIDs : BuildNext(j) \/ BookingExpires(j) \/ ReportFailure(j))
           \/ ReconcileStart \/ ReconcileFails
  BY <1>1, <1>2
  DEF master, vars, Tick, APINext, updateJob, createJob, deleteJob, runJob, EditStorage,
      SyncNext, SyncReadJobs, SyncMergeJobs, SyncReadQueue, SyncSetQueue, SyncUnchanged,
      AcceptNothing, findJobsForResources, BuildNext, BuildTask, BuildFails, SaveBuilt,
      SetBuilt, DequeueStored, DequeueCached, NotQueued, BookingExpires, ReportFailure,
      ReconcileStart, ReconcileFails, MesosUnchanged
<1>3. ASSUME NEW S \in SUBSET JobIDs, Accept(S) PROVE InOrder'
  <2>1. UNCHANGED <<ack, stream>> /\ upd' = upd /\ loop = "build"
    BY <1>3 DEF Accept, AllBuilt
  <2>2. upd.pc = "none"
    BY <1>0, <2>1 DEF OneEvent
  <2>3. \A t \in TaskIDs : Open(t) => mesos'[t] = mesos[t]
    BY <1>0, <1>3, Launched DEF Open, MesosState, Live, Terminal
  <2>4. \A i \in 1..Len(stream) : mesos'[stream[i].task] = mesos[stream[i].task]
    BY <1>0, <1>s, <2>3 DEF InOrder, Open
  <2> QED
    BY <1>0, <2>1, <2>2, <2>4 DEF InOrder
<1>4. CASE GetUpdated \/ IgnoreUpdate
  <2>1. /\ UNCHANGED <<mesos, ack>> /\ stream # <<>> /\ stream' = Tail(stream)
        /\ upd'.msg = Head(stream)
    BY <1>4 DEF GetUpdated, IgnoreUpdate
  <2>2. /\ Head(stream) = stream[1] /\ 1 \in 1..Len(stream)
        /\ \A i \in 1..Len(stream') : i + 1 \in 1..Len(stream) /\ stream'[i] = stream[i + 1]
    BY <1>s, <2>1
  <2>3. \A i, k \in 1..Len(stream) : stream[i].task = stream[k].task => i = k
    BY <1>0 DEF InOrder
  <2>4. \A i \in 1..Len(stream') : stream'[i].task # stream[1].task
    BY <1>s, <2>1, <2>2, <2>3
  <2>5. \A i, k \in 1..Len(stream') : stream'[i].task = stream'[k].task => i = k
    <3>1. ASSUME NEW i \in 1..Len(stream'), NEW k \in 1..Len(stream'),
                 stream'[i].task = stream'[k].task
          PROVE  i = k
      <4>1. /\ i + 1 \in 1..Len(stream) /\ stream'[i] = stream[i + 1]
            /\ k + 1 \in 1..Len(stream) /\ stream'[k] = stream[k + 1]
        BY <2>2
      <4>2. i + 1 = k + 1
        BY <2>3, <3>1, <4>1
      <4> QED
        BY <4>2
    <3> QED
      BY <3>1
  <2> QED
    BY <1>0, <2>1, <2>2, <2>4, <2>5 DEF InOrder
<1>5. CASE SetUpdated \/ SaveUpdated
  <2>1. UNCHANGED <<mesos, ack, stream>> /\ upd'.msg = upd.msg /\ upd.pc # "none"
    BY <1>0, <1>5 DEF SetUpdated, SaveUpdated, master, TypeOK
  <2> QED
    BY <1>0, <2>1 DEF InOrder
<1>6. CASE AckUpdate
  <2>1. stream' = stream /\ upd'.pc = "none" /\ upd.pc = "ack"
    BY <1>6 DEF AckUpdate, NoUpdate
  <2>2. \A t \in TaskIDs : t # upd.msg.task => mesos'[t] = mesos[t] /\ ack'[t] = ack[t]
    BY <1>0, <1>6 DEF AckUpdate, TypeOK
  <2> QED
    BY <1>0, <1>s, <2>1, <2>2 DEF InOrder
<1>7. CASE Disconnect
  <2>1. stream' = <<>> /\ upd'.pc = "none"
    BY <1>0, <1>7 DEF Disconnect, DropStream, MesosUnchanged, OneEvent
  <2> QED
    BY <2>1 DEF InOrder
<1>8. ASSUME NEW t \in TaskIDs, TaskStep(t) PROVE InOrder'
  <2>1. UNCHANGED stream /\ upd' = upd /\ ack[t] # "sent"
    BY <1>8 DEF TaskStep, MesosUnchanged
  <2>2. \A u \in TaskIDs : u # t => mesos'[u] = mesos[u] /\ ack'[u] = ack[u]
    BY <1>0, <1>8 DEF TaskStep, TypeOK
  <2> QED
    BY <1>0, <1>s, <1>u, <2>1, <2>2 DEF InOrder
<1>9. ASSUME NEW t \in TaskIDs, SendUpdate(t) PROVE InOrder'
  <2> DEFINE m == [task |-> t, state |-> mesos[t], recon |-> FALSE]
  <2>1. /\ UNCHANGED mesos /\ upd' = upd /\ ack[t] = "pending"
        /\ ack' = [ack EXCEPT ![t] = "sent"] /\ stream' = Append(stream, m)
    BY <1>9 DEF SendUpdate, MesosUnchanged, Plain
  <2>2. m.task = t /\ m.state = mesos[t] /\ ~m.recon /\ m \in Update
    BY <1>0, <2>1 DEF TypeOK, Update
  <2> HIDE DEF m
  <2>3. /\ Len(stream') = Len(stream) + 1 /\ Len(stream) \in Nat
        /\ \A i \in 1..Len(stream') : stream'[i] = IF i \in 1..Len(stream) THEN stream[i] ELSE m
    BY <1>s, <2>1, <2>2
  <2>4. \A u \in TaskIDs : ack'[u] = IF u = t THEN "sent" ELSE ack[u]
    BY <1>0, <2>1 DEF TypeOK
  <2>5. \A i \in 1..Len(stream) : stream[i].task # t
    BY <1>0, <2>1 DEF InOrder
  <2>6. \A i \in 1..Len(stream') : stream'[i].task \in TaskIDs
    BY <1>s, <2>2, <2>3
  <2>7. \A i \in 1..Len(stream') :
          /\ ~stream'[i].recon /\ ack'[stream'[i].task] = "sent"
          /\ mesos'[stream'[i].task] = stream'[i].state
    BY <1>0, <2>1, <2>2, <2>3, <2>4, <2>6 DEF InOrder
  <2>8. \A i, k \in 1..Len(stream') : stream'[i].task = stream'[k].task => i = k
    <3>1. \A i, k \in 1..Len(stream) : stream[i].task = stream[k].task => i = k
      BY <1>0 DEF InOrder
    <3> QED
      BY <2>2, <2>3, <2>5, <3>1
  <2>9. upd.pc # "none" =>
         /\ ~upd.msg.recon /\ ack'[upd.msg.task] = "sent" /\ mesos'[upd.msg.task] = upd.msg.state
         /\ \A i \in 1..Len(stream') : stream'[i].task # upd.msg.task
    BY <1>0, <1>u, <2>1, <2>2, <2>3, <2>4 DEF InOrder
  <2> QED
    BY <2>1, <2>7, <2>8, <2>9 DEF InOrder
<1> QED
  BY <1>0, <1>2, <1>3, <1>4, <1>5, <1>6, <1>7, <1>8, <1>9
  DEF Next, OfferNext, UpdateNext, MesosNext, Failover, ReportPanics, Plain, Quiet, ReportsFailures,
      AckFails, ReconcileReply

LEMMA OpenIsCurrentStep ==
    ASSUME Plain, OneTaskInv, TypeOK', [Next]_vars
    PROVE  OpenIsCurrent'
<1>0. TypeOK /\ InOrder /\ OpenIsCurrent /\ OneEvent /\ ReportsFailures /\ Fresh /\ Quiet /\ OneOpen
  BY DEF OneTaskInv, BaseInv
<1>k. /\ "delete" \notin Features => Known
      /\ "create" \notin Features => EvictedAreDeleted
      /\ "create" \notin Features \/ "delete" \notin Features
  BY DEF OneTaskInv, BaseInv, Plain, KeptIdentity
<1>t. \A t \in TaskIDs : parseTaskID(t) \in JobIDs
  BY TaskIDType
<1>u. upd.pc # "none" => /\ upd.msg \in Update /\ upd.msg.task \in TaskIDs
                         /\ upd.msg.state \in MesosState /\ Open(upd.msg.task)
  BY <1>0 DEF TypeOK, Update, InOrder, Open
<1>1. ASSUME UNCHANGED <<mesos, jobs>>, upd' = upd, work' = work PROVE OpenIsCurrent'
  BY <1>0, <1>1 DEF OpenIsCurrent, InHand, Open
<1>2. CASE Tick \/ APINext \/ SyncReadJobs \/ SyncReadQueue \/ SyncSetQueue \/ UNCHANGED vars
           \/ (\E j \in JobIDs : BookingExpires(j) \/ ReportFailure(j))
           \/ (\E t \in TaskIDs : SendUpdate(t)) \/ Disconnect \/ ReconcileStart \/ ReconcileFails
  BY <1>1, <1>2
  DEF master, cache, builds, vars, Tick, APINext, updateJob, createJob, deleteJob, runJob, EditStorage,
      SyncReadJobs, SyncReadQueue, SyncSetQueue, SyncUnchanged, BookingExpires, ReportFailure,
      SendUpdate, Disconnect, ReconcileStart, ReconcileFails, MesosUnchanged
<1>3. CASE SyncMergeJobs
  <2>1. UNCHANGED mesos /\ upd' = upd /\ work' = work
    BY <1>3 DEF SyncMergeJobs, SyncUnchanged, builds, master
  <2>2. \A j \in JobIDs : /\ jobs[j] # NoJob /\ jobs'[j] # NoJob => jobs'[j].rt = jobs[j].rt
                          /\ jobs[j] = NoJob => jobs'[j] = sync.jobs[j]
    <3>1. ASSUME NEW j \in JobIDs
          PROVE  /\ jobs[j] # NoJob /\ jobs'[j] # NoJob => jobs'[j].rt = jobs[j].rt
                 /\ jobs[j] = NoJob => jobs'[j] = sync.jobs[j]
      <4>1. /\ jobs'[j] = MergeJob(jobs[j], sync.jobs[j])
            /\ jobs[j] \in Job \cup {NoJob} /\ sync.jobs[j] \in Job \cup {NoJob}
        BY <1>0, <1>3 DEF SyncMergeJobs, TypeOK
      <4>2. jobs'[j] # NoJob => sync.jobs[j] # NoJob
        BY <4>1 DEF MergeJob
      <4>3. jobs[j] = NoJob => jobs'[j] = sync.jobs[j]
        BY <4>1 DEF MergeJob
      <4> QED
        BY <4>1, <4>2, <4>3, MergeJobType
    <3> QED
      BY <3>1
  <2>3. ASSUME NEW j \in JobIDs, jobs[j] = NoJob, jobs'[j] # NoJob
        PROVE  /\ work[j].pc = "none"
               /\ \A t \in TaskIDs : parseTaskID(t) = j => ~Open(t)
    <3>1. sync.pc = "jobs" /\ sync.jobs[j] # NoJob
      BY <1>3, <2>2, <2>3 DEF SyncMergeJobs
    <3>2. Known
      BY <1>k, <2>3, <3>1 DEF EvictedAreDeleted
    <3> QED
      BY <2>3, <3>2 DEF Known, Open, MesosState, Live, Terminal
  <2> QED
    BY <1>0, <1>t, <2>1, <2>2, <2>3 DEF OpenIsCurrent, InHand, Open, IsTaskOf
<1>4. ASSUME NEW S \in SUBSET JobIDs, findJobsForResources(S) PROVE OpenIsCurrent'
  <2>1. UNCHANGED mesos /\ upd' = upd /\ upd.pc = "none" /\ loop = "poll"
    BY <1>0, <1>4 DEF findJobsForResources, master, OneEvent
  <2>2. \A j \in JobIDs : /\ jobs'[j] = IF j \in S THEN CountRetry(jobs[j]) ELSE jobs[j]
                          /\ work'[j].pc \in {"none", "picked"}
                          /\ work'[j].pc = "picked" => j \in S
    BY <1>0, <1>4 DEF findJobsForResources, NoWork
  <2>3. \A j \in S : jobs[j] \in Job /\ jobs[j].rt.state \in {"Idle", "Failed"}
    BY <1>0, <1>4 DEF findJobsForResources, Eligible, Quiet, NothingQueued, IsRunnable, TypeOK
  <2>4. \A j \in S : /\ CountRetry(jobs[j]).rt.task = jobs[j].rt.task
                     /\ CountRetry(jobs[j]).rt.state = jobs[j].rt.state
    BY <2>3 DEF CountRetry, Job, JobRuntime
  <2>5. \A t \in TaskIDs :
           Open(t) => jobs[parseTaskID(t)] = NoJob \/ IsTaskOf(t, jobs[parseTaskID(t)])
    BY <1>0, <2>1 DEF OpenIsCurrent, InHand
  <2>6. \A t \in TaskIDs : Open(t) => parseTaskID(t) \notin S
    BY <2>3, <2>5, NullAssumption DEF IsTaskOf, Live
  <2> QED
    BY <1>t, <2>1, <2>2, <2>5, <2>6 DEF OpenIsCurrent, Open, IsTaskOf
<1>5. ASSUME NEW S \in SUBSET JobIDs, Accept(S) PROVE OpenIsCurrent'
  <2>1. UNCHANGED jobs /\ upd' = upd /\ loop = "build" /\ \A j \in JobIDs : work'[j].pc = "none"
    BY <1>5 DEF Accept, AllBuilt, NoWork, cache
  <2>2. upd.pc = "none"
    BY <1>0, <2>1 DEF OneEvent
  <2>3. \A t \in TaskIDs :
           Open(t) => jobs[parseTaskID(t)] = NoJob \/ IsTaskOf(t, jobs[parseTaskID(t)])
    BY <1>0, <2>2 DEF OpenIsCurrent, InHand
  <2>4. ASSUME NEW t \in TaskIDs, mesos'[t] # mesos[t], jobs[parseTaskID(t)] # NoJob
        PROVE  IsTaskOf(t, jobs[parseTaskID(t)])
    <3>1. /\ t = work[parseTaskID(t)].job.rt.task /\ work[parseTaskID(t)].pc = "done"
          /\ work[parseTaskID(t)].job.rt.state = "Staging"
      BY <1>0, <1>5, <2>4, Launched
    <3>2. jobs[parseTaskID(t)].rt = work[parseTaskID(t)].job.rt
      BY <1>0, <1>t, <2>4, <3>1 DEF OpenIsCurrent
    <3> QED
      BY <3>1, <3>2 DEF IsTaskOf, Live
  <2>5. \A t \in TaskIDs :
           Open(t)' => jobs[parseTaskID(t)] = NoJob \/ IsTaskOf(t, jobs[parseTaskID(t)])
    BY <2>3, <2>4 DEF Open
  <2> QED
    BY <1>t, <2>1, <2>2, <2>5 DEF OpenIsCurrent, IsTaskOf
<1>6. CASE AcceptNothing
  <2>1. UNCHANGED <<jobs, mesos>> /\ upd' = upd /\ \A j \in JobIDs : work'[j].pc = "none"
    BY <1>6 DEF AcceptNothing, NoWork, cache, master
  <2> QED
    BY <1>0, <1>t, <2>1 DEF OpenIsCurrent, InHand, Open
<1>7. ASSUME NEW j \in JobIDs, UNCHANGED mesos, upd' = upd, work[j].pc # "none",
             \A i \in JobIDs : i # j => work'[i] = work[i] /\ jobs'[i] = jobs[i],
             jobs'[j] = jobs[j] \/ jobs'[j] = work[j].job,
             work'[j].pc \in {"set", "dequeued", "done"} /\ jobs'[j] # NoJob =>
                jobs'[j].rt = work'[j].job.rt
      PROVE  OpenIsCurrent'
  <2>1. \A t \in TaskIDs : parseTaskID(t) = j => ~Open(t)
    BY <1>0, <1>7 DEF OpenIsCurrent
  <2>2. \A t \in TaskIDs : Open(t) => jobs'[parseTaskID(t)] = jobs[parseTaskID(t)]
                                      /\ work'[parseTaskID(t)] = work[parseTaskID(t)]
    BY <1>7, <1>t, <2>1
  <2>3. \A i \in JobIDs : work'[i].pc \in {"set", "dequeued", "done"} /\ jobs'[i] # NoJob =>
                             jobs'[i].rt = work'[i].job.rt
    BY <1>0, <1>7 DEF OpenIsCurrent
  <2> QED
    BY <1>0, <1>7, <2>2, <2>3 DEF OpenIsCurrent, InHand, Open, IsTaskOf
<1>8. ASSUME NEW j \in JobIDs, BuildTask(j) \/ SaveBuilt(j) PROVE OpenIsCurrent'
  <2>1. UNCHANGED <<mesos, jobs>> /\ upd' = upd /\ work[j].pc # "none"
    BY <1>8 DEF BuildTask, SaveBuilt, Step, master, cache
  <2>2. \A i \in JobIDs : i # j => work'[i] = work[i]
    BY <1>0, <1>8 DEF BuildTask, SaveBuilt, Step, TypeOK
  <2>3. work'[j].pc \in {"built", "saved"}
    BY <1>0, <1>8 DEF BuildTask, SaveBuilt, Step, TypeOK
  <2> QED
    BY <1>7, <2>1, <2>2, <2>3
<1>9. ASSUME NEW j \in JobIDs, SetBuilt(j) PROVE OpenIsCurrent'
  <2>1. UNCHANGED mesos /\ upd' = upd /\ work[j].pc # "none"
    BY <1>9 DEF SetBuilt, Step, master
  <2>2. /\ \A i \in JobIDs : i # j => work'[i] = work[i] /\ jobs'[i] = jobs[i]
        /\ jobs'[j] = work[j].job /\ work'[j].job = work[j].job
    BY <1>0, <1>9 DEF SetBuilt, Step, TypeOK
  <2> QED
    BY <1>7, <2>1, <2>2
<1>10. ASSUME NEW j \in JobIDs, DequeueStored(j) \/ DequeueCached(j) \/ NotQueued(j) PROVE OpenIsCurrent'
  <2>1. UNCHANGED <<mesos, jobs>> /\ upd' = upd /\ work[j].pc \in {"set", "dequeued"}
    BY <1>10 DEF DequeueStored, DequeueCached, NotQueued, Step, master, cache
  <2>2. /\ \A i \in JobIDs : i # j => work'[i] = work[i]
        /\ work'[j].job = work[j].job
    BY <1>0, <1>10 DEF DequeueStored, DequeueCached, NotQueued, Step, TypeOK
  <2>3. jobs[j] # NoJob => jobs[j].rt = work[j].job.rt
    BY <1>0, <2>1 DEF OpenIsCurrent
  <2> QED
    BY <1>7, <2>1, <2>2, <2>3
<1>11. CASE GetUpdated
  <2> DEFINE m == Head(stream)
  <2>1. /\ UNCHANGED <<mesos, jobs>> /\ work' = work /\ loop = "poll" /\ stream # <<>>
        /\ upd' = [pc |-> "set", msg |-> m,
                   job |-> [jobs[parseTaskID(m.task)] EXCEPT !.rt = ApplyUpdate(@, m.state)]]
        /\ jobs[parseTaskID(m.task)] # NoJob
    BY <1>11 DEF GetUpdated, cache, builds
  <2>2. m \in Update /\ m.task \in TaskIDs /\ m.state \in MesosState /\ parseTaskID(m.task) \in JobIDs
    BY <1>0, <2>1, TaskIDType DEF TypeOK, Update
  <2>3. m = stream[1] /\ 1 \in 1..Len(stream)
    BY <1>0, <2>1 DEF TypeOK
  <2> HIDE DEF m
  <2>4. Open(m.task)
    BY <1>0, <2>2, <2>3 DEF InOrder, Open
  <2>5. upd.pc = "none"
    BY <1>0, <2>1 DEF OneEvent
  <2>6. IsTaskOf(m.task, jobs[parseTaskID(m.task)]) /\ jobs[parseTaskID(m.task)] \in Job
    BY <1>0, <2>1, <2>2, <2>4, <2>5 DEF OpenIsCurrent, InHand, TypeOK
  <2>7. ASSUME NEW job \in Job, IsTaskOf(m.task, job), m.state \in Live
        PROVE  IsTaskOf(m.task, [job EXCEPT !.rt = ApplyUpdate(job.rt, m.state)])
    <3>1. job.rt \in JobRuntime
      BY DEF Job
    <3>2. /\ ApplyUpdate(job.rt, m.state).task = job.rt.task
          /\ ApplyUpdate(job.rt, m.state).state = m.state
      BY <2>7, <3>1 DEF ApplyUpdate, JobRuntime, Live
    <3>3. [job EXCEPT !.rt = ApplyUpdate(job.rt, m.state)].rt = ApplyUpdate(job.rt, m.state)
      BY DEF Job
    <3> QED
      BY <2>7, <3>2, <3>3 DEF IsTaskOf
  <2>8. m.state \in Live => IsTaskOf(m.task, upd'.job)
    <3>1. upd'.job = [jobs[parseTaskID(m.task)] EXCEPT
                        !.rt = ApplyUpdate(jobs[parseTaskID(m.task)].rt, m.state)]
      BY <2>1
    <3> QED
      BY <2>6, <2>7, <3>1
  <2> QED
    BY <1>0, <2>1, <2>5, <2>8 DEF OpenIsCurrent, InHand, Open
<1>12. CASE IgnoreUpdate
  <2>1. UNCHANGED <<mesos, jobs>> /\ work' = work /\ loop = "poll" /\ upd'.pc = "ack"
    BY <1>12 DEF IgnoreUpdate, cache, builds
  <2>2. upd.pc = "none"
    BY <1>0, <2>1 DEF OneEvent
  <2> QED
    BY <1>0, <2>1, <2>2 DEF OpenIsCurrent, InHand, Open
<1>13. CASE SetUpdated
  <2> DEFINE u == upd.msg.task
  <2>1. /\ UNCHANGED mesos /\ work' = work /\ upd.pc = "set" /\ upd' = [upd EXCEPT !.pc = "save"]
        /\ jobs' = [jobs EXCEPT ![parseTaskID(u)] = upd.job]
    BY <1>13 DEF SetUpdated, master, builds
  <2>2. upd'.pc = "save" /\ upd'.msg = upd.msg
    BY <1>0, <2>1 DEF TypeOK
  <2>3. \A j \in JobIDs : work[j].pc = "none"
    BY <1>0, <2>1 DEF OneEvent
  <2>4. \A t \in TaskIDs :
           Open(t) => jobs[parseTaskID(t)] = NoJob \/ IsTaskOf(t, jobs[parseTaskID(t)])
    BY <1>0, <2>1 DEF OpenIsCurrent, InHand
  <2>5. \A t \in TaskIDs : Open(t) /\ parseTaskID(t) = parseTaskID(u) => t = u
    BY <1>0, <1>u, <2>1 DEF OneOpen
  <2>6. \A j \in JobIDs : jobs'[j] = IF j = parseTaskID(u) THEN upd.job ELSE jobs[j]
    BY <1>0, <2>1 DEF TypeOK
  <2>7. upd.msg.state \in Live => IsTaskOf(u, upd.job)
    BY <1>0, <2>1 DEF OpenIsCurrent
  <2>8. upd.msg.state \in Live \cup Terminal
    BY <1>u, <2>1 DEF MesosState
  <2>9. \A t \in TaskIDs : Open(t) => \/ InHand(t)'
                                       \/ jobs'[parseTaskID(t)] = NoJob
                                       \/ IsTaskOf(t, jobs'[parseTaskID(t)])
    BY <1>t, <2>2, <2>4, <2>5, <2>6, <2>7, <2>8 DEF InHand
  <2> QED
    BY <1>t, <2>1, <2>2, <2>3, <2>9 DEF OpenIsCurrent, Open, IsTaskOf
<1>14. CASE SaveUpdated
  <2>1. /\ UNCHANGED <<mesos, jobs>> /\ work' = work /\ upd.pc = "save"
        /\ upd'.pc = "ack" /\ upd'.msg = upd.msg
    BY <1>0, <1>14 DEF SaveUpdated, master, builds, cache, TypeOK
  <2> QED
    BY <1>0, <2>1 DEF OpenIsCurrent, InHand, Open
<1>15. CASE AckUpdate
  <2>1. UNCHANGED jobs /\ work' = work /\ upd.pc = "ack" /\ upd'.pc = "none"
    BY <1>15 DEF AckUpdate, builds, cache, NoUpdate
  <2>2. ~upd.msg.recon /\ mesos[upd.msg.task] = upd.msg.state
    BY <1>0, <2>1 DEF InOrder
  <2>3. mesos' = [mesos EXCEPT ![upd.msg.task] = IF @ \in Terminal THEN "gone" ELSE @]
    BY <1>15, <2>2 DEF AckUpdate
  <2>4. \A t \in TaskIDs : Open(t)' => Open(t) /\ ~InHand(t)
    BY <1>0, <1>u, <2>1, <2>2, <2>3 DEF Open, InHand, TypeOK, MesosState, Live, Terminal
  <2> QED
    BY <1>0, <2>1, <2>4 DEF OpenIsCurrent
<1>16. ASSUME NEW t \in TaskIDs, TaskStep(t) PROVE OpenIsCurrent'
  <2>1. UNCHANGED jobs /\ work' = work /\ upd' = upd
    BY <1>16 DEF TaskStep, MesosUnchanged, cache, builds
  <2>2. PICK st \in TaskNext(mesos[t]) : mesos' = [mesos EXCEPT ![t] = st]
    BY <1>16 DEF TaskStep
  <2>3. mesos[t] \in Live
    BY <2>2 DEF TaskNext, Live
  <2>4. \A i \in TaskIDs : Open(i)' => Open(i)
    BY <1>0, <2>2, <2>3 DEF Open, TypeOK, MesosState
  <2> QED
    BY <1>0, <2>1, <2>4 DEF OpenIsCurrent, InHand
<1> QED
  BY <1>0, <1>2, <1>3, <1>4, <1>5, <1>6, <1>8, <1>9, <1>10, <1>11, <1>12, <1>13, <1>14, <1>15, <1>16
  DEF Next, SyncNext, OfferNext, BuildNext, BuildFails, UpdateNext, MesosNext, Failover, ReportPanics,
      Plain, ReportsFailures, Quiet, AckFails, ReconcileReply

LEMMA OneOpenStep ==
    ASSUME OneTaskInv, [Next]_vars
    PROVE  OneOpen'
<1>0. TypeOK /\ Fresh /\ OneOpen /\ OpenIsCurrent
  BY DEF OneTaskInv, BaseInv
<1>1. ASSUME \A t \in TaskIDs : Open(t)' => Open(t) PROVE OneOpen'
  BY <1>0, <1>1 DEF OneOpen
<1>2. ASSUME NEW S \in SUBSET JobIDs, Accept(S) PROVE OneOpen'
  <2>1. \A t \in TaskIDs : Open(t)' =>
          \/ Open(t) /\ parseTaskID(t) \notin S
          \/ parseTaskID(t) \in S /\ t = work[parseTaskID(t)].job.rt.task
    <3>1. \A j \in S : work[j].pc # "none"
      BY <1>0, <1>2, Launched
    <3> QED
      BY <1>0, <1>2, <3>1, Launched DEF Open, OpenIsCurrent
  <2> QED
    BY <1>0, <2>1 DEF OneOpen
<1>3. CASE \E t \in TaskIDs : TaskStep(t)
  BY <1>0, <1>1, <1>3, TaskMoves DEF Open, MesosState
<1>4. CASE AckUpdate
  BY <1>0, <1>1, <1>4, AckMoves DEF Open, MesosState, Live, Terminal
<1>5. CASE UNCHANGED mesos
  BY <1>1, <1>5 DEF Open
<1> QED
  BY <1>2, <1>3, <1>4, <1>5, TaskEvents

LEMMA OneTaskInit == Init => OneTaskInv
<1> SUFFICES ASSUME Init PROVE OneTaskInv
  OBVIOUS
<1>1. Quiet
  BY DEF Init, Quiet, NothingQueued, IdleSync
<1>2. /\ upd.pc = "none" /\ stream = <<>> /\ \A j \in JobIDs : work[j].pc = "none"
      /\ \A t \in TaskIDs : mesos[t] = "none"
  BY DEF Init, NoUpdate, NoWork
<1>3. InOrder /\ OneOpen /\ OpenIsCurrent
  BY <1>2 DEF InOrder, OneOpen, OpenIsCurrent, Open, MesosState, Live, Terminal
<1> QED
  BY <1>1, <1>3, BaseInit DEF OneTaskInv

LEMMA OneTaskStep ==
    ASSUME Plain, OneTaskInv, [Next]_vars
    PROVE  OneTaskInv'
<1>1. BaseInv' /\ TypeOK /\ TypeOK' /\ ReportsFailures
  BY BaseStep DEF OneTaskInv, BaseInv
<1> QED
  BY <1>1, QuietStep, InOrderStep, OneOpenStep, OpenIsCurrentStep DEF OneTaskInv

(* However long goroutines take after their bookings have expired          *)
(* (findJobsForResources books for a minute), Mesos never runs two tasks   *)
(* of a job: the event loop waits for them.  Jobs may be edited, created   *)
(* or deleted (but not both created and deleted) and writes to storage may *)
(* fail; jobs are not run on request, servers and connections do not fail  *)
(* and tasks are not reconciled.                                           *)
THEOREM OneTaskAtMost ==
    ASSUME Features \subseteq {"slow", "edit", "create", "delete", "savefail"},
           ~({"create", "delete"} \subseteq Features)
    PROVE  Spec => []AtMostOneTask
<1>0. Plain
  BY DEF Plain, KeptIdentity
<1>1. Init => OneTaskInv
  BY OneTaskInit
<1>2. OneTaskInv /\ [Next]_vars => OneTaskInv'
  BY <1>0, OneTaskStep
<1>3. OneTaskInv => AtMostOneTask
  BY DEF OneTaskInv, OneOpen, Open, MesosState, AtMostOneTask, Running
<1> QED
  BY <1>1, <1>2, <1>3, PTL DEF Spec
-----------------------------------------------------------------------------
(* The scheduler implements JobRuns: what a job runs is the open task.     *)

(* Nothing is deleted and nothing fails: the history is complete. *)
Lasting == Features \subseteq {"slow", "edit", "create"}

(* The history of a job has tasks of the job that were launched.           *)
HistoryLaunched ==
    \A j \in JobIDs : \A t \in history[j] :
        t # NoTask => t \in TaskIDs /\ parseTaskID(t) = j /\ mesos[t] # "none"

RunInv == OneTaskInv /\ RecordInv /\ HistoryLaunched

(* What a run goes through: tasks of an offer are launched, they move on,  *)
(* an update is recorded, a task is forgotten.  No other step touches      *)
(* tasks or histories.                                                     *)
LEMMA RunEvents ==
    ASSUME Lasting, OneTaskInv, [Next]_vars
    PROVE  \/ UNCHANGED <<mesos, history>>
           \/ \E S \in SUBSET JobIDs : Accept(S)
           \/ GetUpdated
           \/ \E t \in TaskIDs : TaskStep(t)
           \/ AckUpdate /\ UNCHANGED <<history, issued>>
<1>1. reports = [j \in JobIDs |-> {}]
  BY DEF Lasting, OneTaskInv, BaseInv, ReportsFailures, TypeOK
<1>2. CASE \/ Tick \/ APINext \/ SyncNext \/ UNCHANGED vars \/ AcceptNothing
           \/ \E S \in SUBSET JobIDs : findJobsForResources(S)
           \/ \E j \in JobIDs : BookingExpires(j)
           \/ IgnoreUpdate \/ SetUpdated \/ SaveUpdated
           \/ \E t \in TaskIDs : SendUpdate(t)
           \/ Disconnect \/ ReconcileStart \/ ReconcileFails
  BY <1>2
  DEF Lasting, master, storage, vars, Tick, APINext, updateJob, createJob, deleteJob, runJob,
      EditStorage, SyncNext, SyncReadJobs, SyncMergeJobs, SyncReadQueue, SyncSetQueue,
      SyncUnchanged, AcceptNothing, findJobsForResources, BookingExpires, IgnoreUpdate,
      SetUpdated, SaveUpdated, SendUpdate, Disconnect, ReconcileStart, ReconcileFails, MesosUnchanged
<1>3. CASE \E j \in JobIDs : BuildNext(j)
  BY <1>3
  DEF master, storage, BuildNext, BuildTask, BuildFails, SaveBuilt, SetBuilt, DequeueStored,
      DequeueCached, NotQueued
<1>4. AckUpdate => UNCHANGED <<history, issued>>
  BY DEF AckUpdate, storage
<1>5. \A j \in JobIDs : ~ReportFailure(j) /\ ~ReportPanics(j)
  BY <1>1 DEF ReportFailure, ReportPanics
<1> QED
  BY <1>2, <1>3, <1>4, <1>5
  DEF Next, OfferNext, UpdateNext, MesosNext, Failover, Lasting, AckFails, OneTaskInv, Quiet,
      ReconcileReply

(* Handling the end of a task and its acknowledgement change no other.     *)
LEMMA Forgotten ==
    ASSUME RunInv, AckUpdate
    PROVE  /\ upd.msg.task \in TaskIDs /\ mesos[upd.msg.task] = upd.msg.state
           /\ upd.msg.state \in MesosState
           /\ \A t \in TaskIDs :
                mesos'[t] = IF t = upd.msg.task /\ upd.msg.state \in Terminal
                            THEN "gone" ELSE mesos[t]
           /\ upd.msg.state \in Terminal => upd.msg.task \in history[parseTaskID(upd.msg.task)]
<1>1. upd.pc = "ack" /\ upd.msg \in Update /\ mesos \in [TaskIDs -> MesosState \cup {"none", "gone"}]
  BY DEF AckUpdate, RunInv, RecordInv, BaseInv, TypeOK
<1>2. ~upd.msg.recon /\ mesos[upd.msg.task] = upd.msg.state
  BY <1>1 DEF RunInv, OneTaskInv, InOrder
<1>3. mesos' = [mesos EXCEPT ![upd.msg.task] = IF @ \in Terminal THEN "gone" ELSE @]
  BY <1>2 DEF AckUpdate
<1> QED
  BY <1>1, <1>2, <1>3 DEF Update, RunInv, RecordInv, UpdateRecorded

LEMMA HistoryLaunchedStep ==
    ASSUME Lasting, RunInv, [Next]_vars
    PROVE  HistoryLaunched'
<1>0. TypeOK /\ Fresh /\ InOrder /\ HistoryLaunched
  BY DEF RunInv, OneTaskInv, BaseInv
<1>1. \A t \in TaskIDs : mesos[t] # "none" => mesos'[t] # "none"
  BY <1>0, KnownToMesos
<1>2. CASE UNCHANGED history
  BY <1>0, <1>1, <1>2 DEF HistoryLaunched
<1>3. CASE GetUpdated
  <2> DEFINE m == Head(stream)
  <2>1. stream # <<>> /\ (history' = history \/ AddTask(parseTaskID(m.task), m.task))
    BY <1>3 DEF GetUpdated
  <2>2. m = stream[1] /\ 1 \in 1..Len(stream) /\ m.task \in TaskIDs /\ m.state \in MesosState
    BY <1>0, <2>1, MessageType
  <2> HIDE DEF m
  <2>3. mesos[m.task] # "none"
    BY <1>0, <2>2 DEF InOrder, MesosState, Live, Terminal
  <2>4. \A j \in JobIDs : \A t \in history'[j] :
          t \in history[j] \/ (t = m.task /\ j = parseTaskID(t))
    <3>1. history' = history \/ history' = [history EXCEPT ![parseTaskID(m.task)] = @ \cup {m.task}]
      BY <2>1 DEF AddTask
    <3>2. history \in [JobIDs -> SUBSET (TaskIDs \cup {NoTask})]
      BY <1>0 DEF TypeOK
    <3> QED
      BY <3>1, <3>2
  <2> QED
    BY <1>0, <1>1, <2>2, <2>3, <2>4 DEF HistoryLaunched
<1>4. (\E S \in SUBSET JobIDs : Accept(S)) \/ (\E t \in TaskIDs : TaskStep(t)) => UNCHANGED history
  BY DEF Accept, TaskStep, MesosUnchanged, storage
<1> QED
  BY <1>2, <1>3, <1>4, RunEvents DEF RunInv

(* The current task of a job is its only open one, if it has one. *)
IsRun(j) ==
    \/ /\ CurrentTask(j) \in TaskIDs /\ parseTaskID(CurrentTask(j)) = j
       /\ \A t \in TaskIDs : parseTaskID(t) = j => (Open(t) <=> t = CurrentTask(j))
    \/ /\ CurrentTask(j) = NoTask
       /\ \A t \in TaskIDs : parseTaskID(t) = j => ~Open(t)

LEMMA CurrentIsRun == OneOpen => \A j \in JobIDs : IsRun(j)
<1> SUFFICES ASSUME OneOpen, NEW j \in JobIDs PROVE IsRun(j)
  OBVIOUS
<1>1. CASE OpenTasks(j) = {}
  BY <1>1 DEF OpenTasks, CurrentTask, Open, IsRun
<1>2. CASE OpenTasks(j) # {}
  <2>1. CurrentTask(j) \in OpenTasks(j)
    BY <1>2 DEF CurrentTask
  <2> QED
    BY <2>1 DEF OpenTasks, OneOpen, Open, IsRun
<1> QED
  BY <1>1, <1>2

LEMMA RunStep ==
    ASSUME Lasting, RunInv, OneOpen', [Next]_vars
    PROVE  [Runs!Next]_(Runs!runs)
<1>0. /\ OneTaskInv /\ OneOpen /\ Fresh /\ TypeOK /\ InOrder /\ OpenIsCurrent
      /\ HistoryLaunched
  BY DEF RunInv, OneTaskInv, BaseInv
<1>1. \A j \in JobIDs : IsRun(j)
  BY <1>0, CurrentIsRun
<1>2. \A j \in JobIDs : IsRun(j)'
  <2>1. (OneOpen => \A j \in JobIDs : IsRun(j))'
    BY CurrentIsRun, PTL
  <2> QED
    BY <2>1
<1>3. \A j \in JobIDs : (\A t \in TaskIDs : parseTaskID(t) = j => (Open(t)' <=> Open(t)))
                           => CurrentTask(j)' = CurrentTask(j)
  BY <1>1, <1>2, NullAssumption DEF IsRun
<1>4. ASSUME \A t \in TaskIDs : Open(t)' <=> Open(t), UNCHANGED history
      PROVE  UNCHANGED Runs!runs
  BY <1>3, <1>4 DEF Runs!runs
<1>5. ASSUME NEW S \in SUBSET JobIDs, Accept(S) PROVE Runs!Start
  <2>1. S # {} /\ UNCHANGED history
    BY <1>5 DEF Accept, storage
  <2>2. ASSUME NEW j \in S
        PROVE  /\ CurrentTask(j) = NoTask
               /\ CurrentTask(j)' \in TaskIDs /\ parseTaskID(CurrentTask(j)') = j
               /\ CurrentTask(j)' \notin history[j]
    <3>0. /\ work[j].pc = "done" /\ work[j].job.rt.task \in TaskIDs
          /\ parseTaskID(work[j].job.rt.task) = j /\ mesos[work[j].job.rt.task] = "none"
          /\ mesos'[work[j].job.rt.task] = "Staging"
      BY <1>0, <1>5, Launched
    <3>1. PICK t \in TaskIDs :
          /\ t = work[j].job.rt.task /\ parseTaskID(t) = j
          /\ \A u \in TaskIDs : parseTaskID(u) = j => ~Open(u)
          /\ mesos'[t] = "Staging"
      BY <1>0, <3>0 DEF OpenIsCurrent
    <3>3. t \notin history[j]
      BY <1>0, <3>0, <3>1, NullAssumption DEF HistoryLaunched
    <3>4. Open(t)'
      BY <3>1 DEF Open, MesosState, Live
    <3>5. CurrentTask(j) = NoTask
      BY <1>1, <3>1 DEF IsRun
    <3>6. CurrentTask(j)' = t
      BY <1>2, <3>1, <3>4 DEF IsRun
    <3> QED
      BY <3>1, <3>3, <3>5, <3>6
  <2>3. ASSUME NEW j \in JobIDs \ S PROVE CurrentTask(j)' = CurrentTask(j)
    <3>1. \A t \in TaskIDs : parseTaskID(t) = j => (Open(t)' <=> Open(t))
      BY <1>0, <1>5, <2>3, Launched DEF Open
    <3> QED
      BY <1>3, <3>1
  <2> QED
    BY <2>1, <2>2, <2>3 DEF Runs!Start, Runs!Begins
<1>6. ASSUME NEW t \in TaskIDs, TaskStep(t) PROVE UNCHANGED Runs!runs
  <2>1. PICK st \in TaskNext(mesos[t]) : mesos' = [mesos EXCEPT ![t] = st]
    BY <1>6 DEF TaskStep
  <2>2. mesos[t] \in MesosState /\ st \in MesosState
    BY <2>1 DEF TaskNext, MesosState, Live, Terminal
  <2>3. UNCHANGED history
    BY <1>6 DEF TaskStep, MesosUnchanged, storage
  <2> QED
    BY <1>0, <1>4, <2>1, <2>2, <2>3 DEF Open, TypeOK
<1>7. CASE GetUpdated
  <2>1. PICK t, j : /\ t = Head(stream).task /\ j = parseTaskID(t)
                    /\ UNCHANGED mesos /\ stream # <<>>
                    /\ \/ history' = history
                       \/ history' = [history EXCEPT ![j] = @ \cup {t}]
    BY <1>7 DEF GetUpdated, AddTask
  <2>2. Head(stream) = stream[1] /\ 1 \in 1..Len(stream) /\ Head(stream) \in Update
    BY <1>0, <2>1 DEF TypeOK
  <2>3. t \in TaskIDs /\ j \in JobIDs /\ parseTaskID(t) = j /\ Open(t)
    BY <1>0, <2>1, <2>2, TaskIDType DEF InOrder, Update, Open
  <2>4. CurrentTask(j) = t /\ t # NoTask
    BY <1>1, <2>3, NullAssumption DEF IsRun
  <2>5. \A i \in JobIDs : CurrentTask(i)' = CurrentTask(i)
    BY <1>3, <2>1 DEF Open
  <2>6. CASE history' = [history EXCEPT ![j] = @ \cup {t}]
    <3>1. \A i \in JobIDs : history'[i] \ {NoTask} =
              IF i = j THEN (history[i] \ {NoTask}) \cup {CurrentTask(i)} ELSE history[i] \ {NoTask}
      BY <1>0, <2>3, <2>4, <2>6 DEF TypeOK
    <3>2. Runs!Record(j)
      BY <2>3, <2>4, <2>5, <3>1 DEF Runs!Record
    <3> QED
      BY <2>3, <3>2 DEF Runs!Next
  <2>7. CASE history' = history
    BY <2>5, <2>7 DEF Runs!runs
  <2> QED
    BY <2>1, <2>6, <2>7
<1>8. CASE AckUpdate
  <2>0. PICK t, j : t = upd.msg.task /\ j = parseTaskID(t)
    OBVIOUS
  <2>1. UNCHANGED history
    BY <1>8 DEF AckUpdate, storage
  <2>2. /\ t \in TaskIDs /\ Open(t) /\ j \in JobIDs /\ parseTaskID(t) = j
        /\ upd.msg.state \in Terminal => t \in history[j]
    BY <1>0, <1>8, <2>0, Forgotten, TaskIDType DEF Open
  <2>3. CASE upd.msg.state \in Terminal
    <3>1. \A u \in TaskIDs : Open(u)' <=> Open(u) /\ u # t
      BY <1>0, <1>8, <2>0, <2>3, Forgotten DEF Open, MesosState, Live, Terminal
    <3>2. CurrentTask(j) = t /\ t # NoTask
      BY <1>1, <2>2, NullAssumption DEF IsRun
    <3>3. CurrentTask(j)' = NoTask
      <4>1. \A u \in TaskIDs : parseTaskID(u) = j => ~Open(u)'
        BY <1>1, <2>2, <3>1, <3>2 DEF IsRun
      <4> QED
        BY <1>2, <2>2, <4>1 DEF IsRun
    <3>4. \A i \in JobIDs : i # j => CurrentTask(i)' = CurrentTask(i)
      BY <1>3, <2>2, <3>1
    <3>5. [i \in JobIDs |-> CurrentTask(i)'] = [[i \in JobIDs |-> CurrentTask(i)] EXCEPT ![j] = NoTask]
      BY <2>2, <3>3, <3>4
    <3>6. CurrentTask(j) \in history[j] \ {NoTask}
      BY <2>2, <2>3, <3>2
    <3>7. Runs!Forget(j)
      BY <2>1, <2>2, <3>5, <3>6 DEF Runs!Forget
    <3> QED
      BY <2>2, <3>7 DEF Runs!Next
  <2>4. CASE upd.msg.state \notin Terminal
    BY <1>0, <1>4, <1>8, <2>1, <2>4, Forgotten DEF Open
  <2> QED
    BY <2>3, <2>4
<1>9. CASE UNCHANGED <<mesos, history>>
  BY <1>4, <1>9 DEF Open
<1> QED
  BY <1>0, <1>5, <1>6, <1>7, <1>8, <1>9, RunEvents DEF Runs!Next

(* The goroutines, caches and messages of the scheduler add up to runs one *)
(* by one (buildTasksForOffer, HandleTaskStateUpdate and the order of      *)
(* handlers.go), as long as jobs are only edited and created and nothing   *)
(* fails.                                                                  *)
THEOREM RunsImplemented ==
    ASSUME Features \subseteq {"slow", "edit", "create"}
    PROVE  Spec => RunsOneByOne
<1>0. Plain /\ Lasting /\ "savefail" \notin Features /\ "delete" \notin Features
  BY DEF Plain, Lasting, KeptIdentity
<1>1. Init => RunInv /\ Runs!Init
  <2> SUFFICES ASSUME Init PROVE RunInv /\ Runs!Init
    OBVIOUS
  <2>1. OneTaskInv /\ RecordInv
    BY OneTaskInit, RecordInit
  <2>2. /\ \A j \in JobIDs : history[j] = {}
        /\ \A t \in TaskIDs : mesos[t] = "none"
    BY DEF Init
  <2>3. HistoryLaunched
    BY <2>2 DEF HistoryLaunched
  <2>4. \A j \in JobIDs : CurrentTask(j) = NoTask
    BY <2>2 DEF CurrentTask, OpenTasks, MesosState, Live, Terminal
  <2> QED
    BY <2>1, <2>2, <2>3, <2>4 DEF RunInv, Runs!Init
<1>2. ASSUME RunInv, [Next]_vars PROVE RunInv' /\ [Runs!Next]_(Runs!runs)
  <2>1. OneTaskInv' /\ RecordInv' /\ HistoryLaunched'
    BY <1>0, <1>2, OneTaskStep, RecordStep, HistoryLaunchedStep DEF RunInv
  <2>2. OneOpen'
    BY <2>1 DEF OneTaskInv
  <2> QED
    BY <1>0, <1>2, <2>1, <2>2, RunStep DEF RunInv
<1> QED
  BY <1>1, <1>2, PTL DEF Spec, RunsOneByOne, Runs!Spec
=============================================================================
