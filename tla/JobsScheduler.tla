--------------------------- MODULE JobsScheduler ---------------------------
(***************************************************************************)
(* The scheduler of the leading rhythm server (mesos/jobsscheduler) with   *)
(* the event handlers that drive it (mesos/handlers.go), the job storage   *)
(* it reads and writes, and Mesos as those handlers see it.                *)
(*                                                                         *)
(* Actors: the event loop (one event at a time: an offer or an update),    *)
(* the goroutines it starts for the jobs of one offer, the goroutine that  *)
(* synchronises the caches, the reconciler, the API that edits storage,    *)
(* and Mesos.                                                              *)
(***************************************************************************)
EXTENDS JobModel, Sequences

CONSTANTS
    MaxStream,    \* bound: updates on their way to the scheduler
    Features      \* what the environment of this instance may do

AllFeatures ==
    {"edit",        \* the API updates the configuration of a job
     "run",         \* the API queues a job for an immediate run
     "delete",      \* the API deletes a job
     "create",      \* the API creates a job
     "slow",        \* building tasks may outlast the booking of their jobs
     "secretfail",  \* building a task may fail (secrets backend)
     "savefail",    \* a write to storage may fail
     "recon",       \* the reconciler runs
     "redeliver",   \* Mesos may send an update again
     "failover"}    \* the leader may be replaced, or restarted, at any point

ASSUME FeaturesAssumption == MaxStream \in Nat /\ Features \subseteq AllFeatures

VARIABLES
    now,         \* current cron period
    \* Storage (ZooKeeper)
    stored,      \* jobs: configuration and runtime
    queue,       \* jobs queued for an immediate run
    history,     \* per job, the tasks recorded with AddTask
    \* Memory of the leader: type Scheduler
    jobs, bookedJobs, queuedJobs,
    sync,        \* the cache synchronisation and the snapshots it holds
    loop,        \* what the event loop is busy with
    work,        \* per job, the goroutine started by buildTasksForOffer
    reports,     \* per job, the goroutines that report a failed build
    upd,         \* the update being handled
    recTasks,    \* tasks the reconciler has yet to hear about
    \* Mesos
    mesos,       \* state of every task
    ack,         \* progress of the last update of every task
    stream,      \* events sent and not yet handled
    \* Auxiliary
    issued,      \* task identifiers handed out
    runs         \* launches per job and period

storage == <<stored, queue, history>>
cache   == <<jobs, bookedJobs, queuedJobs>>
builds  == <<work, reports>>
master  == <<mesos, ack, stream>>
vars    == <<now, storage, cache, sync, loop, builds, upd, recTasks, master,
             issued, runs>>
-----------------------------------------------------------------------------
Live     == {"Staging", "Starting", "Running"}
Terminal == {"Finished", "Failed", "Lost"}
MesosState == Live \cup Terminal   \* before: "none"; once over and acknowledged: "gone"

(* A status update: Failed stands for TASK_FAILED, TASK_KILLED and         *)
(* TASK_ERROR, which the handler treats alike; recon is reason             *)
(* REASON_RECONCILIATION.                                                  *)
Update == [task : TaskIDs, state : MesosState, recon : BOOLEAN]

(* NoTask also stands for no message. *)
ASSUME MessageAssumption == NoTask \notin Update

WorkPc == {"none", "picked", "built", "saved", "set", "dequeued", "done"}

NoWork == [pc |-> "none", job |-> NoJob]

NoUpdate == [pc |-> "none", msg |-> NoTask, job |-> NoJob]

EmptyCache == [j \in JobIDs |-> NoJob]

IdleSync == [pc |-> "idle", jobs |-> EmptyCache, queue |-> {}]

TypeOK ==
    /\ now \in Period
    /\ stored \in [JobIDs -> Job \cup {NoJob}]
    /\ queue \subseteq JobIDs
    /\ history \in [JobIDs -> SUBSET (TaskIDs \cup {NoTask})]
    /\ jobs \in [JobIDs -> Job \cup {NoJob}]
    /\ bookedJobs \subseteq JobIDs
    /\ queuedJobs \subseteq JobIDs
    /\ sync \in [pc    : {"idle", "jobs", "queue", "queued"},
                 jobs  : [JobIDs -> Job \cup {NoJob}],
                 queue : SUBSET JobIDs]
    /\ loop \in {"poll", "build", "update"}
    /\ work \in [JobIDs -> [pc : WorkPc, job : Job \cup {NoJob}]]
    /\ \A j \in JobIDs : work[j].pc # "none" => work[j].job # NoJob
    /\ reports \in [JobIDs -> SUBSET {"pending", "error", "nil"}]
    /\ upd \in [pc  : {"none", "set", "save", "ack"},
                msg : Update \cup {NoTask},
                job : Job \cup {NoJob}]
    /\ upd.pc # "none" => upd.msg # NoTask
    /\ upd.pc \in {"set", "save"} => upd.job # NoJob
    /\ recTasks \subseteq TaskIDs
    /\ mesos \in [TaskIDs -> MesosState \cup {"none", "gone"}]
    /\ ack \in [TaskIDs -> {"acked", "pending", "sent"}]
    /\ \A t \in TaskIDs : ack[t] # "acked" => mesos[t] \in MesosState
    /\ stream \in Seq(Update)
    /\ issued \subseteq TaskIDs
    /\ runs \in [JobIDs -> [Period -> Nat]]

(* The jobs that exist are at rest (runs counts from here on); New fills   *)
(* the caches before it returns.                                           *)
Init ==
    /\ now = 1
    /\ stored \in [JobIDs -> [maxRetries : 0..RetryLimit, rt : RestRuntime(now)] \cup {NoJob}]
    /\ queue = {}
    /\ history = [j \in JobIDs |-> {}]
    /\ jobs = stored
    /\ bookedJobs = {}
    /\ queuedJobs = queue
    /\ sync = IdleSync
    /\ loop = "poll"
    /\ work = [j \in JobIDs |-> NoWork]
    /\ reports = [j \in JobIDs |-> {}]
    /\ upd = NoUpdate
    /\ recTasks = {}
    /\ mesos = [t \in TaskIDs |-> "none"]
    /\ ack = [t \in TaskIDs |-> "acked"]
    /\ stream = <<>>
    /\ issued = {}
    /\ runs = [j \in JobIDs |-> [p \in Period |-> 0]]

Tick ==
    /\ now < MaxTime
    /\ now' = now + 1
    /\ UNCHANGED <<storage, cache, sync, loop, builds, upd, recTasks, master,
                   issued, runs>>
-----------------------------------------------------------------------------
(* Storage *)

(* Nothing is saved below a job that has been deleted. *)
SaveJobRuntime(j, rt, ok) ==
    /\ ok => stored[j] # NoJob
    /\ ok \/ stored[j] = NoJob \/ "savefail" \in Features
    /\ stored' = IF ok THEN [stored EXCEPT ![j].rt = rt] ELSE stored

AddTask(j, tid) ==
    \/ history' = IF stored[j] = NoJob THEN history ELSE [history EXCEPT ![j] = @ \cup {tid}]
    \/ "savefail" \in Features /\ UNCHANGED history
-----------------------------------------------------------------------------
(* The API of any rhythm server, leader or not.                            *)

EditStorage ==
    UNCHANGED <<now, cache, sync, loop, builds, upd, recTasks, master, issued, runs>>

updateJob(j, m) ==
    /\ "edit" \in Features
    /\ stored[j] # NoJob
    /\ stored' = [stored EXCEPT ![j].maxRetries = m]
    /\ UNCHANGED <<queue, history>>
    /\ EditStorage

createJob(j, m) ==
    /\ "create" \in Features
    /\ stored[j] = NoJob
    /\ stored' = [stored EXCEPT ![j] = [maxRetries |-> m, rt |-> NewRuntime]]
    /\ UNCHANGED <<queue, history>>
    /\ EditStorage

deleteJob(j) ==
    /\ "delete" \in Features
    /\ stored[j] # NoJob
    /\ stored' = [stored EXCEPT ![j] = NoJob]
    /\ history' = [history EXCEPT ![j] = {}]
    /\ UNCHANGED queue
    /\ EditStorage

(* QueueJob does not look whether the job exists. *)
runJob(j) ==
    /\ "run" \in Features
    /\ j \notin queue
    /\ queue' = queue \cup {j}
    /\ UNCHANGED <<stored, history>>
    /\ EditStorage
-----------------------------------------------------------------------------
(* The goroutine started by New: syncJobsCache, then syncQueuedJobsCache.  *)
(* Each reads storage first and takes the lock of the cache afterwards; a  *)
(* failed read is repeated a second later.                                 *)

SyncUnchanged ==
    UNCHANGED <<now, storage, bookedJobs, loop, builds, upd, recTasks, master,
                issued, runs>>

SyncReadJobs ==
    /\ sync.pc = "idle"
    /\ sync' = [sync EXCEPT !.pc = "jobs", !.jobs = stored]
    /\ UNCHANGED <<jobs, queuedJobs>>
    /\ SyncUnchanged

(* Mutants: the runtime is taken from storage too; nothing is evicted; the *)
(* configuration in memory is kept.                                        *)
MergeRuntimeToo(old, new) == new
MergeNoEviction(old, new) ==
    IF old = NoJob THEN new ELSE IF new = NoJob THEN old ELSE [old EXCEPT !.maxRetries = new.maxRetries]
MergeKeepConf(old, new) == IF old = NoJob \/ new = NoJob THEN new ELSE old

(* Known jobs take the new configuration and keep the runtime in memory;   *)
(* jobs not present in storage are evicted.                                *)
MergeJob(old, new) ==
    IF old = NoJob \/ new = NoJob THEN new ELSE [old EXCEPT !.maxRetries = new.maxRetries]

SyncMergeJobs ==
    /\ sync.pc = "jobs"
    /\ jobs' = [j \in JobIDs |-> MergeJob(jobs[j], sync.jobs[j])]
    /\ sync' = [sync EXCEPT !.pc = "queue", !.jobs = EmptyCache]
    /\ UNCHANGED queuedJobs
    /\ SyncUnchanged

SyncReadQueue ==
    /\ sync.pc = "queue"
    /\ sync' = [sync EXCEPT !.pc = "queued", !.queue = queue]
    /\ UNCHANGED <<jobs, queuedJobs>>
    /\ SyncUnchanged

SyncSetQueue ==
    /\ sync.pc = "queued"
    /\ queuedJobs' = sync.queue
    /\ sync' = IdleSync
    /\ UNCHANGED jobs
    /\ SyncUnchanged
-----------------------------------------------------------------------------
(* An offer: FindTasksForOffer, then ACCEPT with the tasks it returns.     *)

(* Mutant: a queued job waits for its schedule. *)
EligibleUnqueued ==
    {j \in JobIDs : jobs[j] # NoJob /\ j \notin bookedJobs /\ IsRunnable(jobs[j], now)}

Eligible ==
    {j \in JobIDs : /\ jobs[j] # NoJob
                    /\ j \notin bookedJobs
                    /\ IsRunnable(jobs[j], now) \/ j \in queuedJobs}

(* findJobsForResources holds both locks of the caches throughout.  Which  *)
(* eligible jobs fit is up to the resources of the offer and the order in  *)
(* which the map is walked.  The jobs handed on are copies.                *)
findJobsForResources(S) ==
    /\ loop = "poll"
    /\ S # {} /\ S \subseteq Eligible
    /\ jobs' = [j \in JobIDs |-> IF j \in S THEN CountRetry(jobs[j]) ELSE jobs[j]]
    /\ work' = [j \in JobIDs |-> IF j \in S THEN [pc |-> "picked", job |-> jobs'[j]]
                                            ELSE NoWork]
    /\ bookedJobs' = bookedJobs \cup S
    /\ loop' = "build"
    /\ UNCHANGED <<now, storage, queuedJobs, sync, reports, upd, recTasks, master,
                   issued, runs>>

(* buildTasksForOffer runs the steps below for all its jobs at once.       *)
Step(j, from, to) == work[j].pc = from /\ work' = [work EXCEPT ![j].pc = to]

(* The job after newTaskInfo, successful or not. *)
StagedJob(job, tid) ==
    [job EXCEPT !.rt = [@ EXCEPT !.state = "Staging", !.lastStart = now, !.task = tid]]

FailedJob(job) == [job EXCEPT !.rt = [@ EXCEPT !.state = "Failed", !.lastStart = now]]

BuildTask(j) ==
    /\ work[j].pc = "picked"
    /\ \E u \in UUIDs :
         LET tid == taskID(j, u) IN
         /\ tid \notin issued
         /\ issued' = issued \cup {tid}
         /\ work' = [work EXCEPT ![j] = [pc |-> "built", job |-> StagedJob(@.job, tid)]]
    /\ UNCHANGED <<now, storage, cache, sync, loop, reports, upd, recTasks, master,
                   runs>>

(* A goroutine is started that records the failure; it shares err.         *)
BuildFails(j) ==
    /\ "secretfail" \in Features
    /\ work[j].pc = "picked"
    /\ work' = [work EXCEPT ![j] = [pc |-> "built", job |-> FailedJob(@.job)]]
    /\ reports' = [reports EXCEPT ![j] = @ \cup {"pending"}]
    /\ UNCHANGED <<now, storage, cache, sync, loop, upd, recTasks, master, issued,
                   runs>>

(* err is assigned the outcome of SaveJobRuntime, whoever still needs the  *)
(* error of newTaskInfo.                                                   *)
AssignErr(err, ok) ==
    IF "pending" \in err THEN (err \ {"pending"}) \cup {IF ok THEN "nil" ELSE "error"}
                         ELSE err

SaveBuilt(j) ==
    /\ Step(j, "built", "saved")
    /\ \E ok \in BOOLEAN :
         /\ SaveJobRuntime(j, work[j].job.rt, ok)
         /\ reports' = [reports EXCEPT ![j] = AssignErr(@, ok)]
    /\ UNCHANGED <<now, queue, history, cache, sync, loop, upd, recTasks, master,
                   issued, runs>>

(* The failed build is recorded, for as long as there is an error to read. *)
ReportFailure(j) ==
    /\ \E err \in reports[j] \ {"nil"} : reports' = [reports EXCEPT ![j] = @ \ {err}]
    /\ AddTask(j, NoTask)
    /\ UNCHANGED <<now, stored, queue, cache, sync, loop, work, upd, recTasks, master,
                   issued, runs>>

SetBuilt(j) ==
    /\ Step(j, "saved", "set")
    /\ jobs' = [jobs EXCEPT ![j] = work[j].job]
    /\ UNCHANGED <<now, storage, bookedJobs, queuedJobs, sync, loop, reports, upd, recTasks,
                   master, issued, runs>>

(* dequeueJob: the request is withdrawn from storage, then from memory. *)

(* Mutant: only from memory. *)
KeepRequest(j) == queue

Withdrawn(j) == queue \ {j}

DequeueStored(j) ==
    /\ Step(j, "set", "dequeued")
    /\ j \in queuedJobs
    /\ \/ queue' = Withdrawn(j)
       \/ "savefail" \in Features /\ UNCHANGED queue
    /\ UNCHANGED <<now, stored, history, cache, sync, loop, reports, upd, recTasks, master,
                   issued, runs>>

DequeueCached(j) ==
    /\ Step(j, "dequeued", "done")
    /\ queuedJobs' = queuedJobs \ {j}
    /\ bookedJobs' = bookedJobs \ {j}
    /\ UNCHANGED <<now, storage, jobs, sync, loop, reports, upd, recTasks, master, issued, runs>>

NotQueued(j) ==
    /\ Step(j, "set", "done")
    /\ j \notin queuedJobs
    /\ bookedJobs' = bookedJobs \ {j}
    /\ UNCHANGED <<now, storage, jobs, queuedJobs, sync, loop, reports, upd, recTasks, master,
                   issued, runs>>

(* The booking is dropped a minute after it was made. *)
BookingExpires(j) ==
    /\ "slow" \in Features
    /\ j \in bookedJobs
    /\ bookedJobs' = bookedJobs \ {j}
    /\ UNCHANGED <<now, storage, jobs, queuedJobs, sync, loop, builds, upd, recTasks,
                   master, issued, runs>>

(* Mutant: the goroutines are not waited for. *)
NotAllBuilt == loop = "build"

(* wg.Wait: every goroutine of the offer is through. *)
AllBuilt == loop = "build" /\ \A j \in JobIDs : work[j].pc \in {"none", "done"}

(* Jobs whose task has been appended to the tasks of the offer. *)
Built ==
    {j \in JobIDs : work[j].pc \notin {"none", "picked"} /\ work[j].job.rt.state = "Staging"}

(* ACCEPT reaches Mesos, whether or not the answer comes back.  The        *)
(* goroutines append to one slice without a lock: appends may be lost, but *)
(* not all of them.                                                        *)
Accept(S) ==
    /\ AllBuilt
    /\ S # {} /\ S \subseteq Built
    /\ mesos' = [t \in TaskIDs |-> IF \E j \in S : t = work[j].job.rt.task
                                   THEN "Staging" ELSE mesos[t]]
    /\ runs' = [j \in JobIDs |->
                  IF j \in S THEN [runs[j] EXCEPT ![work[j].job.rt.lastStart] = @ + 1]
                             ELSE runs[j]]
    /\ work' = [j \in JobIDs |-> NoWork]
    /\ loop' = "poll"
    /\ UNCHANGED <<now, storage, cache, sync, reports, upd, recTasks, ack, stream, issued>>

(* No task was built, or the call did not get through: the error is logged *)
(* and the jobs stay as they are.                                          *)
AcceptNothing ==
    /\ AllBuilt
    /\ work' = [j \in JobIDs |-> NoWork]
    /\ loop' = "poll"
    /\ UNCHANGED <<now, storage, cache, sync, reports, upd, recTasks, master, issued, runs>>
-----------------------------------------------------------------------------
(* A status update: HandleTaskStateUpdate of the scheduler, the one of the *)
(* reconciler, then the acknowledgement.                                   *)

(* Mutant: the state of the task becomes the state of the job. *)
ApplyStateAsIs(rt, state) == [rt EXCEPT !.state = state]

(* The runtime after an update; the task the update is about is not        *)
(* compared with the current one.                                          *)
ApplyUpdate(rt, state) ==
    CASE state \in Live      -> [rt EXCEPT !.state = state]
      [] state = "Finished"  -> [rt EXCEPT !.state = "Idle", !.task = NoTask]
      [] OTHER               -> [rt EXCEPT !.state = "Failed", !.task = NoTask]

(* A reconciliation that was overtaken by the end of the task. *)
Overtaken(job, m) ==
    m.recon /\ m.state = "Lost" /\ job.rt.state \in {"Idle", "Failed"}

(* Mutant: a lost task is not recorded. *)
RecordedUnlessLost(state) == state \in Terminal \ {"Lost"}

(* Updates that end a run go into the history of the job. *)
Recorded(state) == state \in Terminal

(* getJob returns a copy; the task is recorded before the copy is stored. *)
GetUpdated ==
    /\ loop = "poll" /\ stream # <<>>
    /\ LET m == Head(stream)
           j == parseTaskID(m.task) IN
       /\ jobs[j] # NoJob /\ ~Overtaken(jobs[j], m)
       /\ upd' = [pc |-> "set", msg |-> m,
                  job |-> [jobs[j] EXCEPT !.rt = ApplyUpdate(@, m.state)]]
       /\ IF Recorded(m.state) THEN AddTask(j, m.task) ELSE UNCHANGED history
    /\ stream' = Tail(stream)
    /\ loop' = "update"
    /\ UNCHANGED <<now, stored, queue, cache, sync, builds, recTasks, mesos, ack,
                   issued, runs>>

(* An update for an unknown job, or one that was overtaken. *)
IgnoreUpdate ==
    /\ loop = "poll" /\ stream # <<>>
    /\ LET m == Head(stream)
           j == parseTaskID(m.task) IN
       /\ jobs[j] # NoJob => Overtaken(jobs[j], m)
       /\ upd' = [pc |-> "ack", msg |-> m, job |-> NoJob]
    /\ stream' = Tail(stream)
    /\ loop' = "update"
    /\ UNCHANGED <<now, storage, cache, sync, builds, recTasks, mesos, ack, issued, runs>>

SetUpdated ==
    /\ upd.pc = "set"
    /\ jobs' = [jobs EXCEPT ![parseTaskID(upd.msg.task)] = upd.job]
    /\ upd' = [upd EXCEPT !.pc = "save"]
    /\ UNCHANGED <<now, storage, bookedJobs, queuedJobs, sync, loop, builds, recTasks,
                   master, issued, runs>>

SaveUpdated ==
    /\ upd.pc = "save"
    /\ \E ok \in BOOLEAN : SaveJobRuntime(parseTaskID(upd.msg.task), upd.job.rt, ok)
    /\ upd' = [upd EXCEPT !.pc = "ack"]
    /\ UNCHANGED <<now, queue, history, cache, sync, loop, builds, recTasks, master,
                   issued, runs>>

(* The reconciler hears of the task only if it is listening at this very   *)
(* moment.  Updates sent by the reconciliation carry no UUID and are not   *)
(* acknowledged.  Mesos forgets a task once its last update is.            *)
AckUpdate ==
    /\ upd.pc = "ack"
    /\ \/ UNCHANGED recTasks
       \/ upd.msg.recon /\ recTasks' = recTasks \ {upd.msg.task}
    /\ LET t == upd.msg.task IN
       IF upd.msg.recon \/ mesos[t] # upd.msg.state
       THEN UNCHANGED <<mesos, ack>>
       ELSE /\ ack' = [ack EXCEPT ![t] = "acked"]
            /\ mesos' = [mesos EXCEPT ![t] = IF @ \in Terminal THEN "gone" ELSE @]
    /\ upd' = NoUpdate
    /\ loop' = "poll"
    /\ UNCHANGED <<now, storage, cache, sync, builds, stream, issued, runs>>

(* Updates on a closed connection are gone; what was not acknowledged is   *)
(* sent again on the next one.                                             *)
DropStream ==
    /\ stream' = <<>>
    /\ ack' = [t \in TaskIDs |-> IF ack[t] = "sent" THEN "pending" ELSE ack[t]]

(* The acknowledgement fails: the handler returns the error and the        *)
(* subscription is opened anew.                                            *)
AckFails ==
    /\ "redeliver" \in Features
    /\ upd.pc = "ack"
    /\ DropStream
    /\ upd' = NoUpdate
    /\ loop' = "poll"
    /\ UNCHANGED <<now, storage, cache, sync, builds, recTasks, mesos, issued, runs>>
-----------------------------------------------------------------------------
(* Mesos *)

TaskNext(s) ==
    CASE s = "Staging"  -> {"Starting", "Running", "Failed", "Lost"}
      [] s = "Starting" -> {"Running", "Failed", "Lost"}
      [] s = "Running"  -> {"Finished", "Failed", "Lost"}
      [] OTHER          -> {}

MesosUnchanged ==
    UNCHANGED <<now, storage, cache, sync, loop, builds, upd, issued, runs>>

(* A task moves on; its next update leaves after the previous one has been *)
(* acknowledged.                                                           *)
TaskStep(t) ==
    /\ ack[t] = "acked"
    /\ \E s \in TaskNext(mesos[t]) : mesos' = [mesos EXCEPT ![t] = s]
    /\ ack' = [ack EXCEPT ![t] = "pending"]
    /\ UNCHANGED <<stream, recTasks>>
    /\ MesosUnchanged

(* An update is sent, or sent again when no acknowledgement has arrived.   *)
SendUpdate(t) ==
    /\ ack[t] = "pending" \/ ("redeliver" \in Features /\ ack[t] = "sent")
    /\ Len(stream) < MaxStream
    /\ stream' = Append(stream, [task |-> t, state |-> mesos[t], recon |-> FALSE])
    /\ ack' = [ack EXCEPT ![t] = "sent"]
    /\ UNCHANGED <<mesos, recTasks>>
    /\ MesosUnchanged

Disconnect ==
    /\ loop = "poll"
    /\ stream # <<>>
    /\ DropStream
    /\ UNCHANGED <<mesos, recTasks>>
    /\ MesosUnchanged
-----------------------------------------------------------------------------
(* The reconciler (mesos/reconciliation), as far as the scheduler sees it. *)

StoredTasks == {stored[j].rt.task : j \in {i \in JobIDs : stored[i] # NoJob}} \ {NoTask}

ReconcileStart ==
    /\ "recon" \in Features
    /\ recTasks = {}
    /\ recTasks' = StoredTasks
    /\ UNCHANGED master
    /\ MesosUnchanged

(* Mesos answers for every task asked about: Lost if it does not know it.  *)
ReconciledState(t) ==
    IF mesos[t] \in {"none", "gone"} THEN "Lost" ELSE mesos[t]

ReconcileReply(t) ==
    /\ t \in recTasks
    /\ Len(stream) < MaxStream
    /\ stream' = Append(stream, [task |-> t, state |-> ReconciledState(t), recon |-> TRUE])
    /\ UNCHANGED <<mesos, ack, recTasks>>
    /\ MesosUnchanged

(* The call fails: the round is given up, the next one starts afresh. *)
ReconcileFails ==
    /\ recTasks # {}
    /\ recTasks' = {}
    /\ UNCHANGED master
    /\ MesosUnchanged
-----------------------------------------------------------------------------
(* A leader starts from storage. *)
Restart ==
    /\ jobs' = stored
    /\ queuedJobs' = queue
    /\ bookedJobs' = {}
    /\ sync' = IdleSync
    /\ loop' = "poll"
    /\ work' = [j \in JobIDs |-> NoWork]
    /\ reports' = [j \in JobIDs |-> {}]
    /\ upd' = NoUpdate
    /\ recTasks' = {}
    /\ DropStream
    /\ UNCHANGED <<now, storage, mesos, issued, runs>>

(* The leader is gone, in the middle of anything. *)
Failover == "failover" \in Features /\ Restart

(* A failed build is reported when err is nil again: the call of its       *)
(* method panics, and that ends the server.                                *)
ReportPanics(j) == "nil" \in reports[j] /\ Restart
-----------------------------------------------------------------------------
APINext ==
    \E j \in JobIDs :
        \/ \E m \in 0..RetryLimit : updateJob(j, m) \/ createJob(j, m)
        \/ deleteJob(j)
        \/ runJob(j)

SyncNext == SyncReadJobs \/ SyncMergeJobs \/ SyncReadQueue \/ SyncSetQueue

BuildNext(j) ==
    \/ BuildTask(j) \/ BuildFails(j)
    \/ SaveBuilt(j) \/ SetBuilt(j)
    \/ DequeueStored(j) \/ DequeueCached(j) \/ NotQueued(j)

OfferNext ==
    \/ \E S \in SUBSET JobIDs : findJobsForResources(S) \/ Accept(S)
    \/ \E j \in JobIDs : BuildNext(j) \/ BookingExpires(j) \/ ReportFailure(j)
    \/ AcceptNothing

UpdateNext ==
    GetUpdated \/ IgnoreUpdate \/ SetUpdated \/ SaveUpdated \/ AckUpdate \/ AckFails

MesosNext ==
    \/ \E t \in TaskIDs : TaskStep(t) \/ SendUpdate(t) \/ ReconcileReply(t)
    \/ Disconnect \/ ReconcileStart \/ ReconcileFails

Next ==
    \/ Tick \/ APINext \/ SyncNext \/ OfferNext \/ UpdateNext \/ MesosNext
    \/ Failover \/ \E j \in JobIDs : ReportPanics(j)

Spec == Init /\ [][Next]_vars
-----------------------------------------------------------------------------
(* Tasks Mesos runs for a job. *)
Running(j) == {t \in TaskIDs : parseTaskID(t) = j /\ mesos[t] \in Live}

(* At most one task of a job runs at any time: the comment on bookedJobs   *)
(* ("Used to ensure to run simultaneously maximum one task per job").      *)
AtMostOneTask == \A j \in JobIDs : \A t, u \in Running(j) : t = u

(* A job is launched at most once per firing of its cron expression, plus  *)
(* the retries its configuration may have granted: no failure, restart,    *)
(* repeated update or edit makes findJobsForResources start it more often. *)
RunsPerPeriod ==
    \A j \in JobIDs, p \in Period : runs[j][p] <= RetryLimit + 1

(* A task is handed to Mesos only once storage names it as the current     *)
(* task of its job: whoever takes over can reconcile it.                   *)
LaunchRecorded ==
    [][\A t \in TaskIDs :
         LET j == parseTaskID(t) IN
         mesos[t] = "none" /\ mesos'[t] # "none" /\ stored[j] # NoJob =>
            stored[j].rt.task = t]_vars

(* The last update of a task is acknowledged, and so never sent again,     *)
(* only after the run has been recorded in the history of its job.         *)
AckedIsRecorded ==
    \A t \in TaskIDs :
        mesos[t] = "gone" => t \in history[parseTaskID(t)]

(* The task that is the run of a job now, from its launch until its last   *)
(* update has been acknowledged.                                           *)
OpenTasks(j) == {t \in TaskIDs : parseTaskID(t) = j /\ mesos[t] \in MesosState}

CurrentTask(j) == IF OpenTasks(j) = {} THEN NoTask ELSE CHOOSE t \in OpenTasks(j) : TRUE

Runs == INSTANCE JobRuns WITH
            Jobs     <- JobIDs,
            Tasks    <- [j \in JobIDs |-> {t \in TaskIDs : parseTaskID(t) = j}],
            current  <- [j \in JobIDs |-> CurrentTask(j)],
            recorded <- [j \in JobIDs |-> history[j] \ {NoTask}]

(* Runs follow one another, each with a task of its own that is recorded   *)
(* while it is the current one: launch, update, history and                *)
(* acknowledgement of different goroutines fit together (README.md: jobs   *)
(* are run as tasks, and read-tasks shows tasks (runs) of a job).          *)
RunsOneByOne == Runs!Spec

(* A failed build can be reported ("Shows tasks (runs) of job", with       *)
(* "Reading secret failed" among the examples): the goroutine that does it *)
(* finds an error.                                                         *)
FailureReportable == \A j \in JobIDs : "nil" \notin reports[j]
=============================================================================
