------------------------------ MODULE LongRun ------------------------------
(***************************************************************************)
(* The scheduler over time without end: what must happen at last.          *)
(*                                                                         *)
(* newTaskID never makes an identifier twice.  JobsScheduler has only so   *)
(* many for a job, and with the last one everything that could happen to   *)
(* the job is over.  Here an identifier that neither Mesos nor anything    *)
(* under way refers to is as good as new: the bound is on the tasks of a   *)
(* job at a time, and a job can be run again and again.                    *)
(***************************************************************************)
EXTENDS JobsScheduler

(* Reconciliation would ask for the old bearer of an identifier; no job is *)
(* created and no leader replaced, so that nobody reads a stored runtime.  *)
ASSUME LongRunAssumption == Features \subseteq {"edit", "delete", "run", "savefail"}

(* Tasks of builds and updates under way.  What else names a task is the   *)
(* runtime of a job, which no step compares with a task.                   *)
UnderWay ==
    {work[j].job.rt.task : j \in {i \in JobIDs : work[i].pc # "none"}}
        \cup {stream[i].task : i \in 1..Len(stream)}
        \cup IF upd.pc = "none" THEN {} ELSE {upd.msg.task}

Spent(t) == t \in issued \ UnderWay /\ mesos[t] \in {"none", "gone"}

(* history and runs, which no step reads either, start afresh. *)
Reuse(t) ==
    /\ Spent(t)
    /\ issued' = issued \ {t}
    /\ mesos' = [mesos EXCEPT ![t] = "none"]
    /\ history' = [j \in JobIDs |-> {}]
    /\ runs' = [j \in JobIDs |-> [p \in Period |-> 0]]
    /\ UNCHANGED <<now, stored, queue, cache, sync, loop, builds, upd, recTasks, ack, stream>>

(* Bound: a job is picked while there is an identifier for its task.       *)
Exhausted(j) == \A u \in UUIDs : taskID(j, u) \in issued

Pick(S) == (\A j \in S : ~Exhausted(j)) /\ findJobsForResources(S)

(* Bound: of the writes to storage, AddTask and dequeueJob may fail. *)
RuntimeSaved(j, rt) == stored[j] # NoJob => stored'[j].rt = rt

SavesBuilt(j) == SaveBuilt(j) /\ RuntimeSaved(j, work[j].job.rt)

SavesUpdated == SaveUpdated /\ RuntimeSaved(parseTaskID(upd.msg.task), upd.job.rt)

LongNext ==
    \/ Tick \/ APINext \/ SyncNext \/ MesosNext
    \/ \E S \in SUBSET JobIDs : Pick(S) \/ Accept(S)
    \/ \E j \in JobIDs : \/ BuildTask(j) \/ SavesBuilt(j) \/ SetBuilt(j)
                         \/ DequeueStored(j) \/ DequeueCached(j) \/ NotQueued(j)
    \/ AcceptNothing
    \/ GetUpdated \/ IgnoreUpdate \/ SetUpdated \/ SavesUpdated \/ AckUpdate
    \/ \E t \in TaskIDs : Reuse(t)

(* Goroutines that are ready run: the cache synchronisation (its timer     *)
(* always fires again), the goroutines of an offer, the event loop.        *)
ProcessFairness ==
    /\ WF_vars(SyncNext)
    /\ \A j \in JobIDs : WF_vars(BuildNext(j))
    /\ WF_vars(\E S \in SUBSET JobIDs : Accept(S) \/ AcceptNothing)
    /\ WF_vars(SetUpdated \/ SaveUpdated \/ AckUpdate)

(* Storage is not down for ever: dequeueJob succeeds now and then.         *)
StorageFairness ==
    \A j \in JobIDs : SF_vars(DequeueStored(j) /\ j \notin queue')

(* Mesos keeps making offers that an eligible job fits in (offerstuner     *)
(* asks for them).  Tasks come to an end, Mesos says so until it is        *)
(* acknowledged, and the event loop gets to handle what arrives: this is   *)
(* for the bound alone, so that identifiers become free.                   *)
MesosFairness ==
    /\ \A j \in JobIDs : SF_vars(\E S \in SUBSET JobIDs : j \in S /\ Pick(S))
    /\ WF_vars(\E t \in TaskIDs : TaskStep(t))
    /\ WF_vars(\E t \in TaskIDs : SendUpdate(t))
    /\ SF_vars(GetUpdated \/ IgnoreUpdate)
    /\ WF_vars(\E t \in TaskIDs : Reuse(t))

LongSpec ==
    Init /\ [][LongNext]_vars /\ ProcessFairness /\ StorageFairness /\ MesosFairness
-----------------------------------------------------------------------------
(* The request for an immediate run is withdrawn from storage, which only  *)
(* a goroutine does that has built a task for it, unless the job is        *)
(* deleted: whatever the state and schedule of the job, though dequeueJob  *)
(* fails, and though the synchronisation keeps replacing queuedJobs by     *)
(* snapshots from before or after (dequeueJob looks there).                *)
QueuedIsServed ==
    \A j \in JobIDs : j \in queue ~> j \notin queue \/ stored[j] = NoJob

(* Each run of a job may put back a copy of it that was taken before the   *)
(* last synchronisation; requests that never end may do so for ever.       *)
Unasked(j) == <>[][~runJob(j)]_vars

(* A deleted job leaves the cache again and again however often goroutines *)
(* and updates under way put it back, and for good once no request for it  *)
(* is made any more.                                                       *)
DeletedIsEvicted ==
    \A j \in JobIDs :
        <>[](stored[j] = NoJob) =>
            /\ []<>(jobs[j] = NoJob)
            /\ Unasked(j) => <>[](jobs[j] = NoJob)

(* The scheduler comes to use the configuration that is stored, again and  *)
(* again however often goroutines and updates under way put back an old    *)
(* one, and for good once no immediate run is asked for any more.          *)
Adopted(j, m) == jobs[j] # NoJob /\ jobs[j].maxRetries = m

ConfAdopted ==
    \A j \in JobIDs, m \in 0..RetryLimit :
        <>[](stored[j] # NoJob /\ stored[j].maxRetries = m) =>
            /\ []<>Adopted(j, m)
            /\ Unasked(j) => <>[]Adopted(j, m)
=============================================================================
