----------------------------- MODULE JobStorage -----------------------------
(***************************************************************************)
(* Jobs in ZooKeeper (storage/zk/zk.go) and the requests that read and     *)
(* write them: the handlers of the API (api/api.go), on any server, and    *)
(* the leading scheduler.  A job is a tree of nodes,                       *)
(*                                                                         *)
(*     <job>            its configuration                                  *)
(*     <job>/runtime    its runtime                                        *)
(*     <job>/tasks      its history, one child per task                    *)
(*                                                                         *)
(* and every operation is a sequence of calls on single nodes, none of     *)
(* which can be undone.  ZooKeeper creates a node only below an existing   *)
(* one and deletes it only when it has no children.                        *)
(***************************************************************************)
EXTENDS JobConf, Integers, FiniteSets

CONSTANTS
    JobIDs,       \* fully qualified identifiers of jobs
    Clients,      \* threads that execute requests
    Tasks,        \* tasks that may be recorded
    NoNode,       \* there is no such node
    Features      \* requests that are made, and whether calls may fail

AllFeatures ==
    {"create", "update", "delete",   \* the API
     "handle",     \* the scheduler handles an update: it saves the runtime
                   \* of the job, and before that records a task that is over
     "record",     \* the scheduler records a task that could not be built
     "cleanup",    \* the leader elected for it deletes old tasks every hour
     "iofail"}     \* any call may fail, with or without effect

ASSUME FeaturesAssumption == Features \subseteq AllFeatures

VARIABLES
    conf, runtime, tasks,   \* the nodes of every job
    req,                    \* the request every client is busy with
    list,                   \* GetJobs, as syncJobsCache calls it
    cached,                 \* the jobs in the cache of the leader
    removed,                \* auxiliary: jobs deleted and not created again
    disturbed,              \* auxiliary: jobs a deletion or a failed call has hit
                            \* since they were last created
    stable                  \* auxiliary: jobs readable ever since GetJobs began

nodes == <<conf, runtime, tasks>>
fate  == <<removed, disturbed>>
vars  == <<nodes, req, list, cached, fate, stable>>
-----------------------------------------------------------------------------
ASSUME NoNodeAssumption ==
    /\ NoNode \notin Conf /\ NoNode \notin {"new", "saved"}
    /\ NoNode \notin JobIDs /\ \A S \in SUBSET Tasks : NoNode # S

(* A request: where it stands, and what it was given or has read.          *)
Pc == {"getConf", "getRuntime", "setConf", "createConf", "setRuntime",
       "createRuntime", "createTask", "createDir", "createTaskAgain",
       "listTasks", "deleteTasks", "deleteRuntime", "deleteConf"}

Op == {"create", "update", "delete", "handle", "record", "cleanup"}

Request == [op : Op, job : JobIDs, pc : Pc, conf : Conf,
            todo : SUBSET Tasks]

NoRequest == [op |-> "none"]

NoList == [pc |-> "idle", job |-> NoNode, todo |-> {}, got |-> {}]

Jobs == {j \in JobIDs : conf[j] # NoNode}

(* What GetJob and GetJobs need of a job. *)
Readable == {j \in Jobs : runtime[j] # NoNode}

TypeOK ==
    /\ conf \in [JobIDs -> Conf \cup {NoNode}]
    /\ runtime \in [JobIDs -> {"new", "saved", NoNode}]
    /\ tasks \in [JobIDs -> {NoNode} \cup SUBSET Tasks]
    /\ \A j \in JobIDs \ Jobs : runtime[j] = NoNode /\ tasks[j] = NoNode
    /\ req \in [Clients -> Request \cup {NoRequest}]
    /\ list \in [pc : {"idle", "conf", "runtime"}, job : JobIDs \cup {NoNode},
                 todo : SUBSET JobIDs, got : SUBSET JobIDs]
    /\ list.pc = "runtime" => list.job # NoNode
    /\ cached \subseteq JobIDs
    /\ removed \subseteq JobIDs
    /\ disturbed \subseteq JobIDs
    /\ stable \subseteq JobIDs

(* Some jobs exist and are in the cache. *)
Init ==
    /\ conf \in [JobIDs -> NewConfs \cup {NoNode}]
    /\ runtime = [j \in JobIDs |-> IF j \in Jobs THEN "saved" ELSE NoNode]
    /\ tasks = [j \in JobIDs |-> NoNode]
    /\ req = [c \in Clients |-> NoRequest]
    /\ list = NoList
    /\ cached = Jobs
    /\ removed = {}
    /\ disturbed = {}
    /\ stable = Jobs
-----------------------------------------------------------------------------
Idle(c) == req[c] = NoRequest

At(c, pc) == ~Idle(c) /\ req[c].pc = pc

(* A configuration that has been written is of no further interest.        *)
Goto(c, pc) ==
    req' = [req EXCEPT ![c].pc = pc, ![c].conf = IF pc = "createConf" THEN @ ELSE ZeroConf]

(* The request is over, answered or failed. *)
Finish(c) == req' = [req EXCEPT ![c] = NoRequest]

Continue(c, pc) == IF pc = "answer" THEN Finish(c) ELSE Goto(c, pc)

(* The scheduler writes to jobs it has in its cache, the API to any.       *)
(* Bodies the schema refuses come to nothing.                              *)
Begin(c, op, j, pc) ==
    /\ Idle(c)
    /\ op \in Features
    /\ op \in {"handle", "record"} => j \in cached
    /\ req' = [req EXCEPT ![c] =
         [op |-> op, job |-> j, pc |-> pc, conf |-> ZeroConf, todo |-> {}]]
    /\ removed' = IF op = "create" THEN removed \ {j} ELSE removed
    /\ disturbed' = IF op = "delete" THEN disturbed \cup {j} ELSE disturbed
    /\ UNCHANGED <<nodes, list, cached>>

createJob(c, j) == Begin(c, "create", j, "getConf")

updateJob(c, j) == Begin(c, "update", j, "getConf")

deleteJob(c, j) == Begin(c, "delete", j, "listTasks")

saveRuntime(c, j) == Begin(c, "handle", j, "setRuntime")

(* Job by job, whatever comes of each. *)
tasksCleanup(c, j) == j \in Jobs /\ Begin(c, "cleanup", j, "listTasks")

addTask(c, j) == \E op \in {"handle", "record"} : Begin(c, op, j, "createTask")
-----------------------------------------------------------------------------
(* GetJobConf and GetJobRuntime.  Which body a request came with is        *)
(* settled where it is used: createJob has a new configuration, updateJob  *)
(* leaves what the body does not mention as it has been read.              *)
SetTo(c, new) == req' = [req EXCEPT ![c].pc = "setConf", ![c].conf = new]

Make(c) == \E new \in NewConfs : SetTo(c, new)

Merge(c, old) ==
    \/ \E new \in {Merged(old, b) : b \in {b \in Updates : Mergeable(old, b)}} : SetTo(c, new)
    \/ (\E b \in Updates : ~Mergeable(old, b)) /\ Finish(c)

GetConf(c) ==
    /\ At(c, "getConf")
    /\ LET r == req[c] IN
       IF conf[r.job] = NoNode
       THEN IF r.op = "create" THEN Make(c) ELSE Finish(c)
       ELSE IF r.op = "create" THEN Goto(c, "getRuntime") ELSE Merge(c, conf[r.job])
    /\ UNCHANGED <<nodes, list, cached, fate>>

(* A job without runtime does not exist, as far as createJob can tell. *)
GetRuntime(c) ==
    /\ At(c, "getRuntime")
    /\ IF runtime[req[c].job] = NoNode THEN Make(c) ELSE Finish(c)
    /\ UNCHANGED <<nodes, list, cached, fate>>

(* SaveJobConf: Set, and Create if there is nothing to set.                *)

(* Mutant: createJob leaves the runtime to somebody else. *)
AnswerAtOnce(op) == "answer"

AfterConf(op) == IF op = "create" THEN "setRuntime" ELSE "answer"

WriteConf(c) == conf' = [conf EXCEPT ![req[c].job] = req[c].conf]

SetConf(c) ==
    /\ At(c, "setConf")
    /\ IF conf[req[c].job] = NoNode
       THEN Goto(c, "createConf") /\ UNCHANGED conf
       ELSE Continue(c, AfterConf(req[c].op)) /\ WriteConf(c)
    /\ UNCHANGED <<runtime, tasks, list, cached, fate>>

CreateConf(c) ==
    /\ At(c, "createConf")
    /\ IF conf[req[c].job] # NoNode
       THEN Finish(c) /\ UNCHANGED conf
       ELSE Continue(c, AfterConf(req[c].op)) /\ WriteConf(c)
    /\ UNCHANGED <<runtime, tasks, list, cached, fate>>

(* SaveJobRuntime, likewise. *)
WriteRuntime(c) ==
    runtime' = [runtime EXCEPT ![req[c].job] = IF req[c].op = "create" THEN "new" ELSE "saved"]

(* createJob is answered 204: whatever has hit the job, it is whole again, *)
(* unless somebody is deleting it.                                         *)
Deleting(j) == \E c \in Clients : ~Idle(c) /\ req[c].op = "delete" /\ req[c].job = j

Created(c) ==
    disturbed' = IF req[c].op = "create" /\ ~Deleting(req[c].job)
                 THEN disturbed \ {req[c].job} ELSE disturbed

SetRuntime(c) ==
    /\ At(c, "setRuntime")
    /\ IF runtime[req[c].job] = NoNode
       THEN Goto(c, "createRuntime") /\ UNCHANGED <<runtime, disturbed>>
       ELSE Finish(c) /\ WriteRuntime(c) /\ Created(c)
    /\ UNCHANGED <<conf, tasks, list, cached, removed>>

(* Mutant: the node is created whether or not there is one to create it in. *)
CreateRuntimeAnywhere(c) ==
    /\ At(c, "createRuntime")
    /\ Finish(c) /\ WriteRuntime(c) /\ Created(c)
    /\ UNCHANGED <<conf, tasks, list, cached, removed>>

CreateRuntime(c) ==
    /\ At(c, "createRuntime")
    /\ Finish(c)
    /\ IF conf[req[c].job] = NoNode \/ runtime[req[c].job] # NoNode
       THEN UNCHANGED <<runtime, disturbed>>
       ELSE WriteRuntime(c) /\ Created(c)
    /\ UNCHANGED <<conf, tasks, list, cached, removed>>
-----------------------------------------------------------------------------
(* AddTask: Create below the history, and once more after creating that.   *)
(* Its errors are logged; HandleTaskStateUpdate then saves the runtime.    *)

AfterTask(op) == IF op = "handle" THEN "setRuntime" ELSE "answer"

WriteTask(c) ==
    \E t \in Tasks \ tasks[req[c].job] :
        tasks' = [tasks EXCEPT ![req[c].job] = @ \cup {t}]

CreateTask(c) ==
    /\ At(c, "createTask")
    /\ IF tasks[req[c].job] = NoNode
       THEN Goto(c, "createDir") /\ UNCHANGED tasks
       ELSE WriteTask(c) /\ Continue(c, AfterTask(req[c].op))
    /\ UNCHANGED <<conf, runtime, list, cached, fate>>

CreateDir(c) ==
    /\ At(c, "createDir")
    /\ IF conf[req[c].job] = NoNode \/ tasks[req[c].job] # NoNode
       THEN Continue(c, AfterTask(req[c].op)) /\ UNCHANGED tasks
       ELSE Goto(c, "createTaskAgain") /\ tasks' = [tasks EXCEPT ![req[c].job] = {}]
    /\ UNCHANGED <<conf, runtime, list, cached, fate>>

CreateTaskAgain(c) ==
    /\ At(c, "createTaskAgain")
    /\ Continue(c, AfterTask(req[c].op))
    /\ IF tasks[req[c].job] = NoNode THEN UNCHANGED tasks ELSE WriteTask(c)
    /\ UNCHANGED <<conf, runtime, list, cached, fate>>
-----------------------------------------------------------------------------
(* DeleteJob: tasks, history, runtime, configuration.  A node that is gone *)
(* already is as good as deleted; any other error ends the request.        *)

ListTasks(c) ==
    /\ At(c, "listTasks") /\ req[c].op = "delete"
    /\ req' = [req EXCEPT ![c].pc = "deleteTasks",
                          ![c].todo = IF tasks[req[c].job] = NoNode THEN {} ELSE tasks[req[c].job]]
    /\ UNCHANGED <<nodes, list, cached, fate>>

(* The cleanup wants those older than taskTTL. *)
ListOldTasks(c) ==
    /\ At(c, "listTasks") /\ req[c].op = "cleanup"
    /\ IF tasks[req[c].job] = NoNode
       THEN Finish(c)
       ELSE \E old \in SUBSET tasks[req[c].job] :
              req' = [req EXCEPT ![c].pc = "deleteTasks", ![c].todo = old]
    /\ UNCHANGED <<nodes, list, cached, fate>>

DeleteTask(c) ==
    /\ At(c, "deleteTasks")
    /\ \E t \in req[c].todo :
         /\ req' = [req EXCEPT ![c].todo = @ \ {t}]
         /\ tasks' = [tasks EXCEPT ![req[c].job] = IF @ = NoNode THEN @ ELSE @ \ {t}]
    /\ UNCHANGED <<conf, runtime, list, cached, fate>>

(* At the end, or when the leader is deposed.  The code goes on after a    *)
(* call that fails: here ListOldTasks has left that task out.              *)
CleanedUp(c) ==
    /\ At(c, "deleteTasks") /\ req[c].op = "cleanup"
    /\ Finish(c)
    /\ UNCHANGED <<nodes, list, cached, fate>>

DeleteDir(c) ==
    /\ At(c, "deleteTasks") /\ req[c].todo = {} /\ req[c].op = "delete"
    /\ IF tasks[req[c].job] \in {{}, NoNode}
       THEN tasks' = [tasks EXCEPT ![req[c].job] = NoNode] /\ Goto(c, "deleteRuntime")
       ELSE UNCHANGED tasks /\ Finish(c)
    /\ UNCHANGED <<conf, runtime, list, cached, fate>>

DeleteRuntime(c) ==
    /\ At(c, "deleteRuntime")
    /\ runtime' = [runtime EXCEPT ![req[c].job] = NoNode]
    /\ Goto(c, "deleteConf")
    /\ UNCHANGED <<conf, tasks, list, cached, fate>>

(* No children are left. *)
Childless(j) == runtime[j] = NoNode /\ tasks[j] = NoNode

(* Mutant: the error of the last call is ignored. *)
DeletedAnyway(j) == TRUE

Deleted(j) == Childless(j)

(* Somebody is about to write the configuration of the job. *)
Writing(j) ==
    \E c \in Clients : ~Idle(c) /\ req[c].op \in {"create", "update"} /\ req[c].job = j

(* The job counts as removed once the answer is 204, unless it is being    *)
(* written at that time.                                                   *)
DeleteConf(c) ==
    /\ At(c, "deleteConf")
    /\ LET j == req[c].job IN
       /\ conf' = IF Childless(j) THEN [conf EXCEPT ![j] = NoNode] ELSE conf
       /\ removed' = IF Deleted(j) /\ ~Writing(j) THEN removed \cup {j} ELSE removed
    /\ Finish(c)
    /\ UNCHANGED <<runtime, tasks, list, cached, disturbed>>

(* A call fails, before or after its effect. *)
CallFails(c) ==
    /\ "iofail" \in Features
    /\ ~Idle(c)
    /\ Continue(c, IF req[c].pc \in {"createTask", "createDir", "createTaskAgain"}
                   THEN AfterTask(req[c].op) ELSE "answer")
    /\ disturbed' = disturbed \cup {req[c].job}
    /\ UNCHANGED <<nodes, list, cached, removed>>
-----------------------------------------------------------------------------
(* GetJobs: the children, then two nodes of each; the first error ends it, *)
(* and syncJobsCache calls it again.                                       *)

ListUnchanged == UNCHANGED <<nodes, req, fate>>

ListJobs ==
    /\ list.pc = "idle"
    /\ list' = [NoList EXCEPT !.pc = "conf", !.todo = Jobs]
    /\ UNCHANGED cached
    /\ ListUnchanged

(* Mutant: what has been read so far is returned. *)
ReturnSoFar == list' = NoList /\ cached' = list.got

GiveUp == list' = NoList /\ UNCHANGED cached

(* A node of a job that was listed is gone by now. *)
NodeMissing == GiveUp

ReadConf ==
    /\ list.pc = "conf"
    /\ \E j \in list.todo :
         IF conf[j] = NoNode
         THEN NodeMissing
         ELSE /\ list' = [list EXCEPT !.pc = "runtime", !.job = j, !.todo = @ \ {j}]
              /\ UNCHANGED cached
    /\ ListUnchanged

ReadRuntime ==
    /\ list.pc = "runtime"
    /\ IF runtime[list.job] = NoNode
       THEN NodeMissing
       ELSE /\ list' = [list EXCEPT !.pc = "conf", !.job = NoNode, !.got = @ \cup {list.job}]
            /\ UNCHANGED cached
    /\ ListUnchanged

ListFails ==
    /\ "iofail" \in Features
    /\ list.pc # "idle"
    /\ GiveUp
    /\ ListUnchanged

ListDone ==
    /\ list.pc = "conf" /\ list.todo = {}
    /\ list' = NoList
    /\ cached' = list.got
    /\ ListUnchanged
-----------------------------------------------------------------------------
RequestNext(c) ==
    \/ \E j \in JobIDs : createJob(c, j) \/ updateJob(c, j) \/ deleteJob(c, j)
                          \/ saveRuntime(c, j) \/ addTask(c, j) \/ tasksCleanup(c, j)
    \/ GetConf(c) \/ GetRuntime(c)
    \/ SetConf(c) \/ CreateConf(c) \/ SetRuntime(c) \/ CreateRuntime(c)
    \/ CreateTask(c) \/ CreateDir(c) \/ CreateTaskAgain(c)
    \/ ListTasks(c) \/ DeleteTask(c) \/ DeleteDir(c) \/ DeleteRuntime(c) \/ DeleteConf(c)
    \/ ListOldTasks(c) \/ CleanedUp(c)
    \/ CallFails(c)

ListNext == ListJobs \/ ReadConf \/ ReadRuntime \/ ListFails \/ ListDone

Next ==
    /\ ListNext \/ \E c \in Clients : RequestNext(c)
    /\ stable' = IF list'.pc = "idle" THEN Readable' ELSE stable \cap Readable'

Spec == Init /\ [][Next]_vars
-----------------------------------------------------------------------------
(* A job that has been removed is gone until somebody creates it again     *)
(* ("Remove job with the given fully-qualified ID"): what the scheduler    *)
(* still has to say about it does not bring it back.  An update under way  *)
(* at the time would: SaveJobConf creates what it does not find.           *)
RemovedIsGone == \A j \in removed : conf[j] = NoNode

AtRest == \A c \in Clients : Idle(c)

(* When no request is under way every job can be read, unless a deletion   *)
(* or a failed call has hit it since it was last created, whatever         *)
(* requests have met at its nodes: creating a broken job again repairs it. *)
(* A job that cannot makes GetJobs fail for all jobs, and the cache is     *)
(* never synchronised again: a task that is recorded in the middle of a    *)
(* deletion can leave such a job behind.                                   *)
UndisturbedIsReadable == AtRest => Jobs \ disturbed \subseteq Readable

(* Whatever bodies have been merged, in whatever order, by requests that   *)
(* overwrite each other's work: the scheduler can build a task from every  *)
(* configuration in storage.  One it cannot (a type without its container, *)
(* a schedule that does not parse) would end the process of each leader.   *)
StoredIsLaunchable == \A j \in Jobs : Launchable(conf[j])

(* The cache takes over complete lists only: a job that could be read all  *)
(* the time GetJobs took is neither evicted nor left out.                  *)
ListIsComplete == [][cached' # cached => stable \subseteq cached']_vars
=============================================================================
