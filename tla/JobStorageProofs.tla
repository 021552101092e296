-------------------------- MODULE JobStorageProofs --------------------------
(***************************************************************************)
(* Proofs about JobStorage for every set of jobs, clients, images,         *)
(* parameters and tasks, and every choice of Features.                     *)
(***************************************************************************)
EXTENDS JobStorage, TLAPS

(* Only createJob and updateJob write a configuration, and only DeleteJob  *)
(* deletes anything but tasks.                                             *)
PcOfOp ==
    \A c \in Clients : ~Idle(c) =>
        /\ req[c].pc \in {"getConf", "setConf", "createConf"} => req[c].op \in {"create", "update"}
        /\ req[c].pc = "getRuntime" => req[c].op = "create"
        /\ req[c].pc \in {"deleteRuntime", "deleteConf"} => req[c].op = "delete"

(* Of a job that is gone no request has read a configuration it may write. *)
RemovedIsLeftAlone ==
    \A j \in removed :
        /\ conf[j] = NoNode
        /\ \A c \in Clients : ~Idle(c) /\ req[c].job = j /\ req[c].op \in {"create", "update"} =>
               req[c].op = "update" /\ req[c].pc = "getConf"

(* Somebody is about to write the runtime of a new job.                    *)
RuntimeFollows(j) ==
    \E c \in Clients : /\ ~Idle(c) /\ req[c].job = j /\ req[c].op = "create"
                       /\ req[c].pc \in {"setRuntime", "createRuntime"}

(* A job nothing has gone wrong with has its runtime, or will; nobody is   *)
(* deleting it, and an update finds what it has read.                      *)
UndisturbedIsWhole ==
    \A j \in JobIDs \ disturbed :
        /\ conf[j] # NoNode => runtime[j] # NoNode \/ RuntimeFollows(j)
        /\ \A c \in Clients : ~Idle(c) /\ req[c].job = j =>
               /\ req[c].op # "delete"
               /\ req[c].op = "update" /\ req[c].pc \in {"setConf", "createConf"} => conf[j] # NoNode

(* A job that was readable all along has been read or will be.             *)
ListedOrToDo ==
    list.pc # "idle" => stable \subseteq list.got \cup list.todo \cup {list.job}

IInv ==
    /\ TypeOK
    /\ PcOfOp
    /\ RemovedIsLeftAlone
    /\ UndisturbedIsWhole

ListInv == TypeOK /\ ListedOrToDo /\ (list.pc = "conf" => list.job = NoNode)
-----------------------------------------------------------------------------
(* Configurations: the schemas and the merge make none that the scheduler  *)
(* cannot launch.                                                          *)

LEMMA ZeroConfType == ZeroConf \in Conf
  BY DEF ZeroConf, Conf, Value

LEMMA NewConfsFit ==
    ASSUME NEW new \in NewConfs
    PROVE  new \in Conf /\ Launchable(new)
<1>1. PICK b \in NewPayload : NewSchema(b) /\ new = NewConf(b)
  BY DEF NewConfs
<1>2. b.docker \in Image /\ b.mesos \in Image /\ b.param \in [Params -> Value]
  BY DEF NewPayload
<1>3. new \in Conf
  BY <1>1, <1>2 DEF NewConf, Conf
<1>4. (b.docker # Empty => b.docker \in Images) /\ (b.docker = Empty => b.mesos \in Images)
  BY <1>1, <1>2 DEF NewSchema, Image
<1>5. \A p \in Params : Allows(p, new.param[p])
  BY <1>1 DEF NewSchema, NewConf
<1>6. /\ new.type = IF b.docker # Empty THEN "Docker" ELSE "Mesos"
      /\ b.docker # Empty => new.docker = b.docker
      /\ b.docker = Empty => new.mesos = b.mesos
  BY <1>1 DEF NewConf
<1> QED
  BY <1>3, <1>4, <1>5, <1>6 DEF Launchable

LEMMA MergedFits ==
    ASSUME NEW old \in Conf, NEW b \in Updates, Mergeable(old, b)
    PROVE  Merged(old, b) \in Conf /\ (Launchable(old) => Launchable(Merged(old, b)))
<1> DEFINE new == Merged(old, b)
<1>1. /\ b.container \in Container \cup {Nil}
      /\ b.param \in [Params -> Value \cup {Nil}]
      /\ UpdateSchema(b)
  BY DEF Updates, UpdatePayload
<1>2. /\ old.type \in {"", "Docker", "Mesos"} /\ old.docker \in Image \cup {Nil}
      /\ old.mesos \in Image \cup {Nil} /\ old.param \in [Params -> Value]
  BY DEF Conf
<1>3. /\ new.type = IF ToDocker(b) THEN "Docker" ELSE IF ToMesos(b) THEN "Mesos" ELSE old.type
      /\ new.docker = IF ToDocker(b) THEN DockerImage(old, b.container)
                      ELSE IF ToMesos(b) THEN Nil ELSE old.docker
      /\ new.mesos = IF ToDocker(b) THEN Nil
                     ELSE IF ToMesos(b) THEN b.container.mesos.image ELSE old.mesos
      /\ new.param = [p \in Params |-> IF b.param[p] # Nil THEN b.param[p] ELSE old.param[p]]
  BY DEF Merged
<1>4. ToDocker(b) => DockerImage(old, b.container) \in Images
  <2>1. SUFFICES ASSUME ToDocker(b) PROVE DockerImage(old, b.container) \in Images
    OBVIOUS
  <2>2. b.container.docker \in Box
    BY <1>1, <2>1 DEF ToDocker, Container
  <2>3. b.container.docker.image \in Image \cup {Nil}
    BY <2>2 DEF Box
  <2>4. DockerImage(old, b.container) \in Image
    BY <1>2, <2>3 DEF DockerImage, Image
  <2> QED
    BY <2>1, <2>4 DEF Mergeable, Image
<1>5. ToMesos(b) => b.container.mesos.image \in Images
  <2>1. SUFFICES ASSUME ToMesos(b) PROVE b.container.mesos.image \in Images
    OBVIOUS
  <2>2. b.container.mesos \in Box
    BY <1>1, <2>1 DEF ToMesos, Container
  <2>3. b.container.mesos.image \in Image \cup {Nil}
    BY <2>2 DEF Box
  <2> QED
    BY <1>1, <2>1, <2>3 DEF UpdateSchema, ToMesos, Image
<1>6. new.param \in [Params -> Value]
  BY <1>1, <1>2, <1>3
<1>7. new \in Conf
  <2>1. /\ new.type \in {"", "Docker", "Mesos"} /\ new.docker \in Image \cup {Nil}
        /\ new.mesos \in Image \cup {Nil}
    BY <1>2, <1>3, <1>4, <1>5 DEF Image
  <2>2. new = [type |-> new.type, docker |-> new.docker, mesos |-> new.mesos, param |-> new.param]
    BY DEF Merged
  <2> HIDE DEF new
  <2> QED
    BY <1>6, <2>1, <2>2 DEF Conf
<1>8. ASSUME Launchable(old) PROVE Launchable(new)
  <2>1. \A p \in Params : Allows(p, new.param[p])
    BY <1>1, <1>3, <1>8 DEF UpdateSchema, Launchable
  <2>2. new.type \in {"Docker", "Mesos"}
    BY <1>3, <1>8 DEF Launchable
  <2>3. (new.type = "Docker" => new.docker \in Images) /\ (new.type = "Mesos" => new.mesos \in Images)
    BY <1>3, <1>4, <1>5, <1>8 DEF Launchable
  <2> HIDE DEF new
  <2> QED
    BY <2>1, <2>2, <2>3 DEF Launchable
<1> QED
  BY <1>7, <1>8
-----------------------------------------------------------------------------
(* What a step of a request does to the requests.                          *)
LEMMA GotoFacts ==
    ASSUME TypeOK, NEW c \in Clients, ~Idle(c), NEW pc \in Pc, Goto(c, pc)
    PROVE  /\ req' \in [Clients -> Request \cup {NoRequest}]
           /\ \A d \in Clients \ {c} : req'[d] = req[d]
           /\ req[c] \in Request /\ req'[c] \in Request /\ req'[c] # NoRequest
           /\ req'[c].pc = pc /\ req'[c].op = req[c].op /\ req'[c].job = req[c].job
           /\ req'[c].todo = req[c].todo
<1>1. req[c] \in Request
  BY DEF TypeOK, Idle
<1> DEFINE new == IF pc = "createConf" THEN req[c].conf ELSE ZeroConf
<1>2. [req[c] EXCEPT !.pc = pc, !.conf = new] \in Request
  <2>1. new \in Conf
    BY <1>1, ZeroConfType DEF Request
  <2> QED
    BY <1>1, <2>1 DEF Request
<1> HIDE DEF new
<1>3. req' = [req EXCEPT ![c] = [req[c] EXCEPT !.pc = pc, !.conf = new]]
  BY <1>1 DEF Goto, new, TypeOK, Request
<1>4. \A r \in Request : r # NoRequest
  BY DEF Request, NoRequest, Op
<1> QED
  BY <1>1, <1>2, <1>3, <1>4 DEF TypeOK, Request

LEMMA FinishFacts ==
    ASSUME TypeOK, NEW c \in Clients, Finish(c)
    PROVE  /\ req' \in [Clients -> Request \cup {NoRequest}]
           /\ \A d \in Clients \ {c} : req'[d] = req[d]
           /\ req'[c] = NoRequest
  BY DEF Finish, TypeOK

LEMMA ContinueFacts ==
    ASSUME TypeOK, NEW c \in Clients, ~Idle(c), NEW pc \in Pc \cup {"answer"}, Continue(c, pc)
    PROVE  /\ req' \in [Clients -> Request \cup {NoRequest}]
           /\ \A d \in Clients \ {c} : req'[d] = req[d]
           /\ req[c] \in Request
           /\ pc = "answer" => req'[c] = NoRequest
           /\ pc # "answer" =>
                /\ req'[c] \in Request /\ req'[c] # NoRequest
                /\ req'[c].pc = pc /\ req'[c].op = req[c].op /\ req'[c].job = req[c].job
                /\ req'[c].todo = req[c].todo
<1>1. req[c] \in Request
  BY DEF TypeOK, Idle
<1>2. CASE pc = "answer"
  BY <1>1, <1>2, FinishFacts DEF Continue
<1>3. CASE pc # "answer"
  BY <1>3, GotoFacts DEF Continue
<1> QED
  BY <1>2, <1>3

LEMMA BeginFacts ==
    ASSUME TypeOK, NEW c \in Clients, NEW j \in JobIDs, NEW op \in Op, NEW pc \in Pc,
           Begin(c, op, j, pc)
    PROVE  /\ req' \in [Clients -> Request \cup {NoRequest}]
           /\ \A d \in Clients \ {c} : req'[d] = req[d]
           /\ req'[c] \in Request /\ req'[c] # NoRequest
           /\ req'[c].pc = pc /\ req'[c].op = op /\ req'[c].job = j
<1>1. req' = [req EXCEPT ![c] =
         [op |-> op, job |-> j, pc |-> pc, conf |-> ZeroConf, todo |-> {}]]
  BY DEF Begin
<1>3. [op |-> op, job |-> j, pc |-> pc, conf |-> ZeroConf, todo |-> {}] \in Request
  BY ZeroConfType DEF Request
<1>4. \A r \in Request : r # NoRequest
  BY DEF Request, NoRequest, Op
<1> QED
  BY <1>1, <1>3, <1>4 DEF TypeOK

(* The steps that list what there is to delete, or have deleted some.      *)
LEMMA TodoFacts ==
    ASSUME TypeOK, NEW c \in Clients, ~Idle(c), NEW S \in SUBSET Tasks,
           req' = [req EXCEPT ![c].pc = "deleteTasks", ![c].todo = S]
             \/ (At(c, "deleteTasks") /\ req' = [req EXCEPT ![c].todo = S])
    PROVE  /\ req' \in [Clients -> Request \cup {NoRequest}]
           /\ \A d \in Clients \ {c} : req'[d] = req[d]
           /\ req[c] \in Request /\ req'[c] \in Request /\ req'[c] # NoRequest
           /\ req'[c].pc = "deleteTasks" /\ req'[c].op = req[c].op /\ req'[c].job = req[c].job
<1>1. req[c] \in Request
  BY DEF TypeOK, Idle
<1>2. "deleteTasks" \in Pc
  BY DEF Pc
<1>3. \A r \in Request : r # NoRequest
  BY DEF Request, NoRequest, Op
<1>4. CASE req' = [req EXCEPT ![c].pc = "deleteTasks", ![c].todo = S]
  <2>1. req' = [req EXCEPT ![c] = [req[c] EXCEPT !.pc = "deleteTasks", !.todo = S]]
    BY <1>1, <1>4 DEF TypeOK, Request
  <2>2. [req[c] EXCEPT !.pc = "deleteTasks", !.todo = S] \in Request
    BY <1>1, <1>2 DEF Request
  <2> QED
    BY <1>1, <1>3, <2>1, <2>2 DEF TypeOK, Request
<1>5. CASE At(c, "deleteTasks") /\ req' = [req EXCEPT ![c].todo = S]
  <2>1. req' = [req EXCEPT ![c] = [req[c] EXCEPT !.todo = S]]
    BY <1>5
  <2>2. [req[c] EXCEPT !.todo = S] \in Request
    BY <1>1 DEF Request
  <2> QED
    BY <1>1, <1>3, <1>5, <2>1, <2>2 DEF TypeOK, Request, At
<1> QED
  BY <1>4, <1>5
-----------------------------------------------------------------------------
(* Type correctness. *)

LEMMA TypeInit == Init => TypeOK
<1> SUFFICES ASSUME Init PROVE TypeOK
  OBVIOUS
<1>1. conf \in [JobIDs -> Conf \cup {NoNode}]
  <2>1. NewConfs \cup {NoNode} \subseteq Conf \cup {NoNode}
    BY NewConfsFit
  <2> QED
    BY <2>1 DEF Init
<1>2. Jobs \subseteq JobIDs
  BY DEF Jobs
<1> QED
  BY <1>1, <1>2 DEF Init, TypeOK, NoList

(* Every request begins at the first call of its operation.                *)
Begins(c, j, op, pc) ==
    /\ Begin(c, op, j, pc)
    /\ op \in Op /\ pc \in Pc
    /\ op \in {"create", "update"} => pc = "getConf"
    /\ op \notin {"create", "update"} => pc \in {"listTasks", "setRuntime", "createTask"}

LEMMA BeginningFacts ==
    ASSUME NEW c \in Clients, NEW j \in JobIDs,
           createJob(c, j) \/ updateJob(c, j) \/ deleteJob(c, j)
             \/ saveRuntime(c, j) \/ addTask(c, j) \/ tasksCleanup(c, j)
    PROVE  \E op \in Op, pc \in Pc : Begins(c, j, op, pc)
  BY DEF createJob, updateJob, deleteJob, saveRuntime, addTask, tasksCleanup, Begins, Op, Pc

LEMMA BeginType ==
    ASSUME TypeOK, stable' \subseteq JobIDs, NEW c \in Clients, NEW j \in JobIDs,
           NEW op \in Op, NEW pc \in Pc, Begin(c, op, j, pc)
    PROVE  TypeOK'
<1>1. req' \in [Clients -> Request \cup {NoRequest}]
  BY BeginFacts
<1>2. removed' \subseteq JobIDs /\ disturbed' \subseteq JobIDs
  BY DEF Begin, TypeOK
<1> QED
  BY <1>1, <1>2 DEF Begin, TypeOK, nodes, Jobs

(* Calls that read, or end a request, change no node.                      *)
LEMMA ReadType ==
    ASSUME TypeOK, stable' \subseteq JobIDs, UNCHANGED <<nodes, list, cached, removed>>,
           req' \in [Clients -> Request \cup {NoRequest}], disturbed' \subseteq JobIDs
    PROVE  TypeOK'
  BY DEF TypeOK, nodes, Jobs

(* A request sets out to write a configuration.                            *)
LEMMA SetToFacts ==
    ASSUME TypeOK, NEW c \in Clients, ~Idle(c), NEW new \in Conf, SetTo(c, new)
    PROVE  /\ req' \in [Clients -> Request \cup {NoRequest}]
           /\ \A d \in Clients \ {c} : req'[d] = req[d]
           /\ req'[c] \in Request /\ req'[c] # NoRequest
           /\ req'[c].op = req[c].op /\ req'[c].job = req[c].job /\ req'[c].pc = "setConf"
           /\ req'[c].conf = new
<1>1. req[c] \in Request
  BY DEF TypeOK, Idle
<1>2. [req[c] EXCEPT !.pc = "setConf", !.conf = new] \in Request
  BY <1>1 DEF Request, Pc
<1>3. req' = [req EXCEPT ![c] = [req[c] EXCEPT !.pc = "setConf", !.conf = new]]
  BY <1>1 DEF SetTo, TypeOK, Request
<1>4. \A r \in Request : r # NoRequest
  BY DEF Request, NoRequest, Op
<1>5. /\ req'[c] = [req[c] EXCEPT !.pc = "setConf", !.conf = new]
      /\ \A d \in Clients \ {c} : req'[d] = req[d]
      /\ req' \in [Clients -> Request \cup {NoRequest}]
  BY <1>2, <1>3 DEF TypeOK
<1> QED
  BY <1>1, <1>2, <1>4, <1>5 DEF Request

LEMMA GetConfFacts ==
    ASSUME TypeOK, NEW c \in Clients, GetConf(c) \/ GetRuntime(c)
    PROVE  /\ ~Idle(c) /\ req[c] \in Request
           /\ req' \in [Clients -> Request \cup {NoRequest}]
           /\ \A d \in Clients \ {c} : req'[d] = req[d]
           /\ \/ req'[c] = NoRequest
              \/ /\ req'[c] \in Request /\ req'[c] # NoRequest
                 /\ req'[c].op = req[c].op /\ req'[c].job = req[c].job
                 /\ \/ GetConf(c) /\ req[c].op = "create" /\ req'[c].pc = "getRuntime"
                    \/ /\ GetConf(c) /\ req[c].op # "create" => conf[req[c].job] # NoNode
                       /\ req'[c].pc = "setConf" /\ req'[c].conf \in Conf
                       /\ (\A j \in Jobs : Launchable(conf[j])) => Launchable(req'[c].conf)
<1>1. ~Idle(c) /\ req[c] \in Request
  BY DEF GetConf, GetRuntime, At, TypeOK, Idle
<1>2. "getRuntime" \in Pc /\ req[c].job \in JobIDs
  BY <1>1 DEF Pc, Request
<1>3. CASE GetConf(c) /\ req[c].op = "create" /\ Goto(c, "getRuntime")
  BY <1>1, <1>2, <1>3, GotoFacts
<1>4. CASE Finish(c)
  BY <1>1, <1>4, FinishFacts
<1>5. CASE (GetConf(c) => req[c].op = "create") /\ Make(c)
  <2>1. PICK new \in NewConfs : SetTo(c, new)
    BY <1>5 DEF Make
  <2> QED
    BY <1>1, <1>5, <2>1, NewConfsFit, SetToFacts
<1>6. CASE conf[req[c].job] # NoNode /\ Merge(c, conf[req[c].job]) /\ ~Finish(c)
  <2> DEFINE old == conf[req[c].job]
  <2>1. old \in Conf /\ req[c].job \in Jobs
    BY <1>2, <1>6 DEF TypeOK, Jobs
  <2>2. PICK b \in Updates : Mergeable(old, b) /\ SetTo(c, Merged(old, b))
    BY <1>6 DEF Merge
  <2>3. Merged(old, b) \in Conf /\ (Launchable(old) => Launchable(Merged(old, b)))
    BY <2>1, <2>2, MergedFits
  <2> QED
    BY <1>1, <1>6, <2>1, <2>2, <2>3, SetToFacts
<1> QED
  BY <1>3, <1>4, <1>5, <1>6 DEF GetConf, GetRuntime

(* The request of c ends, or goes on at one of the given calls.            *)
Moved(c, pcs) ==
    /\ ~Idle(c) /\ req[c] \in Request
    /\ req' \in [Clients -> Request \cup {NoRequest}]
    /\ \A d \in Clients \ {c} : req'[d] = req[d]
    /\ \/ req'[c] = NoRequest
       \/ /\ req'[c] \in Request /\ req'[c] # NoRequest
          /\ req'[c].op = req[c].op /\ req'[c].job = req[c].job
          /\ req'[c].pc \in pcs

LEMMA MovedByGoto ==
    ASSUME TypeOK, NEW c \in Clients, ~Idle(c), NEW pc \in Pc, Goto(c, pc)
    PROVE  Moved(c, {pc})
  BY GotoFacts DEF Moved

LEMMA MovedByFinish ==
    ASSUME TypeOK, NEW c \in Clients, ~Idle(c), Finish(c)
    PROVE  Moved(c, {}) /\ req'[c] = NoRequest
  BY FinishFacts DEF Moved, TypeOK, Idle

LEMMA MovedByContinue ==
    ASSUME TypeOK, NEW c \in Clients, ~Idle(c), NEW pc \in Pc \cup {"answer"}, Continue(c, pc)
    PROVE  Moved(c, {pc} \ {"answer"})
  BY ContinueFacts DEF Moved

LEMMA WriteMoved ==
    ASSUME TypeOK, NEW c \in Clients
    PROVE  /\ GetRuntime(c) => Moved(c, {"setConf"})
           /\ SetConf(c) => Moved(c, IF conf[req[c].job] = NoNode THEN {"createConf"}
                                     ELSE IF req[c].op = "create" THEN {"setRuntime"} ELSE {})
           /\ CreateConf(c) => Moved(c, IF conf[req[c].job] # NoNode THEN {}
                                        ELSE IF req[c].op = "create" THEN {"setRuntime"} ELSE {})
           /\ SetRuntime(c) => Moved(c, IF runtime[req[c].job] = NoNode
                                        THEN {"createRuntime"} ELSE {})
           /\ CreateRuntime(c) => Moved(c, {})
<1> USE DEF At
<1>1. {"setConf", "createConf", "setRuntime", "createRuntime"} \subseteq Pc
  BY DEF Pc
<1>2. GetRuntime(c) => Moved(c, {"setConf"})
  BY GetConfFacts DEF Moved, GetConf, GetRuntime
<1>3. SetConf(c) => Moved(c, IF conf[req[c].job] = NoNode THEN {"createConf"}
                             ELSE IF req[c].op = "create" THEN {"setRuntime"} ELSE {})
  BY <1>1, MovedByGoto, MovedByFinish DEF SetConf, AfterConf, Continue
<1>4. CreateConf(c) => Moved(c, IF conf[req[c].job] # NoNode THEN {}
                                ELSE IF req[c].op = "create" THEN {"setRuntime"} ELSE {})
  BY <1>1, MovedByGoto, MovedByFinish DEF CreateConf, AfterConf, Continue
<1>5. SetRuntime(c) => Moved(c, IF runtime[req[c].job] = NoNode THEN {"createRuntime"} ELSE {})
  BY <1>1, MovedByGoto, MovedByFinish DEF SetRuntime
<1>6. CreateRuntime(c) => Moved(c, {})
  BY MovedByFinish DEF CreateRuntime
<1> QED
  BY <1>2, <1>3, <1>4, <1>5, <1>6

LEMMA TaskMoved ==
    ASSUME TypeOK, NEW c \in Clients,
           CreateTask(c) \/ CreateDir(c) \/ CreateTaskAgain(c) \/ CallFails(c)
    PROVE  Moved(c, {"createDir", "createTaskAgain", "setRuntime"})
<1>1. {"createDir", "createTaskAgain", "setRuntime"} \subseteq Pc
  BY DEF Pc
<1>2. ~Idle(c)
  BY DEF CreateTask, CreateDir, CreateTaskAgain, CallFails, At
<1>3. \/ Goto(c, "createDir") \/ Goto(c, "createTaskAgain")
      \/ Goto(c, "setRuntime") \/ Finish(c)
  BY DEF CreateTask, CreateDir, CreateTaskAgain, CallFails, Continue, AfterTask
<1>4. CASE Finish(c)
  BY <1>2, <1>4, MovedByFinish DEF Moved
<1>5. CASE \/ Goto(c, "createDir") \/ Goto(c, "createTaskAgain") \/ Goto(c, "setRuntime")
  BY <1>1, <1>2, <1>5, GotoFacts DEF Moved
<1> QED
  BY <1>3, <1>4, <1>5

LEMMA DeleteMoved ==
    ASSUME TypeOK, NEW c \in Clients
    PROVE  /\ ListTasks(c) \/ ListOldTasks(c) \/ DeleteTask(c) => Moved(c, {"deleteTasks"})
           /\ DeleteDir(c) => Moved(c, {"deleteRuntime"})
           /\ DeleteRuntime(c) => Moved(c, {"deleteConf"})
           /\ DeleteConf(c) \/ CleanedUp(c) => Moved(c, {})
<1> USE DEF At
<1>1. {"deleteTasks", "deleteRuntime", "deleteConf"} \subseteq Pc
  BY DEF Pc
<1>2. ASSUME ~Idle(c) PROVE /\ req[c] \in Request /\ req[c].todo \in SUBSET Tasks
                            /\ req[c].job \in JobIDs
  BY <1>2 DEF TypeOK, Idle, Request
<1>3. \A j \in JobIDs : tasks[j] # NoNode => tasks[j] \in SUBSET Tasks
  BY DEF TypeOK
<1>4. ASSUME ListTasks(c) PROVE Moved(c, {"deleteTasks"})
  <2>1. (IF tasks[req[c].job] = NoNode THEN {} ELSE tasks[req[c].job]) \in SUBSET Tasks
    BY <1>2, <1>3, <1>4 DEF ListTasks
  <2> QED
    BY <1>4, <2>1, TodoFacts DEF ListTasks, Moved
<1>5. ASSUME ListOldTasks(c) PROVE Moved(c, {"deleteTasks"})
  <2>1. CASE Finish(c)
    BY <1>5, <2>1, MovedByFinish DEF ListOldTasks, Moved
  <2>2. CASE ~Finish(c)
    <3>1. PICK old \in SUBSET Tasks :
            req' = [req EXCEPT ![c].pc = "deleteTasks", ![c].todo = old]
      BY <1>2, <1>3, <1>5, <2>2 DEF ListOldTasks
    <3> QED
      BY <1>5, <3>1, TodoFacts DEF ListOldTasks, Moved
  <2> QED
    BY <2>1, <2>2
<1>6. ASSUME DeleteTask(c) PROVE Moved(c, {"deleteTasks"})
  <2>1. PICK t \in req[c].todo : req' = [req EXCEPT ![c].todo = @ \ {t}]
    BY <1>6 DEF DeleteTask
  <2>2. req' = [req EXCEPT ![c].todo = req[c].todo \ {t}]
    BY <2>1
  <2>3. req[c].todo \ {t} \in SUBSET Tasks
    BY <1>2, <1>6 DEF DeleteTask
  <2> QED
    BY <1>6, <2>2, <2>3, TodoFacts DEF DeleteTask, Moved
<1>7. DeleteDir(c) => Moved(c, {"deleteRuntime"})
  BY <1>1, MovedByGoto, MovedByFinish DEF DeleteDir, Moved
<1>8. DeleteRuntime(c) => Moved(c, {"deleteConf"})
  BY <1>1, MovedByGoto DEF DeleteRuntime
<1>9. DeleteConf(c) \/ CleanedUp(c) => Moved(c, {})
  BY MovedByFinish DEF DeleteConf, CleanedUp
<1> QED
  BY <1>4, <1>5, <1>6, <1>7, <1>8, <1>9

(* The calls that change nodes keep their types, and leave nothing below a *)
(* job that does not exist.                                                *)
LEMMA WriteType ==
    ASSUME TypeOK, stable' \subseteq JobIDs, NEW c \in Clients,
           SetConf(c) \/ CreateConf(c) \/ SetRuntime(c) \/ CreateRuntime(c)
    PROVE  TypeOK'
<1>1. /\ req' \in [Clients -> Request \cup {NoRequest}]
      /\ req[c].job \in JobIDs /\ req[c].conf \in Conf
  BY WriteMoved DEF Moved, Request
<1>2. CASE SetConf(c) \/ CreateConf(c)
  <2>1. conf' \in [JobIDs -> Conf \cup {NoNode}]
    BY <1>1, <1>2 DEF SetConf, CreateConf, WriteConf, TypeOK
  <2>2. Jobs \subseteq Jobs'
    BY <1>1, <1>2, NoNodeAssumption DEF SetConf, CreateConf, WriteConf, TypeOK, Jobs
  <2> QED
    BY <1>1, <1>2, <2>1, <2>2 DEF SetConf, CreateConf, TypeOK, fate
<1>3. CASE SetRuntime(c) \/ CreateRuntime(c)
  <2>1. runtime' \in [JobIDs -> {"new", "saved", NoNode}]
    BY <1>1, <1>3 DEF SetRuntime, CreateRuntime, WriteRuntime, TypeOK
  <2>2. \A j \in JobIDs \ Jobs : runtime'[j] = NoNode
    BY <1>1, <1>3 DEF SetRuntime, CreateRuntime, WriteRuntime, TypeOK, Jobs
  <2>3. Jobs' = Jobs
    BY <1>3 DEF SetRuntime, CreateRuntime, Jobs
  <2>4. disturbed' \subseteq JobIDs
    BY <1>3 DEF SetRuntime, CreateRuntime, Created, TypeOK
  <2> QED
    BY <1>1, <1>3, <2>1, <2>2, <2>3, <2>4 DEF SetRuntime, CreateRuntime, TypeOK
<1> QED
  BY <1>2, <1>3

LEMMA TaskType ==
    ASSUME TypeOK, stable' \subseteq JobIDs, NEW c \in Clients,
           CreateTask(c) \/ CreateDir(c) \/ CreateTaskAgain(c)
    PROVE  TypeOK'
<1>1. /\ req' \in [Clients -> Request \cup {NoRequest}]
      /\ req[c].job \in JobIDs
  BY TaskMoved DEF Moved, Request
<1>2. UNCHANGED <<conf, runtime, list, cached, fate>>
  BY DEF CreateTask, CreateDir, CreateTaskAgain
<1>3. \/ tasks' = tasks
      \/ conf[req[c].job] # NoNode /\ tasks' = [tasks EXCEPT ![req[c].job] = {}]
      \/ tasks[req[c].job] # NoNode /\ WriteTask(c)
  BY DEF CreateTask, CreateDir, CreateTaskAgain
<1>4. /\ tasks' \in [JobIDs -> {NoNode} \cup SUBSET Tasks]
      /\ \A j \in JobIDs \ Jobs : tasks'[j] = NoNode
  <2>1. CASE tasks' = tasks
    BY <2>1 DEF TypeOK
  <2>2. CASE conf[req[c].job] # NoNode /\ tasks' = [tasks EXCEPT ![req[c].job] = {}]
    BY <1>1, <2>2 DEF TypeOK, Jobs
  <2>3. CASE tasks[req[c].job] # NoNode /\ WriteTask(c)
    <3>1. PICK t \in Tasks : tasks' = [tasks EXCEPT ![req[c].job] = @ \cup {t}]
      BY <2>3 DEF WriteTask
    <3>2. tasks[req[c].job] \in SUBSET Tasks /\ req[c].job \in Jobs
      BY <1>1, <2>3 DEF TypeOK, Jobs
    <3> QED
      BY <1>1, <3>1, <3>2 DEF TypeOK
  <2> QED
    BY <1>3, <2>1, <2>2, <2>3
<1> QED
  BY <1>1, <1>2, <1>4 DEF TypeOK, Jobs, fate

LEMMA DeleteType ==
    ASSUME TypeOK, stable' \subseteq JobIDs, NEW c \in Clients,
           DeleteTask(c) \/ DeleteDir(c) \/ DeleteRuntime(c) \/ DeleteConf(c)
    PROVE  TypeOK'
<1>1. /\ req' \in [Clients -> Request \cup {NoRequest}]
      /\ req[c].job \in JobIDs
  BY DeleteMoved DEF Moved, Request
<1>2. CASE DeleteTask(c)
  <2>1. PICK t \in req[c].todo :
          tasks' = [tasks EXCEPT ![req[c].job] = IF @ = NoNode THEN @ ELSE @ \ {t}]
    BY <1>2 DEF DeleteTask
  <2>2. /\ tasks' \in [JobIDs -> {NoNode} \cup SUBSET Tasks]
        /\ \A j \in JobIDs : tasks[j] = NoNode => tasks'[j] = NoNode
    BY <1>1, <2>1 DEF TypeOK
  <2> QED
    BY <1>1, <1>2, <2>2 DEF DeleteTask, TypeOK, Jobs, fate
<1>3. CASE DeleteDir(c)
  <2>1. /\ tasks' \in [JobIDs -> {NoNode} \cup SUBSET Tasks]
        /\ \A j \in JobIDs : tasks[j] = NoNode => tasks'[j] = NoNode
    BY <1>1, <1>3 DEF DeleteDir, TypeOK
  <2> QED
    BY <1>1, <1>3, <2>1 DEF DeleteDir, TypeOK, Jobs, fate
<1>4. CASE DeleteRuntime(c)
  BY <1>1, <1>4 DEF DeleteRuntime, TypeOK, Jobs, fate
<1>5. CASE DeleteConf(c)
  <2>1. /\ conf' \in [JobIDs -> Conf \cup {NoNode}]
        /\ \A j \in JobIDs \ Jobs' : runtime[j] = NoNode /\ tasks[j] = NoNode
    BY <1>1, <1>5 DEF DeleteConf, TypeOK, Jobs, Childless
  <2>2. removed' \subseteq JobIDs
    BY <1>1, <1>5 DEF DeleteConf, TypeOK
  <2> QED
    BY <1>1, <1>5, <2>1, <2>2 DEF DeleteConf, TypeOK
<1> QED
  BY <1>2, <1>3, <1>4, <1>5

LEMMA RequestType ==
    ASSUME TypeOK, stable' \subseteq JobIDs, NEW c \in Clients, RequestNext(c)
    PROVE  TypeOK'
<1>1. CASE \E j \in JobIDs : createJob(c, j) \/ updateJob(c, j) \/ deleteJob(c, j)
                             \/ saveRuntime(c, j) \/ addTask(c, j) \/ tasksCleanup(c, j)
  BY <1>1, BeginningFacts, BeginType DEF Begins
<1>2. CASE GetConf(c) \/ GetRuntime(c) \/ ListTasks(c) \/ ListOldTasks(c) \/ CleanedUp(c)
  <2>1. req' \in [Clients -> Request \cup {NoRequest}]
    BY <1>2, GetConfFacts, DeleteMoved DEF Moved
  <2>2. UNCHANGED <<nodes, list, cached, fate>>
    BY <1>2 DEF GetConf, GetRuntime, ListTasks, ListOldTasks, CleanedUp
  <2> QED
    BY <2>1, <2>2, ReadType DEF fate, TypeOK
<1>3. CASE CallFails(c)
  <2>1. req' \in [Clients -> Request \cup {NoRequest}] /\ req[c].job \in JobIDs
    BY <1>3, TaskMoved DEF Moved, Request
  <2> QED
    BY <1>3, <2>1, ReadType DEF CallFails, TypeOK
<1> QED
  BY <1>1, <1>2, <1>3, WriteType, TaskType, DeleteType DEF RequestNext

LEMMA ListType ==
    ASSUME TypeOK, stable' \subseteq JobIDs, ListNext
    PROVE  TypeOK'
<1> USE DEF ListUnchanged, GiveUp, NodeMissing
<1>1. NoList \in [pc : {"idle", "conf", "runtime"}, job : JobIDs \cup {NoNode},
                  todo : SUBSET JobIDs, got : SUBSET JobIDs] /\ NoList.pc = "idle"
  BY DEF NoList
<1>2. Jobs \subseteq JobIDs
  BY DEF Jobs
<1>3. /\ list' \in [pc : {"idle", "conf", "runtime"}, job : JobIDs \cup {NoNode},
                    todo : SUBSET JobIDs, got : SUBSET JobIDs]
      /\ list'.pc = "runtime" => list'.job # NoNode
      /\ cached' \subseteq JobIDs
  <2>1. CASE ListJobs
    BY <1>1, <1>2, <2>1 DEF ListJobs, TypeOK, NoList
  <2>2. CASE ReadConf
    <3>1. PICK j \in list.todo :
             IF conf[j] = NoNode
             THEN GiveUp
             ELSE /\ list' = [list EXCEPT !.pc = "runtime", !.job = j, !.todo = @ \ {j}]
                  /\ UNCHANGED cached
      BY <2>2 DEF ReadConf
    <3>2. j \in JobIDs /\ j # NoNode
      BY <3>1, NoNodeAssumption DEF TypeOK
    <3>3. CASE conf[j] = NoNode
      BY <1>1, <3>1, <3>3 DEF TypeOK
    <3>4. CASE conf[j] # NoNode
      BY <3>1, <3>2, <3>4 DEF TypeOK
    <3> QED
      BY <3>3, <3>4
  <2>3. CASE ReadRuntime
    <3>1. CASE runtime[list.job] = NoNode
      BY <1>1, <2>3, <3>1 DEF ReadRuntime, TypeOK
    <3>2. CASE runtime[list.job] # NoNode
      <4>1. list.job \in JobIDs
        BY <2>3 DEF ReadRuntime, TypeOK
      <4>2. /\ list' = [list EXCEPT !.pc = "conf", !.job = NoNode, !.got = @ \cup {list.job}]
            /\ UNCHANGED cached
        BY <2>3, <3>2 DEF ReadRuntime
      <4> QED
        BY <4>1, <4>2 DEF TypeOK
    <3> QED
      BY <3>1, <3>2
  <2>4. CASE ListFails \/ ListDone
    BY <1>1, <2>4 DEF ListFails, ListDone, TypeOK
  <2> QED
    BY <2>1, <2>2, <2>3, <2>4 DEF ListNext
<1>4. UNCHANGED <<nodes, req, fate>>
  BY DEF ListNext, ListJobs, ReadConf, ReadRuntime, ListFails, ListDone
<1> QED
  BY <1>3, <1>4 DEF TypeOK, nodes, fate, Jobs

LEMMA StableType == [Next]_vars /\ TypeOK => stable' \subseteq JobIDs
<1>1. Readable' \subseteq JobIDs
  BY DEF Readable, Jobs
<1> QED
  BY <1>1 DEF Next, vars, TypeOK

LEMMA TypeStep == TypeOK /\ [Next]_vars => TypeOK'
<1> SUFFICES ASSUME TypeOK, [Next]_vars PROVE TypeOK'
  OBVIOUS
<1>1. CASE UNCHANGED vars
  BY <1>1 DEF TypeOK, vars, nodes, fate, Jobs
<1>2. CASE Next
  BY <1>2, StableType, ListType, RequestType DEF Next
<1> QED
  BY <1>1, <1>2
-----------------------------------------------------------------------------
(* The invariant of the requests. *)

LEMMA InvInit == Init => IInv
  BY TypeInit, NoNodeAssumption
  DEF Init, IInv, PcOfOp, RemovedIsLeftAlone, UndisturbedIsWhole, Jobs, Idle

LEMMA BeginInv ==
    ASSUME IInv, TypeOK', NEW c \in Clients, NEW j \in JobIDs, NEW op \in Op, NEW pc \in Pc,
           Begins(c, j, op, pc)
    PROVE  IInv'
<1>1. /\ \A d \in Clients \ {c} : req'[d] = req[d]
      /\ req[c] = NoRequest /\ req'[c] # NoRequest
      /\ req'[c].pc = pc /\ req'[c].op = op /\ req'[c].job = j
  <2>1. req[c] = NoRequest
    BY DEF Begins, Begin, Idle
  <2> QED
    BY <2>1, BeginFacts DEF Begins, IInv
<1>2. UNCHANGED <<conf, runtime>>
  BY DEF Begins, Begin, nodes
<1>3. PcOfOp'
  BY <1>1 DEF IInv, PcOfOp, Idle, Begins
<1>4. RemovedIsLeftAlone'
  <2>1. removed' \subseteq removed /\ (op = "create" => j \notin removed')
    BY DEF Begins, Begin
  <2> QED
    BY <1>1, <1>2, <2>1 DEF IInv, RemovedIsLeftAlone, Idle, Begins
<1>5. UndisturbedIsWhole'
  <2>1. disturbed \subseteq disturbed' /\ (op = "delete" => j \in disturbed')
    BY DEF Begins, Begin
  <2>2. \A k \in JobIDs : RuntimeFollows(k) => RuntimeFollows(k)'
    BY <1>1 DEF RuntimeFollows, Idle
  <2> QED
    BY <1>1, <1>2, <2>1, <2>2 DEF IInv, UndisturbedIsWhole, Idle, Begins
<1> QED
  BY <1>3, <1>4, <1>5 DEF IInv

(* Calls that touch neither configuration nor runtime.                     *)
LEMMA QuietInv ==
    ASSUME IInv, TypeOK', NEW c \in Clients, NEW pcs, Moved(c, pcs),
           UNCHANGED <<conf, runtime, fate>>,
           req[c].pc \notin {"getConf", "setRuntime", "createRuntime"},
           "getConf" \notin pcs /\ "createConf" \notin pcs /\ "getRuntime" \notin pcs,
           "setConf" \in pcs => req[c].op = "create",
           "deleteRuntime" \in pcs \/ "deleteConf" \in pcs => req[c].op = "delete"
    PROVE  IInv'
<1>1. PcOfOp'
  BY DEF Moved, IInv, PcOfOp, Idle
<1>2. RemovedIsLeftAlone'
  BY DEF Moved, IInv, RemovedIsLeftAlone, Idle, fate
<1>3. UndisturbedIsWhole'
  <2>1. \A k \in JobIDs : RuntimeFollows(k) => RuntimeFollows(k)'
    BY DEF Moved, RuntimeFollows, Idle
  <2> QED
    BY <2>1 DEF Moved, IInv, UndisturbedIsWhole, Idle, fate
<1> QED
  BY <1>1, <1>2, <1>3 DEF IInv

LEMMA GetConfInv ==
    ASSUME IInv, TypeOK', NEW c \in Clients, GetConf(c)
    PROVE  IInv'
<1>1. UNCHANGED <<conf, runtime, fate>> /\ req[c].pc = "getConf"
  BY DEF GetConf, nodes, At
<1>2. PcOfOp'
  BY <1>1, GetConfFacts DEF IInv, PcOfOp, Idle
<1>3. RemovedIsLeftAlone'
  BY <1>1, GetConfFacts DEF IInv, RemovedIsLeftAlone, Idle, fate
<1>4. UndisturbedIsWhole'
  <2>1. \A k \in JobIDs : RuntimeFollows(k) => RuntimeFollows(k)'
    BY <1>1, GetConfFacts DEF IInv, RuntimeFollows, Idle
  <2> QED
    BY <1>1, <2>1, GetConfFacts DEF IInv, UndisturbedIsWhole, Idle, fate
<1> QED
  BY <1>2, <1>3, <1>4 DEF IInv

LEMMA SaveConfInv ==
    ASSUME IInv, TypeOK', NEW c \in Clients, NEW j, j = req[c].job,
           SetConf(c) \/ CreateConf(c)
    PROVE  IInv'
<1>1. /\ ~Idle(c) /\ req[c].pc \in {"setConf", "createConf"} /\ req[c].op \in {"create", "update"}
      /\ UNCHANGED <<runtime, fate>>
  BY DEF SetConf, CreateConf, At, IInv, PcOfOp
<1>2. j \notin removed /\ j \in JobIDs /\ req[c].conf \in Conf
  BY <1>1, WriteMoved DEF IInv, RemovedIsLeftAlone, Moved, Request
<1>3. \/ conf' = conf
      \/ conf' = [conf EXCEPT ![j] = req[c].conf]
  BY DEF SetConf, CreateConf, WriteConf
<1>4. /\ \A k \in JobIDs \ {j} : conf'[k] = conf[k]
      /\ conf[j] # NoNode => conf'[j] # NoNode
  BY <1>2, <1>3, NoNodeAssumption DEF IInv, TypeOK
<1>5. Moved(c, {"createConf", "setRuntime"})
  BY WriteMoved DEF IInv, Moved
<1>6. PcOfOp'
  BY <1>1, <1>5 DEF Moved, IInv, PcOfOp, Idle
<1>7. RemovedIsLeftAlone'
  BY <1>1, <1>2, <1>4, <1>5 DEF Moved, IInv, RemovedIsLeftAlone, Idle, fate, TypeOK
<1>8. UndisturbedIsWhole'
  <2>1. \A k \in JobIDs : RuntimeFollows(k) => RuntimeFollows(k)'
    BY <1>1, <1>5 DEF Moved, RuntimeFollows, Idle
  <2>2. \A k \in JobIDs \ disturbed : \A d \in Clients : ~Idle(d)' /\ req'[d].job = k =>
          /\ req'[d].op # "delete"
          /\ req'[d].op = "update" /\ req'[d].pc \in {"setConf", "createConf"} => conf'[k] # NoNode
    BY <1>1, <1>4, <1>5 DEF Moved, IInv, UndisturbedIsWhole, Idle
  <2>3. \A k \in JobIDs \ disturbed : conf'[k] # NoNode => runtime[k] # NoNode \/ RuntimeFollows(k)'
    <3>1. ASSUME NEW k \in JobIDs \ disturbed, k # j, conf'[k] # NoNode
          PROVE  runtime[k] # NoNode \/ RuntimeFollows(k)'
      BY <1>4, <2>1, <3>1 DEF IInv, UndisturbedIsWhole
    <3>2. ASSUME j \notin disturbed, conf'[j] # NoNode
          PROVE  runtime[j] # NoNode \/ RuntimeFollows(j)'
      <4>1. CASE conf[j] # NoNode
        BY <1>2, <2>1, <3>2, <4>1 DEF IInv, UndisturbedIsWhole
      <4>2. CASE conf[j] = NoNode
        <5>1. req[c].op = "create"
          BY <1>1, <1>2, <3>2, <4>2 DEF IInv, UndisturbedIsWhole
        <5>2. CreateConf(c) /\ Continue(c, "setRuntime")
          BY <3>2, <4>2, <5>1 DEF SetConf, CreateConf, AfterConf
        <5>3. req'[c] # NoRequest /\ req'[c].pc = "setRuntime"
              /\ req'[c].op = "create" /\ req'[c].job = j
          BY <1>1, <5>1, <5>2, ContinueFacts DEF IInv, Pc, Idle
        <5> QED
          BY <5>3 DEF RuntimeFollows, Idle
      <4> QED
        BY <4>1, <4>2
    <3> QED
      BY <3>1, <3>2
  <2> QED
    BY <1>1, <2>2, <2>3 DEF UndisturbedIsWhole, fate
<1> QED
  BY <1>6, <1>7, <1>8 DEF IInv

LEMMA SaveRuntimeInv ==
    ASSUME IInv, TypeOK', NEW c \in Clients, NEW j, j = req[c].job,
           SetRuntime(c) \/ CreateRuntime(c)
    PROVE  IInv'
<1>1. /\ ~Idle(c) /\ req[c].pc \in {"setRuntime", "createRuntime"} /\ UNCHANGED <<conf, removed>>
  BY DEF SetRuntime, CreateRuntime, At
<1>2. j \in JobIDs /\ Moved(c, {"createRuntime"})
  BY WriteMoved DEF IInv, Moved, Request
<1>3. \A k \in JobIDs : runtime[k] # NoNode => runtime'[k] # NoNode
  BY <1>2, NoNodeAssumption DEF SetRuntime, CreateRuntime, WriteRuntime, IInv, TypeOK
<1>4. \/ conf[j] = NoNode \/ runtime'[j] # NoNode
      \/ req'[c] # NoRequest /\ req'[c].pc = "createRuntime"
  <2>1. CASE SetRuntime(c) /\ runtime[j] = NoNode
    BY <1>1, <2>1, GotoFacts DEF SetRuntime, IInv, Pc
  <2>2. CASE SetRuntime(c) /\ runtime[j] # NoNode
    BY <1>3, <1>2, <2>2
  <2>3. CASE CreateRuntime(c)
    BY <1>2, <2>3, NoNodeAssumption DEF CreateRuntime, WriteRuntime, IInv, TypeOK
  <2> QED
    BY <2>1, <2>2, <2>3
<1>5. PcOfOp'
  BY <1>2 DEF Moved, IInv, PcOfOp, Idle
<1>6. RemovedIsLeftAlone'
  BY <1>1, <1>2 DEF Moved, IInv, RemovedIsLeftAlone, Idle
<1>7. \/ disturbed' = disturbed
      \/ /\ disturbed' = disturbed \ {j} /\ ~Deleting(j) /\ req'[c] = NoRequest
         /\ conf[j] # NoNode
  <2>1. CASE SetRuntime(c) /\ runtime[j] # NoNode
    BY <1>2, <2>1, MovedByFinish DEF SetRuntime, Created, At, IInv, TypeOK, Jobs
  <2>2. CASE CreateRuntime(c) /\ conf[j] # NoNode
    BY <1>2, <2>2, MovedByFinish DEF CreateRuntime, Created, At, IInv
  <2> QED
    BY <2>1, <2>2 DEF SetRuntime, CreateRuntime
<1>8. UndisturbedIsWhole'
  <2>1. ASSUME NEW k \in JobIDs, RuntimeFollows(k), k # j PROVE RuntimeFollows(k)'
    BY <1>2, <2>1 DEF Moved, RuntimeFollows, Idle
  <2>2. ASSUME RuntimeFollows(j), conf[j] # NoNode, runtime'[j] = NoNode PROVE RuntimeFollows(j)'
    <3>1. PICK d \in Clients : /\ ~Idle(d) /\ req[d].job = j /\ req[d].op = "create"
                              /\ req[d].pc \in {"setRuntime", "createRuntime"}
      BY <2>2 DEF RuntimeFollows
    <3>2. CASE d # c
      BY <1>2, <3>1, <3>2 DEF Moved, RuntimeFollows, Idle
    <3>3. CASE d = c
      BY <1>2, <1>4, <2>2, <3>1, <3>3 DEF Moved, RuntimeFollows, Idle
    <3> QED
      BY <3>2, <3>3
  <2>3. \A k \in JobIDs \ disturbed' : conf[k] # NoNode => runtime'[k] # NoNode \/ RuntimeFollows(k)'
    BY <1>3, <1>4, <1>7, <2>1, <2>2 DEF IInv, UndisturbedIsWhole
  <2>4. \A k \in JobIDs \ disturbed' : \A d \in Clients : ~Idle(d)' /\ req'[d].job = k =>
          /\ req'[d].op # "delete"
          /\ req'[d].op = "update" /\ req'[d].pc \in {"setConf", "createConf"} => conf[k] # NoNode
    BY <1>2, <1>7 DEF Moved, IInv, UndisturbedIsWhole, Idle, Deleting
  <2> QED
    BY <1>1, <2>3, <2>4 DEF UndisturbedIsWhole
<1> QED
  BY <1>5, <1>6, <1>8 DEF IInv

LEMMA DeleteInv ==
    ASSUME IInv, TypeOK', NEW c \in Clients, DeleteRuntime(c) \/ DeleteConf(c)
    PROVE  IInv'
<1> DEFINE j == req[c].job
<1>1. ~Idle(c) /\ req[c].pc \in {"deleteRuntime", "deleteConf"} /\ disturbed' = disturbed
  BY DEF DeleteRuntime, DeleteConf, At, fate
<1>2. req[c].op = "delete" /\ j \in JobIDs /\ Moved(c, {"deleteConf"})
  BY <1>1, DeleteMoved DEF IInv, PcOfOp, Moved, Request
<1>3. j \in disturbed
  BY <1>1, <1>2 DEF IInv, UndisturbedIsWhole
<1>4. \A k \in JobIDs \ {j} : conf'[k] = conf[k] /\ runtime'[k] = runtime[k]
  BY <1>2 DEF DeleteRuntime, DeleteConf, IInv, TypeOK
<1>5. PcOfOp'
  BY <1>2 DEF Moved, IInv, PcOfOp, Idle
<1>6. RemovedIsLeftAlone'
  <2>1. \A k \in removed' : k \in removed \/ (k = j /\ Childless(j) /\ DeleteConf(c) /\ ~Writing(j))
    BY <1>2 DEF DeleteRuntime, DeleteConf, Deleted, fate
  <2>2. conf[j] = NoNode => conf'[j] = NoNode
    BY <1>2 DEF DeleteRuntime, DeleteConf, IInv, TypeOK
  <2>3. \A k \in removed' : conf'[k] = NoNode
    BY <1>2, <1>4, <2>1, <2>2 DEF DeleteConf, IInv, TypeOK, RemovedIsLeftAlone
  <2>4. \A k \in removed' : \A d \in Clients :
          ~Idle(d)' /\ req'[d].job = k /\ req'[d].op \in {"create", "update"} =>
             req'[d].op = "update" /\ req'[d].pc = "getConf"
    BY <1>2, <2>1 DEF Moved, IInv, RemovedIsLeftAlone, Writing, Idle
  <2> QED
    BY <2>3, <2>4 DEF RemovedIsLeftAlone
<1>7. UndisturbedIsWhole'
  <2>1. \A k \in JobIDs : RuntimeFollows(k) => RuntimeFollows(k)'
    BY <1>1, <1>2 DEF Moved, RuntimeFollows, Idle
  <2> QED
    BY <1>1, <1>2, <1>3, <1>4, <2>1 DEF Moved, IInv, UndisturbedIsWhole, Idle
<1> QED
  BY <1>5, <1>6, <1>7 DEF IInv

LEMMA CallFailsInv ==
    ASSUME IInv, TypeOK', NEW c \in Clients, CallFails(c)
    PROVE  IInv'
<1>1. /\ UNCHANGED <<conf, runtime, removed>>
      /\ disturbed' = disturbed \cup {req[c].job}
      /\ Moved(c, {"createDir", "createTaskAgain", "setRuntime"})
  BY TaskMoved DEF CallFails, nodes, IInv
<1>2. PcOfOp'
  BY <1>1 DEF Moved, IInv, PcOfOp, Idle
<1>3. RemovedIsLeftAlone'
  <2>1. req'[c] # NoRequest => req[c].op \notin {"create", "update"} \/ req[c].pc # "getConf"
    <3>1. ASSUME req[c].pc = "getConf" PROVE req'[c] = NoRequest
      BY <3>1, FinishFacts DEF CallFails, Continue, IInv
    <3> QED
      BY <3>1
  <2> QED
    BY <1>1, <2>1 DEF Moved, IInv, RemovedIsLeftAlone, Idle
<1>4. UndisturbedIsWhole'
  <2>1. \A k \in JobIDs \ {req[c].job} : RuntimeFollows(k) => RuntimeFollows(k)'
    BY <1>1 DEF Moved, RuntimeFollows, Idle
  <2> QED
    BY <1>1, <2>1 DEF Moved, IInv, UndisturbedIsWhole, Idle
<1> QED
  BY <1>2, <1>3, <1>4 DEF IInv

LEMMA RequestInv ==
    ASSUME IInv, TypeOK', NEW c \in Clients, RequestNext(c)
    PROVE  IInv'
<1>1. CASE \E j \in JobIDs : createJob(c, j) \/ updateJob(c, j) \/ deleteJob(c, j)
                             \/ saveRuntime(c, j) \/ addTask(c, j) \/ tasksCleanup(c, j)
  BY <1>1, BeginningFacts, BeginInv
<1>2. CASE GetRuntime(c)
  <2>1. /\ Moved(c, {"setConf"}) /\ req[c].pc = "getRuntime" /\ req[c].op = "create"
        /\ UNCHANGED <<conf, runtime, fate>>
    BY <1>2, WriteMoved DEF GetRuntime, At, IInv, PcOfOp, nodes
  <2> QED
    BY <2>1, QuietInv
<1>3. CASE CreateTask(c) \/ CreateDir(c) \/ CreateTaskAgain(c)
  <2>1. /\ Moved(c, {"createDir", "createTaskAgain", "setRuntime"})
        /\ req[c].pc \in {"createTask", "createDir", "createTaskAgain"}
        /\ UNCHANGED <<conf, runtime, fate>>
    BY <1>3, TaskMoved DEF CreateTask, CreateDir, CreateTaskAgain, At, IInv
  <2> QED
    BY <2>1, QuietInv
<1>4. CASE ListTasks(c) \/ ListOldTasks(c) \/ DeleteTask(c) \/ CleanedUp(c)
  <2>1. /\ Moved(c, {"deleteTasks"}) /\ req[c].pc \in {"listTasks", "deleteTasks"}
        /\ UNCHANGED <<conf, runtime, fate>>
    BY <1>4, DeleteMoved DEF ListTasks, ListOldTasks, DeleteTask, CleanedUp, At, IInv, nodes, Moved
  <2> QED
    BY <2>1, QuietInv
<1>5. CASE DeleteDir(c)
  <2>1. /\ Moved(c, {"deleteRuntime"}) /\ req[c].pc = "deleteTasks" /\ req[c].op = "delete"
        /\ UNCHANGED <<conf, runtime, fate>>
    BY <1>5, DeleteMoved DEF DeleteDir, At, IInv
  <2> QED
    BY <2>1, QuietInv
<1> QED
  BY <1>1, <1>2, <1>3, <1>4, <1>5, GetConfInv, SaveConfInv, SaveRuntimeInv, DeleteInv, CallFailsInv
  DEF RequestNext

LEMMA InvStep == IInv /\ [Next]_vars => IInv'
<1> SUFFICES ASSUME IInv, [Next]_vars PROVE IInv'
  OBVIOUS
<1>1. TypeOK'
  BY TypeStep DEF IInv
<1>2. ASSUME UNCHANGED <<nodes, req, fate>> PROVE IInv'
  BY <1>1, <1>2 DEF IInv, PcOfOp, RemovedIsLeftAlone, UndisturbedIsWhole, RuntimeFollows, Idle,
                    nodes, fate
<1>3. CASE UNCHANGED vars
  BY <1>2, <1>3 DEF vars
<1>4. CASE ListNext
  BY <1>2, <1>4 DEF ListNext, ListJobs, ReadConf, ReadRuntime, ListFails, ListDone, ListUnchanged
<1>5. CASE \E c \in Clients : RequestNext(c)
  BY <1>1, <1>5, RequestInv
<1> QED
  BY <1>3, <1>4, <1>5 DEF Next
-----------------------------------------------------------------------------
(* Configurations. *)

(* Every configuration that is stored, or that a request is about to store, *)
(* can be launched.                                                        *)
FitInv ==
    /\ StoredIsLaunchable
    /\ \A c \in Clients : At(c, "setConf") \/ At(c, "createConf") => Launchable(req[c].conf)

LEMMA FitInit == Init => FitInv
<1> SUFFICES ASSUME Init PROVE FitInv
  OBVIOUS
<1>1. \A j \in Jobs : conf[j] \in NewConfs
  BY DEF Init, Jobs
<1>2. \A c \in Clients : Idle(c)
  BY DEF Init, Idle
<1> QED
  BY <1>1, <1>2, NewConfsFit DEF FitInv, StoredIsLaunchable, At

(* Calls of other kinds write no configuration and prepare none.           *)
LEMMA QuietFit ==
    ASSUME FitInv, NEW c \in Clients, NEW pcs, "setConf" \notin pcs, "createConf" \notin pcs,
           Moved(c, pcs), \A j \in Jobs' : j \in Jobs /\ conf'[j] = conf[j]
    PROVE  FitInv'
  BY DEF FitInv, StoredIsLaunchable, Moved, At, Idle

LEMMA SaveConfFit ==
    ASSUME TypeOK, FitInv, NEW c \in Clients, SetConf(c) \/ CreateConf(c)
    PROVE  FitInv'
<1> DEFINE j == req[c].job
<1>1. ~Idle(c) /\ j \in JobIDs /\ Launchable(req[c].conf)
  BY WriteMoved DEF SetConf, CreateConf, At, FitInv, Moved, Request
<1>2. conf' = conf \/ conf' = [conf EXCEPT ![j] = req[c].conf]
  BY DEF SetConf, CreateConf, WriteConf
<1>3. StoredIsLaunchable'
  BY <1>1, <1>2 DEF FitInv, StoredIsLaunchable, Jobs, TypeOK
<1>4. Moved(c, {"createConf", "setRuntime"})
  BY WriteMoved DEF Moved
<1>5. At(c, "createConf")' => Launchable(req'[c].conf)
  <2>1. CASE Goto(c, "createConf")
    <3>1. req'[c] = [req[c] EXCEPT !.pc = "createConf", !.conf = req[c].conf]
      BY <1>1, <2>1 DEF Goto, TypeOK, Idle, Request
    <3>2. req[c] \in Request
      BY <1>4 DEF Moved
    <3> QED
      BY <1>1, <3>1, <3>2 DEF Request
  <2>2. CASE Continue(c, AfterConf(req[c].op))
    <3>1. req'[c] = NoRequest \/ req'[c].pc = "setRuntime"
      BY <1>1, <2>2, ContinueFacts DEF AfterConf, Pc
    <3> QED
      BY <3>1 DEF At, Idle
  <2>3. CASE Finish(c)
    BY <2>3, FinishFacts DEF At, Idle
  <2> QED
    BY <2>1, <2>2, <2>3 DEF SetConf, CreateConf
<1> QED
  BY <1>3, <1>4, <1>5 DEF FitInv, Moved, At, Idle

LEMMA RequestFit ==
    ASSUME TypeOK, FitInv, NEW c \in Clients, RequestNext(c)
    PROVE  FitInv'
<1> DEFINE Kept == \A j \in Jobs' : j \in Jobs /\ conf'[j] = conf[j]
<1>1. CASE \E j \in JobIDs : createJob(c, j) \/ updateJob(c, j) \/ deleteJob(c, j)
                             \/ saveRuntime(c, j) \/ addTask(c, j) \/ tasksCleanup(c, j)
  <2>1. PICK j \in JobIDs, op \in Op, pc \in Pc : Begins(c, j, op, pc)
    BY <1>1, BeginningFacts
  <2>2. /\ \A d \in Clients \ {c} : req'[d] = req[d]
        /\ req'[c].pc = pc /\ pc \notin {"setConf", "createConf"} /\ conf' = conf
    BY <2>1, BeginFacts DEF Begins, Begin, nodes
  <2> QED
    BY <2>2 DEF FitInv, StoredIsLaunchable, Jobs, At, Idle
<1>2. CASE GetConf(c) \/ GetRuntime(c)
  <2>1. conf' = conf
    BY <1>2 DEF GetConf, GetRuntime, nodes
  <2>2. At(c, "setConf")' => Launchable(req'[c].conf)
    BY <1>2, GetConfFacts DEF FitInv, StoredIsLaunchable, At, Idle
  <2>3. ~At(c, "createConf")'
    BY <1>2, GetConfFacts DEF At, Idle
  <2>4. \A d \in Clients \ {c} : req'[d] = req[d]
    BY <1>2, GetConfFacts
  <2> QED
    BY <2>1, <2>2, <2>3, <2>4 DEF FitInv, StoredIsLaunchable, Jobs, At, Idle
<1>3. CASE SetRuntime(c) \/ CreateRuntime(c)
  <2>1. Moved(c, {"createRuntime"}) /\ conf' = conf
    BY <1>3, WriteMoved DEF Moved, SetRuntime, CreateRuntime
  <2> QED
    BY <2>1, QuietFit DEF Jobs
<1>4. CASE CreateTask(c) \/ CreateDir(c) \/ CreateTaskAgain(c) \/ CallFails(c)
  <2>1. Moved(c, {"createDir", "createTaskAgain", "setRuntime"}) /\ conf' = conf
    BY <1>4, TaskMoved DEF CreateTask, CreateDir, CreateTaskAgain, CallFails, nodes
  <2> QED
    BY <2>1, QuietFit DEF Jobs
<1>5. CASE \/ ListTasks(c) \/ ListOldTasks(c) \/ DeleteTask(c) \/ CleanedUp(c)
           \/ DeleteDir(c) \/ DeleteRuntime(c) \/ DeleteConf(c)
  <2>1. Moved(c, {"deleteTasks", "deleteRuntime", "deleteConf"}) /\ req[c].job \in JobIDs
    BY <1>5, DeleteMoved DEF Moved, Request
  <2>2. \/ conf' = conf \/ conf' = [conf EXCEPT ![req[c].job] = NoNode]
    BY <1>5 DEF ListTasks, ListOldTasks, DeleteTask, CleanedUp, DeleteDir, DeleteRuntime, DeleteConf,
                nodes
  <2>3. Kept
    BY <2>1, <2>2 DEF Jobs, TypeOK
  <2> QED
    BY <2>1, <2>3, QuietFit
<1> QED
  BY <1>1, <1>2, <1>3, <1>4, <1>5, SaveConfFit DEF RequestNext

LEMMA FitStep == TypeOK /\ FitInv /\ [Next]_vars => FitInv'
<1> SUFFICES ASSUME TypeOK, FitInv, [Next]_vars PROVE FitInv'
  OBVIOUS
<1>1. ASSUME UNCHANGED <<nodes, req>> PROVE FitInv'
  BY <1>1 DEF FitInv, StoredIsLaunchable, Jobs, At, Idle, nodes
<1>2. CASE UNCHANGED vars
  BY <1>1, <1>2 DEF vars
<1>3. CASE ListNext
  BY <1>1, <1>3 DEF ListNext, ListJobs, ReadConf, ReadRuntime, ListFails, ListDone, ListUnchanged
<1> QED
  BY <1>2, <1>3, RequestFit DEF Next
-----------------------------------------------------------------------------
(* The invariant of GetJobs. *)

LEMMA RequestLeavesList ==
    ASSUME NEW c \in Clients, RequestNext(c)
    PROVE  UNCHANGED <<list, cached>>
  BY DEF RequestNext, createJob, updateJob, deleteJob, saveRuntime, addTask, tasksCleanup, Begin,
         GetConf, GetRuntime, SetConf, CreateConf, SetRuntime, CreateRuntime, CreateTask, CreateDir,
         CreateTaskAgain, ListTasks, DeleteTask, DeleteDir, DeleteRuntime, DeleteConf, ListOldTasks,
         CleanedUp, CallFails

LEMMA ListInit == Init => ListInv
  BY TypeInit DEF Init, ListInv, ListedOrToDo, NoList

LEMMA ListStep == ListInv /\ [Next]_vars => ListInv'
<1> SUFFICES ASSUME ListInv, [Next]_vars PROVE ListInv'
  OBVIOUS
<1>1. TypeOK'
  BY TypeStep DEF ListInv
<1> USE DEF ListInv, ListedOrToDo
<1>2. CASE UNCHANGED vars
  BY <1>1, <1>2 DEF vars
<1>3. ASSUME Next PROVE list'.pc = "idle" \/ stable' = stable \cap Readable'
  BY <1>3 DEF Next
<1>4. CASE Next /\ UNCHANGED list
  BY <1>1, <1>3, <1>4
<1>5. CASE Next /\ ListNext
  <2>1. CASE ListJobs
    <3>1. list' = [pc |-> "conf", job |-> NoNode, todo |-> Jobs, got |-> {}] /\ UNCHANGED nodes
      BY <2>1 DEF ListJobs, NoList, ListUnchanged
    <3>2. Readable' \subseteq Jobs
      BY <3>1 DEF Readable, Jobs, nodes
    <3> QED
      BY <1>1, <1>3, <1>5, <3>1, <3>2
  <2>2. CASE ListFails \/ ListDone \/ GiveUp
    <3>1. list'.pc = "idle"
      BY <2>2 DEF ListFails, ListDone, GiveUp, NodeMissing, NoList
    <3> QED
      BY <1>1, <3>1
  <2>3. CASE ReadConf /\ ~GiveUp
    <3>1. PICK j \in list.todo :
             list' = [list EXCEPT !.pc = "runtime", !.job = j, !.todo = @ \ {j}]
      BY <2>3 DEF ReadConf, NodeMissing
    <3>2. NoNode \notin stable
      BY NoNodeAssumption DEF TypeOK
    <3>3. /\ list'.pc = "runtime" /\ list'.job = j
          /\ list'.todo = list.todo \ {j} /\ list'.got = list.got
          /\ list.pc = "conf" /\ list.job = NoNode
      BY <2>3, <3>1 DEF TypeOK, ReadConf
    <3> QED
      BY <1>1, <1>3, <1>5, <3>2, <3>3
  <2>4. CASE ReadRuntime /\ ~GiveUp
    <3>1. list' = [list EXCEPT !.pc = "conf", !.job = NoNode, !.got = @ \cup {list.job}]
      BY <2>4 DEF ReadRuntime, NodeMissing
    <3>2. /\ list'.pc = "conf" /\ list'.job = NoNode
          /\ list'.todo = list.todo /\ list'.got = list.got \cup {list.job}
          /\ list.pc = "runtime"
      BY <2>4, <3>1 DEF TypeOK, ReadRuntime
    <3> QED
      BY <1>1, <1>3, <1>5, <3>2
  <2> QED
    BY <1>5, <2>1, <2>2, <2>3, <2>4 DEF ListNext
<1> QED
  BY <1>2, <1>4, <1>5, RequestLeavesList DEF Next
-----------------------------------------------------------------------------
(* Nodes and requests keep their types; nothing is below a missing job.    *)
THEOREM TypeCorrect == Spec => []TypeOK
  BY TypeInit, TypeStep, PTL DEF Spec

(* What requests under way agree on with the nodes they work on            *)
(* (storage/zk/zk.go, SaveJob and DeleteJob).                              *)
THEOREM Invariance == Spec => []IInv
  BY InvInit, InvStep, PTL DEF Spec

(* A job that has been removed (zk.go, DeleteJob) is gone until somebody   *)
(* creates it again.                                                       *)
THEOREM RemovedStaysGone == Spec => []RemovedIsGone
<1>1. IInv => RemovedIsGone
  BY DEF IInv, RemovedIsLeftAlone, RemovedIsGone
<1> QED
  BY <1>1, Invariance, PTL

(* A job no deletion and no failed call has hit can be read as soon as no  *)
(* request is under way (api.go, createJob; zk.go, SaveJob).               *)
THEOREM UndisturbedStaysReadable == Spec => []UndisturbedIsReadable
<1>1. IInv => UndisturbedIsReadable
  BY DEF IInv, UndisturbedIsWhole, UndisturbedIsReadable, RuntimeFollows, AtRest, Readable, Jobs
<1> QED
  BY <1>1, Invariance, PTL

(* Of every stored configuration the scheduler can build a task, whatever  *)
(* bodies the API has merged into it (api.go, updateJob; api/model.go;     *)
(* jobsscheduler.go, newTaskInfo).                                         *)
THEOREM StoredStaysLaunchable == Spec => []StoredIsLaunchable
<1>1. FitInv => StoredIsLaunchable
  BY DEF FitInv
<1> QED
  BY <1>1, FitInit, FitStep, TypeInit, TypeStep, PTL DEF Spec

(* The cache takes over complete lists only (zk.go, GetJobs;               *)
(* jobsscheduler.go, syncJobsCache).                                       *)
THEOREM ListsAreComplete == Spec => ListIsComplete
<1>1. ListInv /\ [Next]_vars => [cached' # cached => stable \subseteq cached']_vars
  <2> SUFFICES ASSUME ListInv, Next, cached' # cached PROVE stable \subseteq cached'
    OBVIOUS
  <2>1. ListDone
    BY RequestLeavesList DEF Next, ListNext, ListJobs, ReadConf, ReadRuntime, ListFails, GiveUp, NodeMissing
  <2>2. NoNode \notin stable
    BY NoNodeAssumption DEF ListInv, TypeOK
  <2> QED
    BY <2>1, <2>2 DEF ListDone, ListInv, ListedOrToDo
<1> QED
  BY <1>1, ListInit, ListStep, PTL DEF Spec, ListIsComplete
=============================================================================
