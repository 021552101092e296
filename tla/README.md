# rhythm in TLA+

Specifications of [rhythm](../README.md), a cron-like scheduler of jobs on Apache Mesos, with the TLC runs that check
them on small instances and the TLAPS proofs of what holds on all of them. Sources are quoted relative to the
repository.

## The system

Several rhythm servers run side by side. Each serves the HTTP API (`api/api.go`), which reads and writes jobs in
ZooKeeper (`storage/zk/zk.go`). One of them is elected leader through ZooKeeper (`coordinator/zk/zk.go`) and runs the
Mesos controller (`mesos/controller.go`) until its context is cancelled. The leader keeps a cache of all jobs, answers
resource offers with tasks, applies status updates to jobs and to their history, asks Mesos about tasks it has not
heard of (`mesos/reconciliation`), and suppresses or revives offers (`mesos/offerstuner`).

| Component | State | Operations | What is hard | What makes it correct |
| --- | --- | --- | --- | --- |
| jobs scheduler (`mesos/jobsscheduler`, `mesos/handlers.go`, `model`) | `jobs`, `queuedJobs`, `bookedJobs`; the goroutines of an offer | cache synchronisation, offers, building of tasks, updates | copies of jobs taken under a lock and stored later; failing writes; updates repeated or late; a leader replaced in the middle | bounded starts per period; a task is stored before it is launched; runs reach the history; queued jobs are served; edits and deletions reach the cache |
| coordinator (`coordinator/zk`, loop in `command/server.go`) | `ticket`, `cancel`, session of the client | election, handling of session events | events race with the election; lost replies; sessions expire | at most one leader, and eventually one |
| job storage (`storage/zk`) | nodes of jobs, queue, framework identifier | node by node writes, deletions and lists | no operation is atomic, nothing is undone, writes are unconditional | a job at rest can be read; what is removed stays removed; lists are complete |
| API (`api`) | none | create, update, delete, run, read | read-modify-write requests on several servers; bodies checked by a schema and then followed without a check | whatever is stored can be run |
| reconciliation | tasks of a round, `roundQ`, `running` | start a round, hear an answer, repeat | answers dropped when nobody listens; answers that come too late | every task stored is eventually heard of |
| offers tuner | `suppressed`, tokens | rounds of SUPPRESS or REVIVE | one goroutine more per subscription, each with its own `suppressed` | no due job waits for ever with offers suppressed |
| controller, framework identifier (`mesos/controller.go`, `mesos/mesos.go`) | `frameworkIDStore`, `FrameworkInfo`, the subscription | prepare the nodes, subscribe, resubscribe, store the identifier, reset it when the framework is removed | servers that start, lead and write at the same time; subscriptions and calls fail anywhere; the identifier is in four places | the next leader takes the framework over; once nothing fails any more somebody is subscribed |
| tasks cleanup (`storage/zk`, with its own election) | none | hourly deletion of old tasks | runs beside AddTask and DeleteJob | recent tasks stay, old ones go |
| authorization (`api/auth`) | none | access level of a request | precedence of ACLs and groups | highest granted level |
| secrets, configuration, command line client, logging | none | input and output | | |

`PROJECT.json` lists every component with its status, and the hazards of the code with the properties aimed at them.

## Modules

| Module | Models |
| --- | --- |
| `JobModel` | job, runtime, `IsRetryable`, `NextRun`, `IsRunnable` (`model/model.go`), task identifiers |
| `JobsScheduler` | the scheduler of the leader with its event handlers, and storage, the reconciler and Mesos as they appear to it |
| `LongRun` | what the scheduler must do at last: `JobsScheduler` with identifiers that become free again, and the fairness that takes |
| `JobsSchedulerProofs` | theorems about `JobsScheduler` |
| `JobRuns` | abstract: the runs of jobs as a user sees them, one by one; `JobsScheduler` implements it |
| `Leadership` | abstract: who leads and whose turn it is, without tickets and sessions; `Coordinator` implements it |
| `Coordinator` | the election, one action per lock or round trip, for any number of servers |
| `CoordinatorProofs`, `CoordinatorRefinement` | theorems about `Coordinator`; the second one that it implements `Leadership` |
| `Controller` | servers from their start to their subscription: nodes prepared, the loop around the election, the framework identifier; it extends `Leadership` |
| `ControllerProofs` | theorems about `Controller` and `Leadership` |
| `JobConf` | configurations of jobs: the bodies and schemas of the API, what `createJob` and `updateJob` make of them, what `newTaskInfo` needs |
| `JobStorage` | the nodes of jobs in ZooKeeper and the requests on them, tasks cleanup included, one action per call; it extends `JobConf` |
| `JobStorageProofs` | theorems about `JobStorage` and `JobConf` |
| `Reconciliation` | the goroutine that asks Mesos about tasks, the queue of rounds, subscriptions that come and go |
| `ReconciliationProofs` | theorems about `Reconciliation` |
| `OffersTuner` | the goroutines that suppress and revive offers, one per subscription |
| `OffersTunerProofs` | theorems about `OffersTuner` |
| `Authorization` | the access levels of the three backends, and how the handlers of the API ask for them |
| `AuthorizationProofs` | theorems about `Authorization` |
| `MC...` | the instances TLC checks: symmetry, and the bounds of `MCJobStorage`; the rest is in the `.cfg` files |

The modules meet at state that one of them owns and another one sees from outside: `JobsScheduler` has storage as a
function that changes in one step (`JobStorage` shows what becomes of it call by call), and the reconciler and the offers
as an environment (`Reconciliation` and `OffersTuner` show why the fairness assumed of it is justified). To
`JobsScheduler` a change of leader is one action, `Restart`.

Two abstract specifications join modules. `Leadership` is what the rest of a server may rely on: `Coordinator` is shown
to implement it (`ImplementsLeadership`, checked and proved), and `Controller` is built on it instead of on tickets.
`JobRuns` is what a user may rely on: `JobsScheduler` is shown to implement it where runs are not requested, repeated or
lost (`RunsOneByOne`, checked and proved).

### JobModel and JobsScheduler

Time is counted in firings of the cron expression: `now` is the number of the last one, and a job that was started in
period `p` is due in `p + 1` (at once, if it failed and has retries left). `JobModel` is `model.go` under that reading.
Initially jobs are absent or at rest: never started, or started in the present period and finished since.

The state of `JobsScheduler` follows the code: `jobs`, `queuedJobs`, `bookedJobs` are the fields of `Scheduler`;
`sync` is the goroutine started by `New` with the snapshot it read before taking a lock; `loop` is the event loop, which
handles one offer or update at a time; `work[j]` is the goroutine `buildTasksForOffer` starts for job `j` with its copy
of the job; `reports[j]` are the goroutines that record a failed build of `j`, each with the value that the `err` it
shares with its parent has by now; `upd` is the update being handled, with the copy `getJob` returned. `stored`, `queue`,
`history` are what is in ZooKeeper; `mesos`, `ack`, `stream` are tasks, acknowledgements and updates under way. Every
point at which the code gives up a lock or waits for storage separates two actions: the synchronisation reads and then
merges, a goroutine builds, saves, sets, dequeues, an update is applied to a copy, set, saved and acknowledged.
Goroutines of one offer and the synchronisation interleave freely; offers and updates do not, because the controller
hands over one event at a time.

`findJobsForResources(S)` picks any set `S` of eligible jobs: which ones fit is up to the offer and to the order in which
the map is walked. The goroutines append to `tasks` without a lock (jobsscheduler.go:351); appends may be lost, so
`Accept(S)` launches any non-empty part of what was built. TASK_FAILED, TASK_KILLED and TASK_ERROR are one state, which
is how the handler treats them; an update for reconciliation is marked `recon`.

`Features` says what the environment of an instance may do (edits, immediate runs, deletions, creations, slow builds,
failing secrets, failing writes, reconciliation, redelivery, change of leader). The handlers are the same in all of
them; a run names the features its properties need to be interesting and finite.

`Restart` ends everything the old leader was doing, as a crash does. A leader that is only deposed leaves goroutines
behind that finish what they have begun; these are not modelled.

In `JobsScheduler` a job has so many identifiers for tasks, and with the last of them everything that could happen to the
job is over: enough for safety, but not for what must happen at last. `LongRun` therefore lets an identifier be drawn
again (`Reuse`) once it is `Spent`, that is when Mesos has no such task and no build or update under way names it; the
runtime of a job may still do so, but no step compares it with anything. Its steps are those of `JobsScheduler`, with two
named bounds: a job is picked only while an identifier is left, which with one identifier means after its last task is
over (`Exhausted`), and of the writes to storage only `AddTask` and `dequeueJob` fail (`RuntimeSaved`; nobody reads the
stored runtimes there, because no leader is replaced and no job created). Actions of other features are left out of it.

### Coordinator

Per server: where `WaitUntilLeader` stands (`pc`), `ticket`, `cancel`, the context it handed out, its client's session,
connection, watch and pending events. `owner` is the election directory. ZooKeeper gives up the tickets of a session
that is not renewed; the client learns of it when it connects again.

Timing is assumed in two named places. `Settled`: the goroutine of `New` handles an event before the client has
connected again. `Prompt`: a session does not time out between two adjacent statements of `WaitUntilLeader`, nor before
a pending event has been handled; the timeout is seconds, and the client notices a silent connection after two thirds of
it. Without such assumptions no election based on sessions is safe; with them the code still is not (see below).

### Leadership and Controller

In `Leadership` a server *leads* while the context `WaitUntilLeader` gave it is live, is *entitled* while it has the
lowest ticket, and has gone *astray* when it was not told what should have stopped it (finding 3). The refinement mapping
reads these off `Coordinator`: `Leads`, the owner of the lowest ticket, `missed`.

`Controller` has a server in `pc`: it prepares nodes one by one (`start`, `missing`: `Startup` is their order, first
those of `storage.init`, which accepts that a node exists by now, then those of the coordinators, which does not), waits
for its turn (`wait`), and is in `mesos.Run`: `run` reads the identifier, `subscribe` (re)subscribes, `get` and `put` are
the two calls of `SetFrameworkID`, `up` is the event loop. `stored` is the identifier in ZooKeeper, `mem` that of
`frameworkIDStore`, `info` that of `FrameworkInfo`, which is made once per run of the controller. The version of the node
is abstracted to whether what was read is still current (`current`). A server that has been deposed goes on until the
controller looks at its context, so that two of them may be inside `mesos.Run` at a time; `clash` records that one of
them wrote then. Mesos knows the frameworks in `alive`, gives new ones an identifier nobody refers to any more, and lets
a framework have one connection. `crew` is auxiliary: the framework of the last server that got through, whose tasks are
there. `CalmDown` ends all failures, which is what `Recovers` starts from.

### JobConf

A parameter fits, is zero or is wrong, and a schema lets through what `Allows` it; an image is the empty string or one
that is not; null and the zero value of Go are kept apart, because the schemas look at the decoded struct, in which a new
job has zeros and an update has nulls for what was left out. `UpdateSchema` reads as `updateJobSchema` does: null is an
image for Docker, which keeps the one it had, and none for Mesos, where `updateJob` follows the pointer. `Launchable` is
what `newTaskInfo` and `NextRun` take for granted of a stored configuration.

### JobStorage

Per job three nodes: configuration (as in `JobConf`), runtime and history. Each client executes one request, call by call
(`pc`): the requests of the API, the writes of the scheduler, and for one job the hourly cleanup, which deletes any set of
old tasks and may be cut short. `list` is `GetJobs` as the cache synchronisation uses it. Creating below a missing node
and deleting a node with children fail, as in ZooKeeper. Which body a request came with is chosen where it is used.
`removed`, `disturbed` and `stable` are auxiliary: jobs whose deletion was answered with 204, jobs that a deletion or a
failed call has hit since `createJob` last answered 204 for them, jobs that could be read ever since `GetJobs` began.

### Reconciliation

`rec[g]` is a goroutine that `Run` has started: its place in the select of `Run`, or in a round, its timer, and the
tasks the round has not heard of (`todo`). `running` and `roundQ` are the flag under the lock and the queue of capacity
one. An answer is an event of the controller's loop: the scheduler handles it, then the reconciler, which takes it only
if a goroutine is at its inner select at that moment (`Handle`). A connection that is closed takes questions and answers
with it. `phase` follows each task and its job from outside: stored, launched, over, and gone once the job knows.

### OffersTuner

`tuner[g]` is one goroutine with its variable `suppressed` and what its round has read of the jobs; `suppressed` is what
Mesos does. Jobs are abstracted to what a round compares: how late the latest one is (`delay`: not, less than
`minDelayToRevive`, more), whether one is due soon (`near`), whether one is queued. Calls fail before or after they take
effect. The limit of one REVIVE per minute is a token that may be missing (`NoToken`). A goroutine whose first call never
succeeds because the context is cancelled repeats it for ever, and so does the model.

### Authorization

`rules` are the ACLs of users and groups, looked up by project, group and `"*"`; `member` and `perms` are what the LDAP
and GitLab backends find. `req` is a request being served: a list with the levels it remembers (`lvls`), or one about a
single job. `Documented` is written from `docs/api.apib` and `docs/server_config.md`, the operators above it from the code;
the properties compare the two while access changes between the steps of a request. Names are abstracted to whether
their spelling agrees (`capitals`, `caseSensitive`); search filters, distinguished names and the bind to success or
failure and the set of groups found; what a handler does once it is let through is in `JobStorage` and `JobsScheduler`.

## Runs

| Run | Instance | Shows |
| --- | --- | --- |
| `sched_crash` | 1 job without retries, 2 tasks, 2 periods; failing secrets, change of leader, redelivery, reconciliation | `RunsPerPeriod`: starts per period stay within the schedule and the retries; `AckedIsRecorded`: Mesos forgets a task only after its run is in the history |
| `sched_pair` | 2 jobs in one offer, 1 retry, 2 tasks each; slow builds, creation | `AtMostOneTask`, though bookings expire while a goroutine waits; `LaunchRecorded`: a task reaches Mesos only after storage names it; `RunsOneByOne`: the scheduler implements `JobRuns` |
| `live_sched` | `LongRun`: 1 job, 1 task at a time, run any number of times; edits, deletion, immediate runs, failing `dequeueJob` | `ConfAdopted`, `DeletedIsEvicted`, however often goroutines and updates put copies back; `QueuedIsServed`: requests are withdrawn from storage |
| `one_task_redeliver` | 1 job, redelivery | `AtMostOneTask` violated, finding 1 |
| `report_panic` | 1 job, failing secrets | `FailureReportable` violated, finding 2 |
| `elect` | 2 servers, 3 tickets, all features | `LeaderHoldsTicket`, `ReconnectedIsClean`; `NoLostWakeup`: a server that waits will be woken; `OnlyUnheardAreOrphaned`: only a lost reply to `Create` leaves a ticket nobody knows; `LeaderElected` under fairness: once every server stays connected or is gone, somebody leads, also when a waiting server has to take over; `ImplementsLeadership`: the election implements `Leadership` |
| `elect_race` | 2 servers, expiring sessions | `AtMostOneLeader` violated, finding 3 |
| `store_write` | 3 clients and 1 job, or 1 client at a time and 2 jobs (`OneByOne`), 1 image, 1 parameter, all requests but `"record"`, failing calls | `RemovedIsGone`; `UndisturbedIsReadable`, which creating a job again restores; `StoredIsLaunchable`, whatever bodies are merged and overwritten; `ListIsComplete` |
| `framework` | 2 servers, 3 identifiers, 1 removal; crashes, depositions, leaders astray, failing calls, broken connections | `ServedIsStored`, `FrameworkInherited`, `IdentifierKept`; `Recovers` under fairness: whatever happened to starts, leaders, calls and identifiers |
| `reconcile` | 2 tasks, 2 goroutines | `AtMostOneRound`; `RoundsGoOn`: while `running` is up a round is under way or to come; `LostTaskResolved` under fairness |
| `tuner` | 2 goroutines | `OffersAreNoticed`: offers are not made behind the back of all goroutines; `LateJobGetsOffers`, `IdleIsSuppressed`, `DeposedEnds` under fairness |
| `access` | 2 projects of 1 group with 2 jobs each, 2 ACL rules or 3 GitLab permissions, 1 change per request | `AccessJustified`, `ListJustified`, `WholeProjects` |

All passing runs but `sched_pair` and `live_sched`, which repeat the module of `sched_crash`, check `TypeOK` as well.

Bounds. One job shows everything that concerns a single job; two are needed only where goroutines of one offer meet
(`sched_pair`). Two task identifiers and two periods let a job that has run become due and run again; retries multiply
the states of `sched_crash` beyond reach there, are in `sched_pair`, and are what theorem `RunsBounded` is for. One update
on its way suffices for reordering against offers, because the event loop takes them one by one. In `live_sched` one
identifier at a time is enough: each property is about what follows an edit, a deletion or a request, in whatever state
the job is, and the job can be run again as often as it is asked for; two tasks of a job at a time, which immediate runs
make possible (finding 1), are left out there.
In the election three tickets let a leader fail, the server that waits take over, and the one that has failed or another
draw once more and wait behind it. `LeaderElected` is excused by the bound only when nobody has a ticket and none is left
to be drawn (`SoldOut`). Two tasks let an answer end a round
or not, two goroutines let one start while the other ends; further goroutines would repeat them. Two tuners differ in
their beliefs in every way that matters, since each compares only its own with the jobs. With two rules every pair of
keys and subjects meets in some configuration, which is what precedence is about. Two servers and one removal are enough
for every order of a reset, a registration and the next leader's; three identifiers leave one that is unused whenever one
is stored and one abandoned. In `store_write` one image and one parameter that may not be zero are enough, because images
are only compared with the empty one and parameters are merged one by one; the theorem has any number of both. Two
constraints of `MCJobStorage` keep its dimensions apart. `FewOfAKind`: of the three clients two serve the API, and one
update is handled and one cleanup under way at a time, which is what one leader does. `OneByOne`: several clients are
busy at a time while one job is in play; with two in play one client at a time works on either of them, without
recording tasks. The first case is about requests that meet at the nodes of a job, the second about `GetJobs`, which
reads two jobs one by one while one of them comes or goes: a list that ends at a job that has gone is found out (the
mutant of `ListIsComplete`). The theorems have no such bounds.
The request `"record"` is left to the theorems, which have it: to the nodes it is a `"handle"` whose last call fails.

Deadlock is checked everywhere but in `reconcile`, which really stops (once the context is cancelled and the goroutine
has ended, nothing is left to do when all tasks are over), and in `framework`, where nothing is left to do once nothing
fails any more and a server is subscribed while the others wait for their turn.

What the runs leave out because it does not hold: `AtMostOneTask` with immediate runs, redelivery, reconciliation or
change of leader (finding 1); `LaunchRecorded` when writes fail, since the task is launched nevertheless, logged as an
error (jobsscheduler.go:353-356); `ConfAdopted` and `DeletedIsEvicted` for good while immediate runs are requested for
ever, where each of them may put an old copy back and each synchronisation removes it again: then they say "again and
again", and "for good" once the requests have ended (`Unasked`); the same race against reconciliation.

### Fairness

`LongRun` has three parts. `ProcessFairness`: goroutines that can run do (the timer of the synchronisation always fires
again). `StorageFairness`: of the times `dequeueJob` calls storage, not all but finitely many fail. `MesosFairness`: strong
fairness of the offers a job fits in; Mesos keeps making them unless they are suppressed, which `LateJobGetsOffers` shows
does not last while a job is due; strong, because a job may be booked or not runnable in between. Besides, tasks end and
their updates arrive at last, which is needed only because an identifier must become free; the code would draw another.

`Reconciliation`: goroutines run and the controller subscribes again; strong fairness says that reading storage and
calling Mesos succeed now and then, that a connection now and then outlasts a round trip, and that while the reconciler
listens, for longer and longer (the interval grows), an answer arrives and is handled now and then. `OffersTuner`: rounds
are made by a timer, so each goroutine goes on; strong fairness says that reads and calls succeed, and a token is there,
now and then. `Controller`: servers that can go on do, turns are given to servers that stand for election, and a leader
that has gone astray is told when it reaches ZooKeeper again; nobody is sure to start a server that has ended, so
`Recovers` asks for one that is left and is not about to lose a race for a node (`AtRisk`). `Coordinator`: loops, event goroutines and clients that can act do, and ZooKeeper removes the tickets of
crashed servers. `LeaderElected` is conditional on servers that from some point on stay connected or are gone for good
(`Settling`), and on no ticket being orphaned (`NoOrphans`).

## Findings

1. A job runs twice at a time although jobsscheduler.go:43-45 promises "maximum one task per job" (`one_task_redeliver`):
   a terminal update of an earlier task that is delivered again is taken for the end of the present one, since
   `HandleTaskStateUpdate` never compares task identifiers. The same promise is broken when a job is run on request while
   it runs, and when the reconciler asks for a task that is stored but not yet launched; these are listed as hazards. The
   number of starts per period remains bounded in all cases (`RunsPerPeriod`), but for starts on request.
2. The goroutine that records a failed build reads `err`, which jobsscheduler.go:353 overwrites with the outcome of
   `SaveJobRuntime`; `err.Error()` is then called on nil and the server ends (`report_panic`).
3. Two leaders: `coord.cancel` is stored after the election is decided; a disconnection handled in between is lost
   (`elect_race`). `LeaderHoldsTicket` shows that this is the only way, and `ReconnectedIsClean` that it ends when the
   client reaches ZooKeeper again.

Also seen, listed under hazards and excluded by name from the properties they would break: a ticket created without the
server hearing of it blocks the election for as long as the session is kept alive (`NoOrphans`); concurrent updates of a
job lose parameters, and an update under way undoes a deletion (`Writing`); a deletion that meets `AddTask` leaves a job
without runtime, which makes `GetJobs` fail for all jobs until it is created again (`disturbed`); a goroutine of the tuner
that takes a successful REVIVE for failed does not suppress offers again (`misled`); a leader that registered the
framework itself and loses its connection subscribes without identifier again, registers one more framework and refuses
it, for as long as it leads (`Stuck`; mesos.go:54-69 makes `FrameworkInfo` once); a controller that overlaps with its
successor's may overwrite the identifier (`clash`).

## Proofs

`JobsSchedulerProofs` proves for every set of jobs, tasks and periods and every retry limit. A theorem holds for every
set of features that its hypothesis admits; TLC shows on one job that none of them can be widened by a feature (the
counterexamples are named below).

| Theorem | States | Hypothesis on `Features` |
| --- | --- | --- |
| `TypeCorrect` | `Spec => []TypeOK` | none |
| `RunsBounded` | `Spec => []RunsPerPeriod` | no `"run"`; not both `"create"` and `"delete"`; `"savefail"` neither with `"failover"` nor with `"secretfail"` |
| `LaunchesAreRecorded` | `Spec => LaunchRecorded` | no `"savefail"`; not both `"create"` and `"delete"` |
| `RunsAreRecorded` | `Spec => []AckedIsRecorded` | no `"savefail"`, no `"delete"` |
| `OneTaskAtMost` | `Spec => []AtMostOneTask` | among `"slow"`, `"edit"`, `"create"`, `"delete"`, `"savefail"`; not both `"create"` and `"delete"` |
| `RunsImplemented` | `Spec => RunsOneByOne` | among `"slow"`, `"edit"`, `"create"` |

`BaseInv` is the part all of them share: types; the event loop handles one event at a time, so that goroutines under way
and an update exclude each other (`OneEvent`); a task that is built has not been launched before, and updates that answer
no reconciler are about tasks that were launched (`Fresh`, `Announced`); there are failures to report only where secrets
fail (`ReportsFailures`); without deletions a job with a task, a goroutine or an update is in the cache and in storage
(`Known`); without creations a job that has left the cache is gone from storage as well (`EvictedAreDeleted`).

* `RunsBounded`. `RunsPerPeriod` is not inductive. `RunsInv` says that every copy of a job that may still lead to a launch
  (in the cache, in storage, in a goroutine, in the update being handled) *accounts* for the launches made: if its last
  start is the present period, at most as many as its retry counter says, and fewer if it is still to be launched
  (`Accounts`, `Reserves`); that periods to come have no launches; that copies in storage are never ahead of what they
  account for; and that a job that is not in the cache was never launched,
  unless jobs are deleted (`UncachedIsNew`). Without the hypothesis:
  a run on request is not counted by the schedule; a job that is deleted and created again starts with a new counter; a
  new leader begins with the runtime that a failed write left behind, and the report of a failed build may end the server
  (finding 2), which brings a new leader too.
* `LaunchesAreRecorded`. `LaunchInv` adds that what a goroutine has saved is still what storage has (`SavedIsStored`): no
  edit, creation or snapshot comes between. The code launches after a failed write all the same, and a job deleted and
  created again has a new runtime in storage while its goroutine goes on.
* `RunsAreRecorded`. `RecordInv` adds that a terminal update past `addTaskHistory` has its run in the history
  (`UpdateRecorded`). Leaders may be replaced, updates repeated, builds fail. The history goes with a deleted job, and the
  code acknowledges after a failed write all the same.
* `OneTaskAtMost`. `OneTaskInv` adds that nothing is queued or reconciled (`Quiet`), that updates of a task come in order
  (`InOrder`), and that a job has at most one task under way and that one is named by the cache, unless the job was deleted
  (`OneOpen`, `OpenIsCurrent`); a synchronisation that merges an old snapshot does not break that, because it takes over
  configurations only. Each of `"run"`, `"recon"`, `"redeliver"`, `"failover"` and `"secretfail"` alone, and creation with
  deletion, makes two tasks of a job possible (finding 1).
* `RunsImplemented`. A step of the scheduler starts runs of `JobRuns`, records or forgets one, or is invisible. `RunInv` joins
  the last two invariants and adds that a task in the history has been launched before (`HistoryLaunched`), so that one that
  is built is not there yet. A failed write loses a run that should be recorded, and a deletion takes the history away.

`CoordinatorProofs` and `CoordinatorRefinement` prove for every number of servers and tickets and all features of the
environment:

* `ElectionTyped`: `Spec => []TypeOK`.
* `LeaderIsLowest`: `Spec => []LeaderHoldsTicket`; from it `OneLeader`: two servers lead only if one of them missed a
  disconnection before it stored `coord.cancel` (finding 3).
* `LeaderIsClean`: `Spec => []ReconnectedIsClean`.
* `WaitersAreWoken`: `Spec => []NoLostWakeup`. `WatchesInv` adds that a watch which has not fired belongs to the directory
  as it was read, so that every ticket that was lower then and is gone by now has fired it, and that the watches of a
  session that is gone have fired. With it the liveness of the election, which only TLC checks, rests on no lost wakeup.
* `TicketsAreKnown`: `Spec => OnlyUnheardAreOrphaned`. `DrawsInv` adds that a server which is about to draw has no ticket, and
  one that is about to assign has the one it drew: neither an expiry handled in between nor a new term makes it draw a
  second one.
* `LeadershipImplemented`: `Spec => ImplementsLeadership`. Most actions of the election stutter; those that matter pass the
  turn (somebody joins an empty directory, a ticket goes), take or end leadership, and by `IInv` the turn never passes
  while a server leads that holds what it believes to hold.

The invariant `IInv` adds to types: tickets are drawn in order and their owners have a session (`DirInv`); a client that
is connected has nothing pending, and one whose session has expired hears of that first and of the disconnection next
(`ClientInv`); between the answer of `ChildrenW` and the decision the tickets read are still those of their owners, and
what came later is higher (`LoopInv`); a leader whose session is gone has an event pending that will stop it
(`LeadInv`). Every action changes one server and the directory; `DirStep` is what the others see of it, and
`Kept` says that their invariants survive it. The timing assumptions `Settled` and `Prompt` are guards of actions, so the
theorems hold under them.

`ReconciliationProofs` proves for every set of tasks and goroutines, from no assumption:

* `ReconcilerTyped`: `Spec => []TypeOK`; its one conjunct that is not a type says that a goroutine is in a round exactly
  while there are tasks it has not heard of.
* `OneRound`: `Spec => []AtMostOneRound`. The invariant adds that the flag `running` is up while a goroutine is under way
  (`FlagIsUp`): a new one is started only when it is down, and only the one goroutine that ends takes it down.
* `RoundsContinue`: `Spec => []RoundsGoOn`, the converse. The goroutine behind the flag sets its timer again whichever way a
  round ends, and by `OneRound` it is the only one that takes rounds from the queue.

`ControllerProofs` proves for every set of servers and identifiers, every bound and all features:

* `LeadershipIsSafe`: `LeadershipSpec => [](LeadershipTypeOK /\ OneRightful)`: what `Leadership` promises step by step is
  enough for at most one leader among those that have been told everything, and that one has the turn.
* `ElectionIsKept`: `Spec => LeadershipSpec`. Every step of `Controller` is one of `Leadership` or leaves it alone, so with
  `LeadershipImplemented` the two modules agree on what an election may do.
* `TypeCorrect`: `Spec => []TypeOK`.
* `ServedIsStoredHolds`, `IdentifierIsKept`, `FrameworkIsInherited`: the three safety properties of `framework`. The
  invariant `IInv` says that whoever is past the preparation has the node (`StatePrepared`), that what is being written is
  a new identifier of a run that was given none or the reset of one Mesos has removed (`WriteJustified`), and that without
  a clash a run knows what is stored (`StoredIsKnown`) and the framework whose tasks may be there is stored
  (`CrewIsStored`).
* `ClashIsOfStragglers`: the three hold unless there was a `clash`, and this says where a clash comes from: a server that
  runs its controller without being the rightful leader, because it was never told to stop (finding 3) or has been told
  and is not through yet. It needs that leaders are always inside `controller.Run` (`LeadersRun`).

`JobStorageProofs` proves for every set of jobs, clients, tasks, images and parameters and all features:

* `TypeCorrect`: `Spec => []TypeOK`.
* `RemovedStaysGone` and `UndisturbedStaysReadable`: `Spec => []RemovedIsGone`, `Spec => []UndisturbedIsReadable`. The
  invariant says of every request that may still write which job it can no longer harm: none that holds a configuration
  it has read is left for a removed job (`RemovedIsLeftAlone`), and a job without runtime that nothing has disturbed is
  one whose creator is about to write it (`UndisturbedIsWhole`).
* `StoredStaysLaunchable`: `Spec => []StoredIsLaunchable`. `FitInv` adds the configurations that requests are about to
  store; that schemas and merge make only such as can be launched are lemmas about `JobConf` (`NewConfsFit`,
  `MergedFits`).
* `ListsAreComplete`: `Spec => ListIsComplete`, from `ListInv`: a job that has been readable all along has been read or is
  still to be read.

`AuthorizationProofs` proves for every set of projects, jobs and groups and every configuration:

* `TypeCorrect`, `AccessIsJustified`, `ListsAreJustified`, `ProjectsAreWhole`: all properties of `access`. That the levels
  computed are those documented is a lemma on precedence; `IInv` adds that what a request remembers was documented at some
  time while it was served (`Asked`, `ListConsistent`, `UseConsistent`).

`OffersTunerProofs` proves for any number of goroutines:

* `TypeCorrect`: `Spec => []TypeOK`; it says besides types that one that was misled believes offers to be suppressed.
* `SomebodyNotices`: `Spec => []OffersAreNoticed`, which is inductive with `TypeOK`. Each goroutine knows only its own
  calls, yet the one that revived offers last believes them to be made until it suppresses them itself.

The only assumptions are those the modules name for their constants. Only model-checked: the liveness properties
(`ConfAdopted`, `DeletedIsEvicted`, `QueuedIsServed`, `LeaderElected`, `LostTaskResolved`, `LateJobGetsOffers`,
`IdleIsSuppressed`, `DeposedEnds`, `Recovers`), which are beyond the prover, as is ENABLED.

## Not modelled

Contents of tasks but for their container (`newTaskInfo` builds environment and labels; only success or failure matters
here), resources and roles of offers, parsing of cron expressions and JSON, metrics, the pages of the API that only read,
the client of Vault, the command line client, configuration, TLS and logging, which are input and output and keep no
state over time. Goroutines of the scheduler that outlive a deposed leader: `Restart` ends them as a crash does, so what
an overlap of two schedulers does to jobs is not shown; it would take two copies of `JobsScheduler` over one storage,
which is beyond TLC with more than one task. `Controller` shows what an overlap does to the framework identifier.

What is left, in this order: that overlap, on a model of jobs reduced to storage and tasks; updates of configurations as
read-modify-write with a property for what is lost (api.go:378-456; today it is a hazard without property, because the
code promises nothing); a version of `JobRuns` that also allows for requested and repeated runs.
