----------------------------- MODULE Controller -----------------------------
(***************************************************************************)
(* Servers from their start to their subscription with Mesos: the nodes a  *)
(* server prepares in ZooKeeper (storage/zk, init; coordinator/zk,         *)
(* initZK), the loop of command/server.go, mesos.Run (mesos/controller.go) *)
(* and the framework identifier it keeps in storage (mesos/mesos.go).      *)
(*                                                                         *)
(* Who leads is said by Leadership, which this module extends.  A server   *)
(* that has been deposed goes on until it notices.                         *)
(***************************************************************************)
EXTENDS Leadership, Naturals, Sequences

CONSTANTS
    Ids,        \* bound: framework identifiers Mesos can give at one time
    None,       \* the empty identifier
    MaxRemovals,\* bound: frameworks Mesos removes
    Features    \* what the environment of this instance may do

AllFeatures ==
    {"depose",  \* contexts may be cancelled, turns may pass
     "astray",  \* a leader may miss what should have cancelled its context
     "crash",   \* servers may crash
     "iofail",  \* calls on ZooKeeper may fail
     "drop",    \* connections to Mesos may break
     "remove"}  \* Mesos may remove a framework

ASSUME ControllerAssumption ==
    None \notin Ids /\ MaxRemovals \in Nat /\ Features \subseteq AllFeatures

VARIABLES
    znodes,     \* the nodes that exist in ZooKeeper
    stored,     \* the identifier in the node `state`
    pc,         \* where a server is
    step,       \* of a server that starts: what it prepares next
    mem,        \* frameworkIDStore
    info,       \* the identifier in FrameworkInfo
    current,    \* the version SetFrameworkID has read is that of the node
    linked,     \* the connection of the subscription is up
    alive,      \* the frameworks Mesos knows
    removals,   \* how many it has removed (bounded by MaxRemovals)
    crew,       \* auxiliary: the framework of the last server to get through,
                \* until it is removed
    clash,      \* auxiliary: an identifier was written while another server
                \* was running its controller
    calm        \* nothing fails from now on

mesos     == <<alive, removals>>
running   == <<mem, info, current, linked>>
zookeeper == <<znodes, stored>>
history   == <<crew, clash>>
vars == <<leadership, zookeeper, pc, step, running, mesos, history, calm>>
-----------------------------------------------------------------------------
(* What a server prepares, in order: storage.init, then initZK of the      *)
(* coordinator of the cleanup and of the one of the scheduler.  Only the   *)
(* former accepts that a node was created meanwhile.  What a coordinator   *)
(* checks that this server has already prepared is left out: it is there;  *)
(* so are the nodes of the jobs, which are created as `state` is.          *)
Create(n) == [node |-> n, tolerant |-> TRUE]
Check(n) == [node |-> n, tolerant |-> FALSE]

Startup ==
    <<Create("dir"), Create("state"),
      Check("election"), Check("tasks_cleanup"), Check("mesos_scheduler")>>

Nodes == {Startup[i].node : i \in 1..Len(Startup)}

Starting == {"start", "missing"}
Running  == {"run", "subscribe", "get", "put", "up"}

TypeOK ==
    /\ LeadershipTypeOK
    /\ znodes \subseteq Nodes
    /\ stored \in Ids \cup {None}
    /\ pc \in [Servers -> Starting \cup Running \cup {"wait", "down"}]
    /\ step \in [Servers -> 1..Len(Startup)]
    /\ mem \in [Servers -> Ids \cup {None}]
    /\ info \in [Servers -> Ids \cup {None}]
    /\ current \in [Servers -> BOOLEAN]
    /\ linked \in [Servers -> BOOLEAN]
    /\ alive \subseteq Ids
    /\ removals \in 0..MaxRemovals
    /\ crew \in Ids \cup {None}
    /\ clash \in BOOLEAN
    /\ calm \in BOOLEAN

Init ==
    /\ InitLeadership
    /\ znodes = {}
    /\ stored = None
    /\ pc = [s \in Servers |-> "start"]
    /\ step = [s \in Servers |-> 1]
    /\ mem = [s \in Servers |-> None]
    /\ info = [s \in Servers |-> None]
    /\ current = [s \in Servers |-> FALSE]
    /\ linked = [s \in Servers |-> FALSE]
    /\ alive = {}
    /\ removals = 0
    /\ crew = None
    /\ clash = FALSE
    /\ calm = FALSE

May(f) == f \in Features /\ ~calm

Goto(s, from, to) == pc[s] = from /\ pc' = [pc EXCEPT ![s] = to]

(* What mesos.Run holds is gone when it returns, or the server ends.       *)
Forget(s) ==
    /\ mem' = [mem EXCEPT ![s] = None]
    /\ info' = [info EXCEPT ![s] = None]
    /\ linked' = [linked EXCEPT ![s] = FALSE]

NoVersion(s) == current' = [current EXCEPT ![s] = FALSE]

(* The process ends: log.Fatal, or a crash.                                *)
End(s) ==
    /\ pc' = [pc EXCEPT ![s] = "down"]
    /\ step' = [step EXCEPT ![s] = 1]
    /\ Gone(s)
    /\ Forget(s)

(* mesos.Run returns to the loop of the server.                            *)
Return(s) ==
    /\ pc' = [pc EXCEPT ![s] = "wait"]
    /\ IF s \in leaders THEN Stop(s) ELSE UNCHANGED leadership
    /\ Forget(s)
-----------------------------------------------------------------------------
(* A server starts.                                                        *)

Preparing(s) == Startup[step[s]]

(* Mutant: the loop over the nodes ends one too late. *)
PreparedTooLate(s) ==
    IF step[s] > Len(Startup)
    THEN pc' = [pc EXCEPT ![s] = "wait"] /\ step' = [step EXCEPT ![s] = 1]
    ELSE pc' = [pc EXCEPT ![s] = "start"] /\ step' = [step EXCEPT ![s] = @ + 1]

Prepared(s) ==
    IF step[s] = Len(Startup)
    THEN pc' = [pc EXCEPT ![s] = "wait"] /\ step' = [step EXCEPT ![s] = 1]
    ELSE pc' = [pc EXCEPT ![s] = "start"] /\ step' = [step EXCEPT ![s] = @ + 1]

(* Mutant: the state is written again by every server that starts.         *)
EmptyState(n) == IF n = "state" THEN None ELSE stored

(* The node `state` is created with an empty identifier.                   *)
StateAfter(n) == IF n = "state" /\ n \notin znodes THEN None ELSE stored

CreateNode(s) ==
    /\ pc[s] = "start" /\ Preparing(s).tolerant
    /\ znodes' = znodes \cup {Preparing(s).node}
    /\ stored' = StateAfter(Preparing(s).node)
    /\ Prepared(s)
    /\ UNCHANGED <<leadership, running, mesos, history, calm>>

CheckNode(s) ==
    /\ pc[s] = "start" /\ ~Preparing(s).tolerant
    /\ \/ /\ Preparing(s).node \in znodes
          /\ Prepared(s)
       \/ /\ Preparing(s).node \notin znodes
          /\ Goto(s, "start", "missing")
          /\ UNCHANGED step
    /\ UNCHANGED <<leadership, zookeeper, running, mesos, history, calm>>

CreateMissing(s) ==
    /\ pc[s] = "missing" /\ Preparing(s).node \notin znodes
    /\ znodes' = znodes \cup {Preparing(s).node}
    /\ Prepared(s)
    /\ UNCHANGED <<leadership, stored, running, mesos, history, calm>>

(* Another server was faster; New fails and the server ends.               *)
CreateRefused(s) ==
    /\ pc[s] = "missing" /\ Preparing(s).node \in znodes
    /\ End(s)
    /\ UNCHANGED <<zookeeper, current, mesos, history, calm>>

StartFails(s) ==
    /\ May("iofail") /\ pc[s] \in Starting
    /\ End(s)
    /\ UNCHANGED <<zookeeper, current, mesos, history, calm>>

Restart(s) ==
    /\ Goto(s, "down", "start")
    /\ UNCHANGED <<leadership, zookeeper, step, running, mesos, history, calm>>
-----------------------------------------------------------------------------
(* The election, as Leadership has it, for servers that stand for it.      *)

Standing(s) == pc[s] \notin Starting \cup {"down"}

(* Without failures a turn only passes to somebody when it is nobody's.    *)
TurnPasses(s) ==
    /\ Standing(s)
    /\ (entitled = {} \/ May("depose"))
    /\ Turn({s})
    /\ UNCHANGED <<zookeeper, pc, step, running, mesos, history, calm>>

Elected(s) ==
    /\ Goto(s, "wait", "run")
    /\ (Take(s) \/ (May("astray") /\ TakeAstray(s)))
    /\ UNCHANGED <<zookeeper, step, running, mesos, history, calm>>

Depose(s) ==
    /\ May("depose")
    /\ Stop(s)
    /\ UNCHANGED <<zookeeper, pc, step, running, mesos, history, calm>>

(* A leader that has gone astray reaches ZooKeeper again.                  *)
Told(s) ==
    /\ s \in astray
    /\ IF entitled = {s} THEN Recover(s) ELSE Stop(s)
    /\ UNCHANGED <<zookeeper, pc, step, running, mesos, history, calm>>
-----------------------------------------------------------------------------
(* mesos.Run.                                                              *)

(* Mutant: what storage has is not looked at.                              *)
FreshId == None

(* newFrameworkIDStore.                                                    *)
KnownId == stored

(* The store is filled from storage, FrameworkInfo from the store.         *)
ReadId(s) ==
    /\ Goto(s, "run", "subscribe")
    /\ mem' = [mem EXCEPT ![s] = KnownId]
    /\ info' = [info EXCEPT ![s] = KnownId]
    /\ UNCHANGED <<leadership, zookeeper, step, current, linked, mesos, history, calm>>

ReadIdFails(s) ==
    /\ May("iofail") /\ pc[s] = "run"
    /\ Return(s)
    /\ UNCHANGED <<zookeeper, step, current, mesos, history, calm>>

(* The controller sees that its context is done.                           *)
RunEnds(s) ==
    /\ pc[s] \in {"subscribe", "up"} /\ s \notin leaders
    /\ Return(s)
    /\ UNCHANGED <<zookeeper, step, current, mesos, history, calm>>

(* Mesos gives a new framework an identifier nobody refers to, whichever;  *)
(* a framework that is abandoned is as good as forgotten.                  *)
Unused ==
    Ids \ ({stored, crew} \cup {mem[s] : s \in Servers} \cup {info[s] : s \in Servers})

NewId == CHOOSE f \in Unused : TRUE

(* A framework has one connection.                                         *)
Link(s, f) ==
    linked' = [r \in Servers |-> IF r = s THEN TRUE ELSE linked[r] /\ mem[r] # f]

(* Mutant: a server goes on without storing its new identifier.            *)
KeptInMemory(s) == Goto(s, "subscribe", "up") /\ crew' = mem'[s]

(* TrackSubscription stores a new identifier and refuses one that is not   *)
(* the one it knows; the subscription ends, and all stays as it is.        *)
Tracked(s) == Goto(s, "subscribe", "get") /\ UNCHANGED crew

(* FrameworkInfo was made once: without an identifier a subscription, the  *)
(* first or a later one, registers a new framework.                        *)
Register(s) ==
    /\ s \in leaders /\ info[s] = None /\ mem[s] = None
    /\ Unused # {}
    /\ mem' = [mem EXCEPT ![s] = NewId]
    /\ Tracked(s)
    /\ Link(s, NewId)
    /\ alive' = alive \cup {NewId}
    /\ UNCHANGED <<leadership, zookeeper, step, info, current, clash, calm, removals>>

Resume(s) ==
    /\ s \in leaders /\ info[s] \in alive /\ mem[s] = info[s]
    /\ Goto(s, "subscribe", "up")
    /\ Link(s, info[s])
    /\ crew' = info[s]
    /\ UNCHANGED <<leadership, zookeeper, step, mem, info, current, mesos, clash, calm>>

(* "Framework has been removed": the identifier is reset.                  *)
Removed(s) ==
    /\ s \in leaders /\ info[s] \notin alive \cup {None}
    /\ Goto(s, "subscribe", "get")
    /\ mem' = [mem EXCEPT ![s] = None]
    /\ UNCHANGED <<leadership, zookeeper, step, info, current, linked, mesos, history, calm>>

(* The event loop ends with its connection.                                *)
Disconnected(s) ==
    /\ ~linked[s]
    /\ Goto(s, "up", "subscribe")
    /\ UNCHANGED <<leadership, zookeeper, step, running, mesos, history, calm>>
-----------------------------------------------------------------------------
(* frameworkIDStore.Set has set the identifier in memory; SetFrameworkID   *)
(* reads the node with its version and replaces that version.              *)

SetGet(s) ==
    /\ Goto(s, "get", "put")
    /\ current' = [current EXCEPT ![s] = TRUE]
    /\ UNCHANGED <<leadership, zookeeper, step, mem, info, linked, mesos, history, calm>>

(* Mutant: the run goes on with the identifier that was removed.           *)
GoOn(s) ==
    /\ pc' = [pc EXCEPT ![s] = "subscribe"]
    /\ linked' = [linked EXCEPT ![s] = FALSE]
    /\ UNCHANGED <<leadership, mem, info>>

(* After a reset the context of the run is cancelled; it returns.          *)
AfterReset(s) == Return(s)

Write(s) ==
    /\ stored' = mem[s]
    /\ clash' = (clash \/ \E r \in Servers \ {s} : pc[r] \in Running)

SetPut(s) ==
    /\ pc[s] = "put" /\ current[s]
    /\ Write(s)
    /\ current' = [r \in Servers |-> FALSE]
    /\ \/ /\ mem[s] # None
          /\ pc' = [pc EXCEPT ![s] = "up"]
          /\ crew' = IF mem[s] \in alive THEN mem[s] ELSE None
          /\ UNCHANGED <<leadership, mem, info, linked>>
       \/ /\ mem[s] = None
          /\ AfterReset(s)
          /\ UNCHANGED crew
    /\ UNCHANGED <<znodes, step, mesos, calm>>

(* Set has failed: the subscription ends, or the server if it was a reset. *)
SetFails(s) ==
    \/ /\ mem[s] # None
       /\ pc' = [pc EXCEPT ![s] = "subscribe"]
       /\ linked' = [linked EXCEPT ![s] = FALSE]
       /\ UNCHANGED <<leadership, step, mem, info>>
    \/ /\ mem[s] = None
       /\ End(s)

(* The node has another version, which is an error like any other.         *)
SetRefused(s) ==
    /\ pc[s] = "put" /\ ~current[s]
    /\ SetFails(s)
    /\ UNCHANGED <<zookeeper, current, mesos, history, calm>>

CallFails(s) ==
    /\ May("iofail") /\ pc[s] \in {"get", "put"}
    /\ SetFails(s)
    /\ NoVersion(s)
    /\ UNCHANGED <<zookeeper, mesos, history, calm>>

(* The identifier is written but the reply is lost.                        *)
SetUnheard(s) ==
    /\ May("iofail") /\ pc[s] = "put" /\ current[s]
    /\ Write(s)
    /\ SetFails(s)
    /\ current' = [r \in Servers |-> FALSE]
    /\ UNCHANGED <<znodes, mesos, crew, calm>>
-----------------------------------------------------------------------------
(* The environment.                                                        *)

Drop(s) ==
    /\ May("drop") /\ linked[s]
    /\ linked' = [linked EXCEPT ![s] = FALSE]
    /\ UNCHANGED <<leadership, zookeeper, pc, step, mem, info, current, mesos, history, calm>>

(* Torn down, or not seen for longer than the failover timeout.            *)
Remove(f) ==
    /\ May("remove") /\ f \in alive /\ removals < MaxRemovals
    /\ removals' = removals + 1
    /\ alive' = alive \ {f}
    /\ linked' = [s \in Servers |-> linked[s] /\ mem[s] # f]
    /\ crew' = IF crew = f THEN None ELSE crew
    /\ UNCHANGED <<leadership, zookeeper, pc, step, mem, info, current, clash, calm>>

Crash(s) ==
    /\ May("crash") /\ pc[s] # "down"
    /\ End(s)
    /\ NoVersion(s)
    /\ UNCHANGED <<zookeeper, mesos, history, calm>>

CalmDown ==
    /\ ~calm
    /\ calm' = TRUE
    /\ UNCHANGED <<leadership, zookeeper, pc, step, running, mesos, history>>
-----------------------------------------------------------------------------
StartNext(s) == CreateNode(s) \/ CheckNode(s) \/ CreateMissing(s) \/ CreateRefused(s)

RunNext(s) ==
    \/ ReadId(s) \/ RunEnds(s) \/ Register(s) \/ Resume(s) \/ Removed(s)
    \/ Disconnected(s) \/ SetGet(s) \/ SetPut(s)
    \/ SetRefused(s)

Next ==
    \/ \E s \in Servers :
         \/ StartNext(s) \/ RunNext(s) \/ TurnPasses(s) \/ Elected(s) \/ Told(s)
         \/ StartFails(s) \/ Restart(s) \/ Depose(s) \/ Crash(s)
         \/ ReadIdFails(s) \/ CallFails(s) \/ SetUnheard(s) \/ Drop(s)
    \/ \E f \in Ids : Remove(f)
    \/ CalmDown

Spec == Init /\ [][Next]_vars

(* Servers that can go on do, those that stand for election get their      *)
(* turn, and a leader that has gone astray is told.  Nobody is sure to     *)
(* start a server again.                                                   *)
Fairness ==
    /\ \A s \in Servers :
         WF_vars(StartNext(s) \/ Elected(s) \/ RunNext(s)) /\ WF_vars(Told(s))
    /\ WF_vars(\E s \in Servers : TurnPasses(s))

FairSpec == Spec /\ Fairness
-----------------------------------------------------------------------------
Serving(s) == pc[s] = "up" /\ linked[s]

(* Whoever is subscribed has its identifier in storage, where the next     *)
(* leader looks for it, unless controllers overlapped while one of them    *)
(* wrote (clash).                                                          *)
ServedIsStored == clash \/ \A s \in Servers : Serving(s) => stored = mem[s]

(* A framework whose tasks are there is taken over: whoever gets through   *)
(* to Mesos after another server is subscribed as the same framework,      *)
(* unless Mesos has removed it ("Mesos will wait for the framework to      *)
(* failover before killing all its tasks").  Two servers whose controllers *)
(* overlap while one of them writes can break that (clash).                *)
FrameworkInherited == [][crew' # crew => crew \notin alive' \/ clash']_vars

(* An identifier in storage is not overwritten while Mesos knows it.       *)
IdentifierKept == [][stored' # stored => stored \notin alive \/ clash']_vars

(* A run that has registered its framework itself and loses the connection *)
(* registers another one, which TrackSubscription refuses, again and again.*)
Stuck(s) ==
    s \in leaders /\ pc[s] = "subscribe" /\ info[s] = None /\ mem[s] # None

(* What makes a server end without a failure: another one is faster to      *)
(* create a node, or to write while it resets the identifier.              *)
AtRisk(s) ==
    pc[s] \in {"down", "missing"} \/ (pc[s] \in {"get", "put"} /\ mem[s] = None)

(* Whatever has happened to starts, leaders, calls and connections: once   *)
(* nothing fails any more and a server is left that is not about to lose   *)
(* such a race, some server is subscribed for good, unless it is stuck.    *)
(* In particular servers that start together do not all refuse each other. *)
Recovers ==
    (calm /\ \E s \in Servers : ~AtRisk(s))
        ~> [](\E s \in Servers : Serving(s) \/ Stuck(s))
=============================================================================
