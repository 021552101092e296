-------------------------- MODULE ControllerProofs --------------------------
(***************************************************************************)
(* Proofs about Controller for every set of servers and identifiers, every *)
(* bound and every choice of Features.                                     *)
(***************************************************************************)
EXTENDS Controller, TLAPS

(* Servers inside controller.Run.                                          *)
Tracking == {"subscribe", "get", "put", "up"}

(* The node `state` is created with an empty identifier.                   *)
EmptyUntilCreated == "state" \notin znodes => stored = None

(* Whoever has prepared the node `state` has it.                           *)
StatePrepared ==
    \A s \in Servers :
        pc[s] \notin Starting \cup {"down"} \/ step[s] > 2 => "state" \in znodes

(* What is being written is a new identifier, of a run that was given      *)
(* none, or the reset of one that Mesos has removed.                       *)
WriteJustified ==
    \A s \in Servers : pc[s] \in {"get", "put"} =>
        IF mem[s] = None THEN info[s] \in Ids \ alive ELSE info[s] = None

(* Without a clash a run knows what is stored.                             *)
StoredIsKnown ==
    clash \/ \A s \in Servers : pc[s] \in Tracking =>
        /\ info[s] # None => info[s] = stored
        /\ pc[s] = "up" => mem[s] = stored
        /\ pc[s] = "subscribe" /\ info[s] = None /\ mem[s] = None => stored = None
        /\ pc[s] \in {"get", "put"} /\ mem[s] # None => stored = None

(* Without a clash the framework whose tasks may be there is stored.       *)
CrewIsStored == crew # None => crew \in alive /\ (clash \/ stored = crew)

IInv ==
    /\ TypeOK
    /\ EmptyUntilCreated
    /\ StatePrepared
    /\ WriteJustified
    /\ StoredIsKnown
    /\ CrewIsStored
-----------------------------------------------------------------------------
(* What a server prepares.                                                 *)
LEMMA StartupFacts ==
    /\ Len(Startup) = 5
    /\ Startup[1] = Create("dir") /\ Startup[2] = Create("state")
    /\ Startup[3] = Check("election") /\ Startup[4] = Check("tasks_cleanup")
    /\ Startup[5] = Check("mesos_scheduler")
    /\ \A i \in 1..5 : Startup[i].node \in Nodes
    /\ \A i \in 1..5 : Startup[i].node = "state" <=> i = 2
<1>1. /\ Len(Startup) = 5
      /\ Startup[1] = Create("dir") /\ Startup[2] = Create("state")
      /\ Startup[3] = Check("election") /\ Startup[4] = Check("tasks_cleanup")
      /\ Startup[5] = Check("mesos_scheduler")
  BY DEF Startup
<1>2. \A i \in 1..5 : i \in {1, 2, 3, 4, 5}
  OBVIOUS
<1>3. \A i \in 1..5 : Startup[i].node \in Nodes
  BY <1>1 DEF Nodes
<1>4. \A i \in 1..5 : Startup[i].node = "state" <=> i = 2
  BY <1>1, <1>2 DEF Create, Check
<1> QED
  BY <1>1, <1>3, <1>4

(* A new framework has an identifier nobody refers to.                     *)
LEMMA NewIdIsUnused ==
    Unused # {} =>
        /\ NewId \in Ids /\ NewId # stored /\ NewId # crew
        /\ \A s \in Servers : NewId # mem[s] /\ NewId # info[s]
  BY DEF NewId, Unused

(* Taking over, stopping and leaving keep the election well typed.         *)
LEMMA LeadershipType ==
    ASSUME LeadershipTypeOK, NEW s \in Servers,
           Turn({s}) \/ Take(s) \/ TakeAstray(s) \/ Recover(s) \/ Stop(s) \/ Gone(s)
             \/ UNCHANGED leadership
    PROVE  LeadershipTypeOK'
  BY DEF LeadershipTypeOK, Turns, Turn, Take, TakeAstray, Recover, Stop, Gone, leadership

(* A server that ends or returns from mesos.Run leaves everything typed.   *)
LEMMA EndType ==
    ASSUME TypeOK, NEW s \in Servers, End(s)
    PROVE  /\ LeadershipTypeOK'
           /\ pc' \in [Servers -> Starting \cup Running \cup {"wait", "down"}]
           /\ step' \in [Servers -> 1..Len(Startup)]
           /\ mem' \in [Servers -> Ids \cup {None}]
           /\ info' \in [Servers -> Ids \cup {None}]
           /\ linked' \in [Servers -> BOOLEAN]
<1>1. LeadershipTypeOK'
  BY LeadershipType DEF End, TypeOK
<1>2. 1 \in 1..Len(Startup)
  BY StartupFacts
<1> QED
  BY <1>1, <1>2 DEF End, Forget, TypeOK

LEMMA ReturnType ==
    ASSUME TypeOK, NEW s \in Servers, Return(s)
    PROVE  /\ LeadershipTypeOK'
           /\ pc' \in [Servers -> Starting \cup Running \cup {"wait", "down"}]
           /\ mem' \in [Servers -> Ids \cup {None}]
           /\ info' \in [Servers -> Ids \cup {None}]
           /\ linked' \in [Servers -> BOOLEAN]
  BY LeadershipType DEF Return, Forget, TypeOK

LEMMA SetFailsType ==
    ASSUME TypeOK, NEW s \in Servers, SetFails(s)
    PROVE  /\ LeadershipTypeOK'
           /\ pc' \in [Servers -> Starting \cup Running \cup {"wait", "down"}]
           /\ step' \in [Servers -> 1..Len(Startup)]
           /\ mem' \in [Servers -> Ids \cup {None}]
           /\ info' \in [Servers -> Ids \cup {None}]
           /\ linked' \in [Servers -> BOOLEAN]
<1>1. CASE End(s)
  BY <1>1, EndType
<1>2. CASE ~End(s)
  BY <1>2, LeadershipType DEF SetFails, TypeOK, Running
<1> QED
  BY <1>1, <1>2

LEMMA PreparedType ==
    ASSUME TypeOK, NEW s \in Servers, Prepared(s)
    PROVE  /\ pc' \in [Servers -> Starting \cup Running \cup {"wait", "down"}]
           /\ step' \in [Servers -> 1..Len(Startup)]
  BY StartupFacts DEF Prepared, TypeOK, Starting
-----------------------------------------------------------------------------
LEMMA TypeInit == Init => TypeOK
<1> SUFFICES ASSUME Init PROVE TypeOK
  OBVIOUS
<1>1. LeadershipTypeOK
  BY DEF Init, InitLeadership, LeadershipTypeOK, Turns
<1>2. 1 \in 1..Len(Startup) /\ 0 \in 0..MaxRemovals
  BY StartupFacts, ControllerAssumption
<1> QED
  BY <1>1, <1>2 DEF Init, TypeOK, Starting

LEMMA StartType ==
    ASSUME TypeOK, NEW s \in Servers, StartNext(s) \/ StartFails(s) \/ Restart(s)
    PROVE  TypeOK'
<1> USE DEF TypeOK
<1>1. CASE CreateNode(s)
  BY <1>1, PreparedType, StartupFacts, LeadershipType
  DEF CreateNode, Preparing, StateAfter, running, mesos, history
<1>2. CASE CheckNode(s)
  BY <1>2, PreparedType, LeadershipType
  DEF CheckNode, Goto, zookeeper, running, mesos, history, Starting
<1>3. CASE CreateMissing(s)
  BY <1>3, PreparedType, StartupFacts, LeadershipType
  DEF CreateMissing, Preparing, running, mesos, history
<1>4. CASE CreateRefused(s) \/ StartFails(s)
  BY <1>4, EndType DEF CreateRefused, StartFails, zookeeper, mesos, history
<1>5. CASE Restart(s)
  BY <1>5, LeadershipType DEF Restart, Goto, zookeeper, running, mesos, history, Starting
<1> QED
  BY <1>1, <1>2, <1>3, <1>4, <1>5 DEF StartNext

LEMMA ElectionType ==
    ASSUME TypeOK, NEW s \in Servers, TurnPasses(s) \/ Elected(s) \/ Depose(s) \/ Told(s)
    PROVE  TypeOK'
<1> USE DEF TypeOK
<1>1. CASE TurnPasses(s)
  BY <1>1, LeadershipType DEF TurnPasses, zookeeper, running, mesos, history
<1>2. CASE Elected(s)
  BY <1>2, LeadershipType DEF Elected, Goto, zookeeper, running, mesos, history, Running
<1>3. CASE Depose(s) \/ Told(s)
  BY <1>3, LeadershipType DEF Depose, Told, zookeeper, running, mesos, history
<1> QED
  BY <1>1, <1>2, <1>3

LEMMA RunType ==
    ASSUME TypeOK, NEW s \in Servers,
           RunNext(s) \/ ReadIdFails(s) \/ CallFails(s) \/ SetUnheard(s)
    PROVE  TypeOK'
<1> USE DEF TypeOK
<1>1. CASE ReadId(s)
  BY <1>1, LeadershipType DEF ReadId, KnownId, Goto, zookeeper, mesos, history, Running
<1>2. CASE RunEnds(s) \/ ReadIdFails(s)
  BY <1>2, ReturnType DEF RunEnds, ReadIdFails, zookeeper, mesos, history
<1>3. CASE Register(s)
  BY <1>3, LeadershipType, NewIdIsUnused
  DEF Register, Tracked, Link, Goto, zookeeper, history, Running
<1>4. CASE Resume(s)
  BY <1>4, LeadershipType DEF Resume, Link, Goto, zookeeper, mesos, history, Running
<1>5. CASE Removed(s)
  BY <1>5, LeadershipType DEF Removed, Goto, zookeeper, mesos, history, Running
<1>6. CASE Disconnected(s)
  BY <1>6, LeadershipType DEF Disconnected, Goto, zookeeper, running, mesos, history, Running
<1>7. CASE SetGet(s)
  BY <1>7, LeadershipType DEF SetGet, Goto, zookeeper, mesos, history, Running
<1>8. CASE SetPut(s)
  <2>1. CASE mem[s] # None
    BY <1>8, <2>1, LeadershipType DEF SetPut, Write, mesos, Running
  <2>2. CASE mem[s] = None
    BY <1>8, <2>2, ReturnType DEF SetPut, Write, AfterReset, mesos
  <2> QED
    BY <2>1, <2>2
<1>9. CASE SetRefused(s) \/ CallFails(s)
  BY <1>9, SetFailsType DEF SetRefused, CallFails, NoVersion, zookeeper, mesos, history
<1>10. CASE SetUnheard(s)
  BY <1>10, SetFailsType DEF SetUnheard, Write, mesos
<1> QED
  BY <1>1, <1>2, <1>3, <1>4, <1>5, <1>6, <1>7, <1>8, <1>9, <1>10 DEF RunNext

LEMMA EnvironmentType ==
    ASSUME TypeOK,
           \/ \E s \in Servers : Drop(s) \/ Crash(s)
           \/ \E f \in Ids : Remove(f)
           \/ CalmDown
    PROVE  TypeOK'
<1> USE DEF TypeOK
<1>1. ASSUME NEW s \in Servers, Drop(s) PROVE TypeOK'
  BY <1>1, LeadershipType DEF Drop, zookeeper, mesos, history
<1>2. ASSUME NEW s \in Servers, Crash(s) PROVE TypeOK'
  BY <1>2, EndType DEF Crash, NoVersion, zookeeper, mesos, history
<1>3. ASSUME NEW f \in Ids, Remove(f) PROVE TypeOK'
  BY <1>3, ControllerAssumption DEF Remove, LeadershipTypeOK, leadership, zookeeper, history
<1>4. ASSUME CalmDown PROVE TypeOK'
  BY <1>4 DEF CalmDown, LeadershipTypeOK, leadership, zookeeper, running, mesos, history
<1> QED
  BY <1>1, <1>2, <1>3, <1>4

LEMMA TypeStep == TypeOK /\ [Next]_vars => TypeOK'
<1> SUFFICES ASSUME TypeOK, [Next]_vars PROVE TypeOK'
  OBVIOUS
<1>1. CASE UNCHANGED vars
  BY <1>1 DEF TypeOK, LeadershipTypeOK, vars, leadership, zookeeper, running, mesos, history
<1>2. CASE Next
  BY <1>2, StartType, ElectionType, RunType, EnvironmentType DEF Next
<1> QED
  BY <1>1, <1>2
-----------------------------------------------------------------------------
LEMMA InvInit == Init => IInv
  BY TypeInit DEF Init, IInv, EmptyUntilCreated, StatePrepared, WriteJustified,
                  StoredIsKnown, CrewIsStored, Starting, Tracking

(* A server that does not track a subscription changes nothing the rest of *)
(* the invariant says of the identifiers.                                  *)
LEMMA StartInv ==
    ASSUME IInv, TypeOK', NEW s \in Servers, StartNext(s) \/ StartFails(s) \/ Restart(s)
    PROVE  IInv'
<1> USE DEF IInv
<1>1. step[s] \in 1..5 /\ step'[s] \in 1..5
  BY StartupFacts DEF TypeOK
<1>2. EmptyUntilCreated' /\ StatePrepared' /\ stored' = stored
  <2>1. CASE CreateNode(s)
    <3>1. Preparing(s).node = "state" <=> step[s] = 2
      BY <1>1, StartupFacts DEF Preparing
    <3>2. stored' = stored
      BY <2>1 DEF CreateNode, StateAfter, EmptyUntilCreated
    <3>3. EmptyUntilCreated'
      BY <2>1, <3>2 DEF CreateNode, EmptyUntilCreated
    <3>4. StatePrepared'
      BY <2>1, <3>1, <1>1, StartupFacts
      DEF CreateNode, Prepared, StatePrepared, TypeOK, Starting
    <3> QED
      BY <3>2, <3>3, <3>4
  <2>2. CASE CheckNode(s) \/ CreateMissing(s)
    <3>1. Preparing(s).node = "state" <=> step[s] = 2
      BY <1>1, StartupFacts DEF Preparing
    <3>2. step[s] > 2 \/ step[s] = 2 \/ step[s] = 1
      BY <1>1
    <3>3. "state" \in znodes \/ step[s] <= 2
      BY <2>2, <3>2 DEF StatePrepared, CheckNode, CreateMissing, Starting
    <3>4. znodes \subseteq znodes' /\ stored' = stored
      BY <2>2 DEF CheckNode, CreateMissing, zookeeper
    <3>5. EmptyUntilCreated'
      BY <3>4 DEF EmptyUntilCreated
    <3>6. StatePrepared'
      BY <2>2, <3>1, <3>3, <3>4, <1>1, StartupFacts
      DEF CheckNode, CreateMissing, Goto, Prepared, StatePrepared, TypeOK, Starting, zookeeper
    <3> QED
      BY <3>4, <3>5, <3>6
  <2>3. CASE CreateRefused(s) \/ StartFails(s)
    <3>1. /\ pc'[s] = "down" /\ step'[s] = 1 /\ UNCHANGED zookeeper
          /\ \A r \in Servers \ {s} : pc'[r] = pc[r] /\ step'[r] = step[r]
      BY <2>3 DEF CreateRefused, StartFails, End, TypeOK
    <3> QED
      BY <3>1 DEF EmptyUntilCreated, StatePrepared, zookeeper
  <2>4. CASE Restart(s)
    <3>1. /\ pc[s] = "down" /\ UNCHANGED <<zookeeper, step>>
          /\ \A r \in Servers \ {s} : pc'[r] = pc[r]
          /\ pc'[s] \in Starting
      BY <2>4 DEF Restart, Goto, TypeOK, Starting
    <3> QED
      BY <3>1 DEF EmptyUntilCreated, StatePrepared, zookeeper
  <2> QED
    BY <2>1, <2>2, <2>3, <2>4 DEF StartNext
<1>3. /\ \A r \in Servers : pc'[r] \in Tracking =>
            r # s /\ pc'[r] = pc[r] /\ mem'[r] = mem[r] /\ info'[r] = info[r]
      /\ UNCHANGED <<alive, crew, clash>>
  <2>1. CASE CreateNode(s) \/ CheckNode(s) \/ CreateMissing(s)
    BY <2>1 DEF CreateNode, CheckNode, CreateMissing, Prepared, Goto, TypeOK, Tracking,
                running, mesos, history
  <2>2. CASE CreateRefused(s) \/ StartFails(s) \/ Restart(s)
    BY <2>2 DEF CreateRefused, StartFails, Restart, End, Forget, Goto, TypeOK, Tracking,
                running, mesos, history
  <2> QED
    BY <2>1, <2>2 DEF StartNext
<1> QED
  BY <1>2, <1>3 DEF WriteJustified, StoredIsKnown, CrewIsStored, Tracking

LEMMA ElectionInv ==
    ASSUME IInv, TypeOK', NEW s \in Servers,
           TurnPasses(s) \/ Elected(s) \/ Depose(s) \/ Told(s)
    PROVE  IInv'
<1> USE DEF IInv, EmptyUntilCreated, StatePrepared, WriteJustified, StoredIsKnown, CrewIsStored
<1>1. CASE Elected(s)
  BY <1>1 DEF Elected, Goto, TypeOK, Starting, Tracking, zookeeper, running, mesos, history
<1>2. CASE TurnPasses(s) \/ Depose(s) \/ Told(s)
  BY <1>2 DEF TurnPasses, Depose, Told, zookeeper, running, mesos, history
<1> QED
  BY <1>1, <1>2

(* A server that ends, or returns from mesos.Run, writes nothing.          *)
LEMMA EndInv ==
    ASSUME IInv, TypeOK', NEW s \in Servers, End(s) \/ (Return(s) /\ UNCHANGED step),
           pc[s] \in Running \/ End(s),
           UNCHANGED <<znodes, alive, crew>>,
           stored' = stored /\ clash' = clash
    PROVE  IInv'
<1>1. /\ pc'[s] \in {"down", "wait"}
      /\ \A r \in Servers \ {s} : pc'[r] = pc[r] /\ mem'[r] = mem[r] /\ info'[r] = info[r]
                                 /\ step'[r] = step[r]
  BY DEF IInv, TypeOK, End, Return, Forget
<1>2. StatePrepared'
  <2>1. CASE End(s)
    BY <2>1, <1>1 DEF IInv, StatePrepared, End, TypeOK
  <2>2. CASE Return(s)
    BY <2>2, <1>1 DEF IInv, StatePrepared, Running, Starting, End, Return, TypeOK
  <2> QED
    BY <2>1, <2>2
<1> QED
  BY <1>1, <1>2 DEF IInv, EmptyUntilCreated, WriteJustified, StoredIsKnown, CrewIsStored, Tracking

(* Before an identifier is written: nothing Mesos knows is in storage,     *)
(* unless there is a clash.                                                *)
LEMMA WriteReplacesNothing ==
    ASSUME IInv, NEW s \in Servers, pc[s] = "put", ~clash
    PROVE  stored \notin alive /\ crew = None
<1>1. None \notin alive
  BY ControllerAssumption DEF IInv, TypeOK
<1>2. stored \notin alive
  <2>1. CASE mem[s] = None
    <3>1. info[s] \in Ids \ alive /\ info[s] # None
      BY <2>1, ControllerAssumption DEF IInv, WriteJustified
    <3> QED
      BY <3>1 DEF IInv, StoredIsKnown, Tracking
  <2>2. CASE mem[s] # None
    BY <2>2, <1>1 DEF IInv, StoredIsKnown, Tracking
  <2> QED
    BY <2>1, <2>2
<1> QED
  BY <1>2 DEF IInv, CrewIsStored

(* After it: a clash, or no other server runs its controller.              *)
LEMMA WriteIsAlone ==
    ASSUME IInv, NEW s \in Servers, Write(s), ~clash'
    PROVE  ~clash /\ \A r \in Servers \ {s} : pc[r] \notin Tracking
  BY DEF Write, Running, Tracking, IInv, TypeOK

LEMMA WriteInv ==
    ASSUME IInv, TypeOK', NEW s \in Servers, Write(s), pc[s] = "put",
           SetPut(s) \/ SetUnheard(s)
    PROVE  IInv'
<1>1. "state" \in znodes /\ znodes' = znodes /\ alive' = alive
  BY DEF IInv, StatePrepared, Starting, SetPut, SetUnheard, mesos
<1>2. \A r \in Servers \ {s} : /\ pc'[r] = pc[r] /\ step'[r] = step[r]
                              /\ mem'[r] = mem[r] /\ info'[r] = info[r]
  BY DEF SetPut, SetUnheard, SetFails, AfterReset, Return, End, Forget, IInv, TypeOK
<1>3. CASE mem[s] # None
  <2>1. info[s] = None /\ info'[s] = None /\ mem'[s] = mem[s]
    BY <1>3 DEF IInv, WriteJustified, SetPut, SetUnheard, SetFails
  <2>2. pc'[s] \in {"up", "subscribe"}
    BY <1>3 DEF SetPut, SetUnheard, SetFails, IInv, TypeOK
  <2>3. WriteJustified' /\ StatePrepared' /\ EmptyUntilCreated'
    BY <1>1, <1>2, <2>2 DEF IInv, WriteJustified, StatePrepared, EmptyUntilCreated
  <2>4. StoredIsKnown'
    BY <1>2, <1>3, <2>1, <2>2, WriteIsAlone DEF StoredIsKnown, Write, Tracking
  <2>5. CrewIsStored'
    <3>1. CASE SetPut(s)
      BY <3>1, <1>1, <1>3 DEF CrewIsStored, SetPut, Write
    <3>2. CASE SetUnheard(s)
      BY <3>2, <1>1, WriteIsAlone, WriteReplacesNothing
      DEF IInv, CrewIsStored, SetUnheard
    <3> QED
      BY <3>1, <3>2
  <2> QED
    BY <2>3, <2>4, <2>5 DEF IInv
<1>4. CASE mem[s] = None
  <2>1. pc'[s] \in {"wait", "down"}
    BY <1>4 DEF SetPut, SetUnheard, SetFails, AfterReset, Return, End, IInv, TypeOK
  <2>2. WriteJustified' /\ StatePrepared' /\ EmptyUntilCreated'
    BY <1>1, <1>2, <2>1 DEF IInv, WriteJustified, StatePrepared, EmptyUntilCreated
  <2>3. StoredIsKnown'
    BY <1>2, <2>1, WriteIsAlone DEF StoredIsKnown, Tracking
  <2>4. crew' = crew
    BY <1>4 DEF SetPut, SetUnheard
  <2>5. CrewIsStored'
    BY <1>1, <2>4, WriteIsAlone, WriteReplacesNothing DEF IInv, CrewIsStored
  <2> QED
    BY <2>2, <2>3, <2>5 DEF IInv
<1> QED
  BY <1>3, <1>4

LEMMA RunInv ==
    ASSUME IInv, TypeOK', NEW s \in Servers,
           RunNext(s) \/ ReadIdFails(s) \/ CallFails(s) \/ SetUnheard(s)
    PROVE  IInv'
<1>1. CASE ReadId(s)
  BY <1>1 DEF ReadId, KnownId, Goto, IInv, TypeOK, EmptyUntilCreated, StatePrepared, WriteJustified,
              StoredIsKnown, CrewIsStored, Starting, Tracking, zookeeper, mesos, history
<1>2. CASE RunEnds(s) \/ ReadIdFails(s)
  BY <1>2, EndInv DEF RunEnds, ReadIdFails, zookeeper, mesos, history, Running
<1>3. CASE Register(s)
  <2>1. /\ NewId \in Ids /\ NewId # stored
        /\ \A r \in Servers : NewId # info[r]
    BY <1>3, NewIdIsUnused DEF Register
  <2>2. /\ pc[s] = "subscribe" /\ pc'[s] = "get" /\ info[s] = None /\ mem[s] = None
        /\ mem'[s] # None /\ alive' = alive \cup {NewId}
        /\ UNCHANGED <<znodes, stored, step, info, crew, clash>>
        /\ \A r \in Servers \ {s} : pc'[r] = pc[r] /\ mem'[r] = mem[r]
    BY <1>3, <2>1, ControllerAssumption DEF Register, Tracked, Goto, IInv, TypeOK, zookeeper
  <2>3. EmptyUntilCreated' /\ StatePrepared'
    BY <2>2 DEF IInv, EmptyUntilCreated, StatePrepared, Starting
  <2>4. WriteJustified'
    BY <2>1, <2>2 DEF IInv, WriteJustified
  <2>5. StoredIsKnown' /\ CrewIsStored'
    BY <2>1, <2>2 DEF IInv, StoredIsKnown, CrewIsStored, Tracking
  <2> QED
    BY <2>3, <2>4, <2>5 DEF IInv
<1>4. CASE Resume(s)
  <2>1. /\ pc[s] = "subscribe" /\ pc'[s] = "up" /\ info[s] \in alive /\ mem[s] = info[s]
        /\ crew' = info[s]
        /\ UNCHANGED <<znodes, stored, step, mem, info, alive, clash>>
        /\ \A r \in Servers \ {s} : pc'[r] = pc[r]
    BY <1>4 DEF Resume, Goto, IInv, TypeOK, zookeeper, mesos
  <2>2. clash \/ info[s] = stored
    BY <2>1, ControllerAssumption DEF IInv, TypeOK, StoredIsKnown, Tracking
  <2>3. EmptyUntilCreated' /\ StatePrepared' /\ WriteJustified'
    BY <2>1 DEF IInv, EmptyUntilCreated, StatePrepared, WriteJustified, Starting
  <2>4. StoredIsKnown' /\ CrewIsStored'
    BY <2>1, <2>2 DEF IInv, StoredIsKnown, CrewIsStored, Tracking
  <2> QED
    BY <2>3, <2>4 DEF IInv
<1>5. CASE Removed(s)
  <2>1. /\ pc[s] = "subscribe" /\ pc'[s] = "get" /\ info[s] \in Ids \ alive /\ mem'[s] = None
        /\ UNCHANGED <<znodes, stored, step, info, alive, crew, clash>>
        /\ \A r \in Servers \ {s} : pc'[r] = pc[r] /\ mem'[r] = mem[r]
    BY <1>5 DEF Removed, Goto, IInv, TypeOK, zookeeper, mesos, history
  <2> QED
    BY <2>1 DEF IInv, EmptyUntilCreated, StatePrepared, WriteJustified,
                StoredIsKnown, CrewIsStored, Starting, Tracking
<1>6. CASE Disconnected(s)
  BY <1>6 DEF Disconnected, Goto, IInv, TypeOK, EmptyUntilCreated, StatePrepared, WriteJustified,
              StoredIsKnown, CrewIsStored, Starting, Tracking, zookeeper, running, mesos, history
<1>7. CASE SetGet(s)
  BY <1>7 DEF SetGet, Goto, IInv, TypeOK, EmptyUntilCreated, StatePrepared, WriteJustified,
              StoredIsKnown, CrewIsStored, Starting, Tracking, zookeeper, mesos, history
<1>8. CASE SetPut(s) \/ SetUnheard(s)
  BY <1>8, WriteInv DEF SetPut, SetUnheard
<1>9. CASE SetRefused(s) \/ CallFails(s)
  <2>1. CASE mem[s] = None
    BY <1>9, <2>1, EndInv DEF SetRefused, CallFails, SetFails, zookeeper, mesos, history
  <2>2. CASE mem[s] # None
    <3>1. /\ pc[s] \in {"get", "put"} /\ pc'[s] = "subscribe" /\ info[s] = None
          /\ UNCHANGED <<znodes, stored, step, mem, info, alive, crew, clash>>
          /\ \A r \in Servers \ {s} : pc'[r] = pc[r]
      BY <1>9, <2>2 DEF SetRefused, CallFails, SetFails, IInv, TypeOK, WriteJustified,
                        zookeeper, mesos, history
    <3> QED
      BY <2>2, <3>1 DEF IInv, EmptyUntilCreated, StatePrepared, WriteJustified,
                        StoredIsKnown, CrewIsStored, Starting, Tracking
  <2> QED
    BY <2>1, <2>2
<1> QED
  BY <1>1, <1>2, <1>3, <1>4, <1>5, <1>6, <1>7, <1>8, <1>9 DEF RunNext

LEMMA EnvironmentInv ==
    ASSUME IInv, TypeOK',
           \/ \E s \in Servers : Drop(s) \/ Crash(s)
           \/ \E f \in Ids : Remove(f)
           \/ CalmDown
    PROVE  IInv'
<1>1. ASSUME NEW s \in Servers, Crash(s) PROVE IInv'
  BY <1>1, EndInv DEF Crash, zookeeper, mesos, history
<1>2. ASSUME NEW f \in Ids, Remove(f) PROVE IInv'
  BY <1>2, ControllerAssumption
  DEF Remove, IInv, EmptyUntilCreated, StatePrepared, WriteJustified, StoredIsKnown,
      CrewIsStored, zookeeper
<1>3. ASSUME (\E s \in Servers : Drop(s)) \/ CalmDown PROVE IInv'
  BY <1>3 DEF Drop, CalmDown, IInv, EmptyUntilCreated, StatePrepared, WriteJustified,
              StoredIsKnown, CrewIsStored, zookeeper, running, mesos, history
<1> QED
  BY <1>1, <1>2, <1>3

LEMMA InvStep == IInv /\ [Next]_vars => IInv'
<1> SUFFICES ASSUME IInv, [Next]_vars PROVE IInv'
  OBVIOUS
<1>1. TypeOK'
  BY TypeStep DEF IInv
<1>2. CASE UNCHANGED vars
  BY <1>1, <1>2 DEF IInv, EmptyUntilCreated, StatePrepared, WriteJustified, StoredIsKnown,
                    CrewIsStored, vars, zookeeper, running, mesos, history
<1>3. CASE Next
  BY <1>1, <1>3, StartInv, ElectionInv, RunInv, EnvironmentInv DEF Next
<1> QED
  BY <1>2, <1>3
-----------------------------------------------------------------------------
(* Every variable of the controller keeps its type.                        *)
THEOREM TypeCorrect == Spec => []TypeOK
  BY TypeInit, TypeStep, PTL DEF Spec

(* What servers, storage and Mesos agree on throughout (mesos/controller.go*)
(* and SetFrameworkID of storage/zk/zk.go).                                *)
THEOREM Invariance == Spec => []IInv
  BY InvInit, InvStep, PTL DEF Spec

(* Whoever is subscribed has its identifier in storage, unless controllers *)
(* have overlapped while one of them wrote (mesos.go, newFrameworkIDStore).*)
THEOREM ServedIsStoredHolds == Spec => []ServedIsStored
<1>1. IInv => ServedIsStored
  BY DEF IInv, StoredIsKnown, ServedIsStored, Serving, Tracking
<1> QED
  BY <1>1, Invariance, PTL

(* Only what Mesos does not know is overwritten (zk.go, SetFrameworkID),   *)
(* unless there was a clash.                                               *)
THEOREM IdentifierIsKept == Spec => IdentifierKept
<1>1. IInv /\ [Next]_vars => [stored' # stored => stored \notin alive \/ clash']_vars
  <2> SUFFICES ASSUME IInv, Next, stored' # stored, ~clash' PROVE stored \notin alive
    OBVIOUS
  <2>1. ASSUME NEW s \in Servers, SetPut(s) \/ SetUnheard(s) PROVE stored \notin alive
    BY <2>1, WriteIsAlone, WriteReplacesNothing DEF SetPut, SetUnheard
  <2>2. ASSUME NEW s \in Servers, CreateNode(s) PROVE FALSE
    BY <2>2 DEF CreateNode, StateAfter, IInv, EmptyUntilCreated
  <2> QED
    BY <2>1, <2>2
    DEF Next, StartNext, RunNext, CheckNode, CreateMissing, CreateRefused, StartFails, Restart,
        TurnPasses, Elected, Depose, Told, ReadId, ReadIdFails, RunEnds, Register, Resume, Removed,
        Disconnected, SetGet, SetRefused, CallFails, Drop, Remove, Crash, CalmDown, zookeeper
<1> QED
  BY <1>1, Invariance, PTL DEF Spec, IdentifierKept

(* Whoever gets through to Mesos after another server takes its framework  *)
(* over, unless Mesos has removed it or there was a clash.                 *)
THEOREM FrameworkIsInherited == Spec => FrameworkInherited
<1>1. IInv /\ IInv' /\ [Next]_vars => [crew' # crew => crew \notin alive' \/ clash']_vars
  <2> SUFFICES ASSUME IInv, IInv', Next, crew' # crew, ~clash' PROVE crew \notin alive'
    OBVIOUS
  <2>1. None \notin alive'
    BY ControllerAssumption DEF IInv, TypeOK
  <2>2. ASSUME NEW s \in Servers, Resume(s) PROVE crew \notin alive'
    <3>1. info[s] = stored /\ crew' = stored
      BY <2>2, ControllerAssumption
      DEF Resume, Goto, IInv, TypeOK, StoredIsKnown, Tracking
    <3>2. crew = None
      BY <2>2, <3>1 DEF Resume, IInv, CrewIsStored
    <3> QED
      BY <2>1, <3>2
  <2>3. ASSUME NEW s \in Servers, SetPut(s) PROVE crew \notin alive'
    BY <2>1, <2>3, WriteIsAlone, WriteReplacesNothing DEF SetPut
  <2>4. ASSUME NEW f \in Ids, Remove(f) PROVE crew \notin alive'
    BY <2>4 DEF Remove
  <2> QED
    BY <2>2, <2>3, <2>4
    DEF Next, StartNext, RunNext, CreateNode, CheckNode, CreateMissing, CreateRefused, StartFails,
        Restart, TurnPasses, Elected, Depose, Told, ReadId, ReadIdFails, RunEnds, Register, Tracked,
        Removed, Disconnected, SetGet, SetRefused, CallFails, SetUnheard, Drop, Crash, CalmDown,
        history
<1> QED
  BY <1>1, Invariance, PTL DEF Spec, FrameworkInherited
-----------------------------------------------------------------------------
(* What Leadership promises whoever builds on it.                          *)

OneRightful == \A r, s \in Rightful : r = s

(* It is the turn of every leader that knows what it should.               *)
TurnInv == LeadershipTypeOK /\ Rightful \subseteq entitled

LEMMA TurnInit == InitLeadership => TurnInv
BY DEF InitLeadership, TurnInv, LeadershipTypeOK, Turns, Rightful

LEMMA TurnStep == TurnInv /\ [NextLeadership]_leadership => TurnInv'
<1> SUFFICES ASSUME TurnInv, [NextLeadership]_leadership PROVE TurnInv'
  OBVIOUS
<1> USE DEF TurnInv, LeadershipTypeOK, Rightful, Turns
<1>1. ASSUME NEW e \in Turns, Turn(e) PROVE TurnInv'
  BY <1>1 DEF Turn
<1>2. ASSUME NEW s \in Servers, Take(s) \/ TakeAstray(s) PROVE TurnInv'
  BY <1>2 DEF Take, TakeAstray
<1>3. ASSUME NEW s \in Servers, Recover(s) \/ Stop(s) PROVE TurnInv'
  BY <1>3 DEF Recover, Stop
<1>4. ASSUME NEW s \in Servers, Gone(s) PROVE TurnInv'
  BY <1>4 DEF Gone
<1>5. CASE UNCHANGED leadership
  BY <1>5 DEF leadership
<1> QED
  BY <1>1, <1>2, <1>3, <1>4, <1>5 DEF NextLeadership

(* The promise is enough for safety: of the leaders that have been told    *)
(* everything there is at most one, and it is its turn (WaitUntilLeader,   *)
(* coordinator/coordinator.go).                                            *)
THEOREM LeadershipIsSafe == LeadershipSpec => [](LeadershipTypeOK /\ OneRightful)
<1>1. TurnInv => LeadershipTypeOK /\ OneRightful
  BY DEF TurnInv, LeadershipTypeOK, Turns, OneRightful
<1> QED
  BY <1>1, TurnInit, TurnStep, PTL DEF LeadershipSpec

(* What servers do with the election while they start, run and end.        *)
LEMMA ElectionStep == [Next]_vars => [NextLeadership]_leadership
<1> SUFFICES ASSUME [Next]_vars PROVE [NextLeadership]_leadership
  OBVIOUS
<1> USE DEF NextLeadership
<1>1. ASSUME NEW s \in Servers, End(s) PROVE NextLeadership
  BY <1>1 DEF End
<1>2. ASSUME NEW s \in Servers, Return(s) PROVE [NextLeadership]_leadership
  BY <1>2 DEF Return
<1>3. ASSUME NEW s \in Servers, StartNext(s) \/ StartFails(s) \/ Restart(s)
      PROVE  [NextLeadership]_leadership
  BY <1>1, <1>3 DEF StartNext, CreateNode, CheckNode, CreateMissing, CreateRefused, StartFails,
                    Restart
<1>4. ASSUME NEW s \in Servers, TurnPasses(s) \/ Elected(s) \/ Depose(s) \/ Told(s)
      PROVE  NextLeadership
  BY <1>4 DEF TurnPasses, Elected, Depose, Told, Turns
<1>5. ASSUME NEW s \in Servers, SetFails(s) PROVE [NextLeadership]_leadership
  BY <1>1, <1>5 DEF SetFails
<1>6. ASSUME NEW s \in Servers, SetPut(s) PROVE [NextLeadership]_leadership
  BY <1>2, <1>6 DEF SetPut, AfterReset
<1>7. ASSUME NEW s \in Servers,
             RunNext(s) \/ ReadIdFails(s) \/ CallFails(s) \/ SetUnheard(s) \/ Drop(s)
      PROVE  [NextLeadership]_leadership
  BY <1>2, <1>5, <1>6, <1>7
  DEF RunNext, ReadId, ReadIdFails, RunEnds, Register, Resume, Removed, Disconnected, SetGet,
      SetRefused, CallFails, SetUnheard, Drop
<1>8. ASSUME NEW s \in Servers, Crash(s) PROVE NextLeadership
  BY <1>1, <1>8 DEF Crash
<1>9. CASE (\E f \in Ids : Remove(f)) \/ CalmDown \/ UNCHANGED vars
  BY <1>9 DEF Remove, CalmDown, vars
<1> QED
  BY <1>3, <1>4, <1>7, <1>8, <1>9 DEF Next

(* The servers keep to the election whatever else they do: starts, ends    *)
(* and the runs of controllers are steps of Leadership or none             *)
(* (command/server.go).                                                    *)
THEOREM ElectionIsKept == Spec => LeadershipSpec
<1>1. Init => InitLeadership
  BY DEF Init
<1> QED
  BY <1>1, ElectionStep, PTL DEF Spec, LeadershipSpec

(* Nobody leads but a server inside controller.Run.                        *)
LeadersRun == \A s \in leaders : pc[s] \in Running

LEMMA LeadersRunStep == TypeOK /\ LeadersRun /\ [Next]_vars => LeadersRun'
<1> SUFFICES ASSUME TypeOK, LeadersRun, [Next]_vars PROVE LeadersRun'
  OBVIOUS
<1> USE DEF LeadersRun
<1>1. ASSUME NEW s \in Servers, s \notin leaders', leaders' \subseteq leaders,
             \A r \in Servers \ {s} : pc'[r] = pc[r]
      PROVE  LeadersRun'
  BY <1>1 DEF TypeOK, LeadershipTypeOK
<1>2. ASSUME NEW s \in Servers, End(s) \/ Return(s) PROVE LeadersRun'
  <2>1. \A r \in Servers \ {s} : pc'[r] = pc[r]
    BY <1>2 DEF End, Return, TypeOK
  <2>2. s \notin leaders' /\ leaders' \subseteq leaders
    BY <1>2 DEF End, Return, Gone, Stop, leadership
  <2> QED
    BY <1>1, <2>1, <2>2
<1>3. ASSUME NEW s \in Servers, UNCHANGED leadership,
             pc'[s] \in Running \/ pc[s] \notin Running,
             \A r \in Servers \ {s} : pc'[r] = pc[r]
      PROVE  LeadersRun'
  BY <1>3 DEF leadership, TypeOK, LeadershipTypeOK
<1>4. ASSUME NEW s \in Servers, StartNext(s) \/ StartFails(s) \/ Restart(s) PROVE LeadersRun'
  <2>1. CASE CreateRefused(s) \/ StartFails(s)
    BY <1>2, <2>1 DEF CreateRefused, StartFails
  <2>2. CASE CreateNode(s) \/ CheckNode(s) \/ CreateMissing(s) \/ Restart(s)
    <3>1. /\ UNCHANGED leadership /\ pc[s] \notin Running
          /\ \A r \in Servers \ {s} : pc'[r] = pc[r]
      BY <2>2 DEF CreateNode, CheckNode, CreateMissing, Restart, Prepared, Goto, Running, TypeOK
    <3> QED
      BY <1>3, <3>1
  <2> QED
    BY <1>4, <2>1, <2>2 DEF StartNext
<1>5. ASSUME NEW s \in Servers, Elected(s) PROVE LeadersRun'
  <2>1. /\ leaders' = leaders \cup {s} /\ pc'[s] = "run"
        /\ \A r \in Servers \ {s} : pc'[r] = pc[r]
    BY <1>5 DEF Elected, Goto, Take, TakeAstray, TypeOK
  <2> QED
    BY <2>1 DEF Running, TypeOK, LeadershipTypeOK
<1>6. ASSUME NEW s \in Servers, TurnPasses(s) \/ Depose(s) \/ Told(s) PROVE LeadersRun'
  BY <1>6 DEF TurnPasses, Depose, Told, Turn, Stop, Recover
<1>7. ASSUME NEW s \in Servers, SetFails(s), pc[s] \in Running PROVE LeadersRun'
  <2>1. CASE mem[s] # None /\ UNCHANGED leadership /\ pc' = [pc EXCEPT ![s] = "subscribe"]
    BY <1>3, <2>1 DEF Running, TypeOK
  <2> QED
    BY <1>2, <1>7, <2>1 DEF SetFails
<1>8. ASSUME NEW s \in Servers, SetPut(s) PROVE LeadersRun'
  <2>1. CASE UNCHANGED leadership /\ pc' = [pc EXCEPT ![s] = "up"]
    BY <1>3, <2>1 DEF Running, TypeOK
  <2> QED
    BY <1>2, <1>8, <2>1 DEF SetPut, AfterReset
<1>9. ASSUME NEW s \in Servers,
             \/ ReadId(s) \/ Register(s) \/ Resume(s) \/ Removed(s) \/ Disconnected(s) \/ SetGet(s)
             \/ Drop(s)
      PROVE  LeadersRun'
  <2>1. CASE Drop(s)
    BY <2>1 DEF Drop, leadership
  <2>2. CASE ~Drop(s)
    <3>1. /\ UNCHANGED leadership /\ pc'[s] \in Running
          /\ \A r \in Servers \ {s} : pc'[r] = pc[r]
      BY <1>9, <2>2 DEF ReadId, Register, Tracked, Resume, Removed, Disconnected, SetGet, Goto,
                        Running, TypeOK
    <3> QED
      BY <1>3, <3>1
  <2> QED
    BY <2>1, <2>2
<1>10. ASSUME NEW s \in Servers,
             RunEnds(s) \/ ReadIdFails(s) \/ SetRefused(s) \/ CallFails(s) \/ SetUnheard(s)
               \/ Crash(s)
      PROVE  LeadersRun'
  <2>1. CASE RunEnds(s) \/ ReadIdFails(s) \/ Crash(s)
    BY <1>2, <2>1 DEF RunEnds, ReadIdFails, Crash
  <2>2. CASE SetRefused(s) \/ CallFails(s) \/ SetUnheard(s)
    BY <1>7, <2>2 DEF SetRefused, CallFails, SetUnheard, Running
  <2> QED
    BY <1>10, <2>1, <2>2
<1>11. CASE (\E f \in Ids : Remove(f)) \/ CalmDown \/ UNCHANGED vars
  BY <1>11 DEF Remove, CalmDown, vars, leadership
<1> QED
  BY <1>4, <1>5, <1>6, <1>8, <1>9, <1>10, <1>11 DEF Next, RunNext

(* Where a clash comes from: when a first one is noted, a server other     *)
(* than the writer, or the writer, runs its controller though it has been  *)
(* told to stop or was never told (the loop of command/server.go and       *)
(* controller.Run, which notices its context late).                        *)
ClashNeedsStraggler ==
    [][clash' /\ ~clash =>
          \E s \in Servers : pc[s] \in Running /\ s \notin Rightful]_vars

(* Together with the theorems above: as long as nobody runs its controller *)
(* without being the rightful leader, what is served is stored, and        *)
(* identifiers and frameworks are handed on.  And leaders are always       *)
(* inside controller.Run, so that a server waits or starts with nothing    *)
(* of an earlier term.                                                     *)
THEOREM ClashIsOfStragglers == Spec => []LeadersRun /\ ClashNeedsStraggler
<1>1. Init => LeadersRun
  BY DEF Init, InitLeadership, LeadersRun
<1>2. TurnInv /\ TypeOK /\ [Next]_vars =>
        [clash' /\ ~clash => \E s \in Servers : pc[s] \in Running /\ s \notin Rightful]_vars
  <2> SUFFICES ASSUME TurnInv, TypeOK, Next, clash', ~clash
               PROVE  \E s \in Servers : pc[s] \in Running /\ s \notin Rightful
    OBVIOUS
  <2>1. PICK s \in Servers : SetPut(s) \/ SetUnheard(s)
    BY DEF Next, StartNext, RunNext, CreateNode, CheckNode, CreateMissing, CreateRefused,
           StartFails, Restart, TurnPasses, Elected, Depose, Told, ReadId, ReadIdFails, RunEnds,
           Register, Resume, Removed, Disconnected, SetGet, SetRefused, CallFails, Drop, Remove,
           Crash, CalmDown, history
  <2>2. pc[s] \in Running /\ \E r \in Servers \ {s} : pc[r] \in Running
    BY <2>1 DEF SetPut, SetUnheard, Write, Running
  <2>3. PICK r \in Servers \ {s} : pc[r] \in Running
    BY <2>2
  <2>4. ~(r \in Rightful /\ s \in Rightful)
    BY <2>3 DEF TurnInv, LeadershipTypeOK, Turns
  <2> QED
    BY <2>2, <2>3, <2>4
<1>3. Spec => []TurnInv
  BY ElectionIsKept, TurnInit, TurnStep, PTL DEF LeadershipSpec
<1> QED
  BY <1>1, <1>2, <1>3, LeadersRunStep, TypeCorrect, PTL DEF Spec, ClashNeedsStraggler
=============================================================================
