----------------------- MODULE CoordinatorRefinement -----------------------
(***************************************************************************)
(* Coordinator implements Leadership, for any number of servers and        *)
(* tickets and every choice of Features: the election as a step or a       *)
(* stutter of the promise, action by action.                               *)
(***************************************************************************)
EXTENDS CoordinatorProofs

(* A server that leads with all it should know holds the lowest ticket.    *)
LEMMA RightfulHolds ==
    ASSUME IInv, NEW s \in Servers, Leads(s), ~missed[s]
    PROVE  HoldsLowest(s)
BY DEF IInv, ServerInv, LeadInv, Leads

LEMMA HolderIsEntitled ==
    ASSUME TypeOK, NEW s \in Servers, HoldsLowest(s)
    PROVE  Entitled = {s}
<1>1. s \in Entitled
  BY LowestIsInDir DEF Entitled
<1>2. ASSUME NEW r \in Entitled PROVE r = s
  <2>1. PICK t \in Dir : owner[t] = r /\ \A u \in Dir : t <= u
    BY DEF Entitled
  <2>2. ticket[s] \in Dir /\ owner[ticket[s]] = s /\ \A u \in Dir : ticket[s] <= u
    BY LowestIsInDir
  <2>3. t = ticket[s]
    BY <2>1, <2>2 DEF Dir, Ticket
  <2> QED
    BY <2>1, <2>2, <2>3
<1> QED
  BY <1>1, <1>2

LEMMA HoldersAreEntitled ==
    TypeOK => \A q \in Servers : HoldsLowest(q) => Entitled = {q}
BY HolderIsEntitled

LEMMA OneTurn == Entitled \in Election!Turns
<1>1. CASE Entitled = {}
  BY <1>1 DEF Election!Turns
<1>2. CASE Entitled # {}
  <2>1. PICK s \in Entitled : TRUE
    BY <1>2
  <2>2. PICK t \in Dir : owner[t] = s /\ \A u \in Dir : t <= u
    BY <2>1 DEF Entitled
  <2>3. ASSUME NEW r \in Entitled PROVE r = s
    <3>1. PICK v \in Dir : owner[v] = r /\ \A u \in Dir : v <= u
      BY DEF Entitled
    <3>2. v = t
      BY <2>2, <3>1 DEF Dir, Ticket
    <3> QED
      BY <2>2, <3>1, <3>2
  <2>4. Entitled = {s} /\ s \in Servers
    BY <2>1, <2>3 DEF Entitled
  <2> QED
    BY <2>4 DEF Election!Turns
<1> QED
  BY <1>1, <1>2

(* The same leaders as before: either one of them keeps its turn, or there *)
(* is none whose turn it is and the turn may pass.                         *)
LEMMA SameLeaders ==
    ASSUME IInv, IInv',
           \A r \in Servers : Leads(r)' <=> Leads(r),
           \A r \in Servers : Leads(r) => (missed'[r] <=> missed[r])
    PROVE  [Election!NextLeadership]_(Election!leadership)
<1> DEFINE L == {r \in Servers : Leads(r)}
           A == {r \in Servers : Leads(r) /\ missed[r]}
<1>1. L' = L /\ A' = A
  OBVIOUS
<1>2. CASE \E r \in Servers : Leads(r) /\ ~missed[r]
  <2>1. PICK r \in Servers : Leads(r) /\ ~missed[r]
    BY <1>2
  <2>2. Entitled = {r}
    BY <2>1, RightfulHolds, HolderIsEntitled DEF IInv
  <2>3. Leads(r)' /\ ~missed'[r]
    BY <2>1
  <2>4. HoldsLowest(r)'
    BY <2>3 DEF IInv, ServerInv, LeadInv, Leads
  <2>5. Entitled' = {r}
    <3>1. (TypeOK => \A q \in Servers : HoldsLowest(q) => Entitled = {q})'
      BY HoldersAreEntitled, PTL
    <3> QED
      BY <2>4, <3>1 DEF IInv
  <2> QED
    BY <1>1, <2>2, <2>5 DEF Election!leadership
<1>3. CASE ~ \E r \in Servers : Leads(r) /\ ~missed[r]
  <2>1. L \ A = {}
    BY <1>3
  <2>2. Entitled' \in Election!Turns
    <3>1. (Entitled \in Election!Turns)'
      BY OneTurn, PTL
    <3> QED
      BY <3>1 DEF Election!Turns
  <2>3. Election!Turn(Entitled')
    BY <1>1, <2>1 DEF Election!Turn, Election!Rightful
  <2> QED
    BY <2>2, <2>3 DEF Election!NextLeadership
<1> QED
  BY <1>2, <1>3
-----------------------------------------------------------------------------
(* The directory as it was: so is whose turn it is.                        *)
LEMMA SameTurn == owner' = owner => Entitled' = Entitled
BY DEF Entitled, Dir

(* A server ceases to lead and nothing else happens to leaders.            *)
LEMMA Ceases ==
    ASSUME NEW s \in Servers, Leads(s), ~Leads(s)', owner' = owner,
           \A r \in Servers \ {s} :
             (Leads(r)' <=> Leads(r)) /\ (missed'[r] <=> missed[r])
    PROVE  Election!Stop(s)
BY SameTurn DEF Election!Stop

LEMMA LeadTakes ==
    ASSUME IInv, NEW s \in Servers, Lead(s)
    PROVE  Election!Take(s) \/ Election!TakeAstray(s)
<1>1. TypeOK /\ pc[s] = "won" /\ HoldsLowest(s)
  BY DEF IInv, ServerInv, LoopInv, Lead, Goto
<1>2. Entitled = {s} /\ Entitled' = {s}
  BY <1>1, HolderIsEntitled, SameTurn DEF Lead, zookeeper
<1>3. ~Leads(s) /\ Leads(s)' /\ missed' = missed
  BY <1>1 DEF Leads, Lead, Goto, TypeOK
<1>4. \A r \in Servers \ {s} : Leads(r)' <=> Leads(r)
  BY <1>1 DEF Leads, Lead, Goto, TypeOK
<1> QED
  BY <1>2, <1>3, <1>4 DEF Election!Take, Election!TakeAstray

LEMMA StepDownStops ==
    ASSUME IInv, IInv', NEW s \in Servers, StepDown(s)
    PROVE  [Election!NextLeadership]_(Election!leadership)
<1>1. TypeOK /\ pc[s] = "lead" /\ owner' = owner /\ missed' = missed
  BY DEF IInv, StepDown, Goto, zookeeper
<1>2. ~Leads(s)' /\ \A r \in Servers \ {s} : Leads(r)' <=> Leads(r)
  BY <1>1 DEF Leads, StepDown, Goto, TypeOK
<1>3. CASE Leads(s)
  BY <1>1, <1>2, <1>3, Ceases DEF Election!NextLeadership
<1>4. CASE ~Leads(s)
  BY <1>1, <1>2, <1>4, SameLeaders
<1> QED
  BY <1>3, <1>4

(* The event that cancels the context: the leader has a function to        *)
(* cancel, or does not lead.                                               *)
LEMMA DisconnectionStops ==
    ASSUME IInv, IInv', NEW s \in Servers, HandleDisconnected(s)
    PROVE  [Election!NextLeadership]_(Election!leadership)
<1>1. TypeOK /\ LeadInv(s) /\ owner' = owner /\ pc' = pc
  BY DEF IInv, ServerInv, HandleDisconnected, zookeeper
<1>2. /\ ctx' = [ctx EXCEPT ![s] = ctx[s] /\ ~cancel[s]]
      /\ missed' = [missed EXCEPT ![s] = pc[s] \in {"decide", "won"}]
  BY DEF HandleDisconnected, Cancel
<1>3. ~Leads(s)'
  BY <1>1, <1>2 DEF LeadInv, Leads, TypeOK
<1>4. \A r \in Servers \ {s} : (Leads(r)' <=> Leads(r)) /\ (missed'[r] <=> missed[r])
  BY <1>1, <1>2 DEF Leads, TypeOK
<1>5. CASE Leads(s)
  BY <1>1, <1>3, <1>4, <1>5, Ceases DEF Election!NextLeadership
<1>6. CASE ~Leads(s)
  BY <1>3, <1>4, <1>6, SameLeaders
<1> QED
  BY <1>5, <1>6

(* A leader that had missed a disconnection and finds its session alive    *)
(* still holds the lowest ticket.                                          *)
LEMMA ReconnectRecovers ==
    ASSUME IInv, IInv', NEW s \in Servers, Reconnect(s)
    PROVE  [Election!NextLeadership]_(Election!leadership)
<1>1. /\ TypeOK /\ owner' = owner /\ ticket' = ticket /\ pc' = pc /\ ctx' = ctx
      /\ missed' = [missed EXCEPT ![s] = FALSE]
      /\ session' = [session EXCEPT ![s] = "live"]
  BY DEF IInv, Reconnect, zookeeper, server
<1>2. (\A r \in Servers : Leads(r)' <=> Leads(r)) /\ ~missed'[s]
  BY <1>1 DEF Leads, TypeOK
<1>3. \A r \in Servers \ {s} : missed'[r] <=> missed[r]
  BY <1>1 DEF TypeOK
<1>4. CASE Leads(s) /\ missed[s]
  <2>1. HoldsLowest(s)'
    BY <1>1, <1>4 DEF IInv, ServerInv, LeadInv, Leads, TypeOK
  <2>2. HoldsLowest(s)
    BY <1>1, <2>1 DEF HoldsLowest, Dir
  <2>3. Entitled = {s} /\ Entitled' = Entitled
    BY <1>1, <2>2, HolderIsEntitled, SameTurn
  <2>4. Election!Recover(s)
    BY <1>2, <1>3, <1>4, <2>3 DEF Election!Recover
  <2> QED
    BY <2>4 DEF Election!NextLeadership
<1>5. CASE ~(Leads(s) /\ missed[s])
  BY <1>2, <1>3, <1>5, SameLeaders
<1> QED
  BY <1>4, <1>5

LEMMA CrashIsGone ==
    ASSUME IInv, NEW s \in Servers, Crash(s)
    PROVE  Election!Gone(s)
<1> USE OwnerAssumption
<1>1. /\ TypeOK
      /\ owner' = [t \in Ticket |-> IF owner[t] = s THEN Ghost ELSE owner[t]]
      /\ pc' = [pc EXCEPT ![s] = "crashed"] /\ ctx' = [ctx EXCEPT ![s] = FALSE]
      /\ missed' = [missed EXCEPT ![s] = FALSE]
  BY DEF IInv, Crash
<1>2. ~Leads(s)' /\ \A r \in Servers \ {s} : (Leads(r)' <=> Leads(r)) /\ missed'[r] = missed[r]
  BY <1>1 DEF Leads, TypeOK
<1>3. Dir' = Dir
  BY <1>1 DEF Dir
<1>4. \A t \in Dir : owner'[t] # s /\ \A r \in Servers \ {s} : owner'[t] = r <=> owner[t] = r
  BY <1>1 DEF Dir
<1>5. Entitled' = Entitled \ {s}
  BY <1>3, <1>4 DEF Entitled
<1> QED
  BY <1>2, <1>5 DEF Election!Gone
-----------------------------------------------------------------------------
(* Everything else leaves leaders as they are.                             *)
LEMMA LoopIsQuiet ==
    ASSUME IInv, IInv', NEW s \in Servers,
           \/ CheckTicket(s) \/ Create(s) \/ CreateUnheard(s) \/ Assign(s)
           \/ ChildrenW(s) \/ CallFails(s) \/ Decide(s) \/ Watched(s) \/ Retry(s)
           \/ Restart(s)
    PROVE  [Election!NextLeadership]_(Election!leadership)
<1>1. TypeOK /\ ctx' = ctx /\ missed' = missed
  BY DEF IInv, CheckTicket, Create, CreateUnheard, Assign, ChildrenW, CallFails, Decide,
         Watched, Retry, Restart
<1>2. PICK to \in Pc \ {"lead"} : pc[s] # "lead" /\ pc' = [pc EXCEPT ![s] = to]
  BY <1>1 DEF CheckTicket, AfterCheck, Create, CreateUnheard, Assign, ChildrenW, CallFails, Decide,
         Watched, AfterWatch, Retry, Restart, Goto, Pc
<1>3. \A r \in Servers : Leads(r)' <=> Leads(r)
  BY <1>1, <1>2 DEF Leads, TypeOK
<1> QED
  BY <1>1, <1>3, SameLeaders

LEMMA ConnectionIsQuiet ==
    ASSUME IInv, IInv', NEW s \in Servers,
           HandleExpired(s) \/ Disconnect(s) \/ Expire(s) \/ LearnExpired(s)
    PROVE  [Election!NextLeadership]_(Election!leadership)
<1>1. pc' = pc /\ ctx' = ctx /\ missed' = missed
  BY DEF HandleExpired, Disconnect, Expire, LearnExpired, server
<1>2. \A r \in Servers : Leads(r)' <=> Leads(r)
  BY <1>1 DEF Leads
<1> QED
  BY <1>1, <1>2, SameLeaders

LEMMA UnchangedIsQuiet ==
    ASSUME IInv, IInv', UNCHANGED <<pc, ctx, missed>>
    PROVE  [Election!NextLeadership]_(Election!leadership)
<1>1. \A r \in Servers : Leads(r)' <=> Leads(r)
  BY DEF Leads
<1> QED
  BY <1>1, SameLeaders
-----------------------------------------------------------------------------
LEMMA InitImplements == Init => Election!InitLeadership
<1> SUFFICES ASSUME Init PROVE Election!InitLeadership
  OBVIOUS
<1>1. Dir = {} /\ \A s \in Servers : ~Leads(s)
  BY DEF Init, Dir, Leads
<1> QED
  BY <1>1 DEF Election!InitLeadership, Entitled

LEMMA NextImplements ==
    IInv /\ IInv' /\ [Next]_vars => [Election!NextLeadership]_(Election!leadership)
<1> SUFFICES ASSUME IInv, IInv', [Next]_vars
             PROVE  [Election!NextLeadership]_(Election!leadership)
  OBVIOUS
<1>1. ASSUME NEW s \in Servers, LoopNext(s)
      PROVE  [Election!NextLeadership]_(Election!leadership)
  <2>1. CASE Lead(s)
    BY <2>1, LeadTakes DEF Election!NextLeadership
  <2>2. CASE StepDown(s)
    BY <2>2, StepDownStops
  <2> QED
    BY <1>1, <2>1, <2>2, LoopIsQuiet DEF LoopNext
<1>2. ASSUME NEW s \in Servers, EventNext(s)
      PROVE  [Election!NextLeadership]_(Election!leadership)
  BY <1>2, DisconnectionStops, ConnectionIsQuiet DEF EventNext
<1>3. ASSUME NEW s \in Servers, ClientNext(s)
      PROVE  [Election!NextLeadership]_(Election!leadership)
  BY <1>3, ReconnectRecovers, ConnectionIsQuiet DEF ClientNext
<1>4. ASSUME NEW s \in Servers,
             \/ StepDown(s) \/ CreateUnheard(s)
             \/ Disconnect(s) \/ Expire(s) \/ Crash(s) \/ Restart(s)
      PROVE  [Election!NextLeadership]_(Election!leadership)
  <2>1. CASE Crash(s)
    BY <2>1, CrashIsGone DEF Election!NextLeadership
  <2> QED
    BY <1>4, <2>1, StepDownStops, LoopIsQuiet, ConnectionIsQuiet
<1>5. ASSUME NEW t \in Ticket, ExpireGhost(t)
      PROVE  [Election!NextLeadership]_(Election!leadership)
  BY <1>5, UnchangedIsQuiet DEF ExpireGhost, server
<1>6. CASE UNCHANGED vars
  BY <1>6, UnchangedIsQuiet DEF vars, server
<1> QED
  BY <1>1, <1>2, <1>3, <1>4, <1>5, <1>6 DEF Next

(* Whatever the environment does, the election behaves as Leadership says: *)
(* WaitUntilLeader returns only to the server whose turn it is, and the    *)
(* turn never passes from under a leader that can be stopped.              *)
THEOREM LeadershipImplemented == Spec => ImplementsLeadership
<1>1. Spec => []IInv
  BY InitElection, NextElection, PTL DEF Spec
<1> QED
  BY <1>1, InitImplements, NextImplements, PTL
     DEF Spec, ImplementsLeadership, Election!LeadershipSpec
=============================================================================
