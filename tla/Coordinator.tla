---------------------------- MODULE Coordinator ----------------------------
(***************************************************************************)
(* Leader election over ZooKeeper (coordinator/zk/zk.go) and the loop of a *)
(* server around it (command/server.go).  Every server draws a sequential, *)
(* ephemeral ticket in the election directory; the lowest ticket leads.    *)
(*                                                                         *)
(* Actors: the loop of every server, the goroutine that handles the events *)
(* of its ZooKeeper client, the client itself, and ZooKeeper, which        *)
(* removes the tickets of a session that has expired.                      *)
(***************************************************************************)
EXTENDS Integers, Sequences

CONSTANTS
    Servers,      \* the servers taking part
    MaxTicket,    \* bound: tickets drawn in all
    Free, Ghost,  \* owners of a ticket that is not in the directory, or whose
                  \* server is gone while the session lives on
    Features      \* what the environment of this instance may do

AllFeatures ==
    {"expire",     \* sessions may expire
     "lostreply",  \* a ticket may be created without the server hearing of it
     "crash",      \* servers may crash and be restarted
     "runfails"}   \* the controller may return while its context is live

ASSUME TicketAssumption == MaxTicket \in Nat \ {0}

ASSUME OwnerAssumption ==
    /\ Free \notin Servers /\ Ghost \notin Servers /\ Free # Ghost
    /\ Features \subseteq AllFeatures

VARIABLES
    owner,        \* the election directory: who owns a ticket
    next,         \* the next sequence number
    session,      \* of every server: "none", "live", or "expired" unknown to it
    connected,    \* is the connection of the server up
    events,       \* session events its goroutine has yet to handle
    pc,           \* where its loop is
    got,          \* the name Create has returned
    ticket,       \* coord.ticket; 0 is the empty string
    tickets,      \* the children ChildrenW has returned
    watch,        \* the watch on the directory
    cancel,       \* coord.cancel is set
    ctx,          \* the context WaitUntilLeader has returned is live
    missed        \* auxiliary: a disconnection was handled when there was no
                  \* context to cancel although the election was already won

zookeeper == <<owner, next>>
client    == <<session, connected, events, watch>>
server    == <<pc, got, ticket, tickets, cancel, ctx>>
vars      == <<zookeeper, client, server, missed>>
-----------------------------------------------------------------------------
Ticket == 1..MaxTicket

(* The name of a ticket, as Create returns it; <<>> is none. *)
Path(t) == <<"election", t>>

(* Mutant: tickets are counted from zero. *)
CountedFromZero(name) == name[Len(name)] + 1

LastPart(name) == name[Len(name)]

Dir == {t \in Ticket : owner[t] # Free}

Pc == {"check", "create", "assign", "children", "decide", "wait", "backoff",
       "won", "lead", "crashed"}

TypeOK ==
    /\ owner \in [Ticket -> Servers \cup {Free, Ghost}]
    /\ next \in 1..(MaxTicket + 1)
    /\ session \in [Servers -> {"none", "live", "expired"}]
    /\ connected \in [Servers -> BOOLEAN]
    /\ events \in [Servers -> Seq({"Disconnected", "Expired"})]
    /\ pc \in [Servers -> Pc]
    /\ got \in [Servers -> {Path(t) : t \in Ticket} \cup {<<>>}]
    /\ ticket \in [Servers -> Ticket \cup {0}]
    /\ tickets \in [Servers -> SUBSET Ticket]
    /\ watch \in [Servers -> {"none", "armed", "fired"}]
    /\ cancel \in [Servers -> BOOLEAN]
    /\ ctx \in [Servers -> BOOLEAN]
    /\ missed \in [Servers -> BOOLEAN]

(* Every server has connected and prepared the directory (initZK).         *)
Init ==
    /\ owner = [t \in Ticket |-> Free]
    /\ next = 1
    /\ session = [s \in Servers |-> "live"]
    /\ connected = [s \in Servers |-> TRUE]
    /\ events = [s \in Servers |-> <<>>]
    /\ pc = [s \in Servers |-> "check"]
    /\ got = [s \in Servers |-> <<>>]
    /\ ticket = [s \in Servers |-> 0]
    /\ tickets = [s \in Servers |-> {}]
    /\ watch = [s \in Servers |-> "none"]
    /\ cancel = [s \in Servers |-> FALSE]
    /\ ctx = [s \in Servers |-> FALSE]
    /\ missed = [s \in Servers |-> FALSE]

(* A change of the directory fires the watches set on it. *)
Fire == watch' = [s \in Servers |-> IF watch[s] = "armed" THEN "fired" ELSE watch[s]]

Unwatch(s) == watch' = [watch EXCEPT ![s] = "none"]

Goto(s, from, to) == pc[s] = from /\ pc' = [pc EXCEPT ![s] = to]

(* A call on the client gets through. *)
Online(s) == connected[s] /\ session[s] = "live"
-----------------------------------------------------------------------------
(* WaitUntilLeader and isLeader, one action per lock or round trip.        *)

(* Mutant: a ticket is drawn in every round. *)
DrawAgain(s) == "create"

(* A ticket is drawn only if there is none. *)
AfterCheck(s) == IF ticket[s] = 0 THEN "create" ELSE "children"

CheckTicket(s) ==
    /\ Goto(s, "check", AfterCheck(s))
    /\ UNCHANGED <<zookeeper, client, got, ticket, tickets, cancel, ctx, missed>>

NewTicket(s) ==
    /\ pc[s] = "create"
    /\ Online(s)
    /\ next \in Ticket
    /\ owner' = [owner EXCEPT ![next] = s]
    /\ next' = next + 1
    /\ Fire

(* register: the ticket is created... *)
Create(s) ==
    /\ NewTicket(s)
    /\ Goto(s, "create", "assign")
    /\ got' = [got EXCEPT ![s] = Path(next)]
    /\ UNCHANGED <<session, connected, events, ticket, tickets, cancel, ctx, missed>>

(* ... but the connection is lost before the reply arrives: an error. *)
CreateUnheard(s) ==
    /\ "lostreply" \in Features
    /\ NewTicket(s)
    /\ Goto(s, "create", "backoff")
    /\ connected' = [connected EXCEPT ![s] = FALSE]
    /\ events' = [events EXCEPT ![s] = Append(@, "Disconnected")]
    /\ UNCHANGED <<session, got, ticket, tickets, cancel, ctx, missed>>

Assign(s) ==
    /\ Goto(s, "assign", "children")
    /\ ticket' = [ticket EXCEPT ![s] = LastPart(got[s])]
    /\ got' = [got EXCEPT ![s] = <<>>]
    /\ UNCHANGED <<zookeeper, client, tickets, cancel, ctx, missed>>

(* Mutant: the directory is read without a watch. *)
NoWatch(s) == UNCHANGED watch

(* The watch is set in the same request that reads the directory. *)
Watch(s) == watch' = [watch EXCEPT ![s] = "armed"]

ChildrenW(s) ==
    /\ Online(s)
    /\ Goto(s, "children", "decide")
    /\ tickets' = [tickets EXCEPT ![s] = Dir]
    /\ Watch(s)
    /\ UNCHANGED <<zookeeper, session, connected, events, got, ticket, cancel, ctx,
                   missed>>

(* A call fails: the error is logged and isLeader called again a second    *)
(* later.                                                                  *)
CallFails(s) ==
    /\ pc[s] \in {"create", "children"}
    /\ ~connected[s]
    /\ Goto(s, pc[s], "backoff")
    /\ UNCHANGED <<zookeeper, client, got, ticket, tickets, cancel, ctx, missed>>

(* Mutant: any ticket in the directory will do. *)
LowestOfAny(s) == ticket[s] \in tickets[s]

Lowest(s) == ticket[s] \in tickets[s] /\ \A t \in tickets[s] : ticket[s] <= t

(* Only a server that has to wait keeps the watch. *)
Decide(s) ==
    /\ \/ Lowest(s) /\ Goto(s, "decide", "won") /\ Unwatch(s)
       \/ ~Lowest(s) /\ ticket[s] \in tickets[s] /\ Goto(s, "decide", "wait")
          /\ UNCHANGED watch
       \/ ticket[s] \notin tickets[s] /\ Goto(s, "decide", "backoff") /\ Unwatch(s)
    /\ tickets' = [tickets EXCEPT ![s] = {}]
    /\ UNCHANGED <<zookeeper, session, connected, events, got, ticket, cancel, ctx,
                   missed>>

(* Mutant: a change of the directory is taken for the election.            *)
ElectedAtOnce == "won"

(* The directory is read again.                                            *)
AfterWatch == "check"

Watched(s) ==
    /\ watch[s] = "fired" /\ (connected[s] \/ session[s] = "none")
    /\ Goto(s, "wait", AfterWatch)
    /\ Unwatch(s)
    /\ UNCHANGED <<zookeeper, session, connected, events, got, ticket, tickets,
                   cancel, ctx, missed>>

Retry(s) ==
    /\ Goto(s, "backoff", "check")
    /\ UNCHANGED <<zookeeper, client, got, ticket, tickets, cancel, ctx, missed>>

(* The context of the leader; a previous one is not cancelled. *)
Lead(s) ==
    /\ Goto(s, "won", "lead")
    /\ cancel' = [cancel EXCEPT ![s] = TRUE]
    /\ ctx' = [ctx EXCEPT ![s] = TRUE]
    /\ UNCHANGED <<zookeeper, client, got, ticket, tickets, missed>>

(* The controller ends with its context, or for reasons of its own. *)
StepDown(s) ==
    /\ ~ctx[s] \/ "runfails" \in Features
    /\ Goto(s, "lead", "check")
    /\ UNCHANGED <<zookeeper, client, got, ticket, tickets, cancel, ctx, missed>>
-----------------------------------------------------------------------------
(* The goroutine started by New.                                           *)

(* Mutant: the leader is left alone. *)
CancelNothing(s) == UNCHANGED <<cancel, ctx>>

Cancel(s) ==
    /\ cancel' = [cancel EXCEPT ![s] = FALSE]
    /\ ctx' = [ctx EXCEPT ![s] = @ /\ ~cancel[s]]

HandleDisconnected(s) ==
    /\ events[s] # <<>> /\ Head(events[s]) = "Disconnected"
    /\ events' = [events EXCEPT ![s] = Tail(@)]
    /\ Cancel(s)
    /\ missed' = [missed EXCEPT ![s] = pc[s] \in {"decide", "won"}]
    /\ UNCHANGED <<zookeeper, session, connected, watch, pc, got, ticket, tickets>>

ForgetTicket(s) == ticket' = [ticket EXCEPT ![s] = 0]

HandleExpired(s) ==
    /\ events[s] # <<>> /\ Head(events[s]) = "Expired"
    /\ events' = [events EXCEPT ![s] = Tail(@)]
    /\ ForgetTicket(s)
    /\ UNCHANGED <<zookeeper, session, connected, watch, pc, got, tickets, cancel,
                   ctx, missed>>
-----------------------------------------------------------------------------
(* The client and ZooKeeper.                                               *)

(* Timing: the goroutine handles an event before the client has connected  *)
(* again or the session has timed out, and the loop gets from one call to  *)
(* the next before the session times out.                                  *)
Settled(s) == events[s] = <<>>

Prompt(s) == Settled(s) /\ pc[s] \notin {"assign", "decide", "won"}

Disconnect(s) ==
    /\ connected[s]
    /\ connected' = [connected EXCEPT ![s] = FALSE]
    /\ events' = [events EXCEPT ![s] = Append(@, "Disconnected")]
    /\ UNCHANGED <<zookeeper, session, watch, server, missed>>

(* The session is resumed, or a new one begun if there is none. *)
Reconnect(s) ==
    /\ ~connected[s] /\ Settled(s) /\ session[s] # "expired"
    /\ pc[s] # "crashed"
    /\ connected' = [connected EXCEPT ![s] = TRUE]
    /\ session' = [session EXCEPT ![s] = "live"]
    /\ missed' = [missed EXCEPT ![s] = FALSE]
    /\ UNCHANGED <<zookeeper, events, watch, server>>

(* ZooKeeper gives a session up that has not been heard of for too long.   *)
Expire(s) ==
    /\ "expire" \in Features
    /\ ~connected[s] /\ session[s] = "live" /\ Prompt(s)
    /\ session' = [session EXCEPT ![s] = "expired"]
    /\ owner' = [t \in Ticket |-> IF owner[t] = s THEN Free ELSE owner[t]]
    /\ Fire
    /\ UNCHANGED <<next, connected, events, server, missed>>

(* The client learns of it when it connects again; it closes the           *)
(* connection, and its watches fire.                                       *)
LearnExpired(s) ==
    /\ session[s] = "expired" /\ Settled(s)
    /\ pc[s] # "crashed"
    /\ session' = [session EXCEPT ![s] = "none"]
    /\ events' = [events EXCEPT ![s] = @ \o <<"Expired", "Disconnected">>]
    /\ watch' = [watch EXCEPT ![s] = IF @ = "armed" THEN "fired" ELSE @]
    /\ UNCHANGED <<zookeeper, connected, server, missed>>

(* A server is gone; its tickets stay until the session times out. *)
Crash(s) ==
    /\ "crash" \in Features
    /\ pc[s] # "crashed"
    /\ pc' = [pc EXCEPT ![s] = "crashed"]
    /\ owner' = [t \in Ticket |-> IF owner[t] = s THEN Ghost ELSE owner[t]]
    /\ session' = [session EXCEPT ![s] = "none"]
    /\ connected' = [connected EXCEPT ![s] = FALSE]
    /\ events' = [events EXCEPT ![s] = <<>>]
    /\ watch' = [watch EXCEPT ![s] = "none"]
    /\ got' = [got EXCEPT ![s] = <<>>]
    /\ ticket' = [ticket EXCEPT ![s] = 0]
    /\ tickets' = [tickets EXCEPT ![s] = {}]
    /\ cancel' = [cancel EXCEPT ![s] = FALSE]
    /\ ctx' = [ctx EXCEPT ![s] = FALSE]
    /\ missed' = [missed EXCEPT ![s] = FALSE]
    /\ UNCHANGED next

Restart(s) ==
    /\ Goto(s, "crashed", "check")
    /\ session' = [session EXCEPT ![s] = "live"]
    /\ connected' = [connected EXCEPT ![s] = TRUE]
    /\ UNCHANGED <<zookeeper, events, watch, got, ticket, tickets, cancel, ctx, missed>>

ExpireGhost(t) ==
    /\ owner[t] = Ghost
    /\ owner' = [owner EXCEPT ![t] = Free]
    /\ Fire
    /\ UNCHANGED <<next, session, connected, events, server, missed>>
-----------------------------------------------------------------------------
LoopNext(s) ==
    \/ CheckTicket(s) \/ Create(s) \/ Assign(s) \/ ChildrenW(s) \/ CallFails(s)
    \/ Decide(s) \/ Watched(s) \/ Retry(s) \/ Lead(s)
    \/ ~ctx[s] /\ StepDown(s)

EventNext(s) == HandleDisconnected(s) \/ HandleExpired(s)

ClientNext(s) == Reconnect(s) \/ LearnExpired(s)

Next ==
    \/ \E s \in Servers :
         \/ LoopNext(s) \/ EventNext(s) \/ ClientNext(s)
         \/ StepDown(s) \/ CreateUnheard(s)
         \/ Disconnect(s) \/ Expire(s) \/ Crash(s) \/ Restart(s)
    \/ \E t \in Ticket : ExpireGhost(t)

Spec == Init /\ [][Next]_vars

(* Goroutines that are ready run, a client that is disconnected tries to   *)
(* connect, and ZooKeeper removes the tickets of sessions nobody renews.   *)
Fairness ==
    /\ \A s \in Servers : WF_vars(LoopNext(s)) /\ WF_vars(EventNext(s)) /\ WF_vars(ClientNext(s))
    /\ \A t \in Ticket : WF_vars(ExpireGhost(t))

FairSpec == Spec /\ Fairness
-----------------------------------------------------------------------------
(* The server acts as the leader: the gauge and the API say so, and the    *)
(* context given to the controller has not been cancelled.                 *)
Leads(s) == pc[s] = "lead" /\ ctx[s]

(* At most one server leads at any time ("Indicates if instance is elected *)
(* as leader").  A disconnection handled between the answer of ChildrenW   *)
(* and Lead cancels nothing, and the server goes on without a session.     *)
AtMostOneLeader == \A r, s \in Servers : Leads(r) /\ Leads(s) => r = s

(* With that one exception a leader owns the lowest ticket, whatever       *)
(* becomes of connections, sessions, replies and servers.                  *)
LeaderHoldsTicket ==
    \A s \in Servers :
        Leads(s) /\ ~missed[s] =>
            /\ ticket[s] \in Dir /\ owner[ticket[s]] = s
            /\ \A t \in Dir : ticket[s] <= t

(* A server that has lost its session stops leading as soon as its client  *)
(* learns of it: what it missed does not outlive the partition.            *)
ReconnectedIsClean ==
    \A s \in Servers :
        Leads(s) /\ connected[s] => ticket[s] \in Dir /\ owner[ticket[s]] = s

(* A server that waits will be woken: its watch has fired, or a ticket     *)
(* before its own is there whose removal fires it.  The watch is set with  *)
(* the reading the decision rests on, so no removal falls between the two  *)
(* (isLeader, and `<-ch` in WaitUntilLeader).                              *)
NoLostWakeup ==
    \A s \in Servers :
        pc[s] = "wait" => watch[s] = "fired" \/ \E t \in Dir : t < ticket[s]

(* Whose turn it is: the owner of the lowest ticket, unless it is gone.     *)
Entitled ==
    {s \in Servers : \E t \in Dir : owner[t] = s /\ \A u \in Dir : t <= u}

Election == INSTANCE Leadership WITH
    leaders  <- {s \in Servers : Leads(s)},
    astray   <- {s \in Servers : Leads(s) /\ missed[s]},
    entitled <- Entitled

(* WaitUntilLeader keeps what it promises: a server starts to lead only    *)
(* when it is its turn, and until the turn passes its context has been     *)
(* cancelled, or the disconnection that should have done so was missed.    *)
ImplementsLeadership == Election!LeadershipSpec

(* A ticket its server does not know to be its own.                        *)
Orphaned(t) ==
    /\ owner[t] \in Servers
    /\ ticket[owner[t]] # t /\ got[owner[t]] # Path(t)

(* A ticket without a server that knows it stops the election until its    *)
(* session ends.  One comes about only when the reply to Create is lost:   *)
(* no order of expiry, of the reset of coord.ticket and of the calls of    *)
(* isLeader makes a server draw a second ticket beside one it holds, or    *)
(* forget one that is still there.                                         *)
OnlyUnheardAreOrphaned ==
    [][\A t \in Ticket :
          Orphaned(t)' /\ ~Orphaned(t) => \E s \in Servers : CreateUnheard(s)]_vars

NoOrphans == \A t \in Dir : ~Orphaned(t)

(* From some point on every server stays connected or is gone for good.    *)
Settling ==
    \A s \in Servers : <>[]connected[s] \/ <>[](pc[s] = "crashed")

(* The bound on tickets: nobody has one and none is left to be drawn. *)
SoldOut == Dir = {} /\ next \notin Ticket

(* Once connections are stable, some server leads ("WaitUntilLeader blocks *)
(* until this coordinator instance becomes a leader"), whatever has        *)
(* happened before: the leader was deposed, has ended or lost its ticket,  *)
(* and the next one was waiting.  Except where a ticket was drawn whose    *)
(* name never reached its server.                                          *)
LeaderElected ==
    Settling /\ <>[]NoOrphans =>
        []<>(\/ \E s \in Servers : Leads(s)
            \/ \A s \in Servers : pc[s] = "crashed"
            \/ SoldOut)
=============================================================================
