----------------------------- MODULE Leadership -----------------------------
(***************************************************************************)
(* What the election of a leader promises (coordinator/coordinator.go,     *)
(* WaitUntilLeader), without tickets, sessions and connections: servers    *)
(* take over and stop, one at a time it is the turn of one of them, and    *)
(* the turn does not pass while a server leads that can be told to stop.   *)
(*                                                                         *)
(* Coordinator implements this specification; Controller builds on it.     *)
(***************************************************************************)
CONSTANT Servers

VARIABLES
    leaders,      \* the servers whose context is live
    astray,       \* those of them that were not told what should stop them
    entitled      \* whose turn it is: nobody's, or that of one server

leadership == <<leaders, astray, entitled>>

Turns == {{}} \cup {{s} : s \in Servers}

(* The leaders that are what they take themselves for.                     *)
Rightful == leaders \ astray

LeadershipTypeOK ==
    /\ leaders \subseteq Servers
    /\ astray \subseteq leaders
    /\ entitled \in Turns

InitLeadership ==
    /\ leaders = {}
    /\ astray = {}
    /\ entitled = {}
-----------------------------------------------------------------------------
(* A server joins an empty line, leaves it, or is forgotten.               *)
Turn(e) ==
    /\ Rightful = {}
    /\ entitled' = e
    /\ UNCHANGED <<leaders, astray>>

(* WaitUntilLeader returns a context that can be cancelled...              *)
Take(s) ==
    /\ entitled = {s}
    /\ s \notin leaders
    /\ leaders' = leaders \cup {s}
    /\ UNCHANGED <<astray, entitled>>

(* ... or one that cannot: what should have cancelled it came too early.   *)
TakeAstray(s) ==
    /\ entitled = {s}
    /\ s \notin leaders
    /\ leaders' = leaders \cup {s}
    /\ astray' = astray \cup {s}
    /\ UNCHANGED entitled

(* The server is connected again and it is still its turn.                 *)
Recover(s) ==
    /\ s \in astray
    /\ entitled = {s}
    /\ astray' = astray \ {s}
    /\ UNCHANGED <<leaders, entitled>>

(* The context is cancelled, or the server has had enough of leading.      *)
Stop(s) ==
    /\ s \in leaders
    /\ leaders' = leaders \ {s}
    /\ astray' = astray \ {s}
    /\ UNCHANGED entitled

(* The server is gone; whose turn it is next is settled later.             *)
Gone(s) ==
    /\ leaders' = leaders \ {s}
    /\ astray' = astray \ {s}
    /\ entitled' = entitled \ {s}

NextLeadership ==
    \/ \E e \in Turns : Turn(e)
    \/ \E s \in Servers :
         Take(s) \/ TakeAstray(s) \/ Recover(s) \/ Stop(s) \/ Gone(s)

LeadershipSpec == InitLeadership /\ [][NextLeadership]_leadership
=============================================================================
