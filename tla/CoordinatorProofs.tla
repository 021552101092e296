------------------------- MODULE CoordinatorProofs -------------------------
(***************************************************************************)
(* Proofs about Coordinator for any number of servers and tickets and      *)
(* every choice of Features.                                               *)
(***************************************************************************)
EXTENDS Coordinator, TLAPS

(* What the goroutine of a server may have to handle.                      *)
Pending == {<<>>, <<"Disconnected">>, <<"Expired", "Disconnected">>}

(* Tickets are drawn in order, and their owners have a session.            *)
DirInv ==
    /\ \A t \in Dir : t < next
    /\ \A t \in Ticket : owner[t] \in Servers => session[owner[t]] = "live"

ClientInv(s) ==
    /\ events[s] \in Pending
    /\ connected[s] => events[s] = <<>> /\ session[s] = "live"
    /\ events[s] = <<"Expired", "Disconnected">> => session[s] = "none"
    /\ pc[s] = "crashed" => session[s] = "none" /\ ~connected[s] /\ events[s] = <<>>

HoldsLowest(s) ==
    /\ ticket[s] \in Ticket /\ owner[ticket[s]] = s
    /\ \A t \in Dir : ticket[s] <= t

(* A server that is about to decide, or has won, has a session; what it    *)
(* has read is still there, and what came later is higher.                 *)
LoopInv(s) ==
    /\ ticket[s] # 0 => ticket[s] < next /\ owner[ticket[s]] \in {s, Free}
    /\ pc[s] \in {"assign", "decide", "won"} => session[s] = "live"
    /\ pc[s] = "assign" =>
         \E t \in Ticket : got[s] = Path(t) /\ t < next /\ owner[t] = s
    /\ pc[s] = "decide" =>
         /\ \A u \in tickets[s] : u < next
         /\ \A t \in Dir \ tickets[s], u \in tickets[s] : u < t
         /\ ticket[s] \in tickets[s] => owner[ticket[s]] = s
    /\ pc[s] = "won" => HoldsLowest(s)
    /\ pc[s] \in {"decide", "won"} /\ ~missed[s] => connected[s] \/ events[s] # <<>>

(* A leader whose session is gone has yet to be told, and will be stopped  *)
(* then; one that has missed nothing has its session.                      *)
LeadInv(s) ==
    pc[s] = "lead" /\ ctx[s] =>
        /\ cancel[s]
        /\ session[s] = "live" => HoldsLowest(s)
        /\ session[s] = "none" => events[s] # <<>>
        /\ ~missed[s] => session[s] = "live" /\ (connected[s] \/ events[s] # <<>>)

ServerInv(s) == ClientInv(s) /\ LoopInv(s) /\ LeadInv(s)

IInv == TypeOK /\ DirInv /\ \A s \in Servers : ServerInv(s)
-----------------------------------------------------------------------------
(* Putting events into the queue and taking the first one off.             *)
LEMMA Queueing ==
    /\ Append(<<>>, "Disconnected") = <<"Disconnected">>
    /\ <<>> \o <<"Expired", "Disconnected">> = <<"Expired", "Disconnected">>
    /\ Tail(<<"Disconnected">>) = <<>>
    /\ Tail(<<"Expired", "Disconnected">>) = <<"Disconnected">>
OBVIOUS

LEMMA Queues ==
    /\ <<"Disconnected">> # <<>> /\ <<"Expired", "Disconnected">> # <<>>
    /\ <<"Disconnected">> # <<"Expired", "Disconnected">>
    /\ Head(<<"Disconnected">>) = "Disconnected"
    /\ Head(<<"Expired", "Disconnected">>) = "Expired"
    /\ "Expired" # "Disconnected"
OBVIOUS

LEMMA PendingQueues == \A q \in Pending : q \in Seq({"Disconnected", "Expired"})
<1> DEFINE E == {"Disconnected", "Expired"}
<1>1. <<>> \in Seq(E)
  OBVIOUS
<1>2. "Disconnected" \in E /\ "Expired" \in E
  OBVIOUS
<1> HIDE DEF E
<1>3. <<"Disconnected">> \in Seq(E)
  BY <1>2
<1>4. <<"Expired", "Disconnected">> \in Seq(E)
  BY <1>2
<1>5. \A q \in Pending : q \in Seq(E)
  BY <1>1, <1>3, <1>4 DEF Pending
<1> QED
  BY <1>5 DEF E

(* The ticket is found again in the name that was made of it.              *)
LEMMA Names == \A t \in Ticket : LastPart(Path(t)) = t
BY DEF LastPart, Path, Ticket

(* The directory as one server sees it when others change it: its own      *)
(* tickets stay, those that are gone do not come back, new ones are        *)
(* higher.                                                                 *)
DirStep(r) ==
    /\ \A t \in Ticket : owner[t] = r => owner'[t] = r
    /\ \A t \in Ticket : owner[t] = Free /\ t < next => owner'[t] = Free
    /\ \A t \in Dir' : t \in Dir \/ t >= next
    /\ next <= next'

(* Nothing of the server itself changes, but its watch.                    *)
Same(r) ==
    /\ session'[r] = session[r] /\ connected'[r] = connected[r] /\ events'[r] = events[r]
    /\ pc'[r] = pc[r] /\ got'[r] = got[r] /\ ticket'[r] = ticket[r]
    /\ tickets'[r] = tickets[r] /\ cancel'[r] = cancel[r] /\ ctx'[r] = ctx[r]
    /\ missed'[r] = missed[r]

LEMMA LowestKept ==
    ASSUME IInv, TypeOK', NEW r \in Servers, HoldsLowest(r), DirStep(r),
           ticket'[r] = ticket[r], ticket[r] < next
    PROVE  HoldsLowest(r)'
BY TicketAssumption, OwnerAssumption
   DEF IInv, TypeOK, HoldsLowest, DirStep, Dir, Ticket

LEMMA LoopKept ==
    ASSUME IInv, TypeOK', NEW r \in Servers, DirStep(r), Same(r)
    PROVE  LoopInv(r)'
<1> USE TicketAssumption, OwnerAssumption DEF IInv, ServerInv
<1>1. LoopInv(r) /\ TypeOK
  OBVIOUS
<1>2. ticket'[r] # 0 => ticket'[r] < next' /\ owner'[ticket'[r]] \in {r, Free}
  BY <1>1 DEF LoopInv, TypeOK, DirStep, Same, Ticket
<1>3. pc'[r] \in {"assign", "decide", "won"} => session'[r] = "live"
  BY <1>1 DEF LoopInv, Same
<1>4. ASSUME pc'[r] = "assign"
      PROVE  \E t \in Ticket : got'[r] = Path(t) /\ t < next' /\ owner'[t] = r
  <2>1. PICK t \in Ticket : got[r] = Path(t) /\ t < next /\ owner[t] = r
    BY <1>1, <1>4 DEF LoopInv, Same
  <2>2. got'[r] = Path(t) /\ t < next' /\ owner'[t] = r
    BY <2>1 DEF DirStep, Same, TypeOK, Ticket
  <2> QED
    BY <2>2
<1>5. ASSUME pc'[r] = "decide"
      PROVE  /\ \A u \in tickets'[r] : u < next'
             /\ \A t \in Dir' \ tickets'[r], u \in tickets'[r] : u < t
             /\ ticket'[r] \in tickets'[r] => owner'[ticket'[r]] = r
  <2>1. tickets'[r] = tickets[r] /\ ticket'[r] = ticket[r] /\ tickets[r] \subseteq Ticket
    BY DEF Same, TypeOK
  <2>2. /\ \A u \in tickets[r] : u < next
        /\ \A t \in Dir \ tickets[r], u \in tickets[r] : u < t
        /\ ticket[r] \in tickets[r] => owner[ticket[r]] = r
    BY <1>1, <1>5 DEF LoopInv, Same
  <2>3. Dir' \subseteq Ticket
    BY DEF Dir
  <2>4. next \in Nat /\ next' \in Nat
    BY DEF TypeOK
  <2> QED
    BY <2>1, <2>2, <2>3, <2>4 DEF DirStep, Ticket
<1>6. pc'[r] = "won" => HoldsLowest(r)'
  BY <1>1, LowestKept DEF LoopInv, Same, HoldsLowest, Ticket
<1>7. pc'[r] \in {"decide", "won"} /\ ~missed'[r] => connected'[r] \/ events'[r] # <<>>
  BY <1>1 DEF LoopInv, Same
<1> QED
  BY <1>2, <1>3, <1>4, <1>5, <1>6, <1>7 DEF LoopInv

LEMMA LeadKept ==
    ASSUME IInv, TypeOK', NEW r \in Servers, DirStep(r),
           pc'[r] = pc[r], ctx'[r] = ctx[r], cancel'[r] = cancel[r],
           session'[r] = session[r], events'[r] # <<>> \/ events'[r] = events[r],
           ~missed'[r] => ~missed[r],
           connected[r] => connected'[r] \/ events'[r] # <<>>,
           ticket'[r] = ticket[r]
    PROVE  LeadInv(r)'
<1>1. LeadInv(r) /\ LoopInv(r)
  BY DEF IInv, ServerInv
<1>2. HoldsLowest(r) => HoldsLowest(r)'
  BY <1>1, LowestKept DEF LoopInv, HoldsLowest, Ticket
<1> QED
  BY <1>1, <1>2 DEF LeadInv

LEMMA Kept ==
    ASSUME IInv, TypeOK', NEW r \in Servers, DirStep(r), Same(r)
    PROVE  ServerInv(r)'
<1>1. ClientInv(r)'
  BY DEF IInv, ServerInv, ClientInv, Same
<1>2. LeadInv(r)'
  BY LeadKept DEF Same
<1> QED
  BY <1>1, <1>2, LoopKept DEF ServerInv

LEMMA TicketKept ==
    ASSUME IInv, NEW s \in Servers, DirStep(s), ticket'[s] = ticket[s], next' \in Nat
    PROVE  ticket'[s] # 0 => ticket'[s] < next' /\ owner'[ticket'[s]] \in {s, Free}
<1>1. LoopInv(s) /\ TypeOK
  BY DEF IInv, ServerInv
<1> QED
  BY <1>1, TicketAssumption, OwnerAssumption DEF LoopInv, TypeOK, DirStep, Ticket

(* A server in the middle of nothing that depends on the directory.        *)
LEMMA AtEase ==
    ASSUME IInv, TypeOK', NEW s \in Servers,
           pc'[s] \notin {"assign", "decide", "won", "lead", "crashed"},
           ClientInv(s)',
           \/ ticket'[s] = 0
           \/ ticket'[s] = ticket[s] /\ DirStep(s)
    PROVE  ServerInv(s)'
<1>1. next' \in Nat
  BY DEF TypeOK
<1>2. ticket'[s] # 0 => ticket'[s] < next' /\ owner'[ticket'[s]] \in {s, Free}
  BY <1>1, TicketKept
<1>3. LoopInv(s)' /\ LeadInv(s)'
  BY <1>2 DEF LoopInv, LeadInv
<1> QED
  BY <1>3 DEF ServerInv
-----------------------------------------------------------------------------
(* What steps do to the directory.                                         *)

LEMMA DirSame ==
    ASSUME IInv, UNCHANGED zookeeper
    PROVE  /\ \A r \in Servers : DirStep(r)
           /\ (\A r \in Servers : session[r] = "live" => session'[r] = "live") => DirInv'
<1>1. owner' = owner /\ next' = next /\ next \in Nat /\ TypeOK /\ DirInv
  BY DEF zookeeper, IInv, TypeOK
<1>2. Dir' = Dir
  BY <1>1 DEF Dir
<1>3. \A r \in Servers : DirStep(r)
  BY <1>1, <1>2 DEF DirStep
<1>4. ASSUME \A r \in Servers : session[r] = "live" => session'[r] = "live" PROVE DirInv'
  BY <1>1, <1>2, <1>4 DEF DirInv
<1> QED
  BY <1>3, <1>4

LEMMA DirNew ==
    ASSUME IInv, NEW s \in Servers, NewTicket(s)
    PROVE  /\ \A r \in Servers : DirStep(r)
           /\ session' = session => DirInv'
           /\ next \in Ticket /\ next < next' /\ owner'[next] = s
<1> USE TicketAssumption, OwnerAssumption
<1>1. /\ next \in Ticket /\ next \in Nat /\ next' = next + 1 /\ session[s] = "live"
      /\ owner' = [owner EXCEPT ![next] = s]
      /\ owner \in [Ticket -> Servers \cup {Free, Ghost}]
  BY DEF NewTicket, Online, IInv, TypeOK, Ticket
<1>2. \A t \in Dir : t < next
  BY DEF IInv, DirInv
<1>3. owner[next] = Free
  BY <1>1, <1>2 DEF Dir
<1>4. Dir' = Dir \cup {next}
  BY <1>1 DEF Dir
<1>5. ASSUME NEW r \in Servers PROVE DirStep(r)
  <2>1. \A t \in Ticket : owner[t] = r => owner'[t] = r
    BY <1>1, <1>3
  <2>2. \A t \in Ticket : owner[t] = Free /\ t < next => owner'[t] = Free
    BY <1>1
  <2>3. \A t \in Dir' : t \in Dir \/ t >= next
    BY <1>1, <1>4
  <2> QED
    BY <1>1, <2>1, <2>2, <2>3 DEF DirStep
<1>6. ASSUME session' = session PROVE DirInv'
  <2>1. \A t \in Dir' : t < next'
    BY <1>1, <1>2, <1>4 DEF Dir, Ticket
  <2>2. \A t \in Ticket : owner'[t] \in Servers => session'[owner'[t]] = "live"
    BY <1>1, <1>6 DEF IInv, DirInv
  <2> QED
    BY <2>1, <2>2 DEF DirInv
<1> QED
  BY <1>1, <1>5, <1>6

(* The tickets of a server are given up, or their server is gone.          *)
LEMMA DirGone ==
    ASSUME IInv, NEW s \in Servers, NEW o \in {Free, Ghost},
           owner' = [t \in Ticket |-> IF owner[t] = s THEN o ELSE owner[t]],
           next' = next,
           \A r \in Servers \ {s} : session'[r] = session[r]
    PROVE  (\A r \in Servers \ {s} : DirStep(r)) /\ DirInv'
<1> USE TicketAssumption, OwnerAssumption
<1>1. next \in Nat /\ owner \in [Ticket -> Servers \cup {Free, Ghost}]
  BY DEF IInv, TypeOK
<1>2. Dir' \subseteq Dir
  BY <1>1 DEF Dir
<1>3. ASSUME NEW r \in Servers \ {s} PROVE DirStep(r)
  BY <1>1, <1>2 DEF DirStep
<1>4. \A t \in Dir' : t < next'
  BY <1>2 DEF IInv, DirInv
<1>5. \A t \in Ticket : owner'[t] \in Servers => session'[owner'[t]] = "live"
  BY <1>1 DEF IInv, DirInv
<1> QED
  BY <1>3, <1>4, <1>5 DEF DirInv
-----------------------------------------------------------------------------
(* A step of one server: the others see the directory change at most.      *)
LEMMA OneServer ==
    ASSUME IInv, TypeOK', DirInv', NEW s \in Servers,
           \A r \in Servers \ {s} : Same(r) /\ DirStep(r),
           ServerInv(s)'
    PROVE  IInv'
<1>1. ASSUME NEW r \in Servers PROVE ServerInv(r)'
  BY Kept
<1> QED
  BY <1>1 DEF IInv

LEMMA ClientSame ==
    ASSUME IInv, NEW s \in Servers,
           session'[s] = session[s], connected'[s] = connected[s], events'[s] = events[s],
           pc'[s] # "crashed"
    PROVE  ClientInv(s)'
BY DEF IInv, ServerInv, ClientInv

(* The loop gets on without deciding anything.                             *)
LEMMA Onward ==
    ASSUME IInv, TypeOK', NEW s \in Servers,
           NEW to \in Pc \ {"assign", "decide", "won", "lead", "crashed"},
           pc' = [pc EXCEPT ![s] = to],
           UNCHANGED <<zookeeper, session, connected, events, got, ticket, cancel, ctx, missed>>,
           \A r \in Servers \ {s} : tickets'[r] = tickets[r]
    PROVE  IInv'
<1>1. DirInv' /\ \A r \in Servers : DirStep(r)
  BY DirSame
<1>2. pc'[s] = to /\ \A r \in Servers \ {s} : pc'[r] = pc[r]
  BY DEF IInv, TypeOK
<1>3. \A r \in Servers \ {s} : Same(r)
  BY <1>2 DEF Same
<1>4. ClientInv(s)'
  BY <1>2, ClientSame
<1>5. ServerInv(s)'
  BY <1>1, <1>2, <1>4, AtEase
<1> QED
  BY <1>1, <1>3, <1>5, OneServer

LEMMA DoCheckTicket ==
    ASSUME IInv, NEW s \in Servers, CheckTicket(s) PROVE IInv'
<1>1. TypeOK'
  BY DEF IInv, TypeOK, CheckTicket, AfterCheck, Goto, Pc, zookeeper, client
<1> QED
  BY <1>1, Onward DEF CheckTicket, AfterCheck, Goto, Pc, client

LEMMA DoCallFails ==
    ASSUME IInv, NEW s \in Servers, CallFails(s) PROVE IInv'
<1>1. TypeOK'
  BY DEF IInv, TypeOK, CallFails, Goto, Pc, zookeeper, client
<1> QED
  BY <1>1, Onward DEF CallFails, Goto, Pc, client

LEMMA DoWatched ==
    ASSUME IInv, NEW s \in Servers, Watched(s) PROVE IInv'
<1>1. TypeOK'
  BY DEF IInv, TypeOK, Watched, AfterWatch, Unwatch, Goto, Pc, zookeeper
<1> QED
  BY <1>1, Onward DEF Watched, AfterWatch, Goto, Pc

LEMMA DoRetry ==
    ASSUME IInv, NEW s \in Servers, Retry(s) PROVE IInv'
<1>1. TypeOK'
  BY DEF IInv, TypeOK, Retry, Goto, Pc, zookeeper, client
<1> QED
  BY <1>1, Onward DEF Retry, Goto, Pc, client

LEMMA DoStepDown ==
    ASSUME IInv, NEW s \in Servers, StepDown(s) PROVE IInv'
<1>1. TypeOK'
  BY DEF IInv, TypeOK, StepDown, Goto, Pc, zookeeper, client
<1> QED
  BY <1>1, Onward DEF StepDown, Goto, Pc, client
-----------------------------------------------------------------------------
(* A ticket is drawn, heard of or not, and assigned.                       *)

LEMMA TypeNew ==
    ASSUME IInv, NEW s \in Servers, NewTicket(s)
    PROVE  /\ owner' \in [Ticket -> Servers \cup {Free, Ghost}]
           /\ next' \in 1..(MaxTicket + 1)
           /\ watch' \in [Servers -> {"none", "armed", "fired"}]
<1>1. next \in Ticket /\ TypeOK
  BY DEF NewTicket, IInv
<1>2. next' \in 1..(MaxTicket + 1)
  BY <1>1, TicketAssumption DEF NewTicket, Ticket
<1> QED
  BY <1>1, <1>2 DEF NewTicket, Fire, TypeOK

LEMMA DoCreate ==
    ASSUME IInv, NEW s \in Servers, Create(s) PROVE IInv'
<1>0. NewTicket(s) /\ TypeOK
  BY DEF Create, IInv
<1>1. next \in Ticket /\ next < next' /\ owner'[next] = s /\ DirInv'
      /\ \A r \in Servers : DirStep(r)
  BY <1>0, DirNew DEF Create
<1>2. pc' = [pc EXCEPT ![s] = "assign"] /\ got' = [got EXCEPT ![s] = Path(next)]
  BY DEF Create, Goto
<1>3. TypeOK'
  BY <1>0, <1>1, <1>2, TypeNew DEF Create, TypeOK, Pc
<1>4. \A r \in Servers \ {s} : Same(r)
  BY <1>0, <1>2 DEF Create, Same, TypeOK
<1>5. pc'[s] = "assign" /\ got'[s] = Path(next) /\ session'[s] = "live"
  BY <1>0, <1>2 DEF TypeOK, Create, NewTicket, Online
<1>6. ClientInv(s)'
  BY <1>5, ClientSame DEF Create
<1>7. LoopInv(s)'
  <2>0. ticket'[s] = ticket[s] /\ DirStep(s) /\ next' \in Nat
    BY <1>1, <1>3 DEF Create, TypeOK
  <2>1. ticket'[s] # 0 => ticket'[s] < next' /\ owner'[ticket'[s]] \in {s, Free}
    BY <2>0, TicketKept
  <2> QED
    BY <1>1, <1>5, <2>1 DEF LoopInv
<1>8. LeadInv(s)'
  BY <1>5 DEF LeadInv
<1> QED
  BY <1>1, <1>3, <1>4, <1>6, <1>7, <1>8, OneServer DEF ServerInv

LEMMA DoCreateUnheard ==
    ASSUME IInv, NEW s \in Servers, CreateUnheard(s) PROVE IInv'
<1>0. NewTicket(s) /\ TypeOK /\ ClientInv(s)
  BY DEF CreateUnheard, IInv, ServerInv
<1>1. DirInv' /\ \A r \in Servers : DirStep(r)
  BY <1>0, DirNew DEF CreateUnheard
<1>2. pc' = [pc EXCEPT ![s] = "backoff"]
  BY DEF CreateUnheard, Goto
<1>3. events[s] = <<>>
  BY <1>0 DEF NewTicket, Online, ClientInv
<1>4. events' = [events EXCEPT ![s] = <<"Disconnected">>]
  BY <1>3, Queueing DEF CreateUnheard
<1>5. <<"Disconnected">> \in Pending /\ <<"Disconnected">> \in Seq({"Disconnected", "Expired"})
  BY PendingQueues DEF Pending
<1>6. TypeOK'
  BY <1>0, <1>1, <1>2, <1>4, <1>5, TypeNew DEF CreateUnheard, TypeOK, Pc
<1>7. \A r \in Servers \ {s} : Same(r)
  BY <1>0, <1>2, <1>4 DEF CreateUnheard, Same, TypeOK
<1>8. pc'[s] = "backoff" /\ events'[s] = <<"Disconnected">> /\ ~connected'[s]
  BY <1>0, <1>2, <1>4 DEF TypeOK, CreateUnheard
<1>9. ClientInv(s)'
  BY <1>5, <1>8, Queues DEF ClientInv
<1>10. ServerInv(s)'
  BY <1>1, <1>6, <1>8, <1>9, AtEase DEF CreateUnheard
<1> QED
  BY <1>1, <1>6, <1>7, <1>10, OneServer

LEMMA DoAssign ==
    ASSUME IInv, NEW s \in Servers, Assign(s) PROVE IInv'
<1>0. TypeOK /\ LoopInv(s) /\ pc[s] = "assign" /\ UNCHANGED <<zookeeper, client>>
  BY DEF Assign, Goto, IInv, ServerInv
<1>1. PICK t \in Ticket : got[s] = Path(t) /\ t < next /\ owner[t] = s
  BY <1>0 DEF LoopInv
<1>2. ticket' = [ticket EXCEPT ![s] = t]
  BY <1>1, Names DEF Assign
<1>3. TypeOK'
  BY <1>0, <1>2 DEF Assign, Goto, TypeOK, zookeeper, client, Pc
<1>4. DirInv' /\ \A r \in Servers : DirStep(r)
  BY <1>0, DirSame DEF client
<1>5. \A r \in Servers \ {s} : Same(r)
  BY <1>0, <1>2 DEF Assign, Goto, Same, TypeOK, client
<1>6. pc'[s] = "children" /\ ticket'[s] = t
  BY <1>0, <1>2 DEF Assign, Goto, TypeOK
<1>7. ClientInv(s)'
  BY <1>0, <1>6, ClientSame DEF client
<1>8. LoopInv(s)' /\ LeadInv(s)'
  BY <1>0, <1>1, <1>6 DEF LoopInv, LeadInv, zookeeper
<1> QED
  BY <1>3, <1>4, <1>5, <1>7, <1>8, OneServer DEF ServerInv
-----------------------------------------------------------------------------
(* The directory is read, and a decision made.                             *)

LEMMA DoChildrenW ==
    ASSUME IInv, NEW s \in Servers, ChildrenW(s) PROVE IInv'
<1>0. /\ TypeOK /\ DirInv /\ LoopInv(s)
      /\ connected[s] /\ session[s] = "live" /\ UNCHANGED zookeeper
  BY DEF ChildrenW, Online, IInv, ServerInv
<1>1. Dir \subseteq Ticket /\ Dir' = Dir
  BY <1>0 DEF Dir, zookeeper
<1>2. tickets' = [tickets EXCEPT ![s] = Dir] /\ pc' = [pc EXCEPT ![s] = "decide"]
  BY DEF ChildrenW, Goto
<1>3. TypeOK'
  BY <1>0, <1>1, <1>2 DEF ChildrenW, Watch, TypeOK, zookeeper, Pc
<1>4. DirInv' /\ \A r \in Servers : DirStep(r)
  BY <1>0, DirSame DEF ChildrenW
<1>5. \A r \in Servers \ {s} : Same(r)
  BY <1>0, <1>2 DEF ChildrenW, Same, TypeOK
<1>6. pc'[s] = "decide" /\ tickets'[s] = Dir
  BY <1>0, <1>2 DEF TypeOK
<1>7. ClientInv(s)'
  BY <1>6, ClientSame DEF ChildrenW
<1>8. ticket[s] \in Dir => owner[ticket[s]] = s
  BY <1>0, TicketAssumption DEF LoopInv, Dir, Ticket
<1>9. LoopInv(s)' /\ LeadInv(s)'
  BY <1>0, <1>1, <1>6, <1>8 DEF LoopInv, LeadInv, DirInv, ChildrenW, zookeeper
<1> QED
  BY <1>3, <1>4, <1>5, <1>7, <1>9, OneServer DEF ServerInv

LEMMA DoDecide ==
    ASSUME IInv, NEW s \in Servers, Decide(s) PROVE IInv'
<1>0. /\ TypeOK /\ LoopInv(s) /\ pc[s] = "decide" /\ UNCHANGED zookeeper
      /\ tickets' = [tickets EXCEPT ![s] = {}]
      /\ UNCHANGED <<session, connected, events, got, ticket, cancel, ctx, missed>>
  BY DEF Decide, Goto, IInv, ServerInv
<1>1. TypeOK'
  BY <1>0 DEF Decide, Goto, Unwatch, TypeOK, zookeeper, Pc
<1>2. CASE pc' = [pc EXCEPT ![s] = "wait"] \/ pc' = [pc EXCEPT ![s] = "backoff"]
  BY <1>0, <1>1, <1>2, Onward DEF TypeOK, Pc
<1>3. CASE pc' = [pc EXCEPT ![s] = "won"] /\ Lowest(s)
  <2>1. DirInv' /\ \A r \in Servers : DirStep(r)
    BY <1>0, DirSame
  <2>2. \A r \in Servers \ {s} : Same(r)
    BY <1>0, <1>3 DEF Same, TypeOK
  <2>3. pc'[s] = "won"
    BY <1>0, <1>3 DEF TypeOK
  <2>4. ClientInv(s)'
    BY <1>0, <2>3, ClientSame
  <2>5. HoldsLowest(s)
    <3>1. ticket[s] \in tickets[s] /\ \A u \in tickets[s] : ticket[s] <= u
      BY <1>3 DEF Lowest
    <3>2. ticket[s] \in Ticket /\ owner[ticket[s]] = s
      BY <1>0, <3>1 DEF LoopInv, TypeOK
    <3>3. \A t \in Dir : ticket[s] <= t
      BY <1>0, <3>1, <3>2 DEF LoopInv, Dir, Ticket
    <3> QED
      BY <3>2, <3>3 DEF HoldsLowest
  <2>6. HoldsLowest(s)'
    BY <1>0, <2>5 DEF HoldsLowest, Dir, zookeeper
  <2>7. LoopInv(s)' /\ LeadInv(s)'
    BY <1>0, <2>3, <2>6 DEF LoopInv, LeadInv, zookeeper
  <2> QED
    BY <1>1, <2>1, <2>2, <2>4, <2>7, OneServer DEF ServerInv
<1> QED
  BY <1>2, <1>3 DEF Decide, Goto

LEMMA DoLead ==
    ASSUME IInv, NEW s \in Servers, Lead(s) PROVE IInv'
<1>0. /\ TypeOK /\ LoopInv(s) /\ pc[s] = "won"
      /\ UNCHANGED <<zookeeper, client, got, ticket, tickets, missed>>
  BY DEF Lead, Goto, IInv, ServerInv
<1>1. TypeOK'
  BY <1>0 DEF Lead, Goto, TypeOK, zookeeper, client, Pc
<1>2. DirInv' /\ \A r \in Servers : DirStep(r)
  BY <1>0, DirSame DEF client
<1>3. \A r \in Servers \ {s} : Same(r)
  BY <1>0 DEF Lead, Goto, Same, TypeOK, client
<1>4. pc'[s] = "lead" /\ cancel'[s]
  BY <1>0 DEF Lead, Goto, TypeOK
<1>5. ClientInv(s)'
  BY <1>0, <1>4, ClientSame DEF client
<1>6. HoldsLowest(s)'
  BY <1>0 DEF LoopInv, HoldsLowest, Dir, zookeeper
<1>7. session'[s] = "live" /\ (~missed'[s] => connected'[s] \/ events'[s] # <<>>)
  BY <1>0 DEF LoopInv, client
<1>8. LoopInv(s)' /\ LeadInv(s)'
  BY <1>0, <1>4, <1>6, <1>7 DEF LoopInv, LeadInv, zookeeper
<1> QED
  BY <1>1, <1>2, <1>3, <1>5, <1>8, OneServer DEF ServerInv
-----------------------------------------------------------------------------
(* Events are handled.                                                     *)

LEMMA DoHandleDisconnected ==
    ASSUME IInv, NEW s \in Servers, HandleDisconnected(s) PROVE IInv'
<1>0. /\ TypeOK /\ ClientInv(s) /\ LoopInv(s) /\ LeadInv(s)
      /\ UNCHANGED <<zookeeper, session, connected, watch, pc, got, ticket, tickets>>
  BY DEF HandleDisconnected, IInv, ServerInv
<1>1. events[s] = <<"Disconnected">>
  BY <1>0, Queues DEF HandleDisconnected, ClientInv, Pending
<1>2. events' = [events EXCEPT ![s] = <<>>]
  BY <1>1, Queueing DEF HandleDisconnected
<1>3. /\ cancel' = [cancel EXCEPT ![s] = FALSE]
      /\ ctx' = [ctx EXCEPT ![s] = ctx[s] /\ ~cancel[s]]
      /\ missed' = [missed EXCEPT ![s] = pc[s] \in {"decide", "won"}]
  BY DEF HandleDisconnected, Cancel
<1>4. TypeOK'
  <2>1. events' \in [Servers -> Seq({"Disconnected", "Expired"})]
    BY <1>0, <1>2, PendingQueues DEF TypeOK, Pending
  <2>2. /\ cancel' \in [Servers -> BOOLEAN] /\ ctx' \in [Servers -> BOOLEAN]
        /\ missed' \in [Servers -> BOOLEAN]
    BY <1>0, <1>3 DEF TypeOK
  <2> QED
    BY <1>0, <2>1, <2>2 DEF TypeOK, zookeeper
<1>5. DirInv' /\ \A r \in Servers : DirStep(r)
  BY <1>0, DirSame
<1>6. \A r \in Servers \ {s} : Same(r)
  BY <1>0, <1>2, <1>3 DEF Same, TypeOK
<1>7. events'[s] = <<>>
  BY <1>0, <1>2 DEF TypeOK
<1>8. pc[s] # "crashed" /\ ~connected[s]
  BY <1>0, <1>1, Queues DEF ClientInv
<1>9. ClientInv(s)'
  BY <1>0, <1>7, <1>8, Queues DEF ClientInv, Pending
<1>10. pc[s] \in {"decide", "won"} => missed'[s]
  BY <1>0, <1>3 DEF TypeOK
<1>11. LoopInv(s)'
  BY <1>0, <1>10 DEF LoopInv, HoldsLowest, Dir, zookeeper
<1>12. ~(pc[s] = "lead" /\ ctx'[s])
  BY <1>0, <1>3 DEF LeadInv, TypeOK
<1>13. LeadInv(s)'
  BY <1>0, <1>12 DEF LeadInv
<1> QED
  BY <1>4, <1>5, <1>6, <1>9, <1>11, <1>13, OneServer DEF ServerInv

LEMMA DoHandleExpired ==
    ASSUME IInv, NEW s \in Servers, HandleExpired(s) PROVE IInv'
<1>0. /\ TypeOK /\ ClientInv(s) /\ LoopInv(s) /\ LeadInv(s)
      /\ UNCHANGED <<zookeeper, session, connected, watch, pc, got, tickets, cancel,
                     ctx, missed>>
  BY DEF HandleExpired, IInv, ServerInv
<1>1. events[s] = <<"Expired", "Disconnected">>
  BY <1>0, Queues DEF HandleExpired, ClientInv, Pending
<1>2. events' = [events EXCEPT ![s] = <<"Disconnected">>]
  BY <1>1, Queueing DEF HandleExpired
<1>3. ticket' = [ticket EXCEPT ![s] = 0]
  BY DEF HandleExpired, ForgetTicket
<1>4. TypeOK'
  <2>1. events' \in [Servers -> Seq({"Disconnected", "Expired"})]
    BY <1>0, <1>2, PendingQueues DEF TypeOK, Pending
  <2> QED
    BY <1>0, <1>3, <2>1 DEF TypeOK, zookeeper
<1>5. DirInv' /\ \A r \in Servers : DirStep(r)
  BY <1>0, DirSame
<1>6. \A r \in Servers \ {s} : Same(r)
  BY <1>0, <1>2, <1>3 DEF Same, TypeOK
<1>7. events'[s] = <<"Disconnected">> /\ ticket'[s] = 0
  BY <1>0, <1>2, <1>3 DEF TypeOK
<1>8. session[s] = "none" /\ ~connected[s] /\ pc[s] # "crashed"
  BY <1>0, <1>1, Queues DEF ClientInv
<1>9. ClientInv(s)'
  BY <1>0, <1>7, <1>8, Queues DEF ClientInv, Pending
<1>10. pc[s] \notin {"assign", "decide", "won"}
  BY <1>0, <1>8 DEF LoopInv
<1>11. LoopInv(s)'
  BY <1>0, <1>7, <1>10 DEF LoopInv
<1>12. LeadInv(s)'
  BY <1>0, <1>7, <1>8, Queues DEF LeadInv
<1> QED
  BY <1>4, <1>5, <1>6, <1>9, <1>11, <1>12, OneServer DEF ServerInv
-----------------------------------------------------------------------------
(* Connections and sessions come and go.                                   *)

LEMMA DoDisconnect ==
    ASSUME IInv, NEW s \in Servers, Disconnect(s) PROVE IInv'
<1>0. /\ TypeOK /\ ClientInv(s) /\ LoopInv(s) /\ LeadInv(s) /\ connected[s]
      /\ UNCHANGED <<zookeeper, session, watch, server, missed>>
  BY DEF Disconnect, IInv, ServerInv
<1>1. events[s] = <<>> /\ session[s] = "live" /\ pc[s] # "crashed"
  BY <1>0 DEF ClientInv
<1>2. /\ events' = [events EXCEPT ![s] = <<"Disconnected">>]
      /\ connected' = [connected EXCEPT ![s] = FALSE]
  BY <1>1, Queueing DEF Disconnect
<1>3. TypeOK'
  <2>1. events' \in [Servers -> Seq({"Disconnected", "Expired"})]
    BY <1>0, <1>2, PendingQueues DEF TypeOK, Pending
  <2> QED
    BY <1>0, <1>2, <2>1 DEF TypeOK, zookeeper, server
<1>4. DirInv' /\ \A r \in Servers : DirStep(r)
  BY <1>0, DirSame
<1>5. \A r \in Servers \ {s} : Same(r)
  BY <1>0, <1>2 DEF Same, TypeOK, server
<1>6. events'[s] = <<"Disconnected">> /\ ~connected'[s]
  BY <1>0, <1>2 DEF TypeOK
<1>7. ClientInv(s)'
  BY <1>0, <1>1, <1>6, Queues DEF ClientInv, Pending, server
<1>8. LoopInv(s)'
  BY <1>0, <1>6, Queues DEF LoopInv, HoldsLowest, Dir, zookeeper, server
<1>9. LeadInv(s)'
  BY <1>0, <1>3, <1>4, <1>6, Queues, LeadKept DEF server
<1> QED
  BY <1>3, <1>4, <1>5, <1>7, <1>8, <1>9, OneServer DEF ServerInv

LEMMA DoReconnect ==
    ASSUME IInv, NEW s \in Servers, Reconnect(s) PROVE IInv'
<1>0. /\ TypeOK /\ ClientInv(s) /\ LoopInv(s) /\ LeadInv(s)
      /\ events[s] = <<>> /\ pc[s] # "crashed" /\ session[s] # "expired"
      /\ UNCHANGED <<zookeeper, events, watch, server>>
      /\ connected' = [connected EXCEPT ![s] = TRUE]
      /\ session' = [session EXCEPT ![s] = "live"]
      /\ missed' = [missed EXCEPT ![s] = FALSE]
  BY DEF Reconnect, Settled, IInv, ServerInv
<1>1. TypeOK'
  BY <1>0 DEF TypeOK, zookeeper, server
<1>2. DirInv' /\ \A r \in Servers : DirStep(r)
  BY <1>0, DirSame DEF TypeOK
<1>3. \A r \in Servers \ {s} : Same(r)
  BY <1>0 DEF Same, TypeOK, server
<1>4. connected'[s] /\ session'[s] = "live" /\ session[s] \in {"none", "live"}
  BY <1>0 DEF TypeOK
<1>5. ClientInv(s)'
  BY <1>0, <1>4, Queues DEF ClientInv, server
<1>6. LoopInv(s)'
  BY <1>0, <1>4 DEF LoopInv, HoldsLowest, Dir, zookeeper, server
<1>7. LeadInv(s)'
  BY <1>0, <1>4 DEF LeadInv, HoldsLowest, Dir, zookeeper, server
<1> QED
  BY <1>1, <1>2, <1>3, <1>5, <1>6, <1>7, OneServer DEF ServerInv

LEMMA DoExpire ==
    ASSUME IInv, NEW s \in Servers, Expire(s) PROVE IInv'
<1>0. /\ TypeOK /\ ClientInv(s) /\ LoopInv(s) /\ LeadInv(s)
      /\ ~connected[s] /\ session[s] = "live" /\ events[s] = <<>>
      /\ pc[s] \notin {"assign", "decide", "won"}
      /\ session' = [session EXCEPT ![s] = "expired"]
      /\ owner' = [t \in Ticket |-> IF owner[t] = s THEN Free ELSE owner[t]]
      /\ UNCHANGED <<next, connected, events, server, missed>>
  BY DEF Expire, Prompt, Settled, IInv, ServerInv
<1>1. TypeOK'
  BY <1>0 DEF Expire, Fire, TypeOK, server
<1>2. DirInv' /\ \A r \in Servers \ {s} : DirStep(r)
  BY <1>0, DirGone DEF TypeOK
<1>3. \A r \in Servers \ {s} : Same(r)
  BY <1>0 DEF Same, TypeOK, server
<1>4. session'[s] = "expired" /\ pc[s] # "crashed"
  BY <1>0 DEF TypeOK, ClientInv
<1>5. ClientInv(s)'
  BY <1>0, <1>4, Queues DEF ClientInv, server
<1>6. ticket[s] # 0 => ticket[s] < next /\ owner'[ticket[s]] \in {s, Free}
  BY <1>0, TicketAssumption DEF LoopInv, TypeOK, Ticket
<1>7. LoopInv(s)'
  BY <1>0, <1>6 DEF LoopInv, server
<1>8. LeadInv(s)'
  BY <1>0, <1>4 DEF LeadInv, server
<1> QED
  BY <1>1, <1>2, <1>3, <1>5, <1>7, <1>8, OneServer DEF ServerInv

LEMMA DoLearnExpired ==
    ASSUME IInv, NEW s \in Servers, LearnExpired(s) PROVE IInv'
<1>0. /\ TypeOK /\ DirInv /\ ClientInv(s) /\ LoopInv(s) /\ LeadInv(s)
      /\ session[s] = "expired" /\ events[s] = <<>> /\ pc[s] # "crashed"
      /\ session' = [session EXCEPT ![s] = "none"]
      /\ UNCHANGED <<zookeeper, connected, server, missed>>
  BY DEF LearnExpired, Settled, IInv, ServerInv
<1>1. events' = [events EXCEPT ![s] = <<"Expired", "Disconnected">>]
  BY <1>0, Queueing DEF LearnExpired
<1>2. TypeOK'
  <2>1. events' \in [Servers -> Seq({"Disconnected", "Expired"})]
    BY <1>0, <1>1, PendingQueues DEF TypeOK, Pending
  <2>2. watch' \in [Servers -> {"none", "armed", "fired"}]
    BY <1>0 DEF LearnExpired, TypeOK
  <2> QED
    BY <1>0, <2>1, <2>2 DEF TypeOK, zookeeper, server
<1>3. DirInv' /\ \A r \in Servers : DirStep(r)
  BY <1>0, DirSame DEF TypeOK
<1>4. \A r \in Servers \ {s} : Same(r)
  BY <1>0, <1>1 DEF Same, TypeOK, server
<1>5. session'[s] = "none" /\ events'[s] = <<"Expired", "Disconnected">> /\ ~connected[s]
  BY <1>0, <1>1 DEF TypeOK, ClientInv
<1>6. ClientInv(s)'
  BY <1>0, <1>5, Queues DEF ClientInv, Pending, server
<1>7. pc[s] \notin {"assign", "decide", "won"}
  BY <1>0 DEF LoopInv
<1>8. LoopInv(s)'
  BY <1>0, <1>7 DEF LoopInv, zookeeper, server
<1>9. LeadInv(s)'
  BY <1>0, <1>5, Queues DEF LeadInv, server
<1> QED
  BY <1>2, <1>3, <1>4, <1>6, <1>8, <1>9, OneServer DEF ServerInv
-----------------------------------------------------------------------------
(* Servers crash and start again.                                          *)

LEMMA DoCrash ==
    ASSUME IInv, NEW s \in Servers, Crash(s) PROVE IInv'
<1>0. /\ TypeOK
      /\ owner' = [t \in Ticket |-> IF owner[t] = s THEN Ghost ELSE owner[t]]
      /\ next' = next
  BY DEF Crash, IInv
<1>1. /\ pc' = [pc EXCEPT ![s] = "crashed"] /\ session' = [session EXCEPT ![s] = "none"]
      /\ connected' = [connected EXCEPT ![s] = FALSE] /\ events' = [events EXCEPT ![s] = <<>>]
      /\ got' = [got EXCEPT ![s] = <<>>] /\ ticket' = [ticket EXCEPT ![s] = 0]
      /\ tickets' = [tickets EXCEPT ![s] = {}] /\ cancel' = [cancel EXCEPT ![s] = FALSE]
      /\ ctx' = [ctx EXCEPT ![s] = FALSE] /\ missed' = [missed EXCEPT ![s] = FALSE]
  BY DEF Crash
<1>2. TypeOK'
  <2>1. events' \in [Servers -> Seq({"Disconnected", "Expired"})]
    BY <1>0, <1>1, PendingQueues DEF TypeOK, Pending
  <2>2. /\ pc' \in [Servers -> Pc] /\ session' \in [Servers -> {"none", "live", "expired"}]
        /\ connected' \in [Servers -> BOOLEAN]
        /\ watch' \in [Servers -> {"none", "armed", "fired"}]
        /\ got' \in [Servers -> {Path(t) : t \in Ticket} \cup {<<>>}]
    BY <1>0, <1>1 DEF Crash, TypeOK, Pc
  <2>3. /\ ticket' \in [Servers -> Ticket \cup {0}] /\ tickets' \in [Servers -> SUBSET Ticket]
        /\ cancel' \in [Servers -> BOOLEAN] /\ ctx' \in [Servers -> BOOLEAN]
        /\ missed' \in [Servers -> BOOLEAN]
    BY <1>0, <1>1 DEF TypeOK
  <2>4. owner' \in [Ticket -> Servers \cup {Free, Ghost}] /\ next' \in 1..(MaxTicket + 1)
    BY <1>0 DEF TypeOK
  <2> QED
    BY <2>1, <2>2, <2>3, <2>4 DEF TypeOK
<1>3. DirInv' /\ \A r \in Servers \ {s} : DirStep(r)
  BY <1>0, <1>1, DirGone DEF TypeOK
<1>4. \A r \in Servers \ {s} : Same(r)
  BY <1>0, <1>1 DEF Same, TypeOK
<1>5. /\ pc'[s] = "crashed" /\ session'[s] = "none" /\ ~connected'[s]
      /\ events'[s] = <<>> /\ ticket'[s] = 0
  BY <1>0, <1>1 DEF TypeOK
<1>6. ClientInv(s)'
  BY <1>5, Queues DEF ClientInv, Pending
<1>7. LoopInv(s)' /\ LeadInv(s)'
  BY <1>5 DEF LoopInv, LeadInv
<1> QED
  BY <1>2, <1>3, <1>4, <1>6, <1>7, OneServer DEF ServerInv

LEMMA DoRestart ==
    ASSUME IInv, NEW s \in Servers, Restart(s) PROVE IInv'
<1>0. /\ TypeOK /\ ClientInv(s) /\ pc[s] = "crashed"
      /\ pc' = [pc EXCEPT ![s] = "check"] /\ session' = [session EXCEPT ![s] = "live"]
      /\ connected' = [connected EXCEPT ![s] = TRUE]
      /\ UNCHANGED <<zookeeper, events, watch, got, ticket, tickets, cancel, ctx, missed>>
  BY DEF Restart, Goto, IInv, ServerInv
<1>1. TypeOK'
  BY <1>0 DEF TypeOK, Pc, zookeeper
<1>2. DirInv' /\ \A r \in Servers : DirStep(r)
  BY <1>0, DirSame DEF TypeOK
<1>3. \A r \in Servers \ {s} : Same(r)
  BY <1>0 DEF Same, TypeOK
<1>4. pc'[s] = "check" /\ connected'[s] /\ session'[s] = "live" /\ events'[s] = <<>>
  BY <1>0 DEF TypeOK, ClientInv
<1>5. ClientInv(s)'
  BY <1>4, Queues DEF ClientInv, Pending
<1>6. ServerInv(s)'
  BY <1>0, <1>1, <1>2, <1>4, <1>5, AtEase
<1> QED
  BY <1>1, <1>2, <1>3, <1>6, OneServer

LEMMA DoExpireGhost ==
    ASSUME IInv, NEW t \in Ticket, ExpireGhost(t) PROVE IInv'
<1> USE OwnerAssumption
<1>0. /\ TypeOK /\ DirInv /\ owner[t] = Ghost /\ owner' = [owner EXCEPT ![t] = Free]
      /\ UNCHANGED <<next, session, connected, events, server, missed>>
  BY DEF ExpireGhost, IInv
<1>1. TypeOK'
  BY <1>0 DEF ExpireGhost, Fire, TypeOK, server
<1>2. Dir' \subseteq Dir /\ next \in Nat
  BY <1>0, TicketAssumption DEF Dir, TypeOK
<1>3. \A r \in Servers : DirStep(r)
  BY <1>0, <1>2 DEF DirStep, TypeOK
<1>4. DirInv'
  BY <1>0, <1>2 DEF DirInv, TypeOK
<1>5. \A r \in Servers : ServerInv(r)'
  BY <1>0, <1>1, <1>3, Kept DEF Same, server
<1> QED
  BY <1>1, <1>4, <1>5 DEF IInv
-----------------------------------------------------------------------------
LEMMA InitElection == Init => IInv
<1> SUFFICES ASSUME Init PROVE IInv
  OBVIOUS
<1>1. <<>> \in Pending /\ <<>> \in Seq({"Disconnected", "Expired"})
  BY PendingQueues DEF Pending
<1>2. TypeOK
  BY <1>1, TicketAssumption DEF Init, TypeOK, Pc, Ticket
<1>3. DirInv
  BY OwnerAssumption DEF Init, DirInv, Dir
<1>4. ASSUME NEW s \in Servers PROVE ServerInv(s)
  BY <1>1, Queues DEF Init, ServerInv, ClientInv, LoopInv, LeadInv
<1> QED
  BY <1>2, <1>3, <1>4 DEF IInv

LEMMA NextElection == IInv /\ [Next]_vars => IInv'
<1> SUFFICES ASSUME IInv, [Next]_vars PROVE IInv'
  OBVIOUS
<1>1. ASSUME NEW s \in Servers, LoopNext(s) PROVE IInv'
  BY <1>1, DoCheckTicket, DoCreate, DoAssign, DoChildrenW, DoCallFails, DoDecide,
     DoWatched, DoRetry, DoLead, DoStepDown DEF LoopNext
<1>2. ASSUME NEW s \in Servers, EventNext(s) PROVE IInv'
  BY <1>2, DoHandleDisconnected, DoHandleExpired DEF EventNext
<1>3. ASSUME NEW s \in Servers, ClientNext(s) PROVE IInv'
  BY <1>3, DoReconnect, DoLearnExpired DEF ClientNext
<1>4. ASSUME NEW s \in Servers,
             \/ StepDown(s) \/ CreateUnheard(s)
             \/ Disconnect(s) \/ Expire(s) \/ Crash(s) \/ Restart(s)
      PROVE  IInv'
  BY <1>4, DoStepDown, DoCreateUnheard, DoDisconnect, DoExpire, DoCrash, DoRestart
<1>5. ASSUME NEW t \in Ticket, ExpireGhost(t) PROVE IInv'
  BY <1>5, DoExpireGhost
<1>6. CASE UNCHANGED vars
  <2>1. UNCHANGED <<zookeeper, client, server, missed>>
    BY <1>6 DEF vars
  <2>2. TypeOK'
    BY <2>1 DEF IInv, TypeOK, zookeeper, client, server
  <2>3. DirInv' /\ \A r \in Servers : DirStep(r)
    BY <2>1, DirSame DEF client
  <2>4. \A r \in Servers : Same(r)
    BY <2>1 DEF Same, client, server
  <2> QED
    BY <2>2, <2>3, <2>4, Kept DEF IInv
<1> QED
  BY <1>1, <1>2, <1>3, <1>4, <1>5, <1>6 DEF Next

(* Every reachable state of the election is well typed, for any servers    *)
(* and whatever the environment does.                                      *)
THEOREM ElectionTyped == Spec => []TypeOK
<1>1. IInv => TypeOK
  BY DEF IInv
<1> QED
  BY <1>1, InitElection, NextElection, PTL DEF Spec

(* At most one leader, as far as leaders have been told of what happened   *)
(* to their connections.                                                   *)
OneInformedLeader ==
    \A r, s \in Servers :
        Leads(r) /\ Leads(s) /\ ~missed[r] /\ ~missed[s] => r = s

(* What LeaderHoldsTicket and ReconnectedIsClean conclude.                 *)
LEMMA LowestIsInDir ==
    ASSUME TypeOK, NEW s \in Servers, HoldsLowest(s)
    PROVE  ticket[s] \in Dir /\ owner[ticket[s]] = s /\ \A t \in Dir : ticket[s] <= t
BY OwnerAssumption DEF HoldsLowest, Dir

(* A leader that has not missed a disconnection between the answer of      *)
(* ChildrenW and the assignment of coord.cancel owns the lowest ticket     *)
(* (WaitUntilLeader, coordinator/zk).                                      *)
THEOREM LeaderIsLowest == Spec => []LeaderHoldsTicket
<1>1. IInv => LeaderHoldsTicket
  BY LowestIsInDir DEF IInv, ServerInv, LeadInv, LeaderHoldsTicket, Leads
<1> QED
  BY <1>1, InitElection, NextElection, PTL DEF Spec

(* The lowest ticket has one owner, so two servers lead only if one of     *)
(* them missed a disconnection before it stored coord.cancel.              *)
THEOREM OneLeader == Spec => []OneInformedLeader
<1>1. LeaderHoldsTicket /\ TypeOK => OneInformedLeader
  <2> SUFFICES ASSUME LeaderHoldsTicket, TypeOK, NEW r \in Servers, NEW s \in Servers,
                      Leads(r), Leads(s), ~missed[r], ~missed[s]
               PROVE  r = s
    BY DEF OneInformedLeader
  <2>1. /\ ticket[r] \in Dir /\ owner[ticket[r]] = r /\ ticket[r] <= ticket[s]
        /\ ticket[s] \in Dir /\ owner[ticket[s]] = s /\ ticket[s] <= ticket[r]
    BY DEF LeaderHoldsTicket
  <2>2. ticket[r] = ticket[s]
    BY <2>1 DEF Dir, Ticket
  <2> QED
    BY <2>1, <2>2
<1> QED
  BY <1>1, ElectionTyped, LeaderIsLowest, PTL

(* A leader that is connected owns its ticket: a leader that should have   *)
(* been stopped is stopped before its client has a new session             *)
(* (StateDisconnected follows StateExpired, coordinator/zk).               *)
THEOREM LeaderIsClean == Spec => []ReconnectedIsClean
<1>1. IInv => ReconnectedIsClean
  BY LowestIsInDir DEF IInv, ServerInv, ClientInv, LeadInv, ReconnectedIsClean, Leads
<1> QED
  BY <1>1, InitElection, NextElection, PTL DEF Spec
-----------------------------------------------------------------------------
(* A watch is armed from the reading of the directory on, while that is    *)
(* what the directory still holds; a session that is gone has fired its    *)
(* watches, so a server that is made to forget its ticket does not wait    *)
(* for a removal.                                                          *)
WatchInv(s) ==
    /\ watch[s] = "armed" => pc[s] \in {"decide", "wait"} /\ session[s] # "none"
    /\ pc[s] = "decide" => watch[s] # "none"
    /\ pc[s] = "decide" /\ watch[s] = "armed" => tickets[s] = Dir
    /\ pc[s] = "wait" =>
         watch[s] = "fired" \/ (watch[s] = "armed" /\ \E t \in Dir : t < ticket[s])

WatchesInv == \A s \in Servers : WatchInv(s)

Fired(r) == watch'[r] = IF watch[r] = "armed" THEN "fired" ELSE watch[r]

(* A server others do not disturb: the directory is the same, or its       *)
(* change has fired the watch.                                             *)
LEMMA WatchKept ==
    ASSUME NEW r \in Servers, WatchInv(r),
           pc'[r] = pc[r], tickets'[r] = tickets[r], ticket'[r] = ticket[r],
           \/ Dir' = Dir /\ watch'[r] = watch[r] /\ (session[r] # "none" => session'[r] # "none")
           \/ Fired(r)
    PROVE  WatchInv(r)'
BY DEF WatchInv, Fired

(* A server at another place of its loop, with its watch unarmed.          *)
LEMMA WatchGone ==
    ASSUME NEW s \in Servers, pc'[s] \notin {"decide", "wait"}, watch'[s] # "armed"
    PROVE  WatchInv(s)'
BY DEF WatchInv

LEMMA UnwatchedIsUnarmed ==
    ASSUME NEW s \in Servers, WatchInv(s), pc[s] \notin {"decide", "wait"}
    PROVE  watch[s] # "armed"
BY DEF WatchInv

LEMMA SameDir == UNCHANGED zookeeper => Dir' = Dir
BY DEF zookeeper, Dir

(* The loop of one server: the watches of the others are as they were, or  *)
(* fired.                                                                  *)
LEMMA LoopWatches ==
    ASSUME TypeOK, WatchesInv, NEW s \in Servers, LoopNext(s) \/ StepDown(s) \/ CreateUnheard(s)
    PROVE  WatchesInv'
<1> USE DEF WatchesInv
<1>1. CASE \/ CheckTicket(s) \/ Assign(s) \/ CallFails(s) \/ Retry(s) \/ Lead(s) \/ StepDown(s)
  <2>1. UNCHANGED <<zookeeper, session, watch, tickets>>
    BY <1>1 DEF CheckTicket, Assign, CallFails, Retry, Lead, StepDown, client
  <2>2. /\ pc[s] \notin {"decide", "wait"} /\ pc'[s] \notin {"decide", "wait"}
        /\ \A r \in Servers \ {s} : pc'[r] = pc[r] /\ ticket'[r] = ticket[r]
    BY <1>1 DEF CheckTicket, AfterCheck, Assign, CallFails, Retry, Lead, StepDown, Goto, TypeOK
  <2>3. WatchInv(s)'
    BY <2>1, <2>2, WatchGone, UnwatchedIsUnarmed
  <2>4. ASSUME NEW r \in Servers \ {s} PROVE WatchInv(r)'
    BY <2>1, <2>2, WatchKept, SameDir
  <2> QED
    BY <2>3, <2>4
<1>2. CASE Create(s) \/ CreateUnheard(s)
  <2>1. UNCHANGED <<tickets, ticket>> /\ \A r \in Servers : Fired(r)
    BY <1>2 DEF Create, CreateUnheard, NewTicket, Fire, Fired
  <2>2. /\ pc'[s] \notin {"decide", "wait"}
        /\ \A r \in Servers \ {s} : pc'[r] = pc[r]
    BY <1>2 DEF Create, CreateUnheard, Goto, TypeOK
  <2>3. WatchInv(s)'
    BY <2>1, <2>2, WatchGone DEF Fired
  <2>4. ASSUME NEW r \in Servers \ {s} PROVE WatchInv(r)'
    BY <2>1, <2>2, WatchKept
  <2> QED
    BY <2>3, <2>4
<1>3. CASE ChildrenW(s) \/ Decide(s) \/ Watched(s)
  <2>1. UNCHANGED <<zookeeper, session, ticket>> /\ Dir' = Dir
    BY <1>3, SameDir DEF ChildrenW, Decide, Watched
  <2>2. \A r \in Servers \ {s} : pc'[r] = pc[r] /\ watch'[r] = watch[r] /\ tickets'[r] = tickets[r]
    BY <1>3 DEF ChildrenW, Watch, Decide, Watched, Unwatch, Goto, TypeOK
  <2>3. ASSUME NEW r \in Servers \ {s} PROVE WatchInv(r)'
    BY <2>1, <2>2, WatchKept
  <2>4. CASE ChildrenW(s)
    <3>1. pc'[s] = "decide" /\ watch'[s] = "armed" /\ tickets'[s] = Dir /\ session[s] = "live"
      BY <2>4 DEF ChildrenW, Watch, Online, Goto, TypeOK
    <3> QED
      BY <2>1, <2>3, <3>1 DEF WatchInv
  <2>5. CASE Watched(s)
    <3>1. pc'[s] = "check" /\ watch'[s] = "none"
      BY <2>5 DEF Watched, AfterWatch, Unwatch, Goto, TypeOK
    <3> QED
      BY <2>3, <3>1, WatchGone
  <2>6. CASE Decide(s) /\ pc'[s] # "wait"
    <3>1. pc'[s] \in {"won", "backoff"} /\ watch'[s] = "none"
      BY <2>6 DEF Decide, Unwatch, Goto, TypeOK
    <3> QED
      BY <2>3, <3>1, WatchGone
  <2>7. CASE Decide(s) /\ pc'[s] = "wait"
    <3>1. /\ pc[s] = "decide" /\ watch' = watch
          /\ ~Lowest(s) /\ ticket[s] \in tickets[s]
      BY <2>7 DEF Decide, Goto, TypeOK
    <3>2. \E t \in tickets[s] : t < ticket[s]
      BY <3>1 DEF Lowest, TypeOK, Ticket
    <3>3. watch[s] \in {"armed", "fired"} /\ (watch[s] = "armed" => tickets[s] = Dir /\ session[s] # "none")
      BY <3>1 DEF WatchInv, TypeOK
    <3>4. WatchInv(s)'
      BY <2>1, <2>7, <3>1, <3>2, <3>3 DEF WatchInv
    <3> QED
      BY <2>3, <3>4
  <2> QED
    BY <1>3, <2>4, <2>5, <2>6, <2>7
<1> QED
  BY <1>1, <1>2, <1>3 DEF LoopNext

LEMMA ClientWatches ==
    ASSUME IInv, WatchesInv, NEW s \in Servers,
           EventNext(s) \/ ClientNext(s) \/ Disconnect(s) \/ Expire(s) \/ Crash(s) \/ Restart(s)
    PROVE  WatchesInv'
<1> USE DEF WatchesInv, IInv
<1>1. CASE HandleDisconnected(s) \/ Disconnect(s)
  <2>1. UNCHANGED <<zookeeper, session, watch, pc, ticket, tickets>>
    BY <1>1 DEF HandleDisconnected, Disconnect, server
  <2> QED
    BY <2>1, WatchKept, SameDir
<1>2. CASE HandleExpired(s)
  <2>1. /\ UNCHANGED <<zookeeper, session, watch, pc, tickets>>
        /\ \A r \in Servers \ {s} : ticket'[r] = ticket[r]
    BY <1>2 DEF HandleExpired, ForgetTicket, TypeOK
  <2>2. session[s] = "none"
    <3>1. ClientInv(s)
      BY DEF ServerInv
    <3> QED
      BY <1>2, <3>1, Queues DEF HandleExpired, ClientInv, Pending
  <2>3. watch[s] # "armed" /\ Dir' = Dir
    BY <2>1, <2>2, SameDir DEF WatchInv
  <2>4. WatchInv(s)'
    BY <2>1, <2>3 DEF WatchInv
  <2>5. ASSUME NEW r \in Servers \ {s} PROVE WatchInv(r)'
    BY <2>1, <2>3, WatchKept
  <2> QED
    BY <2>4, <2>5
<1>3. CASE Reconnect(s) \/ LearnExpired(s)
  <2>1. UNCHANGED <<zookeeper, pc, ticket, tickets>> /\ Dir' = Dir
    BY <1>3, SameDir DEF Reconnect, LearnExpired, server
  <2>2. \A r \in Servers : \/ watch'[r] = watch[r] /\ (session[r] # "none" => session'[r] # "none")
                           \/ Fired(r)
    BY <1>3 DEF Reconnect, LearnExpired, Fired, TypeOK
  <2> QED
    BY <2>1, <2>2, WatchKept
<1>4. CASE Expire(s)
  <2>1. UNCHANGED <<pc, ticket, tickets>> /\ \A r \in Servers : Fired(r)
    BY <1>4 DEF Expire, Fire, Fired, server
  <2> QED
    BY <2>1, WatchKept
<1>5. CASE Crash(s)
  <2>1. Dir' = Dir
    BY <1>5, OwnerAssumption DEF Crash, Dir, TypeOK
  <2>2. /\ pc'[s] = "crashed" /\ watch'[s] = "none"
        /\ \A r \in Servers \ {s} : /\ pc'[r] = pc[r] /\ watch'[r] = watch[r]
                                   /\ session'[r] = session[r] /\ ticket'[r] = ticket[r]
                                   /\ tickets'[r] = tickets[r]
    BY <1>5 DEF Crash, TypeOK
  <2>3. WatchInv(s)'
    BY <2>2, WatchGone
  <2>4. ASSUME NEW r \in Servers \ {s} PROVE WatchInv(r)'
    BY <2>1, <2>2, WatchKept
  <2> QED
    BY <2>3, <2>4
<1>6. CASE Restart(s)
  <2>1. UNCHANGED <<zookeeper, watch, ticket, tickets>> /\ Dir' = Dir
    BY <1>6, SameDir DEF Restart
  <2>2. /\ pc[s] = "crashed" /\ pc'[s] = "check"
        /\ \A r \in Servers \ {s} : pc'[r] = pc[r] /\ session'[r] = session[r]
    BY <1>6 DEF Restart, Goto, TypeOK
  <2>3. WatchInv(s)'
    BY <2>1, <2>2, WatchGone, UnwatchedIsUnarmed
  <2>4. ASSUME NEW r \in Servers \ {s} PROVE WatchInv(r)'
    BY <2>1, <2>2, WatchKept
  <2> QED
    BY <2>3, <2>4
<1> QED
  BY <1>1, <1>2, <1>3, <1>4, <1>5, <1>6 DEF EventNext, ClientNext

LEMMA WatchStep == IInv /\ WatchesInv /\ [Next]_vars => WatchesInv'
<1> SUFFICES ASSUME IInv, WatchesInv, [Next]_vars PROVE WatchesInv'
  OBVIOUS
<1>1. ASSUME NEW t \in Ticket, ExpireGhost(t) PROVE WatchesInv'
  <2>1. UNCHANGED <<pc, ticket, tickets>> /\ \A r \in Servers : Fired(r)
    BY <1>1 DEF ExpireGhost, Fire, Fired, server
  <2> QED
    BY <2>1, WatchKept DEF WatchesInv
<1>2. CASE UNCHANGED vars
  <2>1. UNCHANGED <<zookeeper, session, watch, pc, ticket, tickets>>
    BY <1>2 DEF vars, client, server
  <2> QED
    BY <2>1, WatchKept, SameDir DEF WatchesInv
<1> QED
  BY <1>1, <1>2, LoopWatches, ClientWatches DEF Next, IInv

(* No server waits for a removal that has already happened: what it waits  *)
(* for is in the directory, or its watch has fired (isLeader and           *)
(* WaitUntilLeader, coordinator/zk).                                       *)
THEOREM WaitersAreWoken == Spec => []NoLostWakeup
<1>1. Init => WatchesInv
  BY DEF Init, WatchesInv, WatchInv
<1>2. WatchesInv => NoLostWakeup
  BY DEF WatchesInv, WatchInv, NoLostWakeup
<1> QED
  BY <1>1, <1>2, InitElection, NextElection, WatchStep, PTL DEF Spec
-----------------------------------------------------------------------------
(* A server between isLeader's look at coord.ticket and the assignment in  *)
(* register has no ticket, and the name Create has returned waits only     *)
(* for that assignment.                                                    *)
DrawInv(s) ==
    /\ pc[s] \in {"create", "assign"} => ticket[s] = 0
    /\ pc[s] # "assign" => got[s] = <<>>

DrawsInv == \A s \in Servers : DrawInv(s)

LEMMA DrawSame ==
    ASSUME NEW r \in Servers, DrawInv(r), pc'[r] = pc[r], got'[r] = got[r],
           ticket'[r] = ticket[r] \/ ticket'[r] = 0
    PROVE  DrawInv(r)'
BY DEF DrawInv

LEMMA DrawStep == TypeOK /\ DrawsInv /\ [Next]_vars => DrawsInv'
<1> SUFFICES ASSUME TypeOK, DrawsInv, [Next]_vars PROVE DrawsInv'
  OBVIOUS
<1> USE DEF DrawsInv
<1>1. ASSUME NEW s \in Servers,
             \/ CheckTicket(s) \/ ChildrenW(s) \/ CallFails(s) \/ Decide(s) \/ Watched(s)
             \/ Retry(s) \/ Lead(s) \/ StepDown(s) \/ Restart(s) \/ CreateUnheard(s)
      PROVE  DrawsInv'
  <2>1. got' = got /\ ticket' = ticket /\ pc[s] # "assign"
    BY <1>1 DEF CheckTicket, ChildrenW, CallFails, Decide, Watched, Retry, Lead, StepDown, Restart,
                CreateUnheard, Goto
  <2>2. /\ pc'[s] # "assign" /\ (pc'[s] = "create" => ticket[s] = 0)
        /\ \A r \in Servers \ {s} : pc'[r] = pc[r]
    BY <1>1 DEF CheckTicket, AfterCheck, ChildrenW, CallFails, Decide, Watched, AfterWatch, Retry,
                Lead, StepDown, Restart, CreateUnheard, Goto, TypeOK
  <2>3. DrawInv(s)'
    BY <2>1, <2>2 DEF DrawInv
  <2>4. ASSUME NEW r \in Servers \ {s} PROVE DrawInv(r)'
    BY <2>1, <2>2, DrawSame
  <2> QED
    BY <2>3, <2>4
<1>2. ASSUME NEW s \in Servers, Create(s) \/ Assign(s) PROVE DrawsInv'
  <2>1. DrawInv(s)'
    BY <1>2 DEF Create, Assign, Goto, TypeOK, DrawInv
  <2>2. ASSUME NEW r \in Servers \ {s} PROVE DrawInv(r)'
    <3>1. pc'[r] = pc[r] /\ got'[r] = got[r] /\ ticket'[r] = ticket[r]
      BY <1>2 DEF Create, Assign, Goto, TypeOK
    <3> QED
      BY <3>1, DrawSame
  <2> QED
    BY <2>1, <2>2
<1>3. ASSUME NEW s \in Servers,
             \/ EventNext(s) \/ ClientNext(s) \/ Disconnect(s) \/ Expire(s)
      PROVE  DrawsInv'
  <2>1. pc' = pc /\ got' = got /\ \A r \in Servers : ticket'[r] = ticket[r] \/ ticket'[r] = 0
    BY <1>3 DEF EventNext, HandleDisconnected, HandleExpired, ForgetTicket, ClientNext, Reconnect,
                LearnExpired, Disconnect, Expire, server, TypeOK
  <2> QED
    BY <2>1, DrawSame
<1>4. ASSUME NEW s \in Servers, Crash(s) PROVE DrawsInv'
  <2>1. DrawInv(s)'
    BY <1>4 DEF Crash, TypeOK, DrawInv
  <2>2. ASSUME NEW r \in Servers \ {s} PROVE DrawInv(r)'
    <3>1. pc'[r] = pc[r] /\ got'[r] = got[r] /\ ticket'[r] = ticket[r]
      BY <1>4 DEF Crash, TypeOK
    <3> QED
      BY <3>1, DrawSame
  <2> QED
    BY <2>1, <2>2
<1>5. CASE UNCHANGED <<pc, got, ticket>>
  BY <1>5, DrawSame
<1> QED
  BY <1>1, <1>2, <1>3, <1>4, <1>5 DEF Next, LoopNext, ExpireGhost, vars, server

(* What a step does to a ticket a server holds: without a step of its      *)
(* owner that forgets it, its owner still knows it.                        *)
LEMMA OrphanStep ==
    ASSUME IInv, DrawsInv, [Next]_vars,
           NEW t \in Ticket, Orphaned(t)', ~Orphaned(t)
    PROVE  \E s \in Servers : CreateUnheard(s)
<1> USE OwnerAssumption DEF IInv, DrawsInv
<1> SUFFICES ASSUME ~ \E s \in Servers : CreateUnheard(s) PROVE FALSE
  OBVIOUS
<1> DEFINE o == owner'[t]
<1>0. /\ o \in Servers /\ ticket'[o] # t /\ got'[o] # Path(t)
      /\ owner[t] = o => ticket[o] = t \/ got[o] = Path(t)
      /\ owner[t] = o => session[o] = "live"
      /\ t # 0 /\ Path(t) # <<>> /\ TypeOK
  BY DEF Orphaned, DirInv, Ticket, Path
<1>1. ASSUME NEW s \in Servers, Create(s) PROVE FALSE
  <2>1. /\ owner' = [owner EXCEPT ![next] = s] /\ ticket' = ticket
        /\ got' = [got EXCEPT ![s] = Path(next)] /\ pc[s] = "create"
    BY <1>1 DEF Create, NewTicket, Goto
  <2>2. CASE t = next
    BY <1>0, <2>1, <2>2 DEF TypeOK
  <2>3. CASE t # next
    BY <1>0, <2>1, <2>3 DEF TypeOK, DrawInv
  <2> QED
    BY <2>2, <2>3
<1>2. ASSUME NEW s \in Servers, Assign(s) PROVE FALSE
  <2>1. /\ owner' = owner /\ pc[s] = "assign"
        /\ ticket' = [ticket EXCEPT ![s] = LastPart(got[s])]
        /\ got' = [got EXCEPT ![s] = <<>>]
    BY <1>2 DEF Assign, Goto, zookeeper
  <2>2. CASE o = s
    <3>1. got[s] = Path(t)
      BY <1>0, <2>1, <2>2 DEF DrawInv
    <3>2. ticket'[s] = t
      BY <1>0, <2>1, <3>1, Names DEF TypeOK
    <3> QED
      BY <1>0, <2>2, <3>2
  <2>3. CASE o # s
    BY <1>0, <2>1, <2>3 DEF TypeOK
  <2> QED
    BY <2>2, <2>3
<1>3. ASSUME NEW s \in Servers, HandleExpired(s) PROVE FALSE
  <2>1. ClientInv(s)
    BY DEF ServerInv
  <2>2. session[s] = "none"
    BY <1>3, <2>1, Queues DEF HandleExpired, ClientInv, Pending
  <2>3. owner' = owner /\ ticket' = [ticket EXCEPT ![s] = 0] /\ got' = got
    BY <1>3 DEF HandleExpired, ForgetTicket, zookeeper
  <2> QED
    BY <1>0, <2>2, <2>3 DEF TypeOK
<1>4. ASSUME NEW s \in Servers, Crash(s) PROVE FALSE
  <2>1. /\ owner' = [u \in Ticket |-> IF owner[u] = s THEN Ghost ELSE owner[u]]
        /\ ticket' = [ticket EXCEPT ![s] = 0] /\ got' = [got EXCEPT ![s] = <<>>]
    BY <1>4 DEF Crash
  <2> QED
    BY <1>0, <2>1 DEF TypeOK
<1>5. CASE /\ ticket' = ticket /\ got' = got
           /\ \A u \in Ticket : owner'[u] = owner[u] \/ owner'[u] = Free
  BY <1>0, <1>5
<1>6. ASSUME NEW s \in Servers,
             \/ CheckTicket(s) \/ ChildrenW(s) \/ CallFails(s) \/ Decide(s) \/ Watched(s)
             \/ Retry(s) \/ Lead(s) \/ StepDown(s) \/ HandleDisconnected(s) \/ ClientNext(s)
             \/ Disconnect(s) \/ Expire(s) \/ Restart(s)
      PROVE  FALSE
  <2>1. ticket' = ticket /\ got' = got
    BY <1>6 DEF CheckTicket, ChildrenW, CallFails, Decide, Watched, Retry, Lead, StepDown,
                HandleDisconnected, ClientNext, Reconnect, LearnExpired, Disconnect, Expire,
                Restart, server
  <2>2. \A u \in Ticket : owner'[u] = owner[u] \/ owner'[u] = Free
    BY <1>6 DEF CheckTicket, ChildrenW, CallFails, Decide, Watched, Retry, Lead, StepDown,
                HandleDisconnected, ClientNext, Reconnect, LearnExpired, Disconnect, Expire,
                Restart, zookeeper
  <2> QED
    BY <1>5, <2>1, <2>2
<1>7. ASSUME NEW u \in Ticket, ExpireGhost(u) PROVE FALSE
  BY <1>5, <1>7 DEF ExpireGhost, server, TypeOK
<1>8. CASE UNCHANGED vars
  BY <1>5, <1>8 DEF vars, zookeeper, server
<1> QED
  BY <1>1, <1>2, <1>3, <1>4, <1>6, <1>7, <1>8 DEF Next, LoopNext, EventNext

(* A ticket that no server knows comes only of a reply to Create that was  *)
(* lost (register, coordinator/zk).                                        *)
THEOREM TicketsAreKnown == Spec => OnlyUnheardAreOrphaned
<1>1. Init => DrawsInv
  BY DEF Init, DrawsInv, DrawInv
<1>2. IInv => TypeOK
  BY DEF IInv
<1>3. IInv /\ DrawsInv /\ [Next]_vars =>
        [\A t \in Ticket :
           Orphaned(t)' /\ ~Orphaned(t) => \E s \in Servers : CreateUnheard(s)]_vars
  BY OrphanStep
<1> QED
  BY <1>1, <1>2, <1>3, InitElection, NextElection, DrawStep, PTL DEF Spec, OnlyUnheardAreOrphaned
=============================================================================
