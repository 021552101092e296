--------------------------- MODULE Reconciliation ---------------------------
(***************************************************************************)
(* The reconciler (mesos/reconciliation), as the controller drives it:     *)
(* every subscription to Mesos queues a round, and so does a timer.  A     *)
(* round reads the current tasks of all jobs from storage and asks Mesos   *)
(* about them until it has heard of each one.  Answers come as status      *)
(* updates, one by one; the reconciler hears one only if it is listening   *)
(* at that very moment.                                                    *)
(***************************************************************************)
EXTENDS FiniteSets

CONSTANTS
    Tasks,        \* tasks, each of a job of its own
    Goroutines    \* bound: goroutines that Run may start

VARIABLES
    cancelled,    \* the context of the leader
    running, roundQ,
    rec,          \* the goroutines started by Run
    subscribed,   \* the connection to Mesos
    asked,        \* tasks Mesos has been asked about and has not answered
    answers,      \* per task, the answer that has not been handled
    phase         \* what has become of every task, and of its job

reconciler == <<running, roundQ, rec>>
mesos      == <<subscribed, asked, answers>>
vars       == <<cancelled, reconciler, mesos, phase>>
-----------------------------------------------------------------------------
(* stored: storage names the task, Mesos has not heard of it; live: it     *)
(* runs; over: it does not any more, but storage still names it; gone: the *)
(* job has been told of its end, or been failed because it seemed lost.    *)
Phase == {"new", "stored", "live", "over", "gone"}

(* Tasks that storage names as the current one of their job. *)
Current == {t \in Tasks : phase[t] \in {"stored", "live", "over"}}

NoAnswers == [t \in Tasks |-> "none"]

(* wait: the select of Run; ask, called: around the call of Mesos; listen: *)
(* the inner select of round.  todo is tasks.                              *)
Goroutine == [pc    : {"none", "wait", "ask", "called", "listen", "ended"},
              timer : BOOLEAN, todo : SUBSET Tasks]

NotStarted == [pc |-> "none", timer |-> FALSE, todo |-> {}]

(* timer: time.After, for the first round, the next or another try.        *)
Waiting == [pc |-> "wait", timer |-> TRUE, todo |-> {}]

Ended == [NotStarted EXCEPT !.pc = "ended"]

TypeOK ==
    /\ cancelled \in BOOLEAN
    /\ running \in BOOLEAN
    /\ roundQ \in BOOLEAN
    /\ rec \in [Goroutines -> Goroutine]
    /\ \A g \in Goroutines :
         rec[g].pc \in {"ask", "called", "listen"} <=> rec[g].todo # {}
    /\ subscribed \in BOOLEAN
    /\ asked \subseteq Tasks
    /\ answers \in [Tasks -> {"none", "Live", "Lost"}]
    /\ phase \in [Tasks -> Phase]

(* A leader takes over: tasks of its predecessors are in storage, some of  *)
(* which never reached Mesos or have ended meanwhile.                      *)
Init ==
    /\ cancelled = FALSE
    /\ running = FALSE
    /\ roundQ = FALSE
    /\ rec = [g \in Goroutines |-> NotStarted]
    /\ subscribed = FALSE
    /\ asked = {}
    /\ answers = NoAnswers
    /\ phase \in [Tasks -> {"new", "stored", "live", "over"}]
-----------------------------------------------------------------------------
At(g, pc) == rec[g].pc = pc

Become(g, r) == rec' = [rec EXCEPT ![g] = r]

Goto(g, pc) == rec' = [rec EXCEPT ![g].pc = pc]

(* Mutant: every subscription starts a goroutine. *)
StartAlways == TRUE

MayStart == ~running

(* Event_SUBSCRIBED: Run starts a goroutine unless there is one, and       *)
(* queues a round unless one is queued.                                    *)
Run ==
    /\ ~subscribed
    /\ subscribed' = TRUE
    /\ IF MayStart
       THEN \E g \in Goroutines : At(g, "none") /\ Become(g, Waiting)
       ELSE UNCHANGED rec
    /\ running' = TRUE
    /\ roundQ' = TRUE
    /\ UNCHANGED <<cancelled, asked, answers, phase>>

TimerFires(g) ==
    /\ At(g, "wait") /\ rec[g].timer
    /\ rec' = [rec EXCEPT ![g].timer = FALSE]
    /\ roundQ' = TRUE
    /\ UNCHANGED <<cancelled, running, mesos, phase>>

(* A round takes one from the queue and reads storage.                     *)
RoundStarts(g) ==
    /\ At(g, "wait") /\ roundQ
    /\ roundQ' = FALSE
    /\ Become(g, IF Current = {} THEN Waiting
                 ELSE [Waiting EXCEPT !.pc = "ask", !.todo = Current])
    /\ UNCHANGED <<cancelled, running, mesos, phase>>

(* Mutant: a round that failed is not repeated. *)
ForgetTimer == [Waiting EXCEPT !.timer = FALSE]

(* The round is over, or has failed: another one in ten minutes, or in ten *)
(* seconds.                                                                *)
AfterFailure == Waiting

GetJobsFails(g) ==
    /\ At(g, "wait") /\ roundQ
    /\ roundQ' = FALSE
    /\ Become(g, AfterFailure)
    /\ UNCHANGED <<cancelled, running, mesos, phase>>

(* RECONCILE is on its way: Mesos may answer before the call returns.      *)
Call(g) ==
    /\ At(g, "ask")
    /\ subscribed /\ ~cancelled
    /\ asked' = asked \cup rec[g].todo
    /\ Goto(g, "called")
    /\ UNCHANGED <<cancelled, running, roundQ, subscribed, answers, phase>>

CallReturns(g) ==
    /\ At(g, "called")
    /\ Goto(g, "listen")
    /\ UNCHANGED <<cancelled, running, roundQ, mesos, phase>>

(* Always so without a subscription, or once the context is cancelled.     *)
CallFails(g) ==
    /\ At(g, "ask") \/ At(g, "called")
    /\ Become(g, AfterFailure)
    /\ UNCHANGED <<cancelled, running, roundQ, mesos, phase>>

AfterTick == "ask"

(* The ticker, at growing intervals. *)
Tick(g) ==
    /\ At(g, "listen")
    /\ Goto(g, AfterTick)
    /\ UNCHANGED <<cancelled, running, roundQ, mesos, phase>>

RoundCancelled(g) ==
    /\ At(g, "listen") /\ cancelled
    /\ Become(g, Waiting)
    /\ UNCHANGED <<cancelled, running, roundQ, mesos, phase>>

End(g) ==
    /\ At(g, "wait") /\ cancelled
    /\ Become(g, Ended)
    /\ running' = FALSE
    /\ UNCHANGED <<cancelled, roundQ, mesos, phase>>
-----------------------------------------------------------------------------
(* The update handler: the scheduler first, which fails the job of a lost  *)
(* task, then the reconciler.                                              *)

Left(g, t) == rec[g].todo \ {t}

(* Mutant: the last answer does not end the round. *)
HearsOn(g, t) == Become(g, [rec[g] EXCEPT !.todo = Left(g, t)])

Hears(g, t) ==
    Become(g, IF Left(g, t) = {} THEN Waiting ELSE [rec[g] EXCEPT !.todo = Left(g, t)])

Listening == \E g \in Goroutines : At(g, "listen")

Handle(t) ==
    /\ subscribed
    /\ answers[t] # "none"
    /\ answers' = [answers EXCEPT ![t] = "none"]
    /\ phase' = IF answers[t] = "Lost" THEN [phase EXCEPT ![t] = "gone"] ELSE phase
    /\ \/ \E g \in Goroutines : At(g, "listen") /\ Hears(g, t)
       \/ ~Listening /\ UNCHANGED rec
    /\ UNCHANGED <<cancelled, running, roundQ, subscribed, asked>>
-----------------------------------------------------------------------------
(* Mesos answers for every task: Lost if it does not know it (any more). *)
Reply(t) ==
    /\ t \in asked
    /\ answers[t] = "none"
    /\ asked' = asked \ {t}
    /\ answers' = [answers EXCEPT ![t] = IF phase[t] = "live" THEN "Live" ELSE "Lost"]
    /\ UNCHANGED <<cancelled, reconciler, subscribed, phase>>

(* What Mesos was about to say goes with the connection. *)
Disconnect ==
    /\ subscribed
    /\ subscribed' = FALSE
    /\ asked' = {}
    /\ answers' = NoAnswers
    /\ UNCHANGED <<cancelled, reconciler, phase>>

Cancel ==
    /\ ~cancelled
    /\ cancelled' = TRUE
    /\ UNCHANGED <<reconciler, mesos, phase>>

(* A task is stored, handed to Mesos (or not), and ends; its job is told,  *)
(* now or when the update is sent again.                                   *)
TaskSteps(t) ==
    /\ \/ phase[t] = "new" /\ phase' = [phase EXCEPT ![t] = "stored"]
       \/ phase[t] = "stored" /\ phase' = [phase EXCEPT ![t] = "live"]
       \/ phase[t] = "live" /\ phase' = [phase EXCEPT ![t] = "over"]
       \/ phase[t] = "over" /\ subscribed /\ phase' = [phase EXCEPT ![t] = "gone"]
    /\ UNCHANGED <<cancelled, reconciler, mesos>>
-----------------------------------------------------------------------------
(* The reconciler makes a step, for better or worse. *)
Proceeds(g) ==
    \/ TimerFires(g) \/ RoundStarts(g) \/ GetJobsFails(g)
    \/ Call(g) \/ CallReturns(g) \/ CallFails(g) \/ Tick(g)
    \/ RoundCancelled(g) \/ End(g)

Next ==
    \/ Run \/ Disconnect \/ Cancel
    \/ \E g \in Goroutines : Proceeds(g)
    \/ \E t \in Tasks : Handle(t) \/ Reply(t) \/ TaskSteps(t)

Spec == Init /\ [][Next]_vars

(* Mesos has an answer to give for the task. *)
Pending(t) == t \in asked \/ answers[t] # "none"

(* Goroutines run and the controller subscribes again.  Reading storage    *)
(* and calling Mesos succeed now and then, with the connection still       *)
(* there, and while the reconciler listens, for longer and longer, answers *)
(* come and are handled.                                                   *)
Fairness ==
    /\ WF_vars(Run)
    /\ WF_vars(\E g \in Goroutines : Proceeds(g))
    /\ SF_vars(subscribed /\ \E g \in Goroutines : RoundStarts(g))
    /\ SF_vars(\E g \in Goroutines : Call(g))
    /\ \A t \in Tasks :
         /\ SF_vars(Pending(t) /\ \E g \in Goroutines : CallReturns(g))
         /\ SF_vars(Listening /\ Reply(t))
         /\ SF_vars(Listening /\ Handle(t))

FairSpec == Spec /\ Fairness
-----------------------------------------------------------------------------
(* The flag under the lock of Run keeps rounds from running side by side:  *)
(* each would hear half of the answers.                                    *)
AtMostOneRound ==
    \A g, h \in Goroutines :
        rec[g].pc \notin {"none", "ended"} /\ rec[h].pc \notin {"none", "ended"} => g = h

(* The flag is not left up with nobody behind it: as long as Run would not *)
(* start a goroutine there is one, and it is in a round or has one coming, *)
(* queued or after a timer (running, the queue and the timers of Run).     *)
RoundsGoOn ==
    running => \E g \in Goroutines :
                   /\ rec[g].pc \notin {"none", "ended"}
                   /\ rec[g].pc = "wait" => rec[g].timer \/ roundQ

(* A job whose task never reached Mesos, or whose end was not heard of,    *)
(* does not wait for it for good: the reconciler finds out, though rounds  *)
(* fail, answers are missed and tasks come and go.                         *)
LostTaskResolved ==
    \A t \in Tasks :
        phase[t] \in {"stored", "over"} ~> phase[t] \in {"live", "gone"} \/ cancelled
=============================================================================
