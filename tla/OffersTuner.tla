---------------------------- MODULE OffersTuner ----------------------------
(***************************************************************************)
(* The offers tuner (mesos/offerstuner): rounds that read jobs from        *)
(* storage and ask Mesos to suppress offers when nothing is to be run      *)
(* soon, or to revive them when a job is late.  Every subscription to      *)
(* Mesos starts one more goroutine, and each keeps a belief of its own     *)
(* whether offers are suppressed.                                          *)
(***************************************************************************)
EXTENDS FiniteSets

CONSTANT Tuners   \* bound: goroutines, one per subscription

VARIABLES
    cancelled,    \* the context of the leader
    delay,        \* how late the job is that has waited longest
    near,         \* some job is due within a quarter of a round
    queued,       \* some job is queued for an immediate run
    suppressed,   \* Mesos makes no offers
    tuner,        \* the goroutines started by Run
    misled        \* auxiliary: goroutines whose last REVIVE seemed to fail but did not

jobs == <<delay, near, queued>>
vars == <<cancelled, jobs, suppressed, tuner, misled>>
-----------------------------------------------------------------------------
(* Not at all, less than minDelayToRevive, or more. *)
Delay == {"none", "some", "minute"}

(* The jobs, as rounds see them: late by minDelayToRevive or less, not     *)
(* late but due within a quarter of a round, or neither.                   *)
Outlook == {"minute", "some", "near", "idle"}

outlook == IF delay # "none" THEN delay ELSE IF near THEN "near" ELSE "idle"

(* suppressed is the variable of the goroutine, jobs what its round has    *)
(* read.                                                                   *)
Goroutine == [pc         : {"none", "start", "sleep", "read", "revive", "suppress", "ended"},
              suppressed : BOOLEAN, jobs : Outlook]

Fresh == [pc |-> "none", suppressed |-> FALSE, jobs |-> "idle"]

TypeOK ==
    /\ cancelled \in BOOLEAN
    /\ delay \in Delay
    /\ near \in BOOLEAN
    /\ queued \in BOOLEAN
    /\ suppressed \in BOOLEAN
    /\ tuner \in [Tuners -> Goroutine]
    /\ misled \subseteq Tuners
    /\ \A g \in Tuners :
         /\ tuner[g].pc \in {"none", "start"} => ~tuner[g].suppressed
         /\ tuner[g].pc \in {"sleep", "ended"} => tuner[g].jobs = "idle"
    /\ \A g \in misled : tuner[g].suppressed \/ tuner[g].pc = "ended"

(* A leader takes over from one that may have suppressed offers. *)
Init ==
    /\ cancelled = FALSE
    /\ delay \in Delay
    /\ near \in BOOLEAN
    /\ queued = FALSE
    /\ suppressed \in BOOLEAN
    /\ tuner = [g \in Tuners |-> Fresh]
    /\ misled = {}
-----------------------------------------------------------------------------
At(g, pc) == tuner[g].pc = pc

Goto(g, pc) == tuner' = [tuner EXCEPT ![g].pc = pc]

(* What was read is of no use after the round. *)
Sleep(g, belief) ==
    tuner' = [tuner EXCEPT ![g] = [Fresh EXCEPT !.pc = "sleep", !.suppressed = belief]]

(* Event_SUBSCRIBED: the controller calls Run, each time anew. *)
Run ==
    /\ \E g \in Tuners : At(g, "none")
    /\ Goto(CHOOSE g \in Tuners : At(g, "none"), "start")
    /\ UNCHANGED <<cancelled, jobs, suppressed, misled>>

(* The first call is repeated until it succeeds. *)
Started(g) ==
    /\ At(g, "start") /\ ~cancelled
    /\ suppressed' = FALSE
    /\ Sleep(g, FALSE)
    /\ UNCHANGED <<cancelled, jobs, misled>>

(* Every 30 seconds GetJobs, then GetQueuedJobsIDs. *)
ReadJobs(g) ==
    /\ At(g, "sleep")
    /\ tuner' = [tuner EXCEPT ![g].pc = "read", ![g].jobs = outlook]
    /\ UNCHANGED <<cancelled, jobs, suppressed, misled>>

(* Either read fails. *)
ReadFails(g) ==
    /\ At(g, "read")
    /\ Sleep(g, tuner[g].suppressed)
    /\ UNCHANGED <<cancelled, jobs, suppressed, misled>>

(* A queued job counts as one that is late by minDelayToRevive. *)
Seen(g) == IF queued THEN "minute" ELSE tuner[g].jobs

(* Mutant: only the goroutine that believes to have suppressed offers      *)
(* revives them.                                                           *)
WantsReviveOwn(g) == tuner[g].suppressed /\ Seen(g) \in {"minute", "some"}

WantsRevive(g) == Seen(g) = "minute" \/ (tuner[g].suppressed /\ Seen(g) = "some")

WantsSuppress(g) == Seen(g) = "idle" /\ ~tuner[g].suppressed

Decide(g) ==
    /\ At(g, "read")
    /\ \/ WantsRevive(g) /\ Goto(g, "revive")
       \/ WantsSuppress(g) /\ Goto(g, "suppress")
       \/ ~WantsRevive(g) /\ ~WantsSuppress(g) /\ Sleep(g, tuner[g].suppressed)
    /\ UNCHANGED <<cancelled, jobs, suppressed, misled>>

(* Mutant: the jobs that were read are kept for the next round. *)
KeepJobs(g) == Goto(g, "sleep")

(* One REVIVE per minute: without a token the round ends. *)
SkipRevive(g) == Sleep(g, tuner[g].suppressed)

NoToken(g) ==
    /\ At(g, "revive")
    /\ SkipRevive(g)
    /\ UNCHANGED <<cancelled, jobs, suppressed, misled>>

(* Mutant: offers are revived, but not as far as the goroutine knows. *)
StillSuppressed == TRUE

SuppressedNoMore == FALSE

Revived(g) ==
    /\ At(g, "revive") /\ ~cancelled
    /\ suppressed' = FALSE
    /\ Sleep(g, SuppressedNoMore)
    /\ misled' = misled \ {g}
    /\ UNCHANGED <<cancelled, jobs>>

Suppressed(g) ==
    /\ At(g, "suppress") /\ ~cancelled
    /\ suppressed' = TRUE
    /\ Sleep(g, TRUE)
    /\ UNCHANGED <<cancelled, jobs, misled>>

(* Mutant: a call of a round is repeated until it succeeds, too. *)
RepeatCall(g) == UNCHANGED tuner

AfterFailure(g) == Sleep(g, tuner[g].suppressed)

(* The call fails before it gets to Mesos, always so when the context is   *)
(* cancelled.                                                              *)
CallFails(g) ==
    /\ \/ At(g, "start") /\ UNCHANGED tuner
       \/ (At(g, "revive") \/ At(g, "suppress")) /\ AfterFailure(g)
    /\ UNCHANGED <<cancelled, jobs, suppressed, misled>>

(* Mesos acts on the call, but the answer is lost: the belief of the       *)
(* goroutine stays as it is.                                               *)
AnswerLost(g) ==
    /\ ~cancelled
    /\ \/ At(g, "start") /\ suppressed' = FALSE /\ UNCHANGED <<tuner, misled>>
       \/ At(g, "revive") /\ suppressed' = FALSE /\ Sleep(g, tuner[g].suppressed)
          /\ misled' = IF tuner[g].suppressed THEN misled \cup {g} ELSE misled
       \/ At(g, "suppress") /\ suppressed' = TRUE /\ Sleep(g, tuner[g].suppressed)
          /\ UNCHANGED misled
    /\ UNCHANGED <<cancelled, jobs>>

End(g) ==
    /\ At(g, "sleep") /\ cancelled
    /\ tuner' = [tuner EXCEPT ![g] = [Fresh EXCEPT !.pc = "ended"]]
    /\ UNCHANGED <<cancelled, jobs, suppressed, misled>>
-----------------------------------------------------------------------------
(* Jobs: time passes, they are started when there are offers, and edited.  *)

JobsUnchanged == UNCHANGED <<cancelled, suppressed, tuner, misled>>

TimePasses ==
    /\ \/ delay = "none" /\ delay' = "some"
       \/ delay = "some" /\ delay' = "minute"
    /\ UNCHANGED <<near, queued>>
    /\ JobsUnchanged

JobStarted ==
    /\ ~suppressed
    /\ delay' = "none"
    /\ queued' = FALSE
    /\ UNCHANGED near
    /\ JobsUnchanged

JobsEdited ==
    /\ near' \in BOOLEAN
    /\ queued' \in {queued, TRUE}
    /\ UNCHANGED delay
    /\ JobsUnchanged

Cancel ==
    /\ ~cancelled
    /\ cancelled' = TRUE
    /\ UNCHANGED <<jobs, suppressed, tuner, misled>>
-----------------------------------------------------------------------------
Proceeds(g) ==
    \/ Started(g) \/ ReadJobs(g) \/ ReadFails(g) \/ Decide(g) \/ NoToken(g)
    \/ Revived(g) \/ Suppressed(g) \/ CallFails(g) \/ AnswerLost(g)

Next ==
    \/ Run \/ \E g \in Tuners : Proceeds(g) \/ End(g)
    \/ TimePasses \/ JobStarted \/ JobsEdited \/ Cancel

Spec == Init /\ [][Next]_vars

Late == delay # "none"

(* The controller subscribes, rounds are made and end with the context,    *)
(* and now and then reads and calls succeed and there is a token.          *)
Fairness ==
    /\ WF_vars(Run)
    /\ WF_vars(delay = "some" /\ TimePasses)
    /\ SF_vars(\E g \in Tuners : Started(g))
    /\ SF_vars(\E g \in Tuners : Revived(g))
    /\ SF_vars(\E g \in Tuners : Suppressed(g))
    /\ SF_vars(\E g \in Tuners : End(g))
    /\ \A g \in Tuners : WF_vars(Proceeds(g)) /\ SF_vars(Decide(g))

FairSpec == Spec /\ Fairness
-----------------------------------------------------------------------------
(* Offers are not made behind everybody's back: while Mesos makes them,    *)
(* one of the goroutines at work takes them to be made and so would        *)
(* suppress them again (suppressed of a round is set with every answer),   *)
(* unless a REVIVE succeeded that seemed to fail.                          *)
OffersAreNoticed ==
    LET active == {g \in Tuners : tuner[g].pc \notin {"none", "ended"}} IN
    ~suppressed /\ ~cancelled /\ misled = {} /\ active # {} =>
        \E g \in active : ~tuner[g].suppressed

(* A job that is late, or queued, does not wait for ever with offers       *)
(* suppressed, whoever suppressed them: another goroutine, a call that     *)
(* seemed to fail, a round that had read storage before the job was there, *)
(* the previous leader.                                                    *)
LateJobGetsOffers == Late \/ queued ~> ~suppressed \/ cancelled

(* When no job is to be run in the nearest future offers are suppressed    *)
(* ("Offers tuner calls SUPPRESS when there is no tasks to run in nearest  *)
(* future"), unless a goroutine takes them to be already because it did    *)
(* not hear that a REVIVE had succeeded.                                   *)
IdleIsSuppressed ==
    <>[](~Late /\ ~queued /\ ~near /\ ~cancelled /\ misled = {}) => <>[]suppressed

(* Goroutines of a leader that is deposed end, those apart whose first     *)
(* call never succeeds: they repeat it for ever.                           *)
DeposedEnds ==
    \A g \in Tuners :
        cancelled /\ tuner[g].pc \notin {"none", "start"} ~> tuner[g].pc = "ended"
=============================================================================
