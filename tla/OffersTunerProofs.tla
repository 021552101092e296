-------------------------- MODULE OffersTunerProofs --------------------------
(***************************************************************************)
(* Proofs about OffersTuner for every number of goroutines.                *)
(***************************************************************************)
EXTENDS OffersTuner, TLAPS

(* What TypeOK says of the goroutines.                                     *)
Consistent(t, m) ==
    /\ t \in [Tuners -> Goroutine]
    /\ m \subseteq Tuners
    /\ \A g \in Tuners :
         /\ t[g].pc \in {"none", "start"} => ~t[g].suppressed
         /\ t[g].pc \in {"sleep", "ended"} => t[g].jobs = "idle"
    /\ \A g \in m : t[g].suppressed \/ t[g].pc = "ended"

LEMMA TypeIsConsistent ==
    TypeOK <=> /\ cancelled \in BOOLEAN /\ delay \in Delay /\ near \in BOOLEAN
               /\ queued \in BOOLEAN /\ suppressed \in BOOLEAN
               /\ Consistent(tuner, misled)
  BY DEF TypeOK, Consistent

(* One goroutine moves to a state that is consistent with misled.          *)
LEMMA GoroutineMoves ==
    ASSUME Consistent(tuner, misled), NEW g \in Tuners, NEW r \in Goroutine,
           NEW m \in SUBSET Tuners, m \subseteq misled \cup {g},
           r.pc \in {"none", "start"} => ~r.suppressed,
           r.pc \in {"sleep", "ended"} => r.jobs = "idle",
           g \in m => r.suppressed \/ r.pc = "ended",
           tuner' = [tuner EXCEPT ![g] = r]
    PROVE  Consistent(tuner', m)
  BY DEF Consistent

(* A round ends.                                                           *)
LEMMA SleepKeeps ==
    ASSUME Consistent(tuner, misled), NEW g \in Tuners, NEW belief \in BOOLEAN,
           NEW m \in SUBSET Tuners, m \subseteq misled \cup {g}, g \in m => belief,
           Sleep(g, belief)
    PROVE  Consistent(tuner', m)
<1> DEFINE r == [Fresh EXCEPT !.pc = "sleep", !.suppressed = belief]
<1>1. r \in Goroutine /\ r.pc = "sleep" /\ r.suppressed = belief /\ r.jobs = "idle"
  BY DEF Fresh, Goroutine, Outlook
<1>2. tuner' = [tuner EXCEPT ![g] = r]
  BY DEF Sleep
<1> HIDE DEF r
<1> QED
  BY <1>1, <1>2, GoroutineMoves

(* A goroutine starts, or asks Mesos in its round.                         *)
LEMMA GotoKeeps ==
    ASSUME Consistent(tuner, misled), NEW g \in Tuners,
           NEW pc \in {"start", "revive", "suppress"}, Goto(g, pc),
           IF pc = "start" THEN At(g, "none") ELSE At(g, "read")
    PROVE  Consistent(tuner', misled)
<1> DEFINE r == [tuner[g] EXCEPT !.pc = pc]
<1>1. tuner[g] \in Goroutine
  BY DEF Consistent
<1>2. r \in Goroutine /\ r.pc = pc /\ r.suppressed = tuner[g].suppressed
  BY <1>1 DEF Goroutine
<1>3. tuner' = [tuner EXCEPT ![g] = r]
  BY DEF Goto
<1>4. pc = "start" => ~tuner[g].suppressed
  BY DEF Consistent, At
<1>5. g \in misled => tuner[g].suppressed
  BY DEF Consistent, At
<1>6. misled \in SUBSET Tuners
  BY DEF Consistent
<1> HIDE DEF r
<1> QED
  BY <1>2, <1>3, <1>4, <1>5, <1>6, GoroutineMoves
-----------------------------------------------------------------------------
LEMMA TypeInit == Init => TypeOK
<1> SUFFICES ASSUME Init PROVE TypeOK
  OBVIOUS
<1>1. Fresh \in Goroutine /\ Fresh.pc = "none" /\ ~Fresh.suppressed
  BY DEF Fresh, Goroutine, Outlook
<1>2. Consistent(tuner, misled)
  BY <1>1 DEF Init, Consistent
<1> QED
  BY <1>2, TypeIsConsistent DEF Init

LEMMA TypeStep == TypeOK /\ [Next]_vars => TypeOK'
<1> SUFFICES ASSUME TypeOK, [Next]_vars PROVE TypeOK'
  OBVIOUS
<1>1. /\ cancelled \in BOOLEAN /\ delay \in Delay /\ near \in BOOLEAN
      /\ queued \in BOOLEAN /\ suppressed \in BOOLEAN
      /\ Consistent(tuner, misled)
  BY TypeIsConsistent
<1>2. misled \in SUBSET Tuners
  BY <1>1 DEF Consistent
<1>3. \A g \in Tuners : /\ tuner[g] \in Goroutine /\ tuner[g].suppressed \in BOOLEAN
                        /\ g \in misled => tuner[g].suppressed \/ At(g, "ended")
  BY <1>1 DEF Consistent, Goroutine, At
<1> SUFFICES /\ UNCHANGED <<cancelled, jobs, suppressed>> \/
                (/\ cancelled' \in BOOLEAN /\ delay' \in Delay /\ near' \in BOOLEAN
                 /\ queued' \in BOOLEAN /\ suppressed' \in BOOLEAN)
             /\ Consistent(tuner', misled')
  <2>1. TypeOK' <=> /\ cancelled' \in BOOLEAN /\ delay' \in Delay /\ near' \in BOOLEAN
                    /\ queued' \in BOOLEAN /\ suppressed' \in BOOLEAN
                    /\ Consistent(tuner', misled')
    BY DEF TypeOK, Consistent
  <2> QED
    BY <1>1, <2>1 DEF jobs
<1>4. CASE Run
  <2>1. PICK g \in Tuners : At(g, "none") /\ Goto(g, "start")
    BY <1>4 DEF Run
  <2>2. UNCHANGED <<cancelled, jobs, suppressed, misled>>
    BY <1>4 DEF Run
  <2>3. Consistent(tuner', misled)
    BY <1>1, <2>1, GotoKeeps
  <2> QED
    BY <2>2, <2>3
<1>5. ASSUME NEW g \in Tuners, Started(g)
      PROVE  Consistent(tuner', misled') /\ UNCHANGED <<cancelled, jobs>> /\ suppressed' \in BOOLEAN
  <2>1. g \notin misled
    BY <1>1, <1>5 DEF Started, Consistent, At
  <2>2. Consistent(tuner', misled)
    BY <1>1, <1>2, <1>5, <2>1, SleepKeeps DEF Started
  <2> QED
    BY <1>5, <2>2 DEF Started
<1>6. ASSUME NEW g \in Tuners, ReadJobs(g)
      PROVE  Consistent(tuner', misled') /\ UNCHANGED <<cancelled, jobs, suppressed>>
  <2> DEFINE r == [tuner[g] EXCEPT !.pc = "read", !.jobs = outlook]
  <2>1. outlook \in Outlook
    BY <1>1 DEF outlook, Outlook, Delay
  <2>2. r \in Goroutine /\ r.pc = "read" /\ r.suppressed = tuner[g].suppressed
    BY <1>3, <2>1 DEF Goroutine
  <2>3. tuner' = [tuner EXCEPT ![g] = r]
    BY <1>6 DEF ReadJobs
  <2>4. g \in misled => tuner[g].suppressed
    BY <1>3, <1>6 DEF ReadJobs, At
  <2> HIDE DEF r
  <2>5. Consistent(tuner', misled)
    BY <1>1, <1>2, <2>2, <2>3, <2>4, GoroutineMoves
  <2> QED
    BY <1>6, <2>5 DEF ReadJobs
<1>7. ASSUME NEW g \in Tuners, At(g, "read") \/ At(g, "revive") \/ At(g, "suppress"),
             Sleep(g, tuner[g].suppressed)
      PROVE  \A m \in SUBSET Tuners :
                m \subseteq misled \cup {g} /\ (g \in m => tuner[g].suppressed)
                    => Consistent(tuner', m)
  BY <1>1, <1>3, <1>7, SleepKeeps
<1>8. \A g \in Tuners : At(g, "read") \/ At(g, "revive") \/ At(g, "suppress")
                            => (g \in misled => tuner[g].suppressed)
  BY <1>3 DEF At
<1>9. ASSUME NEW g \in Tuners, ReadFails(g) \/ NoToken(g)
      PROVE  Consistent(tuner', misled') /\ UNCHANGED <<cancelled, jobs, suppressed>>
  <2>1. Sleep(g, tuner[g].suppressed) /\ (At(g, "read") \/ At(g, "revive"))
        /\ UNCHANGED <<cancelled, jobs, suppressed, misled>>
    BY <1>9 DEF ReadFails, NoToken, SkipRevive
  <2> QED
    BY <1>2, <1>7, <1>8, <2>1
<1>10. ASSUME NEW g \in Tuners, Decide(g)
       PROVE  Consistent(tuner', misled') /\ UNCHANGED <<cancelled, jobs, suppressed>>
  <2>1. At(g, "read") /\ UNCHANGED <<cancelled, jobs, suppressed, misled>>
    BY <1>10 DEF Decide
  <2>2. Goto(g, "revive") \/ Goto(g, "suppress") \/ Sleep(g, tuner[g].suppressed)
    BY <1>10 DEF Decide
  <2>3. CASE Goto(g, "revive")
    BY <1>1, <2>1, <2>3, GotoKeeps
  <2>4. CASE Goto(g, "suppress")
    BY <1>1, <2>1, <2>4, GotoKeeps
  <2>5. CASE Sleep(g, tuner[g].suppressed)
    BY <1>2, <1>7, <1>8, <2>1, <2>5
  <2> QED
    BY <2>2, <2>3, <2>4, <2>5
<1>11. ASSUME NEW g \in Tuners, Revived(g)
       PROVE  Consistent(tuner', misled') /\ UNCHANGED <<cancelled, jobs>> /\ suppressed' \in BOOLEAN
  <2>1. Sleep(g, FALSE) /\ misled' = misled \ {g} /\ UNCHANGED <<cancelled, jobs>> /\ suppressed' = FALSE
    BY <1>11 DEF Revived, SuppressedNoMore
  <2>2. misled \ {g} \in SUBSET Tuners
    BY <1>2
  <2> QED
    BY <1>1, <2>1, <2>2, SleepKeeps
<1>12. ASSUME NEW g \in Tuners, Suppressed(g)
       PROVE  Consistent(tuner', misled') /\ UNCHANGED <<cancelled, jobs>> /\ suppressed' \in BOOLEAN
  <2>1. Sleep(g, TRUE) /\ UNCHANGED <<cancelled, jobs, misled>> /\ suppressed' = TRUE
    BY <1>12 DEF Suppressed
  <2> QED
    BY <1>1, <1>2, <2>1, SleepKeeps
<1>13. ASSUME NEW g \in Tuners, CallFails(g)
       PROVE  Consistent(tuner', misled') /\ UNCHANGED <<cancelled, jobs, suppressed>>
  <2>1. UNCHANGED <<cancelled, jobs, suppressed, misled>>
    BY <1>13 DEF CallFails
  <2>2. CASE UNCHANGED tuner
    BY <1>1, <2>1, <2>2
  <2>3. CASE (At(g, "revive") \/ At(g, "suppress")) /\ Sleep(g, tuner[g].suppressed)
    BY <1>2, <1>7, <1>8, <2>1, <2>3
  <2> QED
    BY <1>13, <2>2, <2>3 DEF CallFails, AfterFailure
<1>14. ASSUME NEW g \in Tuners, AnswerLost(g)
       PROVE  Consistent(tuner', misled') /\ UNCHANGED <<cancelled, jobs>> /\ suppressed' \in BOOLEAN
  <2>1. UNCHANGED <<cancelled, jobs>> /\ suppressed' \in BOOLEAN
    BY <1>14 DEF AnswerLost
  <2>2. CASE At(g, "start") /\ UNCHANGED <<tuner, misled>>
    BY <1>1, <2>1, <2>2
  <2>3. CASE /\ At(g, "revive") /\ Sleep(g, tuner[g].suppressed)
             /\ misled' = IF tuner[g].suppressed THEN misled \cup {g} ELSE misled
    <3>1. misled' \in SUBSET Tuners /\ misled' \subseteq misled \cup {g}
      BY <1>2, <2>3
    <3>2. g \in misled' => tuner[g].suppressed
      BY <1>8, <2>3
    <3> QED
      BY <1>7, <2>1, <2>3, <3>1, <3>2
  <2>4. CASE /\ At(g, "suppress") /\ Sleep(g, tuner[g].suppressed) /\ UNCHANGED misled
    BY <1>2, <1>7, <1>8, <2>1, <2>4
  <2> QED
    BY <1>14, <2>2, <2>3, <2>4 DEF AnswerLost
<1>15. ASSUME NEW g \in Tuners, End(g)
       PROVE  Consistent(tuner', misled') /\ UNCHANGED <<cancelled, jobs, suppressed>>
  <2> DEFINE r == [Fresh EXCEPT !.pc = "ended"]
  <2>1. r \in Goroutine /\ r.pc = "ended" /\ r.jobs = "idle"
    BY DEF Fresh, Goroutine, Outlook
  <2>2. tuner' = [tuner EXCEPT ![g] = r] /\ UNCHANGED <<cancelled, jobs, suppressed, misled>>
    BY <1>15 DEF End
  <2> HIDE DEF r
  <2>3. Consistent(tuner', misled)
    BY <1>1, <1>2, <2>1, <2>2, GoroutineMoves
  <2> QED
    BY <2>2, <2>3
<1>16. CASE TimePasses \/ JobStarted \/ JobsEdited
  <2>1. delay' \in Delay /\ near' \in BOOLEAN /\ queued' \in BOOLEAN /\ JobsUnchanged
    BY <1>1, <1>16 DEF TimePasses, JobStarted, JobsEdited, Delay
  <2> QED
    BY <1>1, <2>1 DEF JobsUnchanged
<1>17. CASE Cancel
  BY <1>1, <1>17 DEF Cancel, jobs
<1>18. CASE UNCHANGED vars
  BY <1>1, <1>18 DEF vars, jobs
<1>19. CASE \E g \in Tuners : Proceeds(g) \/ End(g)
  BY <1>1, <1>5, <1>6, <1>9, <1>10, <1>11, <1>12, <1>13, <1>14, <1>15, <1>19 DEF Proceeds, jobs
<1> QED
  BY <1>4, <1>16, <1>17, <1>18, <1>19 DEF Next

(* Every variable has its type; a goroutine begins with no belief that     *)
(* offers are suppressed, keeps nothing of what it has read for its next   *)
(* round, and one that was misled believes that they are (offerstuner.go). *)
THEOREM TypeCorrect == Spec => []TypeOK
  BY TypeInit, TypeStep, PTL DEF Spec
-----------------------------------------------------------------------------
Active(g) == tuner[g].pc \notin {"none", "ended"}

(* Somebody notices: one goroutine at work does not believe that offers    *)
(* are suppressed.                                                         *)
LEMMA OneNotices ==
    ASSUME NEW g \in Tuners, Active(g), ~tuner[g].suppressed
    PROVE  OffersAreNoticed
BY DEF Active, OffersAreNoticed

(* Beliefs are what they were, and so is what they are about.              *)
LEMMA BeliefsKept ==
    ASSUME OffersAreNoticed, UNCHANGED <<cancelled, suppressed, misled>>,
           \A h \in Tuners : tuner'[h].suppressed = tuner[h].suppressed
                             /\ (Active(h)' <=> Active(h))
    PROVE  OffersAreNoticed'
BY DEF Active, OffersAreNoticed

LEMMA SleepBelief ==
    ASSUME tuner \in [Tuners -> Goroutine], NEW g \in Tuners, NEW belief \in BOOLEAN,
           Sleep(g, belief)
    PROVE  /\ Active(g)' /\ tuner'[g].suppressed = belief
           /\ \A h \in Tuners \ {g} : tuner'[h] = tuner[h]
BY DEF Sleep, Fresh, Active

LEMMA NoticedStep == TypeOK /\ OffersAreNoticed /\ [Next]_vars => OffersAreNoticed'
<1> SUFFICES ASSUME TypeOK, OffersAreNoticed, [Next]_vars PROVE OffersAreNoticed'
  OBVIOUS
<1>0. tuner \in [Tuners -> Goroutine] /\ \A g \in Tuners : tuner[g].suppressed \in BOOLEAN
  BY DEF TypeOK, Goroutine
<1>s. ASSUME suppressed' \/ cancelled' \/ misled' # {} PROVE OffersAreNoticed'
  BY <1>s DEF OffersAreNoticed
(* A goroutine that makes a step and believes what it did before.          *)
<1>k. ASSUME NEW g \in Tuners, Active(g), Active(g)', tuner'[g].suppressed = tuner[g].suppressed,
             \A h \in Tuners \ {g} : tuner'[h] = tuner[h],
             UNCHANGED <<cancelled, suppressed, misled>>
      PROVE  OffersAreNoticed'
  BY <1>k, BeliefsKept DEF Active
<1>1. CASE Run
  <2>1. PICK g \in Tuners : At(g, "none") /\ Goto(g, "start")
    BY <1>1 DEF Run
  <2>2. ~tuner[g].suppressed
    BY <2>1 DEF TypeOK, At
  <2>3. Active(g)' /\ ~tuner'[g].suppressed
    BY <1>0, <2>1, <2>2 DEF Goto, Active, Goroutine
  <2> QED
    BY <2>3 DEF Active, OffersAreNoticed
<1>2. ASSUME NEW g \in Tuners, Started(g) \/ Revived(g) PROVE OffersAreNoticed'
  <2>1. Sleep(g, FALSE)
    BY <1>2 DEF Started, Revived, SuppressedNoMore
  <2>2. Active(g)' /\ ~tuner'[g].suppressed
    BY <1>0, <2>1, SleepBelief
  <2> QED
    BY <2>2 DEF Active, OffersAreNoticed
<1>3. ASSUME NEW g \in Tuners, ReadJobs(g) PROVE OffersAreNoticed'
  <2>1. /\ Active(g) /\ Active(g)' /\ tuner'[g].suppressed = tuner[g].suppressed
        /\ \A h \in Tuners \ {g} : tuner'[h] = tuner[h]
    BY <1>0, <1>3 DEF ReadJobs, At, Active, Goroutine
  <2> QED
    BY <1>3, <1>k, <2>1 DEF ReadJobs
<1>4. ASSUME NEW g \in Tuners, Active(g), Sleep(g, tuner[g].suppressed),
             UNCHANGED <<cancelled, suppressed, misled>>
      PROVE  OffersAreNoticed'
  BY <1>0, <1>4, <1>k, SleepBelief
<1>5. ASSUME NEW g \in Tuners, NEW pc \in {"revive", "suppress"}, Active(g), Goto(g, pc),
             UNCHANGED <<cancelled, suppressed, misled>>
      PROVE  OffersAreNoticed'
  <2>1. /\ Active(g)' /\ tuner'[g].suppressed = tuner[g].suppressed
        /\ \A h \in Tuners \ {g} : tuner'[h] = tuner[h]
    BY <1>0, <1>5 DEF Goto, Active, Goroutine
  <2> QED
    BY <1>5, <1>k, <2>1
<1>6. ASSUME NEW g \in Tuners, ReadFails(g) \/ NoToken(g) \/ Decide(g) PROVE OffersAreNoticed'
  <2>1. Active(g) /\ UNCHANGED <<cancelled, suppressed, misled>>
    BY <1>6 DEF ReadFails, NoToken, Decide, At, Active
  <2>2. Sleep(g, tuner[g].suppressed) \/ Goto(g, "revive") \/ Goto(g, "suppress")
    BY <1>6 DEF ReadFails, NoToken, SkipRevive, Decide
  <2> QED
    BY <1>4, <1>5, <2>1, <2>2
<1>7. ASSUME NEW g \in Tuners, CallFails(g) PROVE OffersAreNoticed'
  <2>1. UNCHANGED <<cancelled, suppressed, misled>>
    BY <1>7 DEF CallFails
  <2>2. CASE UNCHANGED tuner
    BY <2>1, <2>2, BeliefsKept DEF Active
  <2>3. CASE (At(g, "revive") \/ At(g, "suppress")) /\ AfterFailure(g)
    BY <1>4, <2>1, <2>3 DEF AfterFailure, At, Active
  <2> QED
    BY <1>7, <2>2, <2>3 DEF CallFails
(* A call that Mesos acts on, unheard: the goroutine that began knows no   *)
(* better than that offers are made; one that believed otherwise is misled.*)
<1>8. ASSUME NEW g \in Tuners, AnswerLost(g) PROVE OffersAreNoticed'
  <2>1. CASE At(g, "start") /\ UNCHANGED tuner
    <3>1. Active(g)' /\ ~tuner'[g].suppressed
      BY <2>1 DEF TypeOK, At, Active
    <3> QED
      BY <3>1 DEF Active, OffersAreNoticed
  <2>2. CASE /\ At(g, "revive") /\ Sleep(g, tuner[g].suppressed)
             /\ misled' = IF tuner[g].suppressed THEN misled \cup {g} ELSE misled
    <3>1. CASE tuner[g].suppressed
      BY <1>s, <2>2, <3>1
    <3>2. CASE ~tuner[g].suppressed
      <4>1. Active(g)' /\ ~tuner'[g].suppressed
        BY <1>0, <2>2, <3>2, SleepBelief
      <4> QED
        BY <4>1 DEF Active, OffersAreNoticed
    <3> QED
      BY <3>1, <3>2
  <2>3. CASE suppressed' = TRUE
    BY <1>s, <2>3
  <2> QED
    BY <1>8, <2>1, <2>2, <2>3 DEF AnswerLost
<1>9. ASSUME NEW g \in Tuners, Suppressed(g) \/ End(g) PROVE OffersAreNoticed'
  <2>1. CASE Suppressed(g)
    BY <1>s, <2>1 DEF Suppressed
  <2>2. CASE End(g)
    <3>1. cancelled' = cancelled /\ cancelled
      BY <2>2 DEF End
    <3>2. cancelled'
      BY <3>1
    <3> QED
      BY <1>s, <3>2
  <2> QED
    BY <1>9, <2>1, <2>2
<1>10. CASE Cancel
  BY <1>10, <1>s DEF Cancel
<1>11. CASE UNCHANGED <<cancelled, suppressed, tuner, misled>>
  BY <1>11, BeliefsKept DEF Active
<1> QED
  BY <1>1, <1>2, <1>3, <1>6, <1>7, <1>8, <1>9, <1>10, <1>11
  DEF Next, Proceeds, TimePasses, JobStarted, JobsEdited, JobsUnchanged, vars

(* However many goroutines suppress and revive offers beside each other,   *)
(* offers are not made with all of them believing the contrary, unless the *)
(* answer to a REVIVE was lost (offerstuner.go, Run).                      *)
THEOREM SomebodyNotices == Spec => []OffersAreNoticed
<1>1. Init => OffersAreNoticed
  BY DEF Init, OffersAreNoticed, Fresh
<1> QED
  BY <1>1, TypeInit, TypeStep, NoticedStep, PTL DEF Spec
=============================================================================
