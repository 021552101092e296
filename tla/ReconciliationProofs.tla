------------------------ MODULE ReconciliationProofs ------------------------
(***************************************************************************)
(* The flag under the lock of Run is enough: rounds never run side by      *)
(* side, however many subscriptions, goroutines and tasks there are.       *)
(***************************************************************************)
EXTENDS Reconciliation, TLAPS

Active(g) == rec[g].pc \notin {"none", "ended"}

(* The flag is up as long as a goroutine is under way.                     *)
FlagIsUp == \A g \in Goroutines : Active(g) => running

RoundInv == TypeOK /\ FlagIsUp /\ AtMostOneRound

(* A step of one goroutine that neither begins nor ends it, nor touches    *)
(* the flag, disturbs nothing.                                             *)
LEMMA GoesOn ==
    ASSUME RoundInv,
           NEW g \in Goroutines, Active(g), NEW r \in Goroutine,
           rec' = [rec EXCEPT ![g] = r],
           running' = running
    PROVE  FlagIsUp' /\ AtMostOneRound'
<1>1. rec \in [Goroutines -> Goroutine]
  BY DEF RoundInv, TypeOK
<1>2. \A h \in Goroutines : Active(h)' => Active(h)
  <2> SUFFICES ASSUME NEW h \in Goroutines, Active(h)' PROVE Active(h)
    OBVIOUS
  <2>1. CASE h = g
    BY <2>1
  <2>2. CASE h # g
    BY <1>1, <2>2 DEF Active
  <2> QED
    BY <2>1, <2>2
<1>3. FlagIsUp'
  BY <1>2 DEF RoundInv, FlagIsUp
<1>4. AtMostOneRound'
  BY <1>2 DEF RoundInv, AtMostOneRound, Active
<1> QED
  BY <1>3, <1>4

LEMMA InitRounds == Init => RoundInv
<1> SUFFICES ASSUME Init PROVE RoundInv
  OBVIOUS
<1>1. \A g \in Goroutines : rec[g] = NotStarted
  BY DEF Init
<1>2. rec \in [Goroutines -> Goroutine]
  BY DEF Init, NotStarted, Goroutine
<1>3. phase \in [Tasks -> Phase]
  BY DEF Init, Phase
<1>4. TypeOK
  BY <1>1, <1>2, <1>3 DEF Init, TypeOK, NotStarted, NoAnswers
<1>5. FlagIsUp /\ AtMostOneRound
  BY <1>1 DEF FlagIsUp, AtMostOneRound, Active, NotStarted
<1> QED
  BY <1>4, <1>5 DEF RoundInv

(* The conjunct of TypeOK about goroutines, for a goroutine that becomes r. *)
LEMMA Becomes ==
    ASSUME TypeOK,
           NEW g \in Goroutines, NEW r \in Goroutine,
           r.pc \in {"ask", "called", "listen"} <=> r.todo # {},
           rec' = [rec EXCEPT ![g] = r]
    PROVE  /\ rec' \in [Goroutines -> Goroutine]
           /\ \A h \in Goroutines :
                rec'[h].pc \in {"ask", "called", "listen"} <=> rec'[h].todo # {}
<1>1. rec \in [Goroutines -> Goroutine]
  BY DEF TypeOK
<1>2. rec' \in [Goroutines -> Goroutine]
  BY <1>1
<1>3. ASSUME NEW h \in Goroutines
      PROVE  rec'[h].pc \in {"ask", "called", "listen"} <=> rec'[h].todo # {}
  <2>1. CASE h = g
    BY <1>1, <2>1
  <2>2. CASE h # g
    BY <1>1, <2>2 DEF TypeOK
  <2> QED
    BY <2>1, <2>2
<1> QED
  BY <1>2, <1>3

(* What a goroutine may turn into.                                         *)
LEMMA Shapes ==
    /\ NotStarted \in Goroutine /\ NotStarted.pc = "none" /\ NotStarted.todo = {}
    /\ Waiting \in Goroutine /\ Waiting.pc = "wait" /\ Waiting.todo = {}
    /\ Ended \in Goroutine /\ Ended.pc = "ended" /\ Ended.todo = {}
BY DEF NotStarted, Waiting, Ended, Goroutine

LEMMA NextRounds == RoundInv /\ [Next]_vars => RoundInv'
<1> SUFFICES ASSUME RoundInv, [Next]_vars PROVE RoundInv'
  OBVIOUS
<1> USE DEF RoundInv
<1>t. rec \in [Goroutines -> Goroutine]
  BY DEF TypeOK
(* Every step of a goroutine under way that leaves the flag alone.         *)
<1>g. ASSUME NEW g \in Goroutines, Active(g), NEW r \in Goroutine,
             r.pc \in {"ask", "called", "listen"} <=> r.todo # {},
             rec' = [rec EXCEPT ![g] = r],
             roundQ' \in BOOLEAN, UNCHANGED <<cancelled, running>>,
             subscribed' \in BOOLEAN, asked' \subseteq Tasks,
             answers' \in [Tasks -> {"none", "Live", "Lost"}],
             phase' \in [Tasks -> Phase]
      PROVE  RoundInv'
  <2>1. FlagIsUp' /\ AtMostOneRound'
    BY <1>g, GoesOn
  <2>2. TypeOK'
    BY <1>g, Becomes DEF TypeOK
  <2> QED
    BY <2>1, <2>2
(* Every step that leaves goroutines and flag alone.                       *)
<1>e. ASSUME UNCHANGED <<rec, running>>,
             cancelled' \in BOOLEAN, roundQ' \in BOOLEAN,
             subscribed' \in BOOLEAN, asked' \subseteq Tasks,
             answers' \in [Tasks -> {"none", "Live", "Lost"}],
             phase' \in [Tasks -> Phase]
      PROVE  RoundInv'
  BY <1>e DEF TypeOK, FlagIsUp, AtMostOneRound, Active
<1>1. CASE Run
  <2>1. ASSUME MayStart PROVE RoundInv'
    <3>1. PICK g \in Goroutines : At(g, "none") /\ rec' = [rec EXCEPT ![g] = Waiting]
      BY <1>1, <2>1 DEF Run, Become
    <3>2. TypeOK'
      BY <1>1, <3>1, Becomes, Shapes DEF Run, TypeOK
    <3>3. \A h \in Goroutines : Active(h)' => h = g
      BY <1>t, <2>1, <3>1 DEF MayStart, FlagIsUp, Active
    <3>4. running'
      BY <1>1 DEF Run
    <3>5. FlagIsUp'
      BY <3>4 DEF FlagIsUp
    <3>6. AtMostOneRound'
      BY <3>3 DEF AtMostOneRound, Active
    <3> QED
      BY <3>2, <3>5, <3>6
  <2>2. ASSUME ~MayStart PROVE RoundInv'
    <3>1. running = TRUE
      BY <2>2 DEF MayStart, TypeOK
    <3>2. UNCHANGED <<rec, running>>
      BY <1>1, <2>2, <3>1 DEF Run
    <3> QED
      BY <1>1, <1>e, <3>2 DEF Run, TypeOK
  <2> QED
    BY <2>1, <2>2
<1>2. ASSUME NEW g \in Goroutines, TimerFires(g) PROVE RoundInv'
  <2> DEFINE r == [rec[g] EXCEPT !.timer = FALSE]
  <2>1. Active(g)
    BY <1>2 DEF TimerFires, At, Active
  <2>2. r \in Goroutine /\ r.pc = rec[g].pc /\ r.todo = rec[g].todo
    BY <1>t DEF Goroutine
  <2>3. r.pc \in {"ask", "called", "listen"} <=> r.todo # {}
    BY <2>2 DEF TypeOK
  <2>4. rec' = [rec EXCEPT ![g] = r]
    BY <1>2 DEF TimerFires
  <2> HIDE DEF r
  <2> QED
    BY <1>2, <1>g, <2>1, <2>2, <2>3, <2>4 DEF TimerFires, mesos, TypeOK
<1>3. ASSUME NEW g \in Goroutines, RoundStarts(g) PROVE RoundInv'
  <2> DEFINE r == IF Current = {} THEN Waiting
                  ELSE [Waiting EXCEPT !.pc = "ask", !.todo = Current]
  <2>1. Active(g)
    BY <1>3 DEF RoundStarts, At, Active
  <2>2. r \in Goroutine /\ (r.pc \in {"ask", "called", "listen"} <=> r.todo # {})
    BY Shapes DEF Waiting, Goroutine, Current
  <2>3. rec' = [rec EXCEPT ![g] = r]
    BY <1>3 DEF RoundStarts, Become
  <2> HIDE DEF r
  <2> QED
    BY <1>3, <1>g, <2>1, <2>2, <2>3 DEF RoundStarts, mesos, TypeOK
(* A goroutine that goes back to wait.                                     *)
<1>w. ASSUME NEW g \in Goroutines, Active(g), Become(g, Waiting),
             roundQ' \in BOOLEAN, UNCHANGED <<cancelled, running, mesos, phase>>
      PROVE  RoundInv'
  BY <1>w, <1>g, Shapes DEF Become, mesos, TypeOK
<1>4. ASSUME NEW g \in Goroutines, GetJobsFails(g) PROVE RoundInv'
  BY <1>4, <1>w DEF GetJobsFails, AfterFailure, At, Active
(* A goroutine that goes from one step of a round to another.              *)
<1>r. ASSUME NEW g \in Goroutines, NEW pc \in {"ask", "called", "listen"},
             rec[g].pc \in {"ask", "called", "listen"}, Goto(g, pc),
             UNCHANGED <<cancelled, running, roundQ, subscribed, answers, phase>>,
             asked' \subseteq Tasks
      PROVE  RoundInv'
  <2> DEFINE r == [rec[g] EXCEPT !.pc = pc]
  <2>1. Active(g)
    BY <1>r DEF Active
  <2>2. r \in Goroutine /\ r.pc = pc /\ r.todo = rec[g].todo
    BY <1>t DEF Goroutine
  <2>3. r.pc \in {"ask", "called", "listen"} <=> r.todo # {}
    BY <1>r, <2>2 DEF TypeOK
  <2>4. rec' = [rec EXCEPT ![g] = r]
    BY <1>r DEF Goto
  <2> HIDE DEF r
  <2> QED
    BY <1>r, <1>g, <2>1, <2>2, <2>3, <2>4 DEF TypeOK
<1>5. ASSUME NEW g \in Goroutines, Call(g) PROVE RoundInv'
  <2>1. asked' \subseteq Tasks
    BY <1>5, <1>t DEF Call, TypeOK, Goroutine
  <2> QED
    BY <1>5, <1>r, <2>1 DEF Call, At
<1>6. ASSUME NEW g \in Goroutines, CallReturns(g) PROVE RoundInv'
  BY <1>6, <1>r DEF CallReturns, At, mesos, TypeOK
<1>7. ASSUME NEW g \in Goroutines, CallFails(g) PROVE RoundInv'
  BY <1>7, <1>w DEF CallFails, AfterFailure, At, Active, TypeOK
<1>8. ASSUME NEW g \in Goroutines, Tick(g) PROVE RoundInv'
  BY <1>8, <1>r DEF Tick, AfterTick, At, mesos, TypeOK
<1>9. ASSUME NEW g \in Goroutines, RoundCancelled(g) PROVE RoundInv'
  BY <1>9, <1>w DEF RoundCancelled, At, Active, TypeOK
<1>10. ASSUME NEW g \in Goroutines, End(g) PROVE RoundInv'
  <2>1. rec' = [rec EXCEPT ![g] = Ended]
    BY <1>10 DEF End, Become
  <2>2. TypeOK'
    BY <1>10, <2>1, Becomes, Shapes DEF End, TypeOK, mesos
  <2>3. Active(g)
    BY <1>10 DEF End, At, Active
  <2>4. \A h \in Goroutines : ~Active(h)'
    <3> SUFFICES ASSUME NEW h \in Goroutines PROVE ~Active(h)'
      OBVIOUS
    <3>1. CASE h = g
      BY <1>t, <2>1, <3>1, Shapes DEF Active
    <3>2. CASE h # g
      BY <1>t, <2>1, <2>3, <3>2 DEF Active, AtMostOneRound
    <3> QED
      BY <3>1, <3>2
  <2>5. FlagIsUp' /\ AtMostOneRound'
    BY <2>4 DEF FlagIsUp, AtMostOneRound, Active
  <2> QED
    BY <2>2, <2>5
<1>11. ASSUME NEW t \in Tasks, Handle(t) PROVE RoundInv'
  <2>1. /\ answers' \in [Tasks -> {"none", "Live", "Lost"}]
        /\ phase' \in [Tasks -> Phase]
        /\ UNCHANGED <<cancelled, running, roundQ, subscribed, asked>>
    BY <1>11 DEF Handle, TypeOK, Phase
  <2>2. CASE UNCHANGED rec
    BY <2>1, <2>2, <1>e DEF TypeOK
  <2>3. ASSUME NEW g \in Goroutines, At(g, "listen"), Hears(g, t) PROVE RoundInv'
    <3> DEFINE r == IF Left(g, t) = {} THEN Waiting
                    ELSE [rec[g] EXCEPT !.todo = Left(g, t)]
    <3>1. r \in Goroutine /\ (r.pc \in {"ask", "called", "listen"} <=> r.todo # {})
      BY <1>t, <2>3, Shapes DEF At, Left, Goroutine
    <3>2. rec' = [rec EXCEPT ![g] = r]
      BY <2>3 DEF Hears, Become
    <3>3. Active(g)
      BY <2>3 DEF At, Active
    <3> HIDE DEF r
    <3> QED
      BY <1>g, <2>1, <3>1, <3>2, <3>3 DEF TypeOK
  <2> QED
    BY <1>11, <2>2, <2>3 DEF Handle
<1>12. ASSUME NEW t \in Tasks, Reply(t) PROVE RoundInv'
  <2>1. answers' \in [Tasks -> {"none", "Live", "Lost"}]
    BY <1>12 DEF Reply, TypeOK
  <2> QED
    BY <1>12, <1>e, <2>1 DEF Reply, TypeOK, reconciler
<1>13. ASSUME NEW t \in Tasks, TaskSteps(t) PROVE RoundInv'
  <2>1. phase' \in [Tasks -> Phase]
    BY <1>13 DEF TaskSteps, TypeOK, Phase
  <2> QED
    BY <1>13, <1>e, <2>1 DEF TaskSteps, TypeOK, reconciler, mesos
<1>14. CASE Disconnect
  BY <1>14, <1>e DEF Disconnect, TypeOK, reconciler, NoAnswers
<1>15. CASE Cancel
  BY <1>15, <1>e DEF Cancel, TypeOK, reconciler, mesos
<1>16. CASE UNCHANGED vars
  BY <1>16, <1>e DEF vars, TypeOK, reconciler, mesos
<1> QED
  BY <1>1, <1>2, <1>3, <1>4, <1>5, <1>6, <1>7, <1>8, <1>9, <1>10, <1>11, <1>12,
     <1>13, <1>14, <1>15, <1>16 DEF Next, Proceeds

(* Rounds never run side by side: they would share the answers of Mesos    *)
(* and each wait for those that the other one has heard (Run,              *)
(* mesos/reconciliation).                                                  *)
THEOREM OneRound == Spec => []AtMostOneRound
<1>1. RoundInv => AtMostOneRound
  BY DEF RoundInv
<1> QED
  BY <1>1, InitRounds, NextRounds, PTL DEF Spec

(* Every reachable state of the reconciler is well typed: in particular, a *)
(* goroutine is in a round if and only if there are tasks it has not heard *)
(* of (the last answer ends the round).                                    *)
THEOREM ReconcilerTyped == Spec => []TypeOK
<1>1. RoundInv => TypeOK
  BY DEF RoundInv
<1> QED
  BY <1>1, InitRounds, NextRounds, PTL DEF Spec
-----------------------------------------------------------------------------
(* The goroutine under way has a round, or one to come, after its step.    *)
LEMMA RoundToCome ==
    ASSUME NEW g \in Goroutines, NEW r \in Goroutine, rec \in [Goroutines -> Goroutine],
           rec' = [rec EXCEPT ![g] = r],
           r.pc \notin {"none", "ended"}, r.pc = "wait" => r.timer \/ roundQ'
    PROVE  RoundsGoOn'
<1>1. rec'[g] = r
  OBVIOUS
<1> QED
  BY <1>1 DEF RoundsGoOn

LEMMA RoundsUndisturbed ==
    ASSUME RoundsGoOn, UNCHANGED rec, running' => running, roundQ => roundQ'
    PROVE  RoundsGoOn'
BY DEF RoundsGoOn

LEMMA RoundsStep == TypeOK /\ RoundsGoOn /\ [Next]_vars => RoundsGoOn'
<1> SUFFICES ASSUME TypeOK, RoundsGoOn, [Next]_vars PROVE RoundsGoOn'
  OBVIOUS
<1>t. rec \in [Goroutines -> Goroutine]
  BY DEF TypeOK
<1>w. Waiting.timer = TRUE
  BY DEF Waiting
<1>1. CASE Run
  <2>1. roundQ' = TRUE
    BY <1>1 DEF Run
  <2>2. CASE MayStart
    BY <1>1, <1>t, <2>2, RoundToCome, Shapes, <1>w DEF Run, Become
  <2>3. CASE ~MayStart
    BY <1>1, <2>1, <2>3, RoundsUndisturbed DEF Run, MayStart
  <2> QED
    BY <2>2, <2>3
<1>2. ASSUME NEW g \in Goroutines, TimerFires(g) PROVE RoundsGoOn'
  <2> DEFINE r == [rec[g] EXCEPT !.timer = FALSE]
  <2>1. r \in Goroutine /\ r.pc = "wait" /\ roundQ' = TRUE /\ rec' = [rec EXCEPT ![g] = r]
    BY <1>2, <1>t DEF TimerFires, At, Goroutine
  <2> HIDE DEF r
  <2> QED
    BY <1>t, <2>1, RoundToCome
<1>3. ASSUME NEW g \in Goroutines, RoundStarts(g) PROVE RoundsGoOn'
  <2> DEFINE r == IF Current = {} THEN Waiting
                  ELSE [Waiting EXCEPT !.pc = "ask", !.todo = Current]
  <2>1. /\ r \in Goroutine /\ r.pc \notin {"none", "ended"} /\ (r.pc = "wait" => r.timer)
        /\ rec' = [rec EXCEPT ![g] = r]
    BY <1>3, <1>w, Shapes DEF RoundStarts, Become, Waiting, Goroutine, Current
  <2> HIDE DEF r
  <2> QED
    BY <1>t, <2>1, RoundToCome
<1>4. ASSUME NEW g \in Goroutines, Become(g, Waiting) PROVE RoundsGoOn'
  BY <1>4, <1>t, <1>w, RoundToCome, Shapes DEF Become
<1>5. ASSUME NEW g \in Goroutines, NEW pc \in {"ask", "called", "listen"}, Goto(g, pc)
      PROVE  RoundsGoOn'
  <2> DEFINE r == [rec[g] EXCEPT !.pc = pc]
  <2>1. r \in Goroutine /\ r.pc = pc /\ rec' = [rec EXCEPT ![g] = r]
    BY <1>5, <1>t DEF Goto, Goroutine
  <2> HIDE DEF r
  <2> QED
    BY <1>t, <2>1, RoundToCome
<1>6. ASSUME NEW g \in Goroutines, Proceeds(g) PROVE RoundsGoOn'
  <2>1. CASE TimerFires(g) \/ RoundStarts(g)
    BY <1>2, <1>3, <2>1
  <2>2. CASE GetJobsFails(g) \/ CallFails(g) \/ RoundCancelled(g)
    BY <1>4, <2>2 DEF GetJobsFails, CallFails, RoundCancelled, AfterFailure
  <2>3. CASE Call(g) \/ CallReturns(g) \/ Tick(g)
    BY <1>5, <2>3 DEF Call, CallReturns, Tick, AfterTick
  <2>4. CASE End(g)
    BY <2>4 DEF End, RoundsGoOn
  <2> QED
    BY <1>6, <2>1, <2>2, <2>3, <2>4 DEF Proceeds
<1>7. ASSUME NEW t \in Tasks, Handle(t) PROVE RoundsGoOn'
  <2>1. CASE UNCHANGED rec
    BY <1>7, <2>1, RoundsUndisturbed DEF Handle
  <2>2. ASSUME NEW g \in Goroutines, At(g, "listen"), Hears(g, t) PROVE RoundsGoOn'
    <3> DEFINE r == [rec[g] EXCEPT !.todo = Left(g, t)]
    <3>1. r \in Goroutine /\ r.pc = "listen"
      BY <1>t, <2>2 DEF At, Left, Goroutine
    <3>2. CASE rec' = [rec EXCEPT ![g] = r]
      <4> HIDE DEF r
      <4> QED
        BY <1>t, <3>1, <3>2, RoundToCome
    <3> QED
      BY <1>4, <2>2, <3>2 DEF Hears, Become
  <2> QED
    BY <1>7, <2>1, <2>2 DEF Handle
<1>8. CASE UNCHANGED <<rec, running, roundQ>>
  BY <1>8, RoundsUndisturbed
<1> QED
  BY <1>1, <1>6, <1>7, <1>8 DEF Next, Reply, TaskSteps, Disconnect, Cancel, reconciler, vars

(* Whenever Run would leave it to the goroutine there is, that goroutine   *)
(* is alive and has a round, a request for one or a timer: no failure of a *)
(* round and no order of subscriptions and cancellation leaves jobs to an  *)
(* absent reconciler (Run, mesos/reconciliation).                          *)
THEOREM RoundsContinue == Spec => []RoundsGoOn
<1>1. Init => RoundsGoOn
  BY DEF Init, RoundsGoOn
<1> QED
  BY <1>1, ReconcilerTyped, RoundsStep, PTL DEF Spec
=============================================================================
