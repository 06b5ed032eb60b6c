--------------------------- MODULE EventLoopProofs ---------------------------
(***************************************************************************)
(* Proofs that, for every set of threads and functors, an EventLoop never  *)
(* loses a wakeup and executes what it is handed in order and once.        *)
(***************************************************************************)
EXTENDS EventLoop, SequenceTheorems, TLAPS

(* What epoll_wait fills in is a list of registered channels.              *)
LEMMA EventListsType ==
  ASSUME ready \subseteq Channels
  PROVE  EventLists \subseteq Seq(Channels \cup {EfdChannel})
<1> SUFFICES ASSUME NEW n \in Nat, NEW s \in [1 .. n -> ReadyChannels]
             PROVE  s \in Seq(Channels \cup {EfdChannel})
  BY DEF EventLists
<1>1. ReadyChannels \subseteq Channels \cup {EfdChannel}
  BY DEF ReadyChannels
<1>2. s \in [1 .. n -> Channels \cup {EfdChannel}]
  BY <1>1
<1> QED
  BY <1>2, SeqDef

-----------------------------------------------------------------------------
(* The state keeps its types.                                              *)
LEMMA TypeStep == TypeOK /\ [Next]_vars => TypeOK'
<1> SUFFICES ASSUME TypeOK, [Next]_vars PROVE TypeOK'
  OBVIOUS
<1> USE DEF TypeOK, loopVars, queueVars
<1>1. ASSUME NEW self \in Threads, NEW t \in Task, queueInLoop(self, t)
      PROVE  TypeOK'
  BY <1>1, AppendProperties DEF queueInLoop
<1>2. ASSUME NEW t \in Task, RunNow(t) PROVE TypeOK'
  BY <1>2 DEF RunNow
<1>3. ASSUME NEW self \in Threads, QuitLoop(self) PROVE TypeOK'
  BY <1>3 DEF QuitLoop
<1>4. ASSUME NEW self \in Threads, wakeup(self) PROVE TypeOK'
  BY <1>4, EventfdAssumption DEF wakeup, EventfdAssumption
<1>5. CASE EnterLoop
  BY <1>5 DEF EnterLoop
<1>6. CASE TestQuit
  BY <1>6 DEF TestQuit
<1>7. CASE Poll
  BY <1>7, EventListsType DEF Poll
<1>8. CASE PollError
  BY <1>8 DEF PollError
<1>9. CASE HandleWakeup
  BY <1>9, EventfdAssumption, HeadTailProperties DEF HandleWakeup, EventfdAssumption
<1>10. CASE HandlerReturns
  BY <1>10, HeadTailProperties DEF HandlerReturns
<1>11. CASE SwapPending
  BY <1>11 DEF SwapPending
<1>12. CASE FunctorReturns
  BY <1>12, HeadTailProperties, AppendProperties DEF FunctorReturns
<1>13. CASE EndPending
  BY <1>13 DEF EndPending
<1>14. ASSUME NEW c \in Channels, BecomesReady(c) PROVE TypeOK'
  BY <1>14 DEF BecomesReady
<1>15. CASE UNCHANGED vars
  BY <1>15 DEF vars
<1> QED
  BY <1>1, <1>2, <1>3, <1>4, <1>5, <1>6, <1>7, <1>8, <1>9, <1>10, <1>11,
     <1>12, <1>13, <1>14, <1>15 DEF Next, LoopStep, runInLoop

(* The fields of an EventLoop keep their types in every run.               *)
THEOREM TypeCorrect == SafeSpec => []TypeOK
<1>1. Init => TypeOK
  <2> SUFFICES ASSUME Init PROVE TypeOK
    OBVIOUS
  <2>1. 0 \in 0 .. EventfdMax
    BY EventfdAssumption DEF EventfdAssumption
  <2>2. /\ <<>> \in Seq(Task)
        /\ <<>> \in Seq(Channels \cup {EfdChannel})
    BY EmptySeq
  <2> QED
    BY <2>1, <2>2 DEF Init, TypeOK
<1>2. QED
  BY <1>1, TypeStep, PTL DEF SafeSpec

-----------------------------------------------------------------------------
(* The wakeups.                                                            *)

(* The flag doPendingFunctors keeps is up exactly while a batch runs, and  *)
(* the loop thread has finished its own wakeups when it tests or polls.    *)
WakeupInv ==
  /\ FlagTracksBatch
  /\ WakeupKept
  /\ QuitWakes

LEMMA WakeupStep == TypeOK /\ WakeupInv /\ [Next]_vars => WakeupInv'
<1> SUFFICES ASSUME TypeOK, WakeupInv, [Next]_vars PROVE WakeupInv'
  OBVIOUS
<1> USE DEF WakeupInv, FlagTracksBatch, WakeupKept, QuitWakes, WakeupComing,
            HoldsLateTask, loopVars, queueVars
<1>1. ASSUME NEW self \in Threads, NEW t \in Task, queueInLoop(self, t)
      PROVE  WakeupInv'
  <2>1. UNCHANGED <<pc, quit, callingPendingFunctors, eventfd>> /\ waking \subseteq waking'
    BY <1>1 DEF queueInLoop
  <2>2. WakeupComing => WakeupComing'
    BY <2>1
  <2>3. CASE NeedsWakeup(self)
    BY <1>1, <2>1, <2>3 DEF queueInLoop
  <2>4. CASE ~NeedsWakeup(self)
    <3>1. pc \in {"setup", "dispatch", "exited"}
      BY <1>1, <2>4, ThreadsAssumption
        DEF queueInLoop, NeedsWakeup, isInLoopThread, UserCode, ThreadsAssumption
    <3>2. CASE pc = "setup"
      <4>1. t \in SetupTasks
        BY <1>1, <2>4, <3>2 DEF queueInLoop, NeedsWakeup
      <4>2. ASSUME NEW i \in DOMAIN pendingFunctors', pendingFunctors'[i] \notin SetupTasks
            PROVE  i \in DOMAIN pendingFunctors /\ pendingFunctors[i] \notin SetupTasks
        <5>1. /\ pendingFunctors \in Seq(Task)
              /\ pendingFunctors' = Append(pendingFunctors, t)
          BY <1>1 DEF queueInLoop, TypeOK
        <5>2. /\ DOMAIN pendingFunctors' = 1 .. Len(pendingFunctors) + 1
              /\ DOMAIN pendingFunctors = 1 .. Len(pendingFunctors)
              /\ Len(pendingFunctors) \in Nat
          BY <5>1, AppendProperties, LenProperties
        <5>3. /\ \A j \in 1 .. Len(pendingFunctors) : pendingFunctors'[j] = pendingFunctors[j]
              /\ pendingFunctors'[Len(pendingFunctors) + 1] = t
          BY <5>1, AppendProperties
        <5>4. i # Len(pendingFunctors) + 1
          BY <4>1, <4>2, <5>3
        <5>5. i \in 1 .. Len(pendingFunctors)
          BY <4>2, <5>2, <5>4
        <5> QED
          BY <4>2, <5>2, <5>3, <5>5
      <4>3. HoldsLateTask' => HoldsLateTask
        BY <4>2
      <4> QED
        BY <2>1, <2>2, <3>2, <4>3
    <3> QED
      BY <2>1, <3>1, <3>2
  <2> QED
    BY <2>3, <2>4
<1>2. ASSUME NEW t \in Task, RunNow(t) PROVE WakeupInv'
  BY <1>2 DEF RunNow
<1>3. ASSUME NEW self \in Threads, QuitLoop(self) PROVE WakeupInv'
  BY <1>3, ThreadsAssumption
    DEF QuitLoop, UserCode, isInLoopThread, Threads, ThreadsAssumption
<1>4. ASSUME NEW self \in Threads, wakeup(self) PROVE WakeupInv'
  BY <1>4, EventfdAssumption DEF wakeup, EventfdAssumption, TypeOK
<1>5. CASE EnterLoop
  BY <1>5 DEF EnterLoop, AtPc
<1>6. CASE TestQuit
  BY <1>6 DEF TestQuit, AtPc
<1>7. CASE Poll
  BY <1>7 DEF Poll, AtPc
<1>8. CASE PollError
  BY <1>8 DEF PollError, AtPc
<1>9. CASE HandleWakeup
  BY <1>9 DEF HandleWakeup, AtPc
<1>10. CASE HandlerReturns
  BY <1>10 DEF HandlerReturns, AtPc
<1>11. CASE SwapPending
  BY <1>11 DEF SwapPending, AtPc
<1>12. CASE FunctorReturns
  BY <1>12 DEF FunctorReturns, AtPc
<1>13. CASE EndPending
  BY <1>13 DEF EndPending, AtPc
<1>14. ASSUME NEW c \in Channels, BecomesReady(c) PROVE WakeupInv'
  BY <1>14 DEF BecomesReady
<1>15. CASE UNCHANGED vars
  BY <1>15 DEF vars
<1> QED
  BY <1>1, <1>2, <1>3, <1>4, <1>5, <1>6, <1>7, <1>8, <1>9, <1>10, <1>11,
     <1>12, <1>13, <1>14, <1>15 DEF Next, LoopStep, runInLoop

LEMMA WakeupInvariant == SafeSpec => []WakeupInv
<1>1. Init => WakeupInv
  BY DEF Init, WakeupInv, FlagTracksBatch, WakeupKept, QuitWakes, HoldsLateTask
<1>2. QED
  BY <1>1, WakeupStep, TypeCorrect, PTL DEF SafeSpec

(* The loop thread never sleeps in epoll_wait over a functor that another  *)
(* thread, a handler or a functor queued, without a wakeup on its way.     *)
THEOREM WakeupNotLost == SafeSpec => []NoLostWakeup
<1>1. WakeupInv => NoLostWakeup
  BY DEF WakeupInv, WakeupKept, NoLostWakeup
<1> QED
  BY <1>1, WakeupInvariant, PTL

(* A quit() never finds the loop thread asleep for good.                   *)
THEOREM QuitNotLost == SafeSpec => []QuitWakes
<1>1. WakeupInv => QuitWakes
  BY DEF WakeupInv
<1> QED
  BY <1>1, WakeupInvariant, PTL

-----------------------------------------------------------------------------
(* The order of execution.                                                 *)

OrderInv == BatchOnlyInRun /\ InOrder

LEMMA OrderStep == TypeOK /\ OrderInv /\ [Next]_vars => OrderInv'
<1> SUFFICES ASSUME TypeOK, OrderInv, [Next]_vars PROVE OrderInv'
  OBVIOUS
<1> USE DEF OrderInv, BatchOnlyInRun, InOrder, loopVars, queueVars
<1>0. /\ pendingFunctors \in Seq(Task)
      /\ tempRuns \in Seq(Task)
      /\ done \in Seq(Task)
  BY DEF TypeOK
<1>1. ASSUME NEW self \in Threads, NEW t \in Task, queueInLoop(self, t)
      PROVE  OrderInv'
  <2>1. /\ done \o tempRuns \in Seq(Task)
        /\ <<t>> \in Seq(Task)
    BY <1>0, ConcatProperties
  <2>2. (done \o tempRuns) \o (pendingFunctors \o <<t>>)
          = ((done \o tempRuns) \o pendingFunctors) \o <<t>>
    BY <1>0, <2>1, ConcatAssociative
  <2>3. /\ (done \o tempRuns) \o pendingFunctors \in Seq(Task)
        /\ queued = (done \o tempRuns) \o pendingFunctors
    BY <1>0, <2>1, ConcatProperties
  <2>4. /\ Append(pendingFunctors, t) = pendingFunctors \o <<t>>
        /\ Append(queued, t) = queued \o <<t>>
    BY <1>0, <2>3, AppendIsConcat
  <2> QED
    BY <1>1, <2>2, <2>3, <2>4 DEF queueInLoop
<1>2. ASSUME NEW t \in Task, RunNow(t) PROVE OrderInv'
  BY <1>2 DEF RunNow
<1>3. ASSUME NEW self \in Threads, QuitLoop(self) PROVE OrderInv'
  BY <1>3 DEF QuitLoop
<1>4. ASSUME NEW self \in Threads, wakeup(self) PROVE OrderInv'
  BY <1>4 DEF wakeup
<1>5. CASE EnterLoop
  BY <1>5 DEF EnterLoop, AtPc
<1>6. CASE TestQuit
  BY <1>6 DEF TestQuit, AtPc
<1>7. CASE Poll
  BY <1>7 DEF Poll, AtPc
<1>8. CASE PollError
  BY <1>8 DEF PollError, AtPc
<1>9. CASE HandleWakeup
  BY <1>9 DEF HandleWakeup, AtPc
<1>10. CASE HandlerReturns
  BY <1>10 DEF HandlerReturns, AtPc
<1>11. CASE SwapPending
  <2>1. done \o <<>> = done
    BY <1>0, ConcatEmptySeq
  <2>2. done \o pendingFunctors \in Seq(Task)
    BY <1>0, ConcatProperties
  <2>3. (done \o pendingFunctors) \o <<>> = done \o pendingFunctors
    BY <2>2, ConcatEmptySeq
  <2> QED
    BY <1>11, <2>1, <2>3 DEF SwapPending, AtPc
<1>12. CASE FunctorReturns
  <2>1. /\ Head(tempRuns) \in Task
        /\ Tail(tempRuns) \in Seq(Task)
        /\ tempRuns = <<Head(tempRuns)>> \o Tail(tempRuns)
    BY <1>0, <1>12, HeadTailProperties, ConcatProperties, SeqEqual DEF FunctorReturns
  <2>2. <<Head(tempRuns)>> \in Seq(Task)
    BY <2>1
  <2>3. (done \o <<Head(tempRuns)>>) \o Tail(tempRuns) = done \o tempRuns
    BY <1>0, <2>1, <2>2, ConcatAssociative
  <2>4. Append(done, Head(tempRuns)) = done \o <<Head(tempRuns)>>
    BY <1>0, <2>1, AppendIsConcat
  <2>5. /\ done' = Append(done, Head(tempRuns)) /\ tempRuns' = Tail(tempRuns)
        /\ pendingFunctors' = pendingFunctors /\ queued' = queued
        /\ pc = "run" /\ pc' = pc
    BY <1>12 DEF FunctorReturns, AtPc
  <2>6. done' \o tempRuns' = done \o tempRuns
    BY <2>3, <2>4, <2>5
  <2> QED
    BY <2>5, <2>6
<1>13. CASE EndPending
  BY <1>13 DEF EndPending, AtPc
<1>14. ASSUME NEW c \in Channels, BecomesReady(c) PROVE OrderInv'
  BY <1>14 DEF BecomesReady
<1>15. CASE UNCHANGED vars
  BY <1>15 DEF vars
<1> QED
  BY <1>1, <1>2, <1>3, <1>4, <1>5, <1>6, <1>7, <1>8, <1>9, <1>10, <1>11,
     <1>12, <1>13, <1>14, <1>15 DEF Next, LoopStep, runInLoop

LEMMA OrderInvariant == SafeSpec => []OrderInv
<1>1. Init => OrderInv
  BY ConcatEmptySeq, EmptySeq DEF Init, OrderInv, BatchOnlyInRun, InOrder
<1>2. QED
  BY <1>1, OrderStep, TypeCorrect, PTL DEF SafeSpec

(* Functors run in the order in which queueInLoop accepted them, each once.*)
THEOREM FunctorsInOrder == SafeSpec => []InOrder
<1>1. OrderInv => InOrder
  BY DEF OrderInv
<1> QED
  BY <1>1, OrderInvariant, PTL

-----------------------------------------------------------------------------
(* The abstract queue.                                                     *)

(* The functor that returns is the next one that was accepted.             *)
LEMMA HeadIsNext ==
  ASSUME TypeOK, OrderInv, tempRuns # <<>>
  PROVE  /\ Len(done) < Len(queued)
         /\ Head(tempRuns) = queued[Len(done) + 1]
<1>1. /\ done \in Seq(Task)
      /\ tempRuns \in Seq(Task)
      /\ pendingFunctors \in Seq(Task)
  BY DEF TypeOK
<1>2. /\ Len(tempRuns) \in Nat \ {0}
      /\ Len(done) \in Nat
      /\ Len(pendingFunctors) \in Nat
  BY <1>1, LenProperties, EmptySeq
<1>3. /\ done \o tempRuns \in Seq(Task)
      /\ Len(done \o tempRuns) = Len(done) + Len(tempRuns)
      /\ (done \o tempRuns)[Len(done) + 1] = tempRuns[1]
  BY <1>1, <1>2, ConcatProperties
<1>4. /\ Len(queued) = Len(done) + Len(tempRuns) + Len(pendingFunctors)
      /\ queued[Len(done) + 1] = (done \o tempRuns)[Len(done) + 1]
  BY <1>1, <1>2, <1>3, ConcatProperties DEF OrderInv, InOrder
<1>5. Head(tempRuns) = tempRuns[1]
  BY <1>1
<1> QED
  BY <1>2, <1>3, <1>4, <1>5

LEMMA RefinementStep ==
  TypeOK /\ OrderInv /\ [Next]_vars => [TQ!Next]_(TQ!vars)
<1> SUFFICES ASSUME TypeOK, OrderInv, [Next]_vars
             PROVE  TQ!Next \/ UNCHANGED TQ!vars
  OBVIOUS
<1> USE DEF TQ!vars, loopVars, queueVars
<1>1. ASSUME NEW self \in Threads, NEW t \in Task, queueInLoop(self, t)
      PROVE  TQ!Next
  <2>1. TQ!Submit(t)
    BY <1>1 DEF queueInLoop, TQ!Submit
  <2> QED
    BY <2>1 DEF TQ!Next
<1>2. ASSUME NEW t \in Task, RunNow(t) PROVE UNCHANGED TQ!vars
  BY <1>2 DEF RunNow
<1>3. ASSUME NEW self \in Threads, QuitLoop(self) PROVE UNCHANGED TQ!vars
  BY <1>3 DEF QuitLoop
<1>4. ASSUME NEW self \in Threads, wakeup(self) PROVE UNCHANGED TQ!vars
  BY <1>4 DEF wakeup
<1>5. CASE EnterLoop
  BY <1>5 DEF EnterLoop, AtPc
<1>6. CASE TestQuit
  <2>1. CASE quit
    <3>1. TQ!Close
      BY <1>6, <2>1 DEF TestQuit, TQ!Close
    <3> QED
      BY <3>1 DEF TQ!Next
  <2>2. CASE ~quit
    BY <1>6, <2>2 DEF TestQuit, AtPc
  <2> QED
    BY <2>1, <2>2
<1>7. CASE Poll
  BY <1>7 DEF Poll, AtPc
<1>8. CASE PollError
  BY <1>8 DEF PollError, AtPc
<1>9. CASE HandleWakeup
  BY <1>9 DEF HandleWakeup
<1>10. CASE HandlerReturns
  BY <1>10 DEF HandlerReturns
<1>11. CASE SwapPending
  BY <1>11 DEF SwapPending, AtPc
<1>12. CASE FunctorReturns
  <2>1. TQ!Execute
    BY <1>12, HeadIsNext DEF FunctorReturns, AtPc, TQ!Execute
  <2> QED
    BY <2>1 DEF TQ!Next
<1>13. CASE EndPending
  BY <1>13 DEF EndPending, AtPc
<1>14. ASSUME NEW c \in Channels, BecomesReady(c) PROVE UNCHANGED TQ!vars
  BY <1>14 DEF BecomesReady
<1>15. CASE UNCHANGED vars
  BY <1>15 DEF vars
<1> QED
  BY <1>1, <1>2, <1>3, <1>4, <1>5, <1>6, <1>7, <1>8, <1>9, <1>10, <1>11,
     <1>12, <1>13, <1>14, <1>15 DEF Next, LoopStep, runInLoop

(* Every run of the loop is a run of the abstract queue, progress aside:   *)
(* functors execute in the order of acceptance, each at most once, and     *)
(* none after loop() has returned.                                         *)
THEOREM LoopRefinesQueue == SafeSpec => ImplementsTaskQueueSafely
<1>1. Init => TQ!Init
  BY DEF Init, TQ!Init
<1>2. QED
  BY <1>1, RefinementStep, TypeCorrect, OrderInvariant, PTL
     DEF SafeSpec, TQ!SafeSpec, ImplementsTaskQueueSafely
=============================================================================
