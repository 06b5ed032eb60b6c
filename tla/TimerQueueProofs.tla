-------------------------- MODULE TimerQueueProofs --------------------------
(***************************************************************************)
(* Proofs that, for any number of timers, addresses, threads and instants, *)
(* every Timer object has one owner, the set finds each by its stamp, the  *)
(* timerfd is armed for the earliest of them, and a careful cancellation   *)
(* is the last word on its timer and on no other.                          *)
(***************************************************************************)
EXTENDS TimerQueue, FiniteSetTheorems, SequenceTheorems, WellFoundedInduction, TLAPS

(* The Timers by owner, and the queued cancellations.                      *)
QueuedTimers == {functors[i].id.timer : i \in Queued}
SetTimers == {e.timer : e \in timers}
Cancels == {i \in DOMAIN functors : functors[i].op = "cancel"}

(* The list of expired timers lives while handleRead runs, the functors    *)
(* that doPendingFunctors has still to run are in the queue.               *)
StepInv ==
  /\ pc \notin {"callback", "calling"} => expired = <<>>
  /\ reported => pc = "dispatch"
  /\ pc = "functors" => batch <= Len(functors)
  /\ pc = "destroyed" => timers = {} /\ functors = <<>>

(* The owners of the Timer objects, which have none in common.             *)
OwnInv ==
  /\ pc # "destroyed" => Live = QueuedTimers \cup SetTimers \cup Expired
  /\ \A i, j \in Queued : functors[i].id.timer = functors[j].id.timer => i = j
  /\ \A i, j \in DOMAIN expired : expired[i].timer = expired[j].timer => i = j
  /\ \A a \in Expired : a \notin QueuedTimers /\ a \notin SetTimers
  /\ \A e \in timers : e.timer \notin QueuedTimers

(* The functors of other threads.                                          *)
Functors == [op : {"add", "cancel"}, id : TimerId]

(* The inductive invariant of the owners.                                  *)
IInv == TypeOK /\ StepInv /\ OwnInv /\ KeyIsStamp

-----------------------------------------------------------------------------
(* The operators of the model.                                             *)

(* No two entries have the same Timer.                                     *)
LEMMA OneEntryEach ==
  ASSUME TypeOK, KeyIsStamp
  PROVE  \A e, f \in timers : e.timer = f.timer => e = f
<1>1. \A e \in timers : /\ e.stamp = heap[e.timer].stamp
                       /\ e = [stamp |-> e.stamp, timer |-> e.timer]
  BY DEF TypeOK, KeyIsStamp, Entry
<1> QED
  BY <1>1

(* The set is finite, since there are finitely many addresses.             *)
LEMMA TimersFinite == ASSUME TypeOK, KeyIsStamp PROVE IsFiniteSet(timers)
<1> DEFINE f == [e \in timers |-> e.timer]
<1>1. \A e \in timers : e.timer \in Addr
  BY DEF TypeOK, Entry
<1>2. \A e, g \in timers : f[e] = f[g] => e = g
  BY OneEntryEach
<1>3. f \in Injection(timers, Addr)
  BY <1>1, <1>2 DEF Injection, IsInjective
<1> QED
  BY <1>3, FS_Injection, HeapAssumption DEF HeapAssumption

(* A set of stamps that is not empty has a smallest one.                   *)
LEMMA SmallestStamp ==
  ASSUME NEW S \in SUBSET Nat, S # {}
  PROVE  \E x \in S : \A y \in S : x <= y
<1>1. IsWellFoundedOn(OpToRel(<, Nat), Nat)
  BY NatLessThanWellFounded
<1>2. PICK x \in S : \A y \in S : ~ (<<y, x>> \in OpToRel(<, Nat))
  BY <1>1, WFMin
<1>3. \A y \in S : ~(y < x)
  BY <1>2 DEF OpToRel
<1> QED
  BY <1>3

(* begin() of a set of entries that is not empty is the earliest.          *)
LEMMA EarliestIsFirst ==
  ASSUME NEW E \in SUBSET Entry, E # {}
  PROVE  /\ EarliestOf(E) \in Nat
         /\ \E e \in E : e.stamp = EarliestOf(E)
         /\ \A e \in E : EarliestOf(E) <= e.stamp
<1> DEFINE S == {e.stamp : e \in E}
<1>1. S \in SUBSET Nat /\ S # {}
  BY DEF Entry
<1>2. \E s \in S : \A t \in S : s <= t
  BY ONLY <1>1, SmallestStamp
<1>3. \E s \in S : \A e \in E : s <= e.stamp
  BY <1>2
<1>4. EarliestOf(E) \in S /\ \A e \in E : EarliestOf(E) <= e.stamp
  BY <1>3 DEF EarliestOf
<1> QED
  BY <1>1, <1>4

(* The instants that are asked for are in the type of a stamp.             *)
LEMMA RequestTypes == ASSUME TypeOK, NEW r \in Requests PROVE r[1] \in Nat /\ r[2] \in Nat
<1>1. now \in Nat /\ Stamps \subseteq Nat /\ Intervals \subseteq Nat
  BY TimeAssumption DEF TypeOK, TimeAssumption
<1> QED
  BY <1>1 DEF Requests

(* getExpired lists each due entry once.                                   *)
LEMMA SortedLists ==
  ASSUME NEW E \in SUBSET Entry, IsFiniteSet(E), NEW s \in Sorted(E)
  PROVE  /\ s \in Seq(Entry) /\ Len(s) = Cardinality(E) /\ DOMAIN s = 1 .. Len(s)
         /\ \A i, j \in DOMAIN s : s[i] = s[j] => i = j
         /\ Range(s) = E
<1>1. Cardinality(E) \in Nat
  BY FS_CardinalityType
<1>2. s \in [1 .. Cardinality(E) -> E] /\ IsInjective(s)
  BY DEF Sorted
<1>3. s \in Seq(Entry) /\ Len(s) = Cardinality(E) /\ DOMAIN s = 1 .. Len(s)
  BY <1>1, <1>2
<1>4. \A i, j \in DOMAIN s : s[i] = s[j] => i = j
  BY <1>2 DEF IsInjective
<1>5. s \in Injection(1 .. Cardinality(E), E)
  BY <1>2, <1>4 DEF Injection
<1>6. Cardinality(1 .. Cardinality(E)) = Cardinality(E)
  BY <1>1, FS_Interval
<1>7. s \in Surjection(1 .. Cardinality(E), E)
  BY <1>5, <1>6, FS_Injection
<1>8. Range(s) = E
  BY <1>2, <1>7 DEF Surjection, Range
<1> QED
  BY <1>3, <1>4, <1>8

(* What is left of a sequence whose first element is taken.                *)
LEMMA HeadTail ==
  ASSUME NEW S, NEW s \in Seq(S), s # <<>>
  PROVE  /\ Len(s) \in Nat /\ Len(s) >= 1 /\ DOMAIN s = 1 .. Len(s)
         /\ Head(s) \in S /\ Head(s) = s[1]
         /\ Tail(s) \in Seq(S) /\ Len(Tail(s)) = Len(s) - 1
         /\ DOMAIN Tail(s) = 1 .. Len(s) - 1
         /\ \A i \in 1 .. Len(s) - 1 : Tail(s)[i] = s[i + 1]
  BY HeadTailProperties, EmptySeq, LenProperties

(* What doPendingFunctors finds at the head of the queue.                  *)
LEMMA FirstFunctor ==
  ASSUME TypeOK, StepInv, pc = "functors", batch > 0
  PROVE  /\ functors # <<>> /\ functors \in Seq(Functors) /\ Head(functors) \in Functors
         /\ Head(functors) = functors[1] /\ 1 \in DOMAIN functors
<1>1. functors \in Seq(Functors) /\ batch \in Nat /\ batch <= Len(functors)
  BY DEF TypeOK, StepInv, Functors
<1>2. functors # <<>>
  BY <1>1, EmptySeq
<1> QED
  BY <1>1, <1>2, HeadTail

(* The timer of an "add" functor, and those of the batch, are there.       *)
LEMMA OwnedIsLive ==
  ASSUME TypeOK, OwnInv, pc # "destroyed",
         NEW a \in QueuedTimers \cup SetTimers \cup Expired
  PROVE  a \in Addr /\ heap[a] \in Timer
  BY DEF TypeOK, OwnInv, Live

-----------------------------------------------------------------------------
(* The types.                                                              *)

(* The operations on the set and the queue keep the types.                 *)
LEMMA AddTypes ==
  ASSUME TypeOK, NEW a \in Addr, NEW when \in Nat, addTimerInLoop(a, when)
  PROVE  timers' \subseteq Entry /\ left' \in Nat /\ readable' \in BOOLEAN
<1>1. now \in Nat /\ timers \subseteq Entry /\ left \in Nat /\ readable \in BOOLEAN
  BY DEF TypeOK
<1> QED
  <2>1. timers' \subseteq Entry
    BY <1>1 DEF addTimerInLoop, Entry
  <2>2. howMuchTimeFromNow(when) \in Nat
    BY <1>1 DEF howMuchTimeFromNow
  <2>3. left' \in Nat /\ readable' \in BOOLEAN
    BY <1>1, <2>2 DEF addTimerInLoop, resetTimerfd
  <2> QED
    BY <2>1, <2>3

LEMMA CancelTypes ==
  ASSUME TypeOK, NEW id \in TimerId, cancelInLoop(id)
  PROVE  timers' \subseteq Entry /\ heap' \in [Addr -> Timer \cup {Free}] /\ cancelled' \subseteq Nat
<1>1. /\ timers \subseteq Entry /\ heap \in [Addr -> Timer \cup {Free}] /\ cancelled \subseteq Nat
      /\ id.timer \in Addr /\ id.sequence \in Nat
  BY DEF TypeOK, TimerId
<1> QED
  BY <1>1 DEF cancelInLoop

LEMMA QueueTypes ==
  ASSUME TypeOK, NEW op \in {"add", "cancel"}, NEW id \in TimerId
  PROVE  queueInLoop(op, id) \in Seq(Functors)
<1>1. functors \in Seq(Functors) /\ [op |-> op, id |-> id] \in Functors
  BY DEF TypeOK, Functors
<1> QED
  BY <1>1, AppendProperties DEF queueInLoop

(* All variables keep their types.                                         *)
LEMMA TypeStep ==
  ASSUME IInv, [Next]_vars
  PROVE  TypeOK'
<1>0. TypeOK /\ StepInv /\ OwnInv
  BY DEF IInv
<1> USE DEF clockVars, fdVars, batchVars, queueVars, historyVars
<1>1. ASSUME NEW self \in Threads, NEW r \in Requests, addTimer(self, r[1], r[2])
      PROVE  TypeOK'
  <2>1. r[1] \in Nat /\ r[2] \in Nat /\ seq \in Nat
    BY <1>0, RequestTypes DEF TypeOK
  <2>2. PICK a \in Addr :
          /\ heap[a] = Free
          /\ heap' = [heap EXCEPT ![a] = [sequence |-> seq + 1, stamp |-> r[1], interval |-> r[2]]]
          /\ ids' = ids \cup {[timer |-> a, sequence |-> seq + 1]}
          /\ IF self = LoopThread
             THEN addTimerInLoop(a, r[1]) /\ UNCHANGED functors
             ELSE /\ functors' = queueInLoop("add", [timer |-> a, sequence |-> seq + 1])
                  /\ UNCHANGED <<timers, left, readable>>
    BY <1>1 DEF addTimer
  <2>3. /\ [sequence |-> seq + 1, stamp |-> r[1], interval |-> r[2]] \in Timer
        /\ [timer |-> a, sequence |-> seq + 1] \in TimerId
    BY <2>1 DEF Timer, TimerId
  <2>4. heap' \in [Addr -> Timer \cup {Free}] /\ ids' \subseteq TimerId
    BY <1>0, <2>2, <2>3 DEF TypeOK
  <2>5. timers' \subseteq Entry /\ left' \in Nat /\ readable' \in BOOLEAN
    BY <1>0, <2>1, <2>2, AddTypes DEF TypeOK
  <2>6. functors' \in Seq(Functors)
    BY <1>0, <2>2, <2>3, QueueTypes DEF TypeOK, Functors
  <2>7. /\ seq' = seq + 1
        /\ UNCHANGED <<now, jumps, pc, expired, next, reported, batch, careful, cancelled>>
    BY <1>1 DEF addTimer
  <2> QED
    BY <1>0, <2>1, <2>4, <2>5, <2>6, <2>7 DEF TypeOK, Functors
<1>2. ASSUME NEW self \in Threads, NEW id \in ids, cancelTimer(self, id)
      PROVE  TypeOK'
  <2>1. id \in TimerId
    BY <1>0 DEF TypeOK
  <2>2. /\ UNCHANGED <<now, jumps, pc, seq, expired, next, left, readable, reported, batch,
                       careful, ids>>
        /\ IF self = LoopThread
           THEN cancelInLoop(id) /\ UNCHANGED functors
           ELSE functors' = queueInLoop("cancel", id) /\ UNCHANGED <<timers, heap, cancelled>>
    BY <1>2 DEF cancelTimer
  <2>3. /\ timers' \subseteq Entry /\ heap' \in [Addr -> Timer \cup {Free}]
        /\ cancelled' \subseteq Nat
    BY <1>0, <2>1, <2>2, CancelTypes DEF TypeOK
  <2>4. functors' \in Seq(Functors)
    BY <1>0, <2>1, <2>2, QueueTypes DEF TypeOK, Functors
  <2> QED
    BY <1>0, <2>2, <2>3, <2>4 DEF TypeOK, Functors
<1>3. CASE EnterLoop \/ Timeout \/ CallbackReturns \/ EndDispatch \/ EndFunctors
  <2>1. functors \in Seq(Functors) /\ Len(functors) \in Nat
    BY <1>0, LenProperties DEF TypeOK, Functors
  <2> QED
    <3>1. /\ UNCHANGED <<now, jumps, heap, seq, timers, expired, left, readable, reported,
                         functors, careful, ids, cancelled>>
          /\ pc' \in {"poll", "calling", "callback", "functors"}
          /\ next' \in {next, next + 1} /\ batch' \in {batch, Len(functors)}
      BY <1>3 DEF EnterLoop, Timeout, CallbackReturns, EndDispatch, EndFunctors
    <3> QED
      BY <1>0, <2>1, <3>1 DEF TypeOK
<1>4. CASE Poll \/ PollOther
  BY <1>0, <1>4 DEF Poll, PollOther, PollReturns, TypeOK
<1>5. CASE handleRead
  <2>1. DueEntries \in SUBSET Entry /\ IsFiniteSet(DueEntries)
    BY <1>0, TimersFinite, FS_Subset DEF IInv, TypeOK, DueEntries
  <2>2. expired' \in Seq(Entry)
    BY <1>5, <2>1, SortedLists DEF handleRead
  <2> QED
    <3>1. /\ UNCHANGED <<now, jumps, heap, seq, left, functors, batch, careful, ids, cancelled>>
          /\ pc' = "callback" /\ next' = 1 /\ reported' = FALSE /\ readable' = FALSE
          /\ timers' \subseteq timers
      BY <1>5 DEF handleRead
    <3>2. timers' \subseteq Entry /\ next' \in Nat \ {0} /\ pc' = "callback"
      BY <1>0, <3>1 DEF TypeOK
    <3> QED
      BY <1>0, <2>2, <3>1, <3>2 DEF TypeOK
<1>6. CASE reset
  <2>1. pc = "callback" /\ now \in Nat
    BY <1>0, <1>6 DEF reset, TypeOK
  <2>2. \A a \in Expired : a \in Addr /\ heap[a] \in Timer
    BY <1>0, <2>1, OwnedIsLive
  <2>3. \A a \in Expired : now + heap[a].interval \in Nat
    BY <2>1, <2>2 DEF Timer
  <2>4. timers' \subseteq Entry
    BY <1>0, <1>6, <2>2, <2>3 DEF reset, Restarted, Entry, TypeOK
  <2>5. heap' \in [Addr -> Timer \cup {Free}]
    <3>1. ASSUME NEW a \in Addr PROVE AfterReset(a) \in Timer \cup {Free}
      <4>1. CASE a \notin Expired
        BY <1>0, <4>1 DEF AfterReset, TypeOK
      <4>2. CASE a \in Expired /\ isRepeat(a)
        <5>1. [heap[a] EXCEPT !.stamp = now + heap[a].interval] \in Timer
          BY <2>2, <2>3, <4>2 DEF Timer
        <5> QED
          BY <4>2, <5>1 DEF AfterReset
      <4>3. CASE a \in Expired /\ ~isRepeat(a)
        BY <4>3 DEF AfterReset
      <4> QED
        BY <4>1, <4>2, <4>3
    <3> QED
      BY <1>6, <3>1 DEF reset
  <2>6. left' \in Nat /\ readable' \in BOOLEAN
    <3>1. NextExpireValid(timers') => EarliestOf(timers') \in Nat
      BY <2>4, EarliestIsFirst DEF NextExpireValid
    <3>2. NextExpireValid(timers') => howMuchTimeFromNow(EarliestOf(timers')) \in Nat
      BY <2>1, <3>1 DEF howMuchTimeFromNow
    <3>3. left \in Nat /\ readable \in BOOLEAN
      BY <1>0 DEF TypeOK
    <3> QED
      BY <1>6, <3>2, <3>3 DEF reset, resetTimerfd
  <2>7. /\ expired' = <<>> /\ next' = 1 /\ pc' = "dispatch" /\ <<>> \in Seq(Entry)
        /\ UNCHANGED <<now, jumps, seq, reported, functors, batch, careful, ids, cancelled>>
    BY <1>6, EmptySeq DEF reset
  <2> QED
    BY <1>0, <2>4, <2>5, <2>6, <2>7 DEF TypeOK
<1>7. CASE RunFunctor
  <2>1. pc = "functors" /\ batch > 0
    BY <1>7 DEF RunFunctor
  <2>2. /\ functors \in Seq(Functors) /\ functors # <<>> /\ Head(functors) \in Functors
        /\ Head(functors) = functors[1] /\ 1 \in DOMAIN functors
    BY <1>0, <2>1, FirstFunctor
  <2>3. Tail(functors) \in Seq(Functors)
    BY <2>2, HeadTail
  <2> DEFINE id == Head(functors).id
  <2>4. id \in TimerId /\ id.timer \in Addr
    BY <2>2 DEF Functors, TimerId
  <2>5. /\ batch' = batch - 1 /\ functors' = Tail(functors)
        /\ UNCHANGED <<now, jumps, pc, seq, expired, next, reported, careful, ids>>
        /\ IF Head(functors).op = "add"
           THEN addTimerInLoop(id.timer, heap[id.timer].stamp) /\ UNCHANGED <<heap, cancelled>>
           ELSE cancelInLoop(id) /\ UNCHANGED <<left, readable>>
    BY <1>7 DEF RunFunctor
  <2>6. CASE Head(functors).op = "add"
    <3>1. id.timer \in QueuedTimers
      BY <2>2, <2>6 DEF QueuedTimers, Queued
    <3>2. heap[id.timer].stamp \in Nat
      BY <1>0, <2>1, <3>1, OwnedIsLive DEF Timer
    <3>3. timers' \subseteq Entry /\ left' \in Nat /\ readable' \in BOOLEAN
      BY <1>0, <2>4, <2>5, <2>6, <3>2, AddTypes
    <3>4. batch' \in Nat
      BY <1>0, <2>1, <2>5 DEF TypeOK
    <3> QED
      BY <1>0, <2>3, <2>5, <2>6, <3>3, <3>4 DEF TypeOK, Functors
  <2>7. CASE Head(functors).op # "add"
    <3>1. /\ timers' \subseteq Entry /\ heap' \in [Addr -> Timer \cup {Free}]
          /\ cancelled' \subseteq Nat
      BY <1>0, <2>4, <2>5, <2>7, CancelTypes
    <3> QED
      BY <1>0, <2>1, <2>3, <2>5, <2>7, <3>1 DEF TypeOK, Functors
  <2> QED
    BY <2>6, <2>7
<1>8. CASE Destroy
  <2>1. heap' \in [Addr -> Timer \cup {Free}]
    BY <1>0, <1>8 DEF Destroy, TypeOK
  <2>2. functors' \in Seq(Functors)
    BY <1>8, EmptySeq DEF Destroy
  <2> QED
    BY <1>0, <1>8, <2>1, <2>2 DEF Destroy, TypeOK, Functors
<1>9. CASE Tick
  BY <1>0, <1>9 DEF Tick, TypeOK
<1>10. ASSUME NEW by \in Jumps, SetClock(by) PROVE TypeOK'
  BY <1>0, <1>10, TimeAssumption DEF SetClock, TypeOK, TimeAssumption
<1>11. CASE UNCHANGED vars
  BY <1>0, <1>11 DEF vars, TypeOK
<1> QED
  BY <1>1, <1>2, <1>3, <1>4, <1>5, <1>6, <1>7, <1>8, <1>9, <1>10, <1>11 DEF Next, LoopStep

(* No step disturbs the places of the loop thread.                         *)
LEMMA StepInvStep ==
  ASSUME IInv, [Next]_vars
  PROVE  StepInv'
<1>0. TypeOK /\ StepInv /\ functors \in Seq(Functors) /\ Len(functors) \in Nat /\ batch \in Nat
  BY LenProperties DEF IInv, TypeOK, Functors
<1> USE DEF clockVars, fdVars, batchVars, queueVars, historyVars
<1>a. \A f \in Functors : Len(Append(functors, f)) = Len(functors) + 1
  BY <1>0, AppendProperties
<1>1. ASSUME NEW self \in Threads, NEW r \in Requests, addTimer(self, r[1], r[2])
      PROVE  StepInv'
  <2>1. seq \in Nat
    BY <1>0 DEF TypeOK
  <2>2. PICK a \in Addr :
          functors' \in {functors, Append(functors, [op |-> "add", id |-> [timer |-> a, sequence |-> seq + 1]])}
    BY <1>1 DEF addTimer, queueInLoop
  <2>3. [op |-> "add", id |-> [timer |-> a, sequence |-> seq + 1]] \in Functors
    BY <2>1 DEF Functors, TimerId
  <2>4. Len(functors') >= Len(functors)
    BY <1>0, <1>a, <2>2, <2>3
  <2>5. pc # "destroyed" /\ UNCHANGED <<pc, expired, reported, batch>>
    BY <1>1 DEF addTimer, UserCode
  <2> QED
    BY ONLY <1>0, <2>4, <2>5, StepInv, Len(functors') \in Nat DEF StepInv
<1>2. ASSUME NEW self \in Threads, NEW id \in ids, cancelTimer(self, id)
      PROVE  StepInv'
  <2>1. id \in TimerId
    BY <1>0 DEF TypeOK
  <2>2. functors' \in {functors, Append(functors, [op |-> "cancel", id |-> id])}
    BY <1>2 DEF cancelTimer, queueInLoop
  <2>3. [op |-> "cancel", id |-> id] \in Functors
    BY <2>1 DEF Functors
  <2>4. Len(functors') >= Len(functors)
    BY <1>0, <1>a, <2>2, <2>3
  <2>5. pc # "destroyed" /\ UNCHANGED <<pc, expired, reported, batch>>
    BY <1>2 DEF cancelTimer, UserCode
  <2> QED
    BY <1>0, <2>4, <2>5 DEF StepInv
<1>3. CASE EnterLoop \/ Timeout \/ CallbackReturns \/ EndDispatch \/ EndFunctors
  BY <1>0, <1>3 DEF EnterLoop, Timeout, CallbackReturns, EndDispatch, EndFunctors, StepInv
<1>4. CASE Poll \/ PollOther \/ handleRead \/ reset \/ Destroy
  BY <1>0, <1>4 DEF Poll, PollOther, PollReturns, handleRead, reset, Destroy, StepInv
<1>5. CASE RunFunctor
  <2>1. pc = "functors" /\ batch > 0
    BY <1>5 DEF RunFunctor
  <2>2. functors \in Seq(Functors) /\ functors # <<>>
    BY <1>0, <2>1, FirstFunctor
  <2>3. Len(Tail(functors)) = Len(functors) - 1
    BY <2>2, HeadTail
  <2>4. batch' = batch - 1 /\ functors' = Tail(functors) /\ UNCHANGED <<pc, expired, reported>>
    BY <1>5 DEF RunFunctor
  <2> QED
    BY <1>0, <2>1, <2>3, <2>4 DEF StepInv
<1>6. ASSUME Tick \/ (\E by \in Jumps : SetClock(by)) \/ UNCHANGED vars PROVE StepInv'
  BY <1>0, <1>6 DEF Tick, SetClock, vars, StepInv
<1> QED
  BY <1>1, <1>2, <1>3, <1>4, <1>5, <1>6 DEF Next, LoopStep

-----------------------------------------------------------------------------
(* The owners of the Timer objects.                                        *)

(* No Timer waits in two functors.                                         *)
OnceQueued == \A i, j \in Queued : functors[i].id.timer = functors[j].id.timer => i = j

(* The queue when a functor is appended to it.                             *)
LEMMA QueueAppended ==
  ASSUME TypeOK, NEW op \in {"add", "cancel"}, NEW id \in TimerId,
         functors' = queueInLoop(op, id)
  PROVE  /\ Len(functors) \in Nat /\ DOMAIN functors = 1 .. Len(functors)
         /\ DOMAIN functors' = 1 .. Len(functors) + 1
         /\ \A i \in DOMAIN functors : functors'[i] = functors[i]
         /\ functors'[Len(functors) + 1] = [op |-> op, id |-> id]
         /\ Queued' = IF op = "add" THEN Queued \cup {Len(functors) + 1} ELSE Queued
         /\ Cancels' = IF op = "cancel" THEN Cancels \cup {Len(functors) + 1} ELSE Cancels
<1>1. functors \in Seq(Functors) /\ [op |-> op, id |-> id] \in Functors
  BY DEF TypeOK, Functors
<1>2. Len(functors) \in Nat /\ DOMAIN functors = 1 .. Len(functors)
  BY <1>1, LenProperties
<1>3. functors' = Append(functors, [op |-> op, id |-> id])
  BY DEF queueInLoop
<1>4. /\ functors' \in Seq(Functors) /\ Len(functors') = Len(functors) + 1
      /\ \A i \in 1 .. Len(functors) : functors'[i] = functors[i]
      /\ functors'[Len(functors) + 1] = [op |-> op, id |-> id]
  BY <1>1, <1>3, AppendProperties
<1>5. DOMAIN functors' = 1 .. Len(functors) + 1
  BY <1>4, LenProperties
<1>6. \A i : i \in 1 .. Len(functors) + 1 <=> i \in 1 .. Len(functors) \/ i = Len(functors) + 1
  BY <1>2
<1>7. functors'[Len(functors) + 1].op = op
  BY <1>4
<1>8. Queued' = IF op = "add" THEN Queued \cup {Len(functors) + 1} ELSE Queued
  BY <1>2, <1>4, <1>5, <1>6, <1>7 DEF Queued
<1>9. Cancels' = IF op = "cancel" THEN Cancels \cup {Len(functors) + 1} ELSE Cancels
  BY <1>2, <1>4, <1>5, <1>6, <1>7 DEF Cancels
<1> QED
  BY ONLY <1>2, <1>4, <1>5, <1>8, <1>9

(* Who is queued after a functor is appended.                              *)
LEMMA QueuedAppended ==
  ASSUME TypeOK, OnceQueued, NEW op \in {"add", "cancel"}, NEW id \in TimerId,
         functors' = queueInLoop(op, id), op = "add" => id.timer \notin QueuedTimers
  PROVE  /\ OnceQueued'
         /\ QueuedTimers' = IF op = "add" THEN QueuedTimers \cup {id.timer} ELSE QueuedTimers
<1>1. /\ Len(functors) \in Nat /\ DOMAIN functors = 1 .. Len(functors)
      /\ \A i \in DOMAIN functors : functors'[i] = functors[i]
      /\ functors'[Len(functors) + 1] = [op |-> op, id |-> id]
      /\ Queued' = IF op = "add" THEN Queued \cup {Len(functors) + 1} ELSE Queued
  BY QueueAppended
<1>2. Queued \subseteq DOMAIN functors /\ \A i \in Queued : functors'[i] = functors[i]
  BY <1>1 DEF Queued
<1>3. functors'[Len(functors) + 1].id = id
  BY <1>1
<1>4. QueuedTimers' = IF op = "add" THEN QueuedTimers \cup {id.timer} ELSE QueuedTimers
  BY <1>1, <1>2, <1>3 DEF QueuedTimers
<1>5. OnceQueued'
  BY <1>1, <1>2, <1>3 DEF OnceQueued, QueuedTimers
<1> QED
  BY <1>4, <1>5

(* The queue without its head.                                             *)
LEMMA QueueRun ==
  ASSUME TypeOK, functors # <<>>, functors' = Tail(functors)
  PROVE  /\ Len(functors) \in Nat /\ DOMAIN functors = 1 .. Len(functors) /\ Len(functors) >= 1
         /\ DOMAIN functors' = 1 .. Len(functors) - 1
         /\ \A i \in DOMAIN functors' : functors'[i] = functors[i + 1] /\ i + 1 \in DOMAIN functors
         /\ \A i \in DOMAIN functors : i # 1 => i - 1 \in DOMAIN functors' /\ functors'[i - 1] = functors[i]
         /\ Head(functors) = functors[1]
<1>1. functors \in Seq(Functors)
  BY DEF TypeOK, Functors
<1>2. /\ Len(functors) \in Nat /\ Len(functors) >= 1 /\ DOMAIN functors = 1 .. Len(functors)
      /\ Head(functors) = functors[1] /\ DOMAIN functors' = 1 .. Len(functors) - 1
      /\ \A i \in 1 .. Len(functors) - 1 : functors'[i] = functors[i + 1]
  BY <1>1, HeadTail
<1>3. \A i \in 1 .. Len(functors) - 1 : i + 1 \in 1 .. Len(functors)
  BY <1>2
<1>4. \A i \in 1 .. Len(functors) : i # 1 => i - 1 \in 1 .. Len(functors) - 1 /\ (i - 1) + 1 = i
  BY <1>2
<1>5. \A i \in DOMAIN functors : i # 1 => i - 1 \in DOMAIN functors' /\ functors'[i - 1] = functors[i]
  BY <1>2, <1>4
<1> QED
  BY <1>2, <1>3, <1>5

(* Who is queued after the first functor is taken.                         *)
LEMMA QueuedRun ==
  ASSUME TypeOK, OnceQueued, functors # <<>>, functors' = Tail(functors)
  PROVE  /\ OnceQueued'
         /\ QueuedTimers' = IF Head(functors).op = "add"
                            THEN QueuedTimers \ {Head(functors).id.timer} ELSE QueuedTimers
<1>1. /\ Len(functors) \in Nat /\ DOMAIN functors = 1 .. Len(functors) /\ Len(functors) >= 1
      /\ DOMAIN functors' = 1 .. Len(functors) - 1
      /\ \A i \in DOMAIN functors' : functors'[i] = functors[i + 1] /\ i + 1 \in DOMAIN functors
      /\ \A i \in DOMAIN functors : i # 1 => i - 1 \in DOMAIN functors' /\ functors'[i - 1] = functors[i]
      /\ Head(functors) = functors[1]
  BY QueueRun
<1>2. \A i \in Queued' : i \in Nat /\ i >= 1 /\ i + 1 \in Queued /\ functors'[i] = functors[i + 1]
  BY <1>1 DEF Queued
<1>3. \A i \in Queued : i \in Nat /\ (i # 1 => i - 1 \in Queued' /\ functors'[i - 1] = functors[i])
  BY <1>1 DEF Queued
<1>4. OnceQueued'
  <2>1. SUFFICES ASSUME NEW i \in Queued', NEW j \in Queued',
                        functors'[i].id.timer = functors'[j].id.timer
                 PROVE  i = j
    BY DEF OnceQueued
  <2>2. i + 1 = j + 1
    BY <1>2, <2>1 DEF OnceQueued
  <2> QED
    BY <1>2, <2>2
<1>5. 1 \in Queued <=> Head(functors).op = "add"
  BY <1>1 DEF Queued
<1>6. \A a : a \in QueuedTimers' <=> \E i \in Queued : i # 1 /\ functors[i].id.timer = a
  <2>1. ASSUME NEW a, a \in QueuedTimers' PROVE \E i \in Queued : i # 1 /\ functors[i].id.timer = a
    <3>1. PICK i \in Queued' : functors'[i].id.timer = a
      BY <2>1 DEF QueuedTimers
    <3>2. i \in Nat /\ i >= 1 /\ i + 1 \in Queued /\ functors'[i] = functors[i + 1]
      BY <1>2
    <3>3. i + 1 # 1 /\ functors[i + 1].id.timer = a
      BY ONLY <3>1, <3>2
    <3> QED
      BY <3>2, <3>3
  <2>2. ASSUME NEW i \in Queued, i # 1 PROVE functors[i].id.timer \in QueuedTimers'
    BY <1>3, <2>2 DEF QueuedTimers
  <2> QED
    BY <2>1, <2>2
<1>7. \A a : a \in QueuedTimers <=> \E i \in Queued : functors[i].id.timer = a
  BY DEF QueuedTimers
<1>8. CASE Head(functors).op = "add"
  <2>1. \A i \in Queued : i # 1 <=> functors[i].id.timer # functors[1].id.timer
    BY <1>5, <1>8 DEF OnceQueued
  <2>2. QueuedTimers' = QueuedTimers \ {Head(functors).id.timer}
    BY ONLY <1>1, <1>6, <1>7, <2>1
  <2> QED
    BY <1>4, <1>8, <2>2
<1>9. CASE Head(functors).op # "add"
  <2>1. \A i \in Queued : i # 1
    BY <1>5, <1>9
  <2>2. QueuedTimers' = QueuedTimers
    BY ONLY <1>6, <1>7, <2>1
  <2> QED
    BY <1>4, <1>9, <2>2
<1> QED
  BY <1>8, <1>9

(* The owners and the keys, which change together.                         *)
OwnKey == OwnInv /\ KeyIsStamp

(* A new Timer at a free address is owned by the functor or by the set.    *)
LEMMA AddedOwn ==
  ASSUME TypeOK, OwnKey, pc # "destroyed", pc' = pc, NEW a \in Addr, heap[a] = Free,
         NEW t \in Timer, heap' = [heap EXCEPT ![a] = t], expired' = expired, OnceQueued',
         \/ QueuedTimers' = QueuedTimers \cup {a} /\ timers' = timers
         \/ QueuedTimers' = QueuedTimers /\ timers' = timers \cup {[stamp |-> t.stamp, timer |-> a]}
  PROVE  OwnKey'
<1>1. /\ heap \in [Addr -> Timer \cup {Free}] /\ Free \notin Timer /\ timers \subseteq Entry
      /\ Live = QueuedTimers \cup SetTimers \cup Expired /\ a \notin Live
  BY HeapAssumption DEF TypeOK, OwnKey, OwnInv, HeapAssumption, Live
<1>2. Live' = Live \cup {a} /\ \A b \in Addr : b # a => heap'[b] = heap[b]
  BY <1>1 DEF Live
<1>3. heap'[a] = t /\ t # Free
  BY <1>1
<1>4. Expired' = Expired
  BY DEF Expired
<1>5. \A e \in timers : e.timer \in Addr /\ e.timer # a
  BY <1>1 DEF Entry, SetTimers
<1>6. SetTimers' = SetTimers \/ SetTimers' = SetTimers \cup {a}
  BY DEF SetTimers
<1>7. Live' = QueuedTimers' \cup SetTimers' \cup Expired'
  <2>1. CASE QueuedTimers' = QueuedTimers \cup {a} /\ timers' = timers
    <3>1. SetTimers' = SetTimers
      BY <2>1 DEF SetTimers
    <3> QED
      BY ONLY <1>1, <1>2, <1>4, <2>1, <3>1
  <2>2. CASE QueuedTimers' = QueuedTimers
             /\ timers' = timers \cup {[stamp |-> t.stamp, timer |-> a]}
    <3>1. [stamp |-> t.stamp, timer |-> a].timer = a
      OBVIOUS
    <3>2. \A b : b \in SetTimers' <=> b \in SetTimers \/ b = a
      BY <2>2, <3>1 DEF SetTimers
    <3>3. SetTimers' = SetTimers \cup {a}
      BY ONLY <3>2
    <3> QED
      BY ONLY <1>1, <1>2, <1>4, <2>2, <3>3
  <2> QED
    BY <2>1, <2>2
<1>8. \A b \in Expired' : b \notin QueuedTimers' /\ b \notin SetTimers'
  BY <1>1, <1>4, <1>6 DEF OwnKey, OwnInv
<1>9. \A e \in timers' : e.timer \notin QueuedTimers'
  BY <1>1, <1>5 DEF OwnKey, OwnInv
<1>10. \A i, j \in DOMAIN expired' : expired'[i].timer = expired'[j].timer => i = j
  BY DEF OwnKey, OwnInv
<1>11. OwnInv'
  BY <1>7, <1>8, <1>9, <1>10 DEF OwnInv, OnceQueued
<1>12. KeyIsStamp'
  BY <1>2, <1>3, <1>5 DEF OwnKey, KeyIsStamp
<1> QED
  BY <1>11, <1>12 DEF OwnKey

(* A cancelled Timer is deleted and leaves the set.                        *)
LEMMA CancelledOwn ==
  ASSUME TypeOK, OwnKey, pc # "destroyed", pc' = pc, NEW id \in TimerId, cancelInLoop(id),
         expired' = expired, OnceQueued', QueuedTimers' = QueuedTimers
  PROVE  OwnKey'
<1>1. /\ heap \in [Addr -> Timer \cup {Free}] /\ Free \notin Timer /\ timers \subseteq Entry
      /\ Live = QueuedTimers \cup SetTimers \cup Expired /\ id.timer \in Addr
  BY HeapAssumption DEF TypeOK, OwnKey, OwnInv, HeapAssumption, TimerId
<1>2. Expired' = Expired
  BY DEF Expired
<1>3. CASE ~Found(id)
  <2>1. UNCHANGED <<timers, heap>>
    BY <1>3 DEF cancelInLoop
  <2> QED
    BY <1>2, <2>1 DEF OwnKey, OwnInv, KeyIsStamp, Live, SetTimers, OnceQueued
<1>4. CASE Found(id)
  <2>1. /\ timers' = timers \ {EntryOf(id.timer)} /\ heap' = [heap EXCEPT ![id.timer] = Free]
        /\ EntryOf(id.timer) \in timers
    BY <1>4 DEF cancelInLoop, Found
  <2>2. /\ EntryOf(id.timer).timer = id.timer
        /\ \A e \in timers : e.timer = id.timer <=> e = EntryOf(id.timer)
    BY <2>1, OneEntryEach DEF EntryOf, OwnKey
  <2>3. SetTimers' = SetTimers \ {id.timer} /\ id.timer \in SetTimers
    BY <2>1, <2>2 DEF SetTimers
  <2>4. id.timer \notin QueuedTimers /\ id.timer \notin Expired
    BY <2>1, <2>2, <2>3 DEF OwnKey, OwnInv
  <2>5. Live' = Live \ {id.timer}
    BY <1>1, <2>1 DEF Live
  <2>6. OwnInv'
    BY <1>1, <1>2, <2>1, <2>3, <2>4, <2>5 DEF OwnKey, OwnInv, OnceQueued
  <2>7. KeyIsStamp'
    <3>1. \A e \in timers' : e \in timers /\ e.timer \in Addr /\ e.timer # id.timer
      BY <1>1, <2>1, <2>2 DEF Entry
    <3> QED
      BY <1>1, <2>1, <3>1 DEF OwnKey, KeyIsStamp
  <2> QED
    BY <2>6, <2>7 DEF OwnKey
<1> QED
  BY <1>3, <1>4

(* getExpired hands the due Timers from the set to the batch.              *)
LEMMA ReadOwn ==
  ASSUME TypeOK, StepInv, OwnKey, handleRead
  PROVE  OwnKey'
<1>1. /\ expired = <<>> /\ timers' = timers \ DueEntries /\ UNCHANGED <<functors, heap>>
      /\ expired' \in Sorted(DueEntries) /\ pc # "destroyed" /\ pc' = "callback"
  BY DEF handleRead, StepInv, queueVars
<1>2. DueEntries \in SUBSET Entry /\ IsFiniteSet(DueEntries) /\ DueEntries \subseteq timers
  BY TimersFinite, FS_Subset DEF OwnKey, TypeOK, DueEntries
<1>3. /\ \A i, j \in DOMAIN expired' : expired'[i] = expired'[j] => i = j
      /\ Range(expired') = DueEntries
  BY <1>1, <1>2, SortedLists
<1>4. \A e, f \in timers : e.timer = f.timer => e = f
  BY OneEntryEach DEF OwnKey
<1>5. Expired = {} /\ Expired' = {e.timer : e \in DueEntries}
  BY <1>1, <1>3 DEF Expired, Range
<1>6. \A i, j \in DOMAIN expired' : expired'[i].timer = expired'[j].timer => i = j
  BY <1>2, <1>3, <1>4 DEF Range
<1>7. SetTimers = SetTimers' \cup Expired' /\ \A a \in Expired' : a \notin SetTimers'
  BY <1>1, <1>2, <1>4, <1>5 DEF SetTimers
<1>8. QueuedTimers' = QueuedTimers /\ Queued' = Queued /\ Live' = Live
  BY <1>1 DEF QueuedTimers, Queued, Live
<1>9. \A a \in SetTimers : a \notin QueuedTimers
  BY DEF OwnKey, OwnInv, SetTimers
<1>10. OwnInv'
  <2>1. Live = QueuedTimers \cup SetTimers \cup Expired
    BY <1>1 DEF OwnKey, OwnInv
  <2>2. Live' = QueuedTimers' \cup SetTimers' \cup Expired'
    BY <1>5, <1>7, <1>8, <2>1
  <2>3. \A a \in Expired' : a \notin QueuedTimers' /\ a \notin SetTimers'
    BY <1>7, <1>8, <1>9
  <2>4. \A e \in timers' : e.timer \notin QueuedTimers'
    BY <1>1, <1>8 DEF OwnKey, OwnInv
  <2>5. \A i, j \in Queued' : functors'[i].id.timer = functors'[j].id.timer => i = j
    BY <1>1, <1>8 DEF OwnKey, OwnInv
  <2> QED
    BY <1>6, <2>2, <2>3, <2>4, <2>5 DEF OwnInv
<1>11. KeyIsStamp'
  BY <1>1 DEF OwnKey, KeyIsStamp
<1> QED
  BY <1>10, <1>11 DEF OwnKey

(* reset deletes the one-shot Timers of the batch and gives the others     *)
(* back to the set.                                                        *)
LEMMA ResetOwn ==
  ASSUME TypeOK, StepInv, OwnKey, reset
  PROVE  OwnKey'
<1>1. /\ timers' = timers \cup Restarted /\ heap' = [a \in Addr |-> AfterReset(a)]
      /\ expired' = <<>> /\ UNCHANGED functors /\ pc # "destroyed" /\ pc' = "dispatch"
  BY DEF reset, queueVars
<1>2. /\ heap \in [Addr -> Timer \cup {Free}] /\ Free \notin Timer /\ timers \subseteq Entry
      /\ Live = QueuedTimers \cup SetTimers \cup Expired /\ now \in Nat
  BY <1>1, HeapAssumption DEF TypeOK, OwnKey, OwnInv, HeapAssumption
<1>3. \A a \in Expired : a \in Addr /\ heap[a] \in Timer
  BY <1>1, OwnedIsLive DEF OwnKey
<1> DEFINE Again == {a \in Expired : isRepeat(a)}
<1>4. ASSUME NEW a \in Again
      PROVE  heap'[a] \in Timer /\ heap'[a] # Free /\ heap'[a].stamp = now + heap[a].interval
  <2>1. heap'[a] = [heap[a] EXCEPT !.stamp = now + heap[a].interval]
    BY <1>1, <1>3, <1>4 DEF AfterReset
  <2>2. heap[a] \in Timer /\ now + heap[a].interval \in Nat
    BY <1>2, <1>3, <1>4 DEF Timer
  <2> QED
    BY <1>2, <2>1, <2>2 DEF Timer
<1>5. \A a \in Addr : a \notin Expired => heap'[a] = heap[a]
  BY <1>1 DEF AfterReset
<1>6. \A a \in Expired : a \notin Again => heap'[a] = Free
  BY <1>1, <1>3 DEF AfterReset
<1>7. Live' = {a \in Live : a \notin Expired \/ a \in Again}
  BY <1>2, <1>3, <1>4, <1>5, <1>6 DEF Live
<1>8. SetTimers' = SetTimers \cup Again
  <2>1. \A b : b \in {e.timer : e \in Restarted} <=> b \in Again
    <3>1. ASSUME NEW a \in Again PROVE a \in {e.timer : e \in Restarted}
      <4>1. [stamp |-> now + heap[a].interval, timer |-> a] \in Restarted
        BY DEF Restarted
      <4>2. [stamp |-> now + heap[a].interval, timer |-> a].timer = a
        OBVIOUS
      <4> QED
        BY ONLY <4>1, <4>2
    <3>2. \A e \in Restarted : e.timer \in Again
      BY DEF Restarted
    <3> QED
      BY <3>1, <3>2
  <2>2. SetTimers' = SetTimers \cup {e.timer : e \in Restarted}
    BY <1>1 DEF SetTimers
  <2> QED
    BY ONLY <2>1, <2>2
<1>9. Expired' = {} /\ DOMAIN expired' = {}
  BY <1>1 DEF Expired, Range
<1>10. QueuedTimers' = QueuedTimers /\ Queued' = Queued
  BY <1>1 DEF QueuedTimers, Queued
<1>11. \A a \in Expired : a \notin QueuedTimers /\ a \notin SetTimers
  BY DEF OwnKey, OwnInv
<1>12. \A a \in SetTimers : a \notin QueuedTimers
  BY DEF OwnKey, OwnInv, SetTimers
<1> HIDE DEF Again
<1>s. Again \subseteq Expired
  BY DEF Again
<1>13. OwnInv'
  <2>1. Live' = QueuedTimers' \cup SetTimers' \cup Expired'
    BY ONLY <1>2, <1>7, <1>8, <1>9, <1>10, <1>11, <1>s
  <2>2. \A e \in timers' : e.timer \notin QueuedTimers'
    <3>1. \A a \in SetTimers' : a \notin QueuedTimers'
      BY ONLY <1>8, <1>10, <1>11, <1>12, <1>s
    <3> QED
      BY <3>1 DEF SetTimers
  <2>3. \A i, j \in Queued' : functors'[i].id.timer = functors'[j].id.timer => i = j
    BY <1>1, <1>10 DEF OwnKey, OwnInv
  <2> QED
    BY <1>9, <2>1, <2>2, <2>3 DEF OwnInv
<1>14. KeyIsStamp'
  <2>1. ASSUME NEW e \in timers PROVE heap'[e.timer] # Free /\ heap'[e.timer].stamp = e.stamp
    <3>1. e.timer \in Addr /\ e.timer \notin Expired
      BY <1>2, <1>11, <2>1 DEF Entry, SetTimers
    <3> QED
      BY <1>5, <3>1 DEF OwnKey, KeyIsStamp
  <2>2. ASSUME NEW e \in Restarted PROVE heap'[e.timer] # Free /\ heap'[e.timer].stamp = e.stamp
    BY <1>4, <2>2 DEF Restarted, Again
  <2> QED
    BY <1>1, <2>1, <2>2 DEF KeyIsStamp
<1> QED
  BY <1>13, <1>14 DEF OwnKey

(* addTimerInLoop, run as a functor, takes its Timer into the set.         *)
LEMMA FunctorOwn ==
  ASSUME TypeOK, StepInv, OwnKey, RunFunctor
  PROVE  OwnKey'
<1>1. pc = "functors" /\ batch > 0
  BY DEF RunFunctor
<1>2. /\ functors # <<>> /\ Head(functors) \in Functors
      /\ Head(functors) = functors[1] /\ 1 \in DOMAIN functors
  BY <1>1, FirstFunctor
<1> DEFINE id == Head(functors).id
<1>3. /\ functors' = Tail(functors) /\ UNCHANGED <<pc, expired>>
      /\ IF Head(functors).op = "add"
         THEN addTimerInLoop(id.timer, heap[id.timer].stamp) /\ UNCHANGED <<heap, cancelled>>
         ELSE cancelInLoop(id) /\ UNCHANGED <<left, readable>>
  BY DEF RunFunctor, batchVars
<1>4. id \in TimerId /\ id.timer \in Addr
  BY <1>2 DEF Functors, TimerId
<1>5. /\ OnceQueued'
      /\ QueuedTimers' = IF Head(functors).op = "add" THEN QueuedTimers \ {id.timer} ELSE QueuedTimers
  BY <1>2, <1>3, QueuedRun DEF OwnKey, OwnInv, OnceQueued
<1>6. CASE Head(functors).op # "add"
  BY <1>1, <1>3, <1>4, <1>5, <1>6, CancelledOwn
<1>7. CASE Head(functors).op = "add"
  <2>1. id.timer \in QueuedTimers
    BY <1>2, <1>7 DEF QueuedTimers, Queued
  <2>2. timers' = timers \cup {[stamp |-> heap[id.timer].stamp, timer |-> id.timer]}
        /\ heap' = heap /\ expired' = expired /\ pc' = pc
    BY <1>3, <1>7 DEF addTimerInLoop
  <2>3. SetTimers' = SetTimers \cup {id.timer} /\ Live' = Live /\ Expired' = Expired
    <3>1. Live' = Live /\ Expired' = Expired
      BY <2>2 DEF Live, Expired
    <3>2. \A b : b \in SetTimers' <=> b \in SetTimers \/ b = id.timer
      <4> DEFINE a == id.timer
                 n == [stamp |-> heap[a].stamp, timer |-> a]
      <4>1. n.timer = a
        OBVIOUS
      <4>2. timers' = timers \cup {n}
        BY <2>2
      <4> HIDE DEF n, a
      <4> QED
        BY ONLY <4>1, <4>2 DEF SetTimers, a
    <3> QED
      BY <3>1, <3>2
  <2>4. heap[id.timer] # Free
    BY <1>1, <2>1 DEF OwnKey, OwnInv, Live
  <2>5. id.timer \notin Expired /\ \A a \in SetTimers : a \notin QueuedTimers
    BY <2>1 DEF OwnKey, OwnInv, SetTimers
  <2>6. OwnInv'
    <3>1. Live' = QueuedTimers' \cup SetTimers' \cup Expired'
      BY <1>1, <1>5, <1>7, <2>1, <2>3 DEF OwnKey, OwnInv
    <3>2. \A a \in Expired' : a \notin QueuedTimers' /\ a \notin SetTimers'
      BY <1>5, <1>7, <2>3, <2>5 DEF OwnKey, OwnInv
    <3>3. \A a \in SetTimers' : a \notin QueuedTimers'
      BY <1>5, <1>7, <2>3, <2>5
    <3>4. \A e \in timers' : e.timer \notin QueuedTimers'
      BY <3>3 DEF SetTimers
    <3>5. \A i, j \in DOMAIN expired' : expired'[i].timer = expired'[j].timer => i = j
      BY <2>2 DEF OwnKey, OwnInv
    <3> QED
      BY <1>5, <3>1, <3>2, <3>4, <3>5 DEF OwnInv, OnceQueued
  <2>7. KeyIsStamp'
    BY <2>2, <2>4 DEF OwnKey, KeyIsStamp
  <2> QED
    BY <2>6, <2>7 DEF OwnKey
<1> QED
  BY <1>6, <1>7

(* No step leaves a Timer without owner or key, or with two.               *)
LEMMA OwnKeyStep ==
  ASSUME IInv, [Next]_vars
  PROVE  OwnKey'
<1>0. TypeOK /\ StepInv /\ OwnKey /\ OnceQueued
  BY DEF IInv, OwnKey, OwnInv, OnceQueued
<1> USE DEF clockVars, fdVars, batchVars, queueVars, historyVars
<1>k. ASSUME UNCHANGED <<heap, timers, expired, functors>>, pc = "destroyed" <=> pc' = "destroyed"
      PROVE  OwnKey'
  <2>1. Queued' = Queued /\ QueuedTimers' = QueuedTimers /\ SetTimers' = SetTimers
        /\ Expired' = Expired /\ Live' = Live
    BY <1>k DEF Queued, QueuedTimers, SetTimers, Expired, Live
  <2> QED
    BY <1>0, <1>k, <2>1 DEF OwnKey, OwnInv, KeyIsStamp
<1>1. ASSUME NEW self \in Threads, NEW r \in Requests, addTimer(self, r[1], r[2])
      PROVE  OwnKey'
  <2>1. r[1] \in Nat /\ r[2] \in Nat /\ seq \in Nat
    BY <1>0, RequestTypes DEF TypeOK
  <2>2. PICK a \in Addr :
          /\ heap[a] = Free
          /\ heap' = [heap EXCEPT ![a] = [sequence |-> seq + 1, stamp |-> r[1], interval |-> r[2]]]
          /\ IF self = LoopThread
             THEN addTimerInLoop(a, r[1]) /\ UNCHANGED functors
             ELSE /\ functors' = queueInLoop("add", [timer |-> a, sequence |-> seq + 1])
                  /\ UNCHANGED <<timers, left, readable>>
    BY <1>1 DEF addTimer
  <2> DEFINE t == [sequence |-> seq + 1, stamp |-> r[1], interval |-> r[2]]
             id == [timer |-> a, sequence |-> seq + 1]
  <2>3. t \in Timer /\ t.stamp = r[1] /\ id \in TimerId /\ id.timer = a
    BY <2>1 DEF Timer, TimerId
  <2>4. pc # "destroyed" /\ pc' = pc /\ expired' = expired
    BY <1>1 DEF addTimer, UserCode
  <2>5. a \notin QueuedTimers
    BY <1>0, <2>2, <2>4 DEF OwnKey, OwnInv, Live
  <2>6. CASE self = LoopThread
    <3>1. /\ timers' = timers \cup {[stamp |-> t.stamp, timer |-> a]} /\ functors' = functors
      BY <2>2, <2>3, <2>6 DEF addTimerInLoop
    <3>2. QueuedTimers' = QueuedTimers /\ OnceQueued'
      BY <1>0, <3>1 DEF QueuedTimers, Queued, OnceQueued
    <3> QED
      BY <1>0, <2>2, <2>3, <2>4, <3>1, <3>2, AddedOwn
  <2>7. CASE self # LoopThread
    <3>1. QueuedTimers' = QueuedTimers \cup {a} /\ OnceQueued' /\ timers' = timers
      BY <1>0, <2>2, <2>3, <2>5, <2>7, QueuedAppended
    <3> QED
      BY <1>0, <2>2, <2>3, <2>4, <3>1, AddedOwn
  <2> QED
    BY <2>6, <2>7
<1>2. ASSUME NEW self \in Threads, NEW id \in ids, cancelTimer(self, id)
      PROVE  OwnKey'
  <2>1. id \in TimerId
    BY <1>0 DEF TypeOK
  <2>2. /\ pc # "destroyed" /\ pc' = pc /\ expired' = expired
        /\ IF self = LoopThread
           THEN cancelInLoop(id) /\ UNCHANGED functors
           ELSE functors' = queueInLoop("cancel", id) /\ UNCHANGED <<timers, heap, cancelled>>
    BY <1>2 DEF cancelTimer, UserCode
  <2>3. CASE self = LoopThread
    <3>1. QueuedTimers' = QueuedTimers /\ OnceQueued'
      BY <1>0, <2>2, <2>3 DEF QueuedTimers, Queued, OnceQueued
    <3> QED
      BY <1>0, <2>1, <2>2, <2>3, <3>1, CancelledOwn
  <2>4. CASE self # LoopThread
    <3>1. QueuedTimers' = QueuedTimers /\ OnceQueued'
      BY <1>0, <2>1, <2>2, <2>4, QueuedAppended
    <3>2. SetTimers' = SetTimers /\ Expired' = Expired /\ Live' = Live
      BY <2>2, <2>4 DEF SetTimers, Expired, Live
    <3> QED
      BY <1>0, <2>2, <2>4, <3>1, <3>2 DEF OwnKey, OwnInv, KeyIsStamp, OnceQueued
  <2> QED
    BY <2>3, <2>4
<1>3. CASE EnterLoop \/ Timeout \/ CallbackReturns \/ EndDispatch \/ EndFunctors \/ Poll \/ PollOther
  BY <1>k, <1>3 DEF EnterLoop, Timeout, CallbackReturns, EndDispatch, EndFunctors, Poll,
     PollOther, PollReturns
<1>4. CASE handleRead
  BY <1>0, <1>4, ReadOwn
<1>5. CASE reset
  BY <1>0, <1>5, ResetOwn
<1>6. CASE RunFunctor
  BY <1>0, <1>6, FunctorOwn
<1>7. CASE Destroy
  <2>1. timers' = {} /\ functors' = <<>> /\ expired' = <<>> /\ pc' = "destroyed"
    BY <1>0, <1>7 DEF Destroy, StepInv
  <2>2. Queued' = {} /\ Expired' = {}
    BY <2>1 DEF Queued, Expired, Range
  <2> QED
    BY <2>1, <2>2 DEF OwnKey, OwnInv, KeyIsStamp
<1>8. ASSUME Tick \/ (\E by \in Jumps : SetClock(by)) \/ UNCHANGED vars PROVE OwnKey'
  BY <1>k, <1>8 DEF Tick, SetClock, vars
<1> QED
  BY <1>1, <1>2, <1>3, <1>4, <1>5, <1>6, <1>7, <1>8 DEF Next, LoopStep

LEMMA InitialIInv == Init => IInv
<1> SUFFICES ASSUME Init PROVE IInv
  OBVIOUS
<1>1. <<>> \in Seq(Entry) /\ <<>> \in Seq(Functors)
  BY EmptySeq
<1>2. Queued = {} /\ Live = {} /\ Expired = {} /\ DOMAIN expired = {}
  BY DEF Init, Queued, Live, Expired, Range
<1>3. TypeOK
  <2>1. heap \in [Addr -> Timer \cup {Free}]
    BY DEF Init
  <2>2. expired \in Seq(Entry) /\ functors \in Seq([op : {"add", "cancel"}, id : TimerId])
    BY <1>1 DEF Init, Functors
  <2>3. /\ now \in Nat \ {0} /\ jumps \in Nat /\ next \in Nat \ {0}
        /\ left \in Nat /\ seq \in Nat /\ batch \in Nat
    BY DEF Init
  <2>4. /\ careful \in Callers /\ readable \in BOOLEAN /\ reported \in BOOLEAN
        /\ pc \in {"setup", "poll", "dispatch", "callback", "calling", "functors", "destroyed"}
        /\ timers \subseteq Entry /\ ids \subseteq TimerId /\ cancelled \subseteq Nat
    BY DEF Init
  <2> QED
    BY <2>1, <2>2, <2>3, <2>4 DEF TypeOK
<1>4. StepInv
  BY DEF Init, StepInv
<1>5. OwnInv /\ KeyIsStamp
  BY <1>2 DEF Init, OwnInv, KeyIsStamp, QueuedTimers, SetTimers
<1> QED
  BY <1>3, <1>4, <1>5 DEF IInv

(* The invariant holds in every run.                                       *)
LEMMA IInvHolds == SafeSpec => []IInv
<1>1. Init => IInv
  BY InitialIInv
<1>2. ASSUME IInv, [Next]_vars PROVE IInv'
  BY <1>2, TypeStep, StepInvStep, OwnKeyStep DEF IInv, OwnKey
<1>3. IInv /\ [Next]_vars => IInv'
  BY <1>2
<1> QED
  BY <1>1, <1>3, PTL DEF SafeSpec

(* The variables of the timer queue keep their types, however many timers  *)
(* there are and however the clocks go (src/src/TimerQueue.cc).            *)
THEOREM TypeCorrect == SafeSpec => []TypeOK
<1>1. IInv => TypeOK
  BY DEF IInv
<1> QED
  BY <1>1, IInvHolds, PTL

(* The key under which _pTimers has a Timer is that Timer's stamp, also    *)
(* after reset has restarted it: find() in cancelInLoop meets the entry    *)
(* that addTimerInLoop or reset has inserted.                              *)
THEOREM SetFindsTimer == SafeSpec => []KeyIsStamp
<1>1. IInv => KeyIsStamp
  BY DEF IInv
<1> QED
  BY <1>1, IInvHolds, PTL

-----------------------------------------------------------------------------
(* Each Timer object has one owner.                                        *)

(* Each owner has as many Timers as entries.                               *)
LEMMA OwnersCounted ==
  ASSUME IInv
  PROVE  /\ IsFiniteSet(QueuedTimers) /\ Cardinality(QueuedTimers) = Cardinality(Queued)
         /\ IsFiniteSet(SetTimers) /\ Cardinality(SetTimers) = Cardinality(timers)
         /\ IsFiniteSet(Expired) /\ Cardinality(Expired) = Len(expired)
<1>0. /\ TypeOK /\ OwnInv /\ KeyIsStamp
      /\ functors \in Seq(Functors) /\ expired \in Seq(Entry)
  BY DEF IInv, TypeOK, Functors
<1>1. IsFiniteSet(QueuedTimers) /\ Cardinality(QueuedTimers) = Cardinality(Queued)
  <2> DEFINE f == [i \in Queued |-> functors[i].id.timer]
  <2>1. IsFiniteSet(Queued)
    <3>1. Len(functors) \in Nat /\ DOMAIN functors = 1 .. Len(functors)
      BY <1>0, LenProperties
    <3>2. IsFiniteSet(1 .. Len(functors))
      BY <3>1, FS_Interval
    <3> QED
      BY <3>1, <3>2, FS_Subset DEF Queued
  <2>2. f \in Bijection(Queued, QueuedTimers)
    <3>1. f \in Injection(Queued, QueuedTimers)
      BY <1>0 DEF QueuedTimers, OwnInv, Injection, IsInjective
    <3>2. f \in Surjection(Queued, QueuedTimers)
      BY DEF QueuedTimers, Surjection
    <3> QED
      BY <3>1, <3>2 DEF Bijection
  <2> QED
    BY <2>1, <2>2, FS_Bijection DEF ExistsBijection
<1>2. IsFiniteSet(SetTimers) /\ Cardinality(SetTimers) = Cardinality(timers)
  <2> DEFINE f == [e \in timers |-> e.timer]
  <2>1. IsFiniteSet(timers)
    BY <1>0, TimersFinite
  <2>2. \A e, g \in timers : e.timer = g.timer => e = g
    BY <1>0, OneEntryEach
  <2>3. f \in Bijection(timers, SetTimers)
    <3>1. f \in Injection(timers, SetTimers)
      BY <2>2 DEF SetTimers, Injection, IsInjective
    <3>2. f \in Surjection(timers, SetTimers)
      BY DEF SetTimers, Surjection
    <3> QED
      BY <3>1, <3>2 DEF Bijection
  <2> QED
    BY <2>1, <2>3, FS_Bijection DEF ExistsBijection
<1>3. IsFiniteSet(Expired) /\ Cardinality(Expired) = Len(expired)
  <2> DEFINE f == [i \in 1 .. Len(expired) |-> expired[i].timer]
  <2>1. Len(expired) \in Nat /\ DOMAIN expired = 1 .. Len(expired)
    BY <1>0, LenProperties
  <2>2. IsFiniteSet(1 .. Len(expired)) /\ Cardinality(1 .. Len(expired)) = Len(expired)
    <3> DEFINE n == Len(expired)
    <3>1. n \in Nat /\ 1 \in Int /\ n \in Int
      BY <2>1
    <3> HIDE DEF n
    <3>2. IsFiniteSet(1 .. n) /\ Cardinality(1 .. n) = IF 1 > n THEN 0 ELSE n - 1 + 1
      BY ONLY <3>1, FS_Interval
    <3>3. Cardinality(1 .. n) = n
      BY ONLY <3>1, <3>2
    <3> QED
      BY <3>2, <3>3 DEF n
  <2>3. f \in Bijection(1 .. Len(expired), Expired)
    <3>1. f \in [1 .. Len(expired) -> Expired]
      BY <2>1 DEF Expired, Range
    <3>2. \A i, j \in 1 .. Len(expired) : f[i] = f[j] => i = j
      BY <1>0, <2>1 DEF OwnInv
    <3>3. \A a \in Expired : \E i \in 1 .. Len(expired) : f[i] = a
      BY <2>1 DEF Expired, Range
    <3>4. f \in Injection(1 .. Len(expired), Expired)
      BY <3>1, <3>2 DEF Injection, IsInjective
    <3>5. f \in Surjection(1 .. Len(expired), Expired)
      BY <3>1, <3>3 DEF Surjection
    <3> QED
      BY <3>4, <3>5 DEF Bijection
  <2> QED
    BY <2>2, <2>3, FS_Bijection DEF ExistsBijection
<1> QED
  BY <1>1, <1>2, <1>3

(* No Timer is counted twice.                                              *)
LEMMA OwnersDiffer == ASSUME IInv PROVE OneOwner
<1>1. SUFFICES ASSUME pc # "destroyed"
               PROVE  /\ Live = QueuedTimers \cup SetTimers \cup Expired
                      /\ Cardinality(Live) = Cardinality(Queued) + Cardinality(timers) + Len(expired)
  BY DEF OneOwner, QueuedTimers, SetTimers
<1>2. Live = (QueuedTimers \cup SetTimers) \cup Expired
  BY <1>1 DEF IInv, OwnInv
<1>3. QueuedTimers \cap SetTimers = {} /\ (QueuedTimers \cup SetTimers) \cap Expired = {}
  BY DEF IInv, OwnInv, SetTimers
<1>4. /\ IsFiniteSet(QueuedTimers) /\ Cardinality(QueuedTimers) = Cardinality(Queued)
      /\ IsFiniteSet(SetTimers) /\ Cardinality(SetTimers) = Cardinality(timers)
      /\ IsFiniteSet(Expired) /\ Cardinality(Expired) = Len(expired)
  BY OwnersCounted
<1>5. Cardinality({}) = 0
  BY FS_EmptySet
<1>6. /\ IsFiniteSet(QueuedTimers \cup SetTimers)
      /\ Cardinality(QueuedTimers \cup SetTimers) =
           Cardinality(QueuedTimers) + Cardinality(SetTimers) - Cardinality({})
  BY <1>3, <1>4, FS_Union
<1>7. Cardinality(Live) =
        Cardinality(QueuedTimers \cup SetTimers) + Cardinality(Expired) - Cardinality({})
  BY <1>2, <1>3, <1>4, <1>6, FS_Union
<1>8. /\ Cardinality(QueuedTimers) \in Nat /\ Cardinality(SetTimers) \in Nat
      /\ Cardinality(Expired) \in Nat
  BY <1>4, FS_CardinalityType
<1> QED
  BY <1>2, <1>4, <1>5, <1>6, <1>7, <1>8

(* Every Timer object is owned by the functor that will insert it, by the  *)
(* set, or by the batch of expired timers, and by one of them only: none   *)
(* is leaked, deleted twice, or deleted while somebody points to it, until *)
(* the loop is destroyed (src/src/TimerQueue.cc).                          *)
THEOREM TimersAreOwnedOnce == SafeSpec => []OneOwner
<1>1. IInv => OneOwner
  BY OwnersDiffer
<1> QED
  BY <1>1, IInvHolds, PTL

-----------------------------------------------------------------------------
(* The timerfd.                                                            *)

(* The wall clock is not set forward.                                      *)
NeverForward == \A by \in Jumps : by <= 0

(* Each entry is waited for.  While a batch is out only those with a stamp *)
(* of 0 are, for reset arms the timerfd for all the others when it ends.   *)
ArmedInv ==
  \A e \in timers :
    \/ readable
    \/ reported
    \/ pc \in {"callback", "calling"} /\ (e.stamp > 0 \/ left = 1)
    \/ left > 0 /\ left <= howMuchTimeFromNow(e.stamp)

(* An insertion arms the timerfd when it has to.                           *)
LEMMA InsertArms ==
  ASSUME TypeOK, ArmedInv, NEW a \in Addr, NEW when \in Nat, addTimerInLoop(a, when),
         UNCHANGED <<now, reported, pc>>
  PROVE  ArmedInv'
<1>1. /\ now \in Nat /\ left \in Nat /\ timers' = timers \cup {[stamp |-> when, timer |-> a]}
      /\ \A e \in timers : e.stamp \in Nat
  BY DEF TypeOK, Entry, addTimerInLoop
<1>2. CASE EarliestChanged(when)
  <2>1. left' = howMuchTimeFromNow(when)
    BY <1>2 DEF addTimerInLoop, resetTimerfd
  <2>2. \A e \in timers' : e.stamp \in Nat /\ when <= e.stamp
    BY <1>1, <1>2 DEF EarliestChanged
  <2>3. \A n \in Nat : when <= n => howMuchTimeFromNow(when) <= howMuchTimeFromNow(n)
    BY <1>1 DEF howMuchTimeFromNow
  <2>4. howMuchTimeFromNow(when) > 0
    BY <1>1 DEF howMuchTimeFromNow
  <2> QED
    BY <2>1, <2>2, <2>3, <2>4 DEF ArmedInv, howMuchTimeFromNow
<1>3. CASE ~ EarliestChanged(when)
  <2>1. PICK f \in timers : f.stamp <= when
    BY <1>1, <1>3 DEF EarliestChanged
  <2>2. UNCHANGED <<left, readable>>
    BY <1>3 DEF addTimerInLoop
  <2>3. howMuchTimeFromNow(f.stamp) <= howMuchTimeFromNow(when)
    BY <1>1, <2>1 DEF howMuchTimeFromNow
  <2>4. f.stamp > 0 => when > 0
    BY <1>1, <2>1
  <2>5. howMuchTimeFromNow(f.stamp) \in Int /\ howMuchTimeFromNow(when) \in Int
    BY <1>1 DEF howMuchTimeFromNow
  <2>6. \/ readable \/ reported
        \/ pc \in {"callback", "calling"} /\ (when > 0 \/ left = 1)
        \/ left > 0 /\ left <= howMuchTimeFromNow(when)
    BY <1>1, <2>1, <2>3, <2>4, <2>5 DEF ArmedInv
  <2> QED
    BY <1>1, <2>2, <2>6 DEF ArmedInv, howMuchTimeFromNow
<1> QED
  BY <1>2, <1>3

(* The end of a batch arms it for all that was inserted meanwhile.         *)
LEMMA ResetArms ==
  ASSUME TypeOK, StepInv, OwnKey, ArmedInv, reset
  PROVE  ArmedInv'
<1>1. /\ now \in Nat \ {0} /\ left \in Nat /\ timers \subseteq Entry
      /\ heap \in [Addr -> Timer \cup {Free}] /\ expired \in Seq(Entry)
      /\ timers' = timers \cup Restarted /\ pc = "callback" /\ ~ reported
      /\ UNCHANGED <<now, reported>>
  BY DEF TypeOK, reset, StepInv, clockVars
<1>2. \A e \in Restarted : e \in Entry /\ e.stamp > 0
  <2>1. Expired \subseteq Addr /\ \A a \in Expired : heap[a] \in Timer
    <3>1. pc # "destroyed"
      BY <1>1
    <3> QED
      BY <3>1, OwnedIsLive DEF OwnKey
  <2>2. \A a \in Expired : now + heap[a].interval \in Nat /\ now + heap[a].interval > 0
    BY <1>1, <2>1 DEF Timer
  <2> QED
    BY <2>1, <2>2 DEF Restarted, Entry
<1>3. timers' \in SUBSET Entry
  BY <1>1, <1>2
<1>4. CASE NextExpireValid(timers')
  <2> DEFINE E == EarliestOf(timers')
  <2>1. left' = howMuchTimeFromNow(E)
    BY <1>4 DEF reset, resetTimerfd
  <2>2. timers' # {}
    BY <1>4 DEF NextExpireValid
  <2>3. E \in Nat /\ \A e \in timers' : E <= e.stamp
    BY <1>3, <2>2, EarliestIsFirst
  <2> HIDE DEF E
  <2>4. \A n \in Nat : E <= n => howMuchTimeFromNow(E) <= howMuchTimeFromNow(n)
    BY <1>1, <2>3 DEF howMuchTimeFromNow
  <2>5. howMuchTimeFromNow(E) > 0
    BY <1>1, <2>3 DEF howMuchTimeFromNow
  <2>6. \A e \in timers' : e.stamp \in Nat
    BY <1>3 DEF Entry
  <2> QED
    BY <1>1, <2>1, <2>3, <2>4, <2>5, <2>6 DEF ArmedInv, howMuchTimeFromNow
<1>5. CASE ~ NextExpireValid(timers') /\ timers' # {}
  <2>1. PICK e \in timers' : e.stamp = EarliestOf(timers')
    BY <1>3, <1>5, EarliestIsFirst
  <2>2. EarliestOf(timers') \in Nat /\ ~ EarliestOf(timers') > 0
    BY <1>3, <1>5, EarliestIsFirst DEF NextExpireValid
  <2>3. e \in timers /\ e.stamp = 0
    BY <1>1, <1>2, <2>1, <2>2
  <2>4. howMuchTimeFromNow(0) = 1
    BY <1>1 DEF howMuchTimeFromNow
  <2>5. readable \/ left = 1
    BY <1>1, <2>3, <2>4 DEF ArmedInv
  <2>6. UNCHANGED <<left, readable>>
    BY <1>5 DEF reset
  <2>7. \A n \in Nat : 1 <= howMuchTimeFromNow(n)
    BY <1>1 DEF howMuchTimeFromNow
  <2>8. \A f \in timers' : f.stamp \in Nat
    BY <1>3 DEF Entry
  <2> QED
    BY <1>1, <2>5, <2>6, <2>7, <2>8 DEF ArmedInv, howMuchTimeFromNow
<1>6. CASE timers' = {}
  BY <1>6 DEF ArmedInv
<1> QED
  BY <1>4, <1>5, <1>6

(* No step leaves an entry unattended.                                     *)
LEMMA ArmedStep ==
  ASSUME NeverForward, IInv, ArmedInv, [Next]_vars
  PROVE  ArmedInv'
<1>0. /\ TypeOK /\ StepInv /\ OwnKey
      /\ now \in Nat \ {0} /\ left \in Nat /\ \A e \in timers : e.stamp \in Nat
  BY DEF IInv, OwnKey, TypeOK, Entry
<1> USE DEF clockVars, fdVars, batchVars, queueVars, historyVars
<1>k. ASSUME timers' \subseteq timers, UNCHANGED <<now, left, readable, reported>>,
             pc' = pc \/ (pc \notin {"callback", "calling"}) \/ pc' \in {"callback", "calling"}
      PROVE  ArmedInv'
  <2>1. \A e \in timers : left > 0 /\ left <= howMuchTimeFromNow(e.stamp) =>
                            e.stamp > 0 \/ left = 1
    BY <1>0 DEF howMuchTimeFromNow
  <2> QED
    BY <1>k, <2>1 DEF ArmedInv, howMuchTimeFromNow
<1>1. ASSUME NEW self \in Threads, NEW r \in Requests, addTimer(self, r[1], r[2])
      PROVE  ArmedInv'
  <2>1. r[1] \in Nat
    BY <1>0, RequestTypes
  <2>2. UNCHANGED <<now, reported, pc>>
    BY <1>1 DEF addTimer
  <2>3. CASE self = LoopThread
    <3>1. PICK a \in Addr : addTimerInLoop(a, r[1])
      BY <1>1, <2>3 DEF addTimer
    <3> QED
      BY <1>0, <2>1, <2>2, <3>1, InsertArms
  <2>4. CASE self # LoopThread
    <3>1. UNCHANGED <<timers, left, readable>>
      BY <1>1, <2>4 DEF addTimer
    <3> QED
      BY <1>k, <2>2, <3>1
  <2> QED
    BY <2>3, <2>4
<1>2. ASSUME NEW self \in Threads, NEW id \in ids, cancelTimer(self, id)
      PROVE  ArmedInv'
  <2>1. timers' \subseteq timers
    BY <1>2 DEF cancelTimer, cancelInLoop
  <2>2. UNCHANGED <<now, left, readable, reported, pc>>
    BY <1>2 DEF cancelTimer
  <2> QED
    BY <1>k, <2>1, <2>2
<1>3. CASE EnterLoop \/ Timeout \/ CallbackReturns \/ EndDispatch \/ EndFunctors
  BY <1>k, <1>3 DEF EnterLoop, Timeout, CallbackReturns, EndDispatch, EndFunctors
<1>4. CASE Poll \/ PollOther
  <2>1. /\ pc = "poll" /\ pc' = "dispatch" /\ reported' = readable
        /\ UNCHANGED <<now, timers, left, readable>>
    BY <1>4 DEF Poll, PollOther, PollReturns
  <2>2. ~ reported
    BY <1>0, <2>1 DEF StepInv
  <2> QED
    BY <2>1, <2>2 DEF ArmedInv, howMuchTimeFromNow
<1>5. CASE handleRead
  <2>1. timers' = timers \ DueEntries /\ pc' = "callback"
    BY <1>5 DEF handleRead
  <2>2. \A e \in timers' : e.stamp > 0
    BY <1>0, <2>1 DEF DueEntries
  <2> QED
    BY <2>1, <2>2 DEF ArmedInv
<1>6. CASE reset
  BY <1>0, <1>6, ResetArms
<1>7. CASE RunFunctor
  <2>1. pc = "functors" /\ batch > 0 /\ UNCHANGED <<now, reported, pc>>
    BY <1>7 DEF RunFunctor
  <2>2. Head(functors) \in Functors /\ Head(functors) = functors[1] /\ 1 \in DOMAIN functors
    BY <1>0, <2>1, FirstFunctor
  <2> DEFINE id == Head(functors).id
  <2>3. CASE Head(functors).op = "add"
    <3>1. addTimerInLoop(id.timer, heap[id.timer].stamp)
      BY <1>7, <2>3 DEF RunFunctor
    <3>2. id.timer \in QueuedTimers
      BY <2>2, <2>3 DEF QueuedTimers, Queued
    <3>3. id.timer \in Addr /\ heap[id.timer] \in Timer
      BY <1>0, <2>1, <3>2, OwnedIsLive DEF OwnKey
    <3>4. heap[id.timer].stamp \in Nat
      BY <3>3 DEF Timer
    <3> QED
      BY <1>0, <2>1, <3>1, <3>3, <3>4, InsertArms
  <2>4. CASE Head(functors).op # "add"
    <3>1. timers' \subseteq timers /\ UNCHANGED <<left, readable>>
      BY <1>7, <2>4 DEF RunFunctor, cancelInLoop
    <3> QED
      BY <1>k, <2>1, <3>1
  <2> QED
    BY <2>3, <2>4
<1>8. CASE Destroy
  BY <1>8 DEF Destroy, ArmedInv
<1>9. CASE Tick
  <2>1. /\ now' \in Nat /\ now' <= now + 1 /\ now' >= now
        /\ left' = (IF left > 0 THEN left - 1 ELSE 0)
        /\ readable' = (readable \/ left = 1) /\ UNCHANGED <<timers, reported, pc>>
    BY <1>0, <1>9, TimeAssumption DEF Tick, TimeAssumption
  <2>2. \A e \in timers : left > 1 /\ left <= howMuchTimeFromNow(e.stamp) =>
          left' > 0 /\ left' <= (IF e.stamp - now' < 1 THEN 1 ELSE e.stamp - now')
    BY <1>0, <2>1 DEF howMuchTimeFromNow
  <2>3. left = 1 => readable'
    BY <2>1
  <2>4. \A e \in timers : left' > 0 /\ left' <= (IF e.stamp - now' < 1 THEN 1 ELSE e.stamp - now')
          => left' > 0 /\ left' <= howMuchTimeFromNow(e.stamp)'
    BY DEF howMuchTimeFromNow
  <2>5. SUFFICES ASSUME NEW e \in timers
                 PROVE  \/ readable' \/ reported'
                        \/ pc' \in {"callback", "calling"} /\ (e.stamp > 0 \/ left' = 1)
                        \/ left' > 0 /\ left' <= (IF e.stamp - now' < 1 THEN 1 ELSE e.stamp - now')
    BY <2>1 DEF ArmedInv, howMuchTimeFromNow
  <2>6. CASE readable \/ reported \/ left = 1
    BY <2>1, <2>3, <2>6
  <2>7. CASE pc \in {"callback", "calling"} /\ e.stamp > 0
    BY <2>1, <2>7
  <2>8. CASE left > 0 /\ left # 1 /\ left <= howMuchTimeFromNow(e.stamp)
    <3>1. left > 1
      BY <1>0, <2>8
    <3> QED
      BY <2>2, <2>8, <3>1
  <2> QED
    BY <2>6, <2>7, <2>8 DEF ArmedInv
<1>10. ASSUME NEW by \in Jumps, SetClock(by) PROVE ArmedInv'
  <2>1. now' \in Int /\ now' <= now /\ UNCHANGED <<timers, left, readable, reported, pc>>
    BY <1>0, <1>10, TimeAssumption DEF SetClock, NeverForward, TimeAssumption
  <2>2. \A e \in timers : left <= howMuchTimeFromNow(e.stamp) =>
          left <= (IF e.stamp - now' < 1 THEN 1 ELSE e.stamp - now')
    BY <1>0, <2>1 DEF howMuchTimeFromNow
  <2> QED
    BY <2>1, <2>2 DEF ArmedInv, howMuchTimeFromNow
<1>11. CASE UNCHANGED vars
  BY <1>k, <1>11 DEF vars
<1> QED
  BY <1>1, <1>2, <1>3, <1>4, <1>5, <1>6, <1>7, <1>8, <1>9, <1>10, <1>11 DEF Next, LoopStep

LEMMA EarliestIsArmed == ASSUME IInv, ArmedInv PROVE ArmedForEarliest
<1> SUFFICES ASSUME pc \in {"setup", "poll", "dispatch", "functors"}, timers # {}
             PROVE  \/ readable
                    \/ reported
                    \/ left > 0 /\ left <= howMuchTimeFromNow(EarliestOf(timers))
  BY DEF ArmedForEarliest
<1>1. timers \in SUBSET Entry
  BY DEF IInv, TypeOK
<1>2. PICK e \in timers : e.stamp = EarliestOf(timers)
  BY <1>1, EarliestIsFirst
<1>3. pc \notin {"callback", "calling"}
  OBVIOUS
<1> QED
  BY <1>2, <1>3 DEF ArmedInv

(* As long as the wall clock is not set forward, the timerfd expires no    *)
(* later than the earliest timer is due, whatever was inserted, cancelled  *)
(* and restarted (resetTimerfd in src/src/TimerQueue.cc).                  *)
THEOREM TimerfdIsInTime == ASSUME NeverForward PROVE SafeSpec => []ArmedForEarliest
<1>1. Init => ArmedInv
  BY DEF Init, ArmedInv
<1>2. IInv /\ ArmedInv /\ [Next]_vars => ArmedInv'
  BY ArmedStep
<1>3. IInv /\ ArmedInv => ArmedForEarliest
  BY EarliestIsArmed
<1> QED
  BY <1>1, <1>2, <1>3, IInvHolds, PTL DEF SafeSpec

-----------------------------------------------------------------------------
(* Cancellation.                                                           *)

(* Sequence numbers tell the Timers apart, the ones to come included.      *)
SeqInv ==
  /\ \A a \in Live : heap[a].sequence <= seq
  /\ \A a, b \in Live : heap[a].sequence = heap[b].sequence => a = b
  /\ \A id \in ids : id.sequence <= seq
  /\ \A i \in DOMAIN functors : functors[i].id \in ids
  /\ \A n \in cancelled : n <= seq

(* A cancelled Timer is gone.                                              *)
Uncancelled == \A a \in Live : heap[a].sequence \notin cancelled

(* A queued cancellation has its own Timer, which repeats and thus stays.  *)
CancelsOwn ==
  \A i \in Cancels : Owns(functors[i].id) /\ heap[functors[i].id.timer].interval > 0

(* It waits behind the functor that inserts the Timer.                     *)
AddsFirst ==
  \A i \in Queued, j \in Cancels : functors[i].id.timer = functors[j].id.timer => i < j

(* No Timer is cancelled by two functors.                                  *)
CancelsDiffer ==
  \A i, j \in Cancels : functors[i].id.sequence = functors[j].id.sequence => i = j

(* All of this is so for callers that cancel with care.                    *)
CarefulInv == careful => Uncancelled /\ CancelsOwn /\ AddsFirst /\ CancelsDiffer

(* No Timer is new, and those that stay keep their number and interval.    *)
Kept ==
  \A a \in Live' : /\ a \in Live
                   /\ heap'[a].sequence = heap[a].sequence
                   /\ heap'[a].interval = heap[a].interval

(* A cancellation deletes its Timer only.                                  *)
LEMMA CancelKeeps ==
  ASSUME TypeOK, NEW id \in TimerId, cancelInLoop(id)
  PROVE  Kept
<1>1. heap \in [Addr -> Timer \cup {Free}] /\ id.timer \in Addr
  BY DEF TypeOK, TimerId
<1>2. CASE Found(id)
  <2>1. heap' = [heap EXCEPT ![id.timer] = Free]
    BY <1>2 DEF cancelInLoop
  <2>2. \A a \in Addr : heap'[a] = IF a = id.timer THEN Free ELSE heap[a]
    BY <1>1, <2>1
  <2> QED
    BY <2>2 DEF Kept, Live
<1>3. CASE ~ Found(id)
  BY <1>3 DEF cancelInLoop, Kept, Live
<1> QED
  BY <1>2, <1>3

(* reset deletes the one-shot timers only.                                 *)
LEMMA ResetKeeps ==
  ASSUME TypeOK, StepInv, OwnKey, reset
  PROVE  Kept /\ \A a \in Live : heap[a].interval > 0 => a \in Live'
<1>1. /\ heap' = [a \in Addr |-> AfterReset(a)] /\ pc # "destroyed"
      /\ heap \in [Addr -> Timer \cup {Free}] /\ Free \notin Timer /\ now \in Nat
  BY HeapAssumption DEF reset, TypeOK, HeapAssumption
<1>2. \A a \in Expired : a \in Addr /\ heap[a] \in Timer
  BY <1>1, OwnedIsLive DEF OwnKey
<1>3. \A a \in Addr : heap'[a] = AfterReset(a)
  BY <1>1
<1>4. ASSUME NEW a \in Expired, isRepeat(a)
      PROVE  /\ heap'[a] \in Timer
             /\ heap'[a].sequence = heap[a].sequence
             /\ heap'[a].interval = heap[a].interval
  <2>1. heap'[a] = [heap[a] EXCEPT !.stamp = now + heap[a].interval]
    BY <1>2, <1>3, <1>4 DEF AfterReset
  <2>2. heap[a] \in Timer /\ now + heap[a].interval \in Nat
    BY <1>1, <1>2 DEF Timer
  <2> QED
    BY ONLY <2>1, <2>2 DEF Timer
<1>5. \A a \in Addr : a \notin Expired => heap'[a] = heap[a]
  BY <1>3 DEF AfterReset
<1>6. \A a \in Expired : ~ isRepeat(a) => heap'[a] = Free
  BY <1>2, <1>3 DEF AfterReset
<1>7. Kept
  BY <1>1, <1>2, <1>4, <1>5, <1>6 DEF Kept, Live
<1>8. \A a \in Live : heap[a].interval > 0 => a \in Live'
  BY <1>1, <1>2, <1>4, <1>5 DEF Live, isRepeat
<1> QED
  BY <1>7, <1>8

(* What was said of the numbers stays true when no Timer is added.         *)
LEMMA KeptSeq ==
  ASSUME SeqInv, Kept, UNCHANGED <<seq, ids>>,
         \A i \in DOMAIN functors' : functors'[i].id \in ids,
         \A n \in cancelled' : n \in cancelled \/ \E id \in ids : n = id.sequence
  PROVE  SeqInv'
  BY DEF SeqInv, Kept

(* No step gives a number twice.                                           *)
LEMMA SeqStep ==
  ASSUME IInv, SeqInv, [Next]_vars
  PROVE  SeqInv'
<1>0. TypeOK /\ StepInv /\ OwnKey
  BY DEF IInv, OwnKey
<1> USE DEF clockVars, fdVars, batchVars, queueVars, historyVars
<1>k. ASSUME UNCHANGED <<heap, seq, functors, ids, cancelled>> PROVE SeqInv'
  BY <1>k DEF SeqInv, Live
<1>f. \A i \in DOMAIN functors : functors[i].id \in ids
  BY DEF SeqInv
<1>1. ASSUME NEW self \in Threads, NEW r \in Requests, addTimer(self, r[1], r[2])
      PROVE  SeqInv'
  <2> DEFINE t == [sequence |-> seq + 1, stamp |-> r[1], interval |-> r[2]]
             id(a) == [timer |-> a, sequence |-> seq + 1]
  <2>1. PICK a \in Addr :
          /\ heap[a] = Free /\ heap' = [heap EXCEPT ![a] = t] /\ ids' = ids \cup {id(a)}
          /\ functors' = functors \/ functors' = queueInLoop("add", id(a))
    BY <1>1 DEF addTimer
  <2>2. seq \in Nat /\ seq' = seq + 1 /\ cancelled' = cancelled /\ cancelled \subseteq Nat
    BY <1>0, <1>1 DEF addTimer, TypeOK
  <2>3. heap \in [Addr -> Timer \cup {Free}] /\ ids \subseteq TimerId
    BY <1>0 DEF TypeOK
  <2>4. \A b \in Addr : heap'[b] = IF b = a THEN t ELSE heap[b]
    BY <2>1, <2>3
  <2>5. \A b \in Live' : b = a \/ (b \in Live /\ b # a /\ heap'[b] = heap[b])
    BY <2>4 DEF Live
  <2>6. heap'[a].sequence = seq + 1
    BY <2>4
  <2>7. \A b \in Live : heap[b].sequence \in Nat /\ heap[b].sequence <= seq
    BY <2>3 DEF Live, Timer, SeqInv
  <2>8. \A b \in Live' : heap'[b].sequence <= seq'
    BY <2>2, <2>5, <2>6, <2>7
  <2>9. \A b, c \in Live' : heap'[b].sequence = heap'[c].sequence => b = c
    <3>1. \A b, c \in Live : heap[b].sequence = heap[c].sequence => b = c
      BY DEF SeqInv
    <3>2. \A b \in Live : heap[b].sequence # seq + 1
      BY <2>2, <2>7
    <3> QED
      BY <2>5, <2>6, <3>1, <3>2
  <2>10. \A d \in ids' : d.sequence <= seq'
    BY <2>1, <2>2, <2>3 DEF SeqInv, TimerId
  <2>11. \A i \in DOMAIN functors' : functors'[i].id \in ids'
    <3>1. CASE functors' = functors
      BY <1>f, <2>1, <3>1
    <3>2. CASE functors' = queueInLoop("add", id(a))
      <4>1. id(a) \in TimerId
        BY <2>2 DEF TimerId
      <4>2. /\ Len(functors) \in Nat /\ DOMAIN functors = 1 .. Len(functors)
            /\ DOMAIN functors' = 1 .. Len(functors) + 1
            /\ \A i \in DOMAIN functors : functors'[i] = functors[i]
            /\ functors'[Len(functors) + 1] = [op |-> "add", id |-> id(a)]
        BY <1>0, <3>2, <4>1, QueueAppended
      <4>3. \A i \in DOMAIN functors' : i \in DOMAIN functors \/ i = Len(functors) + 1
        BY <4>2
      <4> QED
        BY <1>f, <2>1, <4>2, <4>3
    <3> QED
      BY <2>1, <3>1, <3>2
  <2>12. \A n \in cancelled' : n <= seq'
    BY <2>2 DEF SeqInv
  <2> QED
    BY <2>8, <2>9, <2>10, <2>11, <2>12 DEF SeqInv
<1>2. ASSUME NEW self \in Threads, NEW id \in ids, cancelTimer(self, id)
      PROVE  SeqInv'
  <2>1. id \in TimerId /\ UNCHANGED <<seq, ids>>
    BY <1>0, <1>2 DEF cancelTimer, TypeOK
  <2>2. CASE self = LoopThread
    <3>1. cancelInLoop(id) /\ UNCHANGED functors
      BY <1>2, <2>2 DEF cancelTimer
    <3>2. cancelled' = cancelled \cup {id.sequence}
      BY <3>1 DEF cancelInLoop
    <3>3. Kept
      BY <1>0, <2>1, <3>1, CancelKeeps
    <3> QED
      BY <1>f, <2>1, <3>1, <3>2, <3>3, KeptSeq
  <2>3. CASE self # LoopThread
    <3>1. functors' = queueInLoop("cancel", id) /\ UNCHANGED <<heap, cancelled>>
      BY <1>2, <2>3 DEF cancelTimer
    <3>2. /\ Len(functors) \in Nat /\ DOMAIN functors = 1 .. Len(functors)
          /\ DOMAIN functors' = 1 .. Len(functors) + 1
          /\ \A i \in DOMAIN functors : functors'[i] = functors[i]
          /\ functors'[Len(functors) + 1] = [op |-> "cancel", id |-> id]
      BY <1>0, <2>1, <3>1, QueueAppended
    <3>3. \A i \in DOMAIN functors' : i \in DOMAIN functors \/ i = Len(functors) + 1
      BY <3>2
    <3>4. \A i \in DOMAIN functors' : functors'[i].id \in ids
      BY <1>f, <3>2, <3>3
    <3>5. Kept
      BY <3>1 DEF Kept, Live
    <3> QED
      BY <2>1, <3>1, <3>4, <3>5, KeptSeq
  <2> QED
    BY <2>2, <2>3
<1>3. CASE EnterLoop \/ Timeout \/ CallbackReturns \/ EndDispatch \/ EndFunctors \/ Poll \/ PollOther
           \/ handleRead
  BY <1>k, <1>3 DEF EnterLoop, Timeout, CallbackReturns, EndDispatch, EndFunctors, Poll,
     PollOther, PollReturns, handleRead
<1>4. CASE reset
  <2>1. UNCHANGED <<seq, ids, functors, cancelled>>
    BY <1>4 DEF reset
  <2> QED
    BY <1>0, <1>4, <1>f, <2>1, ResetKeeps, KeptSeq
<1>5. CASE RunFunctor
  <2>1. /\ pc = "functors" /\ batch > 0 /\ UNCHANGED <<seq, ids>> /\ functors' = Tail(functors)
    BY <1>5 DEF RunFunctor
  <2>2. /\ functors # <<>> /\ Head(functors) \in Functors
        /\ Head(functors) = functors[1] /\ 1 \in DOMAIN functors
    BY <1>0, <2>1, FirstFunctor
  <2>3. \A i \in DOMAIN functors' : functors'[i] = functors[i + 1] /\ i + 1 \in DOMAIN functors
    BY <1>0, <2>1, <2>2, QueueRun
  <2>4. \A i \in DOMAIN functors' : functors'[i].id \in ids
    BY <1>f, <2>3
  <2> DEFINE id == Head(functors).id
  <2>5. CASE Head(functors).op = "add"
    <3>1. UNCHANGED <<heap, cancelled>>
      BY <1>5, <2>5 DEF RunFunctor
    <3>2. Kept
      BY <3>1 DEF Kept, Live
    <3> QED
      BY <2>1, <2>4, <3>1, <3>2, KeptSeq
  <2>6. CASE Head(functors).op # "add"
    <3>1. cancelInLoop(id) /\ id \in TimerId /\ id \in ids
      BY <1>5, <1>f, <2>2, <2>6 DEF RunFunctor, Functors
    <3>2. cancelled' = cancelled \cup {id.sequence}
      BY <3>1 DEF cancelInLoop
    <3>3. Kept
      BY <1>0, <3>1, CancelKeeps
    <3> QED
      BY <2>1, <2>4, <3>1, <3>2, <3>3, KeptSeq
  <2> QED
    BY <2>5, <2>6
<1>6. CASE Destroy
  <2>1. /\ UNCHANGED <<seq, ids, cancelled>> /\ functors' = <<>>
        /\ heap' = [a \in Addr |-> IF \E e \in timers : e.timer = a THEN Free ELSE heap[a]]
    BY <1>6 DEF Destroy
  <2>2. \A a \in Live' : a \in Live /\ heap'[a] = heap[a]
    BY <2>1 DEF Live
  <2>3. Kept
    BY <2>2 DEF Kept
  <2>4. \A i \in DOMAIN functors' : functors'[i].id \in ids
    BY <2>1
  <2> QED
    BY <2>1, <2>3, <2>4, KeptSeq
<1>7. ASSUME Tick \/ (\E by \in Jumps : SetClock(by)) \/ UNCHANGED vars PROVE SeqInv'
  BY <1>k, <1>7 DEF Tick, SetClock, vars
<1> QED
  BY <1>1, <1>2, <1>3, <1>4, <1>5, <1>6, <1>7 DEF Next, LoopStep

(* A queued cancellation owns a Timer that is in use.                      *)
LEMMA CancelsLive ==
  ASSUME TypeOK, CancelsOwn, NEW i \in Cancels
  PROVE  functors[i].id \in TimerId /\ functors[i].id.timer \in Live
<1>1. functors \in Seq(Functors) /\ i \in DOMAIN functors
  BY DEF TypeOK, Functors, Cancels
<1>2. functors[i] \in Functors
  BY <1>1, ElementOfSeq, LenProperties
<1>3. functors[i].id \in TimerId /\ functors[i].id.timer \in Addr
  BY <1>2 DEF Functors, TimerId
<1> QED
  BY <1>3 DEF CancelsOwn, Owns, Live

(* The queue stays and so do the Timers it will cancel.                    *)
LEMMA KeptCareful ==
  ASSUME TypeOK, CarefulInv, careful' = careful, Kept, UNCHANGED <<functors, cancelled>>,
         \A a \in Live : heap[a].interval > 0 => a \in Live'
  PROVE  CarefulInv'
<1> SUFFICES ASSUME careful PROVE (Uncancelled /\ CancelsOwn /\ AddsFirst /\ CancelsDiffer)'
  BY DEF CarefulInv
<1>0. Uncancelled /\ CancelsOwn /\ AddsFirst /\ CancelsDiffer
  BY DEF CarefulInv
<1>1. Cancels' = Cancels /\ Queued' = Queued
  BY DEF Cancels, Queued
<1>2. Uncancelled'
  BY <1>0 DEF Uncancelled, Kept
<1>3. ASSUME NEW i \in Cancels
      PROVE  heap'[functors[i].id.timer] # Free
             /\ heap'[functors[i].id.timer].sequence = functors[i].id.sequence
             /\ heap'[functors[i].id.timer].interval > 0
  <2>1. functors[i].id.timer \in Live
    BY <1>0, <1>3, CancelsLive
  <2>2. Owns(functors[i].id) /\ heap[functors[i].id.timer].interval > 0
    BY <1>0 DEF CancelsOwn
  <2>3. functors[i].id.timer \in Live'
    BY <2>1, <2>2
  <2> QED
    BY <2>2, <2>3 DEF Kept, Owns, Live
<1>4. CancelsOwn'
  BY <1>1, <1>3 DEF CancelsOwn, Owns
<1>5. AddsFirst' /\ CancelsDiffer'
  BY <1>0, <1>1 DEF AddsFirst, CancelsDiffer
<1> QED
  BY <1>2, <1>4, <1>5

(* A new Timer is at an address for which no cancellation waits.           *)
LEMMA AddCareful ==
  ASSUME IInv, SeqInv, CarefulInv, NEW self \in Threads, NEW r \in Requests,
         addTimer(self, r[1], r[2])
  PROVE  CarefulInv'
<1> DEFINE t == [sequence |-> seq + 1, stamp |-> r[1], interval |-> r[2]]
           id(a) == [timer |-> a, sequence |-> seq + 1]
<1>0. TypeOK /\ heap \in [Addr -> Timer \cup {Free}] /\ seq \in Nat /\ cancelled \subseteq Nat
  BY DEF IInv, TypeOK
<1>1. PICK a \in Addr :
        /\ heap[a] = Free /\ heap' = [heap EXCEPT ![a] = t]
        /\ functors' = functors \/ functors' = queueInLoop("add", id(a))
  BY DEF addTimer
<1>2. UNCHANGED <<careful, cancelled>>
  BY DEF addTimer
<1> SUFFICES ASSUME careful PROVE (Uncancelled /\ CancelsOwn /\ AddsFirst /\ CancelsDiffer)'
  BY <1>2 DEF CarefulInv
<1>3. Uncancelled /\ CancelsOwn /\ AddsFirst /\ CancelsDiffer
  BY DEF CarefulInv
<1>4. \A b \in Addr : heap'[b] = IF b = a THEN t ELSE heap[b]
  BY <1>0, <1>1
<1>5. Uncancelled'
  <2>1. heap'[a].sequence = seq + 1
    BY <1>4
  <2>2. seq + 1 \notin cancelled
    BY <1>0 DEF SeqInv
  <2>3. \A b \in Live' : b = a \/ (b \in Live /\ heap'[b] = heap[b])
    BY <1>4 DEF Live
  <2> QED
    BY <1>2, <1>3, <2>1, <2>2, <2>3 DEF Uncancelled
<1>6. \A i \in Cancels : functors[i].id.timer \in Addr /\ functors[i].id.timer # a
  <2>1. \A i \in Cancels : functors[i].id.timer \in Live
    BY <1>0, <1>3, CancelsLive
  <2> QED
    BY <1>1, <2>1 DEF Live
<1>7. /\ \A i \in Cancels' : i \in Cancels /\ functors'[i] = functors[i]
      /\ \A i \in Queued' : \/ i \in Queued /\ functors'[i] = functors[i]
                           \/ functors'[i].id.timer = a
  <2>1. CASE functors' = functors
    BY <2>1 DEF Cancels, Queued
  <2>2. CASE functors' = queueInLoop("add", id(a))
    <3>1. id(a) \in TimerId
      BY <1>0 DEF TimerId
    <3>2. /\ Len(functors) \in Nat /\ DOMAIN functors = 1 .. Len(functors)
          /\ DOMAIN functors' = 1 .. Len(functors) + 1
          /\ \A i \in DOMAIN functors : functors'[i] = functors[i]
          /\ functors'[Len(functors) + 1] = [op |-> "add", id |-> id(a)]
      BY <1>0, <2>2, <3>1, QueueAppended
    <3>3. \A i \in DOMAIN functors' : i \in DOMAIN functors \/ i = Len(functors) + 1
      BY <3>2
    <3>4. functors'[Len(functors) + 1].op = "add" /\ functors'[Len(functors) + 1].id.timer = a
      BY <3>2
    <3> HIDE DEF id
    <3> QED
      BY <3>2, <3>3, <3>4 DEF Cancels, Queued
  <2> QED
    BY <1>1, <2>1, <2>2
<1>8. CancelsOwn'
  <2>1. \A i \in Cancels : heap'[functors[i].id.timer] = heap[functors[i].id.timer]
    BY <1>4, <1>6
  <2> QED
    BY <1>3, <1>7, <2>1 DEF CancelsOwn, Owns
<1>9. AddsFirst' /\ CancelsDiffer'
  BY <1>3, <1>6, <1>7 DEF AddsFirst, CancelsDiffer
<1> QED
  BY <1>5, <1>8, <1>9

(* A cancellation with care is the only one of its Timer.                  *)
LEMMA CancelCareful ==
  ASSUME IInv, SeqInv, CarefulInv, NEW self \in Threads, NEW id \in ids, cancelTimer(self, id)
  PROVE  CarefulInv'
<1>0. /\ TypeOK /\ heap \in [Addr -> Timer \cup {Free}]
      /\ id \in TimerId /\ id.timer \in Addr /\ careful' = careful
  BY DEF IInv, TypeOK, TimerId, cancelTimer, historyVars
<1> SUFFICES ASSUME careful PROVE (Uncancelled /\ CancelsOwn /\ AddsFirst /\ CancelsDiffer)'
  BY <1>0 DEF CarefulInv
<1>1. Uncancelled /\ CancelsOwn /\ AddsFirst /\ CancelsDiffer
  BY DEF CarefulInv
<1>2. /\ id.sequence \notin CancelQueued /\ Owns(id) /\ id.timer \in Live
      /\ self = LoopThread => EntryOf(id.timer) \in timers
      /\ self # LoopThread => heap[id.timer].interval > 0
  BY <1>0 DEF cancelTimer, MayCancel, Owns, Live
<1>3. \A i \in Cancels : functors[i].id.sequence # id.sequence
  BY <1>2 DEF CancelQueued, Cancels
<1>4. CASE self = LoopThread
  <2>1. cancelInLoop(id) /\ functors' = functors
    BY <1>4 DEF cancelTimer
  <2>2. Found(id)
    BY <1>2, <1>4 DEF Found, Owns
  <2>3. heap' = [heap EXCEPT ![id.timer] = Free] /\ cancelled' = cancelled \cup {id.sequence}
    BY <2>1, <2>2 DEF cancelInLoop
  <2>4. \A b \in Addr : heap'[b] = IF b = id.timer THEN Free ELSE heap[b]
    BY <1>0, <2>3
  <2>5. Uncancelled'
    <3>1. \A b \in Live' : b \in Live /\ b # id.timer /\ heap'[b] = heap[b]
      BY <2>4 DEF Live
    <3>2. \A b \in Live : heap[b].sequence = id.sequence => b = id.timer
      BY <1>2 DEF SeqInv, Owns
    <3> QED
      BY <1>1, <2>3, <3>1, <3>2 DEF Uncancelled
  <2>6. \A i \in Cancels : /\ functors[i].id.timer \in Addr
                          /\ functors[i].id.timer # id.timer
    <3>1. \A i \in Cancels : functors[i].id.timer \in Live /\ Owns(functors[i].id)
      BY <1>0, <1>1, CancelsLive DEF CancelsOwn
    <3> QED
      BY <1>2, <1>3, <3>1 DEF Owns, Live
  <2>7. Cancels' = Cancels /\ Queued' = Queued
    BY <2>1 DEF Cancels, Queued
  <2>8. CancelsOwn'
    <3>1. \A i \in Cancels : heap'[functors[i].id.timer] = heap[functors[i].id.timer]
      BY <2>4, <2>6
    <3> QED
      BY <1>1, <2>1, <2>7, <3>1 DEF CancelsOwn, Owns
  <2>9. AddsFirst' /\ CancelsDiffer'
    BY <1>1, <2>1, <2>7 DEF AddsFirst, CancelsDiffer
  <2> QED
    BY <2>5, <2>8, <2>9
<1>5. CASE self # LoopThread
  <2>1. functors' = queueInLoop("cancel", id) /\ UNCHANGED <<heap, cancelled>>
    BY <1>5 DEF cancelTimer
  <2> DEFINE n == Len(functors) + 1
  <2>2. /\ Len(functors) \in Nat /\ DOMAIN functors = 1 .. Len(functors)
        /\ DOMAIN functors' = 1 .. n
        /\ \A i \in DOMAIN functors : functors'[i] = functors[i]
        /\ functors'[n] = [op |-> "cancel", id |-> id]
    BY <1>0, <2>1, QueueAppended
  <2>3. functors'[n].op = "cancel" /\ functors'[n].id = id
    BY <2>2
  <2>4. \A i \in DOMAIN functors' : i \in DOMAIN functors \/ i = n
    BY <2>2
  <2>5. \A i \in DOMAIN functors : i \in Nat /\ i < n
    BY <2>2
  <2> HIDE DEF n
  <2>6. /\ \A i \in Cancels' : (i \in Cancels /\ functors'[i] = functors[i]) \/ i = n
        /\ \A i \in Queued' : i \in Queued /\ functors'[i] = functors[i] /\ i < n
    BY <2>2, <2>3, <2>4, <2>5 DEF Cancels, Queued
  <2>7. Uncancelled'
    BY <1>1, <2>1 DEF Uncancelled, Live
  <2>8. CancelsOwn'
    BY <1>1, <1>2, <1>5, <2>1, <2>3, <2>6 DEF CancelsOwn, Owns
  <2>9. AddsFirst'
    BY <1>1, <2>6 DEF AddsFirst
  <2>10. CancelsDiffer'
    BY <1>1, <1>3, <2>3, <2>6 DEF CancelsDiffer
  <2> QED
    BY <2>7, <2>8, <2>9, <2>10
<1> QED
  BY <1>4, <1>5

(* The functor finds the Timer in the set: no batch is out while functors  *)
(* run, and the functor that inserts it was before.                        *)
LEMMA RunCareful ==
  ASSUME IInv, SeqInv, CarefulInv, RunFunctor
  PROVE  CarefulInv'
<1>0. /\ TypeOK /\ StepInv /\ OwnInv /\ KeyIsStamp /\ heap \in [Addr -> Timer \cup {Free}]
      /\ careful' = careful /\ pc = "functors" /\ batch > 0 /\ functors' = Tail(functors)
  BY DEF IInv, TypeOK, RunFunctor
<1> SUFFICES ASSUME careful PROVE (Uncancelled /\ CancelsOwn /\ AddsFirst /\ CancelsDiffer)'
  BY <1>0 DEF CarefulInv
<1>1. Uncancelled /\ CancelsOwn /\ AddsFirst /\ CancelsDiffer
  BY DEF CarefulInv
<1>2. /\ functors # <<>> /\ Head(functors) \in Functors
      /\ Head(functors) = functors[1] /\ 1 \in DOMAIN functors
  BY <1>0, FirstFunctor
<1>3. /\ Len(functors) \in Nat /\ DOMAIN functors = 1 .. Len(functors)
      /\ DOMAIN functors' = 1 .. Len(functors) - 1
      /\ \A i \in DOMAIN functors' : functors'[i] = functors[i + 1] /\ i + 1 \in DOMAIN functors
  BY <1>0, <1>2, QueueRun
<1>4. \A i \in DOMAIN functors' : i \in Nat /\ i + 1 # 1 /\ i >= 1
  BY <1>3
<1>5. /\ \A i \in Cancels' : i \in Nat /\ i + 1 \in Cancels /\ i + 1 # 1 /\ functors'[i] = functors[i + 1]
      /\ \A i \in Queued' : i \in Nat /\ i + 1 \in Queued /\ functors'[i] = functors[i + 1]
  BY <1>3, <1>4 DEF Cancels, Queued
<1>6. AddsFirst'
  <2>1. \A i \in Queued', j \in Cancels' :
          functors'[i].id.timer = functors'[j].id.timer => i + 1 < j + 1
    BY <1>1, <1>5 DEF AddsFirst
  <2>2. \A i, j \in Nat : i + 1 < j + 1 => i < j
    OBVIOUS
  <2> QED
    BY <1>5, <2>1, <2>2 DEF AddsFirst
<1>7. CancelsDiffer'
  <2>1. \A i, j \in Cancels' :
          functors'[i].id.sequence = functors'[j].id.sequence => i + 1 = j + 1
    BY <1>1, <1>5 DEF CancelsDiffer
  <2>2. \A i, j \in Nat : i + 1 = j + 1 => i = j
    OBVIOUS
  <2> QED
    BY <1>5, <2>1, <2>2 DEF CancelsDiffer
<1> DEFINE id == Head(functors).id
<1>8. CASE Head(functors).op = "add"
  <2>1. UNCHANGED <<heap, cancelled>>
    BY <1>8 DEF RunFunctor
  <2>2. Uncancelled'
    BY <1>1, <2>1 DEF Uncancelled, Live
  <2>3. CancelsOwn'
    BY <1>1, <1>5, <2>1 DEF CancelsOwn, Owns
  <2> QED
    BY <1>6, <1>7, <2>2, <2>3
<1>9. CASE Head(functors).op # "add"
  <2>1. cancelInLoop(id)
    BY <1>9 DEF RunFunctor
  <2>2. 1 \in Cancels /\ functors[1].id = id
    BY <1>2, <1>9 DEF Cancels, Functors
  <2>3. id \in TimerId /\ id.timer \in Live /\ id.timer \in Addr /\ Owns(id)
    BY <1>0, <1>1, <2>2, CancelsLive DEF CancelsOwn, Live
  <2>4. Found(id)
    <3>1. expired = <<>>
      BY <1>0 DEF StepInv
    <3>2. id.timer \notin Expired
      BY <3>1 DEF Expired, Range
    <3>3. id.timer \notin QueuedTimers
      <4>1. \A i \in Queued : functors[i].id.timer # id.timer
        <5>1. \A i \in Queued : i \in Nat /\ i >= 1
          BY <1>3 DEF Queued
        <5> QED
          BY <1>1, <2>2, <5>1 DEF AddsFirst
      <4> QED
        BY <4>1 DEF QueuedTimers
    <3>4. id.timer \in SetTimers
      BY <1>0, <2>3, <3>2, <3>3 DEF OwnInv
    <3>5. PICK e \in timers : e.timer = id.timer
      BY <3>4 DEF SetTimers
    <3>6. e = EntryOf(id.timer)
      <4>1. e \in Entry /\ heap[e.timer].stamp = e.stamp
        BY <1>0 DEF TypeOK, KeyIsStamp
      <4>2. e = [stamp |-> e.stamp, timer |-> e.timer]
        BY <4>1 DEF Entry
      <4> QED
        BY <3>5, <4>1, <4>2 DEF EntryOf
    <3> QED
      BY <2>3, <3>5, <3>6 DEF Found, Live
  <2>5. heap' = [heap EXCEPT ![id.timer] = Free] /\ cancelled' = cancelled \cup {id.sequence}
    BY <2>1, <2>4 DEF cancelInLoop
  <2>6. \A b \in Addr : heap'[b] = IF b = id.timer THEN Free ELSE heap[b]
    BY <1>0, <2>5
  <2>7. Uncancelled'
    <3>1. \A b \in Live' : b \in Live /\ b # id.timer /\ heap'[b] = heap[b]
      BY <2>6 DEF Live
    <3>2. \A b \in Live : heap[b].sequence = id.sequence => b = id.timer
      BY <2>3 DEF SeqInv, Owns
    <3> QED
      BY <1>1, <2>5, <3>1, <3>2 DEF Uncancelled
  <2>8. \A i \in Cancels : i # 1 => functors[i].id.timer \in Addr /\ functors[i].id.timer # id.timer
    <3>1. \A i \in Cancels : functors[i].id.timer \in Live /\ Owns(functors[i].id)
      BY <1>0, <1>1, CancelsLive DEF CancelsOwn
    <3>2. \A i \in Cancels : i # 1 => functors[i].id.sequence # id.sequence
      BY <1>1, <2>2 DEF CancelsDiffer
    <3> QED
      BY <2>3, <3>1, <3>2 DEF Owns, Live
  <2>9. CancelsOwn'
    <3>1. \A i \in Cancels : i # 1 => heap'[functors[i].id.timer] = heap[functors[i].id.timer]
      BY <2>6, <2>8
    <3> QED
      BY <1>1, <1>5, <3>1 DEF CancelsOwn, Owns
  <2> QED
    BY <1>6, <1>7, <2>7, <2>9
<1> QED
  BY <1>8, <1>9

(* No step disturbs this.                                                  *)
LEMMA CarefulStep ==
  ASSUME IInv, SeqInv, CarefulInv, [Next]_vars
  PROVE  CarefulInv'
<1>0. TypeOK /\ StepInv /\ OwnKey
  BY DEF IInv, OwnKey
<1> USE DEF clockVars, fdVars, batchVars, queueVars, historyVars
<1>k. ASSUME UNCHANGED <<careful, heap, functors, cancelled>> PROVE CarefulInv'
  <2>1. Kept /\ \A a \in Live : heap[a].interval > 0 => a \in Live'
    BY <1>k DEF Kept, Live
  <2> QED
    BY <1>0, <1>k, <2>1, KeptCareful
<1>1. ASSUME NEW self \in Threads, NEW r \in Requests, addTimer(self, r[1], r[2])
      PROVE  CarefulInv'
  BY <1>1, AddCareful
<1>2. ASSUME NEW self \in Threads, NEW id \in ids, cancelTimer(self, id)
      PROVE  CarefulInv'
  BY <1>2, CancelCareful
<1>3. CASE EnterLoop \/ Timeout \/ CallbackReturns \/ EndDispatch \/ EndFunctors \/ Poll \/ PollOther
           \/ handleRead
  BY <1>k, <1>3 DEF EnterLoop, Timeout, CallbackReturns, EndDispatch, EndFunctors, Poll,
     PollOther, PollReturns, handleRead
<1>4. CASE reset
  <2>1. UNCHANGED <<careful, functors, cancelled>>
    BY <1>4 DEF reset
  <2>2. Kept /\ \A a \in Live : heap[a].interval > 0 => a \in Live'
    BY <1>0, <1>4, ResetKeeps
  <2> QED
    BY <1>0, <2>1, <2>2, KeptCareful
<1>5. CASE RunFunctor
  BY <1>5, RunCareful
<1>6. CASE Destroy
  <2>1. /\ UNCHANGED <<careful, cancelled>> /\ functors' = <<>>
        /\ heap' = [a \in Addr |-> IF \E e \in timers : e.timer = a THEN Free ELSE heap[a]]
    BY <1>6 DEF Destroy
  <2>2. \A a \in Live' : a \in Live /\ heap'[a] = heap[a]
    BY <2>1 DEF Live
  <2>3. careful => Uncancelled'
    BY <2>1, <2>2 DEF CarefulInv, Uncancelled
  <2>4. Cancels' = {} /\ Queued' = {}
    BY <2>1 DEF Cancels, Queued
  <2> QED
    BY <2>1, <2>3, <2>4 DEF CarefulInv, CancelsOwn, AddsFirst, CancelsDiffer
<1>7. ASSUME Tick \/ (\E by \in Jumps : SetClock(by)) \/ UNCHANGED vars PROVE CarefulInv'
  BY <1>k, <1>7 DEF Tick, SetClock, vars
<1> QED
  BY <1>1, <1>2, <1>3, <1>4, <1>5, <1>6, <1>7 DEF Next, LoopStep

(* What the proofs about cancellation need.                                *)
CancelInv == IInv /\ SeqInv /\ CarefulInv

LEMMA CancelInvHolds == SafeSpec => []CancelInv
<1>1. Init => SeqInv /\ CarefulInv
  <2> SUFFICES ASSUME Init PROVE SeqInv /\ CarefulInv
    OBVIOUS
  <2>1. Live = {} /\ DOMAIN functors = {} /\ ids = {} /\ cancelled = {}
    BY DEF Init, Live
  <2>2. Cancels = {} /\ Queued = {}
    BY <2>1 DEF Cancels, Queued
  <2> QED
    BY <2>1, <2>2 DEF SeqInv, CarefulInv, Uncancelled, CancelsOwn, AddsFirst, CancelsDiffer
<1>2. IInv /\ SeqInv /\ CarefulInv /\ [Next]_vars => SeqInv' /\ CarefulInv'
  BY SeqStep, CarefulStep
<1> QED
  BY <1>1, <1>2, IInvHolds, PTL DEF SafeSpec, CancelInv

(* For callers that cancel a timer once and while it is there, cancelTimer *)
(* is the last word: no cancelled timer is in the set or put back into it, *)
(* in whatever order the functors of other threads and the expirations     *)
(* come (cancelInLoop and reset in src/src/TimerQueue.cc).                 *)
THEOREM CarefulCancelLasts == SafeSpec => []CarefulCancelIsFinal
<1>1. CancelInv => CarefulCancelIsFinal
  <2> SUFFICES ASSUME CancelInv, careful, NEW e \in timers
               PROVE  heap[e.timer].sequence \notin cancelled
    BY DEF CarefulCancelIsFinal, CancelledNotRestarted
  <2>1. e.timer \in Live
    BY DEF CancelInv, IInv, TypeOK, Entry, KeyIsStamp, Live
  <2> QED
    BY <2>1 DEF CancelInv, CarefulInv, Uncancelled
<1> QED
  BY <1>1, CancelInvHolds, PTL

(* No step takes out another timer than the one that was meant.            *)
LEMMA CancelsItsOwn ==
  ASSUME CancelInv, careful, [Next]_vars
  PROVE  OwnCancelOnly
<1> USE DEF clockVars, fdVars, batchVars, queueVars, historyVars
<1>0. TypeOK /\ StepInv /\ CancelsOwn
  BY DEF CancelInv, IInv, CarefulInv
<1>k. ASSUME timers \subseteq timers' PROVE OwnCancelOnly
  BY <1>k DEF OwnCancelOnly
<1>c. ASSUME NEW id \in TimerId, Owns(id), cancelInLoop(id) PROVE OwnCancelOnly
  <2>1. \A e \in timers : e \notin timers' => e = EntryOf(id.timer)
    BY <1>c DEF cancelInLoop
  <2>2. EntryOf(id.timer).timer = id.timer
    BY DEF EntryOf
  <2>3. heap[id.timer].sequence \in cancelled'
    BY <1>c DEF cancelInLoop, Owns
  <2> QED
    BY <2>1, <2>2, <2>3 DEF OwnCancelOnly
<1>1. ASSUME NEW self \in Threads, NEW r \in Requests, addTimer(self, r[1], r[2])
      PROVE  OwnCancelOnly
  BY <1>k, <1>1 DEF addTimer, addTimerInLoop
<1>2. ASSUME NEW self \in Threads, NEW id \in ids, cancelTimer(self, id)
      PROVE  OwnCancelOnly
  <2>1. id \in TimerId /\ Owns(id)
    BY <1>0, <1>2 DEF TypeOK, cancelTimer, MayCancel
  <2>2. CASE self = LoopThread
    BY <1>2, <1>c, <2>1, <2>2 DEF cancelTimer
  <2>3. CASE self # LoopThread
    BY <1>2, <1>k, <2>3 DEF cancelTimer
  <2> QED
    BY <2>2, <2>3
<1>3. CASE EnterLoop \/ Timeout \/ CallbackReturns \/ EndDispatch \/ EndFunctors \/ Poll \/ PollOther
  BY <1>k, <1>3 DEF EnterLoop, Timeout, CallbackReturns, EndDispatch, EndFunctors, Poll,
     PollOther, PollReturns
<1>4. CASE reset
  BY <1>k, <1>4 DEF reset
<1>5. CASE RunFunctor
  <2>1. pc = "functors" /\ batch > 0
    BY <1>5 DEF RunFunctor
  <2>2. Head(functors) \in Functors /\ Head(functors) = functors[1] /\ 1 \in DOMAIN functors
    BY <1>0, <2>1, FirstFunctor
  <2>3. CASE Head(functors).op = "add"
    BY <1>5, <1>k, <2>3 DEF RunFunctor, addTimerInLoop
  <2>4. CASE Head(functors).op # "add"
    <3>1. 1 \in Cancels /\ Head(functors).id \in TimerId
      BY <2>2, <2>4 DEF Cancels, Functors
    <3>2. Owns(Head(functors).id)
      BY <1>0, <2>2, <3>1 DEF CancelsOwn
    <3>3. cancelInLoop(Head(functors).id)
      BY <1>5, <2>4 DEF RunFunctor
    <3> QED
      BY <1>c, <3>1, <3>2, <3>3
  <2> QED
    BY <2>3, <2>4
<1>6. CASE handleRead \/ Destroy
  BY <1>6 DEF handleRead, Destroy, OwnCancelOnly
<1>7. ASSUME Tick \/ (\E by \in Jumps : SetClock(by)) \/ UNCHANGED vars PROVE OwnCancelOnly
  BY <1>k, <1>7 DEF Tick, SetClock, vars
<1> QED
  BY <1>1, <1>2, <1>3, <1>4, <1>5, <1>6, <1>7 DEF Next, LoopStep

(* For such callers a timer leaves the set only to fire, by its own        *)
(* cancellation, or with the loop: none falls victim to the cancellation   *)
(* of a timer that had its address before, though cancelInLoop compares    *)
(* addresses and not sequence numbers (src/src/TimerQueue.cc).             *)
THEOREM CarefulCancelSparesOthers == SafeSpec => CarefulCancelHits
<1>1. CancelInv /\ [Next]_vars => [careful => OwnCancelOnly]_vars
  BY CancelsItsOwn
<1> QED
  BY <1>1, CancelInvHolds, PTL DEF SafeSpec, CarefulCancelHits
=============================================================================
