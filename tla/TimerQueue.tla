----------------------------- MODULE TimerQueue ------------------------------
(***************************************************************************)
(* The timers of one EventLoop: src/src/TimerQueue.cc, src/include/Timer.h *)
(*                                                                         *)
(* A Timer is an object on the heap; _pTimers is a set of entries, a stamp *)
(* and a pointer to the Timer, ordered by stamp; one timerfd is armed for  *)
(* its earliest entry.                                                     *)
(* Stamps come from the wall clock, which can be set; the timerfd counts   *)
(* on the monotonic clock.  A tick is the 100 microseconds that            *)
(* howMuchTimeFromNow waits at least.                                      *)
(*                                                                         *)
(* addTimer and cancelTimer run in the calling thread when it is the loop  *)
(* thread and are queued as functors otherwise.  The queue of functors is  *)
(* the abstract one of module TaskQueue: first in, first out.              *)
(***************************************************************************)
EXTENDS Integers, Sequences, FiniteSets, Functions

CONSTANTS
  LoopThread, Others,   \* the loop thread and the other threads that call
  Addr,                 \* the addresses of Timer objects; free ones are reused
  Free,                 \* what the heap holds at an address that is not in use
  Stamps,               \* the instants runAt is given
  Intervals,            \* the intervals runEvery is given
  Jumps,                \* by how much the wall clock may be set
  Callers,              \* the values careful may have
  MaxTimers,            \* bound: how many timers are created in a run
  MaxTime,              \* bound: the wall clock stops here
  MaxJumps              \* bound: how often the wall clock is set

Threads == Others \cup {LoopThread}

ASSUME ThreadsAssumption == LoopThread \notin Others
Entry == [stamp : Nat, timer : Addr]
TimerId == [timer : Addr, sequence : Nat]
Timer == [sequence : Nat, stamp : Nat, interval : Nat]

ASSUME HeapAssumption == IsFiniteSet(Addr) /\ Free \notin Timer
ASSUME TimeAssumption ==
  /\ Stamps \subseteq Nat
  /\ Intervals \subseteq Nat \ {0}
  /\ Jumps \subseteq Int
  /\ MaxTime \in Nat \ {0} /\ MaxTimers \in Nat /\ MaxJumps \in Nat
ASSUME CallersAssumption == Callers \subseteq BOOLEAN

VARIABLES
  careful,    \* do callers cancel only timers that are still scheduled?
  now,        \* the wall clock, gettimeofday
  jumps,      \* how often it was set
  pc,         \* where the loop thread is
  heap,       \* the Timer objects, by address
  seq,        \* the global counter of Timer.h
  timers,     \* _pTimers
  expired,    \* the list getExpired returned
  next,       \* the index in expired of the timer whose turn it is
  left,       \* ticks until the timerfd expires, 0 when it is disarmed
  readable,   \* has the timerfd expired since it was set or read?
  reported,   \* is the timerfd's event among those epoll_wait returned?
  functors,   \* the queued addTimerInLoop and cancelInLoop
  batch,      \* how many of them doPendingFunctors has still to run
  ids,        \* the TimerIds the callers hold
  cancelled   \* the sequence numbers for which cancelInLoop has run

clockVars == <<now, jumps>>
fdVars == <<left, readable, reported>>
batchVars == <<expired, next>>
queueVars == <<functors, batch>>
historyVars == <<careful, ids, cancelled>>
vars == <<clockVars, pc, heap, seq, timers, batchVars, fdVars, queueVars, historyVars>>

TypeOK ==
  /\ careful \in Callers
  /\ now \in Nat \ {0}
  /\ jumps \in Nat
  /\ pc \in {"setup", "poll", "dispatch", "callback", "calling", "functors", "destroyed"}
  /\ heap \in [Addr -> Timer \cup {Free}]
  /\ seq \in Nat
  /\ timers \subseteq Entry
  /\ expired \in Seq(Entry)
  /\ next \in Nat \ {0}
  /\ left \in Nat
  /\ readable \in BOOLEAN /\ reported \in BOOLEAN
  /\ functors \in Seq([op : {"add", "cancel"}, id : TimerId])
  /\ batch \in Nat
  /\ ids \subseteq TimerId
  /\ cancelled \subseteq Nat

Init ==
  /\ careful \in Callers
  /\ now = 1 /\ jumps = 0
  /\ pc = "setup"
  /\ heap = [a \in Addr |-> Free]
  /\ seq = 0
  /\ timers = {}
  /\ expired = <<>> /\ next = 1
  /\ left = 0 /\ readable = FALSE /\ reported = FALSE
  /\ functors = <<>> /\ batch = 0
  /\ ids = {} /\ cancelled = {}

-----------------------------------------------------------------------------
(* The timerfd and the ordered set.                                        *)

(* Mutant: the delay has no lower bound.                                   *)
ExactTimeFromNow(when) == when - now

howMuchTimeFromNow(when) == IF when - now < 1 THEN 1 ELSE when - now

(* timerfd_settime also forgets an expiration that was not read yet.       *)
resetTimerfd(stamp) ==
  /\ left' = howMuchTimeFromNow(stamp)
  /\ readable' = FALSE

EntryOf(a) == [stamp |-> heap[a].stamp, timer |-> a]

(* Mutant: only the first timer of an empty set arms the timerfd.          *)
OnlyTimerSoFar(when) == timers = {}

(* insert's result: is the new stamp before every other?                   *)
EarliestChanged(when) == \A e \in timers : when < e.stamp

(* The stamp of _pTimers.begin().                                          *)
EarliestOf(entries) == CHOOSE s \in {e.stamp : e \in entries} :
                         \A e \in entries : s <= e.stamp

addTimerInLoop(a, when) ==
  /\ timers' = timers \cup {[stamp |-> when, timer |-> a]}
  /\ IF EarliestChanged(when) THEN resetTimerfd(when) ELSE UNCHANGED <<left, readable>>

(* Is the timer at the address of the id in _pTimers?  The sequence number *)
(* of the id is not looked at.  Freed memory is read when the address is   *)
(* not in use, and no entry has that address.                              *)
Found(id) == heap[id.timer] # Free /\ EntryOf(id.timer) \in timers

(* Mutant: the set is searched by stamp alone.                             *)
CancelByStamp(id) ==
  /\ IF Found(id)
     THEN \E e \in {f \in timers : f.stamp = heap[id.timer].stamp} :
            /\ timers' = timers \ {e}
            /\ heap' = [heap EXCEPT ![e.timer] = Free]
     ELSE UNCHANGED <<timers, heap>>
  /\ cancelled' = cancelled \cup {id.sequence}

cancelInLoop(id) ==
  /\ IF Found(id)
     THEN /\ timers' = timers \ {EntryOf(id.timer)}
          /\ heap' = [heap EXCEPT ![id.timer] = Free]
     ELSE UNCHANGED <<timers, heap>>
  /\ cancelled' = cancelled \cup {id.sequence}

-----------------------------------------------------------------------------
(* Calls from the threads.                                                 *)

(* The loop thread runs the user's code before loop(), in the handlers of  *)
(* other channels, in the callbacks of timers and in the user's functors,  *)
(* which stand between those of the timers.                                *)
UserCode(self) ==
  \/ self \in Others /\ pc # "destroyed"
  \/ self = LoopThread /\ pc \in {"setup", "dispatch", "calling", "functors"}

(* Mutant: a functor is queued before those that wait.                     *)
QueueFirst(op, id) == <<[op |-> op, id |-> id]>> \o functors

(* queueInLoop, for another thread than the loop's.                        *)
queueInLoop(op, id) == Append(functors, [op |-> op, id |-> id])

(* runAt, and runAfter, with an interval of 0; runEvery otherwise.         *)
Requests == {<<when, 0>> : when \in Stamps} \cup {<<now + i, i>> : i \in Intervals}

(* The number of the id is taken here with the Timer.  The code reads it   *)
(* after it has queued the functor, from a Timer that may have fired and   *)
(* been deleted by then; no code ever compares it.                         *)
addTimer(self, when, interval) ==
  /\ UserCode(self)
  /\ seq < MaxTimers
  /\ seq' = seq + 1
  /\ \E a \in Addr :
       /\ heap[a] = Free
       /\ heap' = [heap EXCEPT ![a] =
                     [sequence |-> seq + 1, stamp |-> when, interval |-> interval]]
       /\ LET id == [timer |-> a, sequence |-> seq + 1] IN
          /\ ids' = ids \cup {id}
          /\ IF self = LoopThread
             THEN addTimerInLoop(a, when) /\ UNCHANGED functors
             ELSE /\ functors' = queueInLoop("add", id)
                  /\ UNCHANGED <<timers, left, readable>>
  /\ UNCHANGED <<clockVars, pc, batchVars, reported, batch, careful, cancelled>>

CancelQueued == {functors[i].id.sequence :
                   i \in {j \in DOMAIN functors : functors[j].op = "cancel"}}

(* The timer of the id itself, and no later one at its address.            *)
Owns(id) == heap[id.timer] # Free /\ heap[id.timer].sequence = id.sequence

(* A careful caller cancels a timer once, from the loop thread only while  *)
(* it is scheduled, and from another thread only if it repeats, for a      *)
(* one-shot timer may be deleted before the functor runs.                  *)
MayCancel(self, id) ==
  careful => /\ id.sequence \notin cancelled \cup CancelQueued
             /\ Owns(id)
             /\ IF self = LoopThread THEN EntryOf(id.timer) \in timers
                                     ELSE heap[id.timer].interval > 0

cancelTimer(self, id) ==
  /\ UserCode(self)
  /\ self = LoopThread \/ id.sequence \notin CancelQueued   \* bound
  /\ MayCancel(self, id)
  /\ IF self = LoopThread
     THEN cancelInLoop(id) /\ UNCHANGED functors
     ELSE /\ functors' = queueInLoop("cancel", id)
          /\ UNCHANGED <<timers, heap, cancelled>>
  /\ UNCHANGED <<clockVars, pc, seq, batchVars, fdVars, batch, careful, ids>>

-----------------------------------------------------------------------------
(* The loop thread.                                                        *)

EnterLoop ==
  /\ pc = "setup"
  /\ pc' = "poll"
  /\ UNCHANGED <<clockVars, heap, seq, timers, batchVars, fdVars, queueVars, historyVars>>

(* epoll_wait returns.                                                     *)
PollReturns ==
  /\ pc = "poll"
  /\ pc' = "dispatch"
  /\ reported' = readable
  /\ UNCHANGED <<clockVars, heap, seq, timers, batchVars, left, readable, queueVars,
                 historyVars>>

(* It has to when the timerfd, or the eventfd of queueInLoop, is readable. *)
Poll == (readable \/ functors # <<>>) /\ PollReturns

(* The event of another descriptor.                                        *)
PollOther == PollReturns

DueEntries == {e \in timers : e.stamp <= now}

(* The entries in the order of the set: by stamp, then by address.         *)
Sorted(entries) ==
  {s \in [1 .. Cardinality(entries) -> entries] :
     /\ IsInjective(s)
     /\ \A i, j \in DOMAIN s : i < j => s[i].stamp <= s[j].stamp}

(* handleRead up to the first callback: the timerfd is drained, or found   *)
(* empty when it was reset since epoll_wait returned, and getExpired takes *)
(* the due entries out of the set.                                         *)
handleRead ==
  /\ pc = "dispatch"
  /\ reported
  /\ reported' = FALSE
  /\ readable' = FALSE
  /\ expired' \in Sorted(DueEntries)
  /\ timers' = timers \ DueEntries
  /\ next' = 1
  /\ pc' = "callback"
  /\ UNCHANGED <<clockVars, heap, seq, left, queueVars, historyVars>>

(* timeout() of the next timer.                                            *)
Timeout ==
  /\ pc = "callback"
  /\ next <= Len(expired)
  /\ pc' = "calling"
  /\ UNCHANGED <<clockVars, heap, seq, timers, batchVars, fdVars, queueVars, historyVars>>

CallbackReturns ==
  /\ pc = "calling"
  /\ next' = next + 1
  /\ pc' = "callback"
  /\ UNCHANGED <<clockVars, heap, seq, timers, expired, fdVars, queueVars, historyVars>>

Expired == {e.timer : e \in Range(expired)}
isRepeat(a) == heap[a].interval > 0

(* Mutant: a timer is inserted before it is restarted.                     *)
RestartedAfterInsert == {EntryOf(a) : a \in {b \in Expired : isRepeat(b)}}

Restarted == {[stamp |-> now + heap[a].interval, timer |-> a] :
              a \in {b \in Expired : isRepeat(b)}}

(* Mutant: the one-shot timers of the batch are not deleted.               *)
KeptAfterReset(a) ==
  IF a \in Expired /\ isRepeat(a)
  THEN [heap[a] EXCEPT !.stamp = now + heap[a].interval] ELSE heap[a]

AfterReset(a) ==
  IF a \notin Expired THEN heap[a]
  ELSE IF isRepeat(a) THEN [heap[a] EXCEPT !.stamp = now + heap[a].interval]
  ELSE Free

(* Mutant: the timerfd is armed again only after a timer has fired.        *)
ValidAfterExpiry(entries) == expired # <<>> /\ entries # {} /\ EarliestOf(entries) > 0

NextExpireValid(entries) == entries # {} /\ EarliestOf(entries) > 0

(* reset: the repeating timers of the batch are inserted again, the others *)
(* are deleted, and the timerfd is set for the earliest entry, unless      *)
(* there is none or its stamp is not valid.                                *)
reset ==
  /\ pc = "callback"
  /\ next > Len(expired)
  /\ heap' = [a \in Addr |-> AfterReset(a)]
  /\ timers' = timers \cup Restarted
  /\ IF NextExpireValid(timers')
     THEN resetTimerfd(EarliestOf(timers'))
     ELSE UNCHANGED <<left, readable>>
  /\ expired' = <<>>
  /\ next' = 1
  /\ pc' = "dispatch"
  /\ UNCHANGED <<clockVars, seq, reported, queueVars, historyVars>>

(* All events are handled: doPendingFunctors takes the functors.           *)
EndDispatch ==
  /\ pc = "dispatch"
  /\ ~reported
  /\ pc' = "functors"
  /\ batch' = Len(functors)
  /\ UNCHANGED <<clockVars, heap, seq, timers, batchVars, fdVars, functors, historyVars>>

RunFunctor ==
  /\ pc = "functors"
  /\ batch > 0
  /\ batch' = batch - 1
  /\ functors' = Tail(functors)
  /\ LET id == Head(functors).id IN
     IF Head(functors).op = "add"
     THEN addTimerInLoop(id.timer, heap[id.timer].stamp) /\ UNCHANGED <<heap, cancelled>>
     ELSE cancelInLoop(id) /\ UNCHANGED <<left, readable>>
  /\ UNCHANGED <<clockVars, pc, seq, batchVars, reported, careful, ids>>

EndFunctors ==
  /\ pc = "functors"
  /\ batch = 0
  /\ pc' = "poll"
  /\ UNCHANGED <<clockVars, heap, seq, timers, batchVars, fdVars, queueVars, historyVars>>

(* loop() has returned and the EventLoop is destroyed, when no other       *)
(* thread uses it any more: the timers of the set are deleted and the      *)
(* functors dropped.                                                       *)
Destroy ==
  /\ pc = "poll"
  /\ pc' = "destroyed"
  /\ heap' = [a \in Addr |-> IF \E e \in timers : e.timer = a THEN Free ELSE heap[a]]
  /\ timers' = {}
  /\ functors' = <<>>
  /\ left' = 0 /\ readable' = FALSE
  /\ UNCHANGED <<clockVars, seq, batchVars, reported, batch, historyVars>>

LoopStep ==
  \/ EnterLoop
  \/ Poll
  \/ handleRead
  \/ Timeout
  \/ CallbackReturns
  \/ reset
  \/ EndDispatch
  \/ RunFunctor
  \/ EndFunctors

-----------------------------------------------------------------------------
(* Time.                                                                   *)

Tick ==
  /\ now' = IF now < MaxTime THEN now + 1 ELSE now
  /\ left' = IF left > 0 THEN left - 1 ELSE 0
  /\ readable' = (readable \/ left = 1)
  /\ UNCHANGED <<jumps, pc, heap, seq, timers, batchVars, reported, queueVars, historyVars>>

(* The wall clock is set; the timerfd keeps counting.                      *)
SetClock(by) ==
  /\ jumps < MaxJumps
  /\ now + by \in 1 .. MaxTime
  /\ now' = now + by
  /\ jumps' = jumps + 1
  /\ UNCHANGED <<pc, heap, seq, timers, batchVars, fdVars, queueVars, historyVars>>

Next ==
  \/ \E self \in Threads, r \in Requests : addTimer(self, r[1], r[2])
  \/ \E self \in Threads, id \in ids : cancelTimer(self, id)
  \/ LoopStep
  \/ PollOther
  \/ Destroy
  \/ Tick
  \/ \E by \in Jumps : SetClock(by)

(* The loop thread runs and time passes.                                   *)
SafeSpec == Init /\ [][Next]_vars
Spec == SafeSpec /\ WF_vars(LoopStep) /\ WF_vars(Tick)

-----------------------------------------------------------------------------
(* Properties.                                                             *)

Live == {a \in Addr : heap[a] # Free}
Queued == {i \in DOMAIN functors : functors[i].op = "add"}

(* Every Timer object has exactly one owner: the functor that will insert  *)
(* it, the set, or the batch of expired timers.  So none is leaked, and    *)
(* none is deleted twice or deleted while one of them still points to it.  *)
OneOwner ==
  pc # "destroyed" =>
    /\ Live = {functors[i].id.timer : i \in Queued} \cup {e.timer : e \in timers} \cup Expired
    /\ Cardinality(Live) = Cardinality(Queued) + Cardinality(timers) + Len(expired)

(* The key of an entry is the stamp of its timer: find() in cancelInLoop   *)
(* builds the key from the timer and must meet the entry.                  *)
KeyIsStamp == \A e \in timers : heap[e.timer] # Free /\ heap[e.timer].stamp = e.stamp

(* While no batch is out, the timerfd expires no later than the earliest   *)
(* timer is due, as long as the wall clock is not set forward.             *)
ArmedForEarliest ==
  (pc \in {"setup", "poll", "dispatch", "functors"} /\ timers # {}) =>
    \/ readable
    \/ reported
    \/ left > 0 /\ left <= howMuchTimeFromNow(EarliestOf(timers))

(* Each due time of a timer is consumed: by its callback, a cancellation   *)
(* or the end of the loop.  Those after MaxTime never come.                *)
TimersExpire ==
  \A a \in Addr, v \in 0 .. MaxTime :
    (heap[a] # Free /\ heap[a].stamp = v) ~>
      (heap[a] = Free \/ heap[a].stamp # v \/ pc = "destroyed")

(* cancelInLoop is the last word: a cancelled timer is not in the set, nor *)
(* put back into it by the reset that ends a batch.                        *)
CancelledNotRestarted ==
  \A e \in timers : heap[e.timer].sequence \notin cancelled

(* It is for careful callers, whatever thread they call from: then neither *)
(* a functor overtakes another nor does a batch hide the timer.            *)
CarefulCancelIsFinal == careful => CancelledNotRestarted

(* A timer leaves the set, other than to fire, only when cancelTimer was   *)
(* given its own TimerId.                                                  *)
OwnCancelOnly ==
  \A e \in timers :
    (e \notin timers' /\ pc' \notin {"callback", "destroyed"})
      => heap[e.timer].sequence \in cancelled'

CancelHitsItsTimer == [][OwnCancelOnly]_vars

(* So it is for careful callers: no timer falls victim to the cancellation *)
(* of one that had its address before.                                     *)
CarefulCancelHits == [][careful => OwnCancelOnly]_vars

=============================================================================
