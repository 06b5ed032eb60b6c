------------------------------ MODULE EventLoop ------------------------------
(***************************************************************************)
(* One EventLoop (src/src/EventLoop.cc): the thread that built it runs     *)
(* loop(), which alternates epoll_wait, the handlers of the ready channels *)
(* and the functors queued in _pendingFunctors.  Any thread may call       *)
(* queueInLoop, runInLoop and quit.  A thread blocked in epoll_wait is     *)
(* woken up by a write to the eventfd, which queueInLoop makes only when   *)
(* it is needed: not when the caller is the loop thread outside            *)
(* doPendingFunctors, since that thread is about to call it.               *)
(*                                                                         *)
(* _pendingFunctors is only touched under _mutex, and each critical        *)
(* section is a single push_back or swap, so each is one step here.        *)
(***************************************************************************)
EXTENDS Integers, Sequences, FiniteSets, Functions

CONSTANTS
  LoopThread,   \* the thread that built the EventLoop: _threadId
  Others,       \* the other threads that call into the loop
  Task,         \* the functors handed over, each of them once
  SetupTasks,   \* those the loop thread may queue before it calls loop()
  Channels,     \* the channels registered with the loop, the eventfd's excepted
  EfdChannel,   \* _pEventfdChannel
  MaxEvents,    \* MAX_EVENTS: how many events epoll_wait returns at most
  EventfdMax    \* the largest count an eventfd holds

Threads == Others \cup {LoopThread}

ASSUME ThreadsAssumption == LoopThread \notin Others
ASSUME SetupAssumption == SetupTasks \subseteq Task
ASSUME ChannelsAssumption == EfdChannel \notin Channels
ASSUME EventsAssumption == MaxEvents \in Nat \ {0}
ASSUME EventfdAssumption == EventfdMax \in Nat \ {0}

VARIABLES
  pc,                     \* where the loop thread is
  quit,                   \* _quit
  callingPendingFunctors, \* _callingPendingFunctors
  pendingFunctors,        \* _pendingFunctors
  tempRuns,               \* what is left of doPendingFunctors's tempRuns; the
                          \* head is the functor being executed
  activeChannels,         \* what is left of loop's activeChannels; the head is
                          \* the channel whose event is being handled
  eventfd,                \* the count of _eventfd
  waking,                 \* the threads about to write to _eventfd
  ready,                  \* the channels whose descriptor is ready
  queued,                 \* every functor queueInLoop accepted, in order
  done,                   \* the queued functors that have returned, in order
  ranNow                  \* the functors runInLoop called directly

loopVars == <<pc, tempRuns, activeChannels, callingPendingFunctors>>
queueVars == <<pendingFunctors, queued, done, ranNow>>
vars == <<pc, quit, callingPendingFunctors, pendingFunctors, tempRuns,
          activeChannels, eventfd, waking, ready, queued, done, ranNow>>

TypeOK ==
  /\ pc \in {"setup", "test", "poll", "dispatch", "run", "exited"}
  /\ quit \in BOOLEAN
  /\ callingPendingFunctors \in BOOLEAN
  /\ pendingFunctors \in Seq(Task)
  /\ tempRuns \in Seq(Task)
  /\ activeChannels \in Seq(Channels \cup {EfdChannel})
  /\ eventfd \in 0 .. EventfdMax
  /\ waking \subseteq Threads
  /\ ready \subseteq Channels
  /\ queued \in Seq(Task)
  /\ done \in Seq(Task)
  /\ ranNow \subseteq Task

Init ==
  /\ pc = "setup"
  /\ quit = FALSE
  /\ callingPendingFunctors = FALSE
  /\ pendingFunctors = <<>>
  /\ tempRuns = <<>>
  /\ activeChannels = <<>>
  /\ eventfd = 0
  /\ waking = {}
  /\ ready = {}
  /\ queued = <<>>
  /\ done = <<>>
  /\ ranNow = {}

-----------------------------------------------------------------------------
(* Calls into the loop, from any thread.                                   *)

(* The loop thread runs the user's code before and after loop(), in the    *)
(* handler of a channel of the user and in a functor; the other threads    *)
(* always do.                                                              *)
UserCode(self) ==
  /\ self \notin waking
  /\ \/ self \in Others
     \/ /\ self = LoopThread
        /\ \/ pc = "setup"
           \/ pc = "dispatch" /\ activeChannels # <<>>
                              /\ Head(activeChannels) # EfdChannel
           \/ pc = "run" /\ tempRuns # <<>>
           \/ pc = "exited"

Fresh(t) == t \notin Range(queued) \cup ranNow

isInLoopThread(self) == self = LoopThread

(* Mutant: the flag of doPendingFunctors is not consulted.                 *)
WakesFromOthersOnly(self) == ~isInLoopThread(self)

(* The condition under which queueInLoop calls wakeup().                   *)
NeedsWakeup(self) == ~isInLoopThread(self) \/ callingPendingFunctors

(* queueInLoop up to its call of wakeup(): push_back under the lock.       *)
queueInLoop(self, t) ==
  /\ UserCode(self)
  /\ Fresh(t)
  /\ (pc = "setup" /\ isInLoopThread(self)) => t \in SetupTasks
  /\ pendingFunctors' = Append(pendingFunctors, t)
  /\ queued' = Append(queued, t)
  /\ waking' = IF NeedsWakeup(self) THEN waking \cup {self} ELSE waking
  /\ UNCHANGED <<loopVars, quit, eventfd, ready, done, ranNow>>

(* runInLoop in the loop thread: the functor runs inside the call.  In     *)
(* another thread runInLoop is queueInLoop.                                *)
RunNow(t) ==
  /\ UserCode(LoopThread)
  /\ Fresh(t)
  /\ ranNow' = ranNow \cup {t}
  /\ UNCHANGED <<loopVars, quit, pendingFunctors, queued, done, eventfd,
                 waking, ready>>

runInLoop(self, t) ==
  IF isInLoopThread(self) THEN RunNow(t) ELSE queueInLoop(self, t)

(* Mutant: quit() does not wake the loop up.                               *)
QuitSilently(self) ==
  /\ UserCode(self)
  /\ quit' = TRUE
  /\ UNCHANGED <<loopVars, queueVars, eventfd, waking, ready>>

(* quit up to its call of wakeup(): the store to _quit.                    *)
QuitLoop(self) ==
  /\ UserCode(self)
  /\ quit' = TRUE
  /\ waking' = IF isInLoopThread(self) THEN waking ELSE waking \cup {self}
  /\ UNCHANGED <<loopVars, queueVars, eventfd, ready>>

(* The write of 1 to the eventfd.  It is non-blocking: at the largest      *)
(* count the write fails, which wakeup() only logs.                        *)
wakeup(self) ==
  /\ self \in waking
  /\ eventfd' = IF eventfd < EventfdMax THEN eventfd + 1 ELSE eventfd
  /\ waking' = waking \ {self}
  /\ UNCHANGED <<loopVars, queueVars, quit, ready>>

-----------------------------------------------------------------------------
(* loop(), in the loop thread.                                             *)

(* The loop thread is between two calls into the loop object.              *)
AtPc(label) == pc = label /\ LoopThread \notin waking

EnterLoop ==
  /\ AtPc("setup")
  /\ pc' = "test"
  /\ UNCHANGED <<quit, callingPendingFunctors, tempRuns, activeChannels,
                 queueVars, eventfd, waking, ready>>

(* while(!_quit)                                                           *)
TestQuit ==
  /\ AtPc("test")
  /\ pc' = IF quit THEN "exited" ELSE "poll"
  /\ UNCHANGED <<quit, callingPendingFunctors, tempRuns, activeChannels,
                 queueVars, eventfd, waking, ready>>

ReadyChannels == ready \cup (IF eventfd > 0 THEN {EfdChannel} ELSE {})

(* The lists epoll_wait may fill in: at most MaxEvents ready descriptors,  *)
(* in an order that is the kernel's.                                       *)
EventLists ==
  UNION { {s \in [1 .. n -> ReadyChannels] : IsInjective(s)} :
          n \in {k \in 1 .. Cardinality(ReadyChannels) : k <= MaxEvents} }

(* epoll_wait returns: it blocks, without a timeout, until some descriptor *)
(* is ready.                                                               *)
Poll ==
  /\ AtPc("poll")
  /\ activeChannels' \in EventLists
  /\ pc' = "dispatch"
  /\ UNCHANGED <<quit, callingPendingFunctors, tempRuns, queueVars, eventfd,
                 waking, ready>>

(* epoll_wait returns -1, as when a signal interrupts it: no channel is    *)
(* active and loop() goes on.                                              *)
PollError ==
  /\ AtPc("poll")
  /\ activeChannels' = <<>>
  /\ pc' = "dispatch"
  /\ UNCHANGED <<quit, callingPendingFunctors, tempRuns, queueVars, eventfd,
                 waking, ready>>

(* handleEvent of the eventfd's channel: EventLoop::handleRead.            *)
HandleWakeup ==
  /\ AtPc("dispatch")
  /\ activeChannels # <<>>
  /\ Head(activeChannels) = EfdChannel
  /\ eventfd' = 0
  /\ activeChannels' = Tail(activeChannels)
  /\ UNCHANGED <<pc, quit, callingPendingFunctors, tempRuns, queueVars,
                 waking, ready>>

(* handleEvent of another channel returns.  The handler made its calls     *)
(* into the loop before; it may or may not have drained the descriptor.    *)
HandlerReturns ==
  /\ AtPc("dispatch")
  /\ activeChannels # <<>>
  /\ Head(activeChannels) # EfdChannel
  /\ ready' \in {ready, ready \ {Head(activeChannels)}}
  /\ activeChannels' = Tail(activeChannels)
  /\ UNCHANGED <<pc, quit, callingPendingFunctors, tempRuns, queueVars,
                 eventfd, waking>>

(* Mutant: tempRuns is a copy of the queue, which keeps its functors.      *)
SwapPendingCopies ==
  /\ AtPc("dispatch")
  /\ activeChannels = <<>>
  /\ callingPendingFunctors' = TRUE
  /\ tempRuns' = pendingFunctors
  /\ pc' = "run"
  /\ UNCHANGED <<quit, activeChannels, queueVars, eventfd, waking, ready>>

(* Mutant: a loop that has been told to quit leaves after the handlers.    *)
SwapUnlessQuit ==
  /\ AtPc("dispatch")
  /\ activeChannels = <<>>
  /\ IF quit
     THEN pc' = "exited" /\ UNCHANGED <<callingPendingFunctors, tempRuns, pendingFunctors>>
     ELSE /\ callingPendingFunctors' = TRUE
          /\ tempRuns' = pendingFunctors
          /\ pendingFunctors' = <<>>
          /\ pc' = "run"
  /\ UNCHANGED <<quit, activeChannels, queued, done, ranNow, eventfd, waking, ready>>

(* doPendingFunctors: the flag is set, then the queue is swapped out under *)
(* the lock.  Only the loop thread reads the flag.                         *)
SwapPending ==
  /\ AtPc("dispatch")
  /\ activeChannels = <<>>
  /\ callingPendingFunctors' = TRUE
  /\ tempRuns' = pendingFunctors
  /\ pendingFunctors' = <<>>
  /\ pc' = "run"
  /\ UNCHANGED <<quit, activeChannels, queued, done, ranNow, eventfd, waking,
                 ready>>

(* The functor at the head of tempRuns returns.                            *)
FunctorReturns ==
  /\ AtPc("run")
  /\ tempRuns # <<>>
  /\ done' = Append(done, Head(tempRuns))
  /\ tempRuns' = Tail(tempRuns)
  /\ UNCHANGED <<pc, quit, callingPendingFunctors, activeChannels,
                 pendingFunctors, queued, ranNow, eventfd, waking, ready>>

(* Mutant: the flag is cleared when the last functor is still to run.      *)
EndPendingEarly ==
  /\ AtPc("run")
  /\ Len(tempRuns) <= 1
  /\ callingPendingFunctors' = FALSE
  /\ tempRuns' = <<>>
  /\ pc' = "test"
  /\ UNCHANGED <<quit, activeChannels, queueVars, eventfd, waking, ready>>

(* doPendingFunctors returns.                                              *)
EndPending ==
  /\ AtPc("run")
  /\ tempRuns = <<>>
  /\ callingPendingFunctors' = FALSE
  /\ pc' = "test"
  /\ UNCHANGED <<quit, tempRuns, activeChannels, queueVars, eventfd, waking,
                 ready>>

LoopStep ==
  \/ EnterLoop
  \/ TestQuit
  \/ Poll
  \/ HandleWakeup
  \/ HandlerReturns
  \/ SwapPending
  \/ FunctorReturns
  \/ EndPending

(* A descriptor of the user becomes ready.                                 *)
BecomesReady(c) ==
  /\ c \notin ready
  /\ ready' = ready \cup {c}
  /\ UNCHANGED <<loopVars, queueVars, quit, eventfd, waking>>

Next ==
  \/ \E self \in Threads, t \in Task : queueInLoop(self, t)
  \/ \E self \in Threads, t \in Task : runInLoop(self, t)
  \/ \E self \in Threads : QuitLoop(self)
  \/ \E self \in Threads : wakeup(self)
  \/ LoopStep
  \/ PollError
  \/ \E c \in Channels : BecomesReady(c)

(* The loop thread and the writes to the eventfd are scheduled fairly, and *)
(* the handlers and functors of the user return.  Nothing is assumed of    *)
(* the callers, of the descriptors or of signals.                          *)
Fairness ==
  /\ WF_vars(LoopStep)
  /\ \A self \in Threads : WF_vars(wakeup(self))

SafeSpec == Init /\ [][Next]_vars
Spec == SafeSpec /\ Fairness

-----------------------------------------------------------------------------
(* Properties.                                                             *)

(* A wakeup is on its way: the eventfd is readable or a thread is between  *)
(* its push_back or store and its write.                                   *)
WakeupComing == eventfd > 0 \/ waking # {}

(* The queue holds a functor that was not put there before loop().         *)
HoldsLateTask == \E i \in DOMAIN pendingFunctors : pendingFunctors[i] \notin SetupTasks

(* No lost wakeup: the loop thread never blocks in epoll_wait on a queue   *)
(* that holds a functor unless a wakeup is on its way.  queueInLoop skips  *)
(* the write when the loop thread is in a handler, since                   *)
(* doPendingFunctors follows; it must not skip it in a functor.            *)
NoLostWakeup == (pc = "poll" /\ HoldsLateTask) => WakeupComing

(* A quit() that came too late for the test of _quit interrupts the        *)
(* epoll_wait that follows it.                                             *)
QuitWakes == (pc = "poll" /\ quit) => WakeupComing

(* The functors are executed in the order of the queueInLoop calls, none   *)
(* is lost between the queue and the swapped batch, none runs twice.       *)
InOrder == queued = done \o tempRuns \o pendingFunctors

(* The inductive strengthening of the above.  The wakeup of a functor      *)
(* queued during the batch is sent while pc is still "run", and the        *)
(* eventfd is only drained in the dispatch that precedes the next batch.   *)
FlagTracksBatch == callingPendingFunctors <=> pc = "run"
BatchOnlyInRun == pc # "run" => tempRuns = <<>>
WakeupKept == (pc \notin {"dispatch", "exited"} /\ HoldsLateTask) => WakeupComing
LoopInv ==
  /\ TypeOK
  /\ FlagTracksBatch
  /\ BatchOnlyInRun
  /\ InOrder
  /\ WakeupKept
  /\ QuitWakes

(* The loop implements the task queue: order, at most one execution, none  *)
(* after loop() has returned, and progress.  The progress needs            *)
(* SetupTasks = {}: a functor that the loop thread itself queues before    *)
(* loop() waits for the first event of any kind.                           *)
TQ == INSTANCE TaskQueue WITH submitted <- queued, executed <- done,
                              closed <- (pc = "exited")
ImplementsTaskQueue == TQ!Spec
ImplementsTaskQueueSafely == TQ!SafeSpec

(* quit(), from any thread, in any state, ends loop().                     *)
QuitStopsLoop == quit ~> pc = "exited"

(* A round that has begun is completed: whatever is in the queue before    *)
(* the handlers of a round have returned is executed, whoever calls quit() *)
(* meanwhile.  _quit is tested between two rounds only, and so a handler   *)
(* or functor that calls quit() does not cut off what was queued for it.   *)
RoundIsCompleted ==
  \A t \in Task : pc = "dispatch" /\ t \in Range(pendingFunctors) ~> t \in Range(done)

=============================================================================
