------------------------- MODULE EventLoopThreadPool -------------------------
(***************************************************************************)
(* The IO threads of a server: Thread, EventLoopThread and                 *)
(* EventLoopThreadPool (src/src/Thread.cc, src/src/EventLoopThread.cc,     *)
(* src/src/EventLoopThreadPool.cc).                                        *)
(*                                                                         *)
(* The caller, which is the thread of the base loop, starts the IO threads *)
(* one by one and waits for each to publish the EventLoop on its stack;    *)
(* while it serves it hands functors to the loops in turn; in the end it   *)
(* stops the threads one by one.  A loop goes through the places it has in *)
(* module EventLoop.  Between the push_back and the write of a queueInLoop *)
(* of the caller nothing can happen that would not happen after the write  *)
(* as well, so that it is one step here; quit() is two, for the loop may   *)
(* be gone before its wakeup.                                              *)
(***************************************************************************)
EXTENDS Integers, Sequences, Functions

CONSTANTS
  Sizes,       \* what setThreadNum may be given
  MayFail,     \* may pthread_create fail?
  Functor      \* what is queued for the loops

VARIABLES
  numThreads,  \* _numThreads
  caller,      \* where the caller is
  cur,         \* the EventLoopThread it starts or destroys
  io,          \* where the thread of each EventLoopThread is
  published,   \* is _loop of the EventLoopThread set?
  loops,       \* _loops, by the numbers of their threads
  next,        \* _next
  quit,        \* _quit of each loop
  woken,       \* is the eventfd of the loop readable?
  pending,     \* _pendingFunctors of each loop
  tempRuns,    \* the functors doPendingFunctors has swapped out
  turn,        \* which of them is next
  crashed      \* has the program ended?

startVars == <<numThreads, loops>>
queueVars == <<pending, tempRuns, turn>>
poolVars == <<startVars, caller, cur, io, published, next, quit, woken, queueVars, crashed>>

Thread == 1 .. numThreads

TypeOK ==
  /\ numThreads \in Sizes
  /\ caller \in {"create", "lock", "waiting", "serving", "quit", "wakeup", "join",
                 "destroyed"}
  /\ cur \in 1 .. numThreads + 1
  /\ io \in [Thread -> {"none", "failed", "started", "constructed", "test", "poll",
                        "dispatch", "functors", "left", "ended"}]
  /\ published \in [Thread -> BOOLEAN]
  /\ loops \in Seq(Thread)
  /\ next \in 0 .. numThreads
  /\ next < Len(loops) \/ next = 0
  /\ quit \in [Thread -> BOOLEAN]
  /\ woken \in [Thread -> BOOLEAN]
  /\ pending \in [Thread -> Seq(Functor)]
  /\ tempRuns \in [Thread -> Seq(Functor)]
  /\ turn \in [Thread -> Nat \ {0}]
  /\ crashed \in BOOLEAN

Init ==
  /\ numThreads \in Sizes
  /\ caller = "create" /\ cur = 1
  /\ io = [i \in Thread |-> "none"]
  /\ published = [i \in Thread |-> FALSE]
  /\ loops = <<>> /\ next = 0
  /\ quit = [i \in Thread |-> FALSE]
  /\ woken = [i \in Thread |-> FALSE]
  /\ pending = [i \in Thread |-> <<>>]
  /\ tempRuns = [i \in Thread |-> <<>>]
  /\ turn = [i \in Thread |-> 1]
  /\ crashed = FALSE

-----------------------------------------------------------------------------
(* The caller starts the threads: EventLoopThreadPool::start.              *)

(* Thread::start.  When pthread_create fails, only a message says so.      *)
StartThread ==
  /\ caller = "create"
  /\ cur <= numThreads
  /\ caller' = "lock"
  /\ \/ io' = [io EXCEPT ![cur] = "started"]
     \/ MayFail /\ io' = [io EXCEPT ![cur] = "failed"]
  /\ UNCHANGED <<startVars, cur, published, next, quit, woken, queueVars, crashed>>

(* startLoop finds _loop not set, and waits.                               *)
WaitForLoop ==
  /\ caller = "lock"
  /\ ~published[cur]
  /\ caller' = "waiting"
  /\ UNCHANGED <<startVars, cur, io, published, next, quit, woken, queueVars, crashed>>

(* pthread_cond_wait may return without a signal.                          *)
SpuriousWakeup ==
  /\ caller = "waiting"
  /\ caller' = "lock"
  /\ UNCHANGED <<startVars, cur, io, published, next, quit, woken, queueVars, crashed>>

(* Mutant: _loop is not tested again after the wait.                       *)
ReturnAfterWait ==
  /\ caller = "waiting" \/ (caller = "lock" /\ published[cur])
  /\ loops' = Append(loops, cur)
  /\ cur' = cur + 1
  /\ caller' = "create"
  /\ UNCHANGED <<numThreads, io, published, next, quit, woken, queueVars, crashed>>

(* startLoop returns the loop to start().                                  *)
LoopIsSet ==
  /\ caller = "lock"
  /\ published[cur]
  /\ loops' = Append(loops, cur)
  /\ cur' = cur + 1
  /\ caller' = "create"
  /\ UNCHANGED <<numThreads, io, published, next, quit, woken, queueVars, crashed>>

AllStarted ==
  /\ caller = "create"
  /\ cur > numThreads
  /\ caller' = "serving"
  /\ UNCHANGED <<startVars, cur, io, published, next, quit, woken, queueVars, crashed>>

start == StartThread \/ WaitForLoop \/ LoopIsSet \/ AllStarted

-----------------------------------------------------------------------------
(* The caller uses the loops.                                              *)

(* getNextLoop: 0 stands for the base loop.                                *)
NextLoop == IF loops = <<>> THEN 0 ELSE loops[next + 1]

(* Mutant: the turn goes back to the first loop too early.                 *)
AdvanceSkipsLast == next' = IF next + 2 >= Len(loops) THEN 0 ELSE next + 1

(* Mutant: the turn never goes back to the first loop.                     *)
AdvanceOnly == next' = next + 1

Advance == next' = IF next + 1 >= Len(loops) THEN 0 ELSE next + 1

(* Mutant: the loop is not woken.                                          *)
queueSilently(i, f) ==
  /\ pending' = [pending EXCEPT ![i] = Append(@, f)]
  /\ UNCHANGED woken

queueInLoop(i, f) ==
  /\ pending' = [pending EXCEPT ![i] = Append(@, f)]
  /\ woken' = [woken EXCEPT ![i] = TRUE]

-----------------------------------------------------------------------------
(* The caller stops the threads: ~EventLoopThreadPool, which destroys the  *)
(* EventLoopThreads one after the other.                                   *)

Destroy ==
  /\ caller = "serving"
  /\ caller' = IF loops = <<>> THEN "destroyed" ELSE "quit"
  /\ cur' = 1
  /\ UNCHANGED <<startVars, io, published, next, quit, woken, queueVars, crashed>>

(* quit(): _quit is set ...                                                *)
QuitLoop ==
  /\ caller = "quit"
  /\ quit' = [quit EXCEPT ![cur] = TRUE]
  /\ caller' = "wakeup"
  /\ UNCHANGED <<startVars, cur, io, published, next, woken, queueVars, crashed>>

(* Mutant: the loop is not woken.                                          *)
QuitSilently ==
  /\ caller = "wakeup"
  /\ caller' = "join"
  /\ UNCHANGED <<startVars, cur, io, published, next, quit, woken, queueVars, crashed>>

(* ... and the eventfd is written.  When the loop has seen _quit before,   *)
(* it is gone from the stack of its thread: what lies there then may make  *)
(* the program crash, or do nothing that matters.                          *)
WakeupToQuit ==
  /\ caller = "wakeup"
  /\ caller' = "join"
  /\ IF io[cur] = "ended"
     THEN crashed' \in BOOLEAN /\ UNCHANGED woken
     ELSE woken' = [woken EXCEPT ![cur] = TRUE] /\ UNCHANGED crashed
  /\ UNCHANGED <<startVars, cur, io, published, next, quit, queueVars>>

(* Thread::join returns when the thread has ended; ~Thread, which would    *)
(* detach a thread that was not joined, has nothing left to do.            *)
Join ==
  /\ caller = "join"
  /\ io[cur] = "ended"
  /\ IF cur < Len(loops)
     THEN caller' = "quit" /\ cur' = cur + 1
     ELSE caller' = "destroyed" /\ UNCHANGED cur
  /\ UNCHANGED <<startVars, io, published, next, quit, woken, queueVars, crashed>>

stop == QuitLoop \/ WakeupToQuit \/ Join

-----------------------------------------------------------------------------
(* An IO thread: EventLoopThread::threadFunc.                              *)

ConstructLoop(i) ==
  /\ io[i] = "started"
  /\ io' = [io EXCEPT ![i] = "constructed"]
  /\ UNCHANGED <<startVars, caller, cur, published, next, quit, woken, queueVars, crashed>>

(* Mutant: the caller is not signalled.                                    *)
PublishSilently(i) ==
  /\ io[i] = "constructed"
  /\ io' = [io EXCEPT ![i] = "test"]
  /\ published' = [published EXCEPT ![i] = TRUE]
  /\ UNCHANGED <<startVars, caller, cur, next, quit, woken, queueVars, crashed>>

(* Under the lock _loop is set and the caller, if it waits, signalled.     *)
PublishLoop(i) ==
  /\ io[i] = "constructed"
  /\ io' = [io EXCEPT ![i] = "test"]
  /\ published' = [published EXCEPT ![i] = TRUE]
  /\ caller' = IF caller = "waiting" /\ cur = i THEN "lock" ELSE caller
  /\ UNCHANGED <<startVars, cur, next, quit, woken, queueVars, crashed>>

TestQuit(i) ==
  /\ io[i] = "test"
  /\ io' = [io EXCEPT ![i] = IF quit[i] THEN "left" ELSE "poll"]
  /\ UNCHANGED <<startVars, caller, cur, published, next, quit, woken, queueVars, crashed>>

(* epoll_wait returns; the eventfd is read among the handlers.             *)
PollReturns(i) ==
  /\ io[i] = "poll"
  /\ io' = [io EXCEPT ![i] = "dispatch"]
  /\ woken' = [woken EXCEPT ![i] = FALSE]
  /\ UNCHANGED <<startVars, caller, cur, published, next, quit, queueVars, crashed>>

(* doPendingFunctors.                                                      *)
EndDispatch(i) ==
  /\ io[i] = "dispatch"
  /\ io' = [io EXCEPT ![i] = "functors"]
  /\ tempRuns' = [tempRuns EXCEPT ![i] = pending[i]]
  /\ pending' = [pending EXCEPT ![i] = <<>>]
  /\ turn' = [turn EXCEPT ![i] = 1]
  /\ UNCHANGED <<startVars, caller, cur, published, next, quit, woken, crashed>>

RunFunctor(i) ==
  /\ io[i] = "functors"
  /\ turn[i] <= Len(tempRuns[i])
  /\ turn' = [turn EXCEPT ![i] = @ + 1]
  /\ UNCHANGED <<startVars, caller, cur, io, published, next, quit, woken, pending,
                 tempRuns, crashed>>

EndFunctors(i) ==
  /\ io[i] = "functors"
  /\ turn[i] > Len(tempRuns[i])
  /\ io' = [io EXCEPT ![i] = "test"]
  /\ tempRuns' = [tempRuns EXCEPT ![i] = <<>>]
  /\ turn' = [turn EXCEPT ![i] = 1]
  /\ UNCHANGED <<startVars, caller, cur, published, next, quit, woken, pending, crashed>>

(* loop() has returned.  The EventLoop is destroyed, and with it the       *)
(* functors that were not run; the thread ends.                            *)
EndThread(i) ==
  /\ io[i] = "left"
  /\ io' = [io EXCEPT ![i] = "ended"]
  /\ pending' = [pending EXCEPT ![i] = <<>>]
  /\ UNCHANGED <<startVars, caller, cur, published, next, quit, woken, tempRuns, turn,
                 crashed>>

(* The steps of the thread that do not depend on what the loop serves.     *)
ThreadStep(i) ==
  \/ ConstructLoop(i) \/ PublishLoop(i) \/ TestQuit(i) \/ EndFunctors(i) \/ EndThread(i)

-----------------------------------------------------------------------------
(* Properties.                                                             *)

Constructed == {"constructed", "test", "poll", "dispatch", "functors"}

(* A loop that start() was given, and getNextLoop may hand out, exists     *)
(* until the destructor has told it to quit, however the wait for it ended.*)
LoopsServe == \A i \in Range(loops) : io[i] \in Constructed \/ quit[i]

(* start() returns, unless a thread could not be created: for that one it  *)
(* waits for ever.                                                         *)
StartReturns ==
  (caller = "create") ~>
    (caller = "serving" \/ crashed \/ \E i \in Thread : io[i] = "failed")

(* The destructor uses no loop that is gone.                               *)
QuitFindsLoop == caller = "wakeup" => io[cur] # "ended"

=============================================================================
