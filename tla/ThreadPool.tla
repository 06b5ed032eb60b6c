----------------------------- MODULE ThreadPool ------------------------------
(***************************************************************************)
(* A ThreadPool (src/include/ThreadPool.h) over its BlockingQueue          *)
(* (src/include/BlockingQueue.h): start() creates worker threads one after *)
(* the other, each takes tasks off the queue for ever, and addTask puts    *)
(* them there, or runs them itself when the pool has no threads.           *)
(*                                                                         *)
(* put and take hold the mutex from their first line to their last, except *)
(* in pthread_cond_wait, so put is one step, and take one step from each   *)
(* acquisition of the mutex to its release.                                *)
(***************************************************************************)
EXTENDS Integers, Sequences, FiniteSets, Functions

CONSTANTS
  numThreads,   \* the argument of start()
  Unstartable,  \* the threads that pthread_create may fail to create
  Task,         \* the tasks, each added once
  NoTask        \* what a worker holds between two tasks

Workers == 1 .. numThreads

ASSUME NumThreadsAssumption == numThreads \in Nat
ASSUME UnstartableAssumption == Unstartable \subseteq Workers
ASSUME NoTaskAssumption == NoTask \notin Task

VARIABLES
  started,   \* how many threads start() has put into _threads
  returned,  \* has start() returned?
  pc,        \* where each worker is
  doing,     \* the task it has taken
  queue,     \* _tasks
  added,     \* every task put into _tasks, in order
  taken,     \* every task taken out of it, in order
  finished   \* the tasks that have returned

queueVars == <<queue, added, taken>>
vars == <<started, returned, pc, doing, queueVars, finished>>

TypeOK ==
  /\ started \in 0 .. numThreads
  /\ returned \in BOOLEAN
  /\ pc \in [Workers -> {"none", "failed", "take", "wait", "run"}]
  /\ doing \in [Workers -> Task \cup {NoTask}]
  /\ queue \in Seq(Task)
  /\ added \in Seq(Task)
  /\ taken \in Seq(Task)
  /\ finished \subseteq Task

Init ==
  /\ started = 0
  /\ returned = FALSE
  /\ pc = [w \in Workers |-> "none"]
  /\ doing = [w \in Workers |-> NoTask]
  /\ queue = <<>>
  /\ added = <<>>
  /\ taken = <<>>
  /\ finished = {}

In(label) == {w \in Workers : pc[w] = label}

-----------------------------------------------------------------------------
(* The threads.                                                            *)

(* Mutant: the loop of start() runs once too often.                        *)
StartOneMore ==
  /\ started <= numThreads
  /\ started' = started + 1
  /\ \E created \in BOOLEAN :
       /\ ~created => started' \in Unstartable
       /\ pc' = [pc EXCEPT ![started'] = IF created THEN "take" ELSE "failed"]
  /\ UNCHANGED <<returned, doing, queueVars, finished>>

(* start(): the next thread goes into _threads and is created.  When that  *)
(* fails, its Thread object stays there.                                   *)
StartThread ==
  /\ started < numThreads
  /\ started' = started + 1
  /\ \E created \in BOOLEAN :
       /\ ~created => started' \in Unstartable
       /\ pc' = [pc EXCEPT ![started'] = IF created THEN "take" ELSE "failed"]
  /\ UNCHANGED <<returned, doing, queueVars, finished>>

StartReturns ==
  /\ started = numThreads
  /\ ~returned
  /\ returned' = TRUE
  /\ UNCHANGED <<started, pc, doing, queueVars, finished>>

-----------------------------------------------------------------------------
(* The queue.                                                              *)

(* Mutant: put notifies only when it finds the queue empty.                *)
SignalIfEmpty ==
  IF In("wait") = {} \/ queue # <<>> THEN UNCHANGED pc
  ELSE \E w \in In("wait") : pc' = [pc EXCEPT ![w] = "take"]

(* pthread_cond_signal wakes one of the waiting threads, if there are any. *)
(* It has to acquire the mutex again, and others may be faster.            *)
notify ==
  IF In("wait") = {} THEN UNCHANGED pc
  ELSE \E w \in In("wait") : pc' = [pc EXCEPT ![w] = "take"]

put(t) ==
  /\ queue' = Append(queue, t)
  /\ added' = Append(added, t)
  /\ notify
  /\ UNCHANGED <<doing, taken, finished>>

(* pthread_cond_wait may return although no thread has signalled.          *)
SpuriousWakeup(w) ==
  /\ pc[w] = "wait"
  /\ pc' = [pc EXCEPT ![w] = "take"]
  /\ UNCHANGED <<started, returned, doing, queueVars, finished>>

(* take() with the mutex held: wait while the queue is empty.              *)
WaitForTask(w) ==
  /\ pc[w] = "take"
  /\ queue = <<>>
  /\ pc' = [pc EXCEPT ![w] = "wait"]
  /\ UNCHANGED <<started, returned, doing, queueVars, finished>>

(* Mutant: the task is copied and stays at the front.                      *)
TakeCopy(w) ==
  /\ pc[w] = "take"
  /\ queue # <<>>
  /\ doing' = [doing EXCEPT ![w] = Head(queue)]
  /\ taken' = Append(taken, Head(queue))
  /\ pc' = [pc EXCEPT ![w] = "run"]
  /\ UNCHANGED <<started, returned, queue, added, finished>>

take(w) ==
  /\ pc[w] = "take"
  /\ queue # <<>>
  /\ doing' = [doing EXCEPT ![w] = Head(queue)]
  /\ taken' = Append(taken, Head(queue))
  /\ queue' = Tail(queue)
  /\ pc' = [pc EXCEPT ![w] = "run"]
  /\ UNCHANGED <<started, returned, added, finished>>

-----------------------------------------------------------------------------
(* The pool.                                                               *)

Fresh(t) == t \notin Range(added) \cup finished

(* Any thread may call addTask, before start() or after it; _threads is    *)
(* not protected, so nobody may call it meanwhile.                         *)
addTask(t) ==
  /\ started = 0 \/ returned
  /\ Fresh(t)
  /\ IF started = 0     \* _threads.empty()
     THEN finished' = finished \cup {t} /\ UNCHANGED <<pc, doing, queueVars>>
     ELSE put(t)
  /\ UNCHANGED <<started, returned>>

(* Mutant: the worker leaves its loop after a task.                        *)
WorkerEnds(w) ==
  /\ pc[w] = "run"
  /\ finished' = finished \cup {doing[w]}
  /\ doing' = [doing EXCEPT ![w] = NoTask]
  /\ pc' = [pc EXCEPT ![w] = "failed"]
  /\ UNCHANGED <<started, returned, queueVars>>

(* runInThread: cb() returns and the loop calls take() again.              *)
TaskReturns(w) ==
  /\ pc[w] = "run"
  /\ finished' = finished \cup {doing[w]}
  /\ doing' = [doing EXCEPT ![w] = NoTask]
  /\ pc' = [pc EXCEPT ![w] = "take"]
  /\ UNCHANGED <<started, returned, queueVars>>

WorkerStep(w) == WaitForTask(w) \/ take(w) \/ TaskReturns(w)

Next ==
  \/ StartThread
  \/ StartReturns
  \/ \E t \in Task : addTask(t)
  \/ \E w \in Workers : WaitForTask(w)
  \/ \E w \in Workers : take(w)
  \/ \E w \in Workers : TaskReturns(w)
  \/ \E w \in Workers : SpuriousWakeup(w)

SafeSpec == Init /\ [][Next]_vars

(* A worker that can run does, and the tasks return.  Nothing is assumed   *)
(* of the callers nor of spurious wakeups.                                 *)
Spec == SafeSpec /\ \A w \in Workers : WF_vars(WorkerStep(w))

-----------------------------------------------------------------------------
(* Properties.                                                             *)

(* No task waits for want of a signal: while a worker sleeps in            *)
(* pthread_cond_wait, there is for each task of the queue another worker   *)
(* on its way to take it.  put must signal for every task, and take must   *)
(* test the queue again when it wakes up.                                  *)
NobodySleepsOnWork ==
  In("wait") # {} => Len(queue) <= Cardinality(In("take"))

(* A task is in the hands of the worker that took it, of no other, and is  *)
(* finished only after it was taken.                                       *)
OneWorkerPerTask ==
  /\ \A w \in Workers : pc[w] = "run" <=> doing[w] # NoTask
  /\ \A w \in In("run") : doing[w] \notin finished
  /\ \A v, w \in In("run") : doing[v] = doing[w] => v = w

(* The tasks are started in the order in which they were added, each of    *)
(* them once, and, when some thread could be created, each of them         *)
(* eventually.  It is the same promise that an EventLoop makes.            *)
TQ == INSTANCE TaskQueue WITH submitted <- added, executed <- taken, closed <- FALSE
StartsInOrder == TQ!SafeSpec
StartsAll == TQ!Spec

(* A task that was added, even from a task, has returned at some time.     *)
EveryTaskReturns == \A t \in Task : t \in Range(added) ~> t \in finished

(* The inductive strengthening of the above: a thread that start() has not *)
(* reached does nothing, a task of the queue is there once, in no worker's *)
(* hands and not finished, and all of them were added.                     *)
NotCreatedYet == \A w \in Workers : w > started => pc[w] = "none"
QueueUntouched ==
  /\ \A i, j \in DOMAIN queue : queue[i] = queue[j] => i = j
  /\ \A i \in DOMAIN queue : queue[i] \notin finished \cup Range(doing)
AllAdded ==
  /\ \A i \in DOMAIN queue : queue[i] \in Range(added)
  /\ \A w \in In("run") : doing[w] \in Range(added)
InOrder == added = taken \o queue
PoolInv ==
  /\ TypeOK
  /\ NotCreatedYet
  /\ NobodySleepsOnWork
  /\ OneWorkerPerTask
  /\ QueueUntouched
  /\ AllAdded
  /\ InOrder

=============================================================================
