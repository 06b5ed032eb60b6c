# A formal model of simplify-muduo

simplify-muduo is a small network library in the manner of muduo: one event loop
per thread over epoll, functors handed from thread to thread, timers over a
timerfd, TCP servers and clients whose connections call back into the user's
code, and a pool of computing threads. This directory holds TLA+ modules of its
parts, the TLC configurations that check them on small instances, and proofs
checked by TLAPS for every value of the constants. Paths are those of the
repository: `src/X.cc` is `src/src/X.cc` in `PROJECT.json`, `include/X.h` is
`src/include/X.h`.

## 1. The system

| Component | State | Operations | Speaks with |
|---|---|---|---|
| EventLoop (`src/EventLoop.cc`) | `_quit`, `_callingPendingFunctors`, `_pendingFunctors` under `_mutex`, `_eventfd` | `loop`, `queueInLoop`, `runInLoop`, `quit`, `wakeup`, `handleRead` | Epoll, every Channel, all threads |
| Epoll and Channel (`src/Epoll.cc`, `src/Channel.cc`) | the kernel's set; `_events`, `_revents`, `_index` | `poll`, `update`; `handleEvent`, `enableWriting`, `disableAll` ... | the loop, the handlers |
| TimerQueue (`src/TimerQueue.cc`, `include/Timer.h`) | `_pTimers`, the timerfd, the Timers on the heap | `addTimer`, `cancelTimer`, `handleRead`, `reset` | the loop's functors |
| Buffer (`src/Buffer.cc`) | a vector and two indices | `append`, `prepend`, `retrieve`, `readFd` | TcpConnection, the user |
| TcpConnection (`src/TcpConnection.cc`) | its Channel, `_pUser`, `_closeCallback`, `_inBuf`, `_outBuf` | `send`, `handleRead`, `handleWrite`, `handleClose`, the functors | loop, server, user |
| TcpServer, Acceptor | `_connections`, shared by all threads without a lock | `start`, `newConnection`, `removeConnection`, `handleRead`, destruction | base loop and IO threads |
| TcpClient, Connector | `_connection`; `_sockFd` and the Channel of the connect | `connect`, `stop`, `handleWrite`, `newConnection`, `removeConnection` | the loop, other threads |
| EventLoopThread, EventLoopThreadPool, Thread | `_loop` under a lock, `_loops`, `_next` | `start`, `startLoop`, `getNextLoop`, destruction with `quit` and `join` | the loops |
| ThreadPool, BlockingQueue (`include/*.h`) | `_threads`, `_queue` under a lock | `start`, `addTask`, `put`, `take` | the user |

What is hard here is concurrency and lifetime. Any thread may queue functors
for a loop that may be about to block; `quit()` comes from outside; a timer may
be cancelled while its batch is out; a connection is built by one thread while
another already handles its events, and is destroyed by the last pointer, which
may go while its own code is on the stack. `PROJECT.json` lists each hazard
at its line, with the properties that watch it or the reason why none does yet.

What makes each component correct:

* EventLoop: no lost wakeup, order and exactly-once of functors, `quit()` works
  and lets the round that has begun be completed.
* TimerQueue: each Timer has one owner, the keys of the set are right, the
  timerfd is always armed early enough, a cancellation is final and hits its own
  timer, every due time is consumed.
* Buffer: it is a queue of bytes, inside its vector, that grows only when it must.
* ThreadPool: nobody sleeps while there is work, one worker per task, progress.
* EventLoopThreadPool: `start` returns, and the loops it hands out exist until
  they are told to quit; destruction ends.
* TcpServer: a connection exists as long as a loop may report its events, the
  user is told of each that `accept()` returned, destruction releases all of them.
* TcpClient: epoll never points to a Channel that is gone, an attempt that
  succeeds reaches the user, a dead connection is dropped.
* TcpConnection: the stream is in order, waiting bytes are watched for, the
  user is told of completion, a closed connection stays closed and is forgotten,
  epoll, callbacks and functors find their objects.

## 2. The modules

| Module | Models | Uses |
|---|---|---|
| `TaskQueue` | abstract: functors run in order, once, eventually | |
| `EventLoop` | the loop and its callers | implements `TaskQueue` |
| `EventLoopProofs` | theorems about `EventLoop` | |
| `TimerQueue` | the timers of one loop | the functors of the loop as a FIFO queue, the promise of `TaskQueue` |
| `TimerQueueProofs` | theorems about `TimerQueue` | |
| `ByteQueue` | abstract: a queue of bytes | |
| `Buffer` | the vector and the indices | implements `ByteQueue` |
| `BufferProofs` | theorems about `Buffer` | |
| `ThreadPool` | pool and blocking queue | implements `TaskQueue` |
| `ThreadPoolProofs` | theorems about `ThreadPool` | |
| `TcpConnection` | one connection with its Channel, its registration in epoll and the server's part of its life | `_outBuf` as in `ByteQueue`, functors as in `TaskQueue` |
| `TcpConnectionProofs` | theorems about `TcpConnection` | |
| `EventLoopThreadPool` | the IO threads of a server, from `start` to `join` | the places of `EventLoop` and its queue of functors |
| `TcpServer` | a server with its acceptor, its map and several connections | composes with `EventLoopThreadPool` (`Pool == INSTANCE ...`) |
| `TcpServerProofs` | theorems about `TcpServer` and the pool in it | |
| `TcpClient` | a client with its connector | the loop and its functors |
| `TcpClientProofs` | theorems about `TcpClient` | |
| `MC...` | instances for TLC: model values and bounds | |

Operators named `Mutant: ...` in their comments are not part of a
specification. Each stands before the definition it is a plausible error of and
shows that some property notices: `PROJECT.json` says which.

### EventLoop

`pc` is the place of the loop thread: `setup` before `loop()`, `test` at
`while(!_quit)`, `poll` in `epoll_wait`, `dispatch` among the handlers, `run` in
`doPendingFunctors`, `exited`. `queueInLoop` and `quit` are two steps each, the
store and the write to the eventfd (`waking` holds the threads in between), since
the loop may do anything meanwhile. The critical sections are a single
`push_back` or `swap`, so each is one step. `_quit` is a plain `bool` that is read
and written by two threads; it is modelled as an atomic one, which is what the
compiled loop does, with a system call in every round.
`queued`, `done` and `ranNow` are history.

A functor that the loop thread itself queues before `loop()` is not announced by
any wakeup, and waits for the first event of any kind. `SetupTasks` are such
functors; `NoLostWakeup` does not speak of them and the run `loop`, which checks
progress, has none.

### TimerQueue

A stamp is a number of ticks, a tick being the 100 microseconds
`howMuchTimeFromNow` waits at least. `heap` maps addresses to Timer objects, and
an address that was deleted is used again. `left` counts down on the monotonic
clock while `now`, the wall clock, may be set (`SetClock`). `handleRead` is the
part of the handler up to the first callback, `Timeout` and `CallbackReturns`
enclose each callback, in which the user may add and cancel timers, as in the
handlers of other channels and in functors of its own, and `reset` is the end. The order of timers of equal stamps is that of their addresses, hence
any. Two reads of freed memory are modelled by their practical outcome: a
stale `TimerId` finds nothing when its address is free (no entry has that
address), and `it->second` after the erase is still the pointer.
`careful` says whether the callers cancel only timers that are still scheduled;
`CarefulCancelIsFinal` and `CarefulCancelHits` are about those, the other
properties about all callers.

### Buffer

The indices are those of the code. `makeSpace` and `append` are functions from
a state to a state, since `readFd` calls `append` in the middle. Sizes are
constants: `kCheapPrepend` is 8, `initialSize` 1024 and `ExtraBuf` 65536 in the
code, and the theorems hold for all.

### ThreadPool

`put` and `take` hold the mutex throughout, so `put` is one step and `take` one
step from each acquisition of the mutex to its release: `WaitForTask` to the
wait, `take` with a task. `pthread_cond_wait` may return without a signal. A
thread may fail to start (`Unstartable`); its object stays in `_threads`.

### TcpConnection

Two threads: that of the base loop goes through `newConnection` (`base`), that of
the connection's loop through poll, dispatch, the channel's event and the
functors (`pc`). When `multi` is FALSE they are the same thread and
`newConnection` is a part of its dispatch. `Alive` says whether anybody has a
`TcpConnectionPtr`: `newConnection`, the map, the user, the functor
`connectEstablished`, the call of a callback, or `handleClose`, which tests the
close callback (`OnCloseReturns`) after it has called `onClose`, or has found no
user to call (`closing`). The functors of
`onWriteComplateCB` and `onMessageCB` hold a bare `this`. What runs on a
destroyed object (`EventOfFreed`, `RunOnFreed`) either ends the program or passes
without effect on what is modelled. The kernel is external: `write()` takes
some, all or nothing of what it is given, and `epoll_wait` reports what the
socket is ready for, a hang-up with or, while it is just happening, without the
end of input. The user is any code: in a callback, or with a pointer it kept, it
sends, keeps or drops. Empty messages are not sent.

### EventLoopThreadPool

`caller` is the place of the thread that starts, uses and destroys the pool,
`io[i]` that of thread `i`. `startLoop` waits at `waiting` and tests `_loop` again
at `lock`, after a signal (`PublishLoop`) or without one (`SpuriousWakeup`). A
thread that cannot be created leaves the caller waiting for ever. A loop goes
through the places of `EventLoop`; that module shows that a functor queued while
the loop is on its way to `epoll_wait` is not missed, so here the `push_back` and
the write to the eventfd are one step. `quit()` is two steps, `QuitLoop` and
`WakeupToQuit`: the loop may see `_quit` after an event of its own and be gone from
the stack of its thread before the wakeup. What then lies there decides whether
the program ends.

### TcpServer

Loop 0 is the base loop, which serves the connections itself when there are no
IO threads. `base` is its place: `poll`, `dispatch`, and the steps of
`newConnection`. A connection has its own descriptor because nothing ever closes
the socket (`~TcpConnection` only prints), or -1 when `accept()` failed, in which
case it is made and established all the same, is never reported by epoll, and
takes the place of the last such one in the map. The user is told of it like of
the others; no property demands that. Of a connection only the two
ends are here: `onConnection` and the `handleClose` that follows when the peer
goes, in three steps: up to `onClose`, into the map, out of it. Its thread may
find `newConnection` anywhere: without a `TcpConnectionPtr` yet
(`shared_from_this` throws), without a user, without a close callback. Two
threads in the map at once are undefined: the change that ends later may be made
or lost, or the program end; `raced` remembers it. A connection that was lost that
way may be destroyed while it is registered (`UseFreed`). The server is destroyed
when the base loop has returned, members in the reverse of their order: the pool,
which joins the threads, and last the map.

### TcpClient

`watch` is what epoll has for a descriptor, a pointer to the Channel of the
Connector or to that of the TcpConnection, and `Exists` says whether that Channel
does. `connect()` makes a socket, which becomes `_sockFd` (`made`, the last one),
and a Channel if the call succeeded or is in progress; `sock` is what becomes of
the socket. `handleWrite` hands `_sockFd` over, whichever Channel was reported.
`onConnection` and `onClose` are places of the loop's thread in which the user
may call `connect()` again; other threads queue it. `careful` users connect only
when they have no connection, or are in its `onClose`, and no attempt is under way.
`Connector::stop`, which no class of the library calls, belongs to the others.
The event of a Channel that is gone ends the program or passes (`UseFreed`).

## 3. The runs

| Run | Question | Instance | Distinct states |
|---|---|---|---|
| `loop` | is a wakeup lost, an order broken, is every functor run, does `quit()` end the loop, and not in the middle of a round? | 2 other threads, 3 functors, 1 channel, eventfd full at 2 | 25 396 |
| `timers` | ownership, keys and the timerfd with any callers; is every due time consumed? With careful ones, is a cancellation final and exact? | 2 addresses, 2 timers, stamps 0 and 2, interval 1, the clock set back once | 201 814 |
| `buffer` | is it a byte queue? | 2 byte values, strings up to 3, memory up to 7 | 5 568 |
| `pool` | who sleeps, who runs what, does every task return? | 3 workers, 1 unstartable, 3 tasks | 2 676 |
| `conn` | stream, registration, life and end of a connection, with one loop and with IO threads; is what was sent written, the end noticed? | 2 messages of 2 bytes, send buffer 2, 1 piece of input | 186 139 |
| `server` | are the loops there, the connections alive and told in order; do `start` and the destructor end? | no or 2 IO threads, creation may fail, 2 calls of `accept` | 181 953 |
| `client` | does epoll find its Channels, is every attempt that succeeds reported, every dead connection dropped? | 3 calls of `connect`, by careful and other users | 123 713 |

Deadlock is not checked: the programs really stop (the loop has exited, the
tasks and messages of the instance are used up, the server is destroyed or
waits for a thread that was not created, the program has ended).

The bounds are chosen for the cases, not for the size. Two other threads and
three functors give one functor in the batch, one queued meanwhile and one being
announced; an eventfd that is full at 2 reaches its bound. Two addresses and
two timers reuse the address of a timer that is gone, or have both; stamps 0 and 2
are an invalid one and a future one, and a repeating timer is due in between. A memory of 7 with 2 bytes in front is grown, moved,
prepended to and overrun by `readFd`. Two messages of two bytes in a send
buffer of two give complete, partial and impossible writes and a message queued
behind another. Two IO threads and two connections put both connections on
different loops, so that two IO threads, or one and the base loop, are in the map
at once; with no IO thread both are served by the base loop, and two failed
`accept`s share a key. Three attempts are one that is under way, one that
overwrites it and one after both. No run uses symmetry, since all but the
violations check liveness properties.

### Violations: where the code does not do what it says

| Run | What happens |
|---|---|
| `timer_cancel_in_callback` | a repeating timer cancelled in its own callback is inserted again by `reset` |
| `conn_never_forgotten` | a connection that ends before its close callback is set stays in the map; with one loop this cannot happen (`OneLoopForgets` in `conn`) |
| `conn_write_error` | `write()` returning -1 leads to `substr(-1)`, which throws |
| `client_failed_connect` | a connect that is refused later is reported with `onConnection`, since the value of `SO_ERROR` is not looked at |
| `conn_channel_freed` | the last pointer goes in `handleClose`, inside the `handleEvent` of the Channel it destroys |

`PROJECT.json` quotes for each the comment or declaration that says otherwise.
Some more properties fail for what the code does, but no text of the repository
promises them, so no run lists them. TLC refutes each when it is
put into the configuration named:

* `UserSetInTime`, in `conn_never_forgotten.cfg`: with IO threads data may arrive
  between the constructor, which enables reading, and `setUser`, and `handleRead`
  calls `onMessage` through a NULL `_pUser`.
* `FunctorFindsConnection`, in `conn_channel_freed.cfg`: the user sends in `onClose`,
  the connection is destroyed when `handleClose` returns, and the functor of
  `onWriteComplateCB`, with its bare `this`, runs on it.
* `MapExclusive` of `TcpServer`, in `server.cfg`: a peer goes, its IO thread is in
  `_connections.erase` while the base loop adds the next connection, or another IO
  thread erases one. `OpenIsKept` is stated for the time before.
* `QuitFindsLoop` of `TcpServer`, in `server.cfg`: the loop
  has just handled an event when `~EventLoopThread` sets `_quit`; it returns, and
  `quit()` writes to the eventfd of an object that is gone. The comment
  `src/EventLoopThread.cc:35` sees the end of `threadFunc` and expects no great problem.
* `EpollFindsChannel` and `ConnectedIsTold` of `TcpClient` without `careful`, in `client.cfg`:
  `connect()` in `onConnection` makes a Channel that the `resetChannel` queued for its
  predecessor destroys; the second attempt is never reported, and epoll keeps the
  pointer. A second `connect()` while the first is under way destroys the first
  Channel, or, when the call fails at once, has the first one's `handleWrite` take
  the socket of the second.
* `CancelHitsItsTimer`, in `timer_cancel_in_callback.cfg` with `MaxTimers = 2`: a
  timer is cancelled, a second one is created at its address, and cancelling the
  first `TimerId` again deletes the second, since `_sequence` is never compared.

### Fairness

The loop thread's steps are weakly fair as one action: its thread is scheduled,
and handlers, callbacks and functors of the user return. A thread that has begun
`queueInLoop` or `quit` gets to its write. A worker that can run does. Time
passes (`Tick`). `epoll_wait` returns when the descriptor of the component is
ready (`Poll`); that it returns for other reasons (`PollOther`, `PollError`) is
possible and not assumed. Of a connection, the thread of the base loop goes on
with `newConnection`, and a peer that is there acknowledges what it is sent
(`PeerReads`); without this nothing can promise that bytes are written. The caller of a pool, the base loop and each IO
thread of a server are fair one by one, since each is a thread of its own; nobody
has to end a server, and no peer has to go. An attempt to connect need never be
decided. Nothing
is assumed of callers, of spurious wakeups or of signals.

## 4. The proofs

Every safety invariant that a run checks is also a theorem, for every value of
the constants; that the variables of `EventLoop` and of `TcpConnection` keep their
types is a theorem only (`TypeCorrect`). The assumptions are those named `...Assumption` in the modules:
the loop thread is none of the others, the counts are natural numbers, `Zero` is
a byte, there are finitely many addresses and no Timer is `Free`, and the like.
Each invariant below was checked by TLC on the instance of the run, with the
properties it is for, before it was proved.

* `EventLoopProofs`. The invariant `LoopInv` is inductive. `NoLostWakeup` alone is
  not: a functor may be queued while the loop thread is anywhere, so
  `WakeupKept` says of every place but the handlers, whose round runs the queue,
  and the end, that a queue with a late functor has a wakeup coming. For that,
  `FlagTracksBatch` ties `_callingPendingFunctors` to the batch, which is what
  makes `queueInLoop` announce functors queued by functors. `TypeCorrect`,
  `WakeupNotLost`, `QuitNotLost` and `FunctorsInOrder` follow; `LoopRefinesQueue`
  maps each step to a step of `TaskQueue` or a stutter.
* `BufferProofs`. The type invariant includes
  `kCheapPrepend + readable <= size`, which is what makes the move of
  `makeSpace` stay inside. `GrowthNeeded` is an action property. For
  `BufferIsByteQueue` lemmas about `copy`, `resize` and `SubSeq` show what each
  operation does to the content; the indices of the code make them arithmetic.
* `ThreadPoolProofs`. The invariant `PoolInv` adds to the properties that
  workers not yet started do nothing, that a queued task is in nobody's hands,
  and `added = taken \o queue`. `NoSleeper` counts: a signal adds a worker on its way
  for the task that was added, and a worker that takes a task or goes to sleep
  takes one of each or finds the queue empty.
* `TimerQueueProofs`. `OneOwner` counts, and counting is not inductive: the
  invariant `OwnInv` names the owners instead, says that together they have the
  Timers in use and that no two have the same, and the count follows from the
  bijections between owners and Timers (`OwnersCounted`). It needs `KeyIsStamp`,
  since two entries for one Timer would be two owners, and `StepInv`, which ties
  the batch of expired timers and the functors of a round to the place of the
  loop thread. `TimerfdIsInTime` supposes what its property says, that the
  wall clock is not set forward (`NeverForward`); its invariant `ArmedInv` speaks of
  each entry rather than of the earliest, and of the time a batch is out, when
  only entries of stamp 0, for which `reset` will not arm the timerfd, must be
  waited for already. For the two theorems about cancellation `SeqInv` says that
  sequence numbers tell the Timers apart, and `CarefulInv` that a queued
  cancellation still owns a repeating Timer, stands behind the functor that
  inserts it, and is the only one: so it finds its Timer in the set when it runs.
* `TcpConnectionProofs`. `StreamKeepsOrder` and `CompletionIsTold` are inductive
  with the types: lemmas reduce each path through `sendInLoop` and `handleWrite` to
  one of five cases (`SendCases`, `WriteCases`). `WatchedExactly` needs `ChannelState`,
  which relates index, registration, interest and buffer through every phase of
  the handler, and `Fresh`, which says what the base thread has not made yet. `ClosedOnce`
  rests on the events that are still to be handled after the close,
  `RegisteredLives` on `KeptInv`, that from its way into the map to its close the
  map holds the connection and that no list of events outlives the close, and
  `OneLoopIsTidy` on the order in which `newConnection` sets the callbacks
  before a loop that is the same thread can see an event. `OutBufferIsQueue` shows
  that `_outBuf` takes the steps of `ByteQueue`, which by `BufferIsByteQueue` a Buffer
  implements; `PutOrTake` adds that a connection never prepends.
* `TcpServerProofs`. The pool is an instance, so its types and the order in which
  threads start and end are proved once (`StartInv`, `ThreadInv`, by `PoolSteps` that
  reduces every step of the server to one of the pool or none).
  `HandedOutLoopsServe` follows: a loop gets into `_loops` only after it is
  published, and leaves its thread only after `quit()`. `WatchedIsKept` needs
  `ConnInv`, that a descriptor is registered once, with one loop, under its own number
  (those of failed `accept`s, which share -1, are not registered), and `KeptInv`,
  that the map has each registered connection unless two threads were in it at
  once. `UserIsToldOnce` follows `connectEstablished` through the queues
  of the loop: it waits at most once, in the queue of its loop, and has not run.
* `TcpClientProofs`. For `ChannelIsThere` the invariant `CarefulInv` follows the one
  attempt there is: its `connect` waits in a queue, or its Channel is watched, or
  it was handed over to the one connection, and `resetChannel` waits only then.
  The types rest on a count of the `connect` functors in the two queues (`QueueInv`).

Only model-checked is what rests on fairness: `ImplementsTaskQueue` and `StartsAll` beyond
their safety part, `QuitStopsLoop`, `RoundIsCompleted`, `EveryTaskReturns`, `TimersExpire`,
`AcceptedIsWritten`, `PeerGoneIsNoticed`, `StartReturns`, `AcceptedIsEstablished`,
`StopReleasesAll`, `ConnectedIsTold` and `DeadIsDropped`. Liveness under fairness is outside
what the prover can do. The five violations are TLC's counterexamples; where
such a property holds under a condition (`OneLoopForgets`, `CarefulCancelIsFinal`)
the conditional form is a theorem.

## 5. What is not modelled, and the plan

What is left is to prove that the queues of functors in `TimerQueue`, `TcpConnection`
and `EventLoopThreadPool` take the steps of `TaskQueue`, as `_outBuf` takes those
of `ByteQueue`, and action properties that the runs do not state yet, such as
what a step of a connection may never do after its close.

Not modelled: the destruction of a TcpClient, or of a TcpServer, whose loop goes
on to run (their Channels stay in epoll; the library has no operation for it but
the destructor); descriptors that run out, since sockets are never closed, beyond
the `accept` that fails; `Thread` objects that are destroyed while they run or delete
themselves, which no class of the library makes; descriptors the user closes.

Left out for good: formatting and logging, the debugging strings of Channel and
Timestamp, the destruction of a ThreadPool (`include/ThreadPool.h:12` says threads
cannot be reclaimed), socket options, and the examples, which are read for how the
interfaces are called.
