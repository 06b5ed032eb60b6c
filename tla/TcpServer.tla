------------------------------ MODULE TcpServer ------------------------------
(***************************************************************************)
(* A TcpServer (src/src/TcpServer.cc) with its Acceptor                    *)
(* (src/src/Acceptor.cc) and the IO threads of module EventLoopThreadPool: *)
(* its connections are made in the thread of the base loop, established    *)
(* and closed in the threads of their loops, and kept in one map that all  *)
(* of them use.  When base loop has returned the server is destroyed.      *)
(*                                                                         *)
(* Loop 0 is the base loop, which serves the connections itself when there *)
(* are no IO threads.  Of what happens on a connection only its two ends   *)
(* are here; what happens in between is in module TcpConnection.  Nobody   *)
(* closes the socket of a connection, so that no descriptor is used twice: *)
(* connection c has descriptor c, or -1 when accept() failed.              *)
(***************************************************************************)
EXTENDS Integers, Sequences, FiniteSets, Functions

CONSTANTS
  Sizes,       \* what setThreadNum may be given
  MayFail,     \* may pthread_create fail?
  MaxConns     \* bound: how often accept() is called

ASSUME SizesAssumption == Sizes \subseteq Nat /\ MayFail \in BOOLEAN
ASSUME MaxConnsAssumption == MaxConns \in Nat

Conn == 1 .. MaxConns

VARIABLES
  numThreads, caller, cur, io, published, loops, next, quit, woken, pending,
  tempRuns, turn, crashed,
  base,         \* where the thread of the base loop is
  made,         \* how many connections were made; the last is that of newConnection
  fd,           \* the descriptor of each
  loopOf,       \* its _pLoop
  registered,   \* is its socket in the epoll instance of that loop?
  peerGone,     \* has its peer closed it?
  told,         \* what the user was told of it, in order
  active,       \* activeChannels of each loop, still to be handled
  closing,      \* the connection whose handleClose the loop is in
  erasing,      \* the loops that are in _connections.erase
  connections,  \* _connections
  raced         \* were two threads in _connections at once?

Pool == INSTANCE EventLoopThreadPool WITH Functor <- Conn

poolVars == <<numThreads, caller, cur, io, published, loops, next, quit, woken, pending,
              tempRuns, turn, crashed>>
connVars == <<made, fd, loopOf, registered, peerGone, told>>
closeVars == <<closing, erasing>>
mapVars == <<connections, raced>>
vars == <<poolVars, base, connVars, active, closeVars, mapVars>>

Loop == 0 .. numThreads
Acceptor == 0    \* its Channel, among those of the base loop
None == 0

TypeOK ==
  /\ Pool!TypeOK
  /\ base \in {"poll", "dispatch", "constructed", "mapping", "mapped", "userSet",
               "callbackSet", "stopping", "gone"}
  /\ made \in 0 .. MaxConns
  /\ fd \in [Conn -> Conn \cup {-1}]
  /\ loopOf \in [Conn -> Loop]
  /\ registered \in [Conn -> BOOLEAN]
  /\ peerGone \in [Conn -> BOOLEAN]
  /\ told \in [Conn -> Seq({"onConnection", "onClose"})]
  /\ active \in [Loop -> SUBSET (Conn \cup {Acceptor})]
  /\ closing \in [Loop -> Conn \cup {None}]
  /\ erasing \subseteq Loop
  /\ DOMAIN connections \subseteq Conn \cup {-1} /\ Range(connections) \subseteq Conn
  /\ raced \in BOOLEAN

Init ==
  /\ Pool!Init
  /\ base = "poll"
  /\ made = 0
  /\ fd = [c \in Conn |-> c]
  /\ loopOf = [c \in Conn |-> 0]
  /\ registered = [c \in Conn |-> FALSE]
  /\ peerGone = [c \in Conn |-> FALSE]
  /\ told = [c \in Conn |-> <<>>]
  /\ active = [l \in Loop |-> {}]
  /\ closing = [l \in Loop |-> None]
  /\ erasing = {}
  /\ connections = <<>> /\ raced = FALSE

-----------------------------------------------------------------------------
(* The objects.                                                            *)

(* newConnection is at work on the last connection made.                   *)
Making(c) == c = made /\ base \in {"constructed", "mapping", "mapped", "userSet",
                                   "callbackSet"}

UserSet(c) == ~(c = made /\ base \in {"constructed", "mapping", "mapped"})
CloseSet(c) == ~(c = made /\ base \in {"constructed", "mapping", "mapped", "userSet"})

(* Somebody has a TcpConnectionPtr: newConnection, the map, a functor, or  *)
(* handleClose.                                                            *)
Alive(c) ==
  \/ Making(c)
  \/ c \in Range(connections)
  \/ \E i \in 1 .. numThreads : c \in Range(pending[i]) \cup Range(tempRuns[i])
  \/ \E l \in Loop : closing[l] = c

(* The threads that are changing the map.                                  *)
InMap == erasing \cup (IF base = "mapping" THEN {0} ELSE {})

(* Thread l leaves the map, which it changes to m.  When another is in it  *)
(* the change may be lost, or the program end.                             *)
ChangeMap(l, m) ==
  IF InMap = {l}
  THEN connections' = m /\ UNCHANGED <<raced, crashed>>
  ELSE connections' \in {m, connections} /\ raced' = TRUE /\ crashed' \in BOOLEAN

-----------------------------------------------------------------------------
(* The base loop.                                                          *)

Serving == caller = "serving"

(* The sockets epoll_wait reports: those of gone peers, as long as they    *)
(* are registered, ...                                                     *)
Ready(l) == {c \in Conn : registered[c] /\ loopOf[c] = l /\ peerGone[c]}

(* ... and the listening one, when clients try to connect.                 *)
BasePollReturns ==
  /\ Serving
  /\ base = "poll"
  /\ base' = "dispatch"
  /\ active' \in {[active EXCEPT ![0] = Ready(0)]} \cup
       (IF made < MaxConns THEN {[active EXCEPT ![0] = Ready(0) \cup {Acceptor}]} ELSE {})
  /\ UNCHANGED <<poolVars, connVars, closeVars, mapVars>>

BasePoll == Ready(0) # {} /\ BasePollReturns

(* Acceptor::handleRead, the beginning of newConnection and the            *)
(* constructor of TcpConnection.  newConnection is called with -1 when     *)
(* accept() has failed; epoll refuses that descriptor.                     *)
Accept ==
  /\ base = "dispatch"
  /\ closing[0] = None
  /\ Acceptor \in active[0]
  /\ active' = [active EXCEPT ![0] = @ \ {Acceptor}]
  /\ base' = "constructed"
  /\ made' = made + 1
  /\ loopOf' = [loopOf EXCEPT ![made'] = Pool!NextLoop]
  /\ IF loops = <<>> THEN UNCHANGED next ELSE Pool!Advance
  /\ \/ registered' = [registered EXCEPT ![made'] = TRUE] /\ UNCHANGED fd
     \/ fd' = [fd EXCEPT ![made'] = -1] /\ UNCHANGED registered
  /\ UNCHANGED <<numThreads, caller, cur, io, published, loops, quit, woken, pending,
                 tempRuns, turn, crashed, peerGone, told, closeVars, mapVars>>

(* newConnection has its TcpConnectionPtr, and goes into the map.          *)
EnterMap ==
  /\ base = "constructed"
  /\ base' = "mapping"
  /\ UNCHANGED <<poolVars, connVars, active, closeVars, mapVars>>

(* The map when descriptor d is given connection c.                        *)
MapWith(d, c) ==
  [x \in DOMAIN connections \cup {d} |-> IF x = d THEN c ELSE connections[x]]

AddToMap ==
  /\ base = "mapping"
  /\ base' = "mapped"
  /\ ChangeMap(0, MapWith(fd[made], made))
  /\ UNCHANGED <<numThreads, caller, cur, io, published, loops, next, quit, woken, pending,
                 tempRuns, turn, connVars, active, closeVars>>

setUser ==
  /\ base = "mapped"
  /\ base' = "userSet"
  /\ UNCHANGED <<poolVars, connVars, active, closeVars, mapVars>>

setUpLayerCloseCallback ==
  /\ base = "userSet"
  /\ base' = "callbackSet"
  /\ UNCHANGED <<poolVars, connVars, active, closeVars, mapVars>>

Tell(c, what) == told' = [told EXCEPT ![c] = Append(@, what)]

(* runInLoop(connectEstablished).                                          *)
Establish ==
  /\ base = "callbackSet"
  /\ base' = "dispatch"
  /\ IF loopOf[made] = 0
     THEN Tell(made, "onConnection") /\ UNCHANGED <<pending, woken>>
     ELSE Pool!queueInLoop(loopOf[made], made) /\ UNCHANGED told
  /\ UNCHANGED <<numThreads, caller, cur, io, published, loops, next, quit, tempRuns, turn,
                 crashed, made, fd, loopOf, registered, peerGone, active, closeVars, mapVars>>

newConnection == EnterMap \/ AddToMap \/ setUser \/ setUpLayerCloseCallback \/ Establish

BaseEndDispatch ==
  /\ base = "dispatch"
  /\ closing[0] = None
  /\ active[0] = {}
  /\ base' = "poll"
  /\ UNCHANGED <<poolVars, connVars, active, closeVars, mapVars>>

-----------------------------------------------------------------------------
(* The thread of any loop: a connection is closed.                         *)

Dispatching(l) ==
  /\ IF l = 0 THEN base = "dispatch" ELSE io[l] = "dispatch"
  /\ closing[l] = None

(* Mutant: handleClose leaves the socket in epoll.                         *)
LeaveInEpoll(c) == UNCHANGED registered

(* The index is kDeleted when disableAll updates it.                       *)
DeleteFromEpoll(c) == registered' = [registered EXCEPT ![c] = FALSE]

(* The first half of handleClose.  shared_from_this throws as long as      *)
(* newConnection has no pointer yet.                                       *)
StartClose(l, c) ==
  /\ Dispatching(l)
  /\ c \in active[l] \ {Acceptor}
  /\ Alive(c)
  /\ active' = [active EXCEPT ![l] = @ \ {c}]
  /\ DeleteFromEpoll(c)
  /\ closing' = [closing EXCEPT ![l] = c]
  /\ crashed' = (c = made /\ base = "constructed")
  /\ IF UserSet(c) THEN Tell(c, "onClose") ELSE UNCHANGED told
  /\ UNCHANGED <<numThreads, caller, cur, io, published, loops, next, quit, woken, pending,
                 tempRuns, turn, base, made, fd, loopOf, peerGone, erasing, mapVars>>

(* The event of a connection that was destroyed: anything may follow, the  *)
(* end of the program or nothing.                                          *)
UseFreed(l, c) ==
  /\ Dispatching(l)
  /\ c \in active[l] \ {Acceptor}
  /\ ~Alive(c)
  /\ active' = [active EXCEPT ![l] = @ \ {c}]
  /\ crashed' \in BOOLEAN
  /\ UNCHANGED <<numThreads, caller, cur, io, published, loops, next, quit, woken, pending,
                 tempRuns, turn, base, connVars, closeVars, mapVars>>

(* _closeCallback, when it is set: removeConnection enters the map ...     *)
RunCloseCallback(l) ==
  /\ closing[l] # None
  /\ l \notin erasing
  /\ IF CloseSet(closing[l])
     THEN erasing' = erasing \cup {l} /\ UNCHANGED closing
     ELSE closing' = [closing EXCEPT ![l] = None] /\ UNCHANGED erasing
  /\ UNCHANGED <<poolVars, base, connVars, active, mapVars>>

(* ... and erases the connection by its descriptor.                        *)
removeConnection(l) ==
  /\ l \in erasing
  /\ ChangeMap(l, Restrict(connections, DOMAIN connections \ {fd[closing[l]]}))
  /\ erasing' = erasing \ {l}
  /\ closing' = [closing EXCEPT ![l] = None]
  /\ UNCHANGED <<numThreads, caller, cur, io, published, loops, next, quit, woken, pending,
                 tempRuns, turn, base, connVars, active>>

handleClose(l) ==
  RunCloseCallback(l) \/ removeConnection(l)
    \/ \E c \in Conn : StartClose(l, c) \/ UseFreed(l, c)

-----------------------------------------------------------------------------
(* The threads of the pool.                                                *)

serverVars == <<base, connVars, active, closeVars, mapVars>>

PollReturns(i) ==
  /\ Pool!PollReturns(i)
  /\ active' = [active EXCEPT ![i] = Ready(i)]
  /\ UNCHANGED <<base, connVars, closeVars, mapVars>>

(* epoll_wait has to return when something is ready.                       *)
Poll(i) == (woken[i] \/ Ready(i) # {}) /\ PollReturns(i)

(* It may also return for what is not modelled here: input, an interrupt.  *)
PollOther(i) == PollReturns(i)

EndDispatch(i) ==
  /\ closing[i] = None
  /\ active[i] = {}
  /\ Pool!EndDispatch(i)
  /\ UNCHANGED serverVars

(* connectEstablished.                                                     *)
RunFunctor(i) ==
  /\ Pool!RunFunctor(i)
  /\ Tell(tempRuns[i][turn[i]], "onConnection")
  /\ UNCHANGED <<base, made, fd, loopOf, registered, peerGone, active, closeVars, mapVars>>

ThreadStep(i) == Pool!ThreadStep(i) /\ UNCHANGED serverVars

(* TcpServer::start; the base loop does not run yet.                       *)
start == Pool!start /\ UNCHANGED serverVars
SpuriousWakeup == Pool!SpuriousWakeup /\ UNCHANGED serverVars

-----------------------------------------------------------------------------
(* The end of the server.                                                  *)

PeerGoes(c) ==
  /\ c <= made
  /\ fd[c] # -1
  /\ ~peerGone[c]
  /\ peerGone' = [peerGone EXCEPT ![c] = TRUE]
  /\ UNCHANGED <<poolVars, base, made, fd, loopOf, registered, told, active, closeVars,
                 mapVars>>

(* Mutant: _connections is declared after _threadPool, and destroyed first.*)
LeaveLoopAndMap ==
  /\ base = "poll"
  /\ Pool!Destroy
  /\ base' = "stopping"
  /\ connections' = <<>>
  /\ UNCHANGED <<connVars, active, closeVars, raced>>

(* The base loop has returned, and ~TcpServer runs.  The members are       *)
(* destroyed in the reverse of their order: first the pool, which joins    *)
(* the threads, ...                                                        *)
LeaveLoop ==
  /\ base = "poll"
  /\ Pool!Destroy
  /\ base' = "stopping"
  /\ UNCHANGED <<connVars, active, closeVars, mapVars>>

stop == Pool!stop /\ UNCHANGED serverVars

(* ... and last the map with the connections that are left.                *)
DestroyMap ==
  /\ caller = "destroyed"
  /\ base = "stopping"
  /\ base' = "gone"
  /\ connections' = <<>>
  /\ UNCHANGED <<poolVars, connVars, active, closeVars, raced>>

Thread(i) ==
  PollOther(i) \/ EndDispatch(i) \/ RunFunctor(i) \/ ThreadStep(i)

Next ==
  /\ ~crashed
  /\ \/ start \/ SpuriousWakeup \/ LeaveLoop \/ stop \/ DestroyMap
     \/ BasePollReturns \/ Accept \/ newConnection \/ BaseEndDispatch
     \/ \E i \in 1 .. numThreads : Thread(i)
     \/ \E l \in Loop : handleClose(l)
     \/ \E c \in Conn : PeerGoes(c)

(* Every thread goes on.  A loop waits for ever in epoll_wait when nothing *)
(* is ready, and nobody has to end the server.                             *)
Threads == UNION {1 .. n : n \in Sizes}

Fairness ==
  /\ WF_vars(~crashed /\ (start \/ stop \/ DestroyMap))
  /\ WF_vars(~crashed /\ (BasePoll \/ Accept \/ newConnection \/ BaseEndDispatch
                            \/ handleClose(0)))
  /\ \A i \in Threads :
       WF_vars(/\ ~crashed /\ i <= numThreads
               /\ Poll(i) \/ EndDispatch(i) \/ RunFunctor(i) \/ ThreadStep(i)
                    \/ handleClose(i))

Spec == Init /\ [][Next]_vars /\ Fairness

-----------------------------------------------------------------------------
(* Properties.                                                             *)

(* A loop that getNextLoop may hand out exists until the destructor has    *)
(* told it to quit (EventLoopThread::startLoop and threadFunc).            *)
LoopsServe == Pool!LoopsServe

(* start() returns when all threads could be created.                      *)
StartReturns == Pool!StartReturns

(* As long as a loop may report an event of a connection, the connection   *)
(* its epoll_event points to exists: somebody holds a TcpConnectionPtr,    *)
(* while it is made, served and closed in different threads, and while the *)
(* members of the server are destroyed.                                    *)
Polls(l) == IF l = 0 THEN base \notin {"stopping", "gone"} ELSE io[l] # "ended"

OpenIsKept ==
  ~raced /\ ~crashed =>
    \A c \in Conn :
      Polls(loopOf[c]) /\ (registered[c] \/ c \in active[loopOf[c]]) => Alive(c)

(* The user is told of a connection that it is there at most once and that *)
(* it is closed at most once, and in this order when there is one loop.    *)
ToldInOrder ==
  \A c \in Conn :
    /\ IsInjective(told[c])
    /\ numThreads = 0 => told[c] \in {<<>>, <<"onConnection">>, <<"onConnection", "onClose">>}

(* The user is told of every connection accept() returned, unless the      *)
(* server is destroyed or the program ends before.                         *)
AcceptedIsEstablished ==
  \A c \in Conn :
    c <= made /\ fd[c] # -1 ~>
      ("onConnection" \in Range(told[c]) \/ base \in {"stopping", "gone"} \/ crashed)

(* A server that is being destroyed is gone at last, and has released its  *)
(* connections, those in functors that were never run among them.          *)
StopReleasesAll ==
  base = "stopping" ~> (crashed \/ (base = "gone" /\ \A c \in Conn : ~Alive(c)))

(* The destructor of the pool uses no loop that is gone (EventLoop::quit). *)
QuitFindsLoop == Pool!QuitFindsLoop

(* Two threads are never in the map at once (removeConnection).            *)
MapExclusive == Cardinality(InMap) <= 1

=============================================================================
