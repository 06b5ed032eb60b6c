------------------------------ MODULE TcpClient ------------------------------
(***************************************************************************)
(* A TcpClient (src/src/TcpClient.cc) with its Connector                   *)
(* (src/src/Connector.cc): connect() may be called again and again, in the *)
(* thread of the loop or in another; the Connector watches the socket with *)
(* a Channel of its own until it can be written, and hands it over to a    *)
(* TcpConnection with another Channel for the same descriptor.             *)
(*                                                                         *)
(* An epoll instance keeps for a descriptor a pointer to a Channel, and    *)
(* does not know whether that Channel still exists.  Nobody closes a       *)
(* socket that was watched, so that attempt k has a descriptor of its own, *)
(* k.  The loop is that of module EventLoop.                               *)
(***************************************************************************)
EXTENDS Integers, Sequences, Functions

CONSTANTS
  Callers,       \* the values careful may have
  MaxAttempts    \* bound: how often connect() is called

ASSUME CallersAssumption == Callers \subseteq BOOLEAN
ASSUME MaxAttemptsAssumption == MaxAttempts \in Nat

Attempt == 1 .. MaxAttempts
None == 0

VARIABLES
  careful,     \* does the user call connect() only when nothing is going on?
  asked,       \* how often connect() was called
  made,        \* how many sockets were made; the last is _sockFd
  sock,        \* what became of each socket
  chan,        \* the descriptor of _pSockChan, or None
  watch,       \* the Channel that epoll has for each descriptor
  connection,  \* the descriptor of _connection, or None
  closeSet,    \* the connections that have a close callback
  held,        \* the connections the user keeps a TcpConnectionPtr of
  told,        \* what the user was told of each, in order
  pc,          \* where the thread of the loop is
  at,          \* the connection whose callback it is in, or None
  active,      \* activeChannels, still to be handled
  pending,     \* _pendingFunctors
  tempRuns,    \* the functors doPendingFunctors has still to run
  crashed      \* has the program ended?

connectorVars == <<asked, made, chan>>
clientVars == <<connection, closeSet, held, told>>
loopVars == <<pc, at, active, tempRuns>>
vars == <<careful, connectorVars, sock, watch, clientVars, loopVars, pending, crashed>>

Watchers == {"connector", "connection"}

TypeOK ==
  /\ careful \in Callers
  /\ asked \in 0 .. MaxAttempts
  /\ made \in 0 .. asked
  /\ sock \in [Attempt -> {"none", "connecting", "up", "gone", "failed", "unconnected",
                           "closed"}]
  /\ chan \in 0 .. made
  /\ watch \in [Attempt -> Watchers \cup {"none"}]
  /\ connection \in 0 .. made
  /\ closeSet \subseteq 1 .. made /\ held \subseteq 1 .. made
  /\ told \in [Attempt -> Seq({"onConnection", "onClose"})]
  /\ pc \in {"dispatch", "onConnection", "onClose", "functors", "poll"}
  /\ at \in 0 .. made
  /\ (at # None) <=> pc \in {"onConnection", "onClose"}
  /\ active \subseteq Attempt \X Watchers
  /\ pending \in Seq({"connect", "resetChannel"})
  /\ tempRuns \in Seq({"connect", "resetChannel"})
  /\ crashed \in BOOLEAN

(* What the thread does before it calls loop() it may do in a handler.     *)
Init ==
  /\ careful \in Callers
  /\ asked = 0 /\ made = 0 /\ chan = None
  /\ sock = [k \in Attempt |-> "none"]
  /\ watch = [k \in Attempt |-> "none"]
  /\ connection = None /\ closeSet = {} /\ held = {}
  /\ told = [k \in Attempt |-> <<>>]
  /\ pc = "dispatch" /\ at = None /\ active = {}
  /\ pending = <<>> /\ tempRuns = <<>>
  /\ crashed = FALSE

-----------------------------------------------------------------------------
(* The Channels.                                                           *)

(* Somebody has a TcpConnectionPtr: the client, the user, newConnection or *)
(* handleClose.                                                            *)
Alive(k) == connection = k \/ k \in held \/ at = k

Exists(k, who) == IF who = "connector" THEN chan = k ELSE Alive(k)

(* A socket that is not, or no longer, connected.                          *)
Dead(k) == sock[k] \in {"gone", "failed", "unconnected"}

(* What epoll_wait reports: a socket that connects can be written when the *)
(* attempt is decided, however; one that is not connected has hung up.     *)
Ready ==
  {e \in Attempt \X Watchers :
     /\ watch[e[1]] = e[2]
     /\ e[2] = "connector" => sock[e[1]] # "connecting"
     /\ e[2] = "connection" => Dead(e[1])}

-----------------------------------------------------------------------------
(* Connector::connect, in the loop's thread.                               *)

(* Mutant: the Channel is not registered.                                  *)
WatchNothing(k) == chan' = k /\ UNCHANGED watch

(* A new Channel takes the place of the one there is.                      *)
WatchConnecting(k) ==
  /\ chan' = k
  /\ watch' = [watch EXCEPT ![k] = "connector"]

(* The call may succeed or be in progress, fail in a way in which trying   *)
(* again might help, or fail otherwise.                                    *)
connect ==
  /\ made' = made + 1
  /\ \/ /\ sock' = [sock EXCEPT ![made'] = "connecting"]
        /\ WatchConnecting(made')
     \/ /\ sock' = [sock EXCEPT ![made'] = "unconnected"]
        /\ UNCHANGED <<chan, watch>>
     \/ /\ sock' = [sock EXCEPT ![made'] = "closed"]
        /\ UNCHANGED <<chan, watch>>

(* A careful user has no connection, or is just told that it has gone, and *)
(* no attempt under way.                                                   *)
Idle ==
  /\ asked = made
  /\ chan = None
  /\ "resetChannel" \notin Range(pending) \cup Range(tempRuns)
  /\ pc # "onConnection"
  /\ connection = None \/ (pc = "onClose" /\ at = connection)

MayConnect == asked < MaxAttempts /\ (careful => Idle)

(* The user calls connect() in the loop's thread: in a callback of this    *)
(* client, in the handler of another descriptor, in a functor.             *)
ConnectInThread ==
  /\ MayConnect
  /\ pc \in {"dispatch", "onConnection", "onClose", "functors"}
  /\ asked' = asked + 1
  /\ connect
  /\ UNCHANGED <<careful, clientVars, loopVars, pending, crashed>>

(* Another thread calls it.                                                *)
ConnectFromOther ==
  /\ MayConnect
  /\ asked' = asked + 1
  /\ pending' = Append(pending, "connect")
  /\ UNCHANGED <<careful, made, chan, sock, watch, clientVars, loopVars, crashed>>

(* Connector::stop, which TcpClient does not offer.  Bound: once at a time.*)
stop ==
  /\ ~careful
  /\ "resetChannel" \notin Range(pending)
  /\ pending' = Append(pending, "resetChannel")
  /\ UNCHANGED <<careful, connectorVars, sock, watch, clientVars, loopVars, crashed>>

-----------------------------------------------------------------------------
(* The events.                                                             *)

InDispatch(k, who) ==
  /\ pc = "dispatch"
  /\ <<k, who>> \in active
  /\ active' = active \ {<<k, who>>}

(* Mutant: the socket stays registered for the Channel of the Connector,   *)
(* so that it cannot be added for that of the connection.                  *)
HandOverAdded(c, k) == UNCHANGED watch

(* The Channel c of the Connector is deleted, and the constructor of the   *)
(* TcpConnection adds its own, for k.                                      *)
HandOver(c, k) == watch' = [watch EXCEPT ![c] = "none", ![k] = "connection"]

(* Connector::handleWrite and TcpClient::newConnection up to the call of   *)
(* onConnection.  The socket is _sockFd, whichever socket can be written;  *)
(* that getsockopt reports an error of the connect is not looked at.       *)
handleWrite(k) ==
  /\ InDispatch(k, "connector")
  /\ chan = k
  /\ IF sock[made] = "closed"
     THEN UNCHANGED <<watch, told, pc, at, pending>>
     ELSE /\ HandOver(chan, made)
          /\ pending' = Append(pending, "resetChannel")
          /\ told' = [told EXCEPT ![made] = Append(@, "onConnection")]
          /\ pc' = "onConnection"
          /\ at' = made
  /\ UNCHANGED <<careful, connectorVars, sock, connection, closeSet, held, tempRuns,
                 crashed>>

(* Mutant: the close callback is not set.                                  *)
AdoptWithoutCallback ==
  /\ pc = "onConnection"
  /\ pc' = "dispatch"
  /\ at' = None
  /\ connection' = at
  /\ held' \in {held, held \cup {at}}
  /\ UNCHANGED <<careful, connectorVars, sock, watch, closeSet, told, active, tempRuns,
                 pending, crashed>>

(* Mutant: newConnection never gives up its own pointer.                   *)
AdoptAndKeep ==
  /\ pc = "onConnection"
  /\ pc' = "dispatch"
  /\ closeSet' = closeSet \cup {at}
  /\ connection' = at
  /\ held' \in {held, held \cup {at}}
  /\ UNCHANGED <<careful, connectorVars, sock, watch, at, told, active, tempRuns, pending,
                 crashed>>

(* The rest of newConnection, when the callback has returned.  The user    *)
(* may have kept the pointer it got.                                       *)
Adopt ==
  /\ pc = "onConnection"
  /\ pc' = "dispatch"
  /\ at' = None
  /\ closeSet' = closeSet \cup {at}
  /\ connection' = at
  /\ held' \in {held, held \cup {at}}
  /\ UNCHANGED <<careful, connectorVars, sock, watch, told, active, tempRuns, pending,
                 crashed>>

(* TcpConnection::handleClose up to the call of onClose.                   *)
handleClose(k) ==
  /\ InDispatch(k, "connection")
  /\ Alive(k)
  /\ watch' = [watch EXCEPT ![k] = "none"]
  /\ told' = [told EXCEPT ![k] = Append(@, "onClose")]
  /\ pc' = "onClose"
  /\ at' = k
  /\ UNCHANGED <<careful, connectorVars, sock, connection, closeSet, held, tempRuns,
                 pending, crashed>>

(* The rest of it, when the callback has returned, in which the user may   *)
(* have given up the pointer it kept.                                      *)
removeConnection ==
  /\ pc = "onClose"
  /\ pc' = "dispatch"
  /\ at' = None
  /\ connection' = IF at \in closeSet /\ connection = at THEN None ELSE connection
  /\ held' \in {held, held \ {at}}
  /\ UNCHANGED <<careful, connectorVars, sock, watch, closeSet, told, active, tempRuns,
                 pending, crashed>>

(* The event of a Channel that was destroyed: the end of the program or    *)
(* nothing.                                                                *)
UseFreed ==
  \E k \in Attempt, who \in Watchers :
    /\ InDispatch(k, who)
    /\ ~Exists(k, who)
    /\ crashed' \in BOOLEAN
    /\ UNCHANGED <<careful, connectorVars, sock, watch, clientVars, pc, at, tempRuns,
                   pending>>

-----------------------------------------------------------------------------
(* The loop.                                                               *)

PollReturns ==
  /\ pc = "poll"
  /\ pc' = "dispatch"
  /\ active' = Ready
  /\ UNCHANGED <<careful, connectorVars, sock, watch, clientVars, at, tempRuns, pending,
                 crashed>>

(* It has to when a socket or the eventfd is ready.                        *)
Poll == (Ready # {} \/ pending # <<>>) /\ PollReturns

(* The event of another descriptor.                                        *)
PollOther == PollReturns

EndDispatch ==
  /\ pc = "dispatch"
  /\ active = {}
  /\ pc' = "functors"
  /\ tempRuns' = pending
  /\ pending' = <<>>
  /\ UNCHANGED <<careful, connectorVars, sock, watch, clientVars, at, active, crashed>>

NextFunctor(f) ==
  /\ pc = "functors"
  /\ tempRuns # <<>>
  /\ Head(tempRuns) = f
  /\ tempRuns' = Tail(tempRuns)

RunConnect ==
  /\ NextFunctor("connect")
  /\ connect
  /\ UNCHANGED <<careful, asked, clientVars, pc, at, active, pending, crashed>>

(* The Channel is destroyed, whatever it is registered for.                *)
resetChannel ==
  /\ NextFunctor("resetChannel")
  /\ chan' = None
  /\ UNCHANGED <<careful, asked, made, sock, watch, clientVars, pc, at, active, pending,
                 crashed>>

EndFunctors ==
  /\ pc = "functors"
  /\ tempRuns = <<>>
  /\ pc' = "poll"
  /\ UNCHANGED <<careful, connectorVars, sock, watch, clientVars, at, active, tempRuns,
                 pending, crashed>>

-----------------------------------------------------------------------------
(* The network.                                                            *)

Decide(k) ==
  /\ sock[k] = "connecting"
  /\ \E s \in {"up", "failed"} : sock' = [sock EXCEPT ![k] = s]
  /\ UNCHANGED <<careful, connectorVars, watch, clientVars, loopVars, pending, crashed>>

PeerGoes(k) ==
  /\ sock[k] = "up"
  /\ sock' = [sock EXCEPT ![k] = "gone"]
  /\ UNCHANGED <<careful, connectorVars, watch, clientVars, loopVars, pending, crashed>>

LoopStep ==
  \/ EndDispatch \/ RunConnect \/ resetChannel \/ EndFunctors
  \/ Adopt \/ removeConnection \/ UseFreed
  \/ \E k \in Attempt : handleWrite(k) \/ handleClose(k)

Next ==
  /\ ~crashed
  /\ \/ ConnectInThread \/ ConnectFromOther \/ stop
     \/ LoopStep \/ PollOther
     \/ \E k \in Attempt : Decide(k) \/ PeerGoes(k)

(* The loop's thread goes on, and waits only when nothing is ready.        *)
Fairness == WF_vars(~crashed /\ (LoopStep \/ Poll))

Spec == Init /\ [][Next]_vars /\ Fairness

-----------------------------------------------------------------------------
(* Properties.                                                             *)

(* The Channel that epoll has for a descriptor, or that a handler is still *)
(* to be called of, exists, when connect() is called with care.            *)
EpollFindsChannel ==
  careful =>
    \A k \in Attempt, who \in Watchers :
      watch[k] = who \/ <<k, who>> \in active => Exists(k, who)

(* An attempt under way that succeeds ends with onConnection, with the     *)
(* same care, also when the peer goes before its event is handled.  Of one *)
(* that fails nothing is demanded.                                         *)
ConnectedIsTold ==
  \A k \in Attempt :
    careful /\ chan = k /\ sock[k] \in {"up", "gone"} ~> told[k] # <<>>

(* The client gets rid of a dead connection, whoever calls connect().      *)
DeadIsDropped ==
  \A k \in Attempt :
    connection = k /\ Dead(k) ~> (connection # k \/ crashed)

(* The user is told only of connections that came about                    *)
(* (src/src/Connector.cc:83).                                              *)
OnlyConnectedIsReported ==
  \A k \in Attempt : told[k] # <<>> => sock[k] \in {"up", "gone"}

=============================================================================
