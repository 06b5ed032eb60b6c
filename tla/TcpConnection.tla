---------------------------- MODULE TcpConnection ----------------------------
(***************************************************************************)
(* One connection of a TcpServer: TcpServer::newConnection builds it in    *)
(* the thread of the base loop (src/src/TcpServer.cc), its Channel         *)
(* (src/src/Channel.cc) is registered with the loop of an IO thread        *)
(* (src/src/Epoll.cc), which handles its events and runs its functors, and *)
(* it is unmade when the peer has gone (src/src/TcpConnection.cc).         *)
(*                                                                         *)
(* Bytes that write() does not take wait in _outBuf, here a queue of bytes *)
(* as in module ByteQueue, and EPOLLOUT is watched until they are gone.    *)
(* The loop is that of module EventLoop, its queue of functors the one of  *)
(* module TaskQueue.                                                       *)
(***************************************************************************)
EXTENDS Integers, Sequences, FiniteSets, Functions

CONSTANTS
  Pools,         \* may the server have IO threads?  The values multi may have
  Message,       \* the messages the user sends, each once
  MessageSize,   \* how many bytes a message has
  MaxRoom,       \* the size of the socket's send buffer
  MaxInput       \* bound: how many pieces of data the peer sends

ASSUME PoolsAssumption == Pools \subseteq BOOLEAN
ASSUME SizeAssumption ==
  MessageSize \in Nat \ {0} /\ MaxRoom \in Nat \ {0} /\ MaxInput \in Nat

VARIABLES
  multi,       \* is the loop of the connection another than the base loop?
  base,        \* where newConnection is
  user,        \* is _pUser set?
  closeSet,    \* is _closeCallback set?
  mapped,      \* is the connection in the server's _connections?
  held,        \* does the user keep a TcpConnectionPtr?
  pc,          \* where the thread of the connection's loop is
  revents,     \* the Channel's _revents that handleEvent has still to look at
  index,       \* the Channel's _index
  events,      \* the Channel's _events
  registered,  \* is the socket in the epoll instance?
  watched,     \* what epoll watches it for
  outBuf,      \* _outBuf
  functors,    \* the functors of the loop that are about this connection,
               \* those of the batch being run first
  batch,       \* how many functors doPendingFunctors has swapped out
  turn,        \* which of them is next
  room,        \* how many bytes the socket takes at once
  input,       \* the pieces of data that wait to be read
  arrived,     \* how many arrived
  peer,        \* what the socket knows of the peer
  sent,        \* the messages given to send
  accepted,    \* the bytes sendInLoop took charge of, in order
  wire,        \* the bytes written to the socket, in order
  completeAt,  \* Len(wire) when onWriteComplate was last queued
  closes,      \* how often handleClose ran
  cause        \* what ended the program

serverVars == <<multi, base, mapped, closeSet, user>>
channelVars == <<index, events, registered, watched>>
loopVars == <<pc, revents>>
queueVars == <<functors, batch, turn>>
socketVars == <<room, input, arrived, peer>>
outVars == <<outBuf, accepted, wire, completeAt>>
historyVars == <<sent, closes, cause>>
vars == <<serverVars, held, loopVars, channelVars, outVars, queueVars, socketVars,
          historyVars>>

Byte == Message \X (1 .. MessageSize)
Events == {"IN", "OUT"}
Bytes(m) == [i \in 1 .. MessageSize |-> <<m, i>>]

Functor == {<<"established">>, <<"complete">>} \cup ({"send"} \X Message)
Callbacks == {"onMessage", "onClose", "onFunctor", "onConnection"}

TypeOK ==
  /\ multi \in Pools
  /\ base \in {"accept", "constructed", "mapped", "userSet", "callbackSet", "done"}
  /\ user \in BOOLEAN /\ closeSet \in BOOLEAN /\ mapped \in BOOLEAN /\ held \in BOOLEAN
  /\ pc \in {"poll", "dispatch", "event", "closing", "functors", "stopped"} \cup Callbacks
  /\ revents \subseteq Events \cup {"HUP"}
  /\ index \in {"kNew", "kAdded", "kDeleted"}
  /\ events \subseteq Events
  /\ registered \in BOOLEAN /\ watched \subseteq Events
  /\ outBuf \in Seq(Byte) /\ accepted \in Seq(Byte) /\ wire \in Seq(Byte)
  /\ completeAt \in Nat
  /\ functors \in Seq(Functor)
  /\ batch \in 0 .. Len(functors) /\ turn \in 1 .. batch + 1
  /\ room \in 0 .. MaxRoom /\ input \in Nat /\ arrived \in 0 .. MaxInput
  /\ peer \in {"open", "fin", "reset", "gone"}
  /\ sent \subseteq Message
  /\ closes \in Nat
  /\ cause \in {"none", "unset", "writeError", "freed", "signal"}

Init ==
  /\ multi \in Pools
  /\ base = "accept"
  /\ user = FALSE /\ closeSet = FALSE /\ mapped = FALSE /\ held = FALSE
  /\ pc = "poll" /\ revents = {}
  /\ index = "kNew" /\ events = {} /\ registered = FALSE /\ watched = {}
  /\ outBuf = <<>> /\ accepted = <<>> /\ wire = <<>> /\ completeAt = 0
  /\ functors = <<>> /\ batch = 0 /\ turn = 1
  /\ room = MaxRoom /\ input = 0 /\ arrived = 0 /\ peer = "open"
  /\ sent = {} /\ closes = 0 /\ cause = "none"

-----------------------------------------------------------------------------
(* The object.                                                             *)

(* The functors that hold a TcpConnectionPtr; those of a batch are         *)
(* destroyed when it ends.  The other two kinds hold `this'.               *)
HoldsPointer == \E i \in DOMAIN functors : functors[i][1] = "established"

(* The connection, and with it its Channel, exists as long as somebody has *)
(* a TcpConnectionPtr: newConnection, the server, the user, a functor, the *)
(* call of a callback, or handleClose (guardThis).                         *)
Alive ==
  \/ base \in {"constructed", "mapped", "userSet", "callbackSet"}
  \/ mapped
  \/ held
  \/ HoldsPointer
  \/ pc \in Callbacks \cup {"closing"}

(* Channel::update and Epoll::update.  Removing a descriptor that is not   *)
(* registered fails, and nothing is registered.                            *)
update(idx, evs) ==
  /\ events' = evs
  /\ index' = IF idx = "kNew" THEN "kAdded" ELSE idx
  /\ registered' = (idx # "kDeleted")
  /\ watched' = IF idx = "kDeleted" THEN {} ELSE evs

(* The end of the program.                                                 *)
Stop(why) ==
  /\ pc' = "stopped"
  /\ cause' = why

-----------------------------------------------------------------------------
(* newConnection, in the thread of the base loop.                          *)

(* In a server with one loop newConnection is part of the handler of the   *)
(* acceptor's channel, and the loop goes on when it has returned.          *)
BaseRuns == pc # "stopped" /\ (multi \/ (pc = "dispatch" /\ revents = {}))
LoopRuns == multi \/ base \in {"accept", "done"}

(* The constructor ends with enableReading.                                *)
Construct ==
  /\ BaseRuns
  /\ base = "accept"
  /\ base' = "constructed"
  /\ update(index, events \cup {"IN"})
  /\ UNCHANGED <<multi, mapped, closeSet, user, held, loopVars, outVars, queueVars,
                 socketVars, historyVars>>

AddToMap ==
  /\ BaseRuns
  /\ base = "constructed"
  /\ base' = "mapped"
  /\ mapped' = TRUE
  /\ UNCHANGED <<multi, closeSet, user, held, loopVars, channelVars, outVars, queueVars,
                 socketVars, historyVars>>

setUser ==
  /\ BaseRuns
  /\ base = "mapped"
  /\ base' = "userSet"
  /\ user' = TRUE
  /\ UNCHANGED <<multi, mapped, closeSet, held, loopVars, channelVars, outVars, queueVars,
                 socketVars, historyVars>>

setUpLayerCloseCallback ==
  /\ BaseRuns
  /\ base = "userSet"
  /\ base' = "callbackSet"
  /\ closeSet' = TRUE
  /\ UNCHANGED <<multi, mapped, user, held, loopVars, channelVars, outVars, queueVars,
                 socketVars, historyVars>>

(* runInLoop(connectEstablished): at once in the loop's own thread.        *)
Establish ==
  /\ BaseRuns
  /\ base = "callbackSet"
  /\ base' = "done"
  /\ IF multi
     THEN functors' = Append(functors, <<"established">>) /\ UNCHANGED pc
     ELSE pc' = "onConnection" /\ UNCHANGED functors
  /\ UNCHANGED <<multi, mapped, closeSet, user, held, revents, channelVars, outVars, batch,
                 turn, socketVars, historyVars>>

newConnection == Construct \/ AddToMap \/ setUser \/ setUpLayerCloseCallback \/ Establish

-----------------------------------------------------------------------------
(* Sending.                                                                *)

Least(a, b) == IF a < b THEN a ELSE b

(* What write() of len bytes may return.                                   *)
WriteResults(len) ==
  IF room = 0 \/ peer \in {"reset", "gone"} THEN {-1} ELSE 1 .. Least(room, len)

isWriting == "OUT" \in events

enableWriting == IF isWriting THEN UNCHANGED channelVars
                              ELSE update(index, events \cup {"OUT"})

queueInLoop(f) == functors' = Append(functors, f)

(* Mutant: what write() did not take is kept, but not watched for.         *)
KeepUnwatched(bytes) == outBuf' = outBuf \o bytes /\ UNCHANGED channelVars

(* The end of sendInLoop: what write() did not take is kept.               *)
KeepUnwritten(bytes) == outBuf' = outBuf \o bytes /\ enableWriting

(* Mutant: bytes that wait in _outBuf are overtaken.                       *)
OvertakeWaiting == TRUE

(* Only when nothing waits is it sent at once.                             *)
NothingWaits == outBuf = <<>>

(* write() took n bytes of the message, all of them or some.               *)
Wrote(m, n) ==
  /\ room' = room - n
  /\ wire' = wire \o SubSeq(Bytes(m), 1, n)
  /\ IF n = MessageSize
     THEN /\ queueInLoop(<<"complete">>)
          /\ completeAt' = Len(wire')
          /\ UNCHANGED <<outBuf, channelVars>>
     ELSE /\ KeepUnwritten(SubSeq(Bytes(m), n + 1, MessageSize))
          /\ UNCHANGED <<functors, completeAt>>

(* sendInLoop in the loop's thread, which continues at `after'.  When      *)
(* write() fails, message.substr(-1) throws, and nothing catches it.       *)
sendInLoop(m, after) ==
  /\ IF NothingWaits
     THEN \E n \in WriteResults(MessageSize) :
            IF n < 0
            THEN /\ Stop("writeError")
                 /\ UNCHANGED <<channelVars, outVars, functors, room>>
            ELSE /\ Wrote(m, n)
                 /\ accepted' = accepted \o Bytes(m)
                 /\ pc' = after
                 /\ UNCHANGED cause
     ELSE /\ KeepUnwritten(Bytes(m))
          /\ accepted' = accepted \o Bytes(m)
          /\ pc' = after
          /\ UNCHANGED <<wire, completeAt, functors, room, cause>>
  /\ UNCHANGED <<input, arrived, peer, closes>>

(* The user's code in the loop's thread: the callbacks of this connection  *)
(* and, with a pointer kept, the handlers and functors of others.          *)
UserCode ==
  /\ LoopRuns
  /\ \/ pc \in Callbacks
     \/ held /\ pc \in {"dispatch", "functors"} /\ revents = {}

SendInThread(m) ==
  /\ UserCode
  /\ m \notin sent
  /\ sent' = sent \cup {m}
  /\ sendInLoop(m, pc)
  /\ UNCHANGED <<serverVars, held, revents, batch, turn>>

(* Another thread, with a pointer of its own: send() goes through the      *)
(* queue of functors, which gets `this' and a copy of the message.         *)
SendFromOther(m) ==
  /\ held
  /\ pc # "stopped"
  /\ m \notin sent
  /\ sent' = sent \cup {m}
  /\ queueInLoop(<<"send", m>>)
  /\ UNCHANGED <<serverVars, held, loopVars, channelVars, outVars, batch, turn,
                 socketVars, closes, cause>>

(* The user copies the TcpConnectionPtr of a callback.                     *)
Keep ==
  /\ pc \in Callbacks
  /\ ~held
  /\ held' = TRUE
  /\ UNCHANGED <<serverVars, loopVars, channelVars, outVars, queueVars, socketVars,
                 historyVars>>

Drop ==
  /\ UserCode
  /\ held
  /\ held' = FALSE
  /\ UNCHANGED <<serverVars, loopVars, channelVars, outVars, queueVars, socketVars,
                 historyVars>>

-----------------------------------------------------------------------------
(* The loop's thread.                                                      *)

HungUp == peer \in {"reset", "gone"}
ReadyToRead == input > 0 \/ peer # "open"
ReadyToWrite == room > 0 \/ HungUp

(* What epoll_wait reports of the socket.                                  *)
Reported ==
  IF ~registered THEN {}
  ELSE {e \in watched : (e = "IN" /\ ReadyToRead) \/ (e = "OUT" /\ ReadyToWrite)}
       \cup (IF HungUp THEN {"HUP"} ELSE {})

(* A hang-up that is just happening may be seen before the end of input.   *)
PollReturns ==
  /\ LoopRuns
  /\ pc = "poll"
  /\ pc' = "dispatch"
  /\ revents' \in {Reported} \cup
       (IF registered /\ HungUp /\ input = 0 THEN {Reported \ {"IN"}} ELSE {})
  /\ UNCHANGED <<serverVars, held, channelVars, outVars, queueVars, socketVars,
                 historyVars>>

(* It has to when the socket, or the eventfd of queueInLoop, is ready.     *)
Poll == (Reported # {} \/ functors # <<>>) /\ PollReturns

(* The event of another descriptor.                                        *)
PollOther == PollReturns

StartEvent ==
  /\ LoopRuns
  /\ pc = "dispatch"
  /\ revents # {}
  /\ pc' = "event"
  /\ UNCHANGED <<serverVars, held, revents, channelVars, outVars, queueVars,
                 socketVars, historyVars>>

(* Mutant: the descriptor is removed before the index says so.             *)
DisableThenDelete ==
  /\ events' = {}
  /\ watched' = {}
  /\ index' = "kDeleted"
  /\ UNCHANGED registered

(* handleClose takes the socket out of epoll, for good.                    *)
DeleteFromEpoll == update("kDeleted", {})

(* handleClose until it calls onClose, or has found no user to tell.  As   *)
(* long as newConnection has not made a shared_ptr of the object           *)
(* shared_from_this() throws.                                              *)
handleClose(rest) ==
  /\ DeleteFromEpoll
  /\ closes' = closes + 1
  /\ revents' = rest
  /\ \/ base = "constructed" /\ Stop("unset")
     \/ pc' = (IF user THEN "onClose" ELSE "closing") /\ UNCHANGED cause
  /\ UNCHANGED <<serverVars, held, outVars, queueVars, sent>>

(* Mutant: the upper layer is not told.                                    *)
ReturnFromCloseOnly ==
  /\ pc \in {"onClose", "closing"}
  /\ pc' = "event"
  /\ UNCHANGED <<serverVars, held, revents, channelVars, outVars, queueVars, socketVars,
                 historyVars>>

(* onClose has returned, or there was no user; handleClose calls           *)
(* removeConnection of the server if it finds _closeCallback set by now.   *)
OnCloseReturns ==
  /\ pc \in {"onClose", "closing"}
  /\ mapped' = (mapped /\ ~closeSet)
  /\ pc' = "event"
  /\ UNCHANGED <<multi, base, closeSet, user, held, revents, channelVars, outVars, queueVars,
                 socketVars, historyVars>>

(* handleEvent: the first branch, for a hang-up without input.             *)
HandleHangup ==
  /\ Alive
  /\ pc = "event"
  /\ "HUP" \in revents /\ "IN" \notin revents
  /\ handleClose(revents \ {"HUP"})
  /\ UNCHANGED socketVars

AfterRead == revents \ {"IN", "HUP"}

(* handleRead when the socket has data: readFd takes some or all of it.    *)
HandleMessage ==
  /\ Alive
  /\ pc = "event"
  /\ "IN" \in revents
  /\ input > 0
  /\ revents' = AfterRead
  /\ \E n \in 0 .. input - 1 : input' = n
  /\ IF user THEN pc' = "onMessage" /\ UNCHANGED cause
             ELSE Stop("unset")      \* _pUser is NULL
  /\ UNCHANGED <<serverVars, held, channelVars, outVars, queueVars, room, arrived, peer,
                 sent, closes>>

MessageReturns ==
  /\ pc = "onMessage"
  /\ pc' = "event"
  /\ UNCHANGED <<serverVars, held, revents, channelVars, outVars, queueVars, socketVars,
                 historyVars>>

(* Mutant: the end of the stream is taken for nothing to read.             *)
IgnoreEnd ==
  /\ Alive
  /\ pc = "event"
  /\ "IN" \in revents
  /\ input = 0
  /\ revents' = AfterRead
  /\ UNCHANGED <<serverVars, held, pc, channelVars, outVars, queueVars, socketVars,
                 historyVars>>

(* handleRead at the end of the stream, or with ECONNRESET.                *)
HandleEnd ==
  /\ Alive
  /\ pc = "event"
  /\ "IN" \in revents
  /\ input = 0
  /\ handleClose(AfterRead)
  /\ UNCHANGED socketVars

(* handleRead with another error, which is ignored.  The kernel reports an *)
(* error once, the end of the stream from then on.                         *)
HandleReadError ==
  /\ Alive
  /\ pc = "event"
  /\ "IN" \in revents
  /\ input = 0 /\ peer = "reset"
  /\ peer' = "gone"
  /\ revents' = AfterRead
  /\ UNCHANGED <<serverVars, held, pc, channelVars, outVars, queueVars, room, input,
                 arrived, historyVars>>

(* Mutant: the last byte is written and nobody is told.                    *)
DrainedSilently == update(index, events \ {"OUT"}) /\ UNCHANGED <<functors, completeAt>>

(* Nothing waits any more: disableWriting, and onWriteComplate is queued.  *)
Drained ==
  /\ update(index, events \ {"OUT"})
  /\ queueInLoop(<<"complete">>)
  /\ completeAt' = Len(wire')

(* handleWrite.  To write to a socket that was reset may end the program   *)
(* with SIGPIPE.                                                           *)
handleWrite ==
  /\ Alive
  /\ pc = "event"
  /\ revents = {"OUT"}
  /\ revents' = {}
  /\ IF isWriting
     THEN \E n \in WriteResults(Len(outBuf)) :
            IF n < 0
            THEN /\ (HungUp /\ Stop("signal")) \/ UNCHANGED <<pc, cause>>
                 /\ UNCHANGED <<channelVars, outVars, functors, room>>
            ELSE /\ room' = room - n
                 /\ wire' = wire \o SubSeq(outBuf, 1, n)
                 /\ outBuf' = SubSeq(outBuf, n + 1, Len(outBuf))
                 /\ IF n = Len(outBuf)
                    THEN Drained
                    ELSE UNCHANGED <<channelVars, functors, completeAt>>
                 /\ UNCHANGED <<accepted, pc, cause>>
     ELSE UNCHANGED <<channelVars, outVars, functors, room, pc, cause>>
  /\ UNCHANGED <<serverVars, held, batch, turn, input, arrived, peer, sent, closes>>

EndEvent ==
  /\ pc = "event"
  /\ revents = {} /\ Alive
  /\ pc' = "dispatch"
  /\ UNCHANGED <<serverVars, held, revents, channelVars, outVars, queueVars,
                 socketVars, historyVars>>

(* handleEvent reads _revents of a Channel that its callback has freed.    *)
(* What it finds there may make it return, or call handleWrite through     *)
(* freed memory, and nothing is known of the program from then on.         *)
EventOfFreed ==
  /\ pc = "event"
  /\ ~Alive
  /\ revents' = {}
  /\ Stop("freed") \/ (pc' = "dispatch" /\ UNCHANGED cause)
  /\ UNCHANGED <<serverVars, held, channelVars, outVars, queueVars, socketVars, sent,
                 closes>>

EndDispatch ==
  /\ LoopRuns
  /\ pc = "dispatch"
  /\ revents = {}
  /\ pc' = "functors"
  /\ batch' = Len(functors)
  /\ turn' = 1
  /\ UNCHANGED <<serverVars, held, revents, channelVars, outVars, functors, socketVars,
                 historyVars>>

Current == functors[turn]
RunsFunctor == pc = "functors" /\ turn <= batch

(* connectEstablished and onWriteComplateCB call the user.                 *)
RunCallback ==
  /\ RunsFunctor
  /\ Alive
  /\ Current[1] # "send"
  /\ turn' = turn + 1
  /\ pc' = IF user THEN "onFunctor" ELSE "functors"
  /\ UNCHANGED <<serverVars, held, revents, channelVars, outVars, functors, batch,
                 socketVars, historyVars>>

(* onMessageCB.                                                            *)
RunSend ==
  /\ RunsFunctor
  /\ Alive
  /\ Current[1] = "send"
  /\ turn' = turn + 1
  /\ sendInLoop(Current[2], pc)
  /\ UNCHANGED <<serverVars, held, revents, batch, sent>>

(* The functor's `this' was freed.                                         *)
RunOnFreed ==
  /\ RunsFunctor
  /\ ~Alive
  /\ turn' = turn + 1
  /\ Stop("freed") \/ UNCHANGED <<pc, cause>>
  /\ UNCHANGED <<serverVars, held, revents, channelVars, outVars, functors, batch,
                 socketVars, sent, closes>>

CallbackReturns ==
  /\ pc' = CASE pc = "onFunctor" -> "functors" [] pc = "onConnection" -> "dispatch"
             [] OTHER -> pc
  /\ pc' # pc
  /\ UNCHANGED <<serverVars, held, revents, channelVars, outVars, queueVars, socketVars,
                 historyVars>>

(* The batch is over: its functors are destroyed.                          *)
EndFunctors ==
  /\ pc = "functors"
  /\ turn > batch
  /\ functors' = SubSeq(functors, batch + 1, Len(functors))
  /\ batch' = 0
  /\ turn' = 1
  /\ pc' = "poll"
  /\ UNCHANGED <<serverVars, held, revents, channelVars, outVars, socketVars,
                 historyVars>>

HandleEvent ==
  \/ HandleHangup
  \/ HandleMessage
  \/ HandleEnd
  \/ HandleReadError
  \/ handleWrite

LoopStep ==
  \/ Poll \/ StartEvent \/ HandleEvent \/ MessageReturns \/ OnCloseReturns
  \/ EndEvent \/ EventOfFreed \/ EndDispatch
  \/ RunCallback \/ RunSend \/ RunOnFreed \/ CallbackReturns \/ EndFunctors

-----------------------------------------------------------------------------
(* The peer and the kernel.                                                *)

DataArrives ==
  /\ base # "accept" /\ pc # "stopped"
  /\ peer = "open"
  /\ arrived < MaxInput
  /\ arrived' = arrived + 1
  /\ input' = input + 1
  /\ UNCHANGED <<serverVars, held, loopVars, channelVars, outVars, queueVars, room, peer,
                 historyVars>>

PeerCloses ==
  /\ base # "accept" /\ pc # "stopped"
  /\ \/ peer = "open" /\ peer' \in {"fin", "reset"}
     \/ peer = "fin" /\ peer' = "reset"
  /\ UNCHANGED <<serverVars, held, loopVars, channelVars, outVars, queueVars, room, input,
                 arrived, historyVars>>

(* The peer acknowledges bytes, and the send buffer has room again.        *)
PeerReads ==
  /\ pc # "stopped"
  /\ ~HungUp
  /\ room < MaxRoom
  /\ room' = room + 1
  /\ UNCHANGED <<serverVars, held, loopVars, channelVars, outVars, queueVars, input,
                 arrived, peer, historyVars>>

Next ==
  \/ newConnection
  \/ \E m \in Message : SendInThread(m)
  \/ \E m \in Message : SendFromOther(m)
  \/ Keep
  \/ Drop
  \/ LoopStep
  \/ PollOther
  \/ DataArrives
  \/ PeerCloses
  \/ PeerReads

SafeSpec == Init /\ [][Next]_vars

(* Both threads run, the callbacks of the user return, and a peer that is  *)
(* there reads what it is sent.                                            *)
Spec ==
  /\ SafeSpec
  /\ WF_vars(newConnection)
  /\ WF_vars(LoopStep)
  /\ WF_vars(PeerReads)

-----------------------------------------------------------------------------
(* Properties.                                                             *)

(* Whatever part of it write() takes at a time, and whichever thread sends *)
(* it, the socket gets every byte sendInLoop took charge of, once and in   *)
(* order.                                                                  *)
StreamInOrder == accepted = wire \o outBuf

(* EPOLLOUT is watched exactly while bytes wait: else they wait for ever,  *)
(* or the loop spins.                                                      *)
WatchedWhileWaiting ==
  registered => ("OUT" \in watched <=> outBuf # <<>>)

(* When nothing waits, onWriteComplate was queued after the last byte.     *)
CompletionFollows ==
  (outBuf = <<>> /\ wire # <<>>) => completeAt = Len(wire)

(* After handleClose the socket is out of epoll, whatever the user goes on *)
(* to send, and so there is one onClose and no onMessage after it.         *)
ClosedForGood ==
  closes > 0 => closes = 1 /\ ~registered /\ pc # "onMessage"

(* epoll never points to a Channel that was destroyed, nor does a list of  *)
(* events that is still to be handled: of the threads that build, serve    *)
(* and give up the connection nobody drops the last pointer before         *)
(* handleClose has taken the socket out.                                   *)
RegisteredIsAlive ==
  registered \/ (pc = "dispatch" /\ revents # {}) => Alive

(* When handleClose has returned, the server has forgotten the connection. *)
ClosedIsForgotten ==
  (closes > 0 /\ pc \notin {"onClose", "closing", "stopped"} /\ base = "done") => ~mapped

(* It holds when newConnection and handleClose run in one thread.          *)
OneLoopForgets == ~multi => ClosedIsForgotten

(* The connection is closed or the program has ended.                      *)
Over == closes > 0 \/ pc = "stopped"

(* What sendInLoop took charge of is written, unless the connection is     *)
(* closed or the program ends before.                                      *)
AcceptedIsWritten ==
  \A n \in 1 .. MessageSize * Cardinality(Message) :
    Len(accepted) >= n ~> (Len(wire) >= n \/ Over)

(* That the peer has gone leads to handleClose, after what it sent before. *)
PeerGoneIsNoticed == (peer # "open") ~> Over

(* The user was set before the first event it is to be told of.            *)
UserSetInTime == cause # "unset"

(* A message of which write() takes nothing is sent later.                 *)
WriteGoesOn == cause # "writeError"

(* No Channel is destroyed inside its handleEvent.                         *)
ChannelOutlivesEvent == pc = "event" => Alive

(* A functor of the connection finds it.                                   *)
FunctorFindsConnection == RunsFunctor => Alive

=============================================================================
