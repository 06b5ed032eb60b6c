------------------------- MODULE TcpConnectionProofs -------------------------
(***************************************************************************)
(* Proofs that, for every set of messages and every size of a message and  *)
(* of the send buffer, a TcpConnection writes what it took charge of in    *)
(* order, watches for room exactly while bytes wait, tells of completion,  *)
(* and stays closed.                                                       *)
(***************************************************************************)
EXTENDS TcpConnection, SequenceTheorems, TLAPS

(* A sequence cut in two and put together again.                           *)
LEMMA CutAndJoin ==
  ASSUME NEW S, NEW s \in Seq(S), NEW n \in 0 .. Len(s)
  PROVE  /\ SubSeq(s, 1, n) \in Seq(S) /\ Len(SubSeq(s, 1, n)) = n
         /\ SubSeq(s, n + 1, Len(s)) \in Seq(S)
         /\ Len(SubSeq(s, n + 1, Len(s))) = Len(s) - n
         /\ SubSeq(s, 1, n) \o SubSeq(s, n + 1, Len(s)) = s
<1>0. Len(s) \in Nat /\ n \in Nat /\ n <= Len(s)
  BY LenProperties
<1>1. /\ \A i \in 1 .. n : s[i] \in S
      /\ \A i \in n + 1 .. Len(s) : s[i] \in S
  BY <1>0, ElementOfSeq
<1>2. SubSeq(s, 1, n) \in Seq(S) /\ Len(SubSeq(s, 1, n)) = n
  BY <1>0, <1>1, SubSeqProperties
<1>3. /\ SubSeq(s, n + 1, Len(s)) \in Seq(S)
      /\ Len(SubSeq(s, n + 1, Len(s))) = Len(s) - n
  BY <1>0, <1>1, SubSeqProperties
<1>4. 1 \in 1 .. Len(s) + 1 /\ n \in 1 - 1 .. Len(s) /\ Len(s) \in n .. Len(s)
  BY <1>0
<1>5. SubSeq(s, 1, n) \o SubSeq(s, n + 1, Len(s)) = SubSeq(s, 1, Len(s))
  BY ONLY <1>4, ConcatAdjacentSubSeq, s \in Seq(S)
<1> QED
  BY <1>2, <1>3, <1>5, SubSeqFull

(* Parts of a sequence that are joined in another grouping.                *)
LEMMA Regroup ==
  ASSUME NEW S, NEW s \in Seq(S), NEW t \in Seq(S), NEW u \in Seq(S)
  PROVE  (s \o t) \o u = s \o (t \o u) /\ s \o t \in Seq(S)
  BY ConcatAssociative, ConcatProperties

(* A message is as long as MessageSize says.                               *)
LEMMA BytesType ==
  ASSUME NEW m \in Message
  PROVE  Bytes(m) \in Seq(Byte) /\ Len(Bytes(m)) = MessageSize
<1>1. Bytes(m) \in [1 .. MessageSize -> Byte]
  BY DEF Bytes, Byte
<1> QED
  BY <1>1, SizeAssumption, LenProperties, SeqDef DEF SizeAssumption, Bytes
-----------------------------------------------------------------------------
(* How write() fares.                                                      *)

(* write() fails, or takes some of the bytes, all of them or less.         *)
LEMMA WriteResultsAre ==
  ASSUME TypeOK, NEW len \in Nat, NEW n \in WriteResults(len)
  PROVE  \/ n = -1
         \/ n \in 1 .. len /\ room - n \in 0 .. MaxRoom
  BY SizeAssumption DEF WriteResults, Least, TypeOK, SizeAssumption

(* What sendInLoop may do, said once for every proof: write() fails, or    *)
(* took all of a message, or part of it, or what was kept waits longer.    *)
SendFails ==
  /\ Stop("writeError")
  /\ UNCHANGED <<channelVars, outVars, functors, room>>

(* What sendInLoop does: write() takes all of the message.                 *)
SendsAll(m, after) ==
  /\ outBuf = <<>>
  /\ wire' = wire \o Bytes(m)
  /\ functors' = Append(functors, <<"complete">>)
  /\ completeAt' = Len(wire')
  /\ accepted' = accepted \o Bytes(m)
  /\ pc' = after
  /\ room' \in 0 .. MaxRoom
  /\ UNCHANGED <<outBuf, channelVars, cause>>

(* write() takes a part of it, and the rest waits in _outBuf.              *)
SendsPart(m, n, after) ==
  /\ outBuf = <<>>
  /\ n \in 1 .. MessageSize - 1
  /\ wire' = wire \o SubSeq(Bytes(m), 1, n)
  /\ outBuf' = SubSeq(Bytes(m), n + 1, MessageSize)
  /\ enableWriting
  /\ accepted' = accepted \o Bytes(m)
  /\ pc' = after
  /\ room' \in 0 .. MaxRoom
  /\ UNCHANGED <<functors, completeAt, cause>>

(* Bytes of an earlier message wait, and the message goes behind them.     *)
SendsLater(m, after) ==
  /\ outBuf # <<>>
  /\ outBuf' = outBuf \o Bytes(m)
  /\ enableWriting
  /\ accepted' = accepted \o Bytes(m)
  /\ pc' = after
  /\ UNCHANGED <<wire, completeAt, functors, room, cause>>

(* There is no other way to send.                                          *)
LEMMA SendCases ==
  ASSUME TypeOK, NEW m \in Message, NEW after, sendInLoop(m, after)
  PROVE  /\ \/ SendFails
            \/ SendsAll(m, after)
            \/ \E n \in 1 .. MessageSize - 1 : SendsPart(m, n, after)
            \/ SendsLater(m, after)
         /\ UNCHANGED <<input, arrived, peer, closes>>
<1>0. MessageSize \in Nat /\ MessageSize > 0
  BY SizeAssumption DEF SizeAssumption
<1>1. UNCHANGED <<input, arrived, peer, closes>>
  BY DEF sendInLoop
<1>2. CASE ~NothingWaits
  BY <1>1, <1>2 DEF sendInLoop, NothingWaits, KeepUnwritten, SendsLater
<1>3. CASE NothingWaits
  <2>1. PICK n \in WriteResults(MessageSize) :
          IF n < 0
          THEN /\ Stop("writeError")
               /\ UNCHANGED <<channelVars, outVars, functors, room>>
          ELSE /\ Wrote(m, n)
               /\ accepted' = accepted \o Bytes(m)
               /\ pc' = after
               /\ UNCHANGED cause
    BY <1>3 DEF sendInLoop
  <2>2. CASE n = -1
    BY <1>1, <2>1, <2>2 DEF SendFails
  <2>3. CASE n \in 1 .. MessageSize /\ room - n \in 0 .. MaxRoom
    <3>1. /\ Wrote(m, n) /\ accepted' = accepted \o Bytes(m) /\ pc' = after
          /\ UNCHANGED cause
      BY <2>1, <2>3, <1>0
    <3>2. CASE n = MessageSize
      <4>1. SubSeq(Bytes(m), 1, n) = Bytes(m)
        BY <3>2, BytesType, SubSeqFull
      <4> QED
        BY <1>1, <1>3, <2>3, <3>1, <3>2, <4>1 DEF Wrote, NothingWaits, SendsAll, queueInLoop
    <3>3. CASE n # MessageSize
      <4>1. n \in 1 .. MessageSize - 1
        BY <1>0, <2>3, <3>3
      <4>2. SendsPart(m, n, after)
        BY <1>3, <2>3, <3>1, <3>3, <4>1
          DEF Wrote, NothingWaits, SendsPart, KeepUnwritten
      <4> QED
        BY <1>1, <4>1, <4>2
    <3> QED
      BY <3>2, <3>3
  <2> QED
    BY <1>0, <2>2, <2>3, WriteResultsAre
<1> QED
  BY <1>1, <1>2, <1>3

(* What handleWrite may do of the queue of bytes: nothing, write a part of *)
(* it, or write all of it.                                                 *)
WritesNone ==
  /\ UNCHANGED <<channelVars, outVars, functors, room>>
  /\ \/ UNCHANGED <<pc, cause>>
     \/ Stop("signal")

(* What handleWrite does: write() takes a part of _outBuf.                 *)
WritesPart(n) ==
  /\ isWriting
  /\ n \in 1 .. Len(outBuf) - 1
  /\ wire' = wire \o SubSeq(outBuf, 1, n)
  /\ outBuf' = SubSeq(outBuf, n + 1, Len(outBuf))
  /\ room' \in 0 .. MaxRoom
  /\ UNCHANGED <<channelVars, functors, completeAt, accepted, pc, cause>>

(* write() takes all of it, and EPOLLOUT is watched no more.               *)
WritesAll ==
  /\ isWriting
  /\ outBuf # <<>>
  /\ wire' = wire \o outBuf
  /\ outBuf' = <<>>
  /\ Drained
  /\ room' \in 0 .. MaxRoom
  /\ UNCHANGED <<accepted, pc, cause>>

(* There is no other way to write.                                         *)
LEMMA WriteCases ==
  ASSUME TypeOK, handleWrite
  PROVE  /\ \/ WritesNone
            \/ \E n \in 1 .. Len(outBuf) - 1 : WritesPart(n)
            \/ WritesAll
         /\ Alive /\ pc = "event" /\ revents = {"OUT"} /\ revents' = {}
         /\ UNCHANGED <<serverVars, held, batch, turn, input, arrived, peer, sent, closes>>
<1>0. outBuf \in Seq(Byte) /\ Len(outBuf) \in Nat
  BY LenProperties DEF TypeOK
<1>1. /\ Alive /\ pc = "event" /\ revents = {"OUT"} /\ revents' = {}
      /\ UNCHANGED <<serverVars, held, batch, turn, input, arrived, peer, sent, closes>>
  BY DEF handleWrite
<1>2. CASE ~isWriting
  BY <1>1, <1>2 DEF handleWrite, WritesNone
<1>3. CASE isWriting
  <2>1. PICK n \in WriteResults(Len(outBuf)) :
            IF n < 0
            THEN /\ (HungUp /\ Stop("signal")) \/ UNCHANGED <<pc, cause>>
                 /\ UNCHANGED <<channelVars, outVars, functors, room>>
            ELSE /\ room' = room - n
                 /\ wire' = wire \o SubSeq(outBuf, 1, n)
                 /\ outBuf' = SubSeq(outBuf, n + 1, Len(outBuf))
                 /\ IF n = Len(outBuf)
                    THEN Drained
                    ELSE UNCHANGED <<channelVars, functors, completeAt>>
                 /\ UNCHANGED <<accepted, pc, cause>>
    BY <1>3 DEF handleWrite
  <2>2. CASE n = -1
    BY <1>1, <2>1, <2>2 DEF WritesNone
  <2>3. CASE n \in 1 .. Len(outBuf) /\ room - n \in 0 .. MaxRoom
    <3>1. /\ room' \in 0 .. MaxRoom
          /\ wire' = wire \o SubSeq(outBuf, 1, n)
          /\ outBuf' = SubSeq(outBuf, n + 1, Len(outBuf))
          /\ IF n = Len(outBuf)
             THEN Drained
             ELSE UNCHANGED <<channelVars, functors, completeAt>>
          /\ UNCHANGED <<accepted, pc, cause>>
      BY <2>1, <2>3, <1>0
    <3>2. CASE n = Len(outBuf)
      <4>1. SubSeq(outBuf, 1, n) = outBuf /\ outBuf # <<>>
        BY <1>0, <2>3, <3>2, SubSeqFull, EmptySeq
      <4>2. Len(outBuf') = 0 /\ outBuf' \in Seq(Byte)
        BY <1>0, <3>1, <3>2, CutAndJoin
      <4>3. outBuf' = <<>>
        BY <4>2, EmptySeq
      <4> QED
        BY <1>1, <1>3, <3>1, <3>2, <4>1, <4>3 DEF WritesAll
    <3>3. CASE n # Len(outBuf)
      <4>1. n \in 1 .. Len(outBuf) - 1
        BY <1>0, <2>3, <3>3
      <4>2. WritesPart(n)
        BY <1>3, <3>1, <3>3, <4>1 DEF WritesPart
      <4> QED
        BY <1>1, <4>1, <4>2
    <3> QED
      BY <3>2, <3>3
  <2> QED
    BY <1>0, <2>2, <2>3, WriteResultsAre
<1> QED
  BY <1>2, <1>3
-----------------------------------------------------------------------------
(* The calls of sendInLoop: by the user in the loop's thread, and by the   *)
(* functor another thread's send queued.  Both go on where they were.      *)
LEMMA RunSendSends ==
  ASSUME TypeOK, RunSend
  PROVE  \E m \in Message, after \in {"functors"} : sendInLoop(m, after) /\ pc = after
<1>1. turn \in DOMAIN functors /\ functors[turn] \in Functor
  BY ElementOfSeq, LenProperties DEF RunSend, RunsFunctor, TypeOK
<1>2. functors[turn][1] = "send" /\ pc = "functors"
  BY DEF RunSend, RunsFunctor, Current
<1>3. PICK m \in Message : functors[turn] = <<"send", m>>
  BY <1>1, <1>2 DEF Functor
<1>4. Current[2] = m
  BY <1>3 DEF Current
<1>5. sendInLoop(m, "functors")
  BY <1>2, <1>4 DEF RunSend, sendInLoop, Wrote, KeepUnwritten, NothingWaits
<1> QED
  BY <1>2, <1>5

LEMMA SendInThreadSends ==
  ASSUME TypeOK, NEW m \in Message, SendInThread(m)
  PROVE  \E after \in {"dispatch", "functors"} \cup Callbacks :
           sendInLoop(m, after) /\ pc = after
<1>1. PICK p \in {"dispatch", "functors"} \cup Callbacks : pc = p
  BY DEF SendInThread, UserCode
<1>2. sendInLoop(m, p)
  BY <1>1 DEF SendInThread, sendInLoop, Wrote, KeepUnwritten, NothingWaits
<1> QED
  BY <1>1, <1>2

(* What the bytes may do in a step of the program.                         *)
LEMMA StreamSteps ==
  ASSUME TypeOK, [Next]_vars
  PROVE  \/ \E m \in Message, after \in {"dispatch", "functors"} \cup Callbacks :
              sendInLoop(m, after) /\ pc = after
         \/ handleWrite
         \/ UNCHANGED outVars
<1> USE DEF Next, vars
<1>1. ASSUME NEW m \in Message, SendInThread(m)
      PROVE \E after \in {"dispatch", "functors"} \cup Callbacks :
              sendInLoop(m, after) /\ pc = after
  BY <1>1, SendInThreadSends
<1>2. ASSUME RunSend
      PROVE \E m \in Message, after \in {"dispatch", "functors"} \cup Callbacks :
              sendInLoop(m, after) /\ pc = after
  BY <1>2, RunSendSends
<1>3. CASE newConnection
  BY <1>3 DEF newConnection, Construct, AddToMap, setUser, setUpLayerCloseCallback,
              Establish, outVars
<1>4. ASSUME NEW m \in Message, SendFromOther(m) PROVE UNCHANGED outVars
  BY <1>4 DEF SendFromOther, outVars
<1>5. CASE Keep \/ Drop
  BY <1>5 DEF Keep, Drop, outVars
<1>6. CASE Poll \/ PollOther \/ StartEvent \/ MessageReturns \/ OnCloseReturns \/ EndEvent
           \/ EventOfFreed \/ EndDispatch
  BY <1>6 DEF Poll, PollOther, PollReturns, StartEvent, MessageReturns, OnCloseReturns,
              EndEvent, EventOfFreed, EndDispatch, outVars
<1>7. CASE RunCallback \/ RunOnFreed \/ CallbackReturns \/ EndFunctors
  BY <1>7 DEF RunCallback, RunOnFreed, CallbackReturns, EndFunctors, outVars
<1>8. CASE HandleHangup \/ HandleMessage \/ HandleEnd \/ HandleReadError
  BY <1>8 DEF HandleHangup, HandleMessage, HandleEnd, HandleReadError, handleClose, outVars
<1>9. CASE DataArrives \/ PeerCloses \/ PeerReads
  BY <1>9 DEF DataArrives, PeerCloses, PeerReads, outVars
<1>10. CASE UNCHANGED vars
  BY <1>10 DEF outVars
<1> QED
  BY <1>1, <1>2, <1>3, <1>4, <1>5, <1>6, <1>7, <1>8, <1>9, <1>10 DEF LoopStep, HandleEvent
-----------------------------------------------------------------------------
(* The state keeps its types.                                              *)

(* The fields of the queue of bytes.                                       *)
OutTypeOK ==
  /\ outBuf \in Seq(Byte) /\ accepted \in Seq(Byte) /\ wire \in Seq(Byte)
  /\ completeAt \in Nat

(* The stream keeps its type.                                              *)
LEMMA OutTypeStep == TypeOK /\ [Next]_vars => OutTypeOK'
<1> SUFFICES ASSUME TypeOK, [Next]_vars PROVE OutTypeOK'
  OBVIOUS
<1>0. OutTypeOK
  BY DEF TypeOK, OutTypeOK
<1>1. CASE UNCHANGED outVars
  BY <1>0, <1>1 DEF outVars, OutTypeOK
<1>2. ASSUME NEW m \in Message, NEW after, sendInLoop(m, after) PROVE OutTypeOK'
  <2>0. /\ Bytes(m) \in Seq(Byte) /\ Len(Bytes(m)) = MessageSize /\ MessageSize \in Nat
        /\ wire \in Seq(Byte) /\ accepted \in Seq(Byte) /\ outBuf \in Seq(Byte)
    BY <1>0, BytesType, SizeAssumption DEF OutTypeOK, SizeAssumption
  <2>1. accepted \o Bytes(m) \in Seq(Byte) /\ outBuf \o Bytes(m) \in Seq(Byte)
    BY <2>0, ConcatProperties
  <2>2. CASE SendFails
    BY <1>0, <2>2 DEF SendFails, outVars, OutTypeOK
  <2>3. CASE SendsAll(m, after)
    <3>1. wire' \in Seq(Byte)
      BY <2>0, <2>3, ConcatProperties DEF SendsAll
    <3>2. Len(wire') \in Nat
      BY <3>1, LenProperties
    <3> QED
      BY <1>0, <2>1, <2>3, <3>1, <3>2 DEF SendsAll, OutTypeOK
  <2>4. ASSUME NEW n \in 1 .. MessageSize - 1, SendsPart(m, n, after) PROVE OutTypeOK'
    <3>1. /\ SubSeq(Bytes(m), 1, n) \in Seq(Byte)
          /\ SubSeq(Bytes(m), n + 1, MessageSize) \in Seq(Byte)
      BY <2>0, CutAndJoin
    <3>2. wire' \in Seq(Byte)
      BY <2>0, <2>4, <3>1, ConcatProperties DEF SendsPart
    <3> QED
      BY <1>0, <2>1, <2>4, <3>1, <3>2 DEF SendsPart, OutTypeOK
  <2>5. CASE SendsLater(m, after)
    BY <1>0, <2>1, <2>5 DEF SendsLater, OutTypeOK
  <2> QED
    BY <1>2, <2>2, <2>3, <2>4, <2>5, SendCases
<1>3. CASE handleWrite
  <2>1. CASE WritesNone
    BY <1>0, <2>1 DEF WritesNone, outVars, OutTypeOK
  <2>2. ASSUME NEW n \in 1 .. Len(outBuf) - 1, WritesPart(n) PROVE OutTypeOK'
    <3>1. /\ SubSeq(outBuf, 1, n) \in Seq(Byte)
          /\ SubSeq(outBuf, n + 1, Len(outBuf)) \in Seq(Byte)
      BY <1>0, CutAndJoin, LenProperties DEF OutTypeOK
    <3>2. wire' \in Seq(Byte)
      BY <1>0, <2>2, <3>1, ConcatProperties DEF WritesPart, OutTypeOK
    <3> QED
      BY <1>0, <2>2, <3>1, <3>2 DEF WritesPart, OutTypeOK
  <2>3. CASE WritesAll
    <3>1. wire' \in Seq(Byte) /\ outBuf' \in Seq(Byte)
      BY <1>0, <2>3, ConcatProperties, EmptySeq DEF WritesAll, OutTypeOK
    <3>2. Len(wire') \in Nat
      BY <3>1, LenProperties
    <3> QED
      BY <1>0, <2>3, <3>1, <3>2 DEF WritesAll, Drained, OutTypeOK
  <2> QED
    BY <1>3, <2>1, <2>2, <2>3, WriteCases
<1> QED
  BY <1>1, <1>2, <1>3, StreamSteps

(* The queue of functors: what is added to it, and what a batch takes off. *)
LEMMA QueueGrows ==
  ASSUME functors \in Seq(Functor), batch \in 0 .. Len(functors), turn \in 1 .. batch + 1,
         NEW f \in Functor, functors' = Append(functors, f), UNCHANGED <<batch, turn>>
  PROVE  functors' \in Seq(Functor) /\ batch' \in 0 .. Len(functors') /\ turn' \in 1 .. batch' + 1
  BY AppendProperties, LenProperties

LEMMA CompleteIsFunctor ==
  /\ <<"complete">> \in Functor /\ <<"established">> \in Functor
  /\ \A m \in Message : <<"send", m>> \in Functor
  BY DEF Functor

(* The other fields.                                                       *)
ChannelTypeOK ==
  /\ index \in {"kNew", "kAdded", "kDeleted"}
  /\ events \subseteq Events
  /\ registered \in BOOLEAN /\ watched \subseteq Events

QueueTypeOK ==
  /\ functors \in Seq(Functor)
  /\ batch \in 0 .. Len(functors)
  /\ turn \in 1 .. batch + 1

RestTypeOK ==
  /\ multi \in Pools
  /\ base \in {"accept", "constructed", "mapped", "userSet", "callbackSet", "done"}
  /\ user \in BOOLEAN /\ closeSet \in BOOLEAN /\ mapped \in BOOLEAN /\ held \in BOOLEAN
  /\ pc \in {"poll", "dispatch", "event", "closing", "functors", "stopped"} \cup Callbacks
  /\ revents \subseteq Events \cup {"HUP"}
  /\ room \in 0 .. MaxRoom /\ input \in Nat /\ arrived \in 0 .. MaxInput
  /\ peer \in {"open", "fin", "reset", "gone"}
  /\ sent \subseteq Message
  /\ closes \in Nat
  /\ cause \in {"none", "unset", "writeError", "freed", "signal"}

(* The type invariant in the parts that change together.                   *)
LEMMA TypeParts == TypeOK <=> OutTypeOK /\ ChannelTypeOK /\ QueueTypeOK /\ RestTypeOK
  BY DEF TypeOK, OutTypeOK, ChannelTypeOK, QueueTypeOK, RestTypeOK

(* What sendInLoop and handleWrite leave of them.                          *)
LEMMA SendTypes ==
  ASSUME TypeOK, NEW m \in Message, NEW after, sendInLoop(m, after), UNCHANGED batch,
         turn' = turn \/ (turn' = turn + 1 /\ turn <= batch)
  PROVE  /\ ChannelTypeOK' /\ QueueTypeOK'
         /\ room' \in 0 .. MaxRoom /\ UNCHANGED <<input, arrived, peer, closes>>
         /\ (pc' = after /\ UNCHANGED cause) \/ (pc' = "stopped" /\ cause' = "writeError")
<1> USE DEF TypeOK, ChannelTypeOK, QueueTypeOK
<1>1. UNCHANGED <<input, arrived, peer, closes>>
  BY SendCases
<1>2. enableWriting => ChannelTypeOK'
  BY DEF enableWriting, update, Events, channelVars
<1>3. turn' \in 1 .. batch' + 1
  OBVIOUS
<1>4. UNCHANGED functors => QueueTypeOK'
  BY <1>3
<1>5. functors' = Append(functors, <<"complete">>) => QueueTypeOK'
  BY <1>3, CompleteIsFunctor, AppendProperties, LenProperties
<1>6. UNCHANGED channelVars => ChannelTypeOK'
  BY DEF channelVars
<1>7. CASE SendFails
  BY <1>1, <1>4, <1>6, <1>7 DEF SendFails, Stop
<1>8. CASE SendsAll(m, after)
  BY <1>1, <1>5, <1>6, <1>8 DEF SendsAll
<1>9. CASE \E n \in 1 .. MessageSize - 1 : SendsPart(m, n, after)
  BY <1>1, <1>2, <1>4, <1>9 DEF SendsPart
<1>10. CASE SendsLater(m, after)
  BY <1>1, <1>2, <1>4, <1>10 DEF SendsLater
<1> QED
  BY <1>7, <1>8, <1>9, <1>10, SendCases

LEMMA WriteTypes ==
  ASSUME TypeOK, handleWrite
  PROVE  ChannelTypeOK' /\ QueueTypeOK' /\ RestTypeOK'
<1> USE DEF TypeOK, ChannelTypeOK, QueueTypeOK, RestTypeOK, serverVars
<1>1. /\ UNCHANGED <<serverVars, held, batch, turn, input, arrived, peer, sent, closes>>
      /\ revents' = {}
  BY WriteCases
<1>2. CASE WritesNone
  BY <1>1, <1>2 DEF WritesNone, Stop, channelVars
<1>3. CASE \E n \in 1 .. Len(outBuf) - 1 : WritesPart(n)
  BY <1>1, <1>3 DEF WritesPart, channelVars
<1>4. CASE WritesAll
  <2>1. QueueTypeOK'
    BY <1>1, <1>4, CompleteIsFunctor, QueueGrows DEF WritesAll, Drained, queueInLoop
  <2>2. ChannelTypeOK'
    BY <1>4 DEF WritesAll, Drained, update
  <2> QED
    BY <1>1, <1>4, <2>1, <2>2 DEF WritesAll
<1> QED
  BY <1>2, <1>3, <1>4, WriteCases

(* All fields keep their types.                                            *)
LEMMA TypeStep == TypeOK /\ [Next]_vars => TypeOK'
<1> SUFFICES ASSUME TypeOK, [Next]_vars PROVE ChannelTypeOK' /\ QueueTypeOK' /\ RestTypeOK'
  BY OutTypeStep DEF TypeOK, OutTypeOK, ChannelTypeOK, QueueTypeOK, RestTypeOK
<1>0. ChannelTypeOK /\ QueueTypeOK /\ RestTypeOK
  BY TypeParts
<1> USE DEF serverVars, loopVars, socketVars, historyVars
<1>q. UNCHANGED queueVars => QueueTypeOK'
  BY <1>0 DEF queueVars, QueueTypeOK
<1>c. UNCHANGED channelVars => ChannelTypeOK'
  BY <1>0 DEF channelVars, ChannelTypeOK
<1>1. ASSUME NEW m \in Message, SendInThread(m)
      PROVE ChannelTypeOK' /\ QueueTypeOK' /\ RestTypeOK'
  <2>1. PICK after \in {"dispatch", "functors"} \cup Callbacks : sendInLoop(m, after) /\ pc = after
    BY <1>1, SendInThreadSends
  <2>2. /\ ChannelTypeOK' /\ QueueTypeOK'
        /\ room' \in 0 .. MaxRoom /\ UNCHANGED <<input, arrived, peer, closes>>
        /\ (pc' = after /\ UNCHANGED cause) \/ (pc' = "stopped" /\ cause' = "writeError")
    BY <1>1, <2>1, SendTypes DEF SendInThread
  <2> QED
    BY <1>0, <1>1, <2>1, <2>2 DEF RestTypeOK, SendInThread
<1>2. CASE RunSend
  <2>1. PICK m \in Message, after \in {"functors"} : sendInLoop(m, after) /\ pc = after
    BY <1>2, RunSendSends
  <2>2. /\ ChannelTypeOK' /\ QueueTypeOK'
        /\ room' \in 0 .. MaxRoom /\ UNCHANGED <<input, arrived, peer, closes>>
        /\ (pc' = after /\ UNCHANGED cause) \/ (pc' = "stopped" /\ cause' = "writeError")
    BY <1>2, <2>1, SendTypes DEF RunSend, RunsFunctor
  <2> QED
    BY <1>0, <1>2, <2>1, <2>2 DEF RestTypeOK, RunSend
<1>3. CASE Construct
  <2>1. ChannelTypeOK'
    BY <1>0, <1>3 DEF Construct, update, ChannelTypeOK, Events
  <2> QED
    BY <1>0, <1>3, <1>q, <2>1 DEF Construct, RestTypeOK
<1>4. CASE AddToMap \/ setUser \/ setUpLayerCloseCallback
  BY <1>0, <1>4, <1>q, <1>c DEF AddToMap, setUser, setUpLayerCloseCallback, RestTypeOK
<1>5. CASE Establish
  <2>1. QueueTypeOK'
    <3>1. CASE multi
      BY <1>0, <1>5, <3>1, QueueGrows, CompleteIsFunctor DEF Establish, QueueTypeOK
    <3>2. CASE ~multi
      BY <1>0, <1>5, <3>2 DEF Establish, QueueTypeOK
    <3> QED
      BY <3>1, <3>2
  <2> QED
    BY <1>0, <1>5, <1>c, <2>1 DEF Establish, RestTypeOK, Callbacks
<1>6. ASSUME NEW m \in Message, SendFromOther(m)
      PROVE ChannelTypeOK' /\ QueueTypeOK' /\ RestTypeOK'
  <2>1. QueueTypeOK'
    BY <1>0, <1>6, QueueGrows, CompleteIsFunctor DEF SendFromOther, queueInLoop, QueueTypeOK
  <2> QED
    BY <1>0, <1>6, <1>c, <2>1 DEF SendFromOther, RestTypeOK
<1>7. CASE Keep \/ Drop
  <2>1. held' \in BOOLEAN
    BY <1>7 DEF Keep, Drop
  <2>2. UNCHANGED <<serverVars, loopVars, channelVars, queueVars, socketVars, historyVars>>
    BY <1>7 DEF Keep, Drop
  <2> QED
    BY <1>0, <1>q, <1>c, <2>1, <2>2 DEF RestTypeOK
<1>8. CASE Poll \/ PollOther
  <2>1. revents' \subseteq Events \cup {"HUP"}
    BY <1>0, <1>8 DEF Poll, PollOther, PollReturns, Reported, ChannelTypeOK
  <2> QED
    BY <1>0, <1>8, <1>q, <1>c, <2>1 DEF Poll, PollOther, PollReturns, RestTypeOK
<1>9. CASE StartEvent \/ MessageReturns \/ EndEvent \/ EventOfFreed
  BY <1>0, <1>9, <1>q, <1>c
    DEF StartEvent, MessageReturns, EndEvent, EventOfFreed, RestTypeOK, Stop
<1>10. CASE OnCloseReturns
  BY <1>0, <1>10, <1>q, <1>c DEF OnCloseReturns, RestTypeOK
<1>11. CASE EndDispatch
  BY <1>0, <1>11, <1>c, LenProperties DEF EndDispatch, QueueTypeOK, RestTypeOK
<1>12. CASE RunCallback \/ RunOnFreed
  BY <1>0, <1>12, <1>c
    DEF RunCallback, RunOnFreed, RunsFunctor, QueueTypeOK, RestTypeOK, Stop, Callbacks
<1>13. CASE CallbackReturns
  BY <1>0, <1>13, <1>q, <1>c DEF CallbackReturns, RestTypeOK
<1>14. CASE EndFunctors
  <2>1. /\ functors \in Seq(Functor) /\ batch \in 0 .. Len(functors) /\ Len(functors) \in Nat
        /\ functors' = SubSeq(functors, batch + 1, Len(functors))
        /\ batch' = 0 /\ turn' = 1
    BY <1>0, <1>14, LenProperties DEF EndFunctors, QueueTypeOK
  <2>2. functors' \in Seq(Functor)
    BY <2>1, CutAndJoin
  <2>3. QueueTypeOK'
    BY <2>1, <2>2, LenProperties DEF QueueTypeOK
  <2> QED
    BY <1>0, <1>14, <1>c, <2>3 DEF EndFunctors, RestTypeOK
<1>15. ASSUME NEW rest \in SUBSET (Events \cup {"HUP"}), handleClose(rest), UNCHANGED socketVars
       PROVE ChannelTypeOK' /\ QueueTypeOK' /\ RestTypeOK'
  <2>1. ChannelTypeOK'
    BY <1>15 DEF handleClose, DeleteFromEpoll, update, ChannelTypeOK
  <2> QED
    BY <1>0, <1>15, <1>q, <2>1 DEF handleClose, Stop, RestTypeOK, Callbacks
<1>16. CASE HandleHangup
  <2>1. revents \ {"HUP"} \in SUBSET (Events \cup {"HUP"})
    BY <1>0 DEF RestTypeOK
  <2> QED
    BY <1>15, <1>16, <2>1 DEF HandleHangup
<1>17. CASE HandleEnd
  <2>1. AfterRead \in SUBSET (Events \cup {"HUP"})
    BY <1>0 DEF RestTypeOK, AfterRead
  <2> QED
    BY <1>15, <1>17, <2>1 DEF HandleEnd
<1>18. CASE HandleMessage
  BY <1>0, <1>18, <1>q, <1>c DEF HandleMessage, AfterRead, Stop, RestTypeOK, Callbacks
<1>19. CASE HandleReadError
  BY <1>0, <1>19, <1>q, <1>c DEF HandleReadError, AfterRead, RestTypeOK
<1>20. CASE handleWrite
  BY <1>20, WriteTypes
<1>21. CASE DataArrives \/ PeerCloses
  BY <1>0, <1>21, <1>q, <1>c, SizeAssumption
    DEF DataArrives, PeerCloses, RestTypeOK, SizeAssumption
<1>22. CASE PeerReads
  BY <1>0, <1>22, <1>q, <1>c, SizeAssumption DEF PeerReads, RestTypeOK, SizeAssumption
<1>23. CASE UNCHANGED vars
  BY <1>0, <1>23, <1>q, <1>c DEF vars, RestTypeOK
<1> QED
  BY <1>1, <1>2, <1>3, <1>4, <1>5, <1>6, <1>7, <1>8, <1>9, <1>10, <1>11, <1>12, <1>13,
     <1>14, <1>16, <1>17, <1>18, <1>19, <1>20, <1>21, <1>22, <1>23
  DEF Next, LoopStep, HandleEvent, newConnection

(* The fields of a connection and of its Channel keep their types in every *)
(* run.                                                                    *)
THEOREM TypeCorrect == SafeSpec => []TypeOK
<1>1. Init => TypeOK
  <2> SUFFICES ASSUME Init PROVE TypeOK
    OBVIOUS
  <2>1. OutTypeOK
    BY EmptySeq DEF Init, OutTypeOK
  <2>2. QueueTypeOK
    <3>1. <<>> \in Seq(Functor) /\ Len(<<>>) = 0
      BY EmptySeq
    <3>2. functors = <<>> /\ batch = 0 /\ turn = 1
      BY DEF Init
    <3> QED
      BY <3>1, <3>2 DEF QueueTypeOK
  <2>3. ChannelTypeOK
    BY DEF Init, ChannelTypeOK
  <2>4. RestTypeOK
    <3>1. room \in 0 .. MaxRoom /\ input \in Nat /\ arrived \in 0 .. MaxInput /\ closes \in Nat
      BY SizeAssumption DEF Init, SizeAssumption
    <3>2. user \in BOOLEAN /\ closeSet \in BOOLEAN /\ mapped \in BOOLEAN /\ held \in BOOLEAN
      BY DEF Init
    <3> QED
      BY <3>1, <3>2 DEF Init, RestTypeOK
  <2> QED
    BY <2>1, <2>2, <2>3, <2>4, TypeParts
<1> QED
  BY <1>1, TypeStep, PTL DEF SafeSpec
-----------------------------------------------------------------------------
(* The stream of bytes.                                                    *)

(* The bytes taken charge of are the written ones followed by the waiting  *)
(* ones, before and after every call of sendInLoop and of handleWrite.     *)
LEMMA StreamStep == TypeOK /\ StreamInOrder /\ [Next]_vars => StreamInOrder'
<1> SUFFICES ASSUME TypeOK, StreamInOrder, [Next]_vars PROVE StreamInOrder'
  OBVIOUS
<1>0. /\ outBuf \in Seq(Byte) /\ accepted \in Seq(Byte) /\ wire \in Seq(Byte)
      /\ accepted = wire \o outBuf
  BY DEF TypeOK, StreamInOrder
<1>1. CASE UNCHANGED outVars
  BY <1>0, <1>1 DEF outVars, StreamInOrder
<1>2. ASSUME NEW m \in Message, NEW after, sendInLoop(m, after) PROVE StreamInOrder'
  <2>0. Bytes(m) \in Seq(Byte) /\ Len(Bytes(m)) = MessageSize /\ MessageSize \in Nat
    BY BytesType, SizeAssumption DEF SizeAssumption
  <2>1. CASE SendFails
    BY <1>0, <2>1 DEF SendFails, outVars, StreamInOrder
  <2>2. CASE SendsAll(m, after)
    <3>1. /\ outBuf = <<>> /\ outBuf' = <<>>
          /\ wire' = wire \o Bytes(m) /\ accepted' = accepted \o Bytes(m)
      BY <2>2 DEF SendsAll
    <3>2. accepted = wire /\ wire' \in Seq(Byte)
      BY <1>0, <2>0, <3>1, ConcatEmptySeq, ConcatProperties
    <3> QED
      BY <3>1, <3>2, ConcatEmptySeq DEF StreamInOrder
  <2>3. ASSUME NEW n \in 1 .. MessageSize - 1, SendsPart(m, n, after) PROVE StreamInOrder'
    <3> DEFINE now == SubSeq(Bytes(m), 1, n)
               later == SubSeq(Bytes(m), n + 1, MessageSize)
    <3>1. now \in Seq(Byte) /\ later \in Seq(Byte) /\ now \o later = Bytes(m)
      BY <2>0, CutAndJoin
    <3>2. /\ outBuf = <<>> /\ outBuf' = later
          /\ wire' = wire \o now /\ accepted' = accepted \o Bytes(m)
      BY <2>3 DEF SendsPart
    <3>3. accepted = wire
      BY <1>0, <3>2, ConcatEmptySeq
    <3> HIDE DEF now, later
    <3>4. wire \in Seq(Byte) /\ now \in Seq(Byte) /\ later \in Seq(Byte)
      BY <1>0, <3>1
    <3>5. (wire \o now) \o later = wire \o (now \o later)
      BY ONLY <3>4, Regroup
    <3> QED
      BY <3>1, <3>2, <3>3, <3>5 DEF StreamInOrder
  <2>4. CASE SendsLater(m, after)
    <3>1. (wire \o outBuf) \o Bytes(m) = wire \o (outBuf \o Bytes(m))
      BY <1>0, <2>0, Regroup
    <3> QED
      BY <1>0, <2>4, <3>1 DEF SendsLater, StreamInOrder
  <2> QED
    BY <1>2, <2>1, <2>2, <2>3, <2>4, SendCases
<1>3. CASE handleWrite
  <2>1. CASE WritesNone
    BY <1>0, <2>1 DEF WritesNone, outVars, StreamInOrder
  <2>2. ASSUME NEW n \in 1 .. Len(outBuf) - 1, WritesPart(n) PROVE StreamInOrder'
    <3> DEFINE now == SubSeq(outBuf, 1, n)
               later == SubSeq(outBuf, n + 1, Len(outBuf))
    <3>1. now \in Seq(Byte) /\ later \in Seq(Byte) /\ now \o later = outBuf
      BY <1>0, CutAndJoin, LenProperties
    <3>2. outBuf' = later /\ wire' = wire \o now /\ accepted' = accepted
      BY <2>2 DEF WritesPart
    <3> HIDE DEF now, later
    <3>3. wire \in Seq(Byte) /\ now \in Seq(Byte) /\ later \in Seq(Byte)
      BY <1>0, <3>1
    <3>4. (wire \o now) \o later = wire \o (now \o later)
      BY ONLY <3>3, Regroup
    <3> QED
      BY <1>0, <3>1, <3>2, <3>4 DEF StreamInOrder
  <2>3. CASE WritesAll
    <3>1. outBuf' = <<>> /\ wire' = wire \o outBuf /\ accepted' = accepted
      BY <2>3 DEF WritesAll
    <3>2. wire' \in Seq(Byte)
      BY <1>0, <3>1, ConcatProperties
    <3> QED
      BY <1>0, <3>1, <3>2, ConcatEmptySeq DEF StreamInOrder
  <2> QED
    BY <1>3, <2>1, <2>2, <2>3, WriteCases
<1> QED
  BY <1>1, <1>2, <1>3, StreamSteps

(* Whatever part of it write() takes at a time, and whichever thread sends *)
(* it, the socket gets every byte sendInLoop took charge of, once and in   *)
(* order.                                                                  *)
THEOREM StreamKeepsOrder == SafeSpec => []StreamInOrder
<1>1. Init => StreamInOrder
  <2>1. <<>> \o <<>> = <<>>
    BY EmptySeq, ConcatEmptySeq
  <2> QED
    BY <2>1 DEF Init, StreamInOrder
<1> QED
  BY <1>1, StreamStep, TypeCorrect, PTL DEF SafeSpec

(* A step leaves the queue of bytes empty only when it queues              *)
(* onWriteComplate, or when it writes nothing.                             *)
LEMMA CompletionStep == TypeOK /\ CompletionFollows /\ [Next]_vars => CompletionFollows'
<1> SUFFICES ASSUME TypeOK, CompletionFollows, [Next]_vars PROVE CompletionFollows'
  OBVIOUS
<1> USE DEF CompletionFollows
<1>0. outBuf \in Seq(Byte) /\ MessageSize \in Nat
  BY SizeAssumption DEF TypeOK, SizeAssumption
<1>1. CASE UNCHANGED outVars
  BY <1>1 DEF outVars
<1>2. ASSUME NEW m \in Message, NEW after, sendInLoop(m, after) PROVE CompletionFollows'
  <2>0. Bytes(m) \in Seq(Byte) /\ Len(Bytes(m)) = MessageSize
    BY BytesType
  <2>1. CASE SendFails
    BY <2>1 DEF SendFails, outVars
  <2>2. CASE SendsAll(m, after)
    BY <2>2 DEF SendsAll
  <2>3. ASSUME NEW n \in 1 .. MessageSize - 1, SendsPart(m, n, after) PROVE CompletionFollows'
    <3>1. Len(outBuf') = MessageSize - n
      BY <1>0, <2>0, <2>3, CutAndJoin DEF SendsPart
    <3>2. outBuf' # <<>>
      BY <1>0, <3>1, EmptySeq
    <3> QED
      BY <3>2
  <2>4. CASE SendsLater(m, after)
    <3>1. outBuf' # <<>>
      BY <1>0, <2>0, <2>4, ConcatEqualIffEmpty DEF SendsLater
    <3> QED
      BY <3>1
  <2> QED
    BY <1>2, <2>1, <2>2, <2>3, <2>4, SendCases
<1>3. CASE handleWrite
  <2>1. CASE WritesNone
    BY <2>1 DEF WritesNone, outVars
  <2>2. ASSUME NEW n \in 1 .. Len(outBuf) - 1, WritesPart(n) PROVE CompletionFollows'
    <3>1. Len(outBuf') = Len(outBuf) - n /\ Len(outBuf) \in Nat
      BY <1>0, <2>2, CutAndJoin, LenProperties DEF WritesPart
    <3>2. outBuf' # <<>>
      BY <1>0, <3>1, EmptySeq
    <3> QED
      BY <3>2
  <2>3. CASE WritesAll
    BY <2>3 DEF WritesAll, Drained
  <2> QED
    BY <1>3, <2>1, <2>2, <2>3, WriteCases
<1> QED
  BY <1>1, <1>2, <1>3, StreamSteps

(* When nothing waits any more, the user is told after the last byte.      *)
THEOREM CompletionIsTold == SafeSpec => []CompletionFollows
<1>1. Init => CompletionFollows
  BY DEF Init, CompletionFollows
<1> QED
  BY <1>1, CompletionStep, TypeCorrect, PTL DEF SafeSpec
-----------------------------------------------------------------------------
(* The Channel.                                                            *)

(* Before newConnection has built the object nothing is known of it.       *)
Fresh ==
  base = "accept" =>
    /\ revents = {} /\ pc \in {"poll", "dispatch", "functors"}
    /\ outBuf = <<>> /\ functors = <<>> /\ events = {}
    /\ ~held /\ closes = 0 /\ ~mapped

(* The Channel, epoll and the queue of bytes agree as long as the Channel  *)
(* is added: what epoll watches is what the Channel wants, and it wants    *)
(* EPOLLOUT exactly while bytes wait.                                      *)
ChannelState ==
  /\ index = "kNew" <=> base = "accept"
  /\ registered <=> index = "kAdded"
  /\ registered => watched = events
  /\ index = "kAdded" => ("OUT" \in events <=> outBuf # <<>>)

(* No step before the constructor touches the connection.                  *)
LEMMA FreshStep == TypeOK /\ Fresh /\ ChannelState /\ [Next]_vars => Fresh'
<1> SUFFICES ASSUME TypeOK, Fresh, ChannelState, [Next]_vars, base' = "accept" PROVE Fresh'
  BY DEF Fresh
<1>0. base = "accept"
  <2> USE DEF Next, LoopStep, HandleEvent, newConnection, serverVars, vars
  <2>1. CASE \E m \in Message : SendInThread(m)
    BY <2>1 DEF SendInThread
  <2>2. CASE \E m \in Message : SendFromOther(m)
    BY <2>2 DEF SendFromOther
  <2>3. CASE Keep \/ Drop
    BY <2>3 DEF Keep, Drop
  <2>4. CASE newConnection
    BY <2>4 DEF Construct, AddToMap, setUser, setUpLayerCloseCallback, Establish
  <2>5. CASE Poll \/ PollOther \/ StartEvent \/ MessageReturns \/ OnCloseReturns \/ EndEvent
             \/ EventOfFreed \/ EndDispatch
    BY <2>5 DEF Poll, PollOther, PollReturns, StartEvent, MessageReturns, OnCloseReturns,
                EndEvent, EventOfFreed, EndDispatch
  <2>6. CASE RunCallback \/ RunSend \/ RunOnFreed \/ CallbackReturns \/ EndFunctors
    BY <2>6 DEF RunCallback, RunSend, RunOnFreed, CallbackReturns, EndFunctors
  <2>7. CASE HandleEvent
    BY <2>7 DEF HandleHangup, HandleMessage, HandleEnd, HandleReadError, handleWrite, handleClose
  <2>8. CASE DataArrives \/ PeerCloses \/ PeerReads
    BY <2>8 DEF DataArrives, PeerCloses, PeerReads
  <2> QED
    BY <2>1, <2>2, <2>3, <2>4, <2>5, <2>6, <2>7, <2>8
<1>1. /\ revents = {} /\ pc \in {"poll", "dispatch", "functors"}
      /\ outBuf = <<>> /\ functors = <<>> /\ events = {}
      /\ ~held /\ closes = 0 /\ ~mapped
      /\ ~registered /\ batch = 0
  <2>1. functors = <<>> => batch = 0
    BY EmptySeq DEF TypeOK
  <2> QED
    BY <1>0, <2>1 DEF Fresh, ChannelState
<1> USE <1>0, <1>1 DEF Fresh, loopVars, channelVars, outVars, queueVars, historyVars, serverVars
<1>2. CASE newConnection
  BY <1>2 DEF newConnection, Construct, AddToMap, setUser, setUpLayerCloseCallback, Establish
<1>3. CASE Poll \/ PollOther
  BY <1>3 DEF Poll, PollOther, PollReturns, Reported
<1>4. CASE EndDispatch
  BY <1>4 DEF EndDispatch
<1>5. CASE EndFunctors
  <2>1. /\ functors \in Seq(Functor)
        /\ functors' = SubSeq(functors, 0 + 1, Len(functors))
    BY <1>5 DEF EndFunctors, TypeOK
  <2>2. functors' = <<>>
    BY <2>1, SubSeqFull
  <2> QED
    BY <1>5, <2>2 DEF EndFunctors
<1>6. CASE DataArrives \/ PeerCloses \/ PeerReads
  BY <1>6 DEF DataArrives, PeerCloses, PeerReads
<1>7. CASE UNCHANGED vars
  BY <1>7 DEF vars
<1>8. ~(\E m \in Message : SendInThread(m) \/ SendFromOther(m)) /\ ~Keep /\ ~Drop
  BY DEF SendInThread, SendFromOther, Keep, Drop, UserCode, Callbacks
<1>9. /\ ~StartEvent /\ ~HandleEvent /\ ~MessageReturns /\ ~OnCloseReturns /\ ~EndEvent
      /\ ~EventOfFreed
  BY DEF StartEvent, HandleEvent, HandleHangup, HandleMessage, HandleEnd, HandleReadError,
         handleWrite, MessageReturns, OnCloseReturns, EndEvent, EventOfFreed
<1>10. ~RunCallback /\ ~RunSend /\ ~RunOnFreed /\ ~CallbackReturns
  BY DEF RunCallback, RunSend, RunOnFreed, RunsFunctor, CallbackReturns, TypeOK
<1> QED
  BY <1>2, <1>3, <1>4, <1>5, <1>6, <1>7, <1>8, <1>9, <1>10 DEF Next, LoopStep

(* What sendInLoop keeps back is watched for.                              *)
LEMMA SendKeepsChannel ==
  ASSUME TypeOK, ChannelState, base # "accept", UNCHANGED base,
         NEW m \in Message, NEW after, sendInLoop(m, after)
  PROVE  ChannelState'
<1>0. /\ Bytes(m) \in Seq(Byte) /\ Len(Bytes(m)) = MessageSize /\ MessageSize \in Nat \ {0}
      /\ outBuf \in Seq(Byte) /\ index \in {"kAdded", "kDeleted"}
  BY BytesType, SizeAssumption DEF TypeOK, SizeAssumption, ChannelState
<1>1. outBuf' # <<>> /\ enableWriting => ChannelState'
  BY <1>0 DEF enableWriting, isWriting, update, channelVars, ChannelState
<1>2. UNCHANGED <<outBuf, channelVars>> => ChannelState'
  BY DEF channelVars, ChannelState
<1>3. ASSUME NEW n \in 1 .. MessageSize - 1, SendsPart(m, n, after) PROVE ChannelState'
  <2>1. Len(outBuf') = MessageSize - n
    BY <1>0, <1>3, CutAndJoin DEF SendsPart
  <2>2. outBuf' # <<>>
    BY <1>0, <2>1, EmptySeq
  <2> QED
    BY <1>1, <1>3, <2>2 DEF SendsPart
<1>4. CASE SendsLater(m, after)
  <2>1. outBuf' # <<>>
    BY <1>0, <1>4, ConcatEqualIffEmpty DEF SendsLater
  <2> QED
    BY <1>1, <1>4, <2>1 DEF SendsLater
<1> QED
  BY <1>2, <1>3, <1>4, SendCases DEF SendFails, SendsAll, outVars

(* No step sets Channel and epoll at odds.                                 *)
LEMMA ChannelStep == TypeOK /\ Fresh /\ ChannelState /\ [Next]_vars => ChannelState'
<1> SUFFICES ASSUME TypeOK, Fresh, ChannelState, [Next]_vars PROVE ChannelState'
  OBVIOUS
<1> USE DEF serverVars, outVars
<1>0. UNCHANGED <<base, channelVars, outVars>> => ChannelState'
  BY DEF ChannelState, channelVars
<1>1. ASSUME NEW m \in Message, SendInThread(m) PROVE ChannelState'
  <2>1. base # "accept"
    BY <1>1 DEF SendInThread, UserCode, Fresh, Callbacks
  <2> QED
    BY <1>1, <2>1, SendInThreadSends, SendKeepsChannel DEF SendInThread
<1>2. CASE RunSend
  <2>1. base # "accept"
    <3>1. turn <= batch /\ turn \in Nat /\ turn >= 1 /\ batch <= Len(functors)
      BY <1>2, LenProperties DEF RunSend, RunsFunctor, TypeOK
    <3>2. functors # <<>>
      BY <3>1, EmptySeq, LenProperties DEF TypeOK
    <3> QED
      BY <3>2 DEF Fresh
  <2> QED
    BY <1>2, <2>1, RunSendSends, SendKeepsChannel DEF RunSend
<1>3. CASE Construct
  BY <1>3 DEF Construct, update, Fresh, ChannelState
<1>4. CASE AddToMap \/ setUser \/ setUpLayerCloseCallback \/ Establish
  BY <1>4 DEF AddToMap, setUser, setUpLayerCloseCallback, Establish, ChannelState, channelVars
<1>5. CASE handleWrite
  <2>1. /\ pc = "event" /\ base' = base
    BY <1>5, WriteCases
  <2>2. base # "accept" /\ index \in {"kAdded", "kDeleted"}
    BY <2>1 DEF Fresh, ChannelState, TypeOK
  <2>3. CASE WritesNone
    BY <1>0, <2>1, <2>3 DEF WritesNone
  <2>4. ASSUME NEW n \in 1 .. Len(outBuf) - 1, WritesPart(n) PROVE ChannelState'
    <3>1. /\ Len(outBuf') = Len(outBuf) - n /\ Len(outBuf) \in Nat
      BY <2>4, CutAndJoin, LenProperties DEF WritesPart, TypeOK
    <3>2. outBuf' # <<>> /\ outBuf # <<>>
      BY <3>1, EmptySeq DEF TypeOK
    <3> QED
      BY <2>1, <2>4, <3>2 DEF WritesPart, ChannelState, channelVars
  <2>5. CASE WritesAll
    BY <2>1, <2>2, <2>5 DEF WritesAll, Drained, update, ChannelState
  <2> QED
    BY <1>5, <2>3, <2>4, <2>5, WriteCases
<1>6. ASSUME NEW rest, handleClose(rest), pc = "event" PROVE ChannelState'
  BY <1>6 DEF handleClose, DeleteFromEpoll, update, ChannelState, Fresh
<1>7. CASE HandleHangup \/ HandleEnd
  BY <1>6, <1>7 DEF HandleHangup, HandleEnd
<1>8. CASE HandleMessage \/ HandleReadError
  BY <1>0, <1>8 DEF HandleMessage, HandleReadError
<1>9. ASSUME NEW m \in Message, SendFromOther(m) PROVE ChannelState'
  BY <1>0, <1>9 DEF SendFromOther
<1>10. CASE Keep \/ Drop
  BY <1>0, <1>10 DEF Keep, Drop
<1>11. CASE Poll \/ PollOther \/ StartEvent \/ MessageReturns \/ OnCloseReturns \/ EndEvent
           \/ EventOfFreed \/ EndDispatch
  BY <1>0, <1>11 DEF Poll, PollOther, PollReturns, StartEvent, MessageReturns,
                     OnCloseReturns, EndEvent, EventOfFreed, EndDispatch
<1>12. CASE RunCallback \/ RunOnFreed \/ CallbackReturns \/ EndFunctors
  BY <1>0, <1>12 DEF RunCallback, RunOnFreed, CallbackReturns, EndFunctors
<1>13. CASE DataArrives \/ PeerCloses \/ PeerReads
  BY <1>0, <1>13 DEF DataArrives, PeerCloses, PeerReads
<1>14. CASE UNCHANGED vars
  BY <1>0, <1>14 DEF vars
<1> QED
  BY <1>1, <1>2, <1>3, <1>4, <1>5, <1>7, <1>8, <1>9, <1>10, <1>11, <1>12, <1>13, <1>14
  DEF Next, LoopStep, HandleEvent, newConnection

(* What the Channel wants, what epoll watches for it and whether bytes wait *)
(* agree as long as the Channel is added, and a connection that is not yet *)
(* made has nothing to do with either (Channel::update in src/src).        *)
THEOREM ChannelAgrees == SafeSpec => [](Fresh /\ ChannelState)
<1>1. Init => Fresh /\ ChannelState
  <2> SUFFICES ASSUME Init PROVE Fresh /\ ChannelState
    OBVIOUS
  <2>1. Fresh
    BY DEF Init, Fresh
  <2>2. ~registered /\ index = "kNew" /\ base = "accept"
    BY DEF Init
  <2> QED
    BY <2>1, <2>2 DEF ChannelState
<1> QED
  BY <1>1, FreshStep, ChannelStep, TypeCorrect, PTL DEF SafeSpec

(* EPOLLOUT is watched exactly while bytes wait in _outBuf.                *)
THEOREM WatchedExactly == SafeSpec => []WatchedWhileWaiting
<1>1. ChannelState => WatchedWhileWaiting
  BY DEF ChannelState, WatchedWhileWaiting
<1> QED
  BY <1>1, ChannelAgrees, PTL
-----------------------------------------------------------------------------
(* The close.                                                              *)

(* After handleClose the Channel is deleted for good, and of the events    *)
(* epoll reported only the one that can write is left to handle.           *)
ClosedInv ==
  closes > 0 => /\ closes = 1 /\ index = "kDeleted"
                /\ revents \subseteq {"OUT"}
                /\ pc # "onMessage"

(* No step opens a closed connection again.                                *)
LEMMA ClosedStep == TypeOK /\ ChannelState /\ ClosedInv /\ [Next]_vars => ClosedInv'
<1> SUFFICES ASSUME TypeOK, ChannelState, ClosedInv, [Next]_vars PROVE ClosedInv'
  OBVIOUS
<1> USE DEF channelVars, loopVars, historyVars
<1>0. ASSUME UNCHANGED <<closes, index>>, revents' \subseteq revents,
             pc' = pc \/ pc' # "onMessage"
      PROVE  ClosedInv'
  BY <1>0 DEF ClosedInv
<1>1. ASSUME NEW m \in Message, NEW after, sendInLoop(m, after), pc = after, UNCHANGED revents
      PROVE  ClosedInv'
  <2>1. index = "kDeleted" /\ enableWriting => index' = "kDeleted"
    BY DEF enableWriting, update
  <2>2. UNCHANGED closes /\ (pc' = pc \/ pc' = "stopped")
        /\ (index = "kDeleted" => index' = "kDeleted")
    BY <1>1, <2>1, SendCases DEF SendFails, SendsAll, SendsPart, SendsLater, Stop
  <2> QED
    BY <1>1, <2>2 DEF ClosedInv
<1>2. ASSUME NEW m \in Message, SendInThread(m) PROVE ClosedInv'
  BY <1>1, <1>2, SendInThreadSends DEF SendInThread
<1>3. CASE RunSend
  BY <1>1, <1>3, RunSendSends DEF RunSend
<1>4. CASE newConnection
  <2>1. CASE Construct
    BY <2>1 DEF Construct, update, ChannelState, ClosedInv
  <2>2. CASE AddToMap \/ setUser \/ setUpLayerCloseCallback \/ Establish
    BY <1>0, <2>2 DEF AddToMap, setUser, setUpLayerCloseCallback, Establish
  <2> QED
    BY <1>4, <2>1, <2>2 DEF newConnection
<1>5. CASE handleWrite
  <2>1. pc = "event" /\ revents' = {} /\ UNCHANGED closes
    BY <1>5, WriteCases
  <2>2. index = "kDeleted" => index' = "kDeleted"
    BY <1>5, WriteCases DEF WritesNone, WritesPart, WritesAll, Drained, update
  <2>3. pc' = pc \/ pc' = "stopped"
    BY <1>5, WriteCases DEF WritesNone, WritesPart, WritesAll, Stop
  <2> QED
    BY <2>1, <2>2, <2>3 DEF ClosedInv
<1>6. ASSUME NEW rest \in SUBSET {"OUT"}, handleClose(rest), closes = 0 PROVE ClosedInv'
  BY <1>6 DEF handleClose, DeleteFromEpoll, update, Stop, ClosedInv
<1>7. CASE HandleHangup \/ HandleEnd
  <2>1. closes = 0
    BY <1>7 DEF HandleHangup, HandleEnd, ClosedInv, TypeOK
  <2>2. CASE HandleHangup
    <3>1. revents \ {"HUP"} \in SUBSET {"OUT"}
      BY <2>2 DEF HandleHangup, TypeOK, Events
    <3> QED
      BY <1>6, <2>1, <2>2, <3>1 DEF HandleHangup
  <2>3. CASE HandleEnd
    <3>1. AfterRead \in SUBSET {"OUT"}
      BY <2>3 DEF AfterRead, TypeOK, Events
    <3> QED
      BY <1>6, <2>1, <2>3, <3>1 DEF HandleEnd
  <2> QED
    BY <1>7, <2>2, <2>3
<1>8. CASE HandleMessage
  BY <1>8 DEF HandleMessage, ClosedInv, TypeOK
<1>9. CASE HandleReadError
  BY <1>0, <1>9 DEF HandleReadError, AfterRead
<1>10. ASSUME NEW m \in Message, SendFromOther(m) PROVE ClosedInv'
  BY <1>0, <1>10 DEF SendFromOther
<1>11. CASE Keep \/ Drop
  BY <1>0, <1>11 DEF Keep, Drop
<1>12. CASE Poll \/ PollOther
  <2>1. closes > 0 => revents' = {}
    BY <1>12 DEF Poll, PollOther, PollReturns, Reported, ClosedInv, ChannelState
  <2> QED
    BY <1>12, <2>1 DEF Poll, PollOther, PollReturns, ClosedInv
<1>13. CASE StartEvent \/ MessageReturns \/ OnCloseReturns \/ EndEvent \/ EventOfFreed
           \/ EndDispatch
  BY <1>0, <1>13 DEF StartEvent, MessageReturns, OnCloseReturns, EndEvent, EventOfFreed,
                     EndDispatch, Stop
<1>14. CASE RunCallback \/ RunOnFreed \/ CallbackReturns \/ EndFunctors
  BY <1>0, <1>14 DEF RunCallback, RunOnFreed, CallbackReturns, EndFunctors, Stop
<1>15. CASE DataArrives \/ PeerCloses \/ PeerReads
  BY <1>0, <1>15 DEF DataArrives, PeerCloses, PeerReads
<1>16. CASE UNCHANGED vars
  BY <1>0, <1>16 DEF vars
<1> QED
  BY <1>2, <1>3, <1>4, <1>5, <1>7, <1>8, <1>9, <1>10, <1>11, <1>12, <1>13, <1>14, <1>15, <1>16
  DEF Next, LoopStep, HandleEvent

(* A connection is closed once, and out of epoll from then on.             *)
THEOREM ClosedOnce == SafeSpec => []ClosedForGood
<1>1. Init => ClosedInv
  BY DEF Init, ClosedInv
<1>2. ChannelState /\ ClosedInv => ClosedForGood
  BY DEF ChannelState, ClosedInv, ClosedForGood
<1> QED
  BY <1>1, <1>2, ClosedStep, TypeCorrect, ChannelAgrees, PTL DEF SafeSpec

-----------------------------------------------------------------------------
(* The life of the connection while epoll knows it.                        *)

(* From its way into the map to its close the connection is in the map,    *)
(* and the events of a list that is still to be handled are those of a     *)
(* connection that is not closed.                                          *)
KeptInv ==
  /\ base \notin {"accept", "constructed"} /\ closes = 0 => mapped
  /\ pc = "dispatch" /\ revents # {} => closes = 0 /\ base # "accept"
  /\ pc = "onConnection" => revents = {}
  /\ pc \in {"onClose", "closing"} => closes > 0

(* No step drops the last pointer before the close.                        *)
LEMMA KeptStep ==
  TypeOK /\ ChannelState /\ ClosedInv /\ KeptInv /\ [Next]_vars => KeptInv'
<1> SUFFICES ASSUME TypeOK, ChannelState, ClosedInv, KeptInv, [Next]_vars PROVE KeptInv'
  OBVIOUS
<1> USE DEF serverVars, loopVars, historyVars
<1>0. ASSUME UNCHANGED <<base, mapped, closes, revents>>,
             \/ pc' = pc
             \/ pc' \notin {"dispatch", "onConnection", "onClose", "closing"}
             \/ pc' = "dispatch" /\ revents = {}
      PROVE  KeptInv'
  BY <1>0 DEF KeptInv
<1>1. ASSUME NEW m \in Message, NEW after, sendInLoop(m, after), pc = after,
             UNCHANGED <<base, mapped, revents>>
      PROVE  KeptInv'
  <2>1. UNCHANGED closes /\ (pc' = pc \/ pc' = "stopped")
    BY <1>1, SendCases DEF SendFails, SendsAll, SendsPart, SendsLater, Stop
  <2> QED
    BY <1>0, <1>1, <2>1
<1>2. ASSUME NEW m \in Message, SendInThread(m) PROVE KeptInv'
  BY <1>1, <1>2, SendInThreadSends DEF SendInThread
<1>3. CASE RunSend
  BY <1>1, <1>3, RunSendSends DEF RunSend
<1>4. CASE newConnection
  <2>1. CASE Construct \/ AddToMap
    BY <2>1 DEF Construct, AddToMap, KeptInv
  <2>2. CASE setUser \/ setUpLayerCloseCallback
    BY <2>2 DEF setUser, setUpLayerCloseCallback, KeptInv
  <2>3. CASE Establish
    BY <2>3 DEF Establish, BaseRuns, KeptInv
  <2> QED
    BY <1>4, <2>1, <2>2, <2>3 DEF newConnection
<1>5. CASE handleWrite
  <2>1. /\ pc = "event" /\ revents' = {} /\ UNCHANGED <<serverVars, closes>>
        /\ pc' = pc \/ pc' = "stopped"
    BY <1>5, WriteCases DEF WritesNone, WritesPart, WritesAll, Stop
  <2> QED
    BY <2>1 DEF KeptInv
<1>6. ASSUME NEW rest, handleClose(rest) PROVE KeptInv'
  <2>1. closes' > 0
    BY <1>6 DEF handleClose, TypeOK
  <2> QED
    BY <1>6, <2>1 DEF handleClose, Stop, KeptInv
<1>7. CASE HandleHangup \/ HandleEnd
  BY <1>6, <1>7 DEF HandleHangup, HandleEnd
<1>8. CASE HandleMessage
  BY <1>8 DEF HandleMessage, Stop, KeptInv
<1>9. CASE HandleReadError
  BY <1>9 DEF HandleReadError, KeptInv
<1>10. ASSUME NEW m \in Message, SendFromOther(m) PROVE KeptInv'
  BY <1>0, <1>10 DEF SendFromOther
<1>11. CASE Keep \/ Drop
  BY <1>0, <1>11 DEF Keep, Drop
<1>12. CASE Poll \/ PollOther
  <2>1. revents' # {} => registered
    BY <1>12 DEF Poll, PollOther, PollReturns, Reported
  <2>2. registered => closes = 0 /\ base # "accept"
    BY DEF ChannelState, ClosedInv, TypeOK
  <2> QED
    BY <1>12, <2>1, <2>2 DEF Poll, PollOther, PollReturns, KeptInv
<1>13. CASE StartEvent \/ MessageReturns \/ EndEvent \/ EndDispatch
  BY <1>0, <1>13 DEF StartEvent, MessageReturns, EndEvent, EndDispatch
<1>14. CASE OnCloseReturns
  BY <1>14 DEF OnCloseReturns, KeptInv
<1>15. CASE EventOfFreed
  BY <1>15 DEF EventOfFreed, Stop, KeptInv
<1>16. CASE RunCallback \/ RunOnFreed \/ EndFunctors
  BY <1>0, <1>16 DEF RunCallback, RunOnFreed, EndFunctors, Stop
<1>17. CASE CallbackReturns
  BY <1>17 DEF CallbackReturns, KeptInv
<1>18. CASE DataArrives \/ PeerCloses \/ PeerReads
  BY <1>0, <1>18 DEF DataArrives, PeerCloses, PeerReads
<1>19. CASE UNCHANGED vars
  BY <1>0, <1>19 DEF vars
<1> QED
  BY <1>2, <1>3, <1>4, <1>5, <1>7, <1>8, <1>9, <1>10, <1>11, <1>12, <1>13, <1>14, <1>15,
     <1>16, <1>17, <1>18, <1>19
  DEF Next, LoopStep, HandleEvent

(* Neither epoll nor a list of events still to be handled points to a      *)
(* Channel that was destroyed: until handleClose has taken the socket out, *)
(* newConnection or _connections holds the connection.                     *)
THEOREM RegisteredLives == SafeSpec => []RegisteredIsAlive
<1>1. Init => ClosedInv /\ KeptInv
  BY DEF Init, ClosedInv, KeptInv
<1>2. TypeOK /\ ChannelState /\ ClosedInv /\ KeptInv => RegisteredIsAlive
  <2> SUFFICES ASSUME TypeOK, ChannelState, ClosedInv, KeptInv,
                      registered \/ (pc = "dispatch" /\ revents # {})
               PROVE  Alive
    BY DEF RegisteredIsAlive
  <2>1. closes = 0 /\ base # "accept"
    BY DEF ChannelState, ClosedInv, KeptInv, TypeOK
  <2> QED
    BY <2>1 DEF KeptInv, Alive
<1> QED
  BY <1>1, <1>2, ClosedStep, KeptStep, TypeCorrect, ChannelAgrees, PTL DEF SafeSpec

-----------------------------------------------------------------------------
(* The map of the server.                                                  *)

(* newConnection sets the callbacks before the loop of a server with one   *)
(* loop can see an event, so that a close finds them set.                  *)
OneLoopInv ==
  /\ base = "done" => user /\ closeSet
  /\ base = "callbackSet" => user /\ closeSet
  /\ base = "userSet" => user
  /\ ~multi => /\ (revents # {} \/ pc \in {"event", "onMessage", "onClose", "closing"})
                    => base = "done"
               /\ closes > 0 => base = "done"
               /\ (closes > 0 /\ pc \notin {"onClose", "closing", "stopped"}) => ~mapped

(* No step puts it back into the map.                                      *)
LEMMA OneLoopStep ==
  TypeOK /\ Fresh /\ ChannelState /\ OneLoopInv /\ [Next]_vars => OneLoopInv'
<1> SUFFICES ASSUME TypeOK, Fresh, ChannelState, OneLoopInv, [Next]_vars PROVE OneLoopInv'
  OBVIOUS
<1> USE DEF serverVars, loopVars, historyVars
<1>0. ASSUME UNCHANGED <<serverVars, closes>>, revents' \subseteq revents,
             \/ pc' = pc
             \/ pc' \in {"dispatch", "poll", "functors", "onFunctor"} /\ pc \notin {"onClose", "closing", "stopped"}
             \/ pc' = "stopped"
      PROVE  OneLoopInv'
  BY <1>0 DEF OneLoopInv
<1>1. ASSUME NEW m \in Message, NEW after, sendInLoop(m, after), pc = after,
             UNCHANGED <<serverVars, revents>>
      PROVE  OneLoopInv'
  <2>1. UNCHANGED closes /\ (pc' = pc \/ pc' = "stopped")
    BY <1>1, SendCases DEF SendFails, SendsAll, SendsPart, SendsLater, Stop
  <2> QED
    BY <1>0, <1>1, <2>1
<1>2. ASSUME NEW m \in Message, SendInThread(m) PROVE OneLoopInv'
  BY <1>1, <1>2, SendInThreadSends DEF SendInThread
<1>3. CASE RunSend
  BY <1>1, <1>3, RunSendSends DEF RunSend
<1>4. CASE newConnection
  <2>1. ~multi => pc = "dispatch" /\ revents = {}
    BY <1>4 DEF newConnection, Construct, AddToMap, setUser, setUpLayerCloseCallback,
                Establish, BaseRuns
  <2>2. CASE Construct \/ AddToMap
    BY <2>1, <2>2 DEF Construct, AddToMap, OneLoopInv
  <2>3. CASE setUser \/ setUpLayerCloseCallback
    BY <2>1, <2>3 DEF setUser, setUpLayerCloseCallback, OneLoopInv
  <2>4. CASE Establish
    BY <2>1, <2>4 DEF Establish, OneLoopInv
  <2> QED
    BY <1>4, <2>2, <2>3, <2>4 DEF newConnection
<1>5. CASE handleWrite
  <2>1. pc = "event" /\ revents' = {} /\ UNCHANGED <<serverVars, closes>>
    BY <1>5, WriteCases
  <2>2. pc' = pc \/ pc' = "stopped"
    BY <1>5, WriteCases DEF WritesNone, WritesPart, WritesAll, Stop
  <2> QED
    BY <1>0, <2>1, <2>2
<1>6. ASSUME NEW rest, handleClose(rest), pc = "event" PROVE OneLoopInv'
  BY <1>6 DEF handleClose, Stop, OneLoopInv
<1>7. CASE HandleHangup \/ HandleEnd
  BY <1>6, <1>7 DEF HandleHangup, HandleEnd
<1>8. CASE HandleMessage
  BY <1>8 DEF HandleMessage, AfterRead, Stop, OneLoopInv
<1>9. CASE HandleReadError
  BY <1>0, <1>9 DEF HandleReadError, AfterRead
<1>10. ASSUME NEW m \in Message, SendFromOther(m) PROVE OneLoopInv'
  BY <1>0, <1>10 DEF SendFromOther
<1>11. CASE Keep \/ Drop
  BY <1>0, <1>11 DEF Keep, Drop
<1>12. CASE Poll \/ PollOther
  <2>1. ~multi => base \in {"accept", "done"}
    BY <1>12 DEF Poll, PollOther, PollReturns, LoopRuns
  <2>2. base = "accept" => revents' = {}
    BY <1>12 DEF Poll, PollOther, PollReturns, Reported, ChannelState
  <2> QED
    BY <1>12, <2>1, <2>2 DEF Poll, PollOther, PollReturns, OneLoopInv
<1>13. CASE StartEvent
  BY <1>13 DEF StartEvent, OneLoopInv
<1>14. CASE MessageReturns
  BY <1>14 DEF MessageReturns, OneLoopInv
<1>15. CASE OnCloseReturns
  BY <1>15 DEF OnCloseReturns, OneLoopInv
<1>16. CASE EndEvent \/ EventOfFreed \/ EndDispatch
  BY <1>0, <1>16 DEF EndEvent, EventOfFreed, EndDispatch, Stop
<1>17. CASE RunCallback \/ RunOnFreed \/ CallbackReturns \/ EndFunctors
  BY <1>0, <1>17 DEF RunCallback, RunOnFreed, RunsFunctor, CallbackReturns, EndFunctors, Stop
<1>18. CASE DataArrives \/ PeerCloses \/ PeerReads
  BY <1>0, <1>18 DEF DataArrives, PeerCloses, PeerReads
<1>19. CASE UNCHANGED vars
  BY <1>0, <1>19 DEF vars
<1> QED
  BY <1>2, <1>3, <1>4, <1>5, <1>7, <1>8, <1>9, <1>10, <1>11, <1>12, <1>13, <1>14, <1>15,
     <1>16, <1>17, <1>18, <1>19
  DEF Next, LoopStep, HandleEvent

(* In a server with one loop the close of a connection removes it from     *)
(* _connections.                                                           *)
THEOREM OneLoopIsTidy == SafeSpec => []OneLoopForgets
<1>1. Init => OneLoopInv
  BY DEF Init, OneLoopInv
<1>2. OneLoopInv => OneLoopForgets
  BY DEF OneLoopInv, OneLoopForgets, ClosedIsForgotten
<1> QED
  BY <1>1, <1>2, OneLoopStep, TypeCorrect, ChannelAgrees, PTL DEF SafeSpec
-----------------------------------------------------------------------------
(* The abstract queue of bytes.                                            *)

OutQueue == INSTANCE ByteQueue WITH Data <- Seq(Byte), content <- outBuf

(* _outBuf is only appended to, and retrieved from at the front.           *)
LEMMA PutOrTake ==
  ASSUME TypeOK, [Next]_vars
  PROVE  \/ \E s \in Seq(Byte) : OutQueue!Put(s)
         \/ \E n \in 0 .. Len(outBuf) : OutQueue!Take(n)
         \/ UNCHANGED outBuf
<1>0. outBuf \in Seq(Byte) /\ Len(outBuf) \in Nat
  BY LenProperties DEF TypeOK
<1>1. CASE UNCHANGED outVars
  BY <1>1 DEF outVars
<1>2. ASSUME NEW m \in Message, NEW after, sendInLoop(m, after)
      PROVE  UNCHANGED outBuf \/ \E s \in Seq(Byte) : OutQueue!Put(s)
  <2>0. Bytes(m) \in Seq(Byte) /\ Len(Bytes(m)) = MessageSize
    BY BytesType
  <2>1. CASE SendFails \/ SendsAll(m, after)
    BY <2>1 DEF SendFails, SendsAll, outVars
  <2>2. ASSUME NEW n \in 1 .. MessageSize - 1, SendsPart(m, n, after)
        PROVE  \E s \in Seq(Byte) : OutQueue!Put(s)
    <3>1. MessageSize \in Nat /\ n \in 0 .. MessageSize
      BY SizeAssumption DEF SizeAssumption
    <3>2. SubSeq(Bytes(m), n + 1, MessageSize) \in Seq(Byte)
      BY <2>0, <3>1, CutAndJoin
    <3>3. <<>> \o SubSeq(Bytes(m), n + 1, MessageSize) = SubSeq(Bytes(m), n + 1, MessageSize)
      BY <3>2, ConcatEmptySeq
    <3> QED
      BY <2>2, <3>2, <3>3 DEF SendsPart, OutQueue!Put
  <2>3. CASE SendsLater(m, after)
    BY <2>0, <2>3 DEF SendsLater, OutQueue!Put
  <2> QED
    BY <1>2, <2>1, <2>2, <2>3, SendCases
<1>3. CASE handleWrite
  <2>1. CASE WritesNone
    BY <2>1 DEF WritesNone, outVars
  <2>2. ASSUME NEW n \in 1 .. Len(outBuf) - 1, WritesPart(n)
        PROVE  \E k \in 0 .. Len(outBuf) : OutQueue!Take(k)
    <3>1. n \in 0 .. Len(outBuf) /\ n < Len(outBuf)
      BY <1>0
    <3> QED
      BY <2>2, <3>1 DEF WritesPart, OutQueue!Take
  <2>3. CASE WritesAll
    <3>1. Len(outBuf) \in 0 .. Len(outBuf) /\ ~ Len(outBuf) < Len(outBuf)
      BY <1>0
    <3> QED
      BY <2>3, <3>1 DEF WritesAll, OutQueue!Take
  <2> QED
    BY <1>3, <2>1, <2>2, <2>3, WriteCases
<1> QED
  BY <1>1, <1>2, <1>3, StreamSteps

(* A connection uses _outBuf as the abstract queue of bytes is used, which *)
(* BufferProofs shows that a Buffer implements: so the queue of bytes here *)
(* stands for the Buffer of src/src/TcpConnection.cc.                      *)
THEOREM OutBufferIsQueue == SafeSpec => OutQueue!Spec
<1>1. Init => OutQueue!Init
  BY DEF Init, OutQueue!Init
<1>2. TypeOK /\ [Next]_vars => [OutQueue!Next]_outBuf
  BY PutOrTake DEF OutQueue!Next
<1> QED
  BY <1>1, <1>2, TypeCorrect, PTL DEF SafeSpec, OutQueue!Spec
=============================================================================
