--------------------------- MODULE TcpClientProofs ---------------------------
(***************************************************************************)
(* Proofs that, for every number of attempts, a TcpClient keeps its types, *)
(* and that no Channel is destroyed while epoll or a handler still needs   *)
(* it, when connect() is called with care.                                 *)
(***************************************************************************)
EXTENDS TcpClient, FiniteSets, FiniteSetTheorems, FunctionTheorems, SequenceTheorems,
        TLAPS

(* The functors of a client, and the calls of connect() among them.        *)
Functor == {"connect", "resetChannel"}

(* How many calls of Connector::connect a queue of functors holds.         *)
ConnectsAt(q) == {i \in 1 .. Len(q) : q[i] = "connect"}
Connects(q) == Cardinality(ConnectsAt(q))

LEMMA ConnectsAreFinite ==
  ASSUME NEW q \in Seq(Functor)
  PROVE  IsFiniteSet(ConnectsAt(q)) /\ Connects(q) \in Nat
<1>1. IsFiniteSet(1 .. Len(q))
  BY FS_Interval, LenProperties
<1>2. ConnectsAt(q) \subseteq 1 .. Len(q)
  BY DEF ConnectsAt
<1>3. IsFiniteSet(ConnectsAt(q))
  BY <1>1, <1>2, FS_Subset
<1> QED
  BY <1>3, FS_CardinalityType DEF Connects

LEMMA NoConnects == Connects(<<>>) = 0
<1>1. Len(<<>>) = 0
  BY EmptySeq
<1>2. ConnectsAt(<<>>) = {}
  BY <1>1 DEF ConnectsAt
<1> QED
  BY <1>2, FS_EmptySet DEF Connects

(* A functor that is queued or taken is counted.                           *)
LEMMA ConnectsOfAppend ==
  ASSUME NEW q \in Seq(Functor), NEW f \in Functor
  PROVE  Connects(Append(q, f)) = IF f = "connect" THEN Connects(q) + 1 ELSE Connects(q)
<1> DEFINE n == Len(q)
<1>0. n \in Nat
  BY LenProperties
<1>1. /\ Len(Append(q, f)) = n + 1
      /\ \A i \in 1 .. n : Append(q, f)[i] = q[i]
      /\ Append(q, f)[n + 1] = f
  BY AppendProperties
<1> HIDE DEF n
<1>2. n = Len(q)
  BY DEF n
<1>3. n + 1 \notin ConnectsAt(q)
  BY <1>0, <1>2 DEF ConnectsAt
<1>4. ConnectsAt(Append(q, f)) =
        IF f = "connect" THEN ConnectsAt(q) \cup {n + 1} ELSE ConnectsAt(q)
  BY <1>0, <1>1, <1>2 DEF ConnectsAt
<1>5. IsFiniteSet(ConnectsAt(q))
  BY ConnectsAreFinite
<1> QED
  BY <1>3, <1>4, <1>5, FS_AddElement DEF Connects

LEMMA ConnectsOfTail ==
  ASSUME NEW q \in Seq(Functor), q # <<>>
  PROVE  Connects(q) = IF Head(q) = "connect" THEN Connects(Tail(q)) + 1 ELSE Connects(Tail(q))
<1> DEFINE n == Len(q)
           later == ConnectsAt(q) \ {1}
           shift == [i \in ConnectsAt(Tail(q)) |-> i + 1]
<1>0. n \in Nat /\ n >= 1
  BY LenProperties, EmptySeq
<1>1. /\ Len(Tail(q)) = n - 1 /\ Tail(q) \in Seq(Functor)
      /\ \A i \in 1 .. n - 1 : Tail(q)[i] = q[i + 1]
      /\ Head(q) = q[1]
  BY HeadTailProperties
<1>2. IsFiniteSet(ConnectsAt(q)) /\ IsFiniteSet(ConnectsAt(Tail(q)))
  BY <1>1, ConnectsAreFinite
<1>3. Connects(Tail(q)) = Cardinality(later)
  <2>1. \A i \in ConnectsAt(Tail(q)) : i \in 1 .. n - 1 /\ i + 1 \in later
    BY <1>0, <1>1 DEF ConnectsAt
  <2>2. shift \in [ConnectsAt(Tail(q)) -> later]
    BY <2>1
  <2>3. \A i, j \in ConnectsAt(Tail(q)) : shift[i] = shift[j] => i = j
    BY <1>0, <2>1
  <2>4. \A j \in later : \E i \in ConnectsAt(Tail(q)) : shift[i] = j
    <3> SUFFICES ASSUME NEW j \in later PROVE \E i \in ConnectsAt(Tail(q)) : shift[i] = j
      OBVIOUS
    <3>1. j \in 2 .. n /\ q[j] = "connect"
      BY <1>0 DEF ConnectsAt
    <3>2. j - 1 \in 1 .. n - 1 /\ (j - 1) + 1 = j
      BY <1>0, <3>1
    <3>3. j - 1 \in ConnectsAt(Tail(q))
      BY <1>1, <3>1, <3>2 DEF ConnectsAt
    <3>4. shift[j - 1] = j
      BY <3>2, <3>3
    <3> QED
      BY <3>3, <3>4
  <2> HIDE DEF shift
  <2>5. shift \in Bijection(ConnectsAt(Tail(q)), later)
    BY <2>2, <2>3, <2>4, Fun_IsBij
  <2>6. ExistsBijection(ConnectsAt(Tail(q)), later)
    BY <2>5 DEF ExistsBijection
  <2> QED
    BY <1>2, <2>6, FS_Bijection DEF Connects
<1>4. 1 \in ConnectsAt(q) <=> Head(q) = "connect"
  BY <1>0, <1>1 DEF ConnectsAt
<1>5. Cardinality(ConnectsAt(q)) \in Nat
  BY <1>2, FS_CardinalityType
<1>6. Cardinality(later) =
        IF 1 \in ConnectsAt(q) THEN Cardinality(ConnectsAt(q)) - 1 ELSE Cardinality(ConnectsAt(q))
  BY <1>2, FS_RemoveElement
<1> QED
  BY <1>3, <1>4, <1>5, <1>6 DEF Connects
-----------------------------------------------------------------------------
(* The state keeps its types.                                              *)

(* Every call of connect() that has made no socket yet is in a queue, and  *)
(* what doPendingFunctors has swapped out is run before the loop goes on.  *)
QueueInv ==
  /\ asked - made = Connects(pending) + Connects(tempRuns)
  /\ pc # "functors" => tempRuns = <<>>

LEMMA QueueFacts ==
  ASSUME TypeOK
  PROVE  /\ pending \in Seq(Functor) /\ tempRuns \in Seq(Functor)
         /\ Connects(pending) \in Nat /\ Connects(tempRuns) \in Nat
         /\ asked \in Nat /\ made \in Nat /\ made <= asked /\ asked <= MaxAttempts
         /\ chan \in Nat /\ chan <= made /\ connection \in Nat /\ connection <= made
         /\ at \in Nat /\ at <= made
  BY ConnectsAreFinite, MaxAttemptsAssumption DEF TypeOK, Functor, MaxAttemptsAssumption

(* What is run next, and what is left then.                                *)
LEMMA NextFunctorTakes ==
  ASSUME TypeOK, NEW f \in Functor, NextFunctor(f)
  PROVE  /\ tempRuns' \in Seq(Functor)
         /\ Connects(tempRuns) =
              IF f = "connect" THEN Connects(tempRuns') + 1 ELSE Connects(tempRuns')
         /\ Connects(tempRuns') \in Nat
         /\ pc = "functors"
<1>1. /\ tempRuns \in Seq(Functor) /\ tempRuns # <<>> /\ Head(tempRuns) = f
      /\ tempRuns' = Tail(tempRuns) /\ pc = "functors"
  BY QueueFacts DEF NextFunctor
<1>2. Tail(tempRuns) \in Seq(Functor)
  BY <1>1, HeadTailProperties
<1>3. Connects(tempRuns) =
        IF f = "connect" THEN Connects(Tail(tempRuns)) + 1 ELSE Connects(Tail(tempRuns))
  BY <1>1, ConnectsOfTail
<1> QED
  BY <1>1, <1>2, <1>3, ConnectsAreFinite

(* What connect does of the sockets.                                       *)
LEMMA ConnectTypes ==
  ASSUME TypeOK, connect, made < MaxAttempts
  PROVE  /\ made' = made + 1 /\ made' \in Attempt
         /\ chan' \in 0 .. made'
         /\ sock' \in [Attempt -> {"none", "connecting", "up", "gone", "failed", "unconnected",
                                   "closed"}]
         /\ watch' \in [Attempt -> Watchers \cup {"none"}]
<1>1. made' = made + 1 /\ made' \in Attempt
  BY QueueFacts, MaxAttemptsAssumption DEF connect, Attempt, MaxAttemptsAssumption
<1>2. chan \in 0 .. made' /\ made' \in 0 .. made'
  BY <1>1, QueueFacts
<1> QED
  BY <1>1, <1>2 DEF connect, WatchConnecting, TypeOK, Watchers

(* No step disturbs the types or the count of calls.                       *)
LEMMA TypeStep == TypeOK /\ QueueInv /\ [Next]_vars => TypeOK' /\ QueueInv'
<1> SUFFICES ASSUME TypeOK, QueueInv, [Next]_vars PROVE TypeOK' /\ QueueInv'
  OBVIOUS
<1>0. /\ pending \in Seq(Functor) /\ tempRuns \in Seq(Functor)
      /\ Connects(pending) \in Nat /\ Connects(tempRuns) \in Nat
      /\ asked \in Nat /\ made \in Nat /\ made <= asked /\ asked <= MaxAttempts
      /\ MaxAttempts \in Nat
      /\ asked - made = Connects(pending) + Connects(tempRuns)
  BY QueueFacts, MaxAttemptsAssumption DEF QueueInv, MaxAttemptsAssumption
<1> USE DEF connectorVars, clientVars, loopVars
<1>q. UNCHANGED <<asked, made, pending, tempRuns>> /\ (pc' = "functors" \/ pc # "functors" \/ tempRuns = <<>>)
      => QueueInv'
  BY DEF QueueInv
<1>1. CASE ConnectInThread
  <2>1. made < MaxAttempts /\ asked < MaxAttempts /\ asked' = asked + 1
    BY <1>0, <1>1 DEF ConnectInThread, MayConnect
  <2>2. /\ made' = made + 1 /\ chan' \in 0 .. made'
        /\ sock' \in [Attempt -> {"none", "connecting", "up", "gone", "failed", "unconnected",
                                   "closed"}]
        /\ watch' \in [Attempt -> Watchers \cup {"none"}]
    BY <1>1, <2>1, ConnectTypes DEF ConnectInThread
  <2>3. /\ made' \in 0 .. asked' /\ asked' \in 0 .. MaxAttempts
        /\ connection \in 0 .. made' /\ at \in 0 .. made' /\ 1 .. made \subseteq 1 .. made'
    BY <1>0, <2>1, <2>2, QueueFacts
  <2>4. UNCHANGED <<careful, clientVars, loopVars, pending, crashed>>
    BY <1>1 DEF ConnectInThread
  <2>5. TypeOK'
    BY <2>2, <2>3, <2>4 DEF TypeOK
  <2>6. QueueInv'
    BY <1>0, <2>1, <2>2, <2>4 DEF QueueInv
  <2> QED
    BY <2>5, <2>6
<1>2. CASE ConnectFromOther
  <2>1. /\ asked' = asked + 1 /\ asked < MaxAttempts /\ pending' = Append(pending, "connect")
        /\ UNCHANGED <<careful, made, chan, sock, watch, clientVars, loopVars, crashed>>
    BY <1>2 DEF ConnectFromOther, MayConnect
  <2>2. pending' \in Seq(Functor) /\ Connects(pending') = Connects(pending) + 1
    BY <1>0, <2>1, AppendProperties, ConnectsOfAppend DEF Functor
  <2>3. asked' \in 0 .. MaxAttempts /\ made \in 0 .. asked'
    BY <1>0, <2>1
  <2>4. TypeOK'
    BY <2>1, <2>2, <2>3 DEF TypeOK, Functor
  <2>5. Connects(tempRuns') = Connects(tempRuns) /\ asked' - made' = (asked - made) + 1
    BY <1>0, <2>1
  <2>6. asked' - made' = Connects(pending') + Connects(tempRuns')
    BY <1>0, <2>2, <2>5
  <2>7. pc' # "functors" => tempRuns' = <<>>
    BY <2>1 DEF QueueInv
  <2> QED
    BY <2>4, <2>6, <2>7 DEF QueueInv
<1>3. CASE stop
  <2>1. pending' = Append(pending, "resetChannel")
    BY <1>3 DEF stop
  <2>2. pending' \in Seq(Functor) /\ Connects(pending') = Connects(pending)
    BY <1>0, <2>1, AppendProperties, ConnectsOfAppend DEF Functor
  <2>3. TypeOK'
    BY <1>3, <2>2 DEF stop, TypeOK, Functor
  <2>4. QueueInv'
    BY <1>0, <1>3, <2>2 DEF stop, QueueInv
  <2> QED
    BY <2>3, <2>4
<1>4. ASSUME NEW k \in Attempt, handleWrite(k) PROVE TypeOK' /\ QueueInv'
  <2>1. /\ made \in Attempt /\ made \in 0 .. made /\ made # None /\ pc = "dispatch"
    BY <1>0, <1>4, QueueFacts DEF handleWrite, InDispatch, Attempt, None
  <2>2. active' \subseteq Attempt \X Watchers
    BY <1>4 DEF handleWrite, InDispatch, TypeOK
  <2>3. CASE sock[made] = "closed"
    BY <1>4, <1>q, <2>1, <2>2, <2>3 DEF handleWrite, TypeOK
  <2>4. CASE sock[made] # "closed"
    <3>1. /\ HandOver(chan, made)
          /\ pending' = Append(pending, "resetChannel")
          /\ told' = [told EXCEPT ![made] = Append(@, "onConnection")]
          /\ pc' = "onConnection"
          /\ at' = made
          /\ UNCHANGED <<careful, connectorVars, sock, connection, closeSet, held, tempRuns,
                 crashed>>
      BY <1>4, <2>4 DEF handleWrite
    <3>2. pending' \in Seq(Functor) /\ Connects(pending') = Connects(pending)
      BY <1>0, <3>1, AppendProperties, ConnectsOfAppend DEF Functor
    <3>3. told' \in [Attempt -> Seq({"onConnection", "onClose"})]
      BY <2>1, <3>1, AppendProperties DEF TypeOK
    <3>4. watch' \in [Attempt -> Watchers \cup {"none"}]
      BY <3>1 DEF HandOver, TypeOK, Watchers
    <3>5. TypeOK'
      BY <2>1, <2>2, <3>1, <3>2, <3>3, <3>4 DEF TypeOK, Functor
    <3>6. QueueInv'
      BY <1>0, <2>1, <3>1, <3>2 DEF QueueInv
    <3> QED
      BY <3>5, <3>6
  <2> QED
    BY <2>3, <2>4
<1>5. CASE Adopt
  <2>1. at \in 1 .. made
    BY <1>0, <1>5, QueueFacts DEF Adopt, TypeOK, None
  <2>2. TypeOK'
    BY <1>5, <2>1 DEF Adopt, TypeOK, None
  <2>3. QueueInv'
    BY <1>5, <1>q DEF Adopt
  <2> QED
    BY <2>2, <2>3
<1>6. ASSUME NEW k \in Attempt, handleClose(k) PROVE TypeOK' /\ QueueInv'
  <2>1. active' \subseteq Attempt \X Watchers /\ pc = "dispatch"
    BY <1>6 DEF handleClose, InDispatch, TypeOK
  <2>2. k \in 0 .. made /\ k # None
    BY <1>0, <1>6, QueueFacts DEF handleClose, Alive, TypeOK, Attempt, None
  <2>3. told' \in [Attempt -> Seq({"onConnection", "onClose"})]
    BY <1>6, AppendProperties DEF handleClose, TypeOK
  <2>4. watch' \in [Attempt -> Watchers \cup {"none"}]
    BY <1>6 DEF handleClose, TypeOK
  <2>5. TypeOK'
    BY <1>6, <2>1, <2>2, <2>3, <2>4 DEF handleClose, TypeOK
  <2>6. QueueInv'
    BY <1>6, <1>q, <2>1 DEF handleClose
  <2> QED
    BY <2>5, <2>6
<1>7. CASE removeConnection
  <2>1. TypeOK'
    BY <1>7 DEF removeConnection, TypeOK, None
  <2>2. QueueInv'
    BY <1>7, <1>q DEF removeConnection
  <2> QED
    BY <2>1, <2>2
<1>8. CASE UseFreed
  BY <1>8, <1>q DEF UseFreed, InDispatch, TypeOK
<1>9. CASE PollOther
  <2>1. Ready \subseteq Attempt \X Watchers
    BY DEF Ready
  <2>2. TypeOK'
    BY <1>9, <2>1 DEF PollOther, PollReturns, TypeOK
  <2> QED
    BY <1>9, <1>q, <2>2 DEF PollOther, PollReturns
<1>10. CASE EndDispatch
  <2>1. TypeOK'
    BY <1>0, <1>10, EmptySeq DEF EndDispatch, TypeOK, Functor
  <2>2. tempRuns = <<>>
    BY <1>10 DEF EndDispatch, QueueInv
  <2>3. QueueInv'
    BY <1>0, <1>10, <2>2, NoConnects DEF EndDispatch, QueueInv
  <2> QED
    BY <2>1, <2>3
<1>11. CASE RunConnect
  <2>1. /\ tempRuns' \in Seq(Functor) /\ Connects(tempRuns) = Connects(tempRuns') + 1
        /\ Connects(tempRuns') \in Nat /\ pc = "functors"
    BY <1>11, NextFunctorTakes DEF RunConnect, Functor
  <2>2. made < asked
    BY <1>0, <2>1
  <2>3. /\ made' = made + 1 /\ chan' \in 0 .. made'
        /\ sock' \in [Attempt -> {"none", "connecting", "up", "gone", "failed", "unconnected",
                                   "closed"}]
        /\ watch' \in [Attempt -> Watchers \cup {"none"}]
    BY <1>0, <1>11, <2>2, ConnectTypes DEF RunConnect
  <2>4. /\ made' \in 0 .. asked
        /\ connection \in 0 .. made' /\ at \in 0 .. made' /\ 1 .. made \subseteq 1 .. made'
    BY <1>0, <2>2, <2>3, QueueFacts
  <2>5. UNCHANGED <<careful, asked, clientVars, pc, at, active, pending, crashed>>
    BY <1>11 DEF RunConnect
  <2>6. TypeOK'
    BY <2>1, <2>3, <2>4, <2>5 DEF TypeOK, Functor
  <2>7. Connects(pending') = Connects(pending) /\ asked' - made' = (asked - made) - 1
    BY <1>0, <2>3, <2>5
  <2>8. QueueInv'
    BY <1>0, <2>1, <2>5, <2>7 DEF QueueInv
  <2> QED
    BY <2>6, <2>8
<1>12. CASE resetChannel
  <2>1. /\ tempRuns' \in Seq(Functor) /\ Connects(tempRuns) = Connects(tempRuns')
        /\ pc = "functors"
    BY <1>12, NextFunctorTakes DEF resetChannel, Functor
  <2>2. TypeOK'
    BY <1>0, <1>12, <2>1 DEF resetChannel, TypeOK, Functor, None
  <2>3. QueueInv'
    BY <1>0, <1>12, <2>1 DEF resetChannel, QueueInv
  <2> QED
    BY <2>2, <2>3
<1>13. CASE EndFunctors
  <2>1. TypeOK'
    BY <1>13 DEF EndFunctors, TypeOK
  <2> QED
    BY <1>13, <1>q, <2>1 DEF EndFunctors
<1>14. ASSUME NEW k \in Attempt, Decide(k) \/ PeerGoes(k) PROVE TypeOK' /\ QueueInv'
  <2>1. TypeOK'
    BY <1>14 DEF Decide, PeerGoes, TypeOK
  <2> QED
    BY <1>14, <1>q, <2>1 DEF Decide, PeerGoes
<1>15. CASE UNCHANGED vars
  <2>1. TypeOK'
    BY <1>15 DEF vars, TypeOK
  <2> QED
    BY <1>15, <1>q, <2>1 DEF vars
<1> QED
  BY <1>1, <1>2, <1>3, <1>4, <1>5, <1>6, <1>7, <1>8, <1>9, <1>10, <1>11, <1>12, <1>13,
     <1>14, <1>15 DEF Next, LoopStep

(* The fields of the client and of the Connector keep their types, and no  *)
(* socket is made that nobody asked for.                                   *)
THEOREM TypeCorrect == Spec => [](TypeOK /\ QueueInv)
<1>1. Init => TypeOK /\ QueueInv
  <2> SUFFICES ASSUME Init PROVE TypeOK /\ QueueInv
    OBVIOUS
  <2>1. /\ <<>> \in Seq({"connect", "resetChannel"})
        /\ <<>> \in Seq({"onConnection", "onClose"})
    BY EmptySeq
  <2>2. TypeOK
    <3>1. asked \in 0 .. MaxAttempts /\ made \in 0 .. asked /\ chan \in 0 .. made
          /\ connection \in 0 .. made /\ at \in 0 .. made
      BY MaxAttemptsAssumption DEF Init, None, MaxAttemptsAssumption
    <3>2. /\ sock \in [Attempt -> {"none", "connecting", "up", "gone", "failed", "unconnected",
                                  "closed"}]
          /\ watch \in [Attempt -> Watchers \cup {"none"}]
          /\ told \in [Attempt -> Seq({"onConnection", "onClose"})]
      BY <2>1 DEF Init
    <3>3. pending \in Seq({"connect", "resetChannel"}) /\ tempRuns \in Seq({"connect", "resetChannel"})
      BY <2>1 DEF Init
    <3> QED
      BY <3>1, <3>2, <3>3 DEF Init, TypeOK, None
  <2>3. QueueInv
    BY NoConnects DEF Init, QueueInv
  <2> QED
    BY <2>2, <2>3
<1> QED
  BY <1>1, TypeStep, PTL DEF Spec
-----------------------------------------------------------------------------
(* The Channels, when connect() is called with care.                       *)

(* Is the functor in one of the two queues?                                *)
Queued(f) == f \in Range(pending) \cup Range(tempRuns)

(* One attempt at a time: its call of connect() waits in a queue, or its   *)
(* Channel is watched, or it is handed over to the one connection there    *)
(* is; resetChannel waits only for a Channel that was handed over.         *)
OneAttempt ==
  /\ asked \in {made, made + 1}
  /\ chan # None => chan = made /\ asked = made
  /\ asked # made => ~Queued("resetChannel") /\ pc # "onConnection"
  /\ asked # made \/ chan # None =>
       connection \in {None, chan} \/ (pc = "onClose" /\ at = connection)
  /\ pc = "onConnection" =>
       connection = None /\ at = made /\ chan = made /\ watch[at] = "connection"
  /\ pc = "onClose" => at = connection /\ watch[at] = "none"
  /\ connection # None => connection \in closeSet

(* What epoll and activeChannels have a Channel for.                       *)
WatchInv ==
  /\ \A k \in Attempt : k > made => watch[k] = "none"
  /\ \A k \in Attempt, who \in Watchers : <<k, who>> \in active => watch[k] = who
  /\ \A k \in Attempt :
       watch[k] = "connector" => chan = k /\ connection # k /\ ~Queued("resetChannel")
  /\ \A k \in Attempt :
       watch[k] = "connection" => connection = k \/ (pc = "onConnection" /\ at = k)

(* Users who connect with care keep to one attempt.                        *)
CarefulInv == careful => OneAttempt /\ WatchInv

(* What is queued after a functor was added or taken.                      *)
LEMMA RangeOfAppend ==
  ASSUME NEW q \in Seq(Functor), NEW f \in Functor
  PROVE  Range(Append(q, f)) = Range(q) \cup {f}
<1>1. /\ DOMAIN q = 1 .. Len(q) /\ Len(q) \in Nat
      /\ Append(q, f) \in Seq(Functor) /\ Len(Append(q, f)) = Len(q) + 1
      /\ \A i \in 1 .. Len(q) : Append(q, f)[i] = q[i]
      /\ Append(q, f)[Len(q) + 1] = f
  BY AppendProperties, LenProperties
<1>2. DOMAIN Append(q, f) = 1 .. Len(q) + 1
  BY <1>1, LenProperties
<1> QED
  BY <1>1, <1>2 DEF Range

LEMMA RangeOfTail ==
  ASSUME NEW q \in Seq(Functor), q # <<>>
  PROVE  Head(q) \in Range(q) /\ Range(Tail(q)) \subseteq Range(q)
<1>1. /\ DOMAIN q = 1 .. Len(q) /\ Len(q) \in Nat /\ Len(q) >= 1 /\ Head(q) = q[1]
      /\ Tail(q) \in Seq(Functor) /\ Len(Tail(q)) = Len(q) - 1
      /\ \A i \in 1 .. Len(q) - 1 : Tail(q)[i] = q[i + 1]
  BY HeadTailProperties, LenProperties, EmptySeq
<1>2. DOMAIN Tail(q) = 1 .. Len(q) - 1
  BY <1>1, LenProperties
<1> QED
  BY <1>1, <1>2 DEF Range

LEMMA RangeOfEmpty == Range(<<>>) = {}
  BY DEF Range

(* connect with nothing going on.                                          *)
LEMMA ConnectKeepsCare ==
  ASSUME TypeOK, CarefulInv, careful, connect, made < MaxAttempts, chan = None,
         ~Queued("resetChannel"), pc # "onConnection",
         connection = None \/ (pc = "onClose" /\ at = connection),
         asked' = made + 1,
         UNCHANGED <<careful, connection, closeSet, pc, at, active, pending>>,
         Range(tempRuns') \subseteq Range(tempRuns)
  PROVE  CarefulInv'
<1>0. /\ made \in Nat /\ made' = made + 1 /\ made' \in Attempt /\ OneAttempt /\ WatchInv
      /\ asked' = made' /\ connection \in Nat /\ connection <= made
      /\ Attempt \subseteq Nat \ {0}
  BY QueueFacts, ConnectTypes DEF CarefulInv, Attempt
<1>1. ~(Queued("resetChannel")')
  BY DEF Queued
<1>2. OneAttempt'
  <2>1. pc = "onClose" => watch'[at] = watch[at]
    <3>1. pc = "onClose" => at \in Attempt /\ at # made'
      BY <1>0, QueueFacts, MaxAttemptsAssumption
        DEF OneAttempt, TypeOK, None, Attempt, MaxAttemptsAssumption
    <3> QED
      BY <3>1 DEF connect, WatchConnecting, TypeOK
  <2>2. chan' # None => chan' = made'
    BY <1>0 DEF connect, WatchConnecting
  <2> QED
    BY <1>0, <1>1, <2>1, <2>2 DEF OneAttempt, None
<1>3. WatchInv'
  <2>1. CASE UNCHANGED <<chan, watch>>
    BY <1>0, <1>1, <2>1 DEF WatchInv
  <2>2. CASE WatchConnecting(made')
    <3>1. watch' = [watch EXCEPT ![made'] = "connector"] /\ chan' = made' /\ watch[made'] = "none"
      BY <1>0, <2>2 DEF WatchConnecting, WatchInv
    <3>2. /\ watch'[made'] = "connector"
          /\ \A k \in Attempt : k # made' => watch'[k] = watch[k]
      BY <1>0, <3>1 DEF TypeOK
    <3>3. \A k \in Attempt : k > made' => watch'[k] = "none"
      BY <1>0, <3>2 DEF WatchInv
    <3>4. \A k \in Attempt, who \in Watchers : <<k, who>> \in active' => watch'[k] = who
      BY <1>0, <3>1, <3>2 DEF WatchInv, Watchers
    <3>5. \A k \in Attempt : watch'[k] = "connector" => k = made'
      BY <1>0, <3>1, <3>2 DEF WatchInv, None
    <3>6. \A k \in Attempt : watch'[k] = "connection" => connection = k
      BY <1>0, <3>1, <3>2 DEF WatchInv
    <3>7. connection' # made'
      BY <1>0
    <3> QED
      BY <1>1, <3>1, <3>3, <3>4, <3>5, <3>6, <3>7 DEF WatchInv
  <2> QED
    BY <2>1, <2>2 DEF connect
<1> QED
  BY <1>2, <1>3 DEF CarefulInv

(* No step of anybody disturbs this.                                       *)
LEMMA CarefulStep == TypeOK /\ QueueInv /\ CarefulInv /\ [Next]_vars => CarefulInv'
<1> SUFFICES ASSUME TypeOK, QueueInv, CarefulInv, [Next]_vars, careful' PROVE OneAttempt' /\ WatchInv'
  BY DEF CarefulInv
<1> USE DEF connectorVars, clientVars, loopVars
<1>0. careful /\ OneAttempt /\ WatchInv
  <2>1. careful' = careful
    BY DEF Next, LoopStep, ConnectInThread, ConnectFromOther, stop, EndDispatch, RunConnect,
           resetChannel, EndFunctors, Adopt, removeConnection, UseFreed, handleWrite,
           handleClose, PollOther, PollReturns, Decide, PeerGoes, vars
  <2> QED
    BY <2>1 DEF CarefulInv
<1>1. /\ pending \in Seq(Functor) /\ tempRuns \in Seq(Functor)
      /\ made \in Nat /\ asked \in Nat /\ made <= asked /\ asked <= MaxAttempts
      /\ chan \in Nat /\ chan <= made /\ connection \in Nat /\ connection <= made
      /\ Connects(tempRuns) \in Nat /\ Connects(pending) \in Nat
      /\ MaxAttempts \in Nat /\ Attempt \subseteq Nat \ {0}
  BY QueueFacts, MaxAttemptsAssumption DEF Attempt, MaxAttemptsAssumption
<1>u. ASSUME UNCHANGED <<connectorVars, watch, connection, closeSet, pc, at, pending, tempRuns>>,
             active' \subseteq active
      PROVE  OneAttempt' /\ WatchInv'
  BY <1>0, <1>u DEF OneAttempt, WatchInv, Queued
<1>2. CASE ConnectInThread
  <2>1. /\ asked = made /\ chan = None /\ ~Queued("resetChannel") /\ pc # "onConnection"
        /\ connection = None \/ (pc = "onClose" /\ at = connection)
        /\ made < MaxAttempts /\ asked' = made + 1
    BY <1>0, <1>1, <1>2 DEF ConnectInThread, MayConnect, Idle, Queued
  <2>2. CarefulInv'
    BY <1>0, <1>2, <2>1, ConnectKeepsCare DEF ConnectInThread
  <2> QED
    BY <2>2 DEF CarefulInv
<1>3. CASE ConnectFromOther
  <2>1. /\ asked = made /\ chan = None /\ ~Queued("resetChannel") /\ pc # "onConnection"
        /\ connection = None \/ (pc = "onClose" /\ at = connection)
        /\ pending' = Append(pending, "connect") /\ asked' = made + 1
        /\ UNCHANGED <<careful, made, chan, sock, watch, clientVars, loopVars, crashed>>
    BY <1>0, <1>1, <1>3 DEF ConnectFromOther, MayConnect, Idle, Queued
  <2>2. Range(pending') = Range(pending) \cup {"connect"}
    BY <1>1, <2>1, RangeOfAppend DEF Functor
  <2>3. ~(Queued("resetChannel")')
    BY <2>1, <2>2 DEF Queued
  <2> QED
    BY <1>0, <1>1, <2>1, <2>3 DEF OneAttempt, WatchInv, None
<1>4. CASE stop
  BY <1>0, <1>4 DEF stop
<1>5. ASSUME NEW k \in Attempt, handleWrite(k) PROVE OneAttempt' /\ WatchInv'
  <2>0. /\ pc = "dispatch" /\ <<k, "connector">> \in active
        /\ active' = active \ {<<k, "connector">>}
        /\ chan = k /\ watch[k] = "connector" /\ k # None
    BY <1>0, <1>1, <1>5 DEF handleWrite, InDispatch, WatchInv, Watchers, None
  <2>1. chan = made /\ asked = made /\ connection = None /\ made = k
    BY <1>0, <2>0 DEF OneAttempt, WatchInv
  <2>2. CASE sock[made] = "closed"
    <3>1. UNCHANGED <<connectorVars, watch, connection, closeSet, pc, at, pending, tempRuns>>
      BY <1>5, <2>2 DEF handleWrite
    <3> QED
      BY <1>u, <2>0, <3>1
  <2>3. CASE sock[made] # "closed"
    <3>1. /\ watch' = [[watch EXCEPT ![k] = "none"] EXCEPT ![k] = "connection"]
          /\ pc' = "onConnection" /\ at' = k
          /\ UNCHANGED <<connectorVars, connection, closeSet, tempRuns>>
      BY <1>5, <2>0, <2>1, <2>3 DEF handleWrite, HandOver
    <3>2. /\ watch'[k] = "connection"
          /\ \A j \in Attempt : j # k => watch'[j] = watch[j]
      BY <3>1 DEF TypeOK
    <3>3. OneAttempt'
      BY <1>0, <2>0, <2>1, <3>1, <3>2 DEF OneAttempt, None
    <3>4. \A j \in Attempt : watch'[j] # "connector"
      BY <1>0, <2>0, <3>2 DEF WatchInv
    <3>5. \A j \in Attempt : watch'[j] = "connection" => j = k
      BY <1>0, <1>1, <2>0, <2>1, <3>2 DEF WatchInv, None
    <3>6. \A j \in Attempt, who \in Watchers : <<j, who>> \in active' => watch'[j] = who
      BY <1>0, <2>0, <3>2 DEF WatchInv, Watchers
    <3>7. \A j \in Attempt : j > made' => watch'[j] = "none"
      <4>1. \A j \in Attempt : j > made => watch[j] = "none" /\ j # k
        BY <1>0, <1>1, <2>1 DEF WatchInv
      <4> QED
        BY <3>1, <3>2, <4>1
    <3> QED
      BY <3>1, <3>3, <3>4, <3>5, <3>6, <3>7 DEF WatchInv
  <2> QED
    BY <2>2, <2>3
<1>6. CASE Adopt
  <2>1. /\ pc = "onConnection" /\ pc' = "dispatch" /\ at' = None
        /\ closeSet' = closeSet \cup {at} /\ connection' = at
        /\ connection = None /\ at = made /\ chan = made
        /\ UNCHANGED <<connectorVars, watch, active, tempRuns, pending>>
    BY <1>0, <1>6 DEF Adopt, OneAttempt
  <2>2. at # None
    BY <2>1 DEF TypeOK
  <2>3. asked = made
    BY <1>0, <2>1, <2>2 DEF OneAttempt
  <2>4. OneAttempt'
    BY <2>1, <2>2, <2>3 DEF OneAttempt
  <2>5. \A j \in Attempt : watch[j] = "connector" => j # at
    BY <1>0, <2>1 DEF OneAttempt
  <2>6. WatchInv'
    BY <1>0, <1>1, <2>1, <2>5 DEF WatchInv, None, Queued
  <2> QED
    BY <2>4, <2>6
<1>7. ASSUME NEW k \in Attempt, handleClose(k) PROVE OneAttempt' /\ WatchInv'
  <2>1. /\ pc = "dispatch" /\ <<k, "connection">> \in active
        /\ active' = active \ {<<k, "connection">>}
        /\ watch[k] = "connection" /\ connection = k
        /\ pc' = "onClose" /\ at' = k
        /\ watch' = [watch EXCEPT ![k] = "none"]
        /\ UNCHANGED <<connectorVars, connection, closeSet, tempRuns, pending>>
    BY <1>0, <1>7 DEF handleClose, InDispatch, WatchInv, Watchers
  <2>2. watch'[k] = "none" /\ \A j \in Attempt : j # k => watch'[j] = watch[j]
    BY <2>1 DEF TypeOK
  <2>3. OneAttempt'
    BY <1>0, <2>1, <2>2 DEF OneAttempt, Queued
  <2>4. WatchInv'
    BY <1>0, <2>1, <2>2 DEF WatchInv, Watchers, Queued
  <2> QED
    BY <2>3, <2>4
<1>8. CASE removeConnection
  <2>1. /\ pc = "onClose" /\ pc' = "dispatch" /\ at' = None
        /\ at = connection /\ at # None /\ watch[at] = "none"
        /\ connection' = None
        /\ UNCHANGED <<connectorVars, watch, closeSet, active, tempRuns, pending>>
    BY <1>0, <1>8 DEF removeConnection, OneAttempt, TypeOK
  <2>2. OneAttempt'
    BY <1>0, <2>1 DEF OneAttempt, None, Queued
  <2>3. WatchInv'
    BY <1>0, <1>1, <2>1 DEF WatchInv, None, Queued
  <2> QED
    BY <2>2, <2>3
<1>9. CASE UseFreed
  BY <1>u, <1>9 DEF UseFreed, InDispatch
<1>10. CASE PollOther
  BY <1>0, <1>10 DEF PollOther, PollReturns, Ready, OneAttempt, WatchInv, Queued
<1>11. CASE EndDispatch
  <2>1. /\ tempRuns' = pending /\ pending' = <<>> /\ pc = "dispatch" /\ pc' = "functors"
        /\ UNCHANGED <<connectorVars, watch, connection, closeSet, at, active>>
    BY <1>11 DEF EndDispatch
  <2>2. Queued("resetChannel")' => Queued("resetChannel")
    BY <2>1, RangeOfEmpty DEF Queued
  <2> QED
    BY <1>0, <2>1, <2>2 DEF OneAttempt, WatchInv
<1>12. CASE RunConnect
  <2>1. /\ Connects(tempRuns) = Connects(tempRuns') + 1 /\ Connects(tempRuns') \in Nat
        /\ pc = "functors" /\ tempRuns # <<>> /\ tempRuns' = Tail(tempRuns)
    BY <1>12, NextFunctorTakes DEF RunConnect, NextFunctor, Functor
  <2>2. asked = made + 1
    BY <1>0, <1>1, <2>1 DEF OneAttempt, QueueInv
  <2>3. /\ chan = None /\ ~Queued("resetChannel") /\ connection = None
    BY <1>0, <1>1, <2>1, <2>2 DEF OneAttempt, None
  <2>4. Range(tempRuns') \subseteq Range(tempRuns)
    BY <1>1, <2>1, RangeOfTail
  <2>5. CarefulInv'
    BY <1>0, <1>1, <1>12, <2>1, <2>2, <2>3, <2>4, ConnectKeepsCare DEF RunConnect
  <2> QED
    BY <2>5 DEF CarefulInv
<1>13. CASE resetChannel
  <2>1. /\ pc = "functors" /\ tempRuns # <<>> /\ tempRuns' = Tail(tempRuns)
        /\ Head(tempRuns) = "resetChannel" /\ chan' = None
        /\ UNCHANGED <<asked, made, sock, watch, clientVars, pc, at, active, pending>>
    BY <1>13 DEF resetChannel, NextFunctor
  <2>2. Queued("resetChannel") /\ Range(tempRuns') \subseteq Range(tempRuns)
    BY <1>1, <2>1, RangeOfTail DEF Queued
  <2>3. asked = made
    BY <1>0, <2>2 DEF OneAttempt
  <2>4. OneAttempt'
    BY <1>0, <2>1, <2>3 DEF OneAttempt
  <2>5. WatchInv'
    BY <1>0, <2>1, <2>2 DEF WatchInv
  <2> QED
    BY <2>4, <2>5
<1>14. CASE EndFunctors
  BY <1>0, <1>14 DEF EndFunctors, OneAttempt, WatchInv, Queued
<1>15. ASSUME NEW k \in Attempt, Decide(k) \/ PeerGoes(k) PROVE OneAttempt' /\ WatchInv'
  BY <1>u, <1>15 DEF Decide, PeerGoes
<1>16. CASE UNCHANGED vars
  BY <1>u, <1>16 DEF vars
<1> QED
  BY <1>2, <1>3, <1>4, <1>5, <1>6, <1>7, <1>8, <1>9, <1>10, <1>11, <1>12, <1>13, <1>14,
     <1>15, <1>16 DEF Next, LoopStep

(* The Channel that epoll has for a descriptor, or that a handler is still *)
(* to be called of, exists, when connect() is called with care.            *)
THEOREM ChannelIsThere == Spec => []EpollFindsChannel
<1>1. Init => CarefulInv
  <2> SUFFICES ASSUME Init PROVE OneAttempt /\ WatchInv
    BY DEF CarefulInv
  <2>1. OneAttempt
    BY DEF Init, OneAttempt, None
  <2>2. WatchInv
    BY DEF Init, WatchInv, Watchers
  <2> QED
    BY <2>1, <2>2
<1>2. CarefulInv => EpollFindsChannel
  BY DEF CarefulInv, WatchInv, EpollFindsChannel, Exists, Alive, Watchers
<1> QED
  BY <1>1, <1>2, CarefulStep, TypeCorrect, PTL DEF Spec
==============================================================================
