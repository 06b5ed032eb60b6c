--------------------------- MODULE TcpServerProofs ---------------------------
(***************************************************************************)
(* Proofs that, for every number of IO threads and of connections, a       *)
(* TcpServer hands out loops that exist, keeps a connection as long as a   *)
(* loop may report its events, and tells the user of it once.              *)
(***************************************************************************)
EXTENDS TcpServer, SequenceTheorems, TLAPS

(* What a step of the server may do of the pool of threads.                *)
PoolRest == <<numThreads, caller, cur, io, published, loops, quit, tempRuns, turn>>

(* The steps that are left.                                                *)
PoolNext ==
  \/ UNCHANGED <<PoolRest, next, woken, pending>>
  \/ UNCHANGED <<PoolRest, woken, pending>> /\ loops # <<>> /\ Pool!Advance
  \/ UNCHANGED <<PoolRest, next>> /\ \E i \in 1 .. numThreads, c \in Conn : Pool!queueInLoop(i, c)
  \/ Pool!start \/ Pool!SpuriousWakeup \/ Pool!Destroy \/ Pool!stop
  \/ \E i \in 1 .. numThreads :
       Pool!PollReturns(i) \/ Pool!EndDispatch(i) \/ Pool!RunFunctor(i) \/ Pool!ThreadStep(i)

(* Where newConnection is, and what it is at work on.                      *)
MakingStates == {"constructed", "mapping", "mapped", "userSet", "callbackSet"}

MadeInv ==
  /\ base \in MakingStates => made > 0
  /\ Acceptor \in active[0] => made < MaxConns
  /\ \A l \in Loop : closing[l] = None => l \notin erasing

LEMMA Sizes0 == ASSUME TypeOK PROVE numThreads \in Nat /\ 0 \in Loop /\ MaxConns \in Nat
  BY SizesAssumption, MaxConnsAssumption
  DEF TypeOK, Pool!TypeOK, Loop, SizesAssumption, MaxConnsAssumption

LEMMA MadeIsConn ==
  ASSUME TypeOK, MadeInv, base \in MakingStates
  PROVE  made \in Conn /\ loopOf[made] \in Loop
<1>1. made \in Conn
  BY Sizes0 DEF MadeInv, Conn, TypeOK
<1>2. loopOf \in [Conn -> Loop]
  BY DEF TypeOK
<1> QED
  BY <1>1, <1>2

(* Every step of the server is one of these for the pool.                  *)
LEMMA PoolSteps ==
  ASSUME TypeOK, MadeInv, [Next]_vars
  PROVE  PoolNext /\ crashed' \in BOOLEAN
<1> USE DEF PoolNext, PoolRest, poolVars, Pool!startVars, Pool!queueVars
<1>0. crashed \in BOOLEAN
  BY DEF TypeOK, Pool!TypeOK
<1>1. CASE start \/ SpuriousWakeup \/ LeaveLoop \/ stop
  BY <1>0, <1>1 DEF start, SpuriousWakeup, LeaveLoop, stop, Pool!start, Pool!StartThread,
     Pool!WaitForLoop, Pool!LoopIsSet, Pool!AllStarted, Pool!SpuriousWakeup, Pool!Destroy,
     Pool!stop, Pool!QuitLoop, Pool!WakeupToQuit, Pool!Join
<1>2. CASE DestroyMap \/ BasePollReturns \/ BaseEndDispatch
  BY <1>0, <1>2 DEF DestroyMap, BasePollReturns, BaseEndDispatch
<1>3. CASE Accept
  BY <1>0, <1>3 DEF Accept
<1>4. CASE EnterMap \/ setUser \/ setUpLayerCloseCallback
  BY <1>0, <1>4 DEF EnterMap, setUser, setUpLayerCloseCallback
<1>5. CASE AddToMap
  BY <1>0, <1>5 DEF AddToMap, ChangeMap
<1>6. CASE Establish
  <2>1. made \in Conn /\ loopOf[made] \in 0 .. numThreads
    BY <1>6, MadeIsConn DEF Establish, MakingStates, Loop
  <2>2. loopOf[made] # 0 => loopOf[made] \in 1 .. numThreads
    BY <2>1, Sizes0
  <2> QED
    BY <1>0, <1>6, <2>1, <2>2 DEF Establish
<1>7. ASSUME NEW i \in 1 .. numThreads, Thread(i) PROVE PoolNext /\ crashed' \in BOOLEAN
  BY <1>0, <1>7 DEF Thread, PollOther, PollReturns, EndDispatch, RunFunctor, ThreadStep,
     Pool!PollReturns, Pool!EndDispatch, Pool!RunFunctor, Pool!ThreadStep, Pool!ConstructLoop,
     Pool!PublishLoop, Pool!TestQuit, Pool!EndFunctors, Pool!EndThread
<1>8. ASSUME NEW l \in Loop, handleClose(l) PROVE PoolNext /\ crashed' \in BOOLEAN
  BY <1>0, <1>8 DEF handleClose, RunCloseCallback, removeConnection, ChangeMap, StartClose,
     UseFreed
<1>9. ASSUME NEW c \in Conn, PeerGoes(c) PROVE PoolNext /\ crashed' \in BOOLEAN
  BY <1>0, <1>9 DEF PeerGoes
<1>10. CASE UNCHANGED vars
  BY <1>0, <1>10 DEF vars
<1> QED
  BY <1>1, <1>2, <1>3, <1>4, <1>5, <1>6, <1>7, <1>8, <1>9, <1>10 DEF Next, newConnection
-----------------------------------------------------------------------------
(* The pool of threads.                                                    *)

(* _loops holds the loops of the threads started so far, in their order,   *)
(* and all of them from the end of start() on.                             *)
StartInv ==
  /\ \A i \in 1 .. Len(loops) : loops[i] = i
  /\ caller \in {"create", "lock", "waiting"} => Len(loops) = cur - 1
  /\ caller \in {"lock", "waiting"} => cur <= numThreads
  /\ caller \notin {"create", "lock", "waiting"} => Len(loops) = numThreads
  /\ caller \in {"quit", "wakeup", "join"} => cur <= numThreads

(* A thread whose loop is in _loops has published it, and leaves it when   *)
(* it is told to; those the destructor has joined have ended.              *)
ThreadInv ==
  /\ \A i \in 1 .. numThreads : io[i] \in {"left", "ended"} => quit[i]
  /\ \A i \in 1 .. numThreads :
       published[i] => io[i] \in {"test", "poll", "dispatch", "functors", "left", "ended"}
  /\ \A i \in 1 .. Len(loops) : published[i]
  /\ caller \in {"quit", "wakeup", "join"} => \A i \in 1 .. cur - 1 : io[i] = "ended"
  /\ caller = "destroyed" => \A i \in 1 .. numThreads : io[i] = "ended"
  /\ caller = "create" => \A i \in cur .. numThreads : io[i] = "none"
  /\ caller \in {"lock", "waiting"} => \A i \in cur + 1 .. numThreads : io[i] = "none"

(* The list _loops is no longer than the pool has threads.                 *)
LEMMA PoolFacts ==
  ASSUME Pool!TypeOK, StartInv
  PROVE  /\ numThreads \in Nat /\ Len(loops) \in Nat /\ Len(loops) <= numThreads
         /\ loops \in Seq(1 .. numThreads) /\ cur \in Nat /\ cur >= 1
<1>1. numThreads \in Nat
  BY SizesAssumption DEF SizesAssumption, Pool!TypeOK
<1>2. loops \in Seq(1 .. numThreads) /\ cur \in 1 .. numThreads + 1
  BY DEF Pool!TypeOK, Pool!Thread
<1>3. Len(loops) \in Nat
  BY <1>2, LenProperties
<1>4. Len(loops) = cur - 1 \/ Len(loops) = numThreads
  BY DEF StartInv
<1> QED
  BY <1>1, <1>2, <1>3, <1>4

(* The pool keeps its types.                                               *)
LEMMA PoolTypeStep ==
  ASSUME Pool!TypeOK, StartInv, PoolNext, crashed' \in BOOLEAN
  PROVE  Pool!TypeOK' /\ StartInv'
<1> USE DEF Pool!TypeOK, StartInv, PoolRest, Pool!startVars, Pool!queueVars, Pool!Thread
<1>0. /\ numThreads \in Nat /\ Len(loops) \in Nat /\ Len(loops) <= numThreads
      /\ loops \in Seq(1 .. numThreads) /\ cur \in Nat /\ cur >= 1
  BY PoolFacts
<1>1. CASE UNCHANGED <<PoolRest, next, woken, pending>>
  BY <1>1
<1>2. CASE UNCHANGED <<PoolRest, woken, pending>> /\ loops # <<>> /\ Pool!Advance
  <2>1. next' \in 0 .. numThreads /\ (next' < Len(loops) \/ next' = 0)
    BY <1>0, <1>2 DEF Pool!Advance
  <2> QED
    BY <1>2, <2>1
<1>3. ASSUME NEW i \in 1 .. numThreads, NEW c \in Conn, Pool!queueInLoop(i, c),
             UNCHANGED <<PoolRest, next>>
      PROVE  Pool!TypeOK' /\ StartInv'
  <2>1. Append(pending[i], c) \in Seq(Conn)
    BY AppendProperties
  <2>2. /\ pending' = [pending EXCEPT ![i] = Append(pending[i], c)]
        /\ woken' = [woken EXCEPT ![i] = TRUE]
    BY <1>3 DEF Pool!queueInLoop
  <2>3. pending' \in [1 .. numThreads -> Seq(Conn)] /\ woken' \in [1 .. numThreads -> BOOLEAN]
    BY <2>1, <2>2
  <2> QED
    BY <1>3, <2>3
<1>4. CASE Pool!StartThread
  BY <1>0, <1>4 DEF Pool!StartThread
<1>5. CASE Pool!WaitForLoop \/ Pool!SpuriousWakeup
  BY <1>0, <1>5 DEF Pool!WaitForLoop, Pool!SpuriousWakeup
<1>6. CASE Pool!LoopIsSet
  <2>0. /\ caller = "lock" /\ loops' = Append(loops, cur) /\ cur' = cur + 1
        /\ caller' = "create"
        /\ UNCHANGED <<numThreads, io, published, next, quit, woken, pending, tempRuns, turn>>
    BY <1>6 DEF Pool!LoopIsSet
  <2>1. cur \in 1 .. numThreads /\ Len(loops) = cur - 1 /\ Len(loops) + 1 = cur
    BY <1>0, <2>0
  <2>2. /\ Append(loops, cur) \in Seq(1 .. numThreads)
        /\ Len(Append(loops, cur)) = Len(loops) + 1
        /\ \A i \in 1 .. Len(loops) : Append(loops, cur)[i] = loops[i]
        /\ Append(loops, cur)[Len(loops) + 1] = cur
    BY ONLY <1>0, <2>1, AppendProperties
  <2>3. loops' \in Seq(1 .. numThreads) /\ Len(loops') = cur
    BY <2>0, <2>1, <2>2
  <2>a. \A i \in 1 .. Len(loops) : loops[i] = i
    OBVIOUS
  <2>4. \A i \in 1 .. Len(loops') : loops'[i] = i
    BY ONLY <1>0, <2>0, <2>1, <2>2, <2>a
  <2>5. next' \in 0 .. numThreads /\ (next' < Len(loops') \/ next' = 0)
    BY <1>0, <2>0, <2>1, <2>3
  <2>6. cur' \in 1 .. numThreads + 1 /\ Len(loops') = cur' - 1
    BY <1>0, <2>0, <2>1, <2>3
  <2>7. Pool!TypeOK'
    BY <2>0, <2>3, <2>5, <2>6
  <2>8. StartInv'
    BY <2>0, <2>4, <2>6
  <2> QED
    BY <2>7, <2>8
<1>7. CASE Pool!AllStarted
  BY <1>0, <1>7 DEF Pool!AllStarted
<1>8. CASE Pool!Destroy
  <2>1. caller' = "quit" => 1 <= numThreads
    BY <1>0, <1>8, EmptySeq DEF Pool!Destroy
  <2>2. caller' \in {"quit", "destroyed"} /\ cur' = 1 /\ 1 \in 1 .. numThreads + 1
    BY <1>0, <1>8 DEF Pool!Destroy
  <2> QED
    BY <1>0, <1>8, <2>1, <2>2 DEF Pool!Destroy
<1>9. CASE Pool!QuitLoop
  BY <1>0, <1>9 DEF Pool!QuitLoop
<1>10. CASE Pool!WakeupToQuit
  BY <1>0, <1>10 DEF Pool!WakeupToQuit
<1>11. CASE Pool!Join
  <2>1. /\ caller' \in {"quit", "destroyed"} /\ cur' \in 1 .. numThreads + 1
        /\ caller' = "quit" => cur' <= numThreads
    <3>1. caller = "join" /\ Len(loops) = numThreads /\ cur <= numThreads
      BY <1>11 DEF Pool!Join
    <3>2. \/ cur < Len(loops) /\ caller' = "quit" /\ cur' = cur + 1
          \/ caller' = "destroyed" /\ cur' = cur
      BY <1>11 DEF Pool!Join
    <3> QED
      BY ONLY <1>0, <3>1, <3>2
  <2>2. UNCHANGED <<numThreads, loops, io, published, next, quit, woken, pending, tempRuns, turn>>
        /\ caller = "join"
    BY <1>11 DEF Pool!Join
  <2> QED
    BY <2>1, <2>2
<1>12. ASSUME NEW i \in 1 .. numThreads, Pool!PollReturns(i) PROVE Pool!TypeOK' /\ StartInv'
  BY <1>12 DEF Pool!PollReturns
<1>13. ASSUME NEW i \in 1 .. numThreads, Pool!EndDispatch(i) PROVE Pool!TypeOK' /\ StartInv'
  <2>1. <<>> \in Seq(Conn)
    BY EmptySeq
  <2>2. turn' \in [1 .. numThreads -> Nat \ {0}]
    BY <1>13 DEF Pool!EndDispatch
  <2> QED
    BY <1>13, <2>1, <2>2 DEF Pool!EndDispatch
<1>14. ASSUME NEW i \in 1 .. numThreads, Pool!RunFunctor(i) PROVE Pool!TypeOK' /\ StartInv'
  <2>a. turn \in [1 .. numThreads -> Nat \ {0}]
    OBVIOUS
  <2>0. turn[i] + 1 \in Nat \ {0}
    BY ONLY <2>a
  <2>1. turn' \in [1 .. numThreads -> Nat \ {0}]
    BY <1>14, <2>0 DEF Pool!RunFunctor
  <2> QED
    BY <1>14, <2>1 DEF Pool!RunFunctor
<1>15. ASSUME NEW i \in 1 .. numThreads, Pool!ConstructLoop(i) \/ Pool!TestQuit(i)
       PROVE Pool!TypeOK' /\ StartInv'
  BY <1>15 DEF Pool!ConstructLoop, Pool!TestQuit
<1>16. ASSUME NEW i \in 1 .. numThreads, Pool!PublishLoop(i) PROVE Pool!TypeOK' /\ StartInv'
  BY <1>16 DEF Pool!PublishLoop
<1>17. ASSUME NEW i \in 1 .. numThreads, Pool!EndFunctors(i) PROVE Pool!TypeOK' /\ StartInv'
  <2>1. <<>> \in Seq(Conn)
    BY EmptySeq
  <2> QED
    BY <1>17, <2>1 DEF Pool!EndFunctors
<1>18. ASSUME NEW i \in 1 .. numThreads, Pool!EndThread(i) PROVE Pool!TypeOK' /\ StartInv'
  <2>1. <<>> \in Seq(Conn)
    BY EmptySeq
  <2> QED
    BY <1>18, <2>1 DEF Pool!EndThread
<1> QED
  BY <1>1, <1>2, <1>3, <1>4, <1>5, <1>6, <1>7, <1>8, <1>9, <1>10, <1>11, <1>12, <1>13,
     <1>14, <1>15, <1>16, <1>17, <1>18
  DEF PoolNext, Pool!start, Pool!stop, Pool!ThreadStep

(* No step disturbs the order in which threads start and end.              *)
LEMMA ThreadInvStep ==
  ASSUME Pool!TypeOK, StartInv, ThreadInv, PoolNext
  PROVE  ThreadInv'
<1> DEFINE Live == {"test", "poll", "dispatch", "functors", "left", "ended"}
<1>0. /\ numThreads \in Nat /\ Len(loops) \in Nat /\ Len(loops) <= numThreads
      /\ loops \in Seq(1 .. numThreads) /\ cur \in Nat /\ cur >= 1
  BY PoolFacts
<1>t. /\ io \in [1 .. numThreads -> {"none", "failed", "started", "constructed", "test", "poll",
                                     "dispatch", "functors", "left", "ended"}]
      /\ published \in [1 .. numThreads -> BOOLEAN] /\ quit \in [1 .. numThreads -> BOOLEAN]
  BY DEF Pool!TypeOK, Pool!Thread
<1> USE DEF ThreadInv, PoolRest, Pool!startVars, Pool!queueVars
<1>1. CASE UNCHANGED <<PoolRest>>
  BY <1>1
<1>4. CASE Pool!StartThread
  <2>1. /\ caller = "create" /\ caller' = "lock" /\ cur \in 1 .. numThreads
        /\ UNCHANGED <<numThreads, loops, cur, published, quit>>
        /\ \E v \in {"started", "failed"} : io' = [io EXCEPT ![cur] = v]
    BY <1>0, <1>4 DEF Pool!StartThread
  <2>a. Len(loops) = cur - 1
    BY ONLY <2>1, StartInv DEF StartInv
  <2>b. io[cur] = "none"
    BY ONLY <1>0, <2>1, ThreadInv DEF ThreadInv
  <2>c. ~published[cur]
    BY ONLY <2>1, <2>b, ThreadInv DEF ThreadInv
  <2>2. io[cur] = "none" /\ ~published[cur] /\ Len(loops) = cur - 1
    BY <2>a, <2>b, <2>c
  <2>3. io'[cur] \in {"started", "failed"}
        /\ \A i \in 1 .. numThreads : i # cur => io'[i] = io[i]
    BY <1>t, <2>1
  <2> QED
    BY <1>0, <1>t, <2>1, <2>2, <2>3
<1>5. CASE Pool!WaitForLoop \/ Pool!SpuriousWakeup
  BY <1>0, <1>t, <1>5 DEF Pool!WaitForLoop, Pool!SpuriousWakeup
<1>6. CASE Pool!LoopIsSet
  <2>1. /\ caller = "lock" /\ published[cur] /\ cur' = cur + 1 /\ caller' = "create"
        /\ loops' = Append(loops, cur) /\ UNCHANGED <<numThreads, io, published, quit>>
    BY <1>6 DEF Pool!LoopIsSet
  <2>2. Len(loops) = cur - 1 /\ Len(loops') = Len(loops) + 1
    BY ONLY <1>0, <2>1, StartInv, AppendProperties DEF StartInv
  <2>3. \A i \in 1 .. Len(loops') : published'[i]
    BY ONLY <1>0, <2>1, <2>2, ThreadInv DEF ThreadInv
  <2> QED
    BY <1>0, <2>1, <2>3
<1>7. CASE Pool!AllStarted
  BY <1>0, <1>t, <1>7 DEF Pool!AllStarted
<1>8. CASE Pool!Destroy
  <2>1. /\ caller = "serving" /\ cur' = 1
        /\ caller' = IF loops = <<>> THEN "destroyed" ELSE "quit"
        /\ UNCHANGED <<numThreads, io, published, quit, loops>>
    BY <1>8 DEF Pool!Destroy
  <2>2. loops = <<>> => numThreads = 0
    BY ONLY <1>0, <2>1, StartInv, EmptySeq DEF StartInv
  <2> QED
    BY <1>0, <2>1, <2>2
<1>9. CASE Pool!QuitLoop
  BY <1>0, <1>t, <1>9 DEF Pool!QuitLoop
<1>10. CASE Pool!WakeupToQuit
  BY <1>0, <1>t, <1>10 DEF Pool!WakeupToQuit
<1>11. CASE Pool!Join
  <2>1. /\ caller = "join" /\ io[cur] = "ended"
        /\ UNCHANGED <<numThreads, io, published, quit, loops>>
        /\ \/ cur < Len(loops) /\ caller' = "quit" /\ cur' = cur + 1
           \/ cur >= Len(loops) /\ caller' = "destroyed" /\ cur' = cur
    BY <1>0, <1>11 DEF Pool!Join
  <2>2. Len(loops) = numThreads /\ \A i \in 1 .. cur : io[i] = "ended"
    BY ONLY <1>0, <2>1, StartInv, ThreadInv DEF StartInv, ThreadInv
  <2> QED
    BY <1>0, <2>1, <2>2
<1>12. ASSUME NEW i \in 1 .. numThreads,
              Pool!PollReturns(i) \/ Pool!EndDispatch(i) \/ Pool!EndFunctors(i)
       PROVE ThreadInv'
  <2>1. /\ io[i] \in {"poll", "dispatch", "functors"}
        /\ \E v \in {"dispatch", "functors", "test"} : io' = [io EXCEPT ![i] = v]
        /\ UNCHANGED <<numThreads, caller, cur, published, quit, loops>>
    BY <1>12 DEF Pool!PollReturns, Pool!EndDispatch, Pool!EndFunctors
  <2>2. /\ io'[i] \in {"dispatch", "functors", "test"}
        /\ \A j \in 1 .. numThreads : j # i => io'[j] = io[j]
    BY <1>t, <2>1
  <2> QED
    BY <1>0, <2>1, <2>2
<1>13. ASSUME NEW i \in 1 .. numThreads, Pool!RunFunctor(i) PROVE ThreadInv'
  BY <1>13 DEF Pool!RunFunctor
<1>14. ASSUME NEW i \in 1 .. numThreads,
              Pool!ConstructLoop(i) \/ Pool!TestQuit(i) \/ Pool!EndThread(i)
       PROVE ThreadInv'
  <2>1. /\ UNCHANGED <<numThreads, caller, cur, published, quit, loops>>
        /\ \/ io[i] = "started" /\ io' = [io EXCEPT ![i] = "constructed"]
           \/ io[i] = "test" /\ ~quit[i] /\ io' = [io EXCEPT ![i] = "poll"]
           \/ io[i] = "test" /\ quit[i] /\ io' = [io EXCEPT ![i] = "left"]
           \/ io[i] = "left" /\ io' = [io EXCEPT ![i] = "ended"]
    BY <1>t, <1>14 DEF Pool!ConstructLoop, Pool!TestQuit, Pool!EndThread
  <2>2. /\ \/ io[i] = "started" /\ io'[i] = "constructed"
           \/ io[i] = "test" /\ ~quit[i] /\ io'[i] = "poll"
           \/ io[i] = "test" /\ quit[i] /\ io'[i] = "left"
           \/ io[i] = "left" /\ io'[i] = "ended"
        /\ \A j \in 1 .. numThreads : j # i => io'[j] = io[j]
    BY <1>t, <2>1
  <2> QED
    BY <1>0, <2>1, <2>2
<1>15. ASSUME NEW i \in 1 .. numThreads, Pool!PublishLoop(i) PROVE ThreadInv'
  BY <1>0, <1>t, <1>15 DEF Pool!PublishLoop
<1> QED
  BY <1>1, <1>4, <1>5, <1>6, <1>7, <1>8, <1>9, <1>10, <1>11, <1>12, <1>13, <1>14, <1>15
  DEF PoolNext, Pool!start, Pool!stop, Pool!ThreadStep, Pool!queueInLoop

(* A loop that is handed out is there.                                     *)
LEMMA LoopsServeFollows ==
  ASSUME Pool!TypeOK, StartInv, ThreadInv
  PROVE  LoopsServe
<1> SUFFICES ASSUME NEW i \in Pool!Range(loops) PROVE io[i] \in Pool!Constructed \/ quit[i]
  BY DEF LoopsServe, Pool!LoopsServe
<1>1. PICK j \in DOMAIN loops : i = loops[j]
  BY DEF Pool!Range
<1>2. j \in 1 .. Len(loops) /\ Len(loops) <= numThreads /\ Len(loops) \in Nat /\ numThreads \in Nat
  BY PoolFacts, LenProperties
<1>3. i = j /\ i \in 1 .. numThreads
  BY <1>1, <1>2 DEF StartInv
<1> QED
  BY <1>2, <1>3 DEF ThreadInv, Pool!Constructed
-----------------------------------------------------------------------------
(* The server around the pool.                                             *)

(* getNextLoop returns the base loop or one of the list.                   *)
LEMMA NextLoopIsLoop ==
  ASSUME Pool!TypeOK, StartInv
  PROVE  Pool!NextLoop \in Loop
<1>1. /\ numThreads \in Nat /\ Len(loops) \in Nat /\ loops \in Seq(1 .. numThreads)
      /\ next \in 0 .. numThreads /\ (next < Len(loops) \/ next = 0)
  BY PoolFacts DEF Pool!TypeOK
<1>2. CASE loops = <<>>
  BY <1>1, <1>2 DEF Pool!NextLoop, Loop
<1>3. CASE loops # <<>>
  <2>1. Len(loops) > 0
    BY <1>1, <1>3, EmptySeq
  <2>2. next + 1 \in 1 .. Len(loops)
    BY <1>1, <2>1
  <2>3. loops[next + 1] \in 1 .. numThreads
    BY <1>1, <2>2, ElementOfSeq
  <2> QED
    BY <1>1, <1>3, <2>3 DEF Pool!NextLoop, Loop
<1> QED
  BY <1>2, <1>3

(* What the type invariant says of the variables that are not the pool's.  *)
ServerTypeOK ==
  /\ base \in {"poll", "dispatch", "constructed", "mapping", "mapped", "userSet",
               "callbackSet", "stopping", "gone"}
  /\ made \in 0 .. MaxConns
  /\ fd \in [Conn -> Conn \cup {-1}]
  /\ loopOf \in [Conn -> Loop]
  /\ registered \in [Conn -> BOOLEAN]
  /\ peerGone \in [Conn -> BOOLEAN]
  /\ told \in [Conn -> Seq({"onConnection", "onClose"})]
  /\ active \in [Loop -> SUBSET (Conn \cup {Acceptor})]
  /\ closing \in [Loop -> Conn \cup {None}]
  /\ erasing \subseteq Loop
  /\ DOMAIN connections \subseteq Conn \cup {-1} /\ Range(connections) \subseteq Conn
  /\ raced \in BOOLEAN

(* The types of the server are those of the pool and its own.              *)
LEMMA TypeSplit == TypeOK <=> Pool!TypeOK /\ ServerTypeOK
  BY DEF TypeOK, ServerTypeOK

(* What the user was told is extended by a callback.                       *)
LEMMA ToldStep ==
  ASSUME ServerTypeOK, NEW c \in Conn, NEW what \in {"onConnection", "onClose"}, Tell(c, what)
  PROVE  /\ told' \in [Conn -> Seq({"onConnection", "onClose"})]
         /\ told'[c] = Append(told[c], what)
         /\ \A d \in Conn : d # c => told'[d] = told[d]
<1>1. told \in [Conn -> Seq({"onConnection", "onClose"})]
  BY DEF ServerTypeOK
<1>2. Append(told[c], what) \in Seq({"onConnection", "onClose"})
  BY <1>1, AppendProperties
<1>3. told' = [told EXCEPT ![c] = Append(told[c], what)]
  BY DEF Tell
<1> QED
  BY <1>1, <1>2, <1>3

(* The steps of the thread of the base loop, those of its pool excepted.   *)
BaseStep ==
  LeaveLoop \/ DestroyMap \/ BasePollReturns \/ Accept \/ newConnection \/ BaseEndDispatch

(* The steps of the base loop keep the types of the server.                *)
LEMMA BaseTypeStep ==
  ASSUME TypeOK, StartInv, MadeInv, numThreads' = numThreads, BaseStep
  PROVE  ServerTypeOK' /\ MadeInv'
<1>0. /\ numThreads \in Nat /\ 0 \in Loop /\ MaxConns \in Nat /\ Loop' = Loop
      /\ ServerTypeOK /\ Pool!TypeOK
  BY Sizes0, TypeSplit DEF Loop
<1>n. 0 \notin Conn
  BY <1>0 DEF Conn
<1> USE DEF MadeInv, MakingStates
<1>1. CASE LeaveLoop
  BY <1>0, <1>1 DEF LeaveLoop, ServerTypeOK, connVars, closeVars, mapVars
<1>2. CASE DestroyMap
  <2>1. Range(<<>>) = {} /\ DOMAIN <<>> = {}
    BY DEF Range
  <2> QED
    BY <1>0, <1>2, <2>1 DEF DestroyMap, ServerTypeOK, connVars, closeVars, mapVars
<1>3. CASE BasePollReturns
  <2>1. Ready(0) \subseteq Conn
    BY DEF Ready
  <2>2. /\ active' \in [Loop -> SUBSET (Conn \cup {Acceptor})]
        /\ Acceptor \in active'[0] => made < MaxConns
    BY <1>0, <1>n, <1>3, <2>1 DEF BasePollReturns, ServerTypeOK, Acceptor
  <2> QED
    BY <1>0, <1>3, <2>2 DEF BasePollReturns, ServerTypeOK, connVars, closeVars, mapVars
<1>4. CASE Accept
  <2>1. made < MaxConns /\ made' = made + 1 /\ made \in 0 .. MaxConns
    BY <1>0, <1>4 DEF Accept, ServerTypeOK
  <2>2. made' \in Conn /\ made' \in 0 .. MaxConns /\ made' > 0
    BY <1>0, <2>1 DEF Conn
  <2>3. loopOf' \in [Conn -> Loop]
    BY <1>0, <1>4, <2>2, NextLoopIsLoop DEF Accept, ServerTypeOK
  <2>4. fd' \in [Conn -> Conn \cup {-1}] /\ registered' \in [Conn -> BOOLEAN]
    BY <1>0, <1>4, <2>2 DEF Accept, ServerTypeOK
  <2>5. active' \in [Loop -> SUBSET (Conn \cup {Acceptor})] /\ Acceptor \notin active'[0]
    BY <1>0, <1>4 DEF Accept, ServerTypeOK
  <2> QED
    BY <1>0, <1>4, <2>2, <2>3, <2>4, <2>5 DEF Accept, ServerTypeOK, connVars, closeVars, mapVars
<1>5. CASE EnterMap \/ setUser \/ setUpLayerCloseCallback
  BY <1>0, <1>5 DEF EnterMap, setUser, setUpLayerCloseCallback, ServerTypeOK, connVars,
     closeVars, mapVars
<1>6. CASE AddToMap
  <2> DEFINE m == MapWith(fd[made], made)
  <2>1. made \in Conn /\ fd[made] \in Conn \cup {-1}
    BY <1>0, <1>6, MadeIsConn DEF AddToMap, ServerTypeOK
  <2>2. DOMAIN m \subseteq Conn \cup {-1} /\ Range(m) \subseteq Conn
    BY <1>0, <2>1 DEF MapWith, Range, ServerTypeOK
  <2>3. connections' \in {m, connections} /\ raced' \in BOOLEAN
    BY <1>0, <1>6 DEF AddToMap, ChangeMap, ServerTypeOK
  <2>4. DOMAIN connections' \subseteq Conn \cup {-1} /\ Range(connections') \subseteq Conn
    BY <1>0, <2>2, <2>3 DEF ServerTypeOK
  <2> QED
    BY <1>0, <1>6, <2>3, <2>4 DEF AddToMap, ServerTypeOK, connVars, closeVars
<1>7. CASE Establish
  <2>1. made \in Conn
    BY <1>7, MadeIsConn DEF Establish
  <2>2. told' \in [Conn -> Seq({"onConnection", "onClose"})]
    BY <1>0, <1>7, <2>1, ToldStep DEF Establish, ServerTypeOK
  <2> QED
    BY <1>0, <1>7, <2>2 DEF Establish, ServerTypeOK, connVars, closeVars, mapVars
<1>8. CASE BaseEndDispatch
  BY <1>0, <1>8 DEF BaseEndDispatch, ServerTypeOK, connVars, closeVars, mapVars
<1> QED
  BY <1>1, <1>2, <1>3, <1>4, <1>5, <1>6, <1>7, <1>8 DEF BaseStep, newConnection

(* handleClose keeps the types of the server.                              *)
LEMMA CloseTypeStep ==
  ASSUME TypeOK, MadeInv, numThreads' = numThreads, NEW l \in Loop, handleClose(l)
  PROVE  ServerTypeOK' /\ MadeInv'
<1>0. /\ numThreads \in Nat /\ 0 \in Loop /\ MaxConns \in Nat /\ Loop' = Loop
      /\ ServerTypeOK /\ Pool!TypeOK
  BY Sizes0, TypeSplit DEF Loop
<1>n. 0 \notin Conn
  BY <1>0 DEF Conn
<1> USE DEF MadeInv, MakingStates
<1>1. ASSUME NEW c \in Conn, StartClose(l, c) \/ UseFreed(l, c)
      PROVE  /\ active' \in [Loop -> SUBSET (Conn \cup {Acceptor})]
             /\ Acceptor \in active'[0] => Acceptor \in active[0]
  <2>1. active' = [active EXCEPT ![l] = active[l] \ {c}]
    BY <1>1 DEF StartClose, UseFreed
  <2>2. active \in [Loop -> SUBSET (Conn \cup {Acceptor})]
    BY <1>0 DEF ServerTypeOK
  <2> QED
    BY ONLY <1>0, <2>1, <2>2
<1>2. ASSUME NEW c \in Conn, StartClose(l, c) PROVE ServerTypeOK' /\ MadeInv'
  <2>1. /\ registered' \in [Conn -> BOOLEAN] /\ closing' \in [Loop -> Conn \cup {None}]
        /\ \A k \in Loop : closing'[k] = None => closing[k] = None
    BY <1>0, <1>n, <1>2 DEF StartClose, DeleteFromEpoll, ServerTypeOK, None
  <2>2. told' \in [Conn -> Seq({"onConnection", "onClose"})]
    BY <1>0, <1>2, ToldStep DEF StartClose, ServerTypeOK
  <2>3. UNCHANGED <<base, made, fd, loopOf, peerGone, erasing, connections, raced>>
    BY <1>2 DEF StartClose, mapVars
  <2>4. ServerTypeOK'
    BY <1>0, <1>1, <1>2, <2>1, <2>2, <2>3 DEF ServerTypeOK
  <2>5. MadeInv'
    BY <1>0, <1>1, <1>2, <2>1, <2>3
  <2> QED
    BY <2>4, <2>5
<1>3. ASSUME NEW c \in Conn, UseFreed(l, c) PROVE ServerTypeOK' /\ MadeInv'
  BY <1>0, <1>1, <1>3 DEF UseFreed, ServerTypeOK, connVars, closeVars, mapVars
<1>4. CASE RunCloseCallback(l)
  <2>1. /\ closing' \in [Loop -> Conn \cup {None}] /\ erasing' \subseteq Loop
        /\ \A k \in Loop : closing'[k] = None => k \notin erasing'
    <3>1. \/ erasing' = erasing \cup {l} /\ closing' = closing /\ closing[l] # None
          \/ erasing' = erasing /\ closing' = [closing EXCEPT ![l] = None] /\ l \notin erasing
      BY <1>4 DEF RunCloseCallback
    <3>2. closing \in [Loop -> Conn \cup {None}] /\ erasing \subseteq Loop
      BY <1>0 DEF ServerTypeOK
    <3>3. \A k \in Loop : closing[k] = None => k \notin erasing
      OBVIOUS
    <3> QED
      BY ONLY <3>1, <3>2, <3>3, <1>0
  <2> QED
    BY <1>0, <1>4, <2>1 DEF RunCloseCallback, ServerTypeOK, connVars, mapVars
<1>5. CASE removeConnection(l)
  <2> DEFINE m == Restrict(connections, DOMAIN connections \ {fd[closing[l]]})
  <2>a. m = [x \in DOMAIN connections \ {fd[closing[l]]} |-> connections[x]]
    BY DEF Restrict
  <2>b. DOMAIN connections \subseteq Conn \cup {-1}
        /\ \A x \in DOMAIN connections : connections[x] \in Conn
    BY <1>0 DEF ServerTypeOK, Range
  <2>1. DOMAIN m \subseteq Conn \cup {-1} /\ Range(m) \subseteq Conn
    BY ONLY <2>a, <2>b DEF Range
  <2>2. connections' \in {m, connections} /\ raced' \in BOOLEAN
    BY <1>0, <1>5 DEF removeConnection, ChangeMap, ServerTypeOK
  <2>3. DOMAIN connections' \subseteq Conn \cup {-1} /\ Range(connections') \subseteq Conn
    BY <1>0, <2>1, <2>2 DEF ServerTypeOK
  <2>4. /\ closing' \in [Loop -> Conn \cup {None}] /\ erasing' \subseteq Loop
        /\ \A k \in Loop : closing'[k] = None => k \notin erasing'
    BY <1>0, <1>5 DEF removeConnection, ServerTypeOK, None
  <2> QED
    BY <1>0, <1>5, <2>2, <2>3, <2>4 DEF removeConnection, ServerTypeOK, connVars
<1> QED
  BY <1>2, <1>3, <1>4, <1>5 DEF handleClose

(* The other steps of an IO thread keep the types of the server.           *)
LEMMA ThreadTypeStep ==
  ASSUME TypeOK, MadeInv, numThreads' = numThreads, NEW i \in 1 .. numThreads, Thread(i)
  PROVE  ServerTypeOK' /\ MadeInv'
<1>0. /\ numThreads \in Nat /\ 0 \in Loop /\ Loop' = Loop /\ ServerTypeOK /\ Pool!TypeOK
      /\ i \in Loop /\ i # 0
  BY Sizes0, TypeSplit DEF Loop
<1> USE DEF MadeInv, MakingStates
<1>1. CASE PollOther(i)
  <2>1. Ready(i) \subseteq Conn
    BY DEF Ready
  <2>2. active' \in [Loop -> SUBSET (Conn \cup {Acceptor})] /\ active'[0] = active[0]
    BY <1>0, <1>1, <2>1 DEF PollOther, PollReturns, ServerTypeOK
  <2> QED
    BY <1>0, <1>1, <2>2 DEF PollOther, PollReturns, ServerTypeOK, connVars, closeVars, mapVars
<1>2. CASE EndDispatch(i) \/ ThreadStep(i)
  BY <1>0, <1>2 DEF EndDispatch, ThreadStep, serverVars, ServerTypeOK, connVars, closeVars,
     mapVars
<1>3. CASE RunFunctor(i)
  <2>1. tempRuns[i] \in Seq(Conn) /\ turn[i] \in Nat \ {0}
    BY <1>0 DEF Pool!TypeOK, Pool!Thread
  <2>2. turn[i] \in 1 .. Len(tempRuns[i])
    BY <2>1, <1>3, LenProperties DEF RunFunctor, Pool!RunFunctor
  <2>3. tempRuns[i][turn[i]] \in Conn
    BY <2>1, <2>2, ElementOfSeq
  <2>4. told' \in [Conn -> Seq({"onConnection", "onClose"})]
    BY <1>0, <1>3, <2>3, ToldStep DEF RunFunctor
  <2> QED
    BY <1>0, <1>3, <2>4 DEF RunFunctor, ServerTypeOK, closeVars, mapVars
<1> QED
  BY <1>1, <1>2, <1>3 DEF Thread

LEMMA InitialTypes == Init => TypeOK /\ StartInv /\ MadeInv /\ ThreadInv
<1> SUFFICES ASSUME Init PROVE TypeOK /\ StartInv /\ MadeInv /\ ThreadInv
  OBVIOUS
<1>1. numThreads \in Nat /\ MaxConns \in Nat
  BY SizesAssumption, MaxConnsAssumption
  DEF Init, Pool!Init, SizesAssumption, MaxConnsAssumption
<1>2. <<>> \in Seq(1 .. numThreads) /\ Len(<<>>) = 0 /\ <<>> \in Seq(Conn)
      /\ <<>> \in Seq({"onConnection", "onClose"})
  BY EmptySeq
<1>3. Pool!TypeOK
  <2>1. cur \in 1 .. numThreads + 1 /\ next \in 0 .. numThreads /\ turn \in [1 .. numThreads -> Nat \ {0}]
    BY <1>1 DEF Init, Pool!Init, Pool!Thread
  <2>2. /\ numThreads \in Sizes /\ caller = "create" /\ loops = <<>> /\ next = 0
        /\ io = [i \in 1 .. numThreads |-> "none"]
        /\ published = [i \in 1 .. numThreads |-> FALSE]
        /\ quit = [i \in 1 .. numThreads |-> FALSE]
        /\ woken = [i \in 1 .. numThreads |-> FALSE]
        /\ pending = [i \in 1 .. numThreads |-> <<>>]
        /\ tempRuns = [i \in 1 .. numThreads |-> <<>>]
        /\ crashed = FALSE
    BY DEF Init, Pool!Init, Pool!Thread
  <2> QED
    BY <1>2, <2>1, <2>2 DEF Pool!TypeOK, Pool!Thread
<1>4. Range(<<>>) = {} /\ DOMAIN <<>> = {}
  BY DEF Range
<1>5. ServerTypeOK
  <2>1. fd \in [Conn -> Conn \cup {-1}] /\ loopOf \in [Conn -> Loop]
    BY <1>1 DEF Init, Loop
  <2>2. told \in [Conn -> Seq({"onConnection", "onClose"})]
    BY <1>2 DEF Init
  <2>3. active \in [Loop -> SUBSET (Conn \cup {Acceptor})] /\ closing \in [Loop -> Conn \cup {None}]
    BY DEF Init
  <2>4. registered \in [Conn -> BOOLEAN] /\ peerGone \in [Conn -> BOOLEAN]
    BY DEF Init
  <2>5. base = "poll" /\ made = 0 /\ erasing = {} /\ connections = <<>> /\ raced = FALSE
    BY DEF Init
  <2>6. DOMAIN connections \subseteq Conn \cup {-1} /\ Range(connections) \subseteq Conn
    BY ONLY <1>4, <2>5
  <2>7. made \in 0 .. MaxConns
    BY <1>1, <2>5
  <2> QED
    BY <2>1, <2>2, <2>3, <2>4, <2>5, <2>6, <2>7 DEF ServerTypeOK
<1>6. StartInv
  BY <1>1, <1>2 DEF Init, Pool!Init, StartInv
<1>7. ThreadInv
  BY <1>1, <1>2 DEF Init, Pool!Init, ThreadInv, Pool!Thread
<1>8. MadeInv
  BY <1>1 DEF Init, MadeInv, MakingStates, Loop, Acceptor
<1> QED
  BY <1>3, <1>5, <1>6, <1>7, <1>8, TypeSplit

(* All variables keep their types.                                         *)
LEMMA TypeStep ==
  ASSUME TypeOK, StartInv, MadeInv, ThreadInv, [Next]_vars
  PROVE  TypeOK' /\ StartInv' /\ MadeInv' /\ ThreadInv' /\ numThreads' = numThreads
<1>0. /\ Pool!TypeOK /\ ServerTypeOK /\ PoolNext /\ crashed' \in BOOLEAN
  BY TypeSplit, PoolSteps
<1>1. Pool!TypeOK' /\ StartInv' /\ ThreadInv'
  BY <1>0, PoolTypeStep, ThreadInvStep
<1>2. numThreads' = numThreads
  BY <1>0 DEF PoolNext, PoolRest, Pool!startVars, Pool!start, Pool!StartThread,
     Pool!WaitForLoop, Pool!LoopIsSet, Pool!AllStarted, Pool!SpuriousWakeup, Pool!Destroy,
     Pool!stop, Pool!QuitLoop, Pool!WakeupToQuit, Pool!Join, Pool!PollReturns,
     Pool!EndDispatch, Pool!RunFunctor, Pool!ThreadStep, Pool!ConstructLoop,
     Pool!PublishLoop, Pool!TestQuit, Pool!EndFunctors, Pool!EndThread
<1>l. Loop' = Loop
  BY <1>2 DEF Loop
<1>3. ASSUME UNCHANGED serverVars PROVE ServerTypeOK' /\ MadeInv'
  <2>1. UNCHANGED <<base, made, fd, loopOf, registered, peerGone, told, active, closing,
                    erasing, connections, raced>>
    BY <1>3 DEF serverVars, connVars, closeVars, mapVars
  <2>2. ServerTypeOK'
    BY <1>0, <1>l, <2>1 DEF ServerTypeOK
  <2>3. MadeInv'
    BY <1>l, <2>1 DEF MadeInv
  <2> QED
    BY <2>2, <2>3
<1>4. ASSUME BaseStep PROVE ServerTypeOK' /\ MadeInv'
  BY <1>2, <1>4, BaseTypeStep
<1>5. ASSUME NEW i \in 1 .. numThreads, Thread(i) PROVE ServerTypeOK' /\ MadeInv'
  BY <1>2, <1>5, ThreadTypeStep
<1>6. ASSUME NEW l \in Loop, handleClose(l) PROVE ServerTypeOK' /\ MadeInv'
  BY <1>2, <1>6, CloseTypeStep
<1>7. ASSUME NEW c \in Conn, PeerGoes(c) PROVE ServerTypeOK' /\ MadeInv'
  BY <1>0, <1>7, <1>l DEF PeerGoes, ServerTypeOK, MadeInv, poolVars, closeVars, mapVars
<1>8. ASSUME start \/ SpuriousWakeup \/ stop \/ UNCHANGED vars
      PROVE  ServerTypeOK' /\ MadeInv'
  BY <1>3, <1>8 DEF start, SpuriousWakeup, stop, vars, serverVars
<1>9. ServerTypeOK' /\ MadeInv'
  BY <1>4, <1>5, <1>6, <1>7, <1>8 DEF Next, BaseStep
<1>10. TypeOK'
  BY <1>1, <1>9 DEF TypeOK, ServerTypeOK
<1> QED
  BY <1>1, <1>2, <1>9, <1>10

(* What the proofs of the types need.                                      *)
TypeInv == TypeOK /\ StartInv /\ MadeInv /\ ThreadInv

LEMMA TypeInvHolds == Spec => []TypeInv
<1>1. Init => TypeInv
  BY InitialTypes DEF TypeInv
<1>2. TypeInv /\ [Next]_vars => TypeInv'
  BY TypeStep DEF TypeInv
<1> QED
  BY <1>1, <1>2, PTL DEF Spec

(* The variables of the server and of its threads keep their types,        *)
(* however many threads setThreadNum asked for (src/src/TcpServer.cc).     *)
THEOREM TypeCorrect == Spec => []TypeOK
<1>1. TypeInv => TypeOK
  BY DEF TypeInv
<1> QED
  BY <1>1, TypeInvHolds, PTL

(* EventLoopThreadPool::start puts into _loops only loops that exist, and  *)
(* they exist until the destructor of their thread has told them to quit:  *)
(* getNextLoop hands out no pointer to a loop that is not there.           *)
THEOREM HandedOutLoopsServe == Spec => []LoopsServe
<1>1. TypeInv => LoopsServe
  BY LoopsServeFollows, TypeSplit DEF TypeInv
<1> QED
  BY <1>1, TypeInvHolds, PTL
-----------------------------------------------------------------------------
(* The connections that are open.                                          *)

(* The base loop and the caller of the pool are one thread.                *)
BaseInv ==
  /\ base \in {"stopping", "gone"} <=> caller \in {"quit", "wakeup", "join", "destroyed"}
  /\ base = "gone" => caller = "destroyed"
  /\ base # "poll" => caller \notin {"create", "lock", "waiting"}

(* No step lets the two places disagree.                                   *)
LEMMA BaseInvStep ==
  ASSUME TypeInv, BaseInv, [Next]_vars
  PROVE  BaseInv'
<1> USE DEF BaseInv
<1>1. CASE start \/ SpuriousWakeup \/ stop
  <2>1. base' = base
    BY <1>1 DEF start, SpuriousWakeup, stop, serverVars
  <2>2. \/ caller \in {"create", "lock", "waiting"}
           /\ caller' \in {"create", "lock", "waiting", "serving"}
        \/ caller \in {"quit", "wakeup", "join"}
           /\ caller' \in {"quit", "wakeup", "join", "destroyed"}
    BY <1>1 DEF start, SpuriousWakeup, stop, Pool!start, Pool!StartThread, Pool!WaitForLoop,
       Pool!LoopIsSet, Pool!AllStarted, Pool!SpuriousWakeup, Pool!stop, Pool!QuitLoop,
       Pool!WakeupToQuit, Pool!Join
  <2> QED
    BY <2>1, <2>2
<1>2. CASE LeaveLoop
  BY <1>2 DEF LeaveLoop, Pool!Destroy
<1>3. CASE DestroyMap \/ BasePollReturns \/ BaseEndDispatch
  BY <1>3 DEF DestroyMap, BasePollReturns, BaseEndDispatch, Serving, poolVars
<1>4. CASE Accept \/ newConnection
  BY <1>4 DEF Accept, newConnection, EnterMap, AddToMap, setUser, setUpLayerCloseCallback,
     Establish, poolVars
<1>5. ASSUME NEW i \in 1 .. numThreads, Thread(i) PROVE BaseInv'
  <2>1. base' = base /\ (caller' = caller \/ (caller = "waiting" /\ caller' = "lock"))
    BY <1>5 DEF Thread, PollOther, PollReturns, EndDispatch, RunFunctor, ThreadStep,
       serverVars, Pool!PollReturns, Pool!EndDispatch, Pool!RunFunctor, Pool!ThreadStep,
       Pool!ConstructLoop, Pool!PublishLoop, Pool!TestQuit, Pool!EndFunctors, Pool!EndThread
  <2> QED
    BY <2>1
<1>6. ASSUME NEW l \in Loop, handleClose(l) PROVE BaseInv'
  <2>1. base' = base /\ caller' = caller
    BY <1>6 DEF handleClose, RunCloseCallback, removeConnection, StartClose, UseFreed, poolVars
  <2> QED
    BY <2>1
<1>7. ASSUME (\E c \in Conn : PeerGoes(c)) \/ UNCHANGED vars PROVE BaseInv'
  BY <1>7 DEF PeerGoes, vars, poolVars
<1> QED
  BY <1>1, <1>2, <1>3, <1>4, <1>5, <1>6, <1>7 DEF Next

(* A socket is in epoll from accept() to handleClose, and only its own     *)
(* loop reports its events.                                                *)
ConnInv ==
  /\ \A c \in Conn : fd[c] \in {c, -1}
  /\ \A c \in Conn : c > made => fd[c] = c
  /\ \A c \in Conn : registered[c] => c <= made /\ fd[c] = c
  /\ \A l \in Loop, c \in Conn : c \in active[l] => registered[c] /\ loopOf[c] = l
  /\ \A l \in Loop : closing[l] # None => closing[l] <= made /\ ~registered[closing[l]]
  /\ \A l \in erasing : closing[l] # None

(* No step registers a socket twice or with another loop.                  *)
LEMMA ConnInvStep ==
  ASSUME TypeInv, ConnInv, [Next]_vars
  PROVE  ConnInv'
<1>0. /\ ServerTypeOK /\ TypeOK /\ MadeInv /\ Loop' = Loop /\ numThreads \in Nat /\ 0 \in Loop
      /\ Conn \subseteq Nat \ {0} /\ made \in Nat
  BY TypeStep, TypeSplit, Sizes0 DEF TypeInv, Loop, Conn, ServerTypeOK
<1>t. /\ fd \in [Conn -> Conn \cup {-1}] /\ loopOf \in [Conn -> Loop]
      /\ registered \in [Conn -> BOOLEAN] /\ active \in [Loop -> SUBSET (Conn \cup {Acceptor})]
      /\ closing \in [Loop -> Conn \cup {None}] /\ erasing \subseteq Loop
  BY <1>0 DEF ServerTypeOK
<1>1. ASSUME UNCHANGED <<made, fd, loopOf, registered, active, closing, erasing>>
      PROVE  ConnInv'
  BY <1>0, <1>1 DEF ConnInv
<1>2. CASE start \/ SpuriousWakeup \/ LeaveLoop \/ stop \/ DestroyMap
  BY <1>1, <1>2 DEF start, SpuriousWakeup, LeaveLoop, stop, DestroyMap, serverVars, connVars,
     closeVars
<1>3. CASE newConnection \/ BaseEndDispatch
  BY <1>1, <1>3 DEF newConnection, EnterMap, AddToMap, setUser, setUpLayerCloseCallback,
     Establish, BaseEndDispatch, connVars, closeVars
<1>4. ASSUME NEW l \in Loop, NEW X \in SUBSET {Acceptor},
             active' = [active EXCEPT ![l] = Ready(l) \cup X],
             UNCHANGED <<made, fd, loopOf, registered, closing, erasing>>
      PROVE  ConnInv'
  <2>1. \A c \in Conn : c \in Ready(l) \cup X => registered[c] /\ loopOf[c] = l
    BY <1>0 DEF Ready, Acceptor
  <2>2. /\ active'[l] = Ready(l) \cup X
        /\ \A k \in Loop : k # l => active'[k] = active[k]
    BY <1>4, <1>t
  <2> QED
    BY <1>0, <1>4, <2>1, <2>2 DEF ConnInv
<1>5. CASE BasePollReturns
  <2>1. \E X \in SUBSET {Acceptor} : active' = [active EXCEPT ![0] = Ready(0) \cup X]
    <3>1. Ready(0) = Ready(0) \cup {}
      OBVIOUS
    <3> QED
      BY <1>5, <3>1 DEF BasePollReturns
  <2> QED
    BY <1>0, <1>4, <1>5, <2>1 DEF BasePollReturns, connVars, closeVars
<1>6. CASE Accept
  <2>a. made' = made + 1 /\ made < MaxConns /\ MaxConns \in Nat
    BY <1>0, <1>6, Sizes0 DEF Accept, MadeInv
  <2>1. made' = made + 1 /\ made' \in Conn
    BY ONLY <1>0, <2>a DEF Conn
  <2>2. /\ \/ registered' = [registered EXCEPT ![made'] = TRUE] /\ fd' = fd
           \/ fd' = [fd EXCEPT ![made'] = -1] /\ registered' = registered
        /\ \E v : loopOf' = [loopOf EXCEPT ![made'] = v]
        /\ active' = [active EXCEPT ![0] = active[0] \ {Acceptor}]
        /\ UNCHANGED <<closing, erasing>>
    BY <1>6 DEF Accept, closeVars
  <2>3. /\ fd[made'] = made' /\ ~registered[made']
        /\ \A l \in Loop : made' \notin active[l] /\ closing[l] # made'
    BY <1>0, <1>t, <2>1 DEF ConnInv, None
  <2>4. /\ fd'[made'] = -1 \/ (fd'[made'] = made' /\ registered'[made'])
        /\ fd'[made'] = -1 => ~registered'[made']
        /\ \A c \in Conn : c # made' => /\ fd'[c] = fd[c] /\ registered'[c] = registered[c]
                                         /\ loopOf'[c] = loopOf[c]
        /\ \A l \in Loop : active'[l] \subseteq active[l]
    BY <1>0, <1>t, <2>1, <2>2, <2>3
  <2>5. \A c \in Conn : /\ fd'[c] \in {c, -1}
                        /\ c > made' => fd'[c] = c
                        /\ registered'[c] => c <= made' /\ fd'[c] = c
    BY <1>0, <2>1, <2>3, <2>4 DEF ConnInv
  <2>6. \A l \in Loop, c \in Conn : c \in active'[l] => registered'[c] /\ loopOf'[c] = l
    <3>1. \A l \in Loop, c \in Conn : c \in active[l] => registered[c] /\ loopOf[c] = l
      BY DEF ConnInv
    <3> QED
      BY ONLY <2>3, <2>4, <3>1
  <2>7. \A l \in Loop : closing'[l] # None => closing'[l] <= made' /\ ~registered'[closing'[l]]
    <3> SUFFICES ASSUME NEW l \in Loop, closing'[l] # None
                 PROVE  closing'[l] <= made' /\ ~registered'[closing'[l]]
      OBVIOUS
    <3>1. closing'[l] = closing[l] /\ closing[l] \in Conn /\ closing[l] # made'
      BY <1>t, <2>2, <2>3
    <3>2. closing[l] <= made /\ ~registered[closing[l]]
      BY <3>1 DEF ConnInv
    <3>3. registered'[closing[l]] = registered[closing[l]]
      BY ONLY <2>4, <3>1
    <3>4. closing[l] <= made'
      <4>1. closing[l] \in Nat /\ made \in Nat
        BY <1>0, <3>1
      <4>2. closing[l] <= made /\ made' = made + 1
        BY <2>1, <3>2
      <4> QED
        BY ONLY <4>1, <4>2
    <3> QED
      BY <3>1, <3>2, <3>3, <3>4
  <2> QED
    BY <1>0, <2>2, <2>5, <2>6, <2>7 DEF ConnInv
<1>7. ASSUME NEW i \in 1 .. numThreads, Thread(i) PROVE ConnInv'
  <2>1. CASE PollOther(i)
    <3>1. i \in Loop /\ {} \in SUBSET {Acceptor} /\ Ready(i) = Ready(i) \cup {}
      BY <1>0 DEF Loop
    <3> QED
      BY <1>4, <2>1, <3>1 DEF PollOther, PollReturns, connVars, closeVars
  <2>2. CASE EndDispatch(i) \/ RunFunctor(i) \/ ThreadStep(i)
    BY <1>1, <2>2 DEF EndDispatch, RunFunctor, ThreadStep, serverVars, connVars, closeVars
  <2> QED
    BY <1>7, <2>1, <2>2 DEF Thread
<1>8. ASSUME NEW l \in Loop, handleClose(l) PROVE ConnInv'
  <2>1. ASSUME NEW c \in Conn, StartClose(l, c) PROVE ConnInv'
    <3>1. /\ c \in active[l] /\ active' = [active EXCEPT ![l] = active[l] \ {c}]
          /\ registered' = [registered EXCEPT ![c] = FALSE]
          /\ closing' = [closing EXCEPT ![l] = c]
          /\ UNCHANGED <<made, fd, loopOf, erasing>>
      BY <2>1 DEF StartClose, DeleteFromEpoll
    <3>2. registered[c] /\ loopOf[c] = l /\ c <= made
      BY <3>1 DEF ConnInv
    <3>3. /\ \A k \in Loop : active'[k] \subseteq active[k] /\ c \notin active'[k]
          /\ ~registered'[c] /\ \A d \in Conn : d # c => registered'[d] = registered[d]
          /\ closing'[l] = c /\ \A k \in Loop : k # l => closing'[k] = closing[k]
      BY <1>0, <1>t, <3>1, <3>2 DEF ConnInv
    <3>4. \A d \in Conn : registered'[d] => registered[d]
      BY <3>3
    <3>5. \A k \in Loop, d \in Conn : d \in active'[k] => registered'[d] /\ loopOf'[d] = k
      BY <3>1, <3>3 DEF ConnInv
    <3>6. \A k \in Loop : closing'[k] # None => closing'[k] <= made' /\ ~registered'[closing'[k]]
      BY <1>t, <3>1, <3>2, <3>3, <3>4 DEF ConnInv
    <3>7. \A k \in erasing' : closing'[k] # None
      BY <1>0, <1>t, <3>1, <3>3 DEF ConnInv, None
    <3> QED
      BY <1>0, <3>1, <3>4, <3>5, <3>6, <3>7 DEF ConnInv
  <2>2. ASSUME NEW c \in Conn, UseFreed(l, c) PROVE ConnInv'
    <3>1. /\ active' = [active EXCEPT ![l] = active[l] \ {c}]
          /\ UNCHANGED <<made, fd, loopOf, registered, closing, erasing>>
      BY <2>2 DEF UseFreed, connVars, closeVars
    <3>2. \A k \in Loop : active'[k] \subseteq active[k]
      BY <1>t, <3>1
    <3> QED
      BY <1>0, <3>1, <3>2 DEF ConnInv
  <2>3. CASE RunCloseCallback(l) \/ removeConnection(l)
    <3>1. /\ \/ erasing' = erasing \cup {l} /\ closing' = closing /\ closing[l] # None
             \/ erasing' = erasing /\ closing' = [closing EXCEPT ![l] = None] /\ l \notin erasing
             \/ erasing' = erasing \ {l} /\ closing' = [closing EXCEPT ![l] = None]
          /\ UNCHANGED <<made, fd, loopOf, registered, active>>
      BY <2>3 DEF RunCloseCallback, removeConnection, connVars
    <3>2. /\ \A k \in Loop : closing'[k] # None => closing'[k] = closing[k]
          /\ \A k \in erasing' : closing'[k] # None
      BY <1>t, <3>1 DEF ConnInv
    <3> QED
      BY <1>0, <3>1, <3>2 DEF ConnInv
  <2> QED
    BY <1>8, <2>1, <2>2, <2>3 DEF handleClose
<1>9. ASSUME (\E c \in Conn : PeerGoes(c)) \/ UNCHANGED vars PROVE ConnInv'
  BY <1>1, <1>9 DEF PeerGoes, vars, connVars, closeVars
<1> QED
  BY <1>2, <1>3, <1>5, <1>6, <1>7, <1>8, <1>9 DEF Next

(* As long as no two threads were in the map at once, it has every open    *)
(* connection under its descriptor, from when newConnection has put it     *)
(* there on.                                                               *)
Mapped(c) == c \in DOMAIN connections /\ connections[c] = c

KeptInv ==
  ~raced /\ base # "gone" =>
    \A c \in Conn :
      registered[c] => (c = made /\ base \in {"constructed", "mapping"}) \/ Mapped(c)

(* No step takes an open connection out of the map.                        *)
LEMMA KeptInvStep ==
  ASSUME TypeInv, ConnInv, KeptInv, [Next]_vars
  PROVE  KeptInv'
<1>0. /\ ServerTypeOK /\ TypeOK /\ MadeInv /\ Loop' = Loop /\ 0 \in Loop
      /\ Conn \subseteq Nat \ {0} /\ made \in Nat
  BY TypeStep, TypeSplit, Sizes0 DEF TypeInv, Loop, Conn, ServerTypeOK
<1>t. /\ fd \in [Conn -> Conn \cup {-1}] /\ registered \in [Conn -> BOOLEAN]
      /\ closing \in [Loop -> Conn \cup {None}]
  BY <1>0 DEF ServerTypeOK
<1> USE DEF Mapped
<1>1. ASSUME UNCHANGED <<made, registered, connections, raced>>,
             base' = base \/ base \notin {"constructed", "mapping", "gone"}
               \/ (base = "constructed" /\ base' = "mapping")
      PROVE  KeptInv'
  BY <1>1 DEF KeptInv
<1>2. CASE start \/ SpuriousWakeup \/ LeaveLoop \/ stop
  BY <1>1, <1>2 DEF start, SpuriousWakeup, LeaveLoop, stop, serverVars, connVars, mapVars
<1>3. CASE DestroyMap
  BY <1>3 DEF DestroyMap, KeptInv
<1>4. CASE \/ EnterMap \/ setUser \/ setUpLayerCloseCallback \/ BaseEndDispatch
           \/ BasePollReturns
  BY <1>1, <1>4 DEF EnterMap, setUser, setUpLayerCloseCallback, BaseEndDispatch,
     BasePollReturns, connVars, mapVars
<1>5. CASE Establish
  BY <1>1, <1>5 DEF Establish, mapVars
<1>6. CASE Accept
  <2>1. /\ made' = made + 1 /\ base = "dispatch" /\ base' = "constructed"
        /\ UNCHANGED <<connections, raced>>
        /\ registered' \in {registered, [registered EXCEPT ![made'] = TRUE]}
    BY <1>6 DEF Accept, mapVars
  <2>2. \A c \in Conn : c # made' /\ registered'[c] => registered[c]
    BY <1>t, <2>1
  <2> QED
    BY <2>1, <2>2 DEF KeptInv
<1>7. CASE AddToMap
  <2>1. /\ base = "mapping" /\ base' = "mapped" /\ UNCHANGED <<made, registered, fd>>
        /\ ChangeMap(0, MapWith(fd[made], made))
    BY <1>7 DEF AddToMap, connVars
  <2>2. SUFFICES ASSUME ~raced', NEW c \in Conn, registered[c] PROVE Mapped(c)'
    BY <2>1 DEF KeptInv
  <2>3. connections' = MapWith(fd[made], made) /\ raced' = raced
    BY <2>1, <2>2 DEF ChangeMap
  <2>4. fd[c] = c /\ (c # made => c # fd[made])
    <3>1. made \in Conn
      BY <1>0, <2>1, MadeIsConn DEF MakingStates
    <3> QED
      BY <1>0, <2>2, <3>1 DEF ConnInv
  <2>5. c = made \/ Mapped(c)
    BY <2>1, <2>2, <2>3 DEF KeptInv
  <2> QED
    BY <2>3, <2>4, <2>5 DEF MapWith
<1>8. ASSUME NEW i \in 1 .. numThreads, Thread(i) PROVE KeptInv'
  BY <1>1, <1>8 DEF Thread, PollOther, PollReturns, EndDispatch, RunFunctor, ThreadStep,
     serverVars, connVars, mapVars
<1>9. ASSUME NEW l \in Loop, handleClose(l) PROVE KeptInv'
  <2>1. ASSUME NEW c \in Conn, StartClose(l, c) PROVE KeptInv'
    <3>1. /\ registered' = [registered EXCEPT ![c] = FALSE]
          /\ UNCHANGED <<made, base, connections, raced>>
      BY <2>1 DEF StartClose, DeleteFromEpoll, mapVars
    <3>2. \A d \in Conn : registered'[d] => registered[d]
      BY <1>t, <3>1
    <3> QED
      BY <3>1, <3>2 DEF KeptInv
  <2>2. ASSUME (\E c \in Conn : UseFreed(l, c)) \/ RunCloseCallback(l) PROVE KeptInv'
    BY <1>1, <2>2 DEF UseFreed, RunCloseCallback, connVars, mapVars
  <2>3. CASE removeConnection(l)
    <3>1. /\ l \in erasing /\ UNCHANGED <<made, base, registered>>
          /\ ChangeMap(l, Restrict(connections, DOMAIN connections \ {fd[closing[l]]}))
      BY <2>3 DEF removeConnection, connVars
    <3>2. SUFFICES ASSUME ~raced', base # "gone", NEW c \in Conn, registered[c]
                   PROVE  (c = made /\ base \in {"constructed", "mapping"}) \/ Mapped(c)'
      BY <3>1 DEF KeptInv
    <3>3. /\ connections' = Restrict(connections, DOMAIN connections \ {fd[closing[l]]})
          /\ raced' = raced
      BY <3>1, <3>2 DEF ChangeMap
    <3>4. closing[l] \in Conn /\ ~registered[closing[l]] /\ fd[closing[l]] \in {closing[l], -1}
      BY <1>0, <1>t, <3>1 DEF ConnInv, None
    <3>5. c # fd[closing[l]]
      BY <1>0, <3>2, <3>4
    <3>6. (c = made /\ base \in {"constructed", "mapping"}) \/ Mapped(c)
      BY <3>2, <3>3 DEF KeptInv
    <3> QED
      BY <3>3, <3>5, <3>6 DEF Restrict
  <2> QED
    BY <1>9, <2>1, <2>2, <2>3 DEF handleClose
<1>10. ASSUME (\E c \in Conn : PeerGoes(c)) \/ UNCHANGED vars PROVE KeptInv'
  BY <1>1, <1>10 DEF PeerGoes, vars, connVars, mapVars
<1> QED
  BY <1>2, <1>3, <1>4, <1>5, <1>6, <1>7, <1>8, <1>9, <1>10 DEF Next, newConnection

(* A connection in the map or in newConnection is alive.                   *)
LEMMA KeptFollows ==
  ASSUME TypeInv, BaseInv, ConnInv, KeptInv
  PROVE  OpenIsKept
<1>1. SUFFICES ASSUME ~raced, NEW c \in Conn, Polls(loopOf[c]),
                      registered[c] \/ c \in active[loopOf[c]]
               PROVE  Alive(c)
  BY DEF OpenIsKept
<1>2. ServerTypeOK /\ TypeOK /\ ThreadInv /\ numThreads \in Nat
  BY TypeSplit, Sizes0 DEF TypeInv
<1>3. loopOf[c] \in Loop
  BY <1>2 DEF ServerTypeOK
<1>4. registered[c]
  BY <1>1, <1>3 DEF ConnInv
<1>5. base # "gone"
  <2>1. SUFFICES ASSUME base = "gone" PROVE FALSE
    OBVIOUS
  <2>2. caller = "destroyed"
    BY <2>1 DEF BaseInv
  <2>3. loopOf[c] # 0
    BY <1>1, <2>1 DEF Polls
  <2>4. loopOf[c] \in 1 .. numThreads
    BY <1>2, <1>3, <2>3 DEF Loop
  <2> QED
    BY <1>1, <1>2, <2>2, <2>3, <2>4 DEF Polls, ThreadInv
<1>6. (c = made /\ base \in {"constructed", "mapping"}) \/ Mapped(c)
  BY <1>1, <1>4, <1>5 DEF KeptInv
<1> QED
  BY <1>6 DEF Alive, Making, Mapped, Range

(* What the proofs about open connections need.                            *)
OpenInv == TypeInv /\ BaseInv /\ ConnInv /\ KeptInv

LEMMA OpenInvInitially ==
  ASSUME Init
  PROVE  OpenInv
<1>1. BaseInv /\ ConnInv /\ KeptInv
  <2>1. MaxConns \in Nat /\ Conn \subseteq Nat \ {0}
    BY MaxConnsAssumption DEF MaxConnsAssumption, Conn
  <2> QED
    BY <2>1 DEF Init, Pool!Init, BaseInv, ConnInv, KeptInv, Loop
<1> QED
  BY <1>1, InitialTypes DEF OpenInv, TypeInv

LEMMA OpenInvHolds == Spec => []OpenInv
<1>2. Init => OpenInv
  BY OpenInvInitially
<1>3. OpenInv /\ [Next]_vars => OpenInv'
  BY TypeStep, BaseInvStep, ConnInvStep, KeptInvStep DEF OpenInv, TypeInv
<1> QED
  BY <1>2, <1>3, PTL DEF Spec

(* As long as no two threads were in _connections at once, every           *)
(* connection that its loop watches, or is about to handle an event of, is *)
(* held by newConnection or by the map, until the destructor of the server *)
(* has joined the threads: the pointer in its epoll_event is good          *)
(* (TcpServer::newConnection, removeConnection, ~TcpServer).               *)
THEOREM WatchedIsKept == Spec => []OpenIsKept
<1>1. OpenInv => OpenIsKept
  BY KeptFollows DEF OpenInv
<1> QED
  BY <1>1, OpenInvHolds, PTL
-----------------------------------------------------------------------------
(* What the user is told.                                                  *)

(* What an element appended to an injective sequence leaves of it.         *)
LEMMA AppendOnce ==
  ASSUME NEW S, NEW s \in Seq(S), NEW x \in S, IsInjective(s), x \notin Range(s)
  PROVE  IsInjective(Append(s, x)) /\ Range(Append(s, x)) = Range(s) \cup {x}
<1> DEFINE t == Append(s, x)
<1>1. /\ Len(s) \in Nat /\ DOMAIN s = 1 .. Len(s) /\ DOMAIN t = 1 .. Len(s) + 1
      /\ \A k \in 1 .. Len(s) : t[k] = s[k]
      /\ t[Len(s) + 1] = x
  BY LenProperties, AppendProperties
<1> HIDE DEF t
<1>2. \A k \in 1 .. Len(s) + 1 : k \in 1 .. Len(s) \/ k = Len(s) + 1
  BY <1>1
<1>3. \A k \in 1 .. Len(s) : s[k] # x
  BY <1>1 DEF Range
<1>4. \A j, k \in 1 .. Len(s) : s[j] = s[k] => j = k
  BY <1>1 DEF IsInjective
<1>5. IsInjective(t)
  <2>1. SUFFICES ASSUME NEW j \in 1 .. Len(s) + 1, NEW k \in 1 .. Len(s) + 1, t[j] = t[k]
                 PROVE  j = k
    BY <1>1 DEF IsInjective
  <2> QED
    BY <2>1, <1>1, <1>2, <1>3, <1>4
<1>6. Range(t) = Range(s) \cup {x}
  <2>1. Range(t) \subseteq Range(s) \cup {x}
    BY <1>1, <1>2 DEF Range
  <2>2. \A k \in 1 .. Len(s) : k \in 1 .. Len(s) + 1
    BY <1>1
  <2>3. Len(s) + 1 \in 1 .. Len(s) + 1
    BY <1>1
  <2>4. Range(s) \cup {x} \subseteq Range(t)
    BY <1>1, <2>2, <2>3 DEF Range
  <2> QED
    BY <2>1, <2>4
<1> QED
  BY <1>5, <1>6 DEF t

LEMMA AppendPair ==
  ASSUME NEW S, NEW a \in S, NEW b \in S
  PROVE  Append(<<a>>, b) = <<a, b>>
<1>1. <<a>> \in Seq(S) /\ Len(<<a>>) = 1 /\ <<a>>[1] = a
  OBVIOUS
<1>2. <<a, b>> \in Seq(S) /\ Len(<<a, b>>) = 2 /\ <<a, b>>[1] = a /\ <<a, b>>[2] = b
  OBVIOUS
<1>3. /\ Append(<<a>>, b) \in Seq(S) /\ Len(Append(<<a>>, b)) = 2
      /\ Append(<<a>>, b)[1] = a /\ Append(<<a>>, b)[2] = b
  BY <1>1, AppendProperties
<1> DEFINE s == Append(<<a>>, b)
           t == <<a, b>>
<1>4. \A i \in 1 .. Len(s) : i = 1 \/ i = 2
  BY <1>3
<1>5. s \in Seq(S) /\ t \in Seq(S) /\ Len(s) = Len(t) /\ \A i \in 1 .. Len(s) : s[i] = t[i]
  BY <1>2, <1>3, <1>4
<1> HIDE DEF s, t
<1>6. s = t
  BY <1>5, SeqEqual
<1> QED
  BY <1>6 DEF s, t

(* What loop i has still to run: the functors that were queued, and those  *)
(* of the functors doPendingFunctors has swapped out whose turn is to come.*)
Rest(i) == turn[i] .. Len(tempRuns[i])
Waiting(i) == Range(pending[i]) \cup {tempRuns[i][p] : p \in Rest(i)}

(* No connection is there twice.                                           *)
OnceIn(i) ==
  /\ IsInjective(pending[i])
  /\ \A p, q \in Rest(i) : tempRuns[i][p] = tempRuns[i][q] => p = q
  /\ \A p \in Rest(i) : tempRuns[i][p] \notin Range(pending[i])

(* The queues of a loop have connections in them.                          *)
LEMMA QueueTypes ==
  ASSUME TypeOK, NEW i \in 1 .. numThreads
  PROVE  /\ pending \in [1 .. numThreads -> Seq(Conn)]
         /\ tempRuns \in [1 .. numThreads -> Seq(Conn)]
         /\ turn \in [1 .. numThreads -> Nat \ {0}]
         /\ pending[i] \in Seq(Conn) /\ tempRuns[i] \in Seq(Conn) /\ turn[i] \in Nat \ {0}
         /\ Len(tempRuns[i]) \in Nat /\ DOMAIN tempRuns[i] = 1 .. Len(tempRuns[i])
         /\ Len(pending[i]) \in Nat /\ DOMAIN pending[i] = 1 .. Len(pending[i])
<1>1. /\ pending \in [1 .. numThreads -> Seq(Conn)]
      /\ tempRuns \in [1 .. numThreads -> Seq(Conn)]
      /\ turn \in [1 .. numThreads -> Nat \ {0}]
  BY DEF TypeOK, Pool!TypeOK, Pool!Thread
<1>2. pending[i] \in Seq(Conn) /\ tempRuns[i] \in Seq(Conn) /\ turn[i] \in Nat \ {0}
  BY <1>1
<1> QED
  BY <1>1, <1>2, LenProperties

LEMMA EmptyQueue ==
  /\ IsInjective(<<>>) /\ Range(<<>>) = {} /\ Len(<<>>) = 0
  /\ \A k \in Nat \ {0} : k .. Len(<<>>) = {}
  BY EmptySeq DEF IsInjective, Range

LEMMA QueueStays ==
  ASSUME NEW i \in 1 .. numThreads, OnceIn(i),
         pending'[i] = pending[i], tempRuns'[i] = tempRuns[i], turn'[i] = turn[i]
  PROVE  OnceIn(i)' /\ Waiting(i)' = Waiting(i)
  BY DEF OnceIn, Waiting, Rest

LEMMA QueuePushed ==
  ASSUME TypeOK, NEW i \in 1 .. numThreads, OnceIn(i), NEW c \in Conn, c \notin Waiting(i),
         Pool!queueInLoop(i, c), UNCHANGED <<tempRuns, turn>>
  PROVE  OnceIn(i)' /\ Waiting(i)' = Waiting(i) \cup {c}
<1>1. pending'[i] = Append(pending[i], c)
  BY QueueTypes DEF Pool!queueInLoop
<1>2. pending[i] \in Seq(Conn) /\ IsInjective(pending[i]) /\ c \notin Range(pending[i])
  BY QueueTypes DEF OnceIn, Waiting
<1>3. IsInjective(pending'[i]) /\ Range(pending'[i]) = Range(pending[i]) \cup {c}
  BY <1>1, <1>2, AppendOnce
<1> QED
  BY <1>3 DEF OnceIn, Waiting, Rest

LEMMA QueueSwapped ==
  ASSUME TypeOK, NEW i \in 1 .. numThreads, OnceIn(i), Pool!EndDispatch(i)
  PROVE  OnceIn(i)' /\ Waiting(i)' \subseteq Waiting(i)
<1>1. pending'[i] = <<>> /\ tempRuns'[i] = pending[i] /\ turn'[i] = 1
  BY QueueTypes DEF Pool!EndDispatch
<1>2. DOMAIN pending[i] = 1 .. Len(pending[i])
  BY QueueTypes
<1>3. Rest(i)' = DOMAIN pending[i]
  BY <1>1, <1>2 DEF Rest
<1>4. Waiting(i)' = Range(pending[i])
  BY <1>1, <1>3, EmptyQueue DEF Waiting, Range
<1> QED
  BY <1>1, <1>3, <1>4, EmptyQueue DEF OnceIn, Waiting, IsInjective

LEMMA QueueRun ==
  ASSUME TypeOK, NEW i \in 1 .. numThreads, OnceIn(i), Pool!RunFunctor(i)
  PROVE  /\ OnceIn(i)' /\ Waiting(i)' \subseteq Waiting(i)
         /\ tempRuns[i][turn[i]] \in Waiting(i) /\ tempRuns[i][turn[i]] \notin Waiting(i)'
<1>0. turn[i] \in Nat \ {0} /\ Len(tempRuns[i]) \in Nat
  BY QueueTypes
<1>1. /\ pending'[i] = pending[i] /\ tempRuns'[i] = tempRuns[i] /\ turn'[i] = turn[i] + 1
      /\ turn[i] <= Len(tempRuns[i])
  BY QueueTypes DEF Pool!RunFunctor
<1>2. turn[i] \in Rest(i) /\ Rest(i)' \subseteq Rest(i) /\ turn[i] \notin Rest(i)'
  BY <1>0, <1>1 DEF Rest
<1>3. \A p \in Rest(i)' : tempRuns[i][p] # tempRuns[i][turn[i]]
  BY <1>2 DEF OnceIn
<1>4. tempRuns[i][turn[i]] \notin Range(pending[i])
  BY <1>2 DEF OnceIn
<1> QED
  BY <1>1, <1>2, <1>3, <1>4 DEF OnceIn, Waiting

LEMMA QueueDropped ==
  ASSUME TypeOK, NEW i \in 1 .. numThreads, OnceIn(i), Pool!EndFunctors(i) \/ Pool!EndThread(i)
  PROVE  OnceIn(i)' /\ Waiting(i)' \subseteq Waiting(i)
<1>1. CASE Pool!EndFunctors(i)
  <2>1. pending'[i] = pending[i] /\ tempRuns'[i] = <<>> /\ turn'[i] = 1
    BY <1>1, QueueTypes DEF Pool!EndFunctors
  <2>2. Rest(i)' = {}
    BY <2>1, EmptyQueue DEF Rest
  <2> QED
    BY <2>1, <2>2 DEF OnceIn, Waiting
<1>2. CASE Pool!EndThread(i)
  <2>1. pending'[i] = <<>> /\ tempRuns'[i] = tempRuns[i] /\ turn'[i] = turn[i]
    BY <1>2, QueueTypes DEF Pool!EndThread
  <2>2. Rest(i)' = Rest(i)
    BY <2>1 DEF Rest
  <2> QED
    BY <2>1, <2>2, EmptyQueue DEF OnceIn, Waiting
<1> QED
  BY <1>1, <1>2

(* connectEstablished has not run for the connection, and waits in no      *)
(* other queue than that of its loop.                                      *)
Untold(c) == c <= made /\ ~Making(c) /\ "onConnection" \notin Range(told[c])

(* A queued connectEstablished is there once, and has not run.             *)
QueueInv ==
  \A i \in 1 .. numThreads :
    OnceIn(i) /\ \A c \in Waiting(i) : Untold(c) /\ loopOf[c] = i

(* What the user may have been told of a connection.                       *)
ToldOf(c) ==
  /\ IsInjective(told[c])
  /\ c > made => told[c] = <<>>
  /\ Making(c) => "onConnection" \notin Range(told[c])
  /\ registered[c] => "onClose" \notin Range(told[c])
  /\ numThreads = 0 =>
       IF c <= made /\ ~Making(c)
       THEN told[c] \in {<<"onConnection">>, <<"onConnection", "onClose">>}
       ELSE told[c] = <<>>

ToldInv == \A c \in Conn : ToldOf(c)

LEMMA WaitingIsConn ==
  ASSUME TypeOK, NEW i \in 1 .. numThreads
  PROVE  Waiting(i) \subseteq Conn
<1>1. /\ pending[i] \in Seq(Conn) /\ tempRuns[i] \in Seq(Conn) /\ turn[i] \in Nat \ {0}
      /\ Len(tempRuns[i]) \in Nat /\ DOMAIN pending[i] = 1 .. Len(pending[i])
  BY QueueTypes
<1>2. Range(pending[i]) \subseteq Conn
  BY <1>1, ElementOfSeq DEF Range
<1>3. \A p \in Rest(i) : p \in 1 .. Len(tempRuns[i])
  BY <1>1 DEF Rest
<1>4. \A p \in Rest(i) : tempRuns[i][p] \in Conn
  BY <1>1, <1>3, ElementOfSeq
<1> QED
  BY <1>2, <1>4 DEF Waiting

(* A step that tells the user nothing.                                     *)
LEMMA NothingTold ==
  ASSUME numThreads' = numThreads, QueueInv, ToldInv,
         TypeOK, UNCHANGED <<made, told, loopOf>>,
         \A c \in Conn : Making(c)' <=> Making(c),
         \A c \in Conn : registered'[c] => registered[c],
         \A i \in 1 .. numThreads : OnceIn(i)' /\ Waiting(i)' \subseteq Waiting(i)
  PROVE  QueueInv' /\ ToldInv'
<1>1. \A i \in 1 .. numThreads : Waiting(i)' \subseteq Conn
  BY WaitingIsConn
<1>2. QueueInv'
  BY <1>1 DEF QueueInv, Untold
<1>3. ToldInv'
  BY DEF ToldInv, ToldOf
<1> QED
  BY <1>2, <1>3

(* The user is told of connection c.                                       *)
LEMMA OneTold ==
  ASSUME TypeOK, ToldInv, NEW c \in Conn, NEW what \in {"onConnection", "onClose"},
         Tell(c, what), what \notin Range(told[c])
  PROVE  /\ told'[c] = Append(told[c], what)
         /\ IsInjective(told'[c]) /\ Range(told'[c]) = Range(told[c]) \cup {what}
         /\ \A d \in Conn : d # c => told'[d] = told[d]
<1>1. /\ told'[c] = Append(told[c], what)
      /\ \A d \in Conn : d # c => told'[d] = told[d]
      /\ told[c] \in Seq({"onConnection", "onClose"})
  BY ToldStep, TypeSplit DEF ServerTypeOK
<1>2. IsInjective(told[c])
  BY DEF ToldInv, ToldOf
<1>3. IsInjective(Append(told[c], what)) /\ Range(Append(told[c], what)) = Range(told[c]) \cup {what}
  BY <1>1, <1>2, AppendOnce
<1> QED
  BY <1>1, <1>3

(* connectEstablished of a connection that waits nowhere any more.         *)
LEMMA ConnectionTold ==
  ASSUME numThreads' = numThreads, QueueInv, ToldInv, TypeOK, TypeOK',
         NEW c \in Conn, Tell(c, "onConnection"), "onConnection" \notin Range(told[c]),
         c <= made, ~Making(c)', numThreads = 0 => told[c] = <<>>,
         UNCHANGED <<made, loopOf, registered>>,
         \A d \in Conn : d # c => (Making(d)' <=> Making(d)),
         \A i \in 1 .. numThreads :
           OnceIn(i)' /\ Waiting(i)' \subseteq Waiting(i) /\ c \notin Waiting(i)'
  PROVE  QueueInv' /\ ToldInv'
<1>1. /\ told'[c] = Append(told[c], "onConnection")
      /\ IsInjective(told'[c]) /\ Range(told'[c]) = Range(told[c]) \cup {"onConnection"}
      /\ \A d \in Conn : d # c => told'[d] = told[d]
  BY OneTold
<1>2. \A i \in 1 .. numThreads : Waiting(i)' \subseteq Conn
  BY WaitingIsConn
<1>3. QueueInv'
  BY <1>1, <1>2 DEF QueueInv, Untold
<1>4. ASSUME NEW d \in Conn, d # c PROVE ToldOf(d)'
  BY <1>1, <1>4 DEF ToldInv, ToldOf
<1>5. ToldOf(c)'
  <2>1. c \in Nat /\ made \in Nat
    BY Sizes0, TypeSplit DEF Conn, ServerTypeOK
  <2>2. numThreads = 0 => told'[c] = <<"onConnection">>
    <3>1. Append(<<>>, "onConnection") = <<"onConnection">>
      OBVIOUS
    <3> QED
      BY ONLY <1>1, <3>1, numThreads = 0 => told[c] = <<>>
  <2>3. ~(c > made')
    BY <2>1
  <2> QED
    BY <1>1, <2>2, <2>3 DEF ToldInv, ToldOf
<1> QED
  BY <1>3, <1>4, <1>5 DEF ToldInv

(* The first half of handleClose.                                          *)
LEMMA CloseTold ==
  ASSUME TypeInv, TypeInv', numThreads' = numThreads, ConnInv, QueueInv, ToldInv,
         NEW l \in Loop, NEW c \in Conn, StartClose(l, c)
  PROVE  QueueInv' /\ ToldInv'
<1>0. TypeOK /\ TypeOK' /\ ServerTypeOK
  BY TypeSplit DEF TypeInv
<1>1. /\ c \in active[l] /\ registered' = [registered EXCEPT ![c] = FALSE]
      /\ UNCHANGED <<base, made, loopOf, pending, tempRuns, turn>>
      /\ IF UserSet(c) THEN Tell(c, "onClose") ELSE UNCHANGED told
  BY DEF StartClose, DeleteFromEpoll
<1>2. registered[c] /\ loopOf[c] = l /\ c <= made
  BY <1>1 DEF ConnInv
<1>3. registered \in [Conn -> BOOLEAN]
  BY <1>0 DEF ServerTypeOK
<1>4. /\ ~registered'[c] /\ \A d \in Conn : registered'[d] => registered[d]
      /\ \A d \in Conn : Making(d)' <=> Making(d)
  BY <1>1, <1>3 DEF Making
<1>5. \A i \in 1 .. numThreads : OnceIn(i)' /\ Waiting(i)' = Waiting(i)
  BY <1>1, QueueStays DEF QueueInv
<1>6. CASE ~UserSet(c)
  BY <1>0, <1>1, <1>4, <1>5, <1>6, NothingTold
<1>7. CASE UserSet(c)
  <2>1. "onClose" \notin Range(told[c])
    BY <1>2 DEF ToldInv, ToldOf
  <2>2. /\ told'[c] = Append(told[c], "onClose")
        /\ IsInjective(told'[c]) /\ Range(told'[c]) = Range(told[c]) \cup {"onClose"}
        /\ \A d \in Conn : d # c => told'[d] = told[d]
    BY <1>0, <1>1, <1>7, <2>1, OneTold
  <2>3. \A d \in Conn : "onConnection" \in Range(told'[d]) <=> "onConnection" \in Range(told[d])
    <3>1. "onConnection" # "onClose"
      OBVIOUS
    <3>2. "onConnection" \in Range(told'[c]) <=> "onConnection" \in Range(told[c])
      BY ONLY <2>2, <3>1
    <3> QED
      BY ONLY <2>2, <3>2
  <2>4. \A i \in 1 .. numThreads : Waiting(i) \subseteq Conn
    BY <1>0, WaitingIsConn
  <2>5. QueueInv'
    BY <1>1, <1>4, <1>5, <2>3, <2>4 DEF QueueInv, Untold
  <2>6. ASSUME NEW d \in Conn, d # c PROVE ToldOf(d)'
    BY <1>1, <1>4, <2>2, <2>6 DEF ToldInv, ToldOf
  <2>7. ToldOf(c)'
    <3>1. c \in Nat /\ made \in Nat
      BY <1>0, Sizes0 DEF Conn, ServerTypeOK
    <3>2. ASSUME numThreads = 0 PROVE told'[c] = <<"onConnection", "onClose">> /\ ~Making(c)
      <4>1. l = 0 /\ base = "dispatch"
        BY <3>2 DEF Loop, StartClose, Dispatching
      <4>2. ~Making(c)
        BY <4>1 DEF Making
      <4>3. told[c] \in {<<"onConnection">>, <<"onConnection", "onClose">>}
        BY <1>2, <3>2, <4>2 DEF ToldInv, ToldOf
      <4>4. told[c] = <<"onConnection">>
        BY <2>1, <4>3 DEF Range
      <4>5. Append(<<"onConnection">>, "onClose") = <<"onConnection", "onClose">>
        <5>1. "onConnection" \in {"onConnection", "onClose"} /\ "onClose" \in {"onConnection", "onClose"}
          OBVIOUS
        <5> QED
          BY ONLY <5>1, AppendPair
      <4> QED
        BY ONLY <2>2, <4>2, <4>4, <4>5
    <3>3. ~(c > made) /\ ToldOf(c)
      BY <1>2, <3>1 DEF ToldInv
    <3> QED
      BY <1>1, <1>2, <1>4, <2>2, <2>3, <3>2, <3>3 DEF ToldOf
  <2> QED
    BY <2>5, <2>6, <2>7 DEF ToldInv
<1> QED
  BY <1>6, <1>7

(* The last step of newConnection: told at once, or queued.                *)
LEMMA EstablishTold ==
  ASSUME TypeInv, TypeInv', numThreads' = numThreads, QueueInv, ToldInv, Establish
  PROVE  QueueInv' /\ ToldInv'
<1>0. TypeOK /\ TypeOK' /\ ServerTypeOK /\ made \in Nat /\ Conn \subseteq Nat
  BY TypeSplit, Sizes0 DEF TypeInv, Conn, ServerTypeOK
<1>1. /\ base = "callbackSet" /\ base' = "dispatch"
      /\ UNCHANGED <<made, loopOf, registered, tempRuns, turn>>
      /\ IF loopOf[made] = 0
         THEN Tell(made, "onConnection") /\ UNCHANGED <<pending, woken>>
         ELSE Pool!queueInLoop(loopOf[made], made) /\ UNCHANGED told
  BY DEF Establish
<1>2. made \in Conn /\ loopOf[made] \in Loop /\ Making(made)
  BY <1>0, <1>1, MadeIsConn DEF TypeInv, MakingStates, Making
<1>3. /\ ~Making(made)' /\ \A d \in Conn : d # made => ~Making(d) /\ ~Making(d)'
      /\ "onConnection" \notin Range(told[made])
  BY <1>1, <1>2 DEF Making, ToldInv, ToldOf
<1>4. numThreads = 0 => told[made] = <<>>
  BY <1>2 DEF ToldInv, ToldOf
<1>5. \A i \in 1 .. numThreads : made \notin Waiting(i)
  BY <1>2 DEF QueueInv, Untold
<1>6. CASE loopOf[made] = 0
  <2>1. \A i \in 1 .. numThreads : OnceIn(i)' /\ Waiting(i)' = Waiting(i)
    BY <1>1, <1>6, QueueStays DEF QueueInv
  <2> QED
    BY <1>0, <1>1, <1>2, <1>3, <1>4, <1>5, <1>6, <2>1, ConnectionTold
<1>7. CASE loopOf[made] # 0
  <2>0. PICK k \in 1 .. numThreads : k = loopOf[made]
    BY <1>0, <1>2, <1>7, Sizes0 DEF Loop
  <2>1. /\ k = loopOf[made] /\ Pool!queueInLoop(k, made) /\ UNCHANGED told
    BY <1>1, <1>7, <2>0
  <2>2. OnceIn(k)' /\ Waiting(k)' = Waiting(k) \cup {made}
    BY <1>0, <1>1, <1>2, <1>5, <2>1, QueuePushed DEF QueueInv
  <2>3. ASSUME NEW i \in 1 .. numThreads, i # k PROVE OnceIn(i)' /\ Waiting(i)' = Waiting(i)
    <3>1. pending'[i] = pending[i]
      BY <1>0, <2>1, <2>3, QueueTypes DEF Pool!queueInLoop
    <3> QED
      BY <1>1, <2>3, <3>1, QueueStays DEF QueueInv
  <2>4. Untold(made)'
    BY <1>0, <1>1, <1>3, <2>1 DEF Untold
  <2>5. \A i \in 1 .. numThreads : \A c \in Waiting(i) : Untold(c)'
    <3>1. \A i \in 1 .. numThreads : Waiting(i) \subseteq Conn
      BY <1>0, WaitingIsConn
    <3> QED
      BY <1>1, <1>3, <1>5, <2>1, <3>1 DEF QueueInv, Untold
  <2>6. \A i \in 1 .. numThreads : \A c \in Waiting(i)' : Untold(c)' /\ loopOf'[c] = i
    BY <1>1, <2>1, <2>2, <2>3, <2>4, <2>5 DEF QueueInv
  <2>7. QueueInv'
    BY <2>2, <2>3, <2>6 DEF QueueInv
  <2>8. ToldInv'
    <3>1. numThreads # 0
      BY <1>0, <2>1, Sizes0
    <3> QED
      BY <1>1, <1>2, <1>3, <2>1, <3>1 DEF ToldInv, ToldOf
  <2> QED
    BY <2>7, <2>8
<1> QED
  BY <1>6, <1>7

(* A new connection has told the user nothing.                             *)
LEMMA AcceptTold ==
  ASSUME TypeInv, TypeInv', numThreads' = numThreads, ConnInv, QueueInv, ToldInv, Accept
  PROVE  QueueInv' /\ ToldInv'
<1>0. /\ TypeOK /\ ServerTypeOK /\ MadeInv /\ made \in Nat /\ MaxConns \in Nat
      /\ Conn \subseteq Nat \ {0}
  BY TypeSplit, Sizes0 DEF TypeInv, Conn, ServerTypeOK
<1>1. /\ base = "dispatch" /\ base' = "constructed" /\ made' = made + 1
      /\ UNCHANGED <<told, pending, tempRuns, turn>>
      /\ registered' \in {registered, [registered EXCEPT ![made'] = TRUE]}
      /\ loopOf' = [loopOf EXCEPT ![made'] = Pool!NextLoop]
  BY DEF Accept
<1>2. made' \in Conn
  <2>1. made < MaxConns
    BY <1>0 DEF Accept, MadeInv
  <2> QED
    BY ONLY <1>0, <1>1, <2>1 DEF Conn
<1>3. /\ \A d \in Conn : ~Making(d)
      /\ \A d \in Conn : Making(d)' <=> d = made'
  BY <1>1 DEF Making
<1>4. /\ \A d \in Conn : d # made' => loopOf'[d] = loopOf[d] /\ registered'[d] = registered[d]
      /\ told[made'] = <<>>
  <2>1. told[made'] = <<>>
    BY <1>0, <1>1, <1>2 DEF ToldInv, ToldOf
  <2> QED
    BY <1>0, <1>1, <1>2, <2>1 DEF ServerTypeOK
<1>5. \A i \in 1 .. numThreads :
        OnceIn(i)' /\ Waiting(i)' = Waiting(i) /\ Waiting(i) \subseteq Conn
  BY <1>0, <1>1, QueueStays, WaitingIsConn DEF QueueInv
<1>6. \A i \in 1 .. numThreads : \A c \in Waiting(i) : Untold(c)' /\ loopOf'[c] = i
  <2>1. SUFFICES ASSUME NEW i \in 1 .. numThreads, NEW c \in Waiting(i)
                 PROVE  Untold(c)' /\ loopOf'[c] = i
    OBVIOUS
  <2>2. c \in Conn /\ c \in Nat /\ Untold(c) /\ loopOf[c] = i
    BY <1>0, <1>5, <2>1 DEF QueueInv
  <2>3. c <= made' /\ c # made'
    BY <1>0, <1>1, <2>2 DEF Untold
  <2> QED
    BY <1>1, <1>3, <1>4, <2>2, <2>3 DEF Untold
<1>7. QueueInv'
  BY <1>5, <1>6 DEF QueueInv
<1>8. ASSUME NEW d \in Conn, d = made' PROVE ToldOf(d)'
  <2>1. ~(d > made')
    BY <1>0, <1>1, <1>8
  <2>2. IsInjective(<<>>) /\ Range(<<>>) = {}
    BY EmptyQueue
  <2>3. told'[d] = <<>> /\ Making(d)'
    BY <1>1, <1>3, <1>4, <1>8
  <2> QED
    BY <2>1, <2>2, <2>3 DEF ToldOf
<1>9. ASSUME NEW d \in Conn, d # made' PROVE ToldOf(d)'
  <2>1. d \in Nat /\ (d > made' => d > made) /\ (d <= made' <=> d <= made)
    BY <1>0, <1>1, <1>9
  <2>2. ToldOf(d) /\ ~Making(d) /\ ~Making(d)'
    BY <1>3, <1>9 DEF ToldInv
  <2>3. told'[d] = told[d] /\ registered'[d] = registered[d]
    BY <1>1, <1>4, <1>9
  <2> QED
    BY <2>1, <2>2, <2>3 DEF ToldOf
<1> QED
  BY <1>7, <1>8, <1>9 DEF ToldInv

(* An IO thread runs each connectEstablished it has taken once.            *)
LEMMA ThreadTold ==
  ASSUME TypeInv, TypeInv', numThreads' = numThreads, QueueInv, ToldInv,
         NEW i \in 1 .. numThreads, Thread(i)
  PROVE  QueueInv' /\ ToldInv'
<1>0. TypeOK /\ TypeOK' /\ ServerTypeOK
  BY TypeSplit DEF TypeInv
<1>1. /\ UNCHANGED <<base, made, loopOf, registered>>
      /\ \A c \in Conn : Making(c)' <=> Making(c)
  BY DEF Thread, PollOther, PollReturns, EndDispatch, RunFunctor, ThreadStep, serverVars,
     connVars, Making
<1>2. ASSUME NEW j \in 1 .. numThreads,
             pending'[j] = pending[j], tempRuns'[j] = tempRuns[j], turn'[j] = turn[j]
      PROVE  OnceIn(j)' /\ Waiting(j)' = Waiting(j)
  BY <1>2, QueueStays DEF QueueInv
<1>3. ASSUME NEW j \in 1 .. numThreads, j # i
      PROVE  OnceIn(j)' /\ Waiting(j)' = Waiting(j)
  <2>1. pending'[j] = pending[j] /\ tempRuns'[j] = tempRuns[j] /\ turn'[j] = turn[j]
    BY <1>0, <1>3, QueueTypes DEF Thread, PollOther, PollReturns, EndDispatch, RunFunctor,
       ThreadStep, Pool!PollReturns, Pool!EndDispatch, Pool!RunFunctor, Pool!ThreadStep,
       Pool!ConstructLoop, Pool!PublishLoop, Pool!TestQuit, Pool!EndFunctors, Pool!EndThread,
       Pool!queueVars
  <2> QED
    BY <1>2, <2>1
<1>4. OnceIn(i)
  BY DEF QueueInv
<1>5. CASE ~RunFunctor(i)
  <2>1. told' = told
    BY <1>5 DEF Thread, PollOther, PollReturns, EndDispatch, ThreadStep, serverVars, connVars
  <2>2. OnceIn(i)' /\ Waiting(i)' \subseteq Waiting(i)
    <3>1. CASE EndDispatch(i)
      BY <1>0, <1>4, <3>1, QueueSwapped DEF EndDispatch
    <3>2. CASE Pool!EndFunctors(i) \/ Pool!EndThread(i)
      BY <1>0, <1>4, <3>2, QueueDropped
    <3>3. ASSUME PollOther(i) \/ Pool!ConstructLoop(i) \/ Pool!PublishLoop(i) \/ Pool!TestQuit(i)
          PROVE  OnceIn(i)' /\ Waiting(i)' = Waiting(i)
      <4>1. UNCHANGED <<pending, tempRuns, turn>>
        BY <3>3 DEF PollOther, PollReturns, Pool!PollReturns, Pool!ConstructLoop,
           Pool!PublishLoop, Pool!TestQuit, Pool!queueVars
      <4> QED
        BY <1>2, <4>1
    <3> QED
      BY <1>5, <3>1, <3>2, <3>3 DEF Thread, ThreadStep, Pool!ThreadStep
  <2>3. \A j \in 1 .. numThreads : OnceIn(j)' /\ Waiting(j)' \subseteq Waiting(j)
    BY <1>3, <2>2
  <2> QED
    BY <1>0, <1>1, <2>1, <2>3, NothingTold
<1>6. CASE RunFunctor(i)
  <2>1. PICK c \in Conn : c = tempRuns[i][turn[i]] /\ Tell(c, "onConnection")
    <3>1. tempRuns[i][turn[i]] \in Conn
      BY <1>0, <1>4, <1>6, QueueRun, WaitingIsConn DEF RunFunctor
    <3> QED
      BY <1>6, <3>1 DEF RunFunctor
  <2>2. /\ OnceIn(i)' /\ Waiting(i)' \subseteq Waiting(i)
        /\ c \in Waiting(i) /\ c \notin Waiting(i)'
    BY <1>0, <1>4, <1>6, <2>1, QueueRun DEF RunFunctor
  <2>3. Untold(c) /\ loopOf[c] = i
    BY <2>2 DEF QueueInv
  <2>4. \A j \in 1 .. numThreads : j # i => c \notin Waiting(j)
    BY <2>3 DEF QueueInv
  <2>5. \A j \in 1 .. numThreads :
          OnceIn(j)' /\ Waiting(j)' \subseteq Waiting(j) /\ c \notin Waiting(j)'
    BY <1>3, <2>2, <2>4
  <2>6. numThreads # 0
    BY <1>0, Sizes0
  <2>7. c <= made /\ ~Making(c)' /\ "onConnection" \notin Range(told[c])
    BY <1>1, <2>3 DEF Untold
  <2> QED
    BY <1>0, <1>1, <2>1, <2>5, <2>6, <2>7, ConnectionTold
<1> QED
  BY <1>5, <1>6

(* No step tells the user anything twice.                                  *)
LEMMA ToldStepAll ==
  ASSUME TypeInv, TypeInv', numThreads' = numThreads, ConnInv, QueueInv, ToldInv, [Next]_vars
  PROVE  QueueInv' /\ ToldInv'
<1>0. TypeOK /\ TypeOK' /\ ServerTypeOK
  BY TypeSplit DEF TypeInv
<1>1. ASSUME UNCHANGED <<made, told, loopOf, pending, tempRuns, turn, registered>>,
             \A c \in Conn : Making(c)' <=> Making(c)
      PROVE  QueueInv' /\ ToldInv'
  <2>1. \A i \in 1 .. numThreads : OnceIn(i)' /\ Waiting(i)' = Waiting(i)
    BY <1>1, QueueStays DEF QueueInv
  <2> QED
    BY <1>0, <1>1, <2>1, NothingTold
<1>2. CASE start \/ SpuriousWakeup \/ stop
  <2>1. UNCHANGED <<base, made, told, loopOf, pending, tempRuns, turn, registered>>
    BY <1>2 DEF start, SpuriousWakeup, stop, serverVars, connVars, Pool!start,
       Pool!StartThread, Pool!WaitForLoop, Pool!LoopIsSet, Pool!AllStarted,
       Pool!SpuriousWakeup, Pool!stop, Pool!QuitLoop, Pool!WakeupToQuit, Pool!Join,
       Pool!queueVars
  <2> QED
    BY <1>1, <2>1 DEF Making
<1>3. CASE LeaveLoop \/ DestroyMap \/ BasePollReturns \/ BaseEndDispatch
  <2>1. /\ UNCHANGED <<made, told, loopOf, pending, tempRuns, turn, registered>>
        /\ base \notin MakingStates /\ base' \notin MakingStates
    BY <1>3 DEF LeaveLoop, DestroyMap, BasePollReturns, BaseEndDispatch, poolVars, connVars,
       Pool!Destroy, Pool!queueVars, MakingStates
  <2> QED
    BY <1>1, <2>1 DEF Making, MakingStates
<1>4. CASE EnterMap \/ AddToMap \/ setUser \/ setUpLayerCloseCallback
  <2>1. /\ UNCHANGED <<made, told, loopOf, pending, tempRuns, turn, registered>>
        /\ base \in MakingStates /\ base' \in MakingStates
    BY <1>4 DEF EnterMap, AddToMap, setUser, setUpLayerCloseCallback, poolVars, connVars,
       MakingStates
  <2> QED
    BY <1>1, <2>1 DEF Making, MakingStates
<1>5. CASE Establish
  BY <1>5, EstablishTold
<1>6. CASE Accept
  BY <1>6, AcceptTold
<1>7. ASSUME NEW i \in 1 .. numThreads, Thread(i) PROVE QueueInv' /\ ToldInv'
  BY <1>7, ThreadTold
<1>8. ASSUME NEW l \in Loop, handleClose(l) PROVE QueueInv' /\ ToldInv'
  <2>1. ASSUME NEW c \in Conn, StartClose(l, c) PROVE QueueInv' /\ ToldInv'
    BY <2>1, CloseTold
  <2>2. ASSUME (\E c \in Conn : UseFreed(l, c)) \/ RunCloseCallback(l) \/ removeConnection(l)
        PROVE  QueueInv' /\ ToldInv'
    <3>1. UNCHANGED <<base, made, told, loopOf, pending, tempRuns, turn, registered>>
      BY <2>2 DEF UseFreed, RunCloseCallback, removeConnection, poolVars, connVars
    <3> QED
      BY <1>1, <3>1 DEF Making
  <2> QED
    BY <1>8, <2>1, <2>2 DEF handleClose
<1>9. ASSUME (\E c \in Conn : PeerGoes(c)) \/ UNCHANGED vars PROVE QueueInv' /\ ToldInv'
  <2>1. UNCHANGED <<base, made, told, loopOf, pending, tempRuns, turn, registered>>
    BY <1>9 DEF PeerGoes, vars, poolVars, connVars
  <2> QED
    BY <1>1, <2>1 DEF Making
<1> QED
  BY <1>2, <1>3, <1>4, <1>5, <1>6, <1>7, <1>8, <1>9 DEF Next, newConnection

LEMMA ToldFollows ==
  ASSUME TypeInv, ToldInv
  PROVE  ToldInOrder
  BY DEF ToldInOrder, ToldInv, ToldOf

(* The user is told of a connection that it is there at most once and that *)
(* it is closed at most once, whichever threads connectEstablished and     *)
(* handleClose run in; when the base loop serves the connections itself    *)
(* they are told in this order (src/src/TcpServer.cc, newConnection).      *)
THEOREM UserIsToldOnce == Spec => []ToldInOrder
<1> DEFINE AllInv == OpenInv /\ QueueInv /\ ToldInv
<1>1. ASSUME Init PROVE QueueInv /\ ToldInv
  <2>1. /\ \A i \in 1 .. numThreads : pending[i] = <<>> /\ tempRuns[i] = <<>> /\ turn[i] = 1
        /\ made = 0 /\ base = "poll" /\ \A c \in Conn : told[c] = <<>> /\ ~registered[c]
    BY <1>1 DEF Init, Pool!Init, Pool!Thread
  <2>2. \A i \in 1 .. numThreads : Rest(i) = {} /\ Waiting(i) = {} /\ OnceIn(i)
    BY <2>1, EmptyQueue DEF Rest, Waiting, OnceIn
  <2>3. \A c \in Conn : ~Making(c) /\ ~(c <= made)
    BY <2>1, MaxConnsAssumption DEF Making, Conn, MaxConnsAssumption
  <2>4. ToldInv
    BY <2>1, <2>3, EmptyQueue DEF ToldInv, ToldOf
  <2> QED
    BY <2>2, <2>4 DEF QueueInv
<1>2. ASSUME AllInv, [Next]_vars PROVE AllInv'
  <2>1. TypeInv' /\ numThreads' = numThreads
    BY <1>2, TypeStep DEF OpenInv, TypeInv
  <2>2. OpenInv'
    BY <1>2, <2>1, BaseInvStep, ConnInvStep, KeptInvStep DEF OpenInv
  <2>3. QueueInv' /\ ToldInv'
    BY <1>2, <2>1, ToldStepAll DEF OpenInv
  <2> QED
    BY <2>2, <2>3
<1>3. ASSUME Init PROVE OpenInv
  BY <1>3, OpenInvInitially
<1>4. AllInv => ToldInOrder
  BY ToldFollows DEF OpenInv
<1>5. Init => AllInv
  BY <1>1, <1>3
<1>6. AllInv /\ [Next]_vars => AllInv'
  BY <1>2
<1> HIDE DEF AllInv
<1> QED
  BY <1>4, <1>5, <1>6, PTL DEF Spec
==============================================================================
