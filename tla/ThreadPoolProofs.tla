-------------------------- MODULE ThreadPoolProofs ---------------------------
(***************************************************************************)
(* Proofs that, for any number of threads and tasks, a ThreadPool starts   *)
(* its tasks in order and once, and no worker sleeps on work.              *)
(***************************************************************************)
EXTENDS ThreadPool, SequenceTheorems, FiniteSetTheorems, TLAPS

-----------------------------------------------------------------------------
(* The state keeps its types.                                              *)

LEMMA PutType ==
  ASSUME TypeOK, NEW t \in Task, put(t)
  PROVE  queue' \in Seq(Task) /\ added' \in Seq(Task) /\ pc' \in
           [Workers -> {"none", "failed", "take", "wait", "run"}]
<1>1. queue' \in Seq(Task) /\ added' \in Seq(Task)
  BY AppendProperties DEF put, TypeOK
<1>2. pc' \in [Workers -> {"none", "failed", "take", "wait", "run"}]
  BY DEF put, notify, In, TypeOK
<1> QED
  BY <1>1, <1>2

LEMMA TypeStep == PoolInv /\ [Next]_vars => TypeOK'
<1> SUFFICES ASSUME TypeOK, OneWorkerPerTask, [Next]_vars PROVE TypeOK'
  BY DEF PoolInv
<1> USE DEF TypeOK, queueVars
<1>1. CASE StartThread
  <2>1. started' \in 1 .. numThreads
    BY <1>1, NumThreadsAssumption DEF StartThread, NumThreadsAssumption
  <2>2. PICK label \in {"take", "failed"} : pc' = [pc EXCEPT ![started'] = label]
    BY <1>1 DEF StartThread
  <2>3. pc' \in [Workers -> {"none", "failed", "take", "wait", "run"}]
    BY <2>1, <2>2
  <2> QED
    BY <1>1, <2>1, <2>3 DEF StartThread
<1>2. CASE StartReturns
  BY <1>2 DEF StartReturns
<1>3. ASSUME NEW t \in Task, addTask(t) PROVE TypeOK'
  <2>1. CASE started = 0
    BY <1>3, <2>1 DEF addTask
  <2>2. CASE started # 0
    BY <1>3, <2>2, PutType DEF addTask, put
  <2> QED
    BY <2>1, <2>2
<1>4. ASSUME NEW w \in Workers, WaitForTask(w) PROVE TypeOK'
  BY <1>4 DEF WaitForTask
<1>5. ASSUME NEW w \in Workers, take(w) PROVE TypeOK'
  <2>1. Head(queue) \in Task /\ Tail(queue) \in Seq(Task)
    BY <1>5, HeadTailProperties DEF take
  <2>2. Append(taken, Head(queue)) \in Seq(Task)
    BY <2>1, AppendProperties
  <2> QED
    BY <1>5, <2>1, <2>2 DEF take
<1>6. ASSUME NEW w \in Workers, TaskReturns(w) PROVE TypeOK'
  <2>1. doing[w] \in Task
    BY <1>6 DEF TaskReturns, OneWorkerPerTask
  <2> QED
    BY <1>6, <2>1 DEF TaskReturns
<1>7. ASSUME NEW w \in Workers, SpuriousWakeup(w) PROVE TypeOK'
  BY <1>7 DEF SpuriousWakeup
<1>8. CASE UNCHANGED vars
  BY <1>8 DEF vars
<1> QED
  BY <1>1, <1>2, <1>3, <1>4, <1>5, <1>6, <1>7, <1>8 DEF Next

-----------------------------------------------------------------------------
(* Sleeping workers.                                                       *)

LEMMA WorkersFinite ==
  IsFiniteSet(Workers) /\ \A label : IsFiniteSet(In(label)) /\ Cardinality(In(label)) \in Nat
<1>1. IsFiniteSet(Workers)
  BY FS_Interval, NumThreadsAssumption DEF Workers, NumThreadsAssumption
<1>2. \A label : IsFiniteSet(In(label)) /\ Cardinality(In(label)) \in Nat
  BY <1>1, FS_Subset, FS_CardinalityType DEF In
<1> QED
  BY <1>1, <1>2

(* A worker that was not about to take comes to do so.                     *)
LEMMA OneMoreTakes ==
  ASSUME TypeOK, NEW w \in Workers, pc[w] # "take", pc' = [pc EXCEPT ![w] = "take"]
  PROVE  /\ Cardinality(In("take")') = Cardinality(In("take")) + 1
         /\ In("wait")' \subseteq In("wait")
<1>1. In("take")' = In("take") \cup {w} /\ w \notin In("take")
  BY DEF In, TypeOK
<1>2. In("wait")' \subseteq In("wait")
  BY DEF In, TypeOK
<1> QED
  BY <1>1, <1>2, WorkersFinite, FS_AddElement

LEMMA SleepStep == PoolInv /\ [Next]_vars => NobodySleepsOnWork'
<1> SUFFICES ASSUME TypeOK, NotCreatedYet, NobodySleepsOnWork, [Next]_vars
             PROVE  NobodySleepsOnWork'
  BY DEF PoolInv
<1>0. /\ Len(queue) \in Nat /\ Cardinality(In("take")) \in Nat
      /\ started \in Nat /\ queue \in Seq(Task)
  BY WorkersFinite, LenProperties, NumThreadsAssumption DEF TypeOK, NumThreadsAssumption
<1>1. CASE StartThread
  <2>1. started' \in Workers /\ pc[started'] = "none"
    BY <1>0, <1>1, NumThreadsAssumption
      DEF StartThread, Workers, NotCreatedYet, NumThreadsAssumption
  <2>2. PICK label \in {"take", "failed"} : pc' = [pc EXCEPT ![started'] = label]
    BY <1>1 DEF StartThread
  <2>3. CASE label = "take"
    <3>1. pc[started'] # "take" /\ pc' = [pc EXCEPT ![started'] = "take"]
      BY <2>1, <2>2, <2>3
    <3>2. /\ Cardinality(In("take")') = Cardinality(In("take")) + 1
          /\ In("wait")' \subseteq In("wait")
      BY <2>1, <3>1, OneMoreTakes
    <3>3. queue' = queue
      BY <1>1 DEF StartThread, queueVars
    <3> QED
      BY <1>0, <3>2, <3>3 DEF NobodySleepsOnWork
  <2>4. CASE label = "failed"
    <3>1. In("take")' = In("take") /\ In("wait")' = In("wait")
      BY <2>1, <2>2, <2>4 DEF In, TypeOK
    <3> QED
      BY <1>1, <3>1 DEF NobodySleepsOnWork, StartThread, queueVars
  <2> QED
    BY <2>2, <2>3, <2>4
<1>2. ASSUME NEW t \in Task, addTask(t) PROVE NobodySleepsOnWork'
  <2>1. CASE started = 0
    BY <1>2, <2>1 DEF addTask, NobodySleepsOnWork, In, queueVars
  <2>2. CASE started # 0
    <3>1. put(t)
      BY <1>2, <2>2 DEF addTask
    <3>2. Len(queue') = Len(queue) + 1
      BY <1>0, <3>1, AppendProperties DEF put
    <3>3. CASE In("wait") = {}
      BY <3>1, <3>3 DEF put, notify, NobodySleepsOnWork, In
    <3>4. CASE In("wait") # {}
      <4>1. PICK w \in In("wait") : pc' = [pc EXCEPT ![w] = "take"]
        BY <3>1, <3>4 DEF put, notify
      <4>2. w \in Workers /\ pc[w] # "take"
        BY DEF In
      <4>3. Cardinality(In("take")') = Cardinality(In("take")) + 1
        BY <4>1, <4>2, OneMoreTakes
      <4> QED
        BY <1>0, <3>2, <3>4, <4>3 DEF NobodySleepsOnWork
    <3> QED
      BY <3>3, <3>4
  <2> QED
    BY <2>1, <2>2
<1>3. ASSUME NEW w \in Workers, WaitForTask(w) PROVE NobodySleepsOnWork'
  <2>1. Len(queue') = 0
    BY <1>3, EmptySeq DEF WaitForTask, queueVars
  <2>2. Cardinality(In("take")') \in Nat
    <3>1. In("take")' \subseteq Workers
      BY DEF In
    <3> QED
      BY <3>1, WorkersFinite, FS_Subset, FS_CardinalityType
  <2> QED
    BY <2>1, <2>2 DEF NobodySleepsOnWork
<1>4. ASSUME NEW w \in Workers, take(w) PROVE NobodySleepsOnWork'
  <2>1. Len(queue') = Len(queue) - 1
    BY <1>0, <1>4, HeadTailProperties DEF take
  <2>2. In("take")' = In("take") \ {w} /\ w \in In("take") /\ In("wait")' = In("wait")
    BY <1>4 DEF In, take, TypeOK
  <2>3. Cardinality(In("take")') = Cardinality(In("take")) - 1
    BY <2>2, WorkersFinite, FS_RemoveElement
  <2> QED
    BY <1>0, <2>1, <2>2, <2>3 DEF NobodySleepsOnWork
<1>5. ASSUME NEW w \in Workers, TaskReturns(w) \/ SpuriousWakeup(w)
      PROVE  NobodySleepsOnWork'
  <2>1. pc[w] # "take" /\ pc' = [pc EXCEPT ![w] = "take"] /\ queue' = queue
    BY <1>5 DEF TaskReturns, SpuriousWakeup, queueVars
  <2>2. /\ Cardinality(In("take")') = Cardinality(In("take")) + 1
        /\ In("wait")' \subseteq In("wait")
    BY <2>1, OneMoreTakes
  <2> QED
    BY <1>0, <2>1, <2>2 DEF NobodySleepsOnWork
<1>6. CASE StartReturns \/ UNCHANGED vars
  BY <1>6 DEF StartReturns, vars, queueVars, NobodySleepsOnWork, In
<1> QED
  BY <1>1, <1>2, <1>3, <1>4, <1>5, <1>6 DEF Next

LEMMA NotCreatedStep == PoolInv /\ [Next]_vars => NotCreatedYet'
<1> SUFFICES ASSUME TypeOK, NotCreatedYet, [Next]_vars PROVE NotCreatedYet'
  BY DEF PoolInv
<1> USE DEF NotCreatedYet, TypeOK, queueVars
<1>0. started \in Nat
  BY NumThreadsAssumption DEF NumThreadsAssumption
<1>1. CASE StartThread
  <2>1. PICK label : pc' = [pc EXCEPT ![started'] = label]
    BY <1>1 DEF StartThread
  <2> QED
    BY <1>0, <1>1, <2>1 DEF StartThread, Workers
<1>2. ASSUME NEW t \in Task, addTask(t) PROVE NotCreatedYet'
  BY <1>2 DEF addTask, put, notify, In
<1>3. ASSUME NEW w \in Workers,
             WaitForTask(w) \/ take(w) \/ TaskReturns(w) \/ SpuriousWakeup(w)
      PROVE  NotCreatedYet'
  BY <1>3 DEF WaitForTask, take, TaskReturns, SpuriousWakeup
<1>4. CASE StartReturns \/ UNCHANGED vars
  BY <1>4 DEF StartReturns, vars
<1> QED
  BY <1>1, <1>2, <1>3, <1>4 DEF Next

-----------------------------------------------------------------------------
(* Each task in one place.                                                 *)

LEMMA RangeOfAppend ==
  ASSUME NEW q \in Seq(Task), NEW t \in Task
  PROVE  Range(Append(q, t)) = Range(q) \cup {t}
<1>1. /\ Append(q, t) \in Seq(Task) /\ Len(Append(q, t)) = Len(q) + 1 /\ Len(q) \in Nat
      /\ \A i \in 1 .. Len(q) : Append(q, t)[i] = q[i]
      /\ Append(q, t)[Len(q) + 1] = t
  BY AppendProperties, LenProperties
<1>2. DOMAIN Append(q, t) = 1 .. Len(q) + 1 /\ DOMAIN q = 1 .. Len(q)
  BY <1>1, LenProperties
<1> QED
  BY <1>1, <1>2 DEF Range

(* What is put at the end and taken from the front of the queue.           *)
LEMMA QueuePut ==
  ASSUME queue \in Seq(Task), NEW t \in Task
  PROVE  \A i \in DOMAIN Append(queue, t) :
           \/ i \in DOMAIN queue /\ Append(queue, t)[i] = queue[i]
           \/ i = Len(queue) + 1 /\ i \notin DOMAIN queue /\ Append(queue, t)[i] = t
<1>1. /\ Len(Append(queue, t)) = Len(queue) + 1 /\ Len(queue) \in Nat
      /\ \A i \in 1 .. Len(queue) : Append(queue, t)[i] = queue[i]
      /\ Append(queue, t)[Len(queue) + 1] = t
      /\ Append(queue, t) \in Seq(Task)
  BY AppendProperties, LenProperties
<1>2. DOMAIN Append(queue, t) = 1 .. Len(queue) + 1 /\ DOMAIN queue = 1 .. Len(queue)
  BY <1>1, LenProperties
<1> QED
  BY <1>1, <1>2

LEMMA QueueTake ==
  ASSUME queue \in Seq(Task), queue # <<>>
  PROVE  /\ 1 \in DOMAIN queue /\ Head(queue) = queue[1]
         /\ \A i \in DOMAIN Tail(queue) :
              /\ i + 1 \in DOMAIN queue /\ i + 1 # 1 /\ i \in Nat
              /\ Tail(queue)[i] = queue[i + 1]
<1>1. Len(queue) \in Nat \ {0} /\ DOMAIN queue = 1 .. Len(queue)
  BY LenProperties, EmptySeq
<1>2. /\ Head(queue) = queue[1] /\ Tail(queue) \in Seq(Task)
      /\ Len(Tail(queue)) = Len(queue) - 1
      /\ \A i \in 1 .. Len(Tail(queue)) : Tail(queue)[i] = queue[i + 1]
  BY HeadTailProperties
<1>3. DOMAIN Tail(queue) = 1 .. Len(queue) - 1
  BY <1>2, LenProperties
<1> QED
  BY <1>1, <1>2, <1>3

PlaceInv == OneWorkerPerTask /\ QueueUntouched /\ AllAdded

LEMMA PlaceStep == PoolInv /\ [Next]_vars => PlaceInv'
<1> SUFFICES ASSUME TypeOK, NotCreatedYet, OneWorkerPerTask, QueueUntouched, AllAdded,
                    InOrder, [Next]_vars
             PROVE  PlaceInv'
  BY DEF PoolInv
<1>1. CASE StartThread
  <2>1. started' \in Workers /\ pc[started'] = "none"
    BY <1>1, NumThreadsAssumption
      DEF StartThread, Workers, NotCreatedYet, NumThreadsAssumption, TypeOK
  <2>2. PICK label \in {"take", "failed"} : pc' = [pc EXCEPT ![started'] = label]
    BY <1>1 DEF StartThread
  <2>3. \A w \in Workers : pc'[w] = "run" <=> pc[w] = "run"
    BY <2>1, <2>2 DEF TypeOK
  <2>4. UNCHANGED <<doing, queue, added, finished>> /\ In("run")' = In("run")
    BY <1>1, <2>3 DEF StartThread, queueVars, In
  <2> QED
    BY <2>3, <2>4 DEF PlaceInv, OneWorkerPerTask, QueueUntouched, AllAdded
<1>2. ASSUME NEW t \in Task, addTask(t) PROVE PlaceInv'
  <2>1. CASE started = 0
    <3>1. /\ finished' = finished \cup {t} /\ t \notin Range(added)
          /\ UNCHANGED <<pc, doing, queue, added>>
      BY <1>2, <2>1 DEF addTask, queueVars, Fresh
    <3>2. In("run")' = In("run")
      BY <3>1 DEF In
    <3> QED
      BY <3>1, <3>2 DEF PlaceInv, OneWorkerPerTask, QueueUntouched, AllAdded
  <2>2. CASE started # 0
    <3>1. /\ queue' = Append(queue, t) /\ added' = Append(added, t)
          /\ t \notin Range(added) /\ t \notin finished
          /\ UNCHANGED <<doing, finished>>
      BY <1>2, <2>2 DEF addTask, put, Fresh
    <3>2. \A w \in Workers : pc'[w] = "run" <=> pc[w] = "run"
      BY <1>2, <2>2 DEF addTask, put, notify, In, TypeOK
    <3>3. In("run")' = In("run")
      BY <3>2 DEF In
    <3>4. Range(added') = Range(added) \cup {t}
      BY <3>1, RangeOfAppend DEF TypeOK
    <3>5. OneWorkerPerTask'
      BY <3>1, <3>2, <3>3 DEF OneWorkerPerTask
    <3>6. \A i \in DOMAIN queue' :
            \/ i \in DOMAIN queue /\ queue'[i] = queue[i]
            \/ i = Len(queue) + 1 /\ i \notin DOMAIN queue /\ queue'[i] = t
      BY <3>1, QueuePut DEF TypeOK
    <3>7. t \notin Range(doing)
      BY <3>1, NoTaskAssumption
        DEF Range, AllAdded, OneWorkerPerTask, In, TypeOK, NoTaskAssumption
    <3>8. QueueUntouched'
      BY <3>1, <3>6, <3>7 DEF QueueUntouched, AllAdded
    <3>9. AllAdded'
      BY <3>1, <3>3, <3>4, <3>6 DEF AllAdded
    <3> QED
      BY <3>5, <3>8, <3>9 DEF PlaceInv
  <2> QED
    BY <2>1, <2>2
<1>3. ASSUME NEW w \in Workers, WaitForTask(w) \/ SpuriousWakeup(w) PROVE PlaceInv'
  <2>1. \A v \in Workers : pc'[v] = "run" <=> pc[v] = "run"
    BY <1>3 DEF WaitForTask, SpuriousWakeup, TypeOK
  <2>2. UNCHANGED <<doing, queue, added, finished>> /\ In("run")' = In("run")
    BY <1>3, <2>1 DEF WaitForTask, SpuriousWakeup, queueVars, In
  <2> QED
    BY <2>1, <2>2 DEF PlaceInv, OneWorkerPerTask, QueueUntouched, AllAdded
<1>4. ASSUME NEW w \in Workers, take(w) PROVE PlaceInv'
  <2>0. /\ 1 \in DOMAIN queue /\ Head(queue) = queue[1]
        /\ \A i \in DOMAIN Tail(queue) :
             /\ i + 1 \in DOMAIN queue /\ i + 1 # 1 /\ i \in Nat
             /\ Tail(queue)[i] = queue[i + 1]
    BY <1>4, QueueTake DEF take, TypeOK
  <2>1. /\ queue' = Tail(queue) /\ UNCHANGED <<added, finished>>
        /\ doing' = [doing EXCEPT ![w] = queue[1]] /\ pc' = [pc EXCEPT ![w] = "run"]
        /\ pc[w] = "take"
    BY <1>4, <2>0 DEF take
  <2>2. queue[1] \in Task /\ queue[1] # NoTask /\ queue[1] \in Range(added)
    BY <2>0, ElementOfSeq, LenProperties, NoTaskAssumption
      DEF TypeOK, AllAdded, NoTaskAssumption
  <2>3. \A v \in Workers : doing[v] # queue[1]
    BY <2>0 DEF QueueUntouched, Range, TypeOK
  <2>4. OneWorkerPerTask'
    BY <2>0, <2>1, <2>2, <2>3 DEF OneWorkerPerTask, QueueUntouched, In, TypeOK
  <2>5. \A x \in Range(doing') : x \in Range(doing) \/ x = queue[1]
    BY <2>1 DEF Range, TypeOK
  <2>6. QueueUntouched'
    <3>1. \A i, j \in DOMAIN queue' : queue'[i] = queue'[j] => i = j
      BY <2>0, <2>1 DEF QueueUntouched
    <3>2. ASSUME NEW i \in DOMAIN queue' PROVE queue'[i] \notin finished' \cup Range(doing')
      <4>1. i + 1 \in DOMAIN queue /\ i + 1 # 1 /\ queue'[i] = queue[i + 1]
        BY <2>0, <2>1
      <4> QED
        BY <2>0, <2>1, <2>5, <4>1 DEF QueueUntouched
    <3> QED
      BY <3>1, <3>2 DEF QueueUntouched
  <2>7. AllAdded'
    BY <2>0, <2>1, <2>2 DEF AllAdded, In, TypeOK
  <2> QED
    BY <2>4, <2>6, <2>7 DEF PlaceInv
<1>5. ASSUME NEW w \in Workers, TaskReturns(w) PROVE PlaceInv'
  <2>1. /\ finished' = finished \cup {doing[w]} /\ pc[w] = "run"
        /\ doing' = [doing EXCEPT ![w] = NoTask] /\ pc' = [pc EXCEPT ![w] = "take"]
        /\ UNCHANGED <<queue, added>>
    BY <1>5 DEF TaskReturns, queueVars
  <2>2. OneWorkerPerTask'
    BY <2>1 DEF OneWorkerPerTask, In, TypeOK
  <2>3. \A x \in Range(doing') : x \in Range(doing) \/ x = NoTask
    BY <2>1 DEF Range, TypeOK
  <2>4. \A i \in DOMAIN queue : queue[i] # NoTask
    BY ElementOfSeq, LenProperties, NoTaskAssumption DEF TypeOK, NoTaskAssumption
  <2>5. doing[w] \in Range(doing)
    BY DEF Range, TypeOK
  <2>6. QueueUntouched'
    BY <2>1, <2>3, <2>4, <2>5 DEF QueueUntouched
  <2>7. AllAdded'
    BY <2>1 DEF AllAdded, In, TypeOK
  <2> QED
    BY <2>2, <2>6, <2>7 DEF PlaceInv
<1>6. CASE StartReturns \/ UNCHANGED vars
  <2>1. UNCHANGED <<pc, doing, queue, added, finished>>
    BY <1>6 DEF StartReturns, vars, queueVars
  <2> QED
    BY <2>1 DEF PlaceInv, OneWorkerPerTask, QueueUntouched, AllAdded, In
<1> QED
  BY <1>1, <1>2, <1>3, <1>4, <1>5, <1>6 DEF Next

-----------------------------------------------------------------------------
(* Order.                                                                  *)

LEMMA OrderStep == PoolInv /\ [Next]_vars => InOrder' /\ [TQ!Next]_(TQ!vars)
<1> SUFFICES ASSUME TypeOK, InOrder, [Next]_vars
             PROVE  InOrder' /\ (TQ!Next \/ UNCHANGED TQ!vars)
  BY DEF PoolInv
<1>0. /\ queue \in Seq(Task) /\ added \in Seq(Task) /\ taken \in Seq(Task)
      /\ added = taken \o queue
  BY DEF TypeOK, InOrder
<1>1. CASE UNCHANGED queueVars
  BY <1>0, <1>1 DEF queueVars, InOrder, TQ!vars
<1>2. ASSUME NEW t \in Task, put(t) PROVE InOrder' /\ TQ!Next
  <2>1. queue' = Append(queue, t) /\ added' = Append(added, t) /\ taken' = taken
    BY <1>2 DEF put
  <2>2. <<t>> \in Seq(Task)
    OBVIOUS
  <2>3. (taken \o queue) \o <<t>> = taken \o (queue \o <<t>>)
    BY <1>0, <2>2, ConcatAssociative
  <2>4. Append(queue, t) = queue \o <<t>> /\ Append(added, t) = added \o <<t>>
    BY <1>0, AppendIsConcat
  <2>5. InOrder'
    BY <1>0, <2>1, <2>3, <2>4 DEF InOrder
  <2>6. TQ!Submit(t)
    BY <2>1 DEF TQ!Submit
  <2> QED
    BY <2>5, <2>6 DEF TQ!Next
<1>3. ASSUME NEW w \in Workers, take(w) PROVE InOrder' /\ TQ!Next
  <2>1. /\ queue # <<>> /\ queue' = Tail(queue)
        /\ taken' = Append(taken, Head(queue)) /\ added' = added
    BY <1>3 DEF take
  <2>2. /\ Head(queue) \in Task /\ Tail(queue) \in Seq(Task)
        /\ queue = <<Head(queue)>> \o Tail(queue)
    BY <1>0, <2>1, HeadTailProperties, ConcatProperties, SeqEqual
  <2>3. <<Head(queue)>> \in Seq(Task)
    BY <2>2
  <2>4. (taken \o <<Head(queue)>>) \o Tail(queue) = taken \o queue
    BY <1>0, <2>2, <2>3, ConcatAssociative
  <2>5. Append(taken, Head(queue)) = taken \o <<Head(queue)>>
    BY <1>0, <2>2, AppendIsConcat
  <2>6. InOrder'
    BY <1>0, <2>1, <2>4, <2>5 DEF InOrder
  <2>7. Len(taken) \in Nat /\ Len(queue) \in Nat \ {0}
    BY <1>0, <2>1, LenProperties, EmptySeq
  <2>8. Len(taken) < Len(added) /\ added[Len(taken) + 1] = queue[1] /\ Head(queue) = queue[1]
    BY <1>0, <2>7, ConcatProperties
  <2>9. TQ!Execute
    BY <2>1, <2>8 DEF TQ!Execute
  <2> QED
    BY <2>6, <2>9 DEF TQ!Next
<1>4. CASE StartThread \/ StartReturns \/ UNCHANGED vars
  BY <1>1, <1>4 DEF StartThread, StartReturns, vars
<1>5. ASSUME NEW t \in Task, addTask(t) PROVE UNCHANGED queueVars \/ put(t)
  BY <1>5 DEF addTask
<1>6. ASSUME NEW w \in Workers, WaitForTask(w) \/ TaskReturns(w) \/ SpuriousWakeup(w)
      PROVE  UNCHANGED queueVars
  BY <1>6 DEF WaitForTask, TaskReturns, SpuriousWakeup
<1> QED
  BY <1>1, <1>2, <1>3, <1>4, <1>5, <1>6 DEF Next

-----------------------------------------------------------------------------
(* The theorems.                                                           *)

LEMMA InitPool == Init => PoolInv
<1> SUFFICES ASSUME Init PROVE PoolInv
  OBVIOUS
<1> USE DEF Init
<1>1. TypeOK
  <2>1. 0 \in 0 .. numThreads
    BY NumThreadsAssumption DEF NumThreadsAssumption
  <2>2. <<>> \in Seq(Task)
    BY EmptySeq
  <2> QED
    BY <2>1, <2>2 DEF TypeOK
<1>2. NotCreatedYet /\ NobodySleepsOnWork
  BY DEF NotCreatedYet, NobodySleepsOnWork, In
<1>3. OneWorkerPerTask /\ AllAdded /\ QueueUntouched
  BY EmptySeq DEF OneWorkerPerTask, AllAdded, QueueUntouched, In
<1>4. InOrder
  BY EmptySeq, ConcatEmptySeq DEF InOrder
<1> QED
  BY <1>1, <1>2, <1>3, <1>4 DEF PoolInv

LEMMA PoolInvariant == SafeSpec => []PoolInv
<1>1. PoolInv /\ [Next]_vars => PoolInv'
  BY TypeStep, NotCreatedStep, SleepStep, PlaceStep, OrderStep DEF PoolInv, PlaceInv
<1> QED
  BY InitPool, <1>1, PTL DEF SafeSpec

(* The fields of the pool and of its queue keep their types.               *)
THEOREM TypeCorrect == SafeSpec => []TypeOK
<1>1. PoolInv => TypeOK
  BY DEF PoolInv
<1> QED
  BY <1>1, PoolInvariant, PTL

(* However many threads and tasks there are, and whatever threads wake up  *)
(* without a signal, put signals often enough.                             *)
THEOREM NoSleeper == SafeSpec => []NobodySleepsOnWork
<1>1. PoolInv => NobodySleepsOnWork
  BY DEF PoolInv
<1> QED
  BY <1>1, PoolInvariant, PTL

(* No task is run by two workers, nor twice by one.                        *)
THEOREM OneWorker == SafeSpec => []OneWorkerPerTask
<1>1. PoolInv => OneWorkerPerTask
  BY DEF PoolInv
<1> QED
  BY <1>1, PoolInvariant, PTL

(* The workers start the tasks in the order in which addTask put them into *)
(* the queue, each of them once.                                           *)
THEOREM PoolRefinesQueue == SafeSpec => StartsInOrder
<1>1. Init => TQ!Init
  BY DEF Init, TQ!Init
<1> QED
  BY <1>1, OrderStep, PoolInvariant, PTL DEF SafeSpec, StartsInOrder, TQ!SafeSpec

=============================================================================
