----------------------- MODULE SimpleThreadPoolProof -----------------------
(***************************************************************************)
(* What holds of SimpleThreadPool for every number of threads and jobs and *)
(* every queue length.  The invariant of the pool is the conjunction       *)
(*   TypeOK /\ QueueIsList /\ JobInOneHand /\ CloseInOrder :               *)
(* none of the four is inductive alone.                                    *)
(***************************************************************************)
EXTENDS SimpleThreadPool, SequenceTheorems, TLAPS

PoolInv == TypeOK /\ QueueIsList /\ JobInOneHand /\ CloseInOrder

USE ThreadsAssumption, QueueAssumption DEF ThreadsAssumption, QueueAssumption, ProducerAt, WorkerAt, DestroyerAt

\* The initial pool, before any call (lines 9-63), satisfies the invariant.
LEMMA PoolInvInit == Init => PoolInv
<1> SUFFICES ASSUME Init PROVE PoolInv
  OBVIOUS
<1>0. fifo \in Seq(Jobs) /\ Len(fifo) = 0 /\ \A i \in 1 .. Len(fifo) : FALSE
  BY EmptySeq DEF Init
<1>1. TypeOK
  BY <1>0 DEF Init, TypeOK, Threads
<1>2. QueueIsList
  BY <1>0 DEF Init, QueueIsList
<1>3. JobInOneHand
  BY <1>0 DEF Init, JobInOneHand, Threads
<1>4. CloseInOrder
  BY DEF Init, CloseInOrder, Threads
<1>5. QED
  BY <1>1, <1>2, <1>3, <1>4 DEF PoolInv

\* Appending a job to the list (lines 86-99) keeps the invariant.
LEMMA EnqueueStep ==
    ASSUME PoolInv, NEW p \in Producers, AddEnqueue(p)
    PROVE  PoolInv'
<1> DEFINE j == job[p]
<1> USE DEF PoolInv
<1>1. /\ j \in Jobs /\ st[j] = "offered" /\ pc[p] = "add"
      /\ cur # QueueMax /\ ~queueClose /\ ~poolClose /\ alive
  BY DEF AddEnqueue, AddAllowed, Adding, Closed, TypeOK, JobInOneHand
<1>2. /\ fifo' = Append(fifo, j) /\ fifo' \in Seq(Jobs)
      /\ Len(fifo') = Len(fifo) + 1
      /\ \A i \in 1 .. Len(fifo) : fifo'[i] = fifo[i]
      /\ fifo'[Len(fifo) + 1] = j
      /\ Len(fifo) \in Nat
  BY <1>1, AppendProperties, LenProperties DEF AddEnqueue, TypeOK
<1>3. \A i \in 1 .. Len(fifo) : fifo[i] \in Jobs /\ fifo[i] # j
  BY <1>1, ElementOfSeq DEF TypeOK, JobInOneHand
<1>4. TypeOK'
  BY <1>1, <1>2 DEF AddEnqueue, TypeOK, Threads, Goto, Holds, Mark, WakeWorkers, closeVars
<1>5. QueueIsList'
  <2>1. cur' = Len(fifo') /\ cur' <= QueueMax
    BY <1>1, <1>2 DEF AddEnqueue, QueueIsList, TypeOK
  <2>2. fifo' # << >> /\ tail' = j /\ next'[j] = NULL
    BY <1>1, <1>2, AppendProperties DEF AddEnqueue, TypeOK, QueueIsList
  <2>3. CASE fifo = << >>
    BY <1>1, <1>2, <2>1, <2>2, <2>3 DEF AddEnqueue, QueueIsList, TypeOK
  <2>4. CASE fifo # << >>
    <3>1. Len(fifo) >= 1 /\ head = fifo[1] /\ tail = fifo[Len(fifo)] /\ head # NULL
      BY <1>2, <1>3, <2>4, EmptySeq DEF QueueIsList, TypeOK
    <3>2. head' = head /\ next' = [next EXCEPT ![j] = NULL, ![tail] = j]
      BY <3>1 DEF AddEnqueue
    <3>3. next'[fifo[Len(fifo)]] = j
      BY <1>3, <3>1, <3>2 DEF TypeOK
    <3>4. ASSUME NEW i \in 1 .. Len(fifo) - 1 PROVE next'[fifo[i]] = fifo[i + 1]
      <4>1. i \in 1 .. Len(fifo) /\ i # Len(fifo) /\ i + 1 \in 1 .. Len(fifo)
        BY <1>2
      <4>2. fifo[i] # tail /\ fifo[i] # j
        BY <1>2, <1>3, <3>1, <4>1 DEF JobInOneHand
      <4>3. next[fifo[i]] = fifo[i + 1] /\ fifo[i] \in Jobs
        BY <1>3, <4>1 DEF QueueIsList
      <4>4. QED
        BY <3>2, <4>2, <4>3 DEF TypeOK
    <3>5. \A i \in 1 .. Len(fifo') - 1 : next'[fifo'[i]] = fifo'[i + 1]
      BY <1>2, <3>3, <3>4
    <3>6. head' = fifo'[1] /\ tail' = fifo'[Len(fifo')] /\ next'[tail'] = NULL
      BY <1>2, <2>2, <3>1, <3>2
    <3>7. QED
      BY <2>1, <2>2, <3>5, <3>6 DEF QueueIsList
  <2>5. QED
    BY <2>3, <2>4
<1>6. JobInOneHand'
  <2>1. pc' = [pc EXCEPT ![p] = "idle"] /\ job' = [job EXCEPT ![p] = NULL]
        /\ st' = [st EXCEPT ![j] = "queued"]
    BY DEF AddEnqueue, Goto, Holds, Mark
  <2>2. \A t \in Producers \cup Workers : t # p => job[t] # j
    BY <1>1 DEF JobInOneHand
  <2>3. \A q \in Producers : pc'[q] = "add" => job'[q] # NULL /\ st'[job'[q]] = "offered"
    BY <2>1, <2>2 DEF JobInOneHand, TypeOK, Threads
  <2>4. \A w \in Workers : pc'[w] = "run" => job'[w] # NULL /\ st'[job'[w]] = "running"
    BY <2>1, <2>2 DEF JobInOneHand, TypeOK, Threads
  <2>5. \A t \in Producers \cup Workers : job'[t] # NULL =>
          /\ pc'[t] \in {"add", "run"}
          /\ \A u \in Producers \cup Workers : job'[u] = job'[t] => u = t
    BY <2>1, <2>2 DEF JobInOneHand, TypeOK, Threads
  <2>6. \A k \in Jobs : st'[k] = "running" =>
          \E w \in Workers : pc'[w] = "run" /\ job'[w] = k
    BY <2>1, <2>2 DEF JobInOneHand, TypeOK, Threads
  <2>7. \A k \in Jobs : st'[k] = "queued" => \E i \in 1 .. Len(fifo') : fifo'[i] = k
    <3> SUFFICES ASSUME NEW k \in Jobs, st'[k] = "queued"
                 PROVE  \E i \in 1 .. Len(fifo') : fifo'[i] = k
      OBVIOUS
    <3>1. CASE k = j
      BY <1>2, <3>1
    <3>2. CASE k # j
      <4>1. st[k] = "queued"
        BY <2>1, <3>2 DEF TypeOK
      <4>2. PICK i \in 1 .. Len(fifo) : fifo[i] = k
        BY <4>1 DEF JobInOneHand
      <4>3. i \in 1 .. Len(fifo') /\ fifo'[i] = k
        BY <1>2, <4>2
      <4>4. QED
        BY <4>3
    <3>3. QED
      BY <3>1, <3>2
  <2>8. \A i \in 1 .. Len(fifo') : st'[fifo'[i]] = "queued"
    BY <1>1, <1>2, <1>3, <2>1 DEF JobInOneHand, TypeOK
  <2>9. \A i, k \in 1 .. Len(fifo') : fifo'[k] = fifo'[i] => k = i
    <3> SUFFICES ASSUME NEW i \in 1 .. Len(fifo'), NEW k \in 1 .. Len(fifo'),
                        fifo'[k] = fifo'[i]
                 PROVE  k = i
      OBVIOUS
    <3>1. (i \in 1 .. Len(fifo) \/ i = Len(fifo) + 1) /\ (k \in 1 .. Len(fifo) \/ k = Len(fifo) + 1)
      BY <1>2
    <3>2. QED
      BY <1>2, <1>3, <3>1 DEF JobInOneHand
  <2>10. QED
    BY <2>3, <2>4, <2>5, <2>6, <2>7, <2>8, <2>9 DEF JobInOneHand
<1>7. CloseInOrder'
  BY <1>1 DEF AddEnqueue, CloseInOrder, OneAtJoins, AtJoins, TypeOK, Threads, Goto, closeVars
<1>8. QED
  BY <1>4, <1>5, <1>6, <1>7

\* Taking the job at the head (lines 121-140) keeps the invariant.
LEMMA TakeStep ==
    ASSUME PoolInv, NEW w \in Workers, WorkerTake(w)
    PROVE  PoolInv'
<1> USE DEF PoolInv
<1>1. /\ pc[w] = "loop" /\ cur # 0 /\ cur \in Nat /\ ~poolClose /\ alive
      /\ cur' = cur - 1 /\ cur = Len(fifo) /\ fifo \in Seq(Jobs)
  BY DEF WorkerTake, Looping, TypeOK, QueueIsList
<1>2. /\ fifo # << >> /\ fifo' = Tail(fifo) /\ fifo' \in Seq(Jobs)
      /\ Len(fifo') = Len(fifo) - 1
      /\ \A i \in 1 .. Len(fifo') : fifo'[i] = fifo[i + 1]
  BY <1>1, EmptySeq, HeadTailProperties DEF WorkerTake
<1>3. /\ head = fifo[1] /\ head \in Jobs /\ head # NULL /\ tail = fifo[Len(fifo)]
      /\ tail \in Jobs /\ st[head] = "queued" /\ next[tail] = NULL
  BY <1>1, <1>2, ElementOfSeq DEF QueueIsList, JobInOneHand
<1>4. \A i \in 1 .. Len(fifo') : i + 1 \in 1 .. Len(fifo) /\ fifo'[i] # head
  BY <1>1, <1>2, <1>3 DEF JobInOneHand
<1>5. pc' = [pc EXCEPT ![w] = "run"] /\ job' = [job EXCEPT ![w] = head]
      /\ st' = [st EXCEPT ![head] = "running"] /\ next' = next
  BY DEF WorkerTake, Goto, Holds, Mark
<1>6. /\ head' \in Jobs \cup {NULL} /\ tail' \in Jobs \cup {NULL}
      /\ queueEmpty' \subseteq Destroyers /\ queueNotFull' \subseteq Producers
  BY <1>3 DEF WorkerTake, TypeOK, DropLast, AdvanceHead, WakeAdders, SignalQueueEmpty
<1>7. TypeOK'
  BY <1>1, <1>2, <1>3, <1>5, <1>6 DEF WorkerTake, TypeOK, Threads, closeVars
<1>8. QueueIsList'
  <2>1. CASE cur = 1
    <3>1. Len(fifo') = 0 /\ fifo' = << >>
      BY <1>1, <1>2, <2>1, EmptySeq
    <3>2. QED
      BY <1>1, <2>1, <3>1 DEF WorkerTake, QueueIsList, DropLast
  <2>2. CASE cur # 1
    <3>1. Len(fifo') >= 1 /\ head' = next[head] /\ tail' = tail
      BY <1>1, <1>2, <2>2 DEF WorkerTake, AdvanceHead
    <3>2. head' = fifo'[1] /\ tail' = fifo'[Len(fifo')] /\ next'[tail'] = NULL
      BY <1>1, <1>2, <1>3, <1>5, <3>1 DEF QueueIsList
    <3>3. \A i \in 1 .. Len(fifo') - 1 : next'[fifo'[i]] = fifo'[i + 1]
      BY <1>1, <1>2, <1>5 DEF QueueIsList
    <3>4. fifo' # << >>
      BY <3>1, EmptySeq
    <3>5. QED
      BY <1>1, <1>2, <3>2, <3>3, <3>4 DEF QueueIsList
  <2>3. QED
    BY <2>1, <2>2
<1>9. JobInOneHand'
  <2>1. \A t \in Producers \cup Workers : job[t] # head
    BY <1>3 DEF JobInOneHand, TypeOK
  <2>2. \A q \in Producers : pc'[q] = "add" => job'[q] # NULL /\ st'[job'[q]] = "offered"
    BY <1>5, <2>1 DEF JobInOneHand, TypeOK, Threads
  <2>3. \A v \in Workers : pc'[v] = "run" => job'[v] # NULL /\ st'[job'[v]] = "running"
    BY <1>3, <1>5, <2>1 DEF JobInOneHand, TypeOK, Threads
  <2>4. \A t \in Producers \cup Workers : job'[t] # NULL =>
          /\ pc'[t] \in {"add", "run"}
          /\ \A u \in Producers \cup Workers : job'[u] = job'[t] => u = t
    BY <1>3, <1>5, <2>1 DEF JobInOneHand, TypeOK, Threads
  <2>5. \A k \in Jobs : st'[k] = "running" =>
          \E v \in Workers : pc'[v] = "run" /\ job'[v] = k
    BY <1>1, <1>3, <1>5 DEF JobInOneHand, TypeOK, Threads
  <2>6. ASSUME NEW k \in Jobs, st'[k] = "queued"
        PROVE  \E i \in 1 .. Len(fifo') : fifo'[i] = k
    <3>1. k # head /\ st[k] = "queued"
      BY <1>3, <1>5, <2>6 DEF TypeOK
    <3>2. PICK i \in 1 .. Len(fifo) : fifo[i] = k
      BY <3>1 DEF JobInOneHand
    <3>3. i - 1 \in 1 .. Len(fifo') /\ fifo'[i - 1] = k
      BY <1>1, <1>2, <1>3, <3>1, <3>2
    <3>4. QED
      BY <3>3
  <2>7. \A i \in 1 .. Len(fifo') :
          /\ st'[fifo'[i]] = "queued"
          /\ \A k \in 1 .. Len(fifo') : fifo'[k] = fifo'[i] => k = i
    BY <1>1, <1>2, <1>3, <1>4, <1>5 DEF JobInOneHand, TypeOK
  <2>8. QED
    BY <2>2, <2>3, <2>4, <2>5, <2>6, <2>7 DEF JobInOneHand
<1>10. CloseInOrder'
  BY <1>1, <1>5 DEF WorkerTake, CloseInOrder, OneAtJoins, AtJoins, TypeOK, Threads, closeVars
<1>11. QED
  BY <1>7, <1>8, <1>9, <1>10

\* A producer's move leaves the other kinds of thread where they are.
LEMMA ProducerMoves ==
    ASSUME TypeOK, NEW p \in Producers, NEW l, Goto(p, l)
    PROVE  \A t \in Destroyers \cup Workers : pc'[t] = pc[t]
<1>1. pc \in [Threads -> ProducerAt \cup WorkerAt \cup DestroyerAt]
  BY DEF TypeOK
<1>2. QED
  BY <1>1 DEF Goto, Threads

\* A step that touches neither the list nor a flag, nor moves a destroyer or an
\* exited worker, cannot disturb the order of closing.
LEMMA CloseKept ==
    ASSUME CloseInOrder, UNCHANGED <<cur, closeVars, alive>>,
           \A d \in Destroyers : pc'[d] = pc[d],
           \A w \in Workers : pc[w] = "exited" => pc'[w] = "exited"
    PROVE  CloseInOrder'
  BY DEF CloseInOrder, OneAtJoins, AtJoins, closeVars

\* The other steps leave the list alone; each moves one thread, and at most one
\* job from hand to hand.
LEMMA PoolInvStep == PoolInv /\ [Next]_vars => PoolInv'
<1> SUFFICES ASSUME PoolInv, [Next]_vars PROVE PoolInv'
  OBVIOUS
<1> USE DEF PoolInv, TypeOK, Threads, closeVars, queueVars, condVars, Goto
<1>1. ASSUME NEW p \in Producers, NEW j \in Jobs, AddCall(p, j) PROVE PoolInv'
  <2>1. TypeOK'
    BY <1>1 DEF AddCall, Holds, Mark
  <2>2. QueueIsList'
    BY <1>1 DEF AddCall, QueueIsList
  <2>3. JobInOneHand'
    <3>1. /\ pc' = [pc EXCEPT ![p] = "add"] /\ job' = [job EXCEPT ![p] = j]
          /\ st' = [st EXCEPT ![j] = "offered"] /\ fifo' = fifo
          /\ pc[p] = "idle" /\ st[j] = "new" /\ j # NULL
      BY <1>1 DEF AddCall, Holds, Mark
    <3>2. \A t \in Producers \cup Workers : job[t] # j
      BY <3>1 DEF JobInOneHand
    <3>3. \A q \in Producers : pc'[q] = "add" => job'[q] # NULL /\ st'[job'[q]] = "offered"
      BY <3>1, <3>2 DEF JobInOneHand
    <3>4. \A w \in Workers : pc'[w] = "run" => job'[w] # NULL /\ st'[job'[w]] = "running"
      BY <3>1, <3>2 DEF JobInOneHand
    <3>5. \A t \in Producers \cup Workers : job'[t] # NULL =>
            /\ pc'[t] \in {"add", "run"}
            /\ \A u \in Producers \cup Workers : job'[u] = job'[t] => u = t
      BY <3>1, <3>2 DEF JobInOneHand
    <3>6. \A k \in Jobs :
            /\ st'[k] = "running" => \E w \in Workers : pc'[w] = "run" /\ job'[w] = k
            /\ st'[k] = "queued" => \E i \in 1 .. Len(fifo) : fifo[i] = k
      BY <3>1, <3>2 DEF JobInOneHand
    <3>7. \A i \in 1 .. Len(fifo) :
            /\ st'[fifo[i]] = "queued"
            /\ \A k \in 1 .. Len(fifo) : fifo[k] = fifo[i] => k = i
      BY <3>1 DEF JobInOneHand
    <3>8. QED
      BY <3>1, <3>3, <3>4, <3>5, <3>6, <3>7 DEF JobInOneHand
  <2>4. CloseInOrder'
    <3>1. \A t \in Destroyers \cup Workers : pc'[t] = pc[t]
      BY <1>1, ProducerMoves DEF AddCall
    <3>2. UNCHANGED <<cur, closeVars, alive>>
      BY <1>1 DEF AddCall
    <3>3. QED
      BY <3>1, <3>2, CloseKept
  <2>5. QED
    BY <2>1, <2>2, <2>3, <2>4
<1>2. ASSUME NEW p \in Producers, AddWait(p) PROVE PoolInv'
  <2>1. TypeOK'
    BY <1>2 DEF AddWait, SleepOnNotFull
  <2>2. QueueIsList'
    BY <1>2 DEF AddWait, SleepOnNotFull, QueueIsList
  <2>3. JobInOneHand'
    BY <1>2 DEF AddWait, SleepOnNotFull, JobInOneHand
  <2>4. CloseInOrder'
    BY <1>2 DEF AddWait, SleepOnNotFull, CloseInOrder, OneAtJoins, AtJoins
  <2>5. QED
    BY <2>1, <2>2, <2>3, <2>4
<1>3. ASSUME NEW p \in Producers, AddRefused(p) \/ AddNoMemory(p) PROVE PoolInv'
  <2>1. pc[p] = "add" /\ job[p] \in Jobs /\ st[job[p]] = "offered" /\ AddFails(p)
    BY <1>3 DEF AddRefused, AddNoMemory, AddAllowed, Adding, JobInOneHand
  <2>2. TypeOK'
    BY <2>1 DEF AddFails, Holds, Mark
  <2>3. QueueIsList'
    BY <2>1 DEF AddFails, QueueIsList
  <2>4. JobInOneHand'
    BY <2>1 DEF AddFails, JobInOneHand, Holds, Mark
  <2>5. CloseInOrder'
    <3>1. \A t \in Destroyers \cup Workers : pc'[t] = pc[t]
      BY <2>1, ProducerMoves DEF AddFails
    <3>2. UNCHANGED <<cur, closeVars, alive>>
      BY <2>1 DEF AddFails
    <3>3. QED
      BY <3>1, <3>2, CloseKept
  <2>6. QED
    BY <2>2, <2>3, <2>4, <2>5
<1>4. ASSUME NEW p \in Producers, AddEnqueue(p) PROVE PoolInv'
  BY <1>4, EnqueueStep
<1>5. ASSUME NEW w \in Workers, WorkerWait(w) PROVE PoolInv'
  <2>1. TypeOK'
    BY <1>5 DEF WorkerWait
  <2>2. QueueIsList'
    BY <1>5 DEF WorkerWait, QueueIsList
  <2>3. JobInOneHand'
    BY <1>5 DEF WorkerWait, JobInOneHand
  <2>4. CloseInOrder'
    BY <1>5 DEF WorkerWait, CloseInOrder, OneAtJoins, AtJoins
  <2>5. QED
    BY <2>1, <2>2, <2>3, <2>4
<1>6. ASSUME NEW w \in Workers, WorkerExit(w) PROVE PoolInv'
  <2>1. TypeOK'
    BY <1>6 DEF WorkerExit, Looping
  <2>2. QueueIsList'
    BY <1>6 DEF WorkerExit, Looping, QueueIsList
  <2>3. JobInOneHand'
    BY <1>6 DEF WorkerExit, Looping, JobInOneHand
  <2>4. CloseInOrder'
    BY <1>6 DEF WorkerExit, Looping, CloseInOrder, OneAtJoins, AtJoins
  <2>5. QED
    BY <2>1, <2>2, <2>3, <2>4
<1>7. ASSUME NEW w \in Workers, WorkerTake(w) PROVE PoolInv'
  BY <1>7, TakeStep
<1>8. ASSUME NEW w \in Workers, WorkerFinish(w) PROVE PoolInv'
  <2>1. pc[w] = "run" /\ job[w] \in Jobs /\ st[job[w]] = "running"
    BY <1>8 DEF WorkerFinish, JobInOneHand
  <2>2. TypeOK'
    BY <1>8, <2>1 DEF WorkerFinish, Holds, Mark
  <2>3. QueueIsList'
    BY <1>8 DEF WorkerFinish, QueueIsList
  <2>4. JobInOneHand'
    BY <1>8, <2>1 DEF WorkerFinish, JobInOneHand, Holds, Mark
  <2>5. CloseInOrder'
    <3>1. /\ \A d \in Destroyers : pc'[d] = pc[d]
          /\ \A v \in Workers : pc[v] = "exited" => pc'[v] = "exited"
      BY <1>8, <2>1 DEF WorkerFinish
    <3>2. UNCHANGED <<cur, closeVars, alive>>
      BY <1>8 DEF WorkerFinish
    <3>3. QED
      BY <3>1, <3>2, CloseKept
  <2>6. QED
    BY <2>2, <2>3, <2>4, <2>5
<1>9. ASSUME NEW d \in Destroyers, DestroyCall(d) \/ DestroyAgain(d) PROVE PoolInv'
  <2>1. TypeOK'
    BY <1>9 DEF DestroyCall, DestroyAgain
  <2>2. QueueIsList'
    BY <1>9 DEF DestroyCall, DestroyAgain, QueueIsList
  <2>3. JobInOneHand'
    BY <1>9 DEF DestroyCall, DestroyAgain, JobInOneHand
  <2>4. CloseInOrder'
    BY <1>9 DEF DestroyCall, DestroyAgain, CloseInOrder, OneAtJoins, AtJoins
  <2>5. QED
    BY <2>1, <2>2, <2>3, <2>4
<1>10. ASSUME NEW d \in Destroyers, DestroyClose(d) \/ DestroyDrain(d) PROVE PoolInv'
  <2>1. TypeOK'
    BY <1>10 DEF DestroyClose, DestroyDrain, DrainOrClose
  <2>2. QueueIsList'
    BY <1>10 DEF DestroyClose, DestroyDrain, DrainOrClose, QueueIsList
  <2>3. JobInOneHand'
    BY <1>10 DEF DestroyClose, DestroyDrain, DrainOrClose, JobInOneHand
  <2>4. CloseInOrder'
    BY <1>10 DEF DestroyClose, DestroyDrain, DrainOrClose, CloseInOrder, OneAtJoins, AtJoins
  <2>5. QED
    BY <2>1, <2>2, <2>3, <2>4
<1>11. ASSUME NEW d \in Destroyers, DestroyWakeWorkers(d) \/ DestroyWakeAdders(d)
       PROVE  PoolInv'
  <2>1. TypeOK'
    BY <1>11 DEF DestroyWakeWorkers, DestroyWakeAdders, WakeWorkers, WakeAdders
  <2>2. QueueIsList'
    BY <1>11 DEF DestroyWakeWorkers, DestroyWakeAdders, QueueIsList
  <2>3. JobInOneHand'
    BY <1>11 DEF DestroyWakeWorkers, DestroyWakeAdders, JobInOneHand
  <2>4. CloseInOrder'
    <3>1. OneAtJoins' => OneAtJoins
      BY <1>11 DEF DestroyWakeWorkers, DestroyWakeAdders, OneAtJoins, AtJoins
    <3>2. QED
      BY <1>11, <3>1 DEF DestroyWakeWorkers, DestroyWakeAdders, CloseInOrder
  <2>5. QED
    BY <2>1, <2>2, <2>3, <2>4
<1>12. ASSUME NEW d \in Destroyers, DestroyFree(d) PROVE PoolInv'
  <2>1. TypeOK'
    BY <1>12 DEF DestroyFree
  <2>2. QueueIsList'
    BY <1>12 DEF DestroyFree, QueueIsList
  <2>3. JobInOneHand'
    BY <1>12 DEF DestroyFree, JobInOneHand
  <2>4. CloseInOrder'
    <3>1. AtJoins(d)' /\ \A e \in Destroyers : AtJoins(e) => AtJoins(e)'
      BY <1>12 DEF DestroyFree, AtJoins
    <3>2. ASSUME OneAtJoins' PROVE \A w \in Workers : pc'[w] = "exited"
      BY <1>12, <3>1, <3>2 DEF DestroyFree, Joined, OneAtJoins
    <3>3. QED
      BY <1>12, <3>2 DEF DestroyFree, CloseInOrder
  <2>5. QED
    BY <2>1, <2>2, <2>3, <2>4
<1>13. CASE SpuriousWakeup
  <2>1. TypeOK'
    BY <1>13 DEF SpuriousWakeup
  <2>2. QueueIsList'
    BY <1>13 DEF SpuriousWakeup, QueueIsList
  <2>3. JobInOneHand'
    BY <1>13 DEF SpuriousWakeup, JobInOneHand
  <2>4. CloseInOrder'
    BY <1>13 DEF SpuriousWakeup, CloseInOrder, OneAtJoins, AtJoins
  <2>5. QED
    BY <2>1, <2>2, <2>3, <2>4
<1>14. CASE UNCHANGED vars
  <2>1. TypeOK'
    BY <1>14 DEF vars
  <2>2. QueueIsList'
    BY <1>14 DEF vars, QueueIsList
  <2>3. JobInOneHand'
    BY <1>14 DEF vars, JobInOneHand
  <2>4. CloseInOrder'
    BY <1>14 DEF vars, CloseInOrder, OneAtJoins, AtJoins
  <2>5. QED
    BY <2>1, <2>2, <2>3, <2>4
<1>15. QED
  BY <1>1, <1>2, <1>3, <1>4, <1>5, <1>6, <1>7, <1>8, <1>9, <1>10, <1>11, <1>12, <1>13,
     <1>14 DEF Next, ProducerStep, WorkerStep, DestroyerStep

\* The pool keeps its invariant for any number of threads, jobs and places.
THEOREM PoolInvariant == Spec => []PoolInv
  BY PoolInvInit, PoolInvStep, PTL DEF Spec

\* Type correctness of every critical section of simple_threadpool.c.
THEOREM Typing == Spec => []TypeOK
<1>1. PoolInv => TypeOK
  BY DEF PoolInv
<1>2. QED
  BY <1>1, PoolInvariant, PTL

\* The linked list holds the accepted jobs in order and its counter is right
\* (lines 89-99, 121-130).
THEOREM ListCorrect == Spec => []QueueIsList
<1>1. PoolInv => QueueIsList
  BY DEF PoolInv
<1>2. QED
  BY <1>1, PoolInvariant, PTL

\* No job is held twice, lost or run twice (lines 80-99, 121-143).
THEOREM JobsInOneHand == Spec => []JobInOneHand
<1>1. PoolInv => JobInOneHand
  BY DEF PoolInv
<1>2. QED
  BY <1>1, PoolInvariant, PTL

\* Closing is one-way and in order: queue, drain, pool, whatever calls overlap; and
\* workers before free for a call that joins them alone (lines 157-183).
THEOREM ClosingOrdered == Spec => []CloseInOrder
<1>1. PoolInv => CloseInOrder
  BY DEF PoolInv
<1>2. QED
  BY <1>1, PoolInvariant, PTL

\* When the pool is freed every accepted job has been started, and has ended too if
\* the call that freed it joined the workers alone (lines 157-183).
THEOREM Drained == Spec => []DestroyDrains
<1>1. PoolInv => DestroyDrains
  <2> SUFFICES ASSUME PoolInv, ~alive
               PROVE  /\ head = NULL
                      /\ \A j \in Jobs : st[j] # "queued" /\ (OneAtJoins => st[j] # "running")
    BY DEF DestroyDrains
  <2>1. cur = 0 /\ Len(fifo) = 0 /\ (OneAtJoins => \A w \in Workers : pc[w] = "exited")
    BY DEF PoolInv, CloseInOrder, QueueIsList
  <2>2. fifo = << >>
    BY <2>1, EmptySeq DEF PoolInv, TypeOK
  <2>3. QED
    BY <2>1, <2>2 DEF PoolInv, QueueIsList, JobInOneHand
<1>2. QED
  BY <1>1, PoolInvariant, PTL

\* No worker is ever asleep next to a job: the broadcast of line 92, made only when
\* the list was empty, is enough.  With at least two places no adder is asleep next
\* to a free one: the count passes through queue_max_num - 1 > 0 first, where line
\* 138 broadcasts.  (With one place it does not; the run simple_pool_max_one shows
\* an adder asleep for ever.)
THEOREM NoSleeperForgotten == Spec => []NoSleepBesideWork
<1>1. Init => NoSleepBesideWork
  BY DEF Init, NoSleepBesideWork
<1>2. PoolInv /\ NoSleepBesideWork /\ [Next]_vars => NoSleepBesideWork'
  <2> SUFFICES ASSUME PoolInv, NoSleepBesideWork, [Next]_vars
               PROVE  NoSleepBesideWork'
    OBVIOUS
  <2> USE DEF NoSleepBesideWork
  <2>1. ASSUME NEW p \in Producers, AddEnqueue(p) PROVE NoSleepBesideWork'
    <3>1. cur # QueueMax
      BY <2>1 DEF AddEnqueue, AddAllowed
    <3>2. CASE head = NULL
      BY <2>1, <3>1, <3>2 DEF AddEnqueue, WakeWorkers
    <3>3. CASE head # NULL
      <4>1. cur # 0
        BY <3>3, EmptySeq DEF PoolInv, QueueIsList, TypeOK
      <4>2. QED
        BY <2>1, <3>1, <3>3, <4>1 DEF AddEnqueue
    <3>4. QED
      BY <3>2, <3>3
  <2>2. ASSUME NEW w \in Workers, WorkerTake(w) PROVE NoSleepBesideWork'
    BY <2>2 DEF WorkerTake, WakeAdders, DropLast
  <2>3. ASSUME NEW p \in Producers,
               (\E j \in Jobs : AddCall(p, j)) \/ AddWait(p) \/ AddRefused(p) \/ AddNoMemory(p)
        PROVE  NoSleepBesideWork'
    BY <2>3 DEF AddCall, AddWait, SleepOnNotFull, AddRefused, AddNoMemory, AddFails,
                queueVars, condVars
  <2>4. ASSUME NEW w \in Workers, WorkerWait(w) \/ WorkerExit(w) \/ WorkerFinish(w)
        PROVE  NoSleepBesideWork'
    BY <2>4 DEF WorkerWait, WorkerExit, WorkerFinish, queueVars, condVars
  <2>5. ASSUME NEW d \in Destroyers, DestroyCall(d) \/ DestroyerStep(d)
        PROVE  NoSleepBesideWork'
    BY <2>5 DEF DestroyerStep, DestroyCall, DestroyAgain, DestroyClose, DestroyDrain,
                DestroyWakeWorkers, DestroyWakeAdders, DestroyFree, WakeWorkers, WakeAdders,
                queueVars, condVars
  <2>6. CASE SpuriousWakeup \/ UNCHANGED vars
    BY <2>6 DEF SpuriousWakeup, vars, queueVars, condVars
  <2>7. QED
    BY <2>1, <2>2, <2>3, <2>4, <2>5, <2>6 DEF Next, ProducerStep, WorkerStep
<1>3. QED
  BY <1>1, <1>2, PoolInvariant, PTL DEF Spec

\* A call at the joins has passed the test of line 152.
LEMMA JoinsArePastTest == OnePastTest => OneAtJoins
  BY DEF OnePastTest, OneAtJoins, PastTest, AtJoins

\* Nobody passes the test of line 152 in a freed pool, so that what is disposed of
\* stays disposed of, and only a free disposes of it.
LEMMA DisposalKept ==
    ASSUME TypeOK, [Next]_vars, \A d \in Destroyers : ~DestroyFree(d)
    PROVE  UNCHANGED DisposedOf
<1> USE DEF DisposedOf, OnePastTest, PastTest, TypeOK, Threads, Goto, closeVars, queueVars, condVars
<1>1. UNCHANGED alive
  BY DEF Next, ProducerStep, WorkerStep, DestroyerStep, vars, AddCall, AddWait, AddRefused,
         AddNoMemory, AddFails, AddEnqueue, WorkerWait, WorkerExit, WorkerTake, WorkerFinish,
         DestroyCall, DestroyAgain, DestroyClose, DestroyDrain, DestroyWakeWorkers,
         DestroyWakeAdders, SpuriousWakeup
<1>2. CASE alive
  BY <1>1, <1>2
<1>3. CASE ~alive
  <2>1. \A d \in Destroyers : PastTest(d)' = PastTest(d)
    <3>1. ASSUME NEW w \in Workers, WorkerFinish(w) PROVE \A d \in Destroyers : pc'[d] = pc[d]
      BY <3>1 DEF WorkerFinish
    <3>2. ASSUME NEW e \in Destroyers, DestroyWakeWorkers(e) \/ DestroyWakeAdders(e)
          PROVE  \A d \in Destroyers : PastTest(d)' = PastTest(d)
      BY <3>2 DEF DestroyWakeWorkers, DestroyWakeAdders
    <3>3. QED
      BY <1>3, <3>1, <3>2
         DEF Next, ProducerStep, WorkerStep, DestroyerStep, vars, AddCall, AddWait, AddRefused,
             AddNoMemory, AddAllowed, Adding, AddEnqueue, WorkerWait, WorkerExit, WorkerTake,
             Looping, DestroyCall, DestroyAgain, DestroyClose, DestroyDrain, SpuriousWakeup
  <2>2. QED
    BY <1>1, <2>1
<1>4. QED
  BY <1>2, <1>3

\* The linked list, the mutex and the condition variables implement the bounded
\* queue of JobQueue: first in first out, each job started at most once, disposed
\* of only when every accepted job has ended.  The free that disposes of it is that of
\* the one call past line 152; a free beside another such call is a stutter.
THEOREM PoolImplementsJobQueue == Spec => JobQueueSpec
<1>1. Init => JQ!Init
  BY DEF Init, JQ!Init, DisposedOf
<1>2. ASSUME PoolInv, [Next]_vars, UNCHANGED DisposedOf,
             \A d \in Destroyers : ~DestroyFree(d)
      PROVE  [JQ!Next]_(JQ!vars)
  <2> USE <1>2 DEF JQ!vars
  <2>0. alive => ~DisposedOf
    BY DEF DisposedOf
  <2>1. ASSUME NEW p \in Producers, NEW j \in Jobs, AddCall(p, j) PROVE JQ!Next
    <3>1. JQ!Offer(j)
      BY <2>0, <2>1 DEF AddCall, Mark, queueVars, closeVars, JQ!Offer, JQ!Become
    <3>2. QED
      BY <3>1 DEF JQ!Next
  <2>2. ASSUME NEW p \in Producers, AddRefused(p) \/ AddNoMemory(p) PROVE JQ!Next
    <3>1. alive /\ AddFails(p) /\ job[p] \in Jobs /\ st[job[p]] = "offered"
      BY <2>2 DEF AddRefused, AddNoMemory, AddAllowed, Adding, PoolInv, TypeOK, JobInOneHand
    <3>2. JQ!Refuse(job[p])
      BY <2>0, <3>1 DEF AddFails, Mark, queueVars, closeVars, JQ!Refuse, JQ!Become
    <3>3. QED
      BY <3>1, <3>2 DEF JQ!Next
  <2>3. ASSUME NEW p \in Producers, AddEnqueue(p) PROVE JQ!Next
    <3>1. job[p] \in Jobs /\ st[job[p]] = "offered" /\ ~queueClose /\ cur # QueueMax
      BY <2>3 DEF AddEnqueue, AddAllowed, Adding, Closed, PoolInv, TypeOK, JobInOneHand
    <3>2. Len(fifo) < QueueMax
      BY <3>1 DEF PoolInv, TypeOK, QueueIsList
    <3>3. JQ!Accept(job[p])
      BY <2>3, <3>1, <3>2 DEF AddEnqueue, Mark, closeVars, JQ!Accept, JQ!Become
    <3>4. QED
      BY <3>1, <3>3 DEF JQ!Next
  <2>4. ASSUME NEW w \in Workers, WorkerTake(w) PROVE JQ!Next
    <3>1. alive /\ fifo # << >>
      BY <2>4, EmptySeq DEF WorkerTake, Looping, PoolInv, QueueIsList
    <3>2. head = Head(fifo) /\ head \in Jobs /\ st[head] = "queued"
      BY <3>1, EmptySeq, ElementOfSeq DEF PoolInv, TypeOK, QueueIsList, JobInOneHand
    <3>3. JQ!Start(head)
      BY <2>0, <2>4, <3>1, <3>2 DEF WorkerTake, Mark, closeVars, JQ!Start, JQ!Become
    <3>4. QED
      BY <3>2, <3>3 DEF JQ!Next
  <2>5. ASSUME NEW w \in Workers, WorkerFinish(w) PROVE JQ!Next
    <3>1. job[w] \in Jobs /\ st[job[w]] = "running"
      BY <2>5 DEF WorkerFinish, PoolInv, TypeOK, JobInOneHand
    <3>2. ~DisposedOf
      BY <2>5, JoinsArePastTest DEF WorkerFinish, DisposedOf, PoolInv, CloseInOrder
    <3>3. JQ!Finish(job[w])
      BY <2>5, <3>1, <3>2 DEF WorkerFinish, Mark, queueVars, closeVars, JQ!Finish, JQ!Become
    <3>4. QED
      BY <3>1, <3>3 DEF JQ!Next
  <2>6. ASSUME NEW d \in Destroyers, DestroyClose(d) PROVE [JQ!Next]_(JQ!vars)
    <3>1. CASE queueClose
      BY <2>6, <3>1 DEF DestroyClose, queueVars
    <3>2. CASE ~queueClose
      BY <2>6, <3>2 DEF DestroyClose, queueVars, JQ!Next, JQ!Close
    <3>3. QED
      BY <3>1, <3>2
  <2>7. ASSUME NEW p \in Producers, AddWait(p) PROVE UNCHANGED JQ!vars
    BY <2>7 DEF AddWait, queueVars, closeVars
  <2>8. ASSUME NEW w \in Workers, WorkerWait(w) \/ WorkerExit(w) PROVE UNCHANGED JQ!vars
    BY <2>8 DEF WorkerWait, WorkerExit, queueVars, closeVars
  <2>9. ASSUME NEW d \in Destroyers,
               \/ DestroyCall(d) \/ DestroyAgain(d) \/ DestroyDrain(d)
               \/ DestroyWakeWorkers(d) \/ DestroyWakeAdders(d)
        PROVE  UNCHANGED JQ!vars
    BY <2>9 DEF DestroyCall, DestroyAgain, DestroyDrain, DestroyWakeWorkers,
                DestroyWakeAdders, queueVars, closeVars
  <2>10. CASE SpuriousWakeup \/ UNCHANGED vars
    BY <2>10 DEF SpuriousWakeup, vars, queueVars, closeVars
  <2>11. QED
    BY <2>1, <2>2, <2>3, <2>4, <2>5, <2>6, <2>7, <2>8, <2>9, <2>10
       DEF Next, ProducerStep, WorkerStep, DestroyerStep
<1>3. ASSUME PoolInv, PoolInv', NEW d \in Destroyers, DestroyFree(d)
      PROVE  [JQ!Next]_(JQ!vars)
  <2>1. UNCHANGED <<st, fifo, queueClose>> /\ ~alive'
    BY <1>3 DEF DestroyFree, queueVars, closeVars
  <2>2. \A e \in Destroyers : PastTest(e)' = PastTest(e)
    BY <1>3 DEF DestroyFree, PastTest, PoolInv, TypeOK, Threads, Goto
  <2>3. DisposedOf' = OnePastTest
    BY <2>1, <2>2 DEF DisposedOf, OnePastTest
  <2>4. CASE ~OnePastTest \/ ~alive
    BY <2>1, <2>3, <2>4 DEF DisposedOf, JQ!vars
  <2>5. CASE OnePastTest /\ alive
    <3>1. DisposedOf' /\ ~DisposedOf
      BY <2>3, <2>5 DEF DisposedOf
    <3>2. OneAtJoins'
      BY <2>2, <2>5, JoinsArePastTest DEF OnePastTest, OneAtJoins, PastTest, AtJoins
    <3>3. /\ queueClose /\ cur' = 0
          /\ \A w \in Workers : pc'[w] = "exited"
      BY <1>3, <2>1, <3>2 DEF PoolInv, CloseInOrder
    <3>4. Len(fifo) = 0
      BY <1>3, <2>1, <3>3 DEF PoolInv, QueueIsList
    <3>5. \A j \in Jobs : st[j] \notin {"queued", "running"}
      BY <1>3, <2>1, <3>3, <3>4 DEF PoolInv, JobInOneHand
    <3>6. JQ!Dispose
      BY <2>1, <3>1, <3>3, <3>5 DEF JQ!Dispose
    <3>7. QED
      BY <3>6 DEF JQ!Next
  <2>6. QED
    BY <2>4, <2>5
<1>4. PoolInv /\ PoolInv' /\ [Next]_vars => [JQ!Next]_(JQ!vars)
  BY <1>2, <1>3, DisposalKept DEF PoolInv
<1>5. QED
  BY <1>1, <1>4, PoolInvariant, PTL DEF Spec, JobQueueSpec, JQ!Spec
=============================================================================
