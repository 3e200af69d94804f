---------------------------- MODULE TaskPoolProof ----------------------------
(***************************************************************************)
(* What holds of TaskPool for any threads, any tasks and any size of the   *)
(* ring, as long as the clients leave no more tasks in it than it has      *)
(* slots, which the code leaves to them.                                   *)
(***************************************************************************)
EXTENDS TaskPool, FiniteSetTheorems, TLAPS

RespectsRing == IsFiniteSet(Workers) /\ MaxOutstanding <= TaskQueueMax

USE TaskPoolAssumption DEF TaskPoolAssumption

Threads == Workers \cup Clients
Running == {w \in Workers : pc[w] = "run"}

\* As many tasks have been started as the head of the ring has advanced.
HeadCountsStarted == queueHead = Len(started)

PoolInv ==
    /\ TypeOK /\ RingHoldsQueued /\ StartedInOrder /\ HeadCountsStarted
    /\ ScheduledCountsRunning

-----------------------------------------------------------------------------
\* Two indices less than the size apart fall on different slots.
LEMMA SlotsApart ==
    ASSUME NEW N \in Nat \ {0}, NEW a \in Nat, NEW b \in Nat, a < b, b - a < N
    PROVE  a % N # b % N
<1>1. /\ a \div N \in Nat /\ a % N \in 0 .. N - 1 /\ a = (a \div N) * N + (a % N)
      /\ b \div N \in Nat /\ b % N \in 0 .. N - 1 /\ b = (b \div N) * N + (b % N)
  BY SMT
<1> DEFINE p == a \div N
           q == b \div N
           r == a % N
<1> SUFFICES ASSUME r = b % N PROVE FALSE
  OBVIOUS
<1>2. p \in Nat /\ q \in Nat /\ r \in Nat /\ a = p * N + r /\ b = q * N + r
  BY <1>1
<1> HIDE DEF p, q, r
<1>3. CASE q <= p
  <2>1. q * N <= p * N
    BY <1>2, <1>3, SMT
  <2> QED BY <1>2, <2>1, SMT
<1>4. CASE q > p
  <2>1. q * N >= (p + 1) * N /\ (p + 1) * N = p * N + N
    BY <1>2, <1>4, SMT
  <2> QED BY <1>2, <2>1, SMT
<1> QED BY <1>2, <1>3, <1>4

LEMMA OneMore ==
    ASSUME NEW S, IsFiniteSet(S), NEW t, t \notin S
    PROVE  Cardinality(S \cup {t}) = Cardinality(S) + 1
BY FS_AddElement

LEMMA OneLess ==
    ASSUME NEW S, IsFiniteSet(S), NEW t \in S
    PROVE  Cardinality(S) = Cardinality(S \ {t}) + 1 /\ Cardinality(S \ {t}) \in Nat
<1>1. IsFiniteSet(S \ {t}) /\ S = (S \ {t}) \cup {t}
  BY FS_Subset
<1> QED BY <1>1, OneMore, FS_CardinalityType, Zenon

LEMMA RunningFinite == RespectsRing => IsFiniteSet(Running) /\ Cardinality(Running) \in Nat
BY FS_Subset, FS_CardinalityType DEF Running, RespectsRing

\* Where the threads are after one of them has gone from one place to the next.
LEMMA Moves ==
    ASSUME TypeOK, NEW t \in Threads, NEW l \in WorkerAt \cup ClientAt, Goto(t, l)
    PROVE  /\ \A u \in Threads : pc'[u] = IF u = t THEN l ELSE pc[u]
           /\ pc' \in [Workers \cup Clients -> WorkerAt \cup ClientAt]
<1>1. pc \in [Workers \cup Clients -> WorkerAt \cup ClientAt] /\ t \in Workers \cup Clients
  BY DEF TypeOK, Threads
<1> QED BY <1>1 DEF Goto, Threads

LEMMA PoolInit == RespectsRing /\ Init => PoolInv
<1> SUFFICES ASSUME RespectsRing, Init PROVE PoolInv
  OBVIOUS
<1>1. \A t \in Threads : pc[t] = IF t \in Workers THEN "loop" ELSE "idle"
  BY DEF Init, Threads
<1>2. TypeOK
  <2>1. pc \in [Workers \cup Clients -> WorkerAt \cup ClientAt]
    BY DEF Init, WorkerAt, ClientAt
  <2>2. /\ taskQueue \in [Slots -> Tasks \cup {NoTask}]
        /\ picked \in [Workers -> Tasks \cup {NoTask}]
        /\ st \in [Tasks -> {"new", "added", "running", "finished"}]
        /\ before \in [Clients -> SUBSET Tasks]
    BY DEF Init
  <2> QED BY <2>1, <2>2 DEF Init, TypeOK
<1>3. RingHoldsQueued /\ HeadCountsStarted
  BY DEF Init, RingHoldsQueued, HeadCountsStarted
<1>4. StartedInOrder
  BY DEF Init, StartedInOrder
<1>5. ScheduledCountsRunning
  <2>1. Running = {}
    BY <1>1 DEF Running, Threads
  <2> QED BY <2>1, FS_EmptySet DEF Init, ScheduledCountsRunning, Running
<1> QED BY <1>2, <1>3, <1>4, <1>5 DEF PoolInv

-----------------------------------------------------------------------------
\* pool_add_task (threadpool.c lines 118-135).
LEMMA AddStep ==
    ASSUME RespectsRing, PoolInv, NEW t \in Tasks, AddTask(t)
    PROVE  PoolInv'
<1> DEFINE slot == queueTail % TaskQueueMax
<1>1. /\ queueHead \in Nat /\ queueTail \in Nat /\ slot \in Slots
      /\ queueTail - queueHead < TaskQueueMax
      /\ queueHead <= queueTail /\ queueTail = Len(log) /\ log \in Seq(Tasks)
      /\ taskQueue \in [Slots -> Tasks \cup {NoTask}]
  BY DEF AddTask, PoolInv, TypeOK, RingHoldsQueued, RespectsRing, Slots
<1>2. /\ taskQueue' = [taskQueue EXCEPT ![slot] = t] /\ queueTail' = queueTail + 1
      /\ log' = Append(log, t) /\ queueHead' = queueHead /\ started' = started
      /\ pc' = pc /\ scheduled' = scheduled
  BY DEF AddTask, Store
<1>3. log' \in Seq(Tasks) /\ Len(log') = Len(log) + 1 /\ log'[Len(log) + 1] = t
      /\ \A i \in 1 .. Len(log) : log'[i] = log[i]
  BY <1>1, <1>2
<1>4. TypeOK'
  BY <1>1, <1>2, <1>3 DEF AddTask, Mark, WakeWorkers, PoolInv, TypeOK
<1>5. RingHoldsQueued'
  <2>1. ASSUME NEW i \in queueHead .. queueTail
        PROVE  taskQueue'[i % TaskQueueMax] = log'[i + 1]
    <3>1. CASE i = queueTail
      BY <1>1, <1>2, <1>3, <3>1
    <3>2. CASE i # queueTail
      <4>1. i \in Nat /\ i < queueTail /\ queueTail - i < TaskQueueMax /\ i + 1 \in 1 .. Len(log)
        BY <1>1, <3>2
      <4>2. i % TaskQueueMax # slot
        BY <1>1, <4>1, SlotsApart
      <4>3. taskQueue[i % TaskQueueMax] = log[i + 1]
        BY <1>1, <4>1 DEF PoolInv, RingHoldsQueued
      <4>4. taskQueue'[i % TaskQueueMax] = taskQueue[i % TaskQueueMax]
        <5>1. i % TaskQueueMax \in Slots
          BY <4>1, SMT DEF Slots
        <5> QED BY <1>1, <1>2, <4>2, <5>1, Zenon
      <4>5. log'[i + 1] = log[i + 1]
        BY <1>3, <4>1
      <4> QED BY <4>3, <4>4, <4>5
    <3> QED BY <3>1, <3>2
  <2>2. queueHead' <= queueTail' /\ queueTail' - queueHead' <= TaskQueueMax
        /\ queueTail' = Len(log') /\ queueHead' .. queueTail' - 1 = queueHead .. queueTail
    BY <1>1, <1>2, <1>3
  <2> QED BY <2>1, <2>2 DEF RingHoldsQueued
<1>6. StartedInOrder' /\ HeadCountsStarted'
  BY <1>1, <1>2, <1>3 DEF PoolInv, TypeOK, StartedInOrder, HeadCountsStarted
<1>7. ScheduledCountsRunning'
  BY <1>2 DEF PoolInv, ScheduledCountsRunning
<1> QED BY <1>4, <1>5, <1>6, <1>7 DEF PoolInv

\* A worker (lines 75-111).
LEMMA WorkerSteps ==
    ASSUME RespectsRing, PoolInv, NEW w \in Workers, WorkerStep(w)
    PROVE  PoolInv'
<1> w \in Threads /\ w \notin Clients
  BY DEF Threads, Clients
<1>1. ASSUME WorkerSleep(w)
      PROVE  PoolInv'
  BY <1>1 DEF WorkerSleep, PoolInv, TypeOK, RingHoldsQueued, StartedInOrder,
              HeadCountsStarted, ScheduledCountsRunning, ringVars, history
<1>2. ASSUME WorkerPick(w)
      PROVE  PoolInv'
  <2> DEFINE t == taskQueue[SlotOf(queueHead)]
  <2>1. /\ queueHead \in Nat /\ queueTail \in Nat /\ queueHead < queueTail
        /\ queueTail = Len(log) /\ log \in Seq(Tasks) /\ started \in Seq(Tasks)
        /\ queueHead = Len(started) /\ started = SubSeq(log, 1, queueHead)
        /\ queueTail - queueHead <= TaskQueueMax
    <3>1. queueHead # queueTail
      BY <1>2 DEF WorkerPick
    <3>2. /\ queueHead \in Nat /\ queueTail \in Nat
          /\ log \in Seq(Tasks) /\ started \in Seq(Tasks)
      BY DEF PoolInv, TypeOK
    <3>3. queueHead <= queueTail /\ queueTail = Len(log) /\ queueTail - queueHead <= TaskQueueMax
      BY DEF PoolInv, RingHoldsQueued
    <3>4. queueHead = Len(started) /\ started = SubSeq(log, 1, queueHead)
      BY DEF PoolInv, StartedInOrder, HeadCountsStarted
    <3> QED BY <3>1, <3>2, <3>3, <3>4
  <2>2. t = log[queueHead + 1] /\ t \in Tasks
    <3>1. queueHead \in queueHead .. queueTail - 1
      BY <2>1
    <3>2. taskQueue[queueHead % TaskQueueMax] = log[queueHead + 1]
      BY <3>1, Zenon DEF PoolInv, RingHoldsQueued
    <3>3. log[queueHead + 1] \in Tasks
      BY <2>1
    <3> QED BY <3>2, <3>3, Zenon DEF SlotOf
  <2>3. /\ queueHead' = queueHead + 1 /\ started' = Append(started, t)
        /\ picked' = [picked EXCEPT ![w] = t] /\ Mark(t, "running") /\ Goto(w, "run")
        /\ Schedule /\ Looping(w)
        /\ UNCHANGED <<queueTail, taskQueue, condVars, alive, log, before>>
    BY <1>2, Zenon DEF WorkerPick
  <2> HIDE DEF t
  <2>4. /\ \A u \in Threads : pc'[u] = IF u = w THEN "run" ELSE pc[u]
        /\ pc' \in [Workers \cup Clients -> WorkerAt \cup ClientAt]
    BY <2>3, Moves DEF PoolInv, WorkerAt
  <2>5. TypeOK'
    <3>1. /\ picked' \in [Workers -> Tasks \cup {NoTask}]
          /\ st' \in [Tasks -> {"new", "added", "running", "finished"}]
      BY <2>2, <2>3 DEF Mark, PoolInv, TypeOK
    <3>2. started' \in Seq(Tasks) /\ scheduled' \in Nat /\ queueHead' \in Nat
      BY <2>1, <2>2, <2>3 DEF Schedule, PoolInv, TypeOK
    <3> QED BY <2>3, <2>4, <3>1, <3>2 DEF PoolInv, TypeOK, condVars
  <2>6. RingHoldsQueued'
    <3>1. \A i \in queueHead + 1 .. queueTail - 1 :
              i \in queueHead .. queueTail - 1
      BY <2>1
    <3>2. \A i \in queueHead + 1 .. queueTail - 1 :
              taskQueue'[i % TaskQueueMax] = log'[i + 1]
      BY <2>3, <3>1, Zenon DEF PoolInv, RingHoldsQueued
    <3>3. /\ queueHead' <= queueTail' /\ queueTail' - queueHead' <= TaskQueueMax
          /\ queueTail' = Len(log')
      BY <2>1, <2>3
    <3> QED BY <2>3, <3>2, <3>3, Zenon DEF RingHoldsQueued
  <2>7. StartedInOrder' /\ HeadCountsStarted'
    <3>1. started' = SubSeq(log, 1, queueHead + 1) /\ Len(started') = queueHead + 1
      BY <2>1, <2>2, <2>3
    <3> QED BY <2>1, <2>3, <3>1 DEF StartedInOrder, HeadCountsStarted
  <2>8. ScheduledCountsRunning'
    <3>1. Running' = Running \cup {w} /\ w \notin Running
      BY <2>3, <2>4 DEF Looping, Running, Threads
    <3>2. Cardinality(Running') = Cardinality(Running) + 1
      BY <3>1, RunningFinite, OneMore
    <3> QED BY <2>3, <3>2 DEF Schedule, PoolInv, ScheduledCountsRunning, Running
  <2> QED BY <2>5, <2>6, <2>7, <2>8 DEF PoolInv
<1>3. ASSUME WorkerFinish(w)
      PROVE  PoolInv'
  <2>1. /\ Goto(w, "loop") /\ pc[w] = "run" /\ scheduled' = scheduled - 1
        /\ UNCHANGED <<ringVars, workAvailable, alive, log, started, before>>
    BY <1>3 DEF WorkerFinish
  <2>2. /\ \A u \in Threads : pc'[u] = IF u = w THEN "loop" ELSE pc[u]
        /\ pc' \in [Workers \cup Clients -> WorkerAt \cup ClientAt]
    BY <2>1, Moves DEF PoolInv, WorkerAt
  <2>3. Running' = Running \ {w} /\ w \in Running
    BY <2>1, <2>2 DEF Running, Threads
  <2>4. Cardinality(Running) = Cardinality(Running') + 1 /\ Cardinality(Running') \in Nat
    BY <2>3, RunningFinite, OneLess
  <2>5. scheduled' = Cardinality(Running') /\ scheduled' \in Nat
    BY <2>1, <2>4 DEF PoolInv, ScheduledCountsRunning, Running
  <2>6. done' \subseteq Clients
    BY <1>3 DEF WorkerFinish, SignalDone, PoolInv, TypeOK
  <2>7. TypeOK'
    BY <1>3, <2>1, <2>2, <2>5, <2>6 DEF WorkerFinish, Mark, PoolInv, TypeOK, ringVars
  <2>8. RingHoldsQueued' /\ StartedInOrder' /\ HeadCountsStarted'
    BY <2>1 DEF PoolInv, RingHoldsQueued, StartedInOrder, HeadCountsStarted, ringVars
  <2> QED BY <2>5, <2>7, <2>8 DEF PoolInv, ScheduledCountsRunning, Running
<1> QED BY <1>1, <1>2, <1>3 DEF WorkerStep

\* pool_wait and pool_destroy (lines 138-148, 175-188).
LEMMA ClientSteps ==
    ASSUME RespectsRing, PoolInv, NEW c \in Clients, WaitCall(c) \/ ClientStep(c)
    PROVE  PoolInv'
<1> c \in Threads /\ c \notin Workers
  BY DEF Threads, Clients
<1>1. ASSUME WaitSleep(c)
      PROVE  PoolInv'
  BY <1>1 DEF WaitSleep, PoolInv, TypeOK, RingHoldsQueued, StartedInOrder,
              HeadCountsStarted, ScheduledCountsRunning, ringVars, history
<1>2. ASSUME NEW l \in ClientAt, Goto(c, l), before' \in [Clients -> SUBSET Tasks],
             alive' \in BOOLEAN,
             UNCHANGED <<ringVars, scheduled, condVars, picked, st, log, started>>
      PROVE  PoolInv'
  <2>1. /\ \A u \in Threads : pc'[u] = IF u = c THEN l ELSE pc[u]
        /\ pc' \in [Workers \cup Clients -> WorkerAt \cup ClientAt]
    BY <1>2, Moves DEF PoolInv
  <2>2. TypeOK'
    BY <1>2, <2>1 DEF PoolInv, TypeOK, ringVars, condVars
  <2>3. RingHoldsQueued' /\ StartedInOrder' /\ HeadCountsStarted'
    BY <1>2 DEF PoolInv, RingHoldsQueued, StartedInOrder, HeadCountsStarted, ringVars
  <2>4. Running' = Running
    BY <2>1 DEF Running, Threads
  <2> QED BY <1>2, <2>2, <2>3, <2>4 DEF PoolInv, ScheduledCountsRunning, Running
<1>3. ASSUME WaitCall(c)
      PROVE  PoolInv'
  <2>1. before' \in [Clients -> SUBSET Tasks]
    BY <1>3 DEF WaitCall, Added, PoolInv, TypeOK
  <2>2. PICK l \in ClientAt : Goto(c, l)
    BY <1>3 DEF WaitCall, ClientAt
  <2> QED BY <1>2, <1>3, <2>1, <2>2 DEF WaitCall, PoolInv, TypeOK
<1>4. ASSUME WaitReturn(c) \/ DestroyFree(c)
      PROVE  PoolInv'
  <2>1. PICK l \in ClientAt : Goto(c, l)
    BY <1>4 DEF WaitReturn, DestroyFree, ClientAt
  <2> QED BY <1>2, <1>4, <2>1 DEF WaitReturn, DestroyFree, history, PoolInv, TypeOK
<1> QED BY <1>1, <1>3, <1>4 DEF ClientStep

LEMMA PoolStep == RespectsRing /\ PoolInv /\ [Next]_vars => PoolInv'
<1> SUFFICES ASSUME RespectsRing, PoolInv, [Next]_vars PROVE PoolInv'
  OBVIOUS
<1>1. ASSUME UNCHANGED vars \/ SpuriousWakeup PROVE PoolInv'
  BY <1>1 DEF SpuriousWakeup, vars, PoolInv, TypeOK, RingHoldsQueued, StartedInOrder,
              HeadCountsStarted, ScheduledCountsRunning, ringVars, condVars, history
<1> QED BY <1>1, AddStep, WorkerSteps, ClientSteps DEF Next

\* The types, for a ring of any size.
THEOREM PoolTypes == ASSUME RespectsRing PROVE Spec => []TypeOK
<1>1. Init => PoolInv
  BY PoolInit
<1>2. PoolInv /\ [Next]_vars => PoolInv'
  BY PoolStep
<1> QED BY <1>1, <1>2, PTL DEF Spec, PoolInv

\* While the clients keep to its size, a ring of any size holds the tasks added and not
\* started, in order (threadpool.c lines 94-95, 131-132).
THEOREM RingKept == ASSUME RespectsRing PROVE Spec => []RingHoldsQueued
<1>1. Init => PoolInv
  BY PoolInit
<1>2. PoolInv /\ [Next]_vars => PoolInv'
  BY PoolStep
<1> QED BY <1>1, <1>2, PTL DEF Spec, PoolInv

\* Tasks are started in the order they were added, none lost and none twice, by any number
\* of workers (lines 86-95, 122-132).
THEOREM OrderKept == ASSUME RespectsRing PROVE Spec => []StartedInOrder
<1>1. Init => PoolInv
  BY PoolInit
<1>2. PoolInv /\ [Next]_vars => PoolInv'
  BY PoolStep
<1> QED BY <1>1, <1>2, PTL DEF Spec, PoolInv

\* The count that pool_wait and pool_destroy wait on never drifts (lines 98, 106).
THEOREM CountKept == ASSUME RespectsRing PROVE Spec => []ScheduledCountsRunning
<1>1. Init => PoolInv
  BY PoolInit
<1>2. PoolInv /\ [Next]_vars => PoolInv'
  BY PoolStep
<1> QED BY <1>1, <1>2, PTL DEF Spec, PoolInv
=============================================================================
