------------------------------ MODULE TaskPool ------------------------------
(***************************************************************************)
(* The thread pool of src/thread/threadpool/c/sample1/threadpool.c: a ring *)
(* of tasks addressed by two ever-growing indices, one mutex, and a count  *)
(* of "scheduled" tasks that pool_wait and pool_destroy wait on.           *)
(*                                                                         *)
(* Each action is one critical section of the code; a condition variable   *)
(* is the set of threads asleep on it.                                     *)
(***************************************************************************)
EXTENDS Naturals, Sequences, FiniteSets

CONSTANTS
    Workers,         \* threads created by pool_init
    Waiters,         \* threads that call pool_wait, as often as they like
    Destroyers,      \* threads that call pool_destroy
    Tasks,           \* each is added once, by any thread but a destroyer
    NoTask,          \* the content of a slot nobody has written
    TaskQueueMax,    \* TASK_QUEUE_MAX, 1000 in the code
    MaxOutstanding   \* the clients keep at most this many tasks in the ring

ASSUME TaskPoolAssumption ==
    /\ TaskQueueMax \in Nat \ {0} /\ MaxOutstanding \in Nat
    /\ NoTask \notin Tasks
    /\ Workers \cap (Waiters \cup Destroyers) = {}
    /\ Waiters \cap Destroyers = {}

Clients == Waiters \cup Destroyers
Slots == 0 .. TaskQueueMax - 1

VARIABLES
    queueHead, queueTail, taskQueue, scheduled,
    workAvailable, done,    \* sleepers on each condition variable
    alive,                  \* FALSE once pool_destroy has freed the pool
    pc, picked,             \* where each thread is; picked_task of each worker
    st,                     \* history: what has become of each task
    log, started,           \* history: tasks in the order added, and started
    before                  \* history: tasks added before a client's wait began

ringVars == <<queueHead, queueTail, taskQueue>>
condVars == <<workAvailable, done>>
history  == <<st, log, started, before>>
vars == <<ringVars, scheduled, condVars, alive, pc, picked, history>>

Goto(t, l) == pc' = [pc EXCEPT ![t] = l]
Mark(t, s) == st' = [st EXCEPT ![t] = s]
Added == {t \in Tasks : st[t] # "new"}

Init ==
    /\ queueHead = 0 /\ queueTail = 0
    /\ taskQueue = [i \in Slots |-> NoTask]
    /\ scheduled = 0
    /\ workAvailable = {} /\ done = {}
    /\ alive = TRUE
    /\ pc = [t \in Workers \cup Clients |-> IF t \in Workers THEN "loop" ELSE "idle"]
    /\ picked = [w \in Workers |-> NoTask]
    /\ st = [t \in Tasks |-> "new"]
    /\ log = << >> /\ started = << >>
    /\ before = [c \in Clients |-> {}]

-----------------------------------------------------------------------------
(* Definitions whose name starts with Mut are plausible bugs in the one that  *)
(* follows; they show that the properties can fail.                           *)

(* pool_add_task: the broadcast precedes the insertion, under the same lock,   *)
(* and nothing tests whether the ring is full.                                 *)
MutWakeNone == UNCHANGED workAvailable
WakeWorkers == workAvailable' = {}

MutStoreLate(t) == taskQueue' = [taskQueue EXCEPT ![(queueTail + 1) % TaskQueueMax] = t]
Store(t) == taskQueue' = [taskQueue EXCEPT ![queueTail % TaskQueueMax] = t]

AddTask(t) ==
    /\ alive /\ st[t] = "new"
    /\ queueTail - queueHead < MaxOutstanding
    /\ \/ queueHead = queueTail /\ WakeWorkers
       \/ queueHead # queueTail /\ UNCHANGED workAvailable
    /\ Store(t)
    /\ queueTail' = queueTail + 1
    /\ Mark(t, "added") /\ log' = Append(log, t)
    /\ UNCHANGED <<queueHead, scheduled, done, alive, pc, picked, started, before>>

-----------------------------------------------------------------------------
(* worker_thread_func *)

Looping(w) == pc[w] = "loop" /\ w \notin workAvailable /\ alive

WorkerSleep(w) ==
    /\ Looping(w) /\ queueHead = queueTail
    /\ workAvailable' = workAvailable \cup {w}
    /\ UNCHANGED <<ringVars, scheduled, done, alive, pc, picked, history>>

MutScheduleNot == UNCHANGED scheduled
Schedule == scheduled' = scheduled + 1

MutSlotAfter(i) == (i + 1) % TaskQueueMax
SlotOf(i) == i % TaskQueueMax

WorkerPick(w) ==
    LET t == taskQueue[SlotOf(queueHead)] IN
    /\ Looping(w) /\ queueHead # queueTail
    /\ picked' = [picked EXCEPT ![w] = t]
    /\ queueHead' = queueHead + 1
    /\ Schedule
    /\ Goto(w, "run") /\ Mark(t, "running")
    /\ started' = Append(started, t)
    /\ UNCHANGED <<queueTail, taskQueue, condVars, alive, log, before>>

MutSignalNever == UNCHANGED done
SignalDone ==
    \/ scheduled' = 0 /\ done # {} /\ \E c \in done : done' = done \ {c}
    \/ (scheduled' # 0 \/ done = {}) /\ UNCHANGED done

\* The task returns and its worker accounts for it.
WorkerFinish(w) ==
    /\ pc[w] = "run" /\ alive
    /\ scheduled' = scheduled - 1
    /\ SignalDone
    /\ picked' = [picked EXCEPT ![w] = NoTask]
    /\ Goto(w, "loop") /\ Mark(picked[w], "finished")
    /\ UNCHANGED <<ringVars, workAvailable, alive, log, started, before>>

-----------------------------------------------------------------------------
(* pool_wait, and pool_destroy, which begins with one *)

WaitCall(c) ==
    /\ pc[c] = "idle" /\ alive
    /\ Goto(c, IF c \in Destroyers THEN "destroy" ELSE "wait")
    /\ before' = [before EXCEPT ![c] = Added]
    /\ UNCHANGED <<ringVars, scheduled, condVars, alive, picked, st, log, started>>

Waiting(c) == pc[c] \in {"wait", "destroy"} /\ c \notin done /\ alive

WaitSleep(c) ==
    /\ Waiting(c) /\ scheduled > 0
    /\ done' = done \cup {c}
    /\ UNCHANGED <<ringVars, scheduled, workAvailable, alive, pc, picked, history>>

WaitReturn(c) ==
    /\ Waiting(c) /\ ~(scheduled > 0)
    /\ Goto(c, IF pc[c] = "destroy" THEN "free" ELSE "idle")
    /\ UNCHANGED <<ringVars, scheduled, condVars, alive, picked, history>>

DestroyFree(c) ==
    /\ pc[c] = "free" /\ alive
    /\ alive' = FALSE
    /\ Goto(c, "returned")
    /\ UNCHANGED <<ringVars, scheduled, condVars, picked, history>>

-----------------------------------------------------------------------------
SpuriousWakeup ==
    /\ alive
    /\ \E t \in workAvailable \cup done :
          workAvailable' = workAvailable \ {t} /\ done' = done \ {t}
    /\ UNCHANGED <<ringVars, scheduled, alive, pc, picked, history>>

WorkerStep(w) == WorkerSleep(w) \/ WorkerPick(w) \/ WorkerFinish(w)
ClientStep(c) == WaitSleep(c) \/ WaitReturn(c) \/ DestroyFree(c)

Next ==
    \/ \E t \in Tasks : AddTask(t)
    \/ \E w \in Workers : WorkerStep(w)
    \/ \E c \in Clients : WaitCall(c) \/ ClientStep(c)
    \/ SpuriousWakeup

Spec == Init /\ [][Next]_vars

\* A thread inside the library that can run eventually does, and tasks return;
\* calls and spurious wakeups are owed to nobody.
FairSpec ==
    /\ Spec
    /\ \A w \in Workers : WF_vars(WorkerStep(w))
    /\ \A c \in Clients : WF_vars(ClientStep(c))

-----------------------------------------------------------------------------
(* Properties *)

WorkerAt == {"loop", "run"}
ClientAt == {"idle", "wait", "destroy", "free", "returned"}

TypeOK ==
    /\ queueHead \in Nat /\ queueTail \in Nat /\ scheduled \in Nat
    /\ taskQueue \in [Slots -> Tasks \cup {NoTask}]
    /\ workAvailable \subseteq Workers /\ done \subseteq Clients
    /\ alive \in BOOLEAN
    /\ pc \in [Workers \cup Clients -> WorkerAt \cup ClientAt]
    /\ picked \in [Workers -> Tasks \cup {NoTask}]
    /\ st \in [Tasks -> {"new", "added", "running", "finished"}]
    /\ log \in Seq(Tasks) /\ started \in Seq(Tasks)
    /\ before \in [Clients -> SUBSET Tasks]

\* As long as the clients keep to the ring's size, the slots between head and tail
\* hold the tasks added and not picked, in order (threadpool.c lines 94-95, 131-132).
RingHoldsQueued ==
    /\ queueHead <= queueTail /\ queueTail - queueHead <= TaskQueueMax
    /\ queueTail = Len(log)
    /\ \A i \in queueHead .. queueTail - 1 : taskQueue[i % TaskQueueMax] = log[i + 1]

\* Tasks are started in the order they were added, none skipped and none twice
\* (lines 86-95 against 122-132).
StartedInOrder == Len(started) <= Len(log) /\ started = SubSeq(log, 1, Len(started))

\* scheduled is the number of workers between a pick and the end of its task
\* (lines 98, 106): the count pool_wait relies on never drifts.
ScheduledCountsRunning == scheduled = Cardinality({w \in Workers : pc[w] = "run"})

\* When pool_wait returns, the tasks added before the call have been executed
\* ("Blocks until the thread pool is done executing its tasks").
WaitMeansDone ==
    [][\A c \in Clients : pc[c] \in {"wait", "destroy"} /\ pc'[c] \in {"idle", "free"}
          => \A t \in before[c] : st[t] = "finished"]_vars

\* Every task added is run, unless the pool is freed first (lines 75-135).
EveryTaskRuns == \A t \in Tasks : st[t] = "added" ~> (st[t] = "finished" \/ ~alive)

\* pool_wait returns once the clients stop adding (lines 105-112, 138-148).
WaitReturns == \A c \in Waiters : pc[c] = "wait" ~> (pc[c] = "idle" \/ ~alive)
=============================================================================
