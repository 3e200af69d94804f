-------------------------- MODULE SimpleThreadPool --------------------------
(***************************************************************************)
(* The blocking thread pool of src/thread/c/simple_threadpool.c: a bounded *)
(* singly linked job queue, one mutex, three condition variables.          *)
(*                                                                         *)
(* Each action is one critical section of the code (from a lock, or from   *)
(* the return of a pthread_cond_wait, to the next wait or unlock), or one  *)
(* statement outside the mutex.  A condition variable is the set of        *)
(* threads asleep on it: broadcast empties the set, signal removes one     *)
(* member, and POSIX also lets a sleeper return spuriously.  A thread that *)
(* left a set must take the mutex and test its loop condition again.       *)
(*                                                                         *)
(* A freed mutex has no next step: steps that take it ask that the pool is *)
(* alive.  The others (the broadcasts, the joins and the free of           *)
(* threadpool_destory, a job that runs) do not.                            *)
(***************************************************************************)
EXTENDS Naturals, Sequences

CONSTANTS
    Producers,    \* threads that call threadpool_add_job
    Workers,      \* threads created by threadpool_init
    Destroyers,   \* threads that call threadpool_destory, each at most once
    Jobs,         \* the job_t blocks the producers submit
    QueueMax,     \* queue_max_num
    NULL          \* the null job pointer

Threads == Producers \cup Workers \cup Destroyers

ASSUME ThreadsAssumption ==
    /\ Producers \cap Workers = {}
    /\ Producers \cap Destroyers = {}
    /\ Workers \cap Destroyers = {}
ASSUME QueueAssumption == QueueMax \in Nat \ {0} /\ NULL \notin Jobs

VARIABLES
    cur, head, tail, next,                 \* queue_cur_num, head, tail, job->next
    queueClose, poolClose,                 \* queue_close, pool_close
    queueEmpty, queueNotEmpty, queueNotFull, \* sleepers on each condition
    alive,                                 \* FALSE once the pool is freed
    pc,                                    \* where each thread is
    job,                                   \* pjob of producers and workers
    st,                                    \* what has become of each job
    fifo                                   \* history: accepted and not yet taken

queueVars == <<cur, head, tail, next, fifo>>
closeVars == <<queueClose, poolClose>>
condVars  == <<queueEmpty, queueNotEmpty, queueNotFull>>
vars == <<queueVars, closeVars, condVars, alive, pc, job, st>>

Goto(t, l) == pc' = [pc EXCEPT ![t] = l]
Mark(j, s) == st' = [st EXCEPT ![j] = s]
Holds(t, j) == job' = [job EXCEPT ![t] = j]
Closed == queueClose \/ poolClose
Asleep == queueEmpty \cup queueNotEmpty \cup queueNotFull

Init ==
    /\ cur = 0 /\ head = NULL /\ tail = NULL
    /\ next = [j \in Jobs |-> NULL]
    /\ queueClose = FALSE /\ poolClose = FALSE
    /\ queueEmpty = {} /\ queueNotEmpty = {} /\ queueNotFull = {}
    /\ alive = TRUE
    /\ pc = [t \in Threads |-> IF t \in Workers THEN "loop" ELSE "idle"]
    /\ job = [t \in Producers \cup Workers |-> NULL]
    /\ st = [j \in Jobs |-> "new"]
    /\ fifo = << >>

-----------------------------------------------------------------------------
(* The wakeups.  A definition whose name starts with Mut is a plausible bug in *)
(* the definition after it, used to show that a property can fail.             *)

MutWakeOneWorker ==
    \/ queueNotEmpty = {} /\ UNCHANGED queueNotEmpty
    \/ \E w \in queueNotEmpty : queueNotEmpty' = queueNotEmpty \ {w}
MutWakeNoWorker == UNCHANGED queueNotEmpty
WakeWorkers == queueNotEmpty' = {}

MutWakeNoAdder == UNCHANGED queueNotFull
WakeAdders == queueNotFull' = {}

MutSignalNobody == UNCHANGED queueEmpty
SignalQueueEmpty ==
    \/ queueEmpty = {} /\ UNCHANGED queueEmpty
    \/ \E d \in queueEmpty : queueEmpty' = queueEmpty \ {d}

-----------------------------------------------------------------------------
(* threadpool_add_job *)

AddCall(p, j) ==
    /\ pc[p] = "idle" /\ alive
    /\ st[j] = "new"
    /\ Goto(p, "add") /\ Holds(p, j) /\ Mark(j, "offered")
    /\ UNCHANGED <<queueVars, closeVars, condVars, alive>>

Adding(p) == pc[p] = "add" /\ p \notin queueNotFull /\ alive

MutSleepOnNotEmpty(p) ==
    queueNotEmpty' = queueNotEmpty \cup {p} /\ UNCHANGED queueNotFull
SleepOnNotFull(p) ==
    queueNotFull' = queueNotFull \cup {p} /\ UNCHANGED queueNotEmpty

AddWait(p) ==
    /\ Adding(p)
    /\ cur = QueueMax /\ ~Closed
    /\ SleepOnNotFull(p)
    /\ UNCHANGED <<queueVars, closeVars, queueEmpty, alive, pc, job, st>>

AddFails(p) ==
    /\ Goto(p, "idle") /\ Holds(p, NULL) /\ Mark(job[p], "refused")
    /\ UNCHANGED <<queueVars, closeVars, condVars, alive>>

AddRefused(p) == Adding(p) /\ Closed /\ AddFails(p)

MutAddAllowedAlways(p) == Adding(p) /\ cur # QueueMax
AddAllowed(p) == Adding(p) /\ cur # QueueMax /\ ~Closed

AddNoMemory(p) == AddAllowed(p) /\ AddFails(p)

AddEnqueue(p) ==
    LET j == job[p] IN
    /\ AddAllowed(p)
    /\ tail' = j
    /\ \/ /\ head = NULL
          /\ head' = j
          /\ next' = [next EXCEPT ![j] = NULL]
          /\ WakeWorkers
       \/ /\ head # NULL
          /\ next' = [next EXCEPT ![j] = NULL, ![tail] = j]
          /\ UNCHANGED <<head, queueNotEmpty>>
    /\ cur' = cur + 1
    /\ fifo' = Append(fifo, j)
    /\ Goto(p, "idle") /\ Holds(p, NULL) /\ Mark(j, "queued")
    /\ UNCHANGED <<closeVars, queueEmpty, queueNotFull, alive>>

-----------------------------------------------------------------------------
(* threadpool_routine *)

Looping(w) == pc[w] = "loop" /\ w \notin queueNotEmpty /\ alive

WorkerWait(w) ==
    /\ Looping(w)
    /\ cur = 0 /\ ~poolClose
    /\ queueNotEmpty' = queueNotEmpty \cup {w}
    /\ UNCHANGED <<queueVars, closeVars, queueEmpty, queueNotFull, alive, pc, job, st>>

WorkerExit(w) ==
    /\ Looping(w) /\ poolClose
    /\ Goto(w, "exited")
    /\ UNCHANGED <<queueVars, closeVars, condVars, alive, job, st>>

MutDropLast == head' = NULL /\ UNCHANGED tail
DropLast == head' = NULL /\ tail' = NULL

MutKeepHead == UNCHANGED head
AdvanceHead == head' = next[head]

\* The new count is below QueueMax, so the test of line 135 always succeeds.
WorkerTake(w) ==
    /\ Looping(w)
    /\ cur # 0 /\ ~poolClose
    /\ cur' = cur - 1
    /\ \/ /\ cur = 1
          /\ DropLast
          /\ SignalQueueEmpty
          /\ UNCHANGED queueNotFull
       \/ /\ cur # 1
          /\ AdvanceHead /\ UNCHANGED tail
          /\ WakeAdders
          /\ UNCHANGED queueEmpty
    /\ fifo' = Tail(fifo)
    /\ Goto(w, "run") /\ Holds(w, head) /\ Mark(head, "running")
    /\ UNCHANGED <<next, closeVars, queueNotEmpty, alive>>

WorkerFinish(w) ==
    /\ pc[w] = "run"
    /\ Goto(w, "loop") /\ Holds(w, NULL) /\ Mark(job[w], "done")
    /\ UNCHANGED <<queueVars, closeVars, condVars, alive>>

-----------------------------------------------------------------------------
(* threadpool_destory *)

DestroyCall(d) ==
    /\ pc[d] = "idle" /\ alive
    /\ Goto(d, "destroy")
    /\ UNCHANGED <<queueVars, closeVars, condVars, alive, job, st>>

DestroyAgain(d) ==
    /\ pc[d] = "destroy" /\ alive
    /\ queueClose /\ poolClose
    /\ Goto(d, "returned")
    /\ UNCHANGED <<queueVars, closeVars, condVars, alive, job, st>>

\* The loop of lines 158-161 and what follows it up to the unlock.
DrainOrClose(d) ==
    \/ /\ cur # 0
       /\ queueEmpty' = queueEmpty \cup {d} /\ Goto(d, "drain")
       /\ UNCHANGED poolClose
    \/ /\ cur = 0
       /\ poolClose' = TRUE /\ Goto(d, "wakeWorkers")
       /\ UNCHANGED queueEmpty

DestroyClose(d) ==
    /\ pc[d] = "destroy" /\ alive
    /\ ~(queueClose /\ poolClose)
    /\ queueClose' = TRUE
    /\ DrainOrClose(d)
    /\ UNCHANGED <<queueVars, queueNotEmpty, queueNotFull, alive, job, st>>

DestroyDrain(d) ==
    /\ pc[d] = "drain" /\ d \notin queueEmpty /\ alive
    /\ DrainOrClose(d)
    /\ UNCHANGED <<queueVars, queueClose, queueNotEmpty, queueNotFull, alive, job, st>>

DestroyWakeWorkers(d) ==
    /\ pc[d] = "wakeWorkers"
    /\ WakeWorkers
    /\ Goto(d, "wakeAdders")
    /\ UNCHANGED <<queueVars, closeVars, queueEmpty, queueNotFull, alive, job, st>>

DestroyWakeAdders(d) ==
    /\ pc[d] = "wakeAdders"
    /\ WakeAdders
    /\ Goto(d, "join")
    /\ UNCHANGED <<queueVars, closeVars, queueEmpty, queueNotEmpty, alive, job, st>>

\* Line 169 ignores what pthread_join returns.  Of two calls that join the same
\* threads, which is undefined, one is refused at once (EINVAL in glibc): a call
\* that is not alone at the joins may leave them while workers run.
AtJoins(d) == pc[d] \in {"join", "freed"}

Joined(d) ==
    \/ \A w \in Workers : pc[w] = "exited"
    \/ \E e \in Destroyers \ {d} : AtJoins(e)

\* It may also free what another call has freed.
DestroyFree(d) ==
    /\ pc[d] = "join"
    /\ Joined(d)
    /\ alive' = FALSE
    /\ Goto(d, "freed")
    /\ UNCHANGED <<queueVars, closeVars, condVars, job, st>>

-----------------------------------------------------------------------------
SpuriousWakeup ==
    /\ alive
    /\ \E t \in Asleep :
          /\ queueEmpty'    = queueEmpty \ {t}
          /\ queueNotEmpty' = queueNotEmpty \ {t}
          /\ queueNotFull'  = queueNotFull \ {t}
    /\ UNCHANGED <<queueVars, closeVars, alive, pc, job, st>>

ProducerStep(p) == AddWait(p) \/ AddRefused(p) \/ AddNoMemory(p) \/ AddEnqueue(p)
WorkerStep(w)   == WorkerWait(w) \/ WorkerExit(w) \/ WorkerTake(w) \/ WorkerFinish(w)
DestroyerStep(d) ==
    \/ DestroyAgain(d) \/ DestroyClose(d) \/ DestroyDrain(d)
    \/ DestroyWakeWorkers(d) \/ DestroyWakeAdders(d) \/ DestroyFree(d)

Next ==
    \/ \E p \in Producers : (\E j \in Jobs : AddCall(p, j)) \/ ProducerStep(p)
    \/ \E w \in Workers : WorkerStep(w)
    \/ \E d \in Destroyers : DestroyCall(d) \/ DestroyerStep(d)
    \/ SpuriousWakeup

Spec == Init /\ [][Next]_vars

\* A thread inside a library call that can run is eventually scheduled and a
\* free mutex is eventually granted to it; jobs return.  Whether a client makes
\* a call is its own choice, and nobody is owed a spurious wakeup.
Fairness ==
    /\ \A p \in Producers : WF_vars(ProducerStep(p))
    /\ \A w \in Workers : WF_vars(WorkerStep(w))
    /\ \A d \in Destroyers : WF_vars(DestroyerStep(d))

FairSpec == Spec /\ Fairness

-----------------------------------------------------------------------------
(* What makes the pool correct *)

ProducerAt  == {"idle", "add"}
WorkerAt    == {"loop", "run", "exited"}
DestroyerAt == {"idle", "destroy", "drain", "wakeWorkers", "wakeAdders", "join", "freed",
                "returned"}

TypeOK ==
    /\ cur \in Nat
    /\ head \in Jobs \cup {NULL} /\ tail \in Jobs \cup {NULL}
    /\ next \in [Jobs -> Jobs \cup {NULL}]
    /\ queueClose \in BOOLEAN /\ poolClose \in BOOLEAN
    /\ queueEmpty \subseteq Destroyers
    /\ queueNotEmpty \subseteq Workers
    /\ queueNotFull \subseteq Producers
    /\ alive \in BOOLEAN
    /\ pc \in [Threads -> ProducerAt \cup WorkerAt \cup DestroyerAt]
    /\ \A p \in Producers : pc[p] \in ProducerAt
    /\ \A w \in Workers : pc[w] \in WorkerAt
    /\ \A d \in Destroyers : pc[d] \in DestroyerAt
    /\ job \in [Producers \cup Workers -> Jobs \cup {NULL}]
    /\ st \in [Jobs -> {"new", "offered", "refused", "queued", "running", "done"}]
    /\ fifo \in Seq(Jobs)

\* The pointer structure is the list of the accepted jobs nobody has taken, in
\* the order of their acceptance; queue_cur_num counts it and never exceeds
\* queue_max_num (simple_threadpool.c lines 89-99 against 121-130).
QueueIsList ==
    /\ cur = Len(fifo) /\ cur <= QueueMax
    /\ fifo = << >> => head = NULL /\ tail = NULL
    /\ fifo # << >> => /\ head = fifo[1]
                      /\ tail = fifo[Len(fifo)]
                      /\ next[tail] = NULL
    /\ \A i \in 1 .. Len(fifo) - 1 : next[fifo[i]] = fifo[i + 1]

\* A job_t is in one hand at a time: its producer's until it is enqueued, once in
\* the queue, then one worker's, which frees it (lines 80-99, 121-130, 141-143).
JobInOneHand ==
    /\ \A p \in Producers : pc[p] = "add" => job[p] # NULL /\ st[job[p]] = "offered"
    /\ \A w \in Workers : pc[w] = "run" => job[w] # NULL /\ st[job[w]] = "running"
    /\ \A t \in Producers \cup Workers : job[t] # NULL =>
          /\ pc[t] \in {"add", "run"}
          /\ \A u \in Producers \cup Workers : job[u] = job[t] => u = t
    /\ \A j \in Jobs :
          /\ st[j] = "running" => \E w \in Workers : pc[w] = "run" /\ job[w] = j
          /\ st[j] = "queued" => \E i \in 1 .. Len(fifo) : fifo[i] = j
    /\ \A i \in 1 .. Len(fifo) :
          /\ st[fifo[i]] = "queued"
          /\ \A k \in 1 .. Len(fifo) : fifo[k] = fifo[i] => k = i

\* The test of line 152 stays open until pool_close is set, over the whole drain of
\* the first call, so that several calls may pass it and join the workers.
OneAtJoins == \A d, e \in Destroyers : AtJoins(d) /\ AtJoins(e) => d = e

PastTest(d) == pc[d] \in {"drain", "wakeWorkers", "wakeAdders", "join", "freed"}
OnePastTest == \A d, e \in Destroyers : PastTest(d) /\ PastTest(e) => d = e

\* Closing is a one-way street: the pool closes after the queue and only when the
\* queue has drained, and what runs after the unlock of line 163 runs on a closed
\* pool, whatever calls overlap.  A call that joins the workers alone frees the pool
\* after they have exited (lines 157-183).
CloseInOrder ==
    /\ poolClose => queueClose /\ cur = 0
    /\ \A d \in Destroyers :
          /\ pc[d] = "drain" => queueClose
          /\ pc[d] \in {"wakeWorkers", "wakeAdders", "join", "freed"} => poolClose
    /\ ~alive => poolClose
    /\ ~alive /\ OneAtJoins => \A w \in Workers : pc[w] = "exited"

\* When the pool is freed no accepted job is left in the list, whatever calls
\* overlap, and none is running if one call alone joined the workers (lines 157-183).
DestroyDrains ==
    ~alive => /\ head = NULL
              /\ \A j \in Jobs : /\ st[j] # "queued"
                                 /\ OneAtJoins => st[j] # "running"

\* A worker sleeps on queue_not_empty only while there is nothing to do, although
\* add_job broadcasts only when the list was empty; and, if queue_max_num > 1, an
\* adder sleeps on queue_not_full only while the queue is full, although the routine
\* broadcasts only when the queue stays non-empty (lines 70-74, 89-98, 111-115,
\* 131-139).
NoSleepBesideWork ==
    /\ queueNotEmpty # {} => cur = 0
    /\ QueueMax > 1 /\ queueNotFull # {} => cur = QueueMax

\* Every accepted job is run (lines 104-145, 157-161).
AcceptedJobsRun == \A j \in Jobs : st[j] = "queued" ~> st[j] = "done"

\* add_job returns, however often it finds the queue full, unless the pool is freed
\* under it (lines 65-102, 183).
AddReturns ==
    \A p \in Producers : pc[p] = "add" ~> (pc[p] = "idle" \/ ~alive)

\* Once threadpool_destory is called, by one thread or by several, the drain and the
\* wakeups end, and so do the joins of a call that is alone there: the pool is freed.
\* Of two calls at the joins, which is undefined, nothing is claimed (lines 147-185).
DestroyFrees == \A d \in Destroyers : pc[d] = "destroy" ~> (~alive \/ ~OneAtJoins)

\* The pool implements a bounded first-in first-out queue of jobs, each started at
\* most once.  The queue is disposed of, after all its jobs, when the only call that
\* passed the test of line 152 frees it.  A free beside another such call disposes of
\* nothing: it is outside what the abstract queue promises.
DisposedOf == ~alive /\ OnePastTest
JQ == INSTANCE JobQueue WITH queue <- fifo, closed <- queueClose,
                             disposed <- DisposedOf, Capacity <- QueueMax
JobQueueSpec == JQ!Spec
=============================================================================
