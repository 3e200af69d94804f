# Orgrim in TLA+

Orgrim is a collection of C and C++ programs, most of them demonstrations of one
library call or language feature. What has logic of its own, and is hard to
test, is its concurrent code: three thread pools written by hand, a
publish/subscribe ring, a barrier, timers and the servers built around them. This
directory holds TLA+ models of that code, the TLC configurations that check
them, and proofs that TLAPS checks. `PROJECT.json` maps every definition to the
lines it models and lists the hazards line by line.

    tlc -config MCSimpleThreadPool.cfg MCSimpleThreadPool     a run
    tlapm SimpleThreadPoolProof.tla                           the proofs

## 1. Inventory

### Modelled

**simple_threadpool** (`thread/c/simple_threadpool.c`) is a blocking pool in C. State: a
singly linked list of `job_t` blocks (`head`, `tail`, `next`, and the counter
`queue_cur_num`), the flags `queue_close` and `pool_close`, one mutex, three condition
variables. Operations: `threadpool_add_job` (sleeps on a full queue),
`threadpool_routine` (the workers), `threadpool_destory` (drain, close, wake, join,
free). Hard: each broadcast is made under a condition only (lines 89, 131-139), two more
outside the mutex (164-165), the call that destroys races with the calls that add, and a
second such call may pass the test of line 152 while the first one drains. Correct when:
the list is the accepted jobs in order, a job is in one hand, nobody sleeps beside what
he waits for, what was accepted runs before the pool is freed.

**sample1 threadpool** (`thread/threadpool/c/sample1/threadpool.c`) is a ring of
`TASK_QUEUE_MAX` tasks with two indices that only grow and a count `scheduled` of
picked tasks. Operations: `pool_add_task`, `worker_thread_func`, `pool_wait`,
`pool_destroy`. Hard: nothing tests for a full ring, and the count that
`pool_wait` waits on is zero between two picks. Correct when: tasks start once
and in order, the count is that of the running tasks, every task runs and
`pool_wait` returns.

**ThreadPool.h** (`thread/threadpool/c++/`) is a template pool: a list under a lock, a
semaphore with a token per request, a condition variable for `stop()`. Operations:
`append`, `run`, `stop`, the destructor. Hard: list and token are updated in two steps,
and `stop()` reads the list without the lock, then sleeps under a mutex no worker takes.
Correct when: no request is without a token or in two hands, `stop()` leaves no request
and no worker behind, which the destructor, waiting for nobody, relies on.

**CircleBuffer** (`containers/CircleBuffer/c++/`) is a ring of message slots, each
with the set of subscribers that have not read it. State: the set of
subscribers, the position and count of the ring, a read position per subscriber;
a lock for the pool and one per slot. Operations: `Sub`, `UnSub`, `Write`,
`Read`. Hard: two lock orders, a slot chosen under one lock and used under
another, an unsigned count that several threads decrement. Correct when: a field
given back leaves no trace, the count counts, each reader gets its messages in
order, calls return.

**swp::barrier** (`thread/c++/barrier/barrier.h`, copied to
`serial/c++/test_sweeper_baud/`) is a count, a generation and a condition variable.
Hard: it is used again before everybody has left the last round, and the generation is
unsigned and wraps.

**nonactive_conn** (`timer/c++/nonactive_conn.cpp` with `lst_timer.h`) is an epoll
server of one thread that closes idle connections. State: the descriptors,
`users[fd]` with a pointer to a timer of the sorted list, and the timer's pointer back
to the descriptor; SIGALRM and SIGTERM are bytes in a socket pair. Operations: accept,
recv, the signal pipe, `tick`. Hard: edge triggering with one `accept` and one
`recv` per event; `users` still points to timers that `tick` deleted; descriptors and
blocks of memory are used again while events of the same batch wait; the alarm is armed
again by `tick` alone; `adjust_timer` and `del_timer` treat head, tail and middle of
the list by different cases. Correct when: open connections and timers correspond, an
event finds what it is about, the list is in order whatever is done next, and an idle
connection is closed.

**timing wheel** (`timer/c++/timing_wheel.h`) keeps timers in N slots with a count of
rotations. Hard: a timer goes into a slot relative to `cur_slot`, which `tick` serves
before it advances, so that either the slot or the rotation may be off by one. Correct
when: a timer of n ticks fires at the call of `tick` that follows n others.

**NetServer** (`ipc/socket/c++/Sample/Server`) serves one client at a time. State: the
flags and the descriptor, all read and written without a lock; a mailbox for one
message under the mutex of a condition variable; a send thread for each connection
accepted. Operations: the server thread, the send threads, `SendMessage`, the
destructor. Hard: a disconnect wakes no send thread, so that those of earlier clients
stay beside that of the current one; `SendMessage` tests the flags long before it takes
the lock; the destructor changes the descriptor under the server thread. Correct when:
an accepted message is in one place, it does not stay in the mailbox while its
client stays, the destructor returns.

The pools, the ring, the barrier and the wheel are libraries: they do not call each
other, and each is modelled with the client threads its test program has, in any
interleaving. The server of `nonactive_conn` is composed with its list of timers.
What the threaded parts share is the pthread mutex and condition variable, modelled in
the same way everywhere (section 3).

### Not modelled

- *time heap* (`timer/c++/timing_heap.h`): a binary heap with lazy deletion, a
  sequential algorithm that nothing in the repository uses.
- *MemoryPool* (`memory/MemoryPool/c++`): free lists by size, one mutex each; every
  operation is one critical section that moves one block, and no state is read outside
  it. What can go wrong is the arithmetic of `New` (a hazard of `PROJECT.json`).
- *list.c* (`containers/list/c`, a list in C) and the byte framers of the serial
  recorders: sequential code.
- *NetClient*, the client of the Net sample, does not compile: a handler that returns
  nothing is bound to a function that returns a result. Clients of `NetServer` are part
  of its environment.

### Left out

Demonstrations of one call or feature (clocks, files, strings, select, signals,
casts) have no state machine; `nweb`, `ping`, the echo servers and the serial test
programs are I/O and formatting; `producer_consumer_*` and `thread_cond` repeat the
wait loops of the pools; `ctpl_stl.h`, libmicrohttpd, cJSON and cxxopts are third-party
code kept in the tree. `PROJECT.json` has a row for each group.

## 2. Modules

| module | models | state and actions |
|---|---|---|
| `JobQueue` | nothing: it is the abstract promise of a job pool | a job is offered, accepted or refused, started in order, finished; the queue is closed, then disposed of |
| `SimpleThreadPool` | `simple_threadpool.c` | `cur`, `head`, `tail`, `next`, both flags, a set of sleepers per condition; `Add*`, `Worker*`, `Destroy*` |
| `SimpleThreadPoolProof` | | its theorems |
| `TaskPool` | `sample1/threadpool.c` | both indices, the ring, `scheduled`; `AddTask`, `Worker*`, `Wait*`, `DestroyFree` |
| `TaskPoolProof` | | its theorems |
| `SemPool` | `ThreadPool.h` | `workqueue`, `tokens`, `stop`; `Append*`, `Worker*`, `Stop*`, `Delete` |
| `SemPoolProof` | | its theorems |
| `CircleBuffer` | `CircleBuffer.cpp` | `subscribers`, `num`, `writePos`, `subPos`, `data`, `bs`, lock owners; `Sub*`, `UnSub*`, `Write*`, `Read*` |
| `CircleBufferProof` | | its theorems |
| `Barrier` | `barrier.h` | `count`, `generation`, `sleepers`; `WaitSleeps`, `WaitReleases`, `WaitAgain`, `WaitReturns` |
| `BarrierProof` | | its theorems |
| `TimerList` | `lst_timer.h` | no state: the operations of the list on `head`, `tail`, `prev`, `next`, case by case; its walks (`Place`, `Due`, `FirstLeft`) are recursive functions on the cells |
| `IdleServer` | `nonactive_conn.cpp`, on `TimerList` | `open`, `timer`, `owner`, `list`, `edge`, `batch`, `alarm`; `Accept`, `Recv*`, `ReadSignals`, `Tick`, and peers and time |
| `IdleServerProof` | | what the list's operations do to a list of any length, and the server's theorems |
| `TimerWheel` | `timing_wheel.h` | `cur_slot`, `time_slot`, `rotation`; `AddTimer`, `DelTimer`, `Tick` |
| `TimerWheelProof` | | its theorems |
| `Mailbox` | nothing: it is the abstract promise of `SendMessage` | a message is offered, accepted or refused, taken, written |
| `NetServer` | `NetServer.cpp` | `clientFD`, both flags, `mail`, `hand`, `sender`; the server thread, `TestStopClient`, `Sleep`, `Take`, `Write`, `SendMessage`, `Store`, the destructor, and clients |
| `NetServerProof` | | its theorems |
| `MC*` | | the instances for TLC, with one `.cfg` for each question |

`SimpleThreadPool` implements `JobQueue` under the mapping `queue <- fifo`, `closed <-
queueClose`, `disposed <- DisposedOf` (freed by the only call past line 152), `Capacity
<- QueueMax`, and `NetServer` implements `Mailbox` with the stage of a message read off
the place it is in. `fifo`, like the other variables commented "history", decides
nothing the code does: some guards read one only to bound a run (`sent`, `calls`,
`called`), to add each task once (`st`), or to number the messages.

A definition whose name starts with `Mut` is a plausible slip in the definition that
follows it (a wakeup left out, a bound off by one). No specification uses one; with one
put in the place of the right definition, some property fails, which is how each
property was seen to depend on the code.

## 3. How code becomes actions

*Granularity.* Between a lock and the next unlock or wait no other thread sees an
intermediate state, so that a critical section is one action. Where the code
does something between two critical sections, or works without a lock, each statement
that other threads can observe is an action of its own: the two broadcasts of
`threadpool_destory`, the token of `append` after its unlock, each step of `stop()`.
In `CircleBuffer`, where a thread asks for a second lock while it holds one, the
lock held is a variable and the section is split at the second request; that is
what lets the model deadlock where the code does.

*Condition variables.* A condition variable is the set of the threads asleep on
it. Broadcast empties it, signal removes some member, and `SpuriousWakeup` removes
one at any time, as POSIX allows. A thread that has left the set takes the mutex
and tests its loop again.

*Shared variables without a lock.* In `NetServer` each test of the flags or the
descriptor and each assignment is an action of its own; only the critical sections of the
mailbox are whole. A send thread and the server thread meet at a pthread barrier before
either goes on, so that starting the thread and the meeting are one action.

*Events and time.* The edges raised since the last `epoll_wait` are a set, as epoll
reports a descriptor once however many edges it had, and the kernel forgets the edges of
a descriptor that is closed. An expiry time is kept as the time left, never less than
0: `tick` does not tell how late it is, and the model stays finite. What one `recv`
leaves behind is told apart by three amounts: nothing, as much as one call takes, and
more. In `NetServer` a connection has one read's worth unread, or none; a write to a
connection that was reset may kill the process, since only SIGINT is handled. What
happens to a connection is not followed once the server has accepted another: the
server never reads from it again.

*Freed memory.* A step that takes the mutex, and a new call, ask that the pool is
`alive`: what a thread does with a freed mutex has no state to describe it, and that it
can get there is said in section 7. What takes no mutex goes on after the free: a job
that runs, and in `threadpool_destory` the broadcasts, the joins and the free itself, so
that a pool may be freed a second time, and beside a running job.

*Undefined joins.* Two calls of `threadpool_destory` past line 152 join the same
threads, which POSIX leaves undefined; glibc refuses the second join of a thread at once,
and line 169 ignores the result. `Joined` therefore holds when every worker has exited
and, for a call that is not alone at the joins, may hold before.

*Data.* Jobs, requests, connections and readers are model values, a message is its number.
Integers are naturals except where the code relies on their width: the count of
`CircleBuffer` and the generation of the barrier wrap at `UIntMax`.

## 4. Fairness

Each thread inside a library call is weakly fair: if it can take a step from some
point on, it takes one. The scheduler and a mutex that is free again and again
justify this, and jobs are assumed to return. Weak fairness suffices in the pools
and the barrier because a critical section that is one action leaves the mutex free
in every state. In `CircleBuffer` a lock may be held over several states; there the
bounds on messages and subscriptions make the calls that compete for it finite in
number, and what is checked is that no thread waits for ever, not that a lock is
fair among endless callers. Nothing is assumed of clients (no call is owed), of
spurious wakeups, or of which sleeper a signal wakes. No strong fairness is used.

In `IdleServer` time passes and the server's loop runs; peers and SIGTERM are owed to
nobody. In `NetServer` the server thread, the destructor once called, and each send
thread are weakly fair. For a send thread this says that a `write` returns, that is, that
the client reads or leaves. `SendMessage` and the clients are owed nothing. An
`accept` or a `select` may fail at any time (`Failure`), but one that sleeps is not owed a
failure.

## 5. Runs

All bounds are constants named in the `.cfg`. Deadlock is not checked, because every
program here may stop: the clients have made their calls and the workers sleep or
have ended. That a thread is stuck where it should not be is what the liveness
properties say.

**simple_pool** - 2 producers, 2 workers, 2 destroyers, 3 jobs, a queue of 2
(80,623 states). Three jobs fill a queue of two with one adder left asleep; two
workers and two adders are needed for a broadcast to differ from a signal; two
destroyers meet in the drain, and at the joins: the run contains a free beside a
running job, and two frees. `QueueIsList`, `JobInOneHand`, `CloseInOrder`,
`NoSleepBesideWork`, the refinement `JobQueueSpec`, and the liveness properties
`AcceptedJobsRun`, `AddReturns`, `DestroyFrees`. The list, the ownership of jobs, the
wakeups, and that what was accepted is run, survive overlapping calls of
`threadpool_destory`. That workers have exited before the free, and that the free comes, is
claimed only while one call alone is at the joins (`OneAtJoins`), and in the refinement the
queue is disposed of only if one call alone passed line 152 (`OnePastTest`): section 7.

**simple_pool_max_one** (a finding) - with `queue_max_num` = 1 `AddReturns` fails: a
pop leaves the queue empty, the `else` branch that broadcasts `queue_not_full` is
never taken, and the adder sleeps beside an empty queue.

**task_pool** - 2 workers, one waiter, one destroyer, 3 tasks through a ring of 2
(46,466 states): the ring wraps, and two workers finish in either order.
`RingHoldsQueued`, `StartedInOrder`, `ScheduledCountsRunning`, `EveryTaskRuns`,
`WaitReturns`. The clients keep to the size of the ring (`MaxOutstanding`), as the
code expects without testing it.

**task_pool_wait** (a finding) - the header says that `pool_wait` "Blocks until the
thread pool is done executing its tasks"; `WaitMeansDone` fails, because `scheduled`
counts tasks from their pick and not from their addition.

**sem_pool** - 2 workers, 2 clients, 4 requests of which one is a null pointer,
`m_max_requests` 1 (72,759 states). `EveryRequestHasToken`, `RequestInOneHand` (a
request is with its client, once in the list, or with one worker), `StopDrains`,
`AcceptedRequestsRun`, `WorkersEnd`. `stop()` is called when every `append` has
returned, as in `main.cpp`, and `StopDrains` still holds when the pool is deleted. The list
reaches two requests, one over the documented maximum (section 7).

**sem_pool_stop** (a finding) - `StopReturns` fails: the last worker signals
between the test and the sleep of `stop()`.

**circle_buffer** - 3 readers for 2 fields, one writer, a ring of 2, 3 messages, 3
calls of `Sub` (about 232,000 states): a subscription is refused, a field changes
hands, readers are of different speed, the ring is full and is overrun.
`NoGhostSubscriber` holds without condition. `CountIsLive`, `InOrder` and
`CallsReturn` hold as long as the clients were orderly: they subscribe and
unsubscribe on an empty ring only and write to no full one. The history variable
`orderly` records that; it restricts no action, and the disorderly behaviours are
part of the run.

**circle_buffer_count** and **circle_buffer_write** (findings) - what happens
otherwise. The unsigned count falls below 0 where the code means to stop it; and a
`Write` to a full ring, which holds the pool's lock and asks for a slot's, meets a
`Read` that holds the slot's and asks for the pool's.

**barrier** - 4 threads, two generation numbers, 4 rounds (797 states): the
generation wraps twice, and a fast thread enters the next round while others have yet
to wake up. `BarrierHolds`, `OneReturnsTrue`, `EverybodyPasses`.

**idle_server** - 2 connections at a time with 2 timers, a tick every time unit, a
timeout of two (258,097 states): both descriptors and both timers are used again,
events of a batch outlive what they were about, an alarm falls between any two of
them. `TimersMatch`, `EventsHold`, `IdleClosed`, and `ListInOrder`, which also asks
that every operation a caller may make next leaves the list in order. Two timers have no
middle, so `MCIdleServer` evaluates `ListAlone` as an assumption: every operation on
every list of up to three timers with expiry times of 0 to 3. `IdleClosed` is the
guarantee that makes the lost edges harmless: a connection from which the server reads
nothing is closed, since each `tick` arms the next alarm.

**net_server** - 2 clients in turn and 2 messages (462,016 states): the send thread of
the first client is still there beside that of the second, two callers have passed the
test of the flags when one message fits, the destructor comes at any time, and `accept`
or `select` may fail. `EachMessageOnePlace`, `NoSleepBesideMail`, `MailDelivered`,
`DestroyReturns`. `MailDelivered` speaks of a client that has a send thread: after a
thread could not be created, the flags let a message in that nobody sends.
`DestroyReturns` names the two windows in which it may not return: the server thread
asleep in a `select` on no descriptor, and a client accepted after the destructor shut
down the one before.

## 6. Proofs

**SimpleThreadPoolProof**, for any sets of producers, workers, destroyers and jobs
(also infinite ones) and any queue of at least one place. Assumed: the three sets of
threads are disjoint, `QueueMax` is a positive natural, `NULL` is no job.

The inductive invariant is `PoolInv == TypeOK /\ QueueIsList /\ JobInOneHand /\
CloseInOrder`, and none of its parts is inductive alone. That the list is right after an
insertion needs that the job inserted is not in it already, hence `JobInOneHand`;
that a job popped is in one hand needs that `head` is the first of `fifo`, hence
`QueueIsList`; that no job arrives in a closed pool, and so that it is drained, needs
`CloseInOrder`, whose `cur = 0` needs the list in turn. From it follow:

- `ListCorrect`, `JobsInOneHand`, `ClosingOrdered` and `Typing`, its parts;
- `Drained`: when the pool is freed no accepted job is queued, and none is running if
  one call alone joined the workers (`DestroyDrains`);
- `NoSleeperForgotten`: with `PoolInv` at hand, `NoSleepBesideWork` is inductive. A
  worker goes to sleep on an empty queue only, and the insertion that ends this state is
  the one that finds `head` null and broadcasts. With `QueueMax` > 1 the pop that makes
  room leaves a job behind, and so it broadcasts to the adders;
- `PoolImplementsJobQueue`: initial states map to initial states, each action maps to an
  action of `JobQueue` or to a stutter. The free is the disposal if its call is the only
  one past line 152; `DisposalKept` shows that the other steps of overlapping calls
  neither dispose of the queue nor undo it.

No part of the invariant assumes that calls of `threadpool_destory` do not overlap: what
needs a lonely call names it, as `OneAtJoins` or `OnePastTest`.

**BarrierProof**, for any finite set of threads and any `UIntMax` of at least 1, so for
two generation numbers as well as for 2^32. `RoundsAgree` says that a thread is
gathered in the current round, or was released from the one before and has not left, or
is outside, and ties its number of calls to the number of rounds completed;
`CountsMissing` says that `m_count` is the number of threads not gathered. Together they
show that the last thread to come finds every other one gathered, hence nobody
who is still released from the round before: this is why one bit of generation would
do. `BarrierInv` also has `TypeOK` and `SleepersWait`. Assumed: as many threads
call `wait()` as the barrier counts, as its clients do. Proved: `NobodyLeavesEarly`
(`BarrierHolds`), `OneTrueEachRound` (`OneReturnsTrue`), `Typing`.

**TaskPoolProof**, for any tasks, any size of the ring and any finite number of
workers. Assumed: the clients leave no more tasks in the ring than it has slots
(`RespectsRing`), which the code does not test. The lemma `SlotsApart` says that two
indices less than the size apart have different remainders, so that an insertion spares
the slots in use; `HeadCountsStarted` ties the head of the ring to the number of tasks
started. Proved: `RingKept`, `OrderKept`, `CountKept`, `PoolTypes`.

**SemPoolProof**, for finite sets of workers and clients and any maximum. The inductive
invariant adds to the properties what `append` was called with (`Offering`) and that
one client stops an otherwise quiet pool whose list it has seen empty (`Stopping`).
Proved: `TokensSuffice`, `RequestsKept` (`RequestInOneHand`), `StopLeavesNothing`,
`SemPoolTypes`, and the lemma `OneTooMany`: a list of `m_max_requests` requests takes one
more.

**CircleBufferProof**, for any threads and any sizes. Without a condition on the clients:
`PoolHeld` says who holds the pool's lock, and `Ghosts` that a field no subscriber has is
left only in the slots that the reader on its way through `UnSub` has still to visit;
with the lock free there is no such reader. Proved: `NoGhosts`, `CircleTypes`.

With orderly clients the ring is a window on the sequence of messages, and `Ring` says
which one: if `Base` messages were retired, the `num` slots from `writePos` on hold the
messages from `Base + 1` on, no other slot has readers left, and only the first may have
none, while its last reader retires it (`Window`, `Retire`). A reader that has read up to
`last` stands before the slot of message `last + 1` and is marked in exactly the slots
from there on (`Follow`). A writer that has the lock found room behind the window, and
whoever subscribes or unsubscribes found it empty (`Held`). `Ring` needs that a field has
one reader (`Fielded`), which holds of all clients, so the invariant is `RingInv ==
CircleInv /\ Fielded /\ (orderly => Ring)`. The step that carries the proof is the last
read of a message: a reader that empties a slot is at the first slot of the window,
because every message before its own still has a reader, who would be marked in the
reader's slot too (`LastReader`). Proved: `CountRight` (`CountIsLive`), by a bijection
between the window and the slots in use; `ReadersInOrder` (`InOrder`); `OrderlyCount`: the
counter leaves its bounds, as the run **circle_buffer_count** shows it does, after
disorderly calls only.

**NetServerProof**, for any clients and messages. `SenderOnce` (a connection gets one
send thread, which is never started over) is what the mailbox properties need beside the
types. Proved: `NetTyped`, `MessagesKept`, `MailSeen`, and `ServerImplementsMailbox`: each
step maps to a step of `Mailbox` or to a stutter. The mapping takes the stage of a message
from the place it is in, and that a message is in one place only (`MessagesKept`) is what
makes a write the last thing that happens to it.

**IdleServerProof**, for any number of connections. Assumed of the constants: what
`IdleServer` and `TimerList` assume. The proof has two parts.

The list first. A walk of `TimerList` is a recursive function on cells, not on numbers,
and it means something only where the list ends. So the list is taken as a row of `n`
cells (`Chain`). A function that satisfies the recursive equation is exhibited, so that the
walk satisfies it too; then, of the positions from which the walk returns what is
claimed, the least one (`Least`, from `WFMin`) must be the position it starts at, since
otherwise one unfolding of the equation gives a lesser one. Thus `PlaceFound`
(the walk of `add_timer` stops before the first timer that expires later), `DueFound` and
`FirstLeftFound` (`tick` fires a first part of the row, and what is left begins after it).
With them `AddTimerSorts`, `AdjustTimerSorts`, `DelTimerSorts` and `TickSorts` show of every
sorted list, however long, that each operation leaves a sorted list of the right timers;
`SameOrder` shows that the passing of time, which takes one from every expiry above 0, does
too. `MCIdleServer` evaluates the same claims on all lists of up to three timers.

Then the server: `IdleInv` is `Matched /\ Clock /\ TimersInOrder`. That `tick` closes
connections which are open needs that the timers in the list are those of the open
connections, hence `TimersInOrder`; that the list is in order after a `recv` needs that
the expiry only moves later, hence `Clock`. Proved: `ServerTyped`, `ConnectionsTimed`
(`TimersMatch`), `EventsFind` (`EventsHold`), `ListStaysInOrder` (`ListInOrder`).

**TimerWheelProof**, for any positive number of slots and length of a tick. The invariant
`RotationsLeft` says that slot, rotation and `cur_slot` together make up the ticks a timer
still waits. `TimersFireOnTime` follows: a timer fires when none is left, and at no
other tick. `TimerWheel` has no run of its own.

Model-checked only: the liveness properties (`AcceptedJobsRun`, `AddReturns`,
`DestroyFrees`, `EveryTaskRuns`, `WaitReturns`, `AcceptedRequestsRun`, `WorkersEnd`,
`CallsReturn`, `EverybodyPasses`, `IdleClosed`, `MailDelivered`, `DestroyReturns`), since
this prover reaches neither fairness nor `ENABLED`. Every invariant of a passing run, and
the refinement `JobQueueSpec`, is also a theorem. `TimerWheel` and the refinement of
`Mailbox` are proved and belong to no run.

## 7. Limits of what is shown

- Failures of `malloc` and `pthread_*_init` in constructors come before there is any
  concurrency and are left out; `pthread_create` is assumed to succeed. The `malloc` of
  `add_job` may fail (`AddNoMemory`).
- A call that overlaps the end of a pool may touch freed memory: an `add_job` just woken
  by `threadpool_destory`; a worker of the sample1 pool when `pool_destroy` frees it;
  the readers of `CircleBuffer` and the send threads of `NetServer` in their
  destructors. The models stop at the free, except for
  what section 3 lets go on. The pool of `ThreadPool.h` is deleted after
  `stop()`, as in `main.cpp`; deleted without it, its workers would run on.
- In `IdleServer` a failing `accept` or socket call is left out (there are as many
  descriptors as connections), so an index of -1 is not reached. Of two connections that
  arrive within one edge the second waits for a third; nothing claims otherwise.
- Two send threads of `NetServer` that each hold a message may write them in either
  order, and a message for a client that has gone waits for the next one.
- Overlapping calls of `threadpool_destory` are not safe.
  Until `pool_close` is set each call passes line 152. One may then never return, since
  `queue_empty` is signalled and not broadcast (line 133). If both get past line 160
  they join the same threads, which is undefined; both run lines 171-183, so that the
  mutex is destroyed and the pool freed twice, possibly beside a running job.
  `DestroyFrees`, `CloseInOrder` and the refinement claim an orderly end only for a call
  that is alone; without that condition the order of the close and the disposal of the
  refinement fail in the states of **simple_pool**, and of a join that is undefined no
  end can be claimed. After the free the model gives no step to what needs the mutex.
- `ThreadPool.h` documents `m_max_requests` as the largest number of requests in the
  queue (lines 21 and 45), but line 104 compares with `>`, so that the list takes one
  more (`OneTooMany`). No property adopts either bound.
- Of two waiting threads of the sample1 pool the second may sleep on (line 110); the run
  has the one waiter of the test program.
- The sample1 ring is not driven beyond its size, and its `int` indices do not overflow
  in the model.
- `array::at` throws when the loop of `Sub` runs past the array; the model has no next
  step for that thread.

## 8. Plan

What is left, in this order:

1. An abstract set of timers for the list and the wheel together, and `JobQueue` as the
   abstract specification of the other two pools.
2. The destructor of `CircleBuffer`, which wakes its readers to release them.
3. `TimerHeap` (`timing_heap.h`) and `list.c` as pure algorithms, checked against sets
   and sequences; the proofs of `TimerList` show how their loops can be reasoned about.
4. `MemoryPool`, for the index of `New` and the chunk a block is given back to.
