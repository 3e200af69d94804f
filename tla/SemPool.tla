------------------------------ MODULE SemPool ------------------------------
(***************************************************************************)
(* The thread pool of src/thread/threadpool/c++/ThreadPool.h: a list of    *)
(* requests under a lock, a semaphore with one token per request, and a    *)
(* stop() that reads the list without the lock and sleeps on a condition   *)
(* variable whose mutex the workers do not take.                           *)
(***************************************************************************)
EXTENDS Naturals, Sequences, FiniteSets

CONSTANTS
    Workers,        \* the m_thread_number threads
    Clients,        \* threads that call append, and stop when they are done
    Requests,       \* the requests, each appended at most once
    NullRequests,   \* those that are null pointers: taken but not processed
    NoRequest,
    MaxRequests     \* m_max_requests

ASSUME SemPoolAssumption ==
    /\ IsFiniteSet(Workers) /\ Workers # {} /\ Workers \cap Clients = {}
    /\ IsFiniteSet(Clients)
    /\ NullRequests \subseteq Requests /\ NoRequest \notin Requests
    /\ MaxRequests \in Nat \ {0}

VARIABLES
    workqueue,    \* m_workqueue
    tokens,       \* the count of m_queuestat
    emptyCond,    \* the threads asleep on m_emptyqueue_cond
    stop,         \* m_stop
    posted,       \* the tokens posted by stop()
    pc, request,  \* where each thread is and the request it holds
    st            \* history: what has become of each request

vars == <<workqueue, tokens, emptyCond, stop, posted, pc, request, st>>

Goto(t, l) == pc' = [pc EXCEPT ![t] = l]
Holds(t, r) == request' = [request EXCEPT ![t] = r]
Mark(r, s) == st' = [st EXCEPT ![r] = s]

Init ==
    /\ workqueue = << >> /\ tokens = 0 /\ emptyCond = {}
    /\ stop = FALSE /\ posted = 0
    /\ pc = [t \in Workers \cup Clients |-> IF t \in Workers THEN "test" ELSE "idle"]
    /\ request = [t \in Workers \cup Clients |-> NoRequest]
    /\ st = [r \in Requests |-> "new"]

-----------------------------------------------------------------------------
(* append.  A definition whose name starts with Mut is a plausible bug in the  *)
(* one that follows; it shows that a property can fail.                        *)

AppendCall(c, r) ==
    /\ pc[c] = "idle" /\ st[r] = "new"
    /\ \A d \in Clients : pc[d] \in {"idle", "append", "post"}
    /\ Goto(c, "append") /\ Holds(c, r) /\ Mark(r, "offered")
    /\ UNCHANGED <<workqueue, tokens, emptyCond, stop, posted>>

\* The request that comes when the list holds m_max_requests already is not refused.
TooMany == Len(workqueue) > MaxRequests

AppendRefused(c) ==
    /\ pc[c] = "append" /\ TooMany
    /\ Goto(c, "idle") /\ Holds(c, NoRequest) /\ Mark(request[c], "refused")
    /\ UNCHANGED <<workqueue, tokens, emptyCond, stop, posted>>

AppendPush(c) ==
    /\ pc[c] = "append" /\ ~TooMany
    /\ workqueue' = Append(workqueue, request[c])
    /\ Goto(c, "post") /\ Mark(request[c], "queued")
    /\ UNCHANGED <<tokens, emptyCond, stop, posted, request>>

MutNoPost == UNCHANGED tokens
Post == tokens' = tokens + 1

AppendPost(c) ==
    /\ pc[c] = "post"
    /\ Post
    /\ Goto(c, "idle") /\ Holds(c, NoRequest)
    /\ UNCHANGED <<workqueue, emptyCond, stop, posted, st>>

-----------------------------------------------------------------------------
(* run *)

WorkerTest(w) ==
    /\ pc[w] = "test"
    /\ Goto(w, IF stop THEN "exited" ELSE "wait")
    /\ UNCHANGED <<workqueue, tokens, emptyCond, stop, posted, request, st>>

MutTokenReady == tokens >= 0
TokenReady == tokens > 0

WorkerWait(w) ==
    /\ pc[w] = "wait" /\ TokenReady
    /\ tokens' = tokens - 1
    /\ Goto(w, "pop")
    /\ UNCHANGED <<workqueue, emptyCond, stop, posted, request, st>>

WorkerFindsNone(w) ==
    /\ pc[w] = "pop" /\ workqueue = << >>
    /\ Goto(w, "test")
    /\ UNCHANGED <<workqueue, tokens, emptyCond, stop, posted, request, st>>

MutKeepFront == UNCHANGED workqueue
PopFront == workqueue' = Tail(workqueue)

WorkerPop(w) ==
    LET r == Head(workqueue) IN
    /\ pc[w] = "pop" /\ workqueue # << >>
    /\ PopFront
    /\ \/ r \in NullRequests /\ Goto(w, "test") /\ Mark(r, "done") /\ UNCHANGED request
       \/ r \notin NullRequests /\ Goto(w, "process") /\ Mark(r, "taken") /\ Holds(w, r)
    /\ UNCHANGED <<tokens, emptyCond, stop, posted>>

WorkerProcess(w) ==
    /\ pc[w] = "process"
    /\ Goto(w, "check") /\ Holds(w, NoRequest) /\ Mark(request[w], "done")
    /\ UNCHANGED <<workqueue, tokens, emptyCond, stop, posted>>

\* m_emptyqueue_cond.signal(), made without the mutex the sleeper waits with.
SignalEmpty ==
    \/ emptyCond = {} /\ UNCHANGED emptyCond
    \/ \E c \in emptyCond : emptyCond' = emptyCond \ {c}

WorkerCheck(w) ==
    /\ pc[w] = "check"
    /\ \/ workqueue = << >> /\ SignalEmpty
       \/ workqueue # << >> /\ UNCHANGED emptyCond
    /\ Goto(w, "test")
    /\ UNCHANGED <<workqueue, tokens, stop, posted, request, st>>

-----------------------------------------------------------------------------
(* stop, called once, by a client, when every append has returned *)

StopCall(c) ==
    /\ \A d \in Clients : pc[d] = "idle"
    /\ Goto(c, "stopTest")
    /\ UNCHANGED <<workqueue, tokens, emptyCond, stop, posted, request, st>>

MutStopTest(c) == Goto(c, "setStop")
StopTest(c) == Goto(c, IF workqueue = << >> THEN "setStop" ELSE "stopWait")

StopReads(c) ==
    /\ pc[c] = "stopTest" /\ c \notin emptyCond
    /\ StopTest(c)
    /\ UNCHANGED <<workqueue, tokens, emptyCond, stop, posted, request, st>>

StopSleeps(c) ==
    /\ pc[c] = "stopWait"
    /\ emptyCond' = emptyCond \cup {c} /\ Goto(c, "stopTest")
    /\ UNCHANGED <<workqueue, tokens, stop, posted, request, st>>

StopSets(c) ==
    /\ pc[c] = "setStop"
    /\ stop' = TRUE /\ Goto(c, "stopPost")
    /\ UNCHANGED <<workqueue, tokens, emptyCond, posted, request, st>>

MutAllPosted == posted = Cardinality(Workers) - 1
AllPosted == posted = Cardinality(Workers)

StopPosts(c) ==
    /\ pc[c] = "stopPost" /\ ~AllPosted
    /\ tokens' = tokens + 1 /\ posted' = posted + 1
    /\ UNCHANGED <<workqueue, emptyCond, stop, pc, request, st>>

Joined == \A w \in Workers : pc[w] = "exited"

StopJoins(c) ==
    /\ pc[c] = "stopPost" /\ AllPosted /\ Joined
    /\ Goto(c, "stopped")
    /\ UNCHANGED <<workqueue, tokens, emptyCond, stop, posted, request, st>>

\* The destructor, which joins nobody.
Delete(c) ==
    /\ pc[c] = "stopped"
    /\ stop' = TRUE /\ Goto(c, "deleted")
    /\ UNCHANGED <<workqueue, tokens, emptyCond, posted, request, st>>

SpuriousWakeup ==
    /\ \E c \in emptyCond : emptyCond' = emptyCond \ {c}
    /\ UNCHANGED <<workqueue, tokens, stop, posted, pc, request, st>>

-----------------------------------------------------------------------------
WorkerStep(w) ==
    \/ WorkerTest(w) \/ WorkerWait(w) \/ WorkerFindsNone(w)
    \/ WorkerPop(w) \/ WorkerProcess(w) \/ WorkerCheck(w)
ClientStep(c) ==
    \/ AppendRefused(c) \/ AppendPush(c) \/ AppendPost(c)
    \/ StopReads(c) \/ StopSleeps(c) \/ StopSets(c) \/ StopPosts(c) \/ StopJoins(c)
    \/ Delete(c)

Next ==
    \/ \E w \in Workers : WorkerStep(w)
    \/ \E c \in Clients : (\E r \in Requests : AppendCall(c, r)) \/ StopCall(c) \/ ClientStep(c)
    \/ SpuriousWakeup

Spec == Init /\ [][Next]_vars

\* Threads are scheduled and process() returns; sem_wait is not owed a token to a
\* given worker (strong fairness would be), only to some worker.
FairSpec ==
    /\ Spec
    /\ \A w \in Workers : WF_vars(WorkerStep(w))
    /\ \A c \in Clients : WF_vars(ClientStep(c))

-----------------------------------------------------------------------------
(* Properties *)

WorkerPlaces == {"test", "wait", "pop", "process", "check", "exited"}
ClientPlaces == {"idle", "append", "post", "stopTest", "stopWait", "setStop", "stopPost",
                 "stopped", "deleted"}

TypeOK ==
    /\ workqueue \in Seq(Requests) /\ tokens \in Nat
    /\ emptyCond \subseteq Clients
    /\ stop \in BOOLEAN /\ posted \in Nat
    /\ pc \in [Workers \cup Clients -> WorkerPlaces \cup ClientPlaces]
    /\ \A w \in Workers : pc[w] \in WorkerPlaces
    /\ \A c \in Clients : pc[c] \in ClientPlaces
    /\ request \in [Workers \cup Clients -> Requests \cup {NoRequest}]
    /\ st \in [Requests -> {"new", "offered", "refused", "queued", "taken", "done"}]

\* No request lies in the list without a token that will bring a worker to it: in
\* the semaphore, about to be posted, or in a worker's hand (lines 109-111, 155-163).
EveryRequestHasToken ==
    Len(workqueue) <= tokens + Cardinality({c \in Clients : pc[c] = "post"})
                             + Cardinality({w \in Workers : pc[w] = "pop"})

\* An accepted request is in one hand at a time, whatever workers take and clients add
\* between the push, the post, the wait and the pop: once in the list as long as nobody
\* took it, then with one worker as long as it is processed (lines 103-111, 155-169).
RequestInOneHand ==
    /\ \A i, k \in 1 .. Len(workqueue) : workqueue[i] = workqueue[k] => i = k
    /\ \A v, w \in Workers :
          pc[v] = "process" /\ pc[w] = "process" /\ request[v] = request[w] => v = w
    /\ \A r \in Requests :
          /\ st[r] = "queued" <=> \E i \in 1 .. Len(workqueue) : workqueue[i] = r
          /\ st[r] = "taken" <=> \E w \in Workers : pc[w] = "process" /\ request[w] = r

\* When stop() has returned, every request accepted has been processed and no worker
\* is left, so that the requests and the pool may be deleted, and still when the pool
\* is: its destructor waits for nobody (lines 93-97, 126-140).
StopDrains ==
    \A c \in Clients : pc[c] \in {"stopped", "deleted"} =>
        /\ \A r \in Requests : st[r] \notin {"queued", "taken"}
        /\ \A w \in Workers : pc[w] = "exited"

\* Every accepted request is processed (lines 99-113, 150-178).
AcceptedRequestsRun == \A r \in Requests : st[r] = "queued" ~> st[r] = "done"

\* Once m_stop is set, one token per worker ends them all, whatever tokens are
\* left (lines 133-139, 153-161).
WorkersEnd == stop ~> \A w \in Workers : pc[w] = "exited"

\* stop() returns (lines 125-140).
StopReturns == \A c \in Clients : pc[c] = "stopTest" ~> pc[c] = "stopped"
=============================================================================
