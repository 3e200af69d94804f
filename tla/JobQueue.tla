------------------------------ MODULE JobQueue ------------------------------
(***************************************************************************)
(* What a blocking job pool promises its clients, whatever threads, locks  *)
(* and lists it is made of: jobs are accepted into a bounded queue until   *)
(* it is closed, started in the order of their acceptance and at most      *)
(* once each, and the queue is disposed of only when all of them ended.    *)
(***************************************************************************)
EXTENDS Naturals, Sequences

CONSTANTS Jobs, Capacity

VARIABLES
    st,        \* "new", "offered", "refused", "queued", "running" or "done"
    queue,     \* the accepted jobs that were not started
    closed,    \* no job is accepted any more
    disposed   \* the queue does not exist any more

vars == <<st, queue, closed, disposed>>

Become(j, from, to) == st[j] = from /\ st' = [st EXCEPT ![j] = to]

Init ==
    /\ st = [j \in Jobs |-> "new"]
    /\ queue = << >>
    /\ closed = FALSE /\ disposed = FALSE

Offer(j) ==
    /\ ~disposed
    /\ Become(j, "new", "offered")
    /\ UNCHANGED <<queue, closed, disposed>>

Accept(j) ==
    /\ ~closed /\ Len(queue) < Capacity
    /\ Become(j, "offered", "queued")
    /\ queue' = Append(queue, j)
    /\ UNCHANGED <<closed, disposed>>

\* A closed queue refuses; an open one does when memory runs out.
Refuse(j) ==
    /\ ~disposed
    /\ Become(j, "offered", "refused")
    /\ UNCHANGED <<queue, closed, disposed>>

Start(j) ==
    /\ ~disposed
    /\ queue # << >> /\ j = Head(queue)
    /\ Become(j, "queued", "running")
    /\ queue' = Tail(queue)
    /\ UNCHANGED <<closed, disposed>>

Finish(j) ==
    /\ ~disposed
    /\ Become(j, "running", "done")
    /\ UNCHANGED <<queue, closed, disposed>>

Close ==
    /\ ~closed /\ closed' = TRUE
    /\ UNCHANGED <<st, queue, disposed>>

Dispose ==
    /\ closed /\ ~disposed
    /\ \A j \in Jobs : st[j] \notin {"queued", "running"}
    /\ disposed' = TRUE
    /\ UNCHANGED <<st, queue, closed>>

Next ==
    \/ \E j \in Jobs : Offer(j) \/ Accept(j) \/ Refuse(j) \/ Start(j) \/ Finish(j)
    \/ Close \/ Dispose

Spec == Init /\ [][Next]_vars
=============================================================================
