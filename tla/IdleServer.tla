------------------------------ MODULE IdleServer ------------------------------
(***************************************************************************)
(* The server of src/timer/c++/nonactive_conn.cpp, which closes idle       *)
(* connections: one thread, an edge-triggered epoll set, a timer of        *)
(* TimerList for each connection, and SIGALRM and SIGTERM turned into      *)
(* bytes of a socket pair by the handler.                                  *)
(*                                                                         *)
(* Each event of a batch is one action; peers, signals and time may act    *)
(* between any two.  The descriptor and the timer of a connection are used *)
(* again after it is closed.  An expiry time is kept as the time left,     *)
(* never less than 0: tick does not tell how late it is.                   *)
(***************************************************************************)
EXTENDS TimerList

CONSTANTS
    Fds,          \* the descriptors of connections; as many as there may be connections
    Slot,         \* TIMESLOT
    Timeout,      \* 3 * TIMESLOT
    MaxBacklog    \* bound: connections nobody has accepted

ASSUME IdleServerAssumption ==
    /\ Slot \in Nat \ {0} /\ Timeout \in Nat \ {0} /\ MaxBacklog \in Nat
    /\ IsFiniteSet(Fds) /\ Cardinality(Cells) = Cardinality(Fds)
    /\ NULL \notin Fds /\ "listen" \notin Fds /\ "pipe" \notin Fds

VARIABLES
    open, backlog,      \* the connections that are open, and the number not accepted
    inbox, gone,        \* what a connection has not been read of; its peer has closed it
    edge, batch,        \* events since the last epoll_wait, and those it returned
    signals, alarm,     \* the bytes in pipefd, and the time left to SIGALRM (0: not set)
    timeout, stop, pc,  \* timeout and stop_server; where the server is
    timer,              \* users[fd].timer
    owner,              \* the descriptor of a timer's user_data; NULL once deleted
    expire, list        \* the time left of each timer, and timer_lst

timers == <<timer, owner, expire, list>>
peers  == <<open, backlog, inbox, gone>>
control == <<timeout, stop, pc>>
vars == <<peers, edge, batch, signals, alarm, control, timers>>

Live == {c \in Cells : owner[c] # NULL}

Init ==
    /\ open = {} /\ backlog = 0
    /\ inbox = [f \in Fds |-> "none"] /\ gone = {}
    /\ edge = {} /\ batch = {}
    /\ signals = {} /\ alarm = Slot
    /\ timeout = FALSE /\ stop = FALSE /\ pc = "wait"
    /\ timer = [f \in Fds |-> NULL] /\ owner = [c \in Cells |-> NULL]
    /\ expire = [c \in Cells |-> 0] /\ list = EmptyList

-----------------------------------------------------------------------------
(* Peers, signals and time.  Every arrival is an edge, read or not.            *)

Connect ==
    /\ backlog < MaxBacklog
    /\ Cardinality(open) + backlog < Cardinality(Fds)
    /\ backlog' = backlog + 1 /\ edge' = edge \cup {"listen"}
    /\ UNCHANGED <<open, inbox, gone, batch, signals, alarm, control, timers>>

\* One recv takes all of "some", and a part of "much".
PeerSends(f) ==
    /\ f \in open \ gone
    /\ \E data \in {"some", "much"} :
          /\ inbox[f] = "much" => data = "much"
          /\ inbox' = [inbox EXCEPT ![f] = data]
    /\ edge' = edge \cup {f}
    /\ UNCHANGED <<open, backlog, gone, batch, signals, alarm, control, timers>>

\* A reset loses what was not read.
PeerLeaves(f) ==
    /\ f \in open \ gone
    /\ gone' = gone \cup {f} /\ edge' = edge \cup {f}
    /\ inbox' = inbox \/ inbox' = [inbox EXCEPT ![f] = "none"]
    /\ UNCHANGED <<open, backlog, batch, signals, alarm, control, timers>>

Signal(s) == signals' = signals \cup {s} /\ edge' = edge \cup {"pipe"}

Terminate ==
    /\ "TERM" \notin signals /\ ~stop
    /\ Signal("TERM")
    /\ UNCHANGED <<peers, batch, alarm, control, timers>>

Less(n) == IF n = 0 THEN 0 ELSE n - 1

Pass ==
    /\ alarm' = Less(alarm)
    /\ expire' = [c \in Cells |-> Less(expire[c])]
    /\ \/ alarm = 1 /\ Signal("ALRM")
       \/ alarm # 1 /\ UNCHANGED <<signals, edge>>
    /\ UNCHANGED <<peers, batch, control, timer, owner, list>>

-----------------------------------------------------------------------------
(* The turn of the loop.  A definition whose name starts with Mut is a         *)
(* plausible bug in the one that follows; it shows that a property can fail.   *)

EpollWait ==
    /\ pc = "wait" /\ edge # {}
    /\ batch' = edge /\ edge' = {}
    /\ pc' = "events"
    /\ UNCHANGED <<peers, signals, alarm, timeout, stop, timers>>

Handle(e) == pc = "events" /\ e \in batch /\ batch' = batch \ {e}

MutTaken == backlog
Taken == 1

\* One accept for the event.  Adding the descriptor to the set raises an edge if its
\* peer has been heard of already.
Accept(f, c) ==
    /\ Handle("listen") /\ backlog > 0
    /\ f \notin open /\ c \notin Live
    /\ backlog' = backlog - Taken
    /\ open' = open \cup {f}
    /\ \E data \in {"none", "some", "much"}, left \in BOOLEAN :
          /\ inbox' = [inbox EXCEPT ![f] = data]
          /\ gone' = IF left THEN gone \cup {f} ELSE gone
          /\ edge' = IF left \/ data # "none" THEN edge \cup {f} ELSE edge
    /\ timer' = [timer EXCEPT ![f] = c] /\ owner' = [owner EXCEPT ![c] = f]
    /\ expire' = [expire EXCEPT ![c] = Timeout]
    /\ list' = AddTimer(list, expire', c)
    /\ UNCHANGED <<signals, alarm, control>>

ReadSignals ==
    /\ Handle("pipe")
    /\ timeout' = (timeout \/ "ALRM" \in signals)
    /\ stop' = (stop \/ "TERM" \in signals)
    /\ signals' = {}
    /\ UNCHANGED <<peers, edge, alarm, pc, timers>>

\* cb_func for some descriptors: the kernel forgets their events, users does not
\* forget their timers.
Dropped(F) ==
    /\ open' = open \ F /\ gone' = gone \ F /\ edge' = edge \ F
    /\ inbox' = [f \in Fds |-> IF f \in F THEN "none" ELSE inbox[f]]
MutClose(F, T) == Dropped(F) /\ UNCHANGED owner
Close(F, T) == Dropped(F) /\ owner' = [c \in Cells |-> IF c \in T THEN NULL ELSE owner[c]]

RecvNothing(f) ==
    /\ Handle(f) /\ inbox[f] = "none" /\ f \notin gone
    /\ UNCHANGED <<peers, edge, signals, alarm, control, timers>>

RecvEnds(f) ==
    /\ Handle(f) /\ inbox[f] = "none" /\ f \in gone
    /\ Close({f}, {timer[f]})
    /\ list' = DelTimer(list, timer[f])
    /\ UNCHANGED <<backlog, signals, alarm, control, timer, expire>>

MutAdjusted(c) == list
Adjusted(c) == AdjustTimer(list, expire', c)

RecvData(f) ==
    /\ Handle(f) /\ inbox[f] # "none"
    /\ \E rest \in {"none", "some", "much"} :
          /\ inbox[f] = "some" <=> rest = "none"
          /\ inbox' = [inbox EXCEPT ![f] = rest]
    /\ expire' = [expire EXCEPT ![timer[f]] = Timeout]
    /\ list' = Adjusted(timer[f])
    /\ UNCHANGED <<open, backlog, gone, edge, signals, alarm, control, timer, owner>>

MutSetAlarm == UNCHANGED alarm
MutSetAlarmLate == alarm' = Timeout
SetAlarm == alarm' = Slot

Proceed == pc' = IF stop THEN "stopped" ELSE "wait"

\* After the last event of the batch: timer_handler if a SIGALRM was read.
Tick ==
    LET due == Due(list, expire, 0) IN
    /\ pc = "events" /\ batch = {} /\ timeout
    /\ Close({owner[c] : c \in due}, due)
    /\ list' = Ticked(list, expire, 0)
    /\ SetAlarm
    /\ timeout' = FALSE /\ Proceed
    /\ UNCHANGED <<backlog, batch, signals, stop, timer, expire>>

NoTick ==
    /\ pc = "events" /\ batch = {} /\ ~timeout
    /\ Proceed
    /\ UNCHANGED <<peers, edge, batch, signals, alarm, timeout, stop, timers>>

-----------------------------------------------------------------------------
Environment ==
    \/ Connect \/ Terminate
    \/ \E f \in Fds : PeerSends(f) \/ PeerLeaves(f)
Server ==
    \/ EpollWait \/ ReadSignals \/ Tick \/ NoTick
    \/ \E f \in Fds : RecvNothing(f) \/ RecvEnds(f) \/ RecvData(f) \/ \E c \in Cells : Accept(f, c)

Next == pc # "stopped" /\ (Environment \/ Pass \/ Server)

Spec == Init /\ [][Next]_vars

\* Time passes and the server runs; peers and SIGTERM are owed to nobody.
FairSpec == Spec /\ WF_vars(pc # "stopped" /\ Pass) /\ WF_vars(pc # "stopped" /\ Server)

-----------------------------------------------------------------------------
(* Properties *)

Events == Fds \cup {"listen", "pipe"}

TypeOK ==
    /\ open \subseteq Fds /\ backlog \in Nat /\ gone \subseteq open
    /\ inbox \in [Fds -> {"none", "some", "much"}]
    /\ edge \subseteq Events /\ batch \subseteq Events
    /\ signals \subseteq {"ALRM", "TERM"} /\ alarm \in 0 .. Slot
    /\ timeout \in BOOLEAN /\ stop \in BOOLEAN /\ pc \in {"wait", "events", "stopped"}
    /\ timer \in [Fds -> Pointers] /\ owner \in [Cells -> Fds \cup {NULL}]
    /\ expire \in [Cells -> 0 .. Timeout] /\ list \in Lists

\* The list links the timers that were not deleted in the order of their expiry, and
\* still does whatever operation a caller makes next: adding a timer that expires at any
\* time, moving one to any later time, deleting any, a tick at any time, which fires the
\* timers that expired and no others (lst_timer.h lines 85-278).
ListInOrder ==
    LET With(c, e) == [expire EXCEPT ![c] = e] IN
    /\ IsSorted(list, expire, Live)
    /\ \A e \in 0 .. Timeout :
          /\ \A c \in Cells \ Live :
                IsSorted(AddTimer(list, With(c, e), c), With(c, e), Live \cup {c})
          /\ \A c \in Live : e >= expire[c] =>
                IsSorted(AdjustTimer(list, With(c, e), c), With(c, e), Live)
          /\ Due(list, expire, e) = {c \in Live : expire[c] <= e}
          /\ IsSorted(Ticked(list, expire, e), expire, {c \in Live : expire[c] > e})
    /\ \A c \in Live : IsSorted(DelTimer(list, c), expire, Live \ {c})

\* users[fd].timer of an open connection is a timer in the list that was not deleted,
\* and its own; no other timer is left: however descriptors and timers are used again,
\* recv never moves or deletes a deleted or a foreign timer, and tick never closes one
\* connection for another (lines 166-178, 222-254).
TimersMatch ==
    /\ \A f \in open : timer[f] \in Cells /\ owner[timer[f]] = f
    /\ \A c \in Live : owner[c] \in open /\ timer[owner[c]] = c

\* Every event of a batch finds what it is about: accept a connection that waits, so
\* that it never returns -1, which would be used as an index, and recv a descriptor that
\* is still open and was not closed and used again since (lines 156-165, 217-220).
EventsHold ==
    /\ batch \cap Fds \subseteq open
    /\ "listen" \in edge \cup batch => backlog >= 1
    /\ "listen" \in edge \cap batch => backlog >= 2

\* A connection that the server is not reading anything from is closed: whatever edges
\* were lost, its timer goes off, because each tick sets the alarm for the next
\* (lines 76-87, 199-206, 267-271).
IdleClosed ==
    \A f \in Fds :
        (f \in open /\ expire[timer[f]] < Timeout)
            ~> (f \notin open \/ expire[timer[f]] = Timeout \/ pc = "stopped")
=============================================================================
