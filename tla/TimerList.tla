------------------------------ MODULE TimerList ------------------------------
(***************************************************************************)
(* sort_timer_lst of src/timer/c++/lst_timer.h: a doubly linked list of    *)
(* timers in the order of their expiry, as operators on its pointers.      *)
(* They are modelled case by case as the code links and unlinks.  The      *)
(* content of a deleted timer is nobody's: it is NULL.                     *)
(***************************************************************************)
EXTENDS Naturals, FiniteSets

CONSTANTS
    Cells,   \* the places new util_timer may return
    NULL

ASSUME CellsAssumption == IsFiniteSet(Cells) /\ NULL \notin Cells

Pointers == Cells \cup {NULL}

\* l.head, l.tail, and the prev and next of every timer
Lists == [head : Pointers, tail : Pointers, prev : [Cells -> Pointers], next : [Cells -> Pointers]]

EmptyList == [head |-> NULL, tail |-> NULL,
              prev |-> [c \in Cells |-> NULL], next |-> [c \in Cells |-> NULL]]

-----------------------------------------------------------------------------
(* add_timer.  The walk stops before the first timer that expires later.       *)

Later(expire, t, n) == expire[t] < expire[n]

Place(l, expire, t, first) ==
    LET Walk[p \in Cells] ==
            IF l.next[p] = NULL \/ Later(expire, t, l.next[p]) THEN p ELSE Walk[l.next[p]]
    IN  Walk[first]

Inserted(l, t, p) ==
    LET n == l.next[p] IN
    IF n = NULL
    THEN [l EXCEPT !.next[p] = t, !.prev[t] = p, !.next[t] = NULL, !.tail = t]
    ELSE [l EXCEPT !.next[p] = t, !.next[t] = n, !.prev[n] = t, !.prev[t] = p]

AddAfter(l, expire, t, first) == Inserted(l, t, Place(l, expire, t, first))

AddTimer(l, expire, t) ==
    IF l.head = NULL THEN [l EXCEPT !.head = t, !.tail = t]
    ELSE IF Later(expire, t, l.head)
         THEN [l EXCEPT !.next[t] = l.head, !.prev[l.head] = t, !.head = t]
         ELSE AddAfter(l, expire, t, l.head)

-----------------------------------------------------------------------------
(* adjust_timer, of a timer whose expiry has moved later *)

AdjustTimer(l, expire, t) ==
    LET n == l.next[t] IN
    IF n = NULL \/ Later(expire, t, n) THEN l
    ELSE IF t = l.head
         THEN AddAfter([l EXCEPT !.head = n, !.prev[n] = NULL, !.next[t] = NULL], expire, t, n)
         ELSE AddAfter([l EXCEPT !.next[l.prev[t]] = n, !.prev[n] = l.prev[t]], expire, t, n)

-----------------------------------------------------------------------------
(* del_timer *)

Unlinked(l, t) ==
    CASE t = l.head /\ t = l.tail -> [l EXCEPT !.head = NULL, !.tail = NULL]
      [] t = l.head /\ t # l.tail -> [l EXCEPT !.head = l.next[t], !.prev[l.next[t]] = NULL]
      [] t # l.head /\ t = l.tail -> [l EXCEPT !.tail = l.prev[t], !.next[l.prev[t]] = NULL]
      [] OTHER -> [l EXCEPT !.next[l.prev[t]] = l.next[t], !.prev[l.next[t]] = l.prev[t]]

Deleted(l, T) == [l EXCEPT !.prev = [c \in Cells |-> IF c \in T THEN NULL ELSE l.prev[c]],
                           !.next = [c \in Cells |-> IF c \in T THEN NULL ELSE l.next[c]]]

DelTimer(l, t) == Deleted(Unlinked(l, t), {t})

-----------------------------------------------------------------------------
(* tick: the timers it fires, from the head on, and the list it leaves.        *)
(* tail keeps its value when the list becomes empty.                           *)

Due(l, expire, now) ==
    LET From[p \in Pointers] ==
            IF p = NULL THEN {}
            ELSE IF now < expire[p] THEN {}
            ELSE {p} \cup From[l.next[p]]
    IN  From[l.head]

FirstLeft(l, fired) ==
    LET Rest[p \in Pointers] ==
            IF p = NULL THEN NULL ELSE IF p \in fired THEN Rest[l.next[p]] ELSE p
    IN  Rest[l.head]

Ticked(l, expire, now) ==
    LET fired == Due(l, expire, now)
        first == FirstLeft(l, fired)
        left == [l EXCEPT !.head = first]
    IN  Deleted(IF first = NULL THEN left ELSE [left EXCEPT !.prev[first] = NULL], fired)

-----------------------------------------------------------------------------
\* The timers of T, and no others, are linked both ways from head to tail in the
\* order of their expiry.
IsSorted(l, expire, T) ==
    LET n == Cardinality(T) IN
    \E s \in [1 .. n -> T] :
        /\ T = {s[i] : i \in 1 .. n}
        /\ IF n = 0 THEN l.head = NULL
           ELSE /\ l.head = s[1] /\ l.prev[s[1]] = NULL
                /\ l.tail = s[n] /\ l.next[s[n]] = NULL
        /\ \A i \in 1 .. n - 1 :
              /\ l.next[s[i]] = s[i + 1] /\ l.prev[s[i + 1]] = s[i]
              /\ expire[s[i]] <= expire[s[i + 1]]
=============================================================================
