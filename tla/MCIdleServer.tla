---------------------------- MODULE MCIdleServer ----------------------------
(* Small instances of IdleServer for TLC, and the list of timers by itself. *)
EXTENDS IdleServer

L == INSTANCE TimerList WITH Cells <- 1 .. 4, NULL <- 0

\* The list of timers 1 .. n in this order.
Linked(n) == [head |-> IF n = 0 THEN 0 ELSE 1, tail |-> n,
              prev |-> [c \in 1 .. 4 |-> IF c \in 2 .. n THEN c - 1 ELSE 0],
              next |-> [c \in 1 .. 4 |-> IF c < n THEN c + 1 ELSE 0]]

\* Every operation on a list of at most three timers, whose expiry times are any of
\* 0 .. 3 in order, leaves the right timers linked in order: what ListInOrder says of
\* the lists of the server, of any caller's.
ASSUME ListAlone ==
    \A n \in 0 .. 3 : \A expire0 \in [1 .. 4 -> 0 .. 3] :
        (\A i \in 1 .. n - 1 : expire0[i] <= expire0[i + 1]) =>
            LET l == Linked(n)
                With(c, e) == [expire0 EXCEPT ![c] = e]
            IN  /\ L!IsSorted(l, expire0, 1 .. n)
                /\ L!IsSorted(L!AddTimer(l, expire0, 4), expire0, 1 .. n \cup {4})
                /\ \A c \in 1 .. n :
                      /\ L!IsSorted(L!DelTimer(l, c), expire0, 1 .. n \ {c})
                      /\ \A e \in expire0[c] .. 3 :
                            L!IsSorted(L!AdjustTimer(l, With(c, e), c), With(c, e), 1 .. n)
                /\ \A now \in 0 .. 3 :
                      /\ L!Due(l, expire0, now) = {c \in 1 .. n : expire0[c] <= now}
                      /\ L!IsSorted(L!Ticked(l, expire0, now), expire0,
                                    {c \in 1 .. n : expire0[c] > now})
=============================================================================
