------------------------------- MODULE Mailbox -------------------------------
(***************************************************************************)
(* What the mailbox of NetServer promises whoever calls SendMessage,       *)
(* whatever send threads come and go: it holds one message, a call is      *)
(* refused at once or because the mailbox is full, and what was accepted   *)
(* is taken and written once and never lost or given back.                 *)
(***************************************************************************)
CONSTANT Messages

VARIABLE st    \* "new", "offered", "refused", "waiting", "taken" or "written"

Full == \E m \in Messages : st[m] = "waiting"

Become(m, from, to) == st[m] = from /\ st' = [st EXCEPT ![m] = to]

Init == st = [m \in Messages |-> "new"]

Offer(m) == Become(m, "new", "offered")

\* There is no client, or no room.
Refuse(m) == Become(m, "new", "refused") \/ (Full /\ Become(m, "offered", "refused"))

Accept(m) == ~Full /\ Become(m, "offered", "waiting")
Take(m) == Become(m, "waiting", "taken")
Write(m) == Become(m, "taken", "written")

Next == \E m \in Messages : Offer(m) \/ Refuse(m) \/ Accept(m) \/ Take(m) \/ Write(m)

Spec == Init /\ [][Next]_st
=============================================================================
