------------------------------ MODULE TimerWheel ------------------------------
(***************************************************************************)
(* time_wheel of src/timer/c++/timing_wheel.h: N slots of timers, which    *)
(* tick serves in turn.  The list of a slot is a set: nothing depends on   *)
(* its order.                                                              *)
(***************************************************************************)
EXTENDS Integers

CONSTANTS
    N, TI,      \* the slots, and the time between two ticks
    Timers      \* the places new tw_timer may return

VARIABLES
    cur_slot,
    live,                   \* the timers that are in a slot
    time_slot, rotation,    \* of each timer
    left                    \* history: the ticks each timer was added for, less those since

vars == <<cur_slot, live, time_slot, rotation, left>>

Init ==
    /\ cur_slot = 0 /\ live = {}
    /\ time_slot = [t \in Timers |-> 0] /\ rotation = [t \in Timers |-> 0]
    /\ left = [t \in Timers |-> 0]

Ticks(timeout) == IF timeout < TI THEN 1 ELSE timeout \div TI

AddTimer(t, timeout) ==
    LET ticks == Ticks(timeout) IN
    /\ t \notin live /\ live' = live \cup {t}
    /\ rotation' = [rotation EXCEPT ![t] = ticks \div N]
    /\ time_slot' = [time_slot EXCEPT ![t] = (cur_slot + (ticks % N)) % N]
    /\ left' = [left EXCEPT ![t] = ticks]
    /\ UNCHANGED cur_slot

DelTimer(t) ==
    /\ t \in live /\ live' = live \ {t}
    /\ UNCHANGED <<cur_slot, time_slot, rotation, left>>

Tick ==
    LET here == {t \in live : time_slot[t] = cur_slot} IN
    /\ rotation' = [t \in Timers |-> IF t \in here /\ rotation[t] > 0
                                     THEN rotation[t] - 1 ELSE rotation[t]]
    /\ live' = live \ {t \in here : ~(rotation[t] > 0)}
    /\ cur_slot' = (cur_slot + 1) % N
    /\ left' = [t \in Timers |-> left[t] - 1]
    /\ UNCHANGED time_slot

Next ==
    \/ \E t \in Timers : DelTimer(t) \/ \E timeout \in Nat : AddTimer(t, timeout)
    \/ Tick

Spec == Init /\ [][Next]_vars

-----------------------------------------------------------------------------
(* Properties *)

TypeOK ==
    /\ cur_slot \in 0 .. N - 1 /\ live \subseteq Timers
    /\ time_slot \in [Timers -> 0 .. N - 1] /\ rotation \in [Timers -> Nat]
    /\ left \in [Timers -> Int]

Distance(t) == IF time_slot[t] >= cur_slot THEN time_slot[t] - cur_slot
               ELSE time_slot[t] - cur_slot + N

\* The slot and the rotation of a timer say how many ticks it still has to wait,
\* wherever the wheel stood when it was added (lines 111-116, 176-182, 210).
RotationsLeft == \A t \in live : left[t] = rotation[t] * N + Distance(t)

\* tick fires the timers whose ticks have passed, and no others: one added for n ticks
\* waits for n calls of tick, and the next one fires it, not a slot or a round too soon
\* or too late (lines 112-114, 167-211).
FiresOnTime == [][Tick => live \ live' = {t \in live : left[t] = 0}]_vars
=============================================================================
