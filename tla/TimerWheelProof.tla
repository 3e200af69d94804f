--------------------------- MODULE TimerWheelProof ---------------------------
(* Proofs about TimerWheel, for every number of slots, length of a tick and set *)
(* of timers.                                                                   *)
EXTENDS TimerWheel, TLAPS

WheelAssumption == N \in Nat \ {0} /\ TI \in Nat \ {0}

\* Every timeout is at least one tick (lines 103-110).
LEMMA TicksType ==
    ASSUME WheelAssumption, NEW timeout \in Nat
    PROVE  Ticks(timeout) \in Nat
BY SMT DEF Ticks, WheelAssumption

\* What add_timer computes: the rotation and the distance of the slot make up the
\* ticks (lines 111-114).
LEMMA Placed ==
    ASSUME WheelAssumption, NEW c \in 0 .. N - 1, NEW n \in Nat
    PROVE  /\ n \div N \in Nat
           /\ (c + (n % N)) % N \in 0 .. N - 1
           /\ LET s == (c + (n % N)) % N
              IN  n = (n \div N) * N + (IF s >= c THEN s - c ELSE s - c + N)
<1>1. n % N \in 0 .. N - 1 /\ n \div N \in Nat /\ n = (n \div N) * N + (n % N)
  BY SMT DEF WheelAssumption
<1>2. \A m \in 0 .. N - 1 : (c + m) % N = IF c + m < N THEN c + m ELSE c + m - N
  BY SMT DEF WheelAssumption
<1> DEFINE m == n % N
           q == n \div N
           s == (c + m) % N
<1>3. s = IF c + m < N THEN c + m ELSE c + m - N
  BY <1>1, <1>2
<1>4. m \in 0 .. N - 1 /\ q \in Nat /\ n = q * N + m
  BY <1>1
<1> HIDE DEF m, q, s
<1>5. m = IF s >= c THEN s - c ELSE s - c + N
  BY <1>3, <1>4, SMT DEF WheelAssumption
<1>6. s \in 0 .. N - 1
  BY <1>3, <1>4, SMT DEF WheelAssumption
<1>7. q \in Nat /\ s \in 0 .. N - 1 /\ n = q * N + (IF s >= c THEN s - c ELSE s - c + N)
  BY <1>4, <1>5, <1>6
<1> QED BY <1>7 DEF m, q, s

WheelInv == TypeOK /\ RotationsLeft

LEMMA InitWheel ==
    ASSUME WheelAssumption, Init
    PROVE  WheelInv
BY SMT DEF WheelAssumption, Init, WheelInv, TypeOK, RotationsLeft

\* Every step of the wheel keeps the invariant.
LEMMA StepWheel ==
    ASSUME WheelAssumption, WheelInv, [Next]_vars
    PROVE  WheelInv'
<1> USE DEF WheelInv, WheelAssumption
<1>1. ASSUME NEW t \in Timers, NEW timeout \in Nat, AddTimer(t, timeout)
      PROVE  WheelInv'
  <2> DEFINE n == Ticks(timeout)
             s == (cur_slot + (n % N)) % N
  <2>1. /\ n \in Nat /\ n \div N \in Nat /\ s \in 0 .. N - 1
        /\ n = (n \div N) * N + (IF s >= cur_slot THEN s - cur_slot ELSE s - cur_slot + N)
    BY TicksType, Placed DEF TypeOK
  <2> HIDE DEF n, s
  <2>2. /\ live' = live \cup {t} /\ cur_slot' = cur_slot
        /\ rotation' = [rotation EXCEPT ![t] = n \div N]
        /\ time_slot' = [time_slot EXCEPT ![t] = s]
        /\ left' = [left EXCEPT ![t] = n]
    BY <1>1 DEF AddTimer, n, s
  <2> DEFINE q == n \div N
  <2>3. q \in Nat /\ n = q * N + (IF s >= cur_slot THEN s - cur_slot ELSE s - cur_slot + N)
    BY <2>1
  <2>4. rotation' = [rotation EXCEPT ![t] = q]
    BY <2>2
  <2> HIDE DEF q
  <2>5. TypeOK'
    BY <2>1, <2>2, <2>3, <2>4, SMT DEF TypeOK
  <2>6. RotationsLeft'
    <3> SUFFICES ASSUME NEW u \in live'
                 PROVE  left'[u] = rotation'[u] * N + Distance(u)'
      BY DEF RotationsLeft
    <3>1. CASE u = t
      BY <3>1, <2>1, <2>2, <2>3, <2>4 DEF TypeOK, Distance
    <3>2. CASE u # t
      BY <3>2, <2>2, <2>4 DEF TypeOK, RotationsLeft, Distance
    <3> QED BY <3>1, <3>2
  <2> QED BY <2>5, <2>6
<1>2. ASSUME NEW t \in Timers, DelTimer(t)
      PROVE  WheelInv'
  BY <1>2 DEF DelTimer, TypeOK, RotationsLeft, Distance
<1>3. ASSUME Tick
      PROVE  WheelInv'
  <2>1. cur_slot' = IF cur_slot + 1 = N THEN 0 ELSE cur_slot + 1
    BY <1>3, SMT DEF Tick, TypeOK
  <2>2. TypeOK'
    BY <1>3, <2>1, SMT DEF Tick, TypeOK
  <2>3. RotationsLeft'
    <3> SUFFICES ASSUME NEW u \in live'
                 PROVE  left'[u] = rotation'[u] * N + Distance(u)'
      BY DEF RotationsLeft
    <3>1. /\ u \in live /\ u \in Timers /\ left'[u] = left[u] - 1 /\ time_slot' = time_slot
          /\ left[u] = rotation[u] * N + Distance(u)
      BY <1>3 DEF Tick, TypeOK, RotationsLeft
    <3>2. CASE time_slot[u] = cur_slot
      <4>1. rotation[u] > 0 /\ rotation'[u] = rotation[u] - 1
        BY <1>3, <3>1, <3>2 DEF Tick, TypeOK
      <4>2. Distance(u) = 0 /\ Distance(u)' = N - 1
        <5>1. cur_slot \in 0 .. N - 1 /\ time_slot'[u] = cur_slot
          BY <3>1, <3>2 DEF TypeOK
        <5> QED BY <2>1, <3>2, <5>1, SMT DEF Distance
      <4>3. \A r \in Nat : (r - 1) * N + (N - 1) = r * N - 1
        BY SMT
      <4> QED BY <3>1, <4>1, <4>2, <4>3, SMT DEF TypeOK
    <3>3. CASE time_slot[u] # cur_slot
      <4>1. rotation'[u] = rotation[u]
        BY <1>3, <3>1, <3>3 DEF Tick, TypeOK
      <4> DEFINE s == time_slot[u]
      <4>2. s \in 0 .. N - 1 /\ cur_slot \in 0 .. N - 1 /\ s # cur_slot /\ time_slot'[u] = s
        BY <3>1, <3>3 DEF TypeOK
      <4>3. Distance(u) = IF s >= cur_slot THEN s - cur_slot ELSE s - cur_slot + N
        BY DEF Distance
      <4>4. Distance(u)' = IF s >= cur_slot' THEN s - cur_slot' ELSE s - cur_slot' + N
        BY <4>2 DEF Distance
      <4> HIDE DEF s
      <4>5. Distance(u)' = Distance(u) - 1 /\ Distance(u) \in Int
        BY <2>1, <4>2, <4>3, <4>4, SMT
      <4> QED BY <3>1, <4>1, <4>5, SMT DEF TypeOK
    <3> QED BY <3>2, <3>3
  <2> QED BY <2>2, <2>3
<1>4. ASSUME UNCHANGED vars
      PROVE  WheelInv'
  BY <1>4 DEF vars, TypeOK, RotationsLeft, Distance
<1> QED BY <1>1, <1>2, <1>3, <1>4 DEF Next

\* The wheel keeps its types, and slot and rotation of every timer say how many ticks it
\* still has to wait.
THEOREM WheelCounts ==
    ASSUME WheelAssumption
    PROVE  Spec => [](TypeOK /\ RotationsLeft)
<1>1. Init => WheelInv
  BY InitWheel
<1>2. WheelInv /\ [Next]_vars => WheelInv'
  BY StepWheel
<1> QED BY <1>1, <1>2, PTL DEF Spec, WheelInv

\* tick fires the timers whose ticks have passed and no others (lines 167-211).
THEOREM TimersFireOnTime ==
    ASSUME WheelAssumption
    PROVE  Spec => FiresOnTime
<1>1. WheelInv /\ [Next]_vars => [Tick => live \ live' = {t \in live : left[t] = 0}]_vars
  <2> SUFFICES ASSUME WheelInv, Tick
               PROVE  live \ live' = {t \in live : left[t] = 0}
    OBVIOUS
  <2>1. ASSUME NEW t \in live
        PROVE  left[t] = 0 <=> time_slot[t] = cur_slot /\ ~(rotation[t] > 0)
    <3>1. /\ t \in Timers /\ left[t] = rotation[t] * N + Distance(t) /\ rotation[t] \in Nat
          /\ Distance(t) \in 0 .. N - 1 /\ (Distance(t) = 0 <=> time_slot[t] = cur_slot)
      <4>1. /\ t \in Timers /\ left[t] = rotation[t] * N + Distance(t) /\ rotation[t] \in Nat
            /\ time_slot[t] \in 0 .. N - 1 /\ cur_slot \in 0 .. N - 1
        BY <2>1 DEF WheelInv, TypeOK, RotationsLeft
      <4> DEFINE s == time_slot[t]
      <4>2. Distance(t) = IF s >= cur_slot THEN s - cur_slot ELSE s - cur_slot + N
        BY DEF Distance
      <4> HIDE DEF s
      <4>3. Distance(t) \in 0 .. N - 1 /\ (Distance(t) = 0 <=> s = cur_slot)
        <5>1. s \in 0 .. N - 1 /\ cur_slot \in 0 .. N - 1
          BY <4>1 DEF s
        <5> QED BY <4>2, <5>1, SMT DEF WheelAssumption
      <4> QED BY <4>1, <4>3 DEF s
    <3>2. rotation[t] > 0 => rotation[t] * N >= N
      BY <3>1, SMT DEF WheelAssumption
    <3> QED BY <3>1, <3>2, SMT DEF WheelAssumption
  <2> QED BY <2>1 DEF Tick
<1>2. Init => WheelInv
  BY InitWheel
<1>3. WheelInv /\ [Next]_vars => WheelInv'
  BY StepWheel
<1> QED BY <1>1, <1>2, <1>3, PTL DEF Spec, FiresOnTime
=============================================================================
