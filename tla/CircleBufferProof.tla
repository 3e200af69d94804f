-------------------------- MODULE CircleBufferProof --------------------------
(***************************************************************************)
(* What holds of CircleBuffer for any threads and any sizes of the ring,   *)
(* the bitset and the counter: first whether the clients are orderly or    *)
(* not (the types, and who is marked in the slots), then as long as they   *)
(* are (what the ring holds and where each reader is in it).               *)
(***************************************************************************)
EXTENDS CircleBuffer, FiniteSetTheorems, TLAPS

USE CircleBufferAssumption DEF CircleBufferAssumption

PlaceNames == {"idle", "sub", "mark", "unsub", "unmark", "read", "slot", "retire",
               "advance", "write", "store"}

\* Between its subscription and the end of UnSub a reader has a field; what it waits at
\* is a slot; a thread is where its calls lead.
Places ==
    /\ \A r \in Readers :
          /\ pc[r] \in {"mark", "unsub", "unmark", "read", "slot", "retire", "advance"}
                => field[r] \in Fields
          /\ pc[r] = "slot" => at[r] \in Slots
          /\ pc[r] \notin {"write", "store"}
    /\ \A w \in Writers : pc[w] \in {"idle", "write", "store"}

Typed == TypeOK /\ Places

\* The pool's lock is held across slots by Sub, UnSub and Write.
Holding == {"mark", "unmark", "store"}
PoolHeld == \A t \in Threads : pc[t] \in Holding <=> poolOwner = t

\* Only a reader on its way through UnSub leaves a field in slots that is not a
\* subscriber's, and in those only it has still to visit.
Ghosts ==
    /\ \A s \in Slots : \A f \in bs[s] :
          \/ f \in subscribers
          \/ \E r \in Readers : pc[r] = "unmark" /\ field[r] = f /\ at[r] <= s
    /\ \A r \in Readers : pc[r] = "mark" => field[r] \in subscribers

-----------------------------------------------------------------------------
LEMMA WrapType ==
    ASSUME NEW i \in 0 .. 2 * PoolSize - 1
    PROVE  Wrap(i) \in Slots
BY DEF Wrap, Slots

LEMMA UnsignedType ==
    ASSUME NEW n \in Nat
    PROVE  Unsigned(n) \in 0 .. UIntMax
BY SMT DEF Unsigned

\* Where the threads are after one of them has gone from one place to the next.
LEMMA Moves ==
    ASSUME Typed, NEW t \in Threads, NEW l \in PlaceNames, Goto(t, l)
    PROVE  /\ \A u \in Threads : pc'[u] = IF u = t THEN l ELSE pc[u]
           /\ pc' \in [Threads -> PlaceNames]
<1>1. pc \in [Threads -> PlaceNames]
  BY DEF Typed, TypeOK, PlaceNames
<1> QED BY <1>1 DEF Goto

LEMMA Indexes ==
    ASSUME Typed, NEW t \in Threads, NEW i \in 0 .. 2 * PoolSize, Index(t, i)
    PROVE  /\ \A u \in Threads : at'[u] = IF u = t THEN i ELSE at[u]
           /\ at' \in [Threads -> 0 .. 2 * PoolSize]
<1>1. at \in [Threads -> 0 .. 2 * PoolSize]
  BY DEF Typed, TypeOK
<1> QED BY <1>1 DEF Index

\* The types without the places and the indices of the threads.
DataTyped ==
    /\ subscribers \subseteq Fields
    /\ num \in 0 .. UIntMax /\ writePos \in Slots
    /\ subPos \in [Fields -> Slots]
    /\ data \in [Slots -> Nat] /\ bs \in [Slots -> SUBSET Fields]
    /\ poolOwner \in Threads \cup {NONE} /\ slotOwner \in [Slots -> Readers \cup {NONE}]
    /\ poolCond \subseteq Readers /\ slotCond \subseteq Readers
    /\ field \in [Readers -> Fields \cup {NONE}]
    /\ sent \in Nat /\ last \in [Readers -> Nat] /\ calls \in Nat
    /\ orderly \in BOOLEAN

LEMMA Parts ==
    TypeOK <=> DataTyped /\ pc \in [Threads -> PlaceNames]
                         /\ at \in [Threads -> 0 .. 2 * PoolSize]
BY DEF TypeOK, DataTyped, PlaceNames

LEMMA PartsNext ==
    ASSUME DataTyped', pc' \in [Threads -> PlaceNames], at' \in [Threads -> 0 .. 2 * PoolSize]
    PROVE  TypeOK'
BY DEF TypeOK, DataTyped, PlaceNames

LEMMA CircleInit == Init => Typed /\ PoolHeld /\ Ghosts
<1> SUFFICES ASSUME Init PROVE Typed /\ PoolHeld /\ Ghosts
  OBVIOUS
<1>1. /\ pc \in [Threads -> PlaceNames] /\ at \in [Threads -> 0 .. 2 * PoolSize]
      /\ \A t \in Threads : pc[t] = "idle"
  BY DEF Init, PlaceNames
<1>2. DataTyped
  BY DEF Init, DataTyped, Slots, Fields
<1>3. Places
  BY <1>1 DEF Places, Threads
<1>4. PoolHeld
  BY <1>1 DEF Init, PoolHeld, Holding, Threads
<1>5. Ghosts
  BY <1>1 DEF Init, Ghosts, Threads
<1> QED BY <1>1, <1>2, <1>3, <1>4, <1>5, Parts DEF Typed

-----------------------------------------------------------------------------
\* Sub, UnSub and Read (CircleBuffer.cpp lines 66-121, 188-258).
LEMMA ReaderTyped ==
    ASSUME Typed, NEW r \in Readers,
           SubCall(r) \/ UnSubCall(r) \/ ReadCall(r) \/ ReaderStep(r)
    PROVE  Typed'
<1> r \in Threads /\ r \notin Writers
  BY DEF Threads
<1>1. ASSUME SubCall(r)
      PROVE  Typed'
  <2>1. /\ \A u \in Threads : pc'[u] = IF u = r THEN "sub" ELSE pc[u]
        /\ pc' \in [Threads -> PlaceNames]
    BY <1>1, Moves DEF SubCall, PlaceNames
  <2>3. at' = at /\ at' \in [Threads -> 0 .. 2 * PoolSize]
    BY <1>1 DEF SubCall, Typed, TypeOK
  <2>4. DataTyped'
    BY <1>1, Parts DEF SubCall, Typed, TypeOK, DataTyped, Places, Threads, slotVars, conds, owners, poolVars
  <2>5. Places'
    BY <1>1, <2>1, <2>3 DEF SubCall, Typed, TypeOK, Places, Threads
  <2> QED BY <2>1, <2>3, <2>4, <2>5, PartsNext DEF Typed
<1>2. ASSUME SubFull(r)
      PROVE  Typed'
  <2>1. /\ \A u \in Threads : pc'[u] = IF u = r THEN "idle" ELSE pc[u]
        /\ pc' \in [Threads -> PlaceNames]
    BY <1>2, Moves DEF SubFull, PlaceNames
  <2>3. at' = at /\ at' \in [Threads -> 0 .. 2 * PoolSize]
    BY <1>2 DEF SubFull, Typed, TypeOK
  <2>4. DataTyped'
    BY <1>2, Parts DEF SubFull, Typed, TypeOK, DataTyped, Places, Threads, poolVars, slotVars, owners, conds, history
  <2>5. Places'
    BY <1>2, <2>1, <2>3 DEF SubFull, Typed, TypeOK, Places, Threads
  <2> QED BY <2>1, <2>3, <2>4, <2>5, PartsNext DEF Typed
<1>3. ASSUME SubLocks(r)
      PROVE  Typed'
  <2>1. /\ \A u \in Threads : pc'[u] = IF u = r THEN "mark" ELSE pc[u]
        /\ pc' \in [Threads -> PlaceNames]
    BY <1>3, Moves DEF SubLocks, PlaceNames
  <2>2. writePos \in Slots /\ writePos \in 0 .. 2 * PoolSize
    BY <1>3 DEF SubLocks, Typed, TypeOK, Places, Slots
  <2>3. /\ \A u \in Threads : at'[u] = IF u = r THEN writePos ELSE at[u]
        /\ at' \in [Threads -> 0 .. 2 * PoolSize]
    BY <1>3, <2>2, Indexes DEF SubLocks
  <2>4. DataTyped'
    BY <1>3, Parts DEF SubLocks, Typed, TypeOK, DataTyped, Places, Threads, SetFirstEmptyField, slotVars, conds
  <2>5. Places'
    BY <1>3, <2>1, <2>3 DEF SubLocks, Typed, TypeOK, Places, Threads, SetFirstEmptyField
  <2> QED BY <2>1, <2>3, <2>4, <2>5, PartsNext DEF Typed
<1>4. ASSUME SubMarks(r)
      PROVE  Typed'
  <2>1. pc' = pc /\ pc' \in [Threads -> PlaceNames]
    BY <1>4 DEF SubMarks, Typed, TypeOK, PlaceNames
  <2>2. at[r] + 1 \in 0 .. 2 * PoolSize
    BY <1>4, SMT DEF SubMarks, Typed, TypeOK, Wrap, Slots
  <2>3. /\ \A u \in Threads : at'[u] = IF u = r THEN at[r] + 1 ELSE at[u]
        /\ at' \in [Threads -> 0 .. 2 * PoolSize]
    BY <1>4, <2>2, Indexes DEF SubMarks
  <2>4. DataTyped'
    BY <1>4, Parts DEF SubMarks, Typed, TypeOK, DataTyped, Places, Threads, poolVars, owners, conds, history
  <2>5. Places'
    BY <1>4, <2>1, <2>3 DEF SubMarks, Typed, TypeOK, Places, Threads
  <2> QED BY <2>1, <2>3, <2>4, <2>5, PartsNext DEF Typed
<1>5. ASSUME SubEnds(r)
      PROVE  Typed'
  <2>1. /\ \A u \in Threads : pc'[u] = IF u = r THEN "idle" ELSE pc[u]
        /\ pc' \in [Threads -> PlaceNames]
    BY <1>5, Moves DEF SubEnds, PlaceNames
  <2>2. 0 \in 0 .. 2 * PoolSize
    OBVIOUS
  <2>3. /\ \A u \in Threads : at'[u] = IF u = r THEN 0 ELSE at[u]
        /\ at' \in [Threads -> 0 .. 2 * PoolSize]
    BY <1>5, <2>2, Indexes DEF SubEnds
  <2>4. DataTyped'
    BY <1>5, Parts DEF SubEnds, Typed, TypeOK, DataTyped, Places, Threads, SubPos, slotVars, conds
  <2>5. Places'
    BY <1>5, <2>1, <2>3 DEF SubEnds, Typed, TypeOK, Places, Threads
  <2> QED BY <2>1, <2>3, <2>4, <2>5, PartsNext DEF Typed
<1>6. ASSUME UnSubCall(r)
      PROVE  Typed'
  <2>1. /\ \A u \in Threads : pc'[u] = IF u = r THEN "unsub" ELSE pc[u]
        /\ pc' \in [Threads -> PlaceNames]
    BY <1>6, Moves DEF UnSubCall, PlaceNames
  <2>3. at' = at /\ at' \in [Threads -> 0 .. 2 * PoolSize]
    BY <1>6 DEF UnSubCall, Typed, TypeOK
  <2>4. DataTyped'
    BY <1>6, Parts DEF UnSubCall, Typed, TypeOK, DataTyped, Places, Threads, poolVars, slotVars, owners, conds, history
  <2>5. Places'
    BY <1>6, <2>1, <2>3 DEF UnSubCall, Typed, TypeOK, Places, Threads
  <2> QED BY <2>1, <2>3, <2>4, <2>5, PartsNext DEF Typed
<1>7. ASSUME UnSubLocks(r)
      PROVE  Typed'
  <2>1. /\ \A u \in Threads : pc'[u] = IF u = r THEN "unmark" ELSE pc[u]
        /\ pc' \in [Threads -> PlaceNames]
    BY <1>7, Moves DEF UnSubLocks, PlaceNames
  <2>2. 0 \in 0 .. 2 * PoolSize
    OBVIOUS
  <2>3. /\ \A u \in Threads : at'[u] = IF u = r THEN 0 ELSE at[u]
        /\ at' \in [Threads -> 0 .. 2 * PoolSize]
    BY <1>7, <2>2, Indexes DEF UnSubLocks
  <2>4. DataTyped'
    BY <1>7, Parts DEF UnSubLocks, Typed, TypeOK, DataTyped, Places, Threads, slotVars, conds
  <2>5. Places'
    BY <1>7, <2>1, <2>3 DEF UnSubLocks, Typed, TypeOK, Places, Threads
  <2> QED BY <2>1, <2>3, <2>4, <2>5, PartsNext DEF Typed
<1>8. ASSUME UnSubUnmarks(r)
      PROVE  Typed'
  <2>1. pc' = pc /\ pc' \in [Threads -> PlaceNames]
    BY <1>8 DEF UnSubUnmarks, Typed, TypeOK, PlaceNames
  <2>2. at[r] + 1 \in 0 .. 2 * PoolSize
    BY <1>8, SMT DEF UnSubUnmarks, Typed, TypeOK, Wrap, Slots
  <2>3. /\ \A u \in Threads : at'[u] = IF u = r THEN at[r] + 1 ELSE at[u]
        /\ at' \in [Threads -> 0 .. 2 * PoolSize]
    BY <1>8, <2>2, Indexes DEF UnSubUnmarks
  <2>4. DataTyped'
    BY <1>8, Parts DEF UnSubUnmarks, Typed, TypeOK, DataTyped, Places, Threads, Unmark, poolVars, owners, conds, history
  <2>5. Places'
    BY <1>8, <2>1, <2>3 DEF UnSubUnmarks, Typed, TypeOK, Places, Threads
  <2> QED BY <2>1, <2>3, <2>4, <2>5, PartsNext DEF Typed
<1>9. ASSUME UnSubEnds(r)
      PROVE  Typed'
  <2>1. /\ \A u \in Threads : pc'[u] = IF u = r THEN "idle" ELSE pc[u]
        /\ pc' \in [Threads -> PlaceNames]
    BY <1>9, Moves DEF UnSubEnds, PlaceNames
  <2>2. 0 \in 0 .. 2 * PoolSize
    OBVIOUS
  <2>3. /\ \A u \in Threads : at'[u] = IF u = r THEN 0 ELSE at[u]
        /\ at' \in [Threads -> 0 .. 2 * PoolSize]
    BY <1>9, <2>2, Indexes DEF UnSubEnds
  <2>4. DataTyped'
    BY <1>9, Parts DEF UnSubEnds, Typed, TypeOK, DataTyped, Places, Threads, poolVars, slotVars, conds
  <2>5. Places'
    BY <1>9, <2>1, <2>3 DEF UnSubEnds, Typed, TypeOK, Places, Threads
  <2> QED BY <2>1, <2>3, <2>4, <2>5, PartsNext DEF Typed
<1>10. ASSUME ReadCall(r)
      PROVE  Typed'
  <2>1. /\ \A u \in Threads : pc'[u] = IF u = r THEN "read" ELSE pc[u]
        /\ pc' \in [Threads -> PlaceNames]
    BY <1>10, Moves DEF ReadCall, PlaceNames
  <2>3. at' = at /\ at' \in [Threads -> 0 .. 2 * PoolSize]
    BY <1>10 DEF ReadCall, Typed, TypeOK
  <2>4. DataTyped'
    BY <1>10, Parts DEF ReadCall, Typed, TypeOK, DataTyped, Places, Threads, poolVars, slotVars, owners, conds, history
  <2>5. Places'
    BY <1>10, <2>1, <2>3 DEF ReadCall, Typed, TypeOK, Places, Threads
  <2> QED BY <2>1, <2>3, <2>4, <2>5, PartsNext DEF Typed
<1>11. ASSUME ReadWaitsPool(r)
      PROVE  Typed'
  <2>1. pc' = pc /\ pc' \in [Threads -> PlaceNames]
    BY <1>11 DEF ReadWaitsPool, Typed, TypeOK, PlaceNames
  <2>3. at' = at /\ at' \in [Threads -> 0 .. 2 * PoolSize]
    BY <1>11 DEF ReadWaitsPool, Typed, TypeOK
  <2>4. DataTyped'
    BY <1>11, Parts DEF ReadWaitsPool, Typed, TypeOK, DataTyped, Places, Threads, poolVars, slotVars, owners, history
  <2>5. Places'
    BY <1>11, <2>1, <2>3 DEF ReadWaitsPool, Typed, TypeOK, Places, Threads
  <2> QED BY <2>1, <2>3, <2>4, <2>5, PartsNext DEF Typed
<1>12. ASSUME ReadPicks(r)
      PROVE  Typed'
  <2>1. /\ \A u \in Threads : pc'[u] = IF u = r THEN "slot" ELSE pc[u]
        /\ pc' \in [Threads -> PlaceNames]
    BY <1>12, Moves DEF ReadPicks, PlaceNames
  <2>2. subPos[field[r]] \in Slots /\ subPos[field[r]] \in 0 .. 2 * PoolSize
    BY <1>12 DEF ReadPicks, Typed, TypeOK, Places, Slots
  <2>3. /\ \A u \in Threads : at'[u] = IF u = r THEN subPos[field[r]] ELSE at[u]
        /\ at' \in [Threads -> 0 .. 2 * PoolSize]
    BY <1>12, <2>2, Indexes DEF ReadPicks
  <2>4. DataTyped'
    BY <1>12, Parts DEF ReadPicks, Typed, TypeOK, DataTyped, Places, Threads, poolVars, slotVars, owners, conds, history
  <2>5. Places'
    BY <1>12, <2>1, <2>2, <2>3 DEF ReadPicks, Typed, TypeOK, Places, Threads
  <2> QED BY <2>1, <2>3, <2>4, <2>5, PartsNext DEF Typed
<1>13. ASSUME ReadWaitsSlot(r)
      PROVE  Typed'
  <2>1. pc' = pc /\ pc' \in [Threads -> PlaceNames]
    BY <1>13 DEF ReadWaitsSlot, Typed, TypeOK, PlaceNames
  <2>3. at' = at /\ at' \in [Threads -> 0 .. 2 * PoolSize]
    BY <1>13 DEF ReadWaitsSlot, Typed, TypeOK
  <2>4. DataTyped'
    BY <1>13, Parts DEF ReadWaitsSlot, Typed, TypeOK, DataTyped, Places, Threads, poolVars, slotVars, owners, history
  <2>5. Places'
    BY <1>13, <2>1, <2>3 DEF ReadWaitsSlot, Typed, TypeOK, Places, Threads
  <2> QED BY <2>1, <2>3, <2>4, <2>5, PartsNext DEF Typed
<1>14. ASSUME ReadCopies(r)
      PROVE  Typed'
  <2>1. /\ \A u \in Threads : pc'[u] = IF u = r THEN (IF bs[at[r]] \ {field[r]} = {} THEN "retire" ELSE "advance") ELSE pc[u]
        /\ pc' \in [Threads -> PlaceNames]
    BY <1>14, Moves DEF ReadCopies, PlaceNames
  <2>3. at' = at /\ at' \in [Threads -> 0 .. 2 * PoolSize]
    BY <1>14 DEF ReadCopies, Typed, TypeOK
  <2>4. DataTyped'
    <3>1. at[r] \in Slots
      BY <1>14 DEF ReadCopies, Typed, Places
    <3>2. /\ bs' \in [Slots -> SUBSET Fields] /\ last' \in [Readers -> Nat]
          /\ slotOwner' \in [Slots -> Readers \cup {NONE}]
      BY <1>14, <3>1 DEF ReadCopies, Typed, TypeOK
    <3> QED BY <1>14, <3>1, <3>2
            DEF ReadCopies, Typed, TypeOK, DataTyped, poolVars, conds
  <2>5. Places'
    BY <1>14, <2>1, <2>3 DEF ReadCopies, Typed, TypeOK, Places, Threads
  <2> QED BY <2>1, <2>3, <2>4, <2>5, PartsNext DEF Typed
<1>15. ASSUME ReadRetires(r)
      PROVE  Typed'
  <2>1. /\ \A u \in Threads : pc'[u] = IF u = r THEN "advance" ELSE pc[u]
        /\ pc' \in [Threads -> PlaceNames]
    BY <1>15, Moves DEF ReadRetires, PlaceNames
  <2>3. at' = at /\ at' \in [Threads -> 0 .. 2 * PoolSize]
    BY <1>15 DEF ReadRetires, Typed, TypeOK
  <2>4. DataTyped'
    <3>1. num' \in 0 .. UIntMax
      BY <1>15, UnsignedType DEF ReadRetires, Typed, TypeOK
    <3>2. writePos' \in Slots
      <4>1. writePos + 1 \in 0 .. 2 * PoolSize - 1
        BY DEF Typed, TypeOK, Slots
      <4> QED BY <1>15, <4>1, WrapType DEF ReadRetires
    <3> QED BY <1>15, <3>1, <3>2
            DEF ReadRetires, Typed, TypeOK, DataTyped, slotVars, conds, history
  <2>5. Places'
    BY <1>15, <2>1, <2>3 DEF ReadRetires, Typed, TypeOK, Places, Threads
  <2> QED BY <2>1, <2>3, <2>4, <2>5, PartsNext DEF Typed
<1>16. ASSUME ReadAdvances(r)
      PROVE  Typed'
  <2>1. /\ \A u \in Threads : pc'[u] = IF u = r THEN "idle" ELSE pc[u]
        /\ pc' \in [Threads -> PlaceNames]
    BY <1>16, Moves DEF ReadAdvances, PlaceNames
  <2>2. 0 \in 0 .. 2 * PoolSize
    OBVIOUS
  <2>3. /\ \A u \in Threads : at'[u] = IF u = r THEN 0 ELSE at[u]
        /\ at' \in [Threads -> 0 .. 2 * PoolSize]
    BY <1>16, <2>2, Indexes DEF ReadAdvances
  <2>4. DataTyped'
    <3>1. field[r] \in Fields /\ subPos \in [Fields -> Slots]
      BY <1>16 DEF ReadAdvances, Typed, TypeOK, Places
    <3>2. Wrap(subPos[field[r]] + 1) \in Slots
      <4>1. subPos[field[r]] + 1 \in 0 .. 2 * PoolSize - 1
        BY <3>1 DEF Slots
      <4> QED BY <4>1, WrapType
    <3> QED BY <1>16, <3>1, <3>2
            DEF ReadAdvances, Typed, TypeOK, DataTyped, Next1, slotVars, owners, conds, history
  <2>5. Places'
    BY <1>16, <2>1, <2>3 DEF ReadAdvances, Typed, TypeOK, Places, Threads
  <2> QED BY <2>1, <2>3, <2>4, <2>5, PartsNext DEF Typed
<1> QED BY <1>1, <1>2, <1>3, <1>4, <1>5, <1>6, <1>7, <1>8, <1>9, <1>10, <1>11, <1>12, <1>13, <1>14, <1>15, <1>16
        DEF ReaderStep

\* Write (lines 123-186).
LEMMA WriterTyped ==
    ASSUME Typed, NEW w \in Writers, WriteCall(w) \/ WriterStep(w)
    PROVE  Typed'
<1> w \in Threads /\ w \notin Readers
  BY DEF Threads
<1>1. ASSUME WriteCall(w)
      PROVE  Typed'
  <2>1. /\ \A u \in Threads : pc'[u] = IF u = w THEN "write" ELSE pc[u]
        /\ pc' \in [Threads -> PlaceNames]
    BY <1>1, Moves DEF WriteCall, PlaceNames
  <2>3. at' = at /\ at' \in [Threads -> 0 .. 2 * PoolSize]
    BY <1>1 DEF WriteCall, Typed, TypeOK
  <2>4. DataTyped'
    BY <1>1, Parts DEF WriteCall, Typed, TypeOK, DataTyped, Places, Threads, poolVars, slotVars, owners, conds, history
  <2>5. Places'
    BY <1>1, <2>1, <2>3 DEF WriteCall, Typed, TypeOK, Places, Threads
  <2> QED BY <2>1, <2>3, <2>4, <2>5, PartsNext DEF Typed
<1>2. ASSUME WriteDrops(w)
      PROVE  Typed'
  <2>1. /\ \A u \in Threads : pc'[u] = IF u = w THEN "idle" ELSE pc[u]
        /\ pc' \in [Threads -> PlaceNames]
    BY <1>2, Moves DEF WriteDrops, PlaceNames
  <2>3. at' = at /\ at' \in [Threads -> 0 .. 2 * PoolSize]
    BY <1>2 DEF WriteDrops, Typed, TypeOK
  <2>4. DataTyped'
    BY <1>2, Parts DEF WriteDrops, Typed, TypeOK, DataTyped, Places, Threads, poolVars, slotVars, owners, conds, history
  <2>5. Places'
    BY <1>2, <2>1, <2>3 DEF WriteDrops, Typed, TypeOK, Places, Threads
  <2> QED BY <2>1, <2>3, <2>4, <2>5, PartsNext DEF Typed
<1>3. ASSUME WriteLocks(w)
      PROVE  Typed'
  <2>1. /\ \A u \in Threads : pc'[u] = IF u = w THEN "store" ELSE pc[u]
        /\ pc' \in [Threads -> PlaceNames]
    BY <1>3, Moves DEF WriteLocks, PlaceNames
  <2>2. EndPosition \in Slots /\ EndPosition \in 0 .. 2 * PoolSize
    BY <1>3 DEF WriteLocks, Typed, TypeOK, Places, Slots
  <2>3. /\ \A u \in Threads : at'[u] = IF u = w THEN EndPosition ELSE at[u]
        /\ at' \in [Threads -> 0 .. 2 * PoolSize]
    BY <1>3, <2>2, Indexes DEF WriteLocks
  <2>4. DataTyped'
    BY <1>3, Parts DEF WriteLocks, Typed, TypeOK, DataTyped, Places, Threads, poolVars, slotVars, conds
  <2>5. Places'
    BY <1>3, <2>1, <2>3 DEF WriteLocks, Typed, TypeOK, Places, Threads
  <2> QED BY <2>1, <2>3, <2>4, <2>5, PartsNext DEF Typed
<1>4. ASSUME WriteStores(w)
      PROVE  Typed'
  <2>1. /\ \A u \in Threads : pc'[u] = IF u = w THEN "idle" ELSE pc[u]
        /\ pc' \in [Threads -> PlaceNames]
    BY <1>4, Moves DEF WriteStores, PlaceNames
  <2>2. 0 \in 0 .. 2 * PoolSize
    OBVIOUS
  <2>3. /\ \A u \in Threads : at'[u] = IF u = w THEN 0 ELSE at[u]
        /\ at' \in [Threads -> 0 .. 2 * PoolSize]
    BY <1>4, <2>2, Indexes DEF WriteStores
  <2>4. DataTyped'
    <3>1. num' \in 0 .. UIntMax
      BY <1>4, UnsignedType DEF WriteStores, Counted, Typed, TypeOK
    <3>2. /\ data' \in [Slots -> Nat] /\ bs' \in [Slots -> SUBSET Fields] /\ sent' \in Nat
      <4>1. /\ data' = [data EXCEPT ![at[w]] = sent + 1] /\ sent' = sent + 1
            /\ bs' = [bs EXCEPT ![at[w]] = subscribers]
        BY <1>4 DEF WriteStores
      <4>2. sent \in Nat /\ data \in [Slots -> Nat] /\ bs \in [Slots -> SUBSET Fields]
            /\ subscribers \in SUBSET Fields
        BY DEF Typed, TypeOK
      <4>3. sent + 1 \in Nat
        BY <4>2
      <4> QED BY <4>1, <4>2, <4>3
    <3>3. poolCond' \subseteq Readers /\ slotCond' \subseteq Readers
      BY <1>4 DEF WriteStores, WakeReaders, Typed, TypeOK
    <3> QED BY <1>4, <3>1, <3>2, <3>3
            DEF WriteStores, Typed, TypeOK, DataTyped
  <2>5. Places'
    BY <1>4, <2>1, <2>3 DEF WriteStores, Typed, TypeOK, Places, Threads
  <2> QED BY <2>1, <2>3, <2>4, <2>5, PartsNext DEF Typed
<1> QED BY <1>1, <1>2, <1>3, <1>4 DEF WriterStep

LEMMA TypedStep == Typed /\ [Next]_vars => Typed'
<1> SUFFICES ASSUME Typed, [Next]_vars PROVE Typed'
  OBVIOUS
<1>1. ASSUME UNCHANGED vars \/ SpuriousWakeup PROVE Typed'
  <2>1. /\ pc' = pc /\ at' = at /\ field' = field
        /\ poolCond' \subseteq Readers /\ slotCond' \subseteq Readers
        /\ UNCHANGED <<poolVars, slotVars, owners, history>>
    BY <1>1 DEF SpuriousWakeup, vars, conds, Typed, TypeOK
  <2>2. TypeOK'
    BY <2>1 DEF Typed, TypeOK, poolVars, slotVars, owners, history
  <2> QED BY <2>1, <2>2 DEF Typed, Places
<1> QED BY <1>1, ReaderTyped, WriterTyped DEF Next

-----------------------------------------------------------------------------
\* A step that leaves the subscribers and the pool's lock alone, puts no field into a
\* slot and is not part of a call that holds the lock.
LEMMA Quiet ==
    ASSUME Typed, PoolHeld, Ghosts, NEW t \in Threads, NEW l \in PlaceNames,
           pc[t] \notin Holding, l \notin Holding,
           \A u \in Threads : pc'[u] = IF u = t THEN l ELSE pc[u],
           \A u \in Threads : u # t => at'[u] = at[u],
           UNCHANGED <<subscribers, poolOwner, field>>,
           \A s \in Slots : bs'[s] \subseteq bs[s]
    PROVE  PoolHeld' /\ Ghosts'
<1>1. PoolHeld'
  BY DEF PoolHeld, Holding
<1>2. ASSUME NEW s \in Slots, NEW f \in bs'[s], f \notin subscribers
      PROVE  \E r \in Readers : pc'[r] = "unmark" /\ field'[r] = f /\ at'[r] <= s
  <2>1. PICK r \in Readers : pc[r] = "unmark" /\ field[r] = f /\ at[r] <= s
    BY <1>2 DEF Ghosts
  <2>2. r # t /\ r \in Threads
    BY <2>1 DEF Holding, Threads
  <2> QED BY <2>1, <2>2
<1>3. \A r \in Readers : pc'[r] = "mark" => field'[r] \in subscribers'
  BY DEF Ghosts, Holding, Threads
<1> QED BY <1>1, <1>2, <1>3 DEF Ghosts

\* A step of a reader whose place is unchanged: it goes to sleep.
LEMMA Still ==
    ASSUME PoolHeld, Ghosts, UNCHANGED <<subscribers, poolOwner, field, bs, pc, at>>
    PROVE  PoolHeld' /\ Ghosts'
BY DEF PoolHeld, Ghosts

\* While the pool's lock is free, or its owner is not a reader in UnSub, what is in the
\* slots is subscribed.
LEMMA NoneOther ==
    ASSUME Typed, PoolHeld, Ghosts, NEW t \in Threads \cup {NONE},
           poolOwner = t, t \in Threads => pc[t] # "unmark"
    PROVE  \A s \in Slots : bs[s] \subseteq subscribers
<1>1. \A r \in Readers : pc[r] # "unmark"
  BY DEF PoolHeld, Holding, Threads
<1> QED BY <1>1 DEF Ghosts

LEMMA FreeIsClean ==
    ASSUME Typed, PoolHeld, Ghosts, PoolFree
    PROVE  \A s \in Slots : bs[s] \subseteq subscribers
<1>1. NONE \notin Threads
  BY DEF Threads
<1> QED BY <1>1, NoneOther DEF PoolFree

\* Sub, UnSub and Read (lines 66-121, 188-258).
LEMMA ReaderGhosts ==
    ASSUME Typed, Typed', PoolHeld, Ghosts, NEW r \in Readers,
           SubCall(r) \/ UnSubCall(r) \/ ReadCall(r) \/ ReaderStep(r)
    PROVE  PoolHeld' /\ Ghosts'
<1> r \in Threads /\ r \notin Writers /\ r # NONE
  BY DEF Threads
<1> DEFINE Same == UNCHANGED <<subscribers, poolOwner, field>>
<1>1. ASSUME SubCall(r) \/ UnSubCall(r) \/ ReadCall(r) \/ SubFull(r) \/ ReadPicks(r)
             \/ ReadCopies(r) \/ ReadRetires(r) \/ ReadAdvances(r)
      PROVE  PoolHeld' /\ Ghosts'
  <2>1. PICK l \in PlaceNames \ Holding : Goto(r, l)
    BY <1>1 DEF SubCall, UnSubCall, ReadCall, SubFull, ReadPicks, ReadCopies, ReadRetires,
                ReadAdvances, PlaceNames, Holding
  <2>2. \A u \in Threads : pc'[u] = IF u = r THEN l ELSE pc[u]
    BY <2>1, Moves
  <2>3. pc[r] \notin Holding
    BY <1>1 DEF SubCall, UnSubCall, ReadCall, SubFull, ReadPicks, ReadCopies, ReadRetires,
                ReadAdvances, Holding
  <2>4. \A u \in Threads : u # r => at'[u] = at[u]
    BY <1>1 DEF SubCall, UnSubCall, ReadCall, SubFull, ReadPicks, ReadCopies, ReadRetires,
                ReadAdvances, Index, Typed, TypeOK
  <2>5. Same
    BY <1>1 DEF SubCall, UnSubCall, ReadCall, SubFull, ReadPicks, ReadCopies, ReadRetires,
                ReadAdvances, poolVars, owners
  <2>6. \A s \in Slots : bs'[s] \subseteq bs[s]
    <3>1. CASE ReadCopies(r)
      BY <3>1 DEF ReadCopies, Typed, TypeOK
    <3>2. CASE ~ReadCopies(r)
      BY <1>1, <3>2 DEF SubCall, UnSubCall, ReadCall, SubFull, ReadPicks, ReadRetires,
                        ReadAdvances, slotVars
    <3> QED BY <3>1, <3>2
  <2> QED BY <2>1, <2>2, <2>3, <2>4, <2>5, <2>6, Quiet
<1>2. ASSUME ReadWaitsPool(r) \/ ReadWaitsSlot(r)
      PROVE  PoolHeld' /\ Ghosts'
  BY <1>2, Still DEF ReadWaitsPool, ReadWaitsSlot, poolVars, slotVars, owners
<1>3. ASSUME SubLocks(r)
      PROVE  PoolHeld' /\ Ghosts'
  <2>1. \A u \in Threads : pc'[u] = IF u = r THEN "mark" ELSE pc[u]
    BY <1>3, Moves DEF SubLocks, PlaceNames
  <2>2. \A s \in Slots : bs[s] \subseteq subscribers
    BY <1>3, FreeIsClean DEF SubLocks
  <2>3. PoolHeld'
    BY <1>3, <2>1 DEF SubLocks, PoolFree, PoolHeld, Holding, Threads
  <2>4. PICK f \in Fields : subscribers' = subscribers \cup {f} /\ field' = [field EXCEPT ![r] = f]
    BY <1>3 DEF SubLocks, SetFirstEmptyField
  <2>5. bs' = bs
    BY <1>3 DEF SubLocks, slotVars
  <2>6. field'[r] \in subscribers'
    BY <2>4 DEF Typed, TypeOK
  <2>7. \A q \in Readers : pc'[q] = "mark" => q = r
    BY <1>3, <2>1 DEF SubLocks, PoolFree, PoolHeld, Holding, Threads
  <2> QED BY <2>2, <2>3, <2>4, <2>5, <2>6, <2>7 DEF Ghosts
<1>4. ASSUME SubMarks(r)
      PROVE  PoolHeld' /\ Ghosts'
  <2>1. /\ pc[r] = "mark" /\ pc' = pc /\ field' = field
        /\ UNCHANGED <<subscribers, poolOwner>>
    BY <1>4 DEF SubMarks, poolVars, owners
  <2>2. poolOwner = r /\ field[r] \in subscribers
    BY <2>1 DEF PoolHeld, Ghosts, Holding
  <2>3. \A s \in Slots : bs[s] \subseteq subscribers
    BY <2>1, <2>2, NoneOther
  <2>4. \A s \in Slots : bs'[s] \subseteq subscribers'
    BY <1>4, <2>1, <2>2, <2>3 DEF SubMarks, Typed, TypeOK
  <2> QED BY <2>1, <2>4 DEF PoolHeld, Ghosts
<1>5. ASSUME SubEnds(r)
      PROVE  PoolHeld' /\ Ghosts'
  <2>1. \A u \in Threads : pc'[u] = IF u = r THEN "idle" ELSE pc[u]
    BY <1>5, Moves DEF SubEnds, PlaceNames
  <2>2. /\ pc[r] = "mark" /\ poolOwner' = NONE
        /\ UNCHANGED <<subscribers, field, bs>>
    BY <1>5 DEF SubEnds, slotVars
  <2>3. poolOwner = r
    BY <2>2 DEF PoolHeld, Holding
  <2>4. \A s \in Slots : bs[s] \subseteq subscribers
    BY <2>2, <2>3, NoneOther
  <2>5. \A u \in Threads : pc'[u] \notin Holding /\ u # NONE
    BY <2>1, <2>3 DEF PoolHeld, Holding, Threads
  <2>6. PoolHeld'
    BY <2>2, <2>5 DEF PoolHeld
  <2>7. \A q \in Readers : pc'[q] # "mark"
    BY <2>5 DEF Holding, Threads
  <2> QED BY <2>2, <2>4, <2>6, <2>7 DEF Ghosts
<1>6. ASSUME UnSubLocks(r)
      PROVE  PoolHeld' /\ Ghosts'
  <2>1. \A u \in Threads : pc'[u] = IF u = r THEN "unmark" ELSE pc[u]
    BY <1>6, Moves DEF UnSubLocks, PlaceNames
  <2>2. \A s \in Slots : bs[s] \subseteq subscribers
    BY <1>6, FreeIsClean DEF UnSubLocks
  <2>3. PoolHeld'
    BY <1>6, <2>1 DEF UnSubLocks, PoolFree, PoolHeld, Holding, Threads
  <2>4. /\ bs' = bs /\ field' = field /\ subscribers' = subscribers \ {field[r]}
        /\ at'[r] = 0
    BY <1>6 DEF UnSubLocks, slotVars, Index, Typed, TypeOK
  <2>5. \A s \in Slots : at'[r] <= s
    BY <2>4 DEF Slots
  <2>6. \A q \in Readers : pc'[q] # "mark"
    BY <1>6, <2>1 DEF UnSubLocks, PoolFree, PoolHeld, Holding, Threads
  <2> QED BY <2>1, <2>2, <2>3, <2>4, <2>5, <2>6 DEF Ghosts
<1>7. ASSUME UnSubUnmarks(r)
      PROVE  PoolHeld' /\ Ghosts'
  <2>1. /\ pc[r] = "unmark" /\ pc' = pc /\ field' = field /\ at[r] \in Slots
        /\ UNCHANGED <<subscribers, poolOwner>> /\ at'[r] = at[r] + 1
        /\ bs' = [bs EXCEPT ![at[r]] = @ \ {field[r]}]
    BY <1>7 DEF UnSubUnmarks, Unmark, Index, poolVars, owners, Typed, TypeOK, Slots
  <2>2. poolOwner = r /\ \A q \in Readers : pc[q] \in Holding => q = r
    BY <2>1 DEF PoolHeld, Holding, Threads
  <2>3. ASSUME NEW s \in Slots, NEW f \in bs'[s], f \notin subscribers
        PROVE  field[r] = f /\ at'[r] <= s
    <3>1. f \in bs[s] /\ (s = at[r] => f # field[r])
      BY <2>1, <2>3 DEF Typed, TypeOK
    <3>2. field[r] = f /\ at[r] <= s
      BY <2>2, <2>3, <3>1 DEF Ghosts, Holding
    <3> QED BY <2>1, <3>1, <3>2 DEF Slots
  <2> QED BY <2>1, <2>2, <2>3 DEF PoolHeld, Ghosts, Holding
<1>8. ASSUME UnSubEnds(r)
      PROVE  PoolHeld' /\ Ghosts'
  <2>1. \A u \in Threads : pc'[u] = IF u = r THEN "idle" ELSE pc[u]
    BY <1>8, Moves DEF UnSubEnds, PlaceNames
  <2>2. /\ pc[r] = "unmark" /\ at[r] = PoolSize /\ poolOwner' = NONE
        /\ UNCHANGED <<subscribers, bs>>
    BY <1>8 DEF UnSubEnds, poolVars, slotVars
  <2>3. poolOwner = r /\ \A q \in Readers : pc[q] \in Holding => q = r
    BY <2>2 DEF PoolHeld, Holding, Threads
  <2>4. \A s \in Slots : bs[s] \subseteq subscribers
    BY <2>2, <2>3 DEF Ghosts, Holding, Slots
  <2>5. \A u \in Threads : pc'[u] \notin Holding /\ u # NONE
    BY <2>1, <2>3 DEF PoolHeld, Holding, Threads
  <2>6. PoolHeld'
    BY <2>2, <2>5 DEF PoolHeld
  <2>7. \A q \in Readers : pc'[q] # "mark"
    BY <2>5 DEF Holding, Threads
  <2> QED BY <2>2, <2>4, <2>6, <2>7 DEF Ghosts
<1> QED BY <1>1, <1>2, <1>3, <1>4, <1>5, <1>6, <1>7, <1>8 DEF ReaderStep

\* Write (lines 123-186).
LEMMA WriterGhosts ==
    ASSUME Typed, Typed', PoolHeld, Ghosts, NEW w \in Writers, WriteCall(w) \/ WriterStep(w)
    PROVE  PoolHeld' /\ Ghosts'
<1> w \in Threads /\ w \notin Readers /\ w # NONE
  BY DEF Threads
<1>1. ASSUME WriteCall(w) \/ WriteDrops(w)
      PROVE  PoolHeld' /\ Ghosts'
  <2>1. PICK l \in PlaceNames \ Holding : Goto(w, l)
    BY <1>1 DEF WriteCall, WriteDrops, PlaceNames, Holding
  <2>2. \A u \in Threads : pc'[u] = IF u = w THEN l ELSE pc[u]
    BY <2>1, Moves
  <2>3. pc[w] \notin Holding /\ at' = at /\ bs' = bs /\ UNCHANGED <<subscribers, poolOwner, field>>
    BY <1>1 DEF WriteCall, WriteDrops, Holding, poolVars, slotVars, owners
  <2> QED BY <2>1, <2>2, <2>3, Quiet
<1>2. ASSUME WriteLocks(w)
      PROVE  PoolHeld' /\ Ghosts'
  <2>1. \A u \in Threads : pc'[u] = IF u = w THEN "store" ELSE pc[u]
    BY <1>2, Moves DEF WriteLocks, PlaceNames
  <2>2. \A s \in Slots : bs[s] \subseteq subscribers
    BY <1>2, FreeIsClean DEF WriteLocks
  <2>3. PoolHeld'
    BY <1>2, <2>1 DEF WriteLocks, PoolFree, PoolHeld, Holding, Threads
  <2>4. UNCHANGED <<subscribers, bs, field>> /\ \A r \in Readers : pc'[r] # "mark"
    BY <1>2, <2>1 DEF WriteLocks, poolVars, slotVars, PoolFree, PoolHeld, Holding, Threads
  <2> QED BY <2>2, <2>3, <2>4 DEF Ghosts
<1>3. ASSUME WriteStores(w)
      PROVE  PoolHeld' /\ Ghosts'
  <2>1. \A u \in Threads : pc'[u] = IF u = w THEN "idle" ELSE pc[u]
    BY <1>3, Moves DEF WriteStores, PlaceNames
  <2>2. /\ pc[w] = "store" /\ poolOwner' = NONE /\ subscribers' = subscribers
        /\ bs' = [bs EXCEPT ![at[w]] = subscribers]
    BY <1>3 DEF WriteStores
  <2>3. poolOwner = w
    BY <2>2 DEF PoolHeld, Holding
  <2>4. \A s \in Slots : bs'[s] \subseteq subscribers'
    BY <2>2, <2>3, NoneOther DEF Typed, TypeOK
  <2>5. \A u \in Threads : pc'[u] \notin Holding /\ u # NONE
    BY <2>1, <2>3 DEF PoolHeld, Holding, Threads
  <2>6. PoolHeld'
    BY <2>2, <2>5 DEF PoolHeld
  <2>7. \A q \in Readers : pc'[q] # "mark"
    BY <2>5 DEF Holding, Threads
  <2> QED BY <2>4, <2>6, <2>7 DEF Ghosts
<1> QED BY <1>1, <1>2, <1>3 DEF WriterStep

CircleInv == Typed /\ PoolHeld /\ Ghosts

LEMMA CircleStep == CircleInv /\ [Next]_vars => CircleInv'
<1> SUFFICES ASSUME CircleInv, [Next]_vars PROVE CircleInv'
  OBVIOUS
<1> USE DEF CircleInv
<1>1. Typed'
  BY TypedStep
<1>2. ASSUME UNCHANGED vars \/ SpuriousWakeup PROVE PoolHeld' /\ Ghosts'
  BY <1>2, Still DEF SpuriousWakeup, vars, poolVars, slotVars, owners
<1> QED BY <1>1, <1>2, ReaderGhosts, WriterGhosts DEF Next

\* The types, for rings, bitsets and counters of any size.
THEOREM CircleTypes == Spec => []TypeOK
<1>1. Init => CircleInv
  BY CircleInit DEF CircleInv
<1>2. CircleInv => TypeOK
  BY DEF CircleInv, Typed
<1> QED BY <1>1, <1>2, CircleStep, PTL DEF Spec

\* Whoever subscribes next is not owed the messages of the reader that had its field:
\* with any number of threads, and whatever the clients do beside queued messages
\* (lines 105-118 against 159).
THEOREM NoGhosts == Spec => []NoGhostSubscriber
<1>1. Init => CircleInv
  BY CircleInit DEF CircleInv
<1>2. CircleInv => NoGhostSubscriber
  BY FreeIsClean DEF CircleInv, NoGhostSubscriber
<1> QED BY <1>1, <1>2, CircleStep, PTL DEF Spec

-----------------------------------------------------------------------------
(* The ring of orderly clients *)

\* The i-th slot from w on.
Nth(w, i) == Wrap(w + i)

\* Whoever has a field holds it alone, and from Sub to UnSub it is subscribed.
Fielded ==
    /\ \A r \in Readers : pc[r] = "sub" => field[r] = NONE
    /\ \A f \in Fields : f \in subscribers <=> \E r \in Readers : field[r] = f /\ pc[r] # "unmark"
    /\ \A r, q \in Readers : field[r] = field[q] /\ field[r] # NONE => r = q

\* The messages that were retired.
Base == sent - num

\* Who holds the pool's lock has found the ring empty, or room in it.
Held ==
    /\ \A r \in Readers : pc[r] \in {"mark", "unmark"} => num = 0
    /\ \A w \in Writers :
          pc[w] = "store" => num < PoolSize /\ at[w] = Nth(writePos, num) /\ subscribers # {}

\* The messages that were not retired lie in the slots from uiCurrWritePos on, and only the
\* first of them may have no reader left.
Window ==
    /\ num <= PoolSize /\ num <= sent
    /\ \A i \in 0 .. num - 1 : data[Nth(writePos, i)] = Base + 1 + i
    /\ \A i \in 0 .. num - 1 : bs[Nth(writePos, i)] = {} => i = 0 /\ slotOwner[writePos] # NONE
    /\ \A s \in Slots : bs[s] # {} \/ slotOwner[s] # NONE
                           => \E i \in 0 .. num - 1 : s = Nth(writePos, i)

\* That one is being retired by the reader that read it last.
Retire ==
    /\ \A s \in Slots : slotOwner[s] # NONE
          => s = writePos /\ bs[s] = {} /\ slotOwner[s] \in Readers /\ pc[slotOwner[s]] = "retire"
    /\ \A r \in Readers : pc[r] = "retire"
          => at[r] = writePos /\ slotOwner[writePos] = r /\ last[r] = Base + 1

\* A reader is between the message it read last and the slot of the next, and marked in
\* the slots of all it has not read.
Following(r) == field[r] # NONE /\ pc[r] \notin {"mark", "unmark"}
Ahead(r) == IF pc[r] \in {"retire", "advance"} THEN 1 ELSE 0
Follows(r) ==
    /\ Base <= last[r] /\ last[r] <= sent
    /\ Wrap(subPos[field[r]] + Ahead(r)) = Nth(writePos, last[r] - Base)
    /\ pc[r] \in {"slot", "retire"} => at[r] = subPos[field[r]]
    /\ \A i \in 0 .. num - 1 : field[r] \in bs[Nth(writePos, i)] <=> last[r] < Base + 1 + i
Follow == \A r \in Readers : Following(r) => Follows(r)

Ring == Held /\ Window /\ Retire /\ Follow

-----------------------------------------------------------------------------
\* The arithmetic of the ring and of its counter: the slots from a slot on are slots.
LEMMA NthType ==
    ASSUME NEW w \in Slots, NEW i \in 0 .. PoolSize
    PROVE  Nth(w, i) \in Slots
BY DEF Nth, Wrap, Slots

\* In one round no slot is met twice.
LEMMA NthOnce ==
    ASSUME NEW w \in Slots, NEW i \in 0 .. PoolSize - 1, NEW j \in 0 .. PoolSize - 1,
           Nth(w, i) = Nth(w, j)
    PROVE  i = j
BY DEF Nth, Wrap, Slots

\* The first slot from w on is w, and so is the one a round later.
LEMMA NthFirst ==
    ASSUME NEW w \in Slots
    PROVE  Nth(w, 0) = w /\ Nth(w, PoolSize) = w /\ Wrap(w) = w
BY DEF Nth, Wrap, Slots

\* Every slot is met on the way round.
LEMMA NthEvery ==
    ASSUME NEW w \in Slots, NEW s \in Slots
    PROVE  \E i \in 0 .. PoolSize - 1 : s = Nth(w, i)
<1>1. CASE s >= w
  <2>1. s - w \in 0 .. PoolSize - 1 /\ s = Nth(w, s - w)
    BY <1>1 DEF Nth, Wrap, Slots
  <2> QED BY <2>1
<1>2. CASE s < w
  <2>1. s - w + PoolSize \in 0 .. PoolSize - 1 /\ s = Nth(w, s - w + PoolSize)
    BY <1>2 DEF Nth, Wrap, Slots
  <2> QED BY <2>1
<1> QED BY <1>1, <1>2 DEF Slots

\* A slot further is one step less from the next slot on.
LEMMA NthShift ==
    ASSUME NEW w \in Slots, NEW i \in 1 .. PoolSize
    PROVE  Nth(Wrap(w + 1), i - 1) = Nth(w, i) /\ Wrap(w + 1) \in Slots
BY DEF Nth, Wrap, Slots

\* The slot after the i-th.
LEMMA NthNext ==
    ASSUME NEW w \in Slots, NEW p \in Slots, NEW i \in 0 .. PoolSize - 1, p = Nth(w, i)
    PROVE  Wrap(p + 1) = Nth(w, i + 1)
BY DEF Nth, Wrap, Slots

\* Within two rounds, wrapping once is the remainder.
LEMMA Remainder ==
    ASSUME NEW i \in 0 .. 2 * PoolSize - 1
    PROVE  i % PoolSize = Wrap(i)
<1>1. /\ i \div PoolSize \in Int /\ i % PoolSize \in 0 .. PoolSize - 1
      /\ i = PoolSize * (i \div PoolSize) + (i % PoolSize)
  OBVIOUS
<1> DEFINE q == i \div PoolSize
           m == i % PoolSize
<1> HIDE DEF q, m
<1>2. q \in Int /\ m \in 0 .. PoolSize - 1 /\ i = PoolSize * q + m
  BY <1>1 DEF q, m
<1>3. q = 0 \/ q = 1
  BY <1>2
<1>4. m = Wrap(i)
  BY <1>2, <1>3 DEF Wrap
<1> QED BY <1>4 DEF m

\* A count that fits in an unsigned int is kept;
LEMMA UnsignedKeeps ==
    ASSUME NEW n \in 0 .. UIntMax
    PROVE  Unsigned(n) = n
BY DEF Unsigned

\* adding the largest unsigned int to it takes one away.
LEMMA UnsignedLess ==
    ASSUME NEW n \in 1 .. PoolSize
    PROVE  Unsigned(n + UIntMax) = n - 1
BY DEF Unsigned

\* Fields are given and taken under the pool's lock, by one reader at a time.
LEMMA FieldedStep ==
    ASSUME Typed, Typed', PoolHeld, Fielded, [Next]_vars
    PROVE  Fielded'
<1> Readers \subseteq Threads /\ NONE \notin Fields
  BY DEF Threads, Fields
<1>0. /\ pc \in [Threads -> PlaceNames] /\ field \in [Readers -> Fields \cup {NONE}]
      /\ subscribers \subseteq Fields
  BY DEF Typed, TypeOK, PlaceNames
<1> DEFINE Kept == /\ UNCHANGED <<subscribers, field>>
                   /\ \A r \in Readers : pc'[r] = "sub" => pc[r] = "sub" \/ field[r] = NONE
                   /\ \A r \in Readers : pc'[r] = "unmark" <=> pc[r] = "unmark"
<1>1. ASSUME Kept PROVE Fielded'
  <2>1. /\ \A r \in Readers : pc'[r] = "sub" => field'[r] = NONE
        /\ \A f \in Fields : f \in subscribers'
              <=> \E r \in Readers : field'[r] = f /\ pc'[r] # "unmark"
        /\ \A r, q \in Readers : field'[r] = field'[q] /\ field'[r] # NONE => r = q
    BY <1>1 DEF Fielded
  <2> QED BY <2>1 DEF Fielded
<1>2. CASE UNCHANGED vars \/ SpuriousWakeup
  BY <1>1, <1>2 DEF SpuriousWakeup, vars, poolVars
<1>3. ASSUME NEW w \in Writers, WriteCall(w) \/ WriterStep(w)
      PROVE  Fielded'
  <2>1. PICK l \in {"idle", "write", "store"} : Goto(w, l)
    BY <1>3 DEF WriteCall, WriterStep, WriteDrops, WriteLocks, WriteStores
  <2>2. UNCHANGED <<subscribers, field>>
    BY <1>3 DEF WriteCall, WriterStep, WriteDrops, WriteLocks, WriteStores, poolVars
  <2>3. w \in Threads /\ w \notin Readers /\ l \in PlaceNames
    BY DEF Threads, PlaceNames
  <2>4. \A u \in Threads : pc'[u] = IF u = w THEN l ELSE pc[u]
    BY <2>1, <2>3, Moves
  <2> QED BY <1>1, <2>2, <2>3, <2>4
<1>4. ASSUME NEW r \in Readers, SubCall(r) \/ UnSubCall(r) \/ ReadCall(r) \/ SubFull(r) \/ ReadPicks(r)
                              \/ ReadCopies(r) \/ ReadRetires(r) \/ ReadAdvances(r) \/ SubEnds(r)
      PROVE  Fielded'
  <2>1. PICK l \in PlaceNames : Goto(r, l) /\ l # "unmark" /\ (l = "sub" => field[r] = NONE)
    BY <1>4 DEF SubCall, UnSubCall, ReadCall, SubFull, ReadPicks, ReadCopies, ReadRetires,
                ReadAdvances, SubEnds, PlaceNames
  <2>2. pc[r] # "unmark" /\ UNCHANGED <<subscribers, field>>
    BY <1>4 DEF SubCall, UnSubCall, ReadCall, SubFull, ReadPicks, ReadCopies, ReadRetires,
                ReadAdvances, SubEnds, poolVars
  <2>3. \A u \in Threads : pc'[u] = IF u = r THEN l ELSE pc[u]
    BY <2>1, Moves
  <2> QED BY <1>1, <2>1, <2>2, <2>3
<1>5. ASSUME NEW r \in Readers, SubMarks(r) \/ UnSubUnmarks(r) \/ ReadWaitsPool(r) \/ ReadWaitsSlot(r)
      PROVE  Fielded'
  BY <1>1, <1>5 DEF SubMarks, UnSubUnmarks, ReadWaitsPool, ReadWaitsSlot, poolVars
<1>6. ASSUME NEW r \in Readers, SubLocks(r)
      PROVE  Fielded'
  <2>1. \A u \in Threads : pc'[u] = IF u = r THEN "mark" ELSE pc[u]
    BY <1>6, Moves DEF SubLocks, PlaceNames
  <2>2. PICK f \in Fields \ subscribers : subscribers' = subscribers \cup {f} /\ field' = [field EXCEPT ![r] = f]
    BY <1>6 DEF SubLocks, SetFirstEmptyField
  <2>3. \A q \in Readers : pc[q] # "unmark"
    BY <1>6 DEF SubLocks, PoolFree, PoolHeld, Holding, Threads
  <2>4. pc[r] = "sub" /\ field[r] = NONE /\ \A q \in Readers : field[q] # f
    BY <1>6, <2>3 DEF SubLocks, Fielded
  <2>5. \A q \in Readers : field'[q] = IF q = r THEN f ELSE field[q]
    BY <2>2, <1>0
  <2>6. \A q \in Readers : pc'[q] # "unmark"
    BY <2>1, <2>3
  <2>7. \A q \in Readers : pc'[q] = "sub" => field'[q] = NONE
    BY <2>1, <2>5 DEF Fielded
  <2>8. \A g \in Fields : g \in subscribers' <=> \E q \in Readers : field'[q] = g /\ pc'[q] # "unmark"
    <3> SUFFICES ASSUME NEW g \in Fields
                 PROVE  g \in subscribers' <=> \E q \in Readers : field'[q] = g
      BY <2>6
    <3>1. g \in subscribers <=> \E q \in Readers : field[q] = g
      BY <2>3 DEF Fielded
    <3>2. field'[r] = f /\ (g # f => g # NONE /\ \A q \in Readers : field'[q] = g <=> field[q] = g)
      BY <2>4, <2>5
    <3> QED BY <2>2, <3>1, <3>2
  <2>9. \A p, q \in Readers : field'[p] = field'[q] /\ field'[p] # NONE => p = q
    BY <2>4, <2>5 DEF Fielded
  <2> QED BY <2>7, <2>8, <2>9 DEF Fielded
<1>7. ASSUME NEW r \in Readers, UnSubLocks(r)
      PROVE  Fielded'
  <2>1. \A u \in Threads : pc'[u] = IF u = r THEN "unmark" ELSE pc[u]
    BY <1>7, Moves DEF UnSubLocks, PlaceNames
  <2>2. field' = field /\ subscribers' = subscribers \ {field[r]} /\ field[r] # NONE
    BY <1>7 DEF UnSubLocks, Typed, Places
  <2>3. \A q \in Readers : pc[q] # "unmark"
    BY <1>7 DEF UnSubLocks, PoolFree, PoolHeld, Holding, Threads
  <2>4. \A g \in Fields : g \in subscribers' <=> \E q \in Readers : field'[q] = g /\ pc'[q] # "unmark"
    <3> SUFFICES ASSUME NEW g \in Fields
                 PROVE  g \in subscribers' <=> \E q \in Readers : field[q] = g /\ q # r
      BY <2>1, <2>2, <2>3
    <3>1. g \in subscribers <=> \E q \in Readers : field[q] = g
      BY <2>3 DEF Fielded
    <3>2. \A q \in Readers : field[q] = field[r] => q = r
      BY <2>2 DEF Fielded
    <3> QED BY <2>2, <3>1, <3>2
  <2> QED BY <2>1, <2>2, <2>4 DEF Fielded
<1>8. ASSUME NEW r \in Readers, UnSubEnds(r)
      PROVE  Fielded'
  <2>1. \A u \in Threads : pc'[u] = IF u = r THEN "idle" ELSE pc[u]
    BY <1>8, Moves DEF UnSubEnds, PlaceNames
  <2>2. field' = [field EXCEPT ![r] = NONE] /\ subscribers' = subscribers /\ pc[r] = "unmark"
    BY <1>8 DEF UnSubEnds, poolVars
  <2>3. \A q \in Readers : pc[q] = "unmark" => q = r
    BY <2>2 DEF PoolHeld, Holding, Threads
  <2>4. \A q \in Readers : field'[q] = IF q = r THEN NONE ELSE field[q]
    BY <2>2, <1>0
  <2>5. \A g \in Fields : g \in subscribers' <=> \E q \in Readers : field'[q] = g /\ pc'[q] # "unmark"
    <3> SUFFICES ASSUME NEW g \in Fields
                 PROVE  g \in subscribers <=> \E q \in Readers : field'[q] = g /\ pc'[q] # "unmark"
      BY <2>2
    <3>1. \A q \in Readers : field'[q] = g /\ pc'[q] # "unmark" <=> field[q] = g /\ pc[q] # "unmark"
      BY <2>1, <2>2, <2>3, <2>4
    <3> QED BY <3>1 DEF Fielded
  <2> QED BY <2>1, <2>4, <2>5 DEF Fielded
<1> QED BY <1>2, <1>3, <1>4, <1>5, <1>6, <1>7, <1>8 DEF Next, ReaderStep

\* NONE is neither a field nor a thread.
LEMMA Outside == NONE \notin Fields /\ NONE \notin Threads
BY DEF Fields, Threads

\* The places where the ring says something of a thread.
Busy == {"mark", "unmark", "store", "slot", "retire", "advance"}

\* A step that leaves the ring alone, of a thread that is at none of these places.
LEMMA Calm ==
    ASSUME Ring, UNCHANGED <<poolVars, slotVars, slotOwner, field, sent, last>>,
           \A t \in Threads : pc[t] \in Busy \/ pc'[t] \in Busy => pc'[t] = pc[t] /\ at'[t] = at[t]
    PROVE  Ring'
<1> Readers \subseteq Threads /\ Writers \subseteq Threads
  BY DEF Threads
<1>1. /\ UNCHANGED <<subscribers, num, writePos, subPos, data, bs, slotOwner, field, sent, last>>
      /\ Base' = Base
  BY DEF poolVars, slotVars, Base
<1>2. Held'
  <2>1. \A r \in Readers : pc'[r] \in {"mark", "unmark"} => num' = 0
    BY <1>1 DEF Ring, Held, Busy
  <2>2. \A w \in Writers :
           pc'[w] = "store" => num' < PoolSize /\ at'[w] = Nth(writePos', num') /\ subscribers' # {}
    BY <1>1 DEF Ring, Held, Busy
  <2> QED BY <2>1, <2>2 DEF Held
<1>3. Window'
  BY <1>1 DEF Ring, Window
<1>4. Retire'
  BY <1>1 DEF Ring, Retire, Busy
<1>5. ASSUME NEW r \in Readers
      PROVE  /\ Following(r)' <=> Following(r)
             /\ Ahead(r)' = Ahead(r)
             /\ pc'[r] \in {"slot", "retire"} => pc[r] \in {"slot", "retire"} /\ at'[r] = at[r]
  BY <1>1 DEF Following, Ahead, Busy
<1>6. Follow'
  BY <1>1, <1>5 DEF Ring, Follow, Follows
<1> QED BY <1>2, <1>3, <1>4, <1>6 DEF Ring

\* Calls, and waits.
LEMMA CalmSteps ==
    ASSUME Typed, Ring,
           \/ UNCHANGED vars \/ SpuriousWakeup
           \/ \E r \in Readers : SubCall(r) \/ SubFull(r) \/ UnSubCall(r) \/ ReadCall(r)
                                 \/ ReadWaitsPool(r) \/ ReadWaitsSlot(r)
           \/ \E w \in Writers : WriteCall(w) \/ WriteDrops(w)
    PROVE  Ring'
<1> Readers \subseteq Threads /\ Writers \subseteq Threads
  BY DEF Threads
<1>1. CASE UNCHANGED vars \/ SpuriousWakeup
  BY <1>1, Calm DEF SpuriousWakeup, vars, owners, history
<1>2. ASSUME NEW r \in Readers, ReadWaitsPool(r) \/ ReadWaitsSlot(r)
      PROVE  Ring'
  BY <1>2, Calm DEF ReadWaitsPool, ReadWaitsSlot, owners, history
<1>3. ASSUME NEW r \in Readers, SubCall(r) \/ SubFull(r) \/ UnSubCall(r) \/ ReadCall(r)
      PROVE  Ring'
  <2>1. PICK l \in PlaceNames \ Busy : Goto(r, l)
    BY <1>3 DEF SubCall, SubFull, UnSubCall, ReadCall, PlaceNames, Busy
  <2>2. \A u \in Threads : pc'[u] = IF u = r THEN l ELSE pc[u]
    BY <2>1, Moves
  <2>3. /\ pc[r] \notin Busy /\ UNCHANGED <<poolVars, slotVars, slotOwner, at, field, sent, last>>
    BY <1>3 DEF SubCall, SubFull, UnSubCall, ReadCall, Busy, owners, history
  <2> QED BY <2>1, <2>2, <2>3, Calm
<1>4. ASSUME NEW w \in Writers, WriteCall(w) \/ WriteDrops(w)
      PROVE  Ring'
  <2>1. PICK l \in PlaceNames \ Busy : Goto(w, l)
    BY <1>4 DEF WriteCall, WriteDrops, PlaceNames, Busy
  <2>2. \A u \in Threads : pc'[u] = IF u = w THEN l ELSE pc[u]
    BY <2>1, Moves
  <2>3. /\ pc[w] \notin Busy /\ UNCHANGED <<poolVars, slotVars, slotOwner, at, field, sent, last>>
    BY <1>4 DEF WriteCall, WriteDrops, Busy, owners, history
  <2> QED BY <2>1, <2>2, <2>3, Calm
<1> QED BY <1>1, <1>2, <1>3, <1>4

\* While the ring is empty no slot has readers left and nobody retires one.
LEMMA EmptyRing ==
    ASSUME Typed, Ring, num = 0
    PROVE  /\ \A s \in Slots : bs[s] = {} /\ slotOwner[s] = NONE
           /\ \A r \in Readers : pc[r] # "retire"
<1>1. \A i \in 0 .. num - 1 : FALSE
  OBVIOUS
<1>2. \A s \in Slots : bs[s] = {} /\ slotOwner[s] = NONE
  BY <1>1 DEF Ring, Window
<1>3. writePos \in Slots /\ \A r \in Readers : r # NONE
  BY DEF Typed, TypeOK
<1> QED BY <1>2, <1>3 DEF Ring, Retire

\* Sub, with nothing in the ring.
LEMMA SubSteps ==
    ASSUME Typed, Typed', PoolHeld, Fielded, NEW r \in Readers,
           SubLocks(r) \/ SubMarks(r) \/ SubEnds(r), orderly', orderly => Ring
    PROVE  Ring'
<1> r \in Threads /\ Readers \subseteq Threads /\ Writers \subseteq Threads /\ r \notin Writers
  BY DEF Threads
<1>0. /\ num \in Nat /\ sent \in Nat /\ writePos \in Slots /\ last \in [Readers -> Nat]
      /\ field \in [Readers -> Fields \cup {NONE}] /\ subPos \in [Fields -> Slots]
      /\ at \in [Threads -> 0 .. 2 * PoolSize] /\ NONE \notin Fields /\ NONE \notin Threads
  BY Outside DEF Typed, TypeOK
<1>1. Ring /\ num = 0
  <2>1. orderly
    BY DEF SubLocks, SubMarks, SubEnds, history
  <2>2. CASE SubLocks(r)
    BY <2>1, <2>2 DEF SubLocks
  <2>3. CASE SubMarks(r) \/ SubEnds(r)
    BY <2>1, <2>3 DEF SubMarks, SubEnds, Ring, Held
  <2> QED BY <2>1, <2>2, <2>3
<1>2. /\ \A s \in Slots : bs[s] = {} /\ slotOwner[s] = NONE
      /\ \A q \in Readers : pc[q] # "retire"
  BY <1>0, <1>1, EmptyRing
<1>3. CASE SubMarks(r)
  BY <1>0, <1>1, <1>3 DEF SubMarks
<1>4. CASE SubLocks(r)
  <2>1. \A u \in Threads : pc'[u] = IF u = r THEN "mark" ELSE pc[u]
    BY <1>4, Moves DEF SubLocks, PlaceNames
  <2>2. /\ UNCHANGED <<num, writePos, subPos, data, bs, slotOwner, sent, last>> /\ Base' = Base
        /\ Index(r, writePos) /\ pc[r] = "sub" /\ poolOwner = NONE
    BY <1>4 DEF SubLocks, slotVars, PoolFree, Base
  <2>3. PICK f \in Fields : field' = [field EXCEPT ![r] = f]
    BY <1>4 DEF SubLocks, SetFirstEmptyField
  <2>4. \A q \in Readers : q # r => field'[q] = field[q]
    BY <1>0, <2>3
  <2>5. \A u \in Threads : u # r => at'[u] = at[u]
    BY <1>0, <2>2 DEF Index
  <2>6. \A u \in Threads : pc[u] \notin {"mark", "unmark", "store"}
    BY <1>0, <2>2 DEF PoolHeld, Holding
  <2>7. Held'
    <3>1. \A q \in Readers : pc'[q] \in {"mark", "unmark"} => num' = 0
      BY <1>1, <2>2
    <3>2. \A w \in Writers : pc'[w] # "store"
      BY <2>1, <2>6
    <3> QED BY <3>1, <3>2 DEF Held
  <2>8. Window'
    BY <1>1, <2>2 DEF Ring, Window
  <2>9. Retire'
    BY <1>2, <2>1, <2>2 DEF Retire
  <2>10. Follow'
    <3> SUFFICES ASSUME NEW q \in Readers, Following(q)'
                 PROVE  Follows(q)'
      BY DEF Follow
    <3>1. q # r
      BY <2>1 DEF Following
    <3>2. /\ field'[q] = field[q] /\ pc'[q] = pc[q] /\ at'[q] = at[q] /\ Following(q) /\ Ahead(q)' = Ahead(q)
      BY <2>1, <2>4, <2>5, <3>1 DEF Following, Ahead
    <3> QED BY <1>1, <2>2, <3>2 DEF Ring, Follow, Follows
  <2> QED BY <2>7, <2>8, <2>9, <2>10 DEF Ring
<1>5. CASE SubEnds(r)
  <2>1. \A u \in Threads : pc'[u] = IF u = r THEN "idle" ELSE pc[u]
    BY <1>5, Moves DEF SubEnds, PlaceNames
  <2>2. /\ UNCHANGED <<num, writePos, data, bs, slotOwner, sent, field>> /\ Base' = Base
        /\ Index(r, 0) /\ pc[r] = "mark" /\ poolOwner = r
        /\ subPos' = [subPos EXCEPT ![field[r]] = writePos] /\ last' = [last EXCEPT ![r] = sent]
    BY <1>5 DEF SubEnds, SubPos, slotVars, Base, PoolHeld, Holding
  <2>3. field[r] \in Fields
    BY <2>2 DEF Typed, Places
  <2>4. \A q \in Readers : q # r /\ field[q] # NONE => field[q] # field[r] /\ field[q] \in Fields
    BY <1>0, <2>3 DEF Fielded
  <2>5. \A u \in Threads : u # r => at'[u] = at[u]
    BY <1>0, <2>2 DEF Index
  <2>6. \A u \in Threads : pc[u] \in {"mark", "unmark", "store"} => u = r
    BY <1>0, <2>2 DEF PoolHeld, Holding
  <2>7. Held'
    <3>1. \A q \in Readers : pc'[q] \in {"mark", "unmark"} => num' = 0
      BY <1>1, <2>2
    <3>2. \A w \in Writers : pc'[w] # "store"
      BY <2>1, <2>6
    <3> QED BY <3>1, <3>2 DEF Held
  <2>8. Window'
    BY <1>1, <2>2 DEF Ring, Window
  <2>9. Retire'
    BY <1>2, <2>1, <2>2 DEF Retire
  <2>10. Follow'
    <3> SUFFICES ASSUME NEW q \in Readers, Following(q)'
                 PROVE  Follows(q)'
      BY DEF Follow
    <3>1. CASE q = r
      <4>1. Base = sent /\ last'[r] = sent /\ subPos'[field[r]] = writePos /\ pc'[r] = "idle"
        BY <1>0, <1>1, <2>1, <2>2, <2>3 DEF Base
      <4>2. Ahead(r)' = 0 /\ writePos + 0 = writePos /\ sent - sent = 0
        BY <1>0, <4>1 DEF Ahead, Slots
      <4>3. Wrap(writePos + 0) = Nth(writePos, 0)
        BY DEF Nth
      <4>4. \A i \in 0 .. num - 1 : FALSE
        BY <1>1
      <4> QED BY <1>0, <2>2, <3>1, <4>1, <4>2, <4>3, <4>4 DEF Follows
    <3>2. CASE q # r
      <4>1. /\ field'[q] = field[q] /\ pc'[q] = pc[q] /\ at'[q] = at[q] /\ last'[q] = last[q]
            /\ Following(q) /\ Ahead(q)' = Ahead(q)
        BY <1>0, <2>1, <2>2, <2>5, <3>2 DEF Following, Ahead
      <4>2. subPos'[field[q]] = subPos[field[q]]
        BY <1>0, <2>2, <2>4, <3>2, <4>1 DEF Following
      <4> QED BY <1>1, <2>2, <4>1, <4>2 DEF Ring, Follow, Follows
    <3> QED BY <3>1, <3>2
  <2> QED BY <2>7, <2>8, <2>9, <2>10 DEF Ring
<1> QED BY <1>3, <1>4, <1>5

\* UnSub, with nothing in the ring.
LEMMA UnSubSteps ==
    ASSUME Typed, Typed', PoolHeld, Fielded, NEW r \in Readers,
           UnSubLocks(r) \/ UnSubUnmarks(r) \/ UnSubEnds(r), orderly', orderly => Ring
    PROVE  Ring'
<1> r \in Threads /\ Readers \subseteq Threads /\ Writers \subseteq Threads /\ r \notin Writers
  BY DEF Threads
<1>0. /\ num \in Nat /\ sent \in Nat /\ writePos \in Slots /\ last \in [Readers -> Nat]
      /\ field \in [Readers -> Fields \cup {NONE}] /\ subPos \in [Fields -> Slots]
      /\ at \in [Threads -> 0 .. 2 * PoolSize] /\ NONE \notin Fields /\ NONE \notin Threads
      /\ bs \in [Slots -> SUBSET Fields]
  BY Outside DEF Typed, TypeOK
<1>1. Ring /\ num = 0
  <2>1. orderly
    BY DEF UnSubLocks, UnSubUnmarks, UnSubEnds, history
  <2>2. CASE UnSubLocks(r)
    BY <2>1, <2>2 DEF UnSubLocks
  <2>3. CASE UnSubUnmarks(r) \/ UnSubEnds(r)
    BY <2>1, <2>3 DEF UnSubUnmarks, UnSubEnds, Ring, Held
  <2> QED BY <2>1, <2>2, <2>3
<1>2. /\ \A s \in Slots : bs[s] = {} /\ slotOwner[s] = NONE
      /\ \A q \in Readers : pc[q] # "retire"
  BY <1>0, <1>1, EmptyRing
<1>3. PICK l \in {"unmark", "idle"}, i \in 0 .. 2 * PoolSize :
        /\ \A u \in Threads : pc'[u] = IF u = r THEN l ELSE pc[u]
        /\ \A u \in Threads : at'[u] = IF u = r THEN i ELSE at[u]
        /\ l = "idle" => UnSubEnds(r)
  <2>1. CASE UnSubLocks(r)
    <3>1. \A u \in Threads : pc'[u] = IF u = r THEN "unmark" ELSE pc[u]
      BY <2>1, Moves DEF UnSubLocks, PlaceNames
    <3>2. \A u \in Threads : at'[u] = IF u = r THEN 0 ELSE at[u]
      BY <1>0, <2>1 DEF UnSubLocks, Index
    <3> QED BY <3>1, <3>2
  <2>2. CASE UnSubUnmarks(r)
    <3>1. \A u \in Threads : pc'[u] = IF u = r THEN "unmark" ELSE pc[u]
      BY <2>2 DEF UnSubUnmarks
    <3>2. \A u \in Threads : at'[u] = IF u = r THEN at[r] + 1 ELSE at[u]
      BY <1>0, <2>2 DEF UnSubUnmarks, Index
    <3>3. at[r] + 1 \in 0 .. 2 * PoolSize
      BY <1>0, <2>2 DEF UnSubUnmarks
    <3> QED BY <3>1, <3>2, <3>3
  <2>3. CASE UnSubEnds(r)
    <3>1. \A u \in Threads : pc'[u] = IF u = r THEN "idle" ELSE pc[u]
      BY <2>3, Moves DEF UnSubEnds, PlaceNames
    <3>2. \A u \in Threads : at'[u] = IF u = r THEN 0 ELSE at[u]
      BY <1>0, <2>3 DEF UnSubEnds, Index
    <3> QED BY <2>3, <3>1, <3>2
  <2> QED BY <2>1, <2>2, <2>3
<1>4. /\ UNCHANGED <<num, writePos, subPos, data, slotOwner, sent>> /\ Base' = Base
      /\ \A q \in Readers : q # r => field'[q] = field[q] /\ last'[q] = last[q]
      /\ UnSubEnds(r) => field'[r] = NONE
  BY <1>0 DEF UnSubLocks, UnSubUnmarks, UnSubEnds, poolVars, slotVars, owners, history, Base
<1>5. \A s \in Slots : bs'[s] = {}
  <2>1. CASE UnSubUnmarks(r)
    <3>1. bs' = [bs EXCEPT ![at[r]] = @ \ {field[r]}]
      BY <2>1 DEF UnSubUnmarks, Unmark
    <3> QED BY <1>0, <1>2, <3>1
  <2>2. CASE UnSubLocks(r) \/ UnSubEnds(r)
    BY <1>2, <2>2 DEF UnSubLocks, UnSubEnds, slotVars
  <2> QED BY <2>1, <2>2
<1>6. 0 .. num - 1 = {}
  BY <1>1
<1>7. Held'
  <2>1. poolOwner = r \/ poolOwner = NONE
    BY DEF UnSubLocks, UnSubUnmarks, UnSubEnds, PoolFree, PoolHeld, Holding
  <2>2. \A w \in Writers : pc'[w] # "store"
    BY <1>0, <1>3, <2>1 DEF PoolHeld, Holding
  <2> QED BY <1>1, <1>4, <2>2 DEF Held
<1>8. Window'
  BY <1>1, <1>2, <1>4, <1>5, <1>6 DEF Ring, Window
<1>9. Retire'
  BY <1>2, <1>3, <1>4 DEF Retire
<1>10. Follow'
  <2> SUFFICES ASSUME NEW q \in Readers, Following(q)'
               PROVE  Follows(q)'
    BY DEF Follow
  <2>1. q # r
    BY <1>3, <1>4 DEF Following
  <2>2. /\ field'[q] = field[q] /\ pc'[q] = pc[q] /\ at'[q] = at[q] /\ last'[q] = last[q]
        /\ Following(q) /\ Ahead(q)' = Ahead(q)
    BY <1>3, <1>4, <2>1 DEF Following, Ahead
  <2> QED BY <1>1, <1>4, <1>6, <2>2 DEF Ring, Follow, Follows
<1> QED BY <1>7, <1>8, <1>9, <1>10 DEF Ring

\* Write: there is room behind the last message.
LEMMA WriteLocksStep ==
    ASSUME Typed, PoolHeld, NEW w \in Writers, WriteLocks(w), orderly', orderly => Ring
    PROVE  Ring'
<1> w \in Threads /\ Readers \subseteq Threads /\ Writers \subseteq Threads /\ w \notin Readers
  BY DEF Threads
<1>0. /\ num \in Nat /\ writePos \in Slots /\ at \in [Threads -> 0 .. 2 * PoolSize]
      /\ NONE \notin Threads
  BY Outside DEF Typed, TypeOK
<1>1. /\ Ring /\ num # PoolSize /\ subscribers # {} /\ poolOwner = NONE
      /\ UNCHANGED <<subscribers, num, writePos, subPos, data, bs, slotOwner, field, sent, last>>
      /\ Base' = Base
  BY DEF WriteLocks, PoolFree, poolVars, slotVars, Base
<1>2. num < PoolSize
  BY <1>0, <1>1 DEF Ring, Window
<1>3. EndPosition = Nth(writePos, num)
  <2>1. num + writePos \in 0 .. UIntMax /\ num + writePos = writePos + num
    BY <1>0, <1>2 DEF Slots
  <2> QED BY <2>1, UnsignedKeeps DEF EndPosition, Nth
<1>4. \A u \in Threads : pc'[u] = IF u = w THEN "store" ELSE pc[u]
  BY Moves DEF WriteLocks, PlaceNames
<1>5. \A u \in Threads : at'[u] = IF u = w THEN Nth(writePos, num) ELSE at[u]
  BY <1>0, <1>3 DEF WriteLocks, Index
<1>6. \A u \in Threads : pc[u] \notin {"mark", "unmark", "store"}
  BY <1>0, <1>1 DEF PoolHeld, Holding
<1>7. Held'
  <2>1. \A q \in Readers : pc'[q] \notin {"mark", "unmark"}
    BY <1>4, <1>6
  <2>2. \A v \in Writers : pc'[v] = "store" => v = w
    BY <1>4, <1>6
  <2> QED BY <1>1, <1>2, <1>5, <2>1, <2>2 DEF Held
<1>8. Window'
  BY <1>1 DEF Ring, Window
<1>9. ASSUME NEW q \in Readers
      PROVE  pc'[q] = pc[q] /\ at'[q] = at[q] /\ Following(q)' = Following(q) /\ Ahead(q)' = Ahead(q)
  BY <1>1, <1>4, <1>5 DEF Following, Ahead
<1>10. Retire'
  BY <1>1, <1>9 DEF Ring, Retire
<1>11. Follow'
  BY <1>1, <1>9 DEF Ring, Follow, Follows
<1> QED BY <1>7, <1>8, <1>10, <1>11 DEF Ring

\* Write puts one more message behind the others, for everybody who is subscribed.
LEMMA WriteStoresStep ==
    ASSUME Typed, PoolHeld, Fielded, Ring, NEW w \in Writers, WriteStores(w)
    PROVE  Ring'
<1> w \in Threads /\ Readers \subseteq Threads /\ Writers \subseteq Threads /\ w \notin Readers
  BY DEF Threads
<1>0. /\ num \in Nat /\ sent \in Nat /\ writePos \in Slots /\ at \in [Threads -> 0 .. 2 * PoolSize]
      /\ data \in [Slots -> Nat] /\ bs \in [Slots -> SUBSET Fields] /\ last \in [Readers -> Nat]
      /\ field \in [Readers -> Fields \cup {NONE}] /\ NONE \notin Threads
  BY Outside DEF Typed, TypeOK
<1> DEFINE s0 == Nth(writePos, num)
<1>1. /\ pc[w] = "store" /\ poolOwner = w /\ num < PoolSize /\ at[w] = s0 /\ subscribers # {}
      /\ s0 \in Slots /\ slotOwner[s0] = NONE
  <2>1. pc[w] = "store" /\ poolOwner = w /\ num < PoolSize /\ at[w] = s0 /\ subscribers # {}
        /\ slotOwner[at[w]] = NONE
    BY DEF WriteStores, SlotFree, PoolHeld, Holding, Ring, Held
  <2>2. num \in 0 .. PoolSize
    BY <1>0, <2>1
  <2> QED BY <1>0, <2>1, <2>2, NthType
<1>2. /\ num' = num + 1 /\ sent' = sent + 1 /\ Base' = Base
      /\ UNCHANGED <<subscribers, writePos, subPos, slotOwner, field, last>>
  <2>1. num + 1 \in 0 .. UIntMax /\ num # PoolSize
    BY <1>0, <1>1
  <2>2. num' = num + 1
    BY <2>1, UnsignedKeeps DEF WriteStores, Counted
  <2>3. sent' = sent + 1 /\ UNCHANGED <<subscribers, writePos, subPos, slotOwner, field, last>>
    BY DEF WriteStores
  <2> QED BY <1>0, <2>2, <2>3 DEF Base
<1>3. \A s \in Slots : /\ data'[s] = IF s = s0 THEN sent + 1 ELSE data[s]
                       /\ bs'[s] = IF s = s0 THEN subscribers ELSE bs[s]
  <2>1. data' = [data EXCEPT ![s0] = sent + 1] /\ bs' = [bs EXCEPT ![s0] = subscribers]
    BY <1>1 DEF WriteStores
  <2> HIDE DEF s0
  <2> QED BY <1>0, <2>1
<1>4. \A i \in 0 .. num - 1 : Nth(writePos, i) \in Slots /\ Nth(writePos, i) # s0
  <2> SUFFICES ASSUME NEW i \in 0 .. num - 1
               PROVE  Nth(writePos, i) \in Slots /\ Nth(writePos, i) # s0
    OBVIOUS
  <2>1. i \in 0 .. PoolSize - 1 /\ num \in 0 .. PoolSize - 1 /\ i \in 0 .. PoolSize /\ i # num
    BY <1>0, <1>1
  <2> QED BY <1>0, <2>1, NthType, NthOnce
<1>5. Base + 1 + num = sent + 1 /\ Base \in Int
  BY <1>0 DEF Base
<1>6. \A i \in 0 .. num' - 1 : i \in 0 .. num - 1 \/ i = num
  BY <1>0, <1>2
<1>7. \A u \in Threads : pc'[u] = IF u = w THEN "idle" ELSE pc[u]
  BY Moves DEF WriteStores, PlaceNames
<1>8. \A u \in Threads : u # w => at'[u] = at[u]
  BY <1>0 DEF WriteStores, Index
<1> HIDE DEF s0
<1>9. Held'
  <2>1. \A u \in Threads : pc'[u] \notin {"mark", "unmark", "store"}
    BY <1>1, <1>7 DEF PoolHeld, Holding
  <2> QED BY <2>1 DEF Held
<1>10. Window'
  <2>1. num' <= PoolSize /\ num' <= sent'
    BY <1>0, <1>1, <1>2 DEF Ring, Window
  <2>2. \A i \in 0 .. num' - 1 : data'[Nth(writePos', i)] = Base' + 1 + i
    <3> SUFFICES ASSUME NEW i \in 0 .. num' - 1
                 PROVE  data'[Nth(writePos, i)] = Base + 1 + i
      BY <1>2
    <3>1. CASE i = num
      BY <1>1, <1>3, <1>5, <3>1 DEF s0
    <3>2. CASE i \in 0 .. num - 1
      BY <1>3, <1>4, <3>2 DEF Ring, Window
    <3> QED BY <1>6, <3>1, <3>2
  <2>3. \A i \in 0 .. num' - 1 : bs'[Nth(writePos', i)] = {} => i = 0 /\ slotOwner'[writePos'] # NONE
    <3> SUFFICES ASSUME NEW i \in 0 .. num' - 1, bs'[Nth(writePos, i)] = {}
                 PROVE  i = 0 /\ slotOwner[writePos] # NONE
      BY <1>2
    <3>1. i # num
      BY <1>1, <1>3 DEF s0
    <3>2. i \in 0 .. num - 1
      BY <1>6, <3>1
    <3> QED BY <1>3, <1>4, <3>2 DEF Ring, Window
  <2>4. \A s \in Slots : bs'[s] # {} \/ slotOwner'[s] # NONE
                            => \E i \in 0 .. num' - 1 : s = Nth(writePos', i)
    <3> SUFFICES ASSUME NEW s \in Slots, bs'[s] # {} \/ slotOwner[s] # NONE
                 PROVE  \E i \in 0 .. num' - 1 : s = Nth(writePos, i)
      BY <1>2
    <3>1. \A i \in 0 .. num - 1 : i \in 0 .. num' - 1
      BY <1>0, <1>2
    <3>2. CASE s = s0
      <4>1. num \in 0 .. num' - 1
        BY <1>0, <1>2
      <4> QED BY <3>2, <4>1 DEF s0
    <3>3. CASE s # s0
      BY <1>3, <3>1, <3>3 DEF Ring, Window
    <3> QED BY <3>2, <3>3
  <2> QED BY <2>1, <2>2, <2>3, <2>4 DEF Window
<1>11. Retire'
  <2>1. \A s \in Slots : slotOwner'[s] # NONE
           => s = writePos' /\ bs'[s] = {} /\ slotOwner'[s] \in Readers /\ pc'[slotOwner'[s]] = "retire"
    BY <1>1, <1>2, <1>3, <1>7 DEF Ring, Retire
  <2>2. \A r \in Readers : pc'[r] = "retire"
           => at'[r] = writePos' /\ slotOwner'[writePos'] = r /\ last'[r] = Base' + 1
    BY <1>2, <1>7, <1>8 DEF Ring, Retire
  <2> QED BY <2>1, <2>2 DEF Retire
<1>12. Follow'
  <2> SUFFICES ASSUME NEW q \in Readers, Following(q)'
               PROVE  Follows(q)'
    BY DEF Follow
  <2>1. /\ pc'[q] = pc[q] /\ at'[q] = at[q] /\ Following(q) /\ Ahead(q)' = Ahead(q) /\ Follows(q)
    BY <1>2, <1>7, <1>8 DEF Following, Ahead, Ring, Follow
  <2>2. Base <= last[q] /\ last[q] <= sent'
    BY <1>0, <1>2, <2>1 DEF Follows
  <2>3. ASSUME NEW i \in 0 .. num' - 1
        PROVE  field[q] \in bs'[Nth(writePos, i)] <=> last[q] < Base + 1 + i
    <3>1. CASE i = num
      <4>1. field[q] \in subscribers
        BY <1>0, <2>1 DEF Following, Fielded
      <4>2. last[q] < Base + 1 + i
        BY <1>0, <1>5, <2>1, <3>1 DEF Follows
      <4> QED BY <1>1, <1>3, <3>1, <4>1, <4>2 DEF s0
    <3>2. CASE i \in 0 .. num - 1
      BY <1>3, <1>4, <2>1, <3>2 DEF Follows
    <3> QED BY <1>6, <3>1, <3>2
  <2> QED BY <1>2, <2>1, <2>2, <2>3 DEF Follows
<1> QED BY <1>9, <1>10, <1>11, <1>12 DEF Ring

\* Read finds the slot of its next message.
LEMMA ReadPicksStep ==
    ASSUME Typed, PoolHeld, Ring, NEW r \in Readers, ReadPicks(r)
    PROVE  Ring'
<1> r \in Threads /\ Readers \subseteq Threads /\ Writers \subseteq Threads /\ r \notin Writers
  BY DEF Threads
<1>1. /\ UNCHANGED <<subscribers, num, writePos, subPos, data, bs, slotOwner, field, sent, last>>
      /\ Base' = Base /\ pc[r] = "read"
  BY DEF ReadPicks, poolVars, slotVars, owners, history, Base
<1>2. \A u \in Threads : pc'[u] = IF u = r THEN "slot" ELSE pc[u]
  BY Moves DEF ReadPicks, PlaceNames
<1>3. \A u \in Threads : at'[u] = IF u = r THEN subPos[field[r]] ELSE at[u]
  BY DEF ReadPicks, Index, Typed, TypeOK
<1>4. Held'
  <2>1. \A q \in Readers : pc'[q] \in {"mark", "unmark"} => num' = 0
    BY <1>1, <1>2 DEF Ring, Held
  <2>2. \A w \in Writers :
           pc'[w] = "store" => num' < PoolSize /\ at'[w] = Nth(writePos', num') /\ subscribers' # {}
    BY <1>1, <1>2, <1>3 DEF Ring, Held
  <2> QED BY <2>1, <2>2 DEF Held
<1>5. Window'
  BY <1>1 DEF Ring, Window
<1>6. Retire'
  BY <1>1, <1>2, <1>3 DEF Ring, Retire
<1>7. Follow'
  <2> SUFFICES ASSUME NEW q \in Readers, Following(q)'
               PROVE  Follows(q)'
    BY DEF Follow
  <2>1. /\ Following(q) /\ Ahead(q)' = Ahead(q) /\ Follows(q)
    BY <1>1, <1>2 DEF Following, Ahead, Ring, Follow
  <2> QED BY <1>1, <1>2, <1>3, <2>1 DEF Follows
<1> QED BY <1>4, <1>5, <1>6, <1>7 DEF Ring

\* Who is marked in a slot follows the ring.
LEMMA MarkedFollows ==
    ASSUME Typed, Ghosts, Fielded, Ring, NEW s \in Slots, NEW f \in bs[s]
    PROVE  \E q \in Readers : Following(q) /\ field[q] = f
<1>0. num # 0 /\ f \in Fields /\ f # NONE
  <2>1. num # 0
    BY EmptyRing
  <2>2. f \in Fields
    BY DEF Typed, TypeOK
  <2> QED BY <2>1, <2>2, Outside
<1>1. \A q \in Readers : pc[q] \notin {"mark", "unmark"}
  BY <1>0 DEF Ring, Held
<1>2. f \in subscribers
  BY <1>1 DEF Ghosts
<1> QED BY <1>0, <1>1, <1>2 DEF Fielded, Following

\* Where a reader's next message is, if it is ready to be read.
LEMMA NextMessage ==
    ASSUME Typed, Ring, NEW r \in Readers, pc[r] = "slot", Ready(r)
    PROVE  \E d \in 0 .. num - 1 :
              /\ at[r] = Nth(writePos, d) /\ last[r] = Base + d /\ data[at[r]] = last[r] + 1
              /\ at[r] = subPos[field[r]] /\ Following(r)
<1>0. /\ num \in Nat /\ sent \in Nat /\ writePos \in Slots /\ last \in [Readers -> Nat]
      /\ subPos \in [Fields -> Slots] /\ field[r] \in Fields /\ at[r] \in Slots
      /\ num <= PoolSize /\ Base \in Int /\ Base + num = sent /\ field[r] # NONE
  BY Outside DEF Typed, TypeOK, Places, Ring, Window, Base
<1>1. Following(r) /\ Follows(r) /\ Ahead(r) = 0
  BY <1>0 DEF Following, Ring, Follow, Ahead
<1> DEFINE d == last[r] - Base
<1>2. d \in 0 .. num /\ last[r] = Base + d /\ d \in 0 .. PoolSize
  BY <1>0, <1>1 DEF Follows
<1> HIDE DEF d
<1>3. at[r] = Nth(writePos, d) /\ at[r] = subPos[field[r]]
  <2>1. at[r] = subPos[field[r]] /\ Wrap(subPos[field[r]] + 0) = Nth(writePos, last[r] - Base)
    BY <1>1 DEF Follows
  <2>2. at[r] + 0 = at[r] /\ Wrap(at[r]) = at[r]
    BY <1>0, NthFirst DEF Slots
  <2> QED BY <2>1, <2>2 DEF d
<1>4. PICK i \in 0 .. num - 1 : at[r] = Nth(writePos, i)
  BY <1>0 DEF Ready, Ring, Window
<1>5. last[r] < Base + 1 + i
  BY <1>1, <1>4 DEF Ready, Follows
<1>6. d \in 0 .. PoolSize - 1 /\ i \in 0 .. PoolSize - 1
  BY <1>0, <1>2, <1>5
<1>7. d = i
  BY <1>0, <1>3, <1>4, <1>6, NthOnce
<1>8. data[at[r]] = last[r] + 1
  <2>1. data[at[r]] = Base + 1 + i
    BY <1>4 DEF Ring, Window
  <2> QED BY <1>0, <1>2, <1>7, <2>1
<1> QED BY <1>1, <1>2, <1>3, <1>7, <1>8

\* The last reader of a message finds it first in the ring, with nobody retiring it: all
\* readers of the message before that one are behind it.
LEMMA LastReader ==
    ASSUME Typed, Ghosts, Fielded, Ring, NEW r \in Readers, pc[r] = "slot",
           NEW d \in 0 .. num - 1, at[r] = Nth(writePos, d), last[r] = Base + d, at[r] \in Slots,
           bs[at[r]] \subseteq {field[r]}
    PROVE  d = 0
<1>0. /\ num \in Nat /\ sent \in Nat /\ writePos \in Slots /\ last \in [Readers -> Nat]
      /\ num <= PoolSize /\ Base \in Int
  BY DEF Typed, TypeOK, Ring, Window, Base
<1>1. ASSUME NEW q \in Readers, q # r, Following(q)
      PROVE  ~ (last[q] < Base + 1 + d)
  <2>1. field[q] # field[r]
    BY <1>1 DEF Following, Fielded
  <2>2. field[q] \notin bs[Nth(writePos, d)]
    BY <2>1
  <2>3. Follows(q)
    BY <1>1 DEF Ring, Follow
  <2> QED BY <2>2, <2>3 DEF Follows
<1> SUFFICES ASSUME d # 0
             PROVE  FALSE
  OBVIOUS
<1>2. d - 1 \in 0 .. num - 1 /\ d - 1 \in 0 .. PoolSize /\ Base + 1 + (d - 1) = Base + d
  BY <1>0
<1>3. Nth(writePos, d - 1) \in Slots
  BY <1>0, <1>2, NthType
<1>4. bs[Nth(writePos, d - 1)] = {}
  <2> SUFFICES ASSUME NEW f \in bs[Nth(writePos, d - 1)]
               PROVE  FALSE
    OBVIOUS
  <2>1. PICK q \in Readers : Following(q) /\ field[q] = f
    BY <1>3, MarkedFollows
  <2>2. last[q] < Base + 1 + (d - 1)
    BY <1>2, <2>1 DEF Ring, Follow, Follows
  <2>3. q # r /\ last[q] < Base + 1 + d
    BY <1>0, <1>2, <2>2
  <2> QED BY <1>1, <2>1, <2>3
<1>5. d - 1 = 0 /\ slotOwner[writePos] # NONE
  BY <1>2, <1>4 DEF Ring, Window
<1>6. PICK q \in Readers : q = slotOwner[writePos] /\ pc[q] = "retire"
  BY <1>0, <1>5 DEF Ring, Retire
<1>7. last[q] = Base + 1 /\ q # r
  BY <1>6 DEF Ring, Retire
<1>8. Following(q)
  BY <1>6, Outside DEF Following, Typed, Places
<1>9. last[q] < Base + 1 + d
  BY <1>0, <1>5, <1>7
<1> QED BY <1>1, <1>7, <1>8, <1>9

\* Read copies the message and takes its mark away.
LEMMA ReadCopiesStep ==
    ASSUME Typed, Ghosts, Fielded, Ring, NEW r \in Readers, ReadCopies(r)
    PROVE  Ring'
<1> r \in Threads /\ Readers \subseteq Threads /\ Writers \subseteq Threads /\ r \notin Writers
  BY DEF Threads
<1>0. /\ num \in Nat /\ sent \in Nat /\ writePos \in Slots /\ last \in [Readers -> Nat]
      /\ bs \in [Slots -> SUBSET Fields] /\ slotOwner \in [Slots -> Readers \cup {NONE}]
      /\ num <= PoolSize /\ Base \in Int /\ Base + num = sent /\ at[r] \in Slots
      /\ \A q \in Readers : q # NONE
  BY DEF Typed, TypeOK, Places, Ring, Window, Base, ReadCopies
<1> DEFINE s0 == at[r]
           left == bs[s0] \ {field[r]}
<1>1. /\ pc[r] = "slot" /\ Ready(r) /\ slotOwner[s0] = NONE
      /\ UNCHANGED <<subscribers, num, writePos, subPos, data, at, field, sent>> /\ Base' = Base
      /\ bs' = [bs EXCEPT ![s0] = left] /\ last' = [last EXCEPT ![r] = data[s0]]
  BY DEF ReadCopies, SlotFree, poolVars, Base
<1>2. PICK d \in 0 .. num - 1 :
        /\ s0 = Nth(writePos, d) /\ last[r] = Base + d /\ data[s0] = last[r] + 1
        /\ s0 = subPos[field[r]] /\ Following(r)
  BY <1>1, NextMessage
<1>3. /\ \A s \in Slots : bs'[s] = IF s = s0 THEN left ELSE bs[s]
      /\ \A q \in Readers : last'[q] = IF q = r THEN Base + d + 1 ELSE last[q]
  BY <1>0, <1>1, <1>2
<1>4. PICK l \in {"retire", "advance"} :
        /\ l = "retire" <=> left = {}
        /\ \A u \in Threads : pc'[u] = IF u = r THEN l ELSE pc[u]
        /\ \A s \in Slots : slotOwner'[s] = IF s = s0 /\ left = {} THEN r ELSE slotOwner[s]
  <2>1. CASE left = {}
    <3>1. Goto(r, "retire") /\ slotOwner' = [slotOwner EXCEPT ![s0] = r]
      BY <2>1 DEF ReadCopies
    <3>2. \A u \in Threads : pc'[u] = IF u = r THEN "retire" ELSE pc[u]
      BY <3>1, Moves DEF PlaceNames
    <3>3. \A s \in Slots : slotOwner'[s] = IF s = s0 THEN r ELSE slotOwner[s]
      BY <1>0, <3>1
    <3> QED BY <2>1, <3>2, <3>3
  <2>2. CASE left # {}
    <3>1. Goto(r, "advance") /\ slotOwner' = slotOwner
      BY <2>2 DEF ReadCopies
    <3>2. \A u \in Threads : pc'[u] = IF u = r THEN "advance" ELSE pc[u]
      BY <3>1, Moves DEF PlaceNames
    <3> QED BY <2>2, <3>1, <3>2
  <2> QED BY <2>1, <2>2
<1>5. left = {} => d = 0 /\ s0 = writePos
  <2>1. left = {} => d = 0
    BY <1>0, <1>1, <1>2, LastReader
  <2> QED BY <1>0, <1>2, <2>1, NthFirst
<1>6. \A i \in 0 .. num - 1 :
         /\ Nth(writePos, i) \in Slots
         /\ Nth(writePos, i) = s0 <=> i = d
  <2> SUFFICES ASSUME NEW i \in 0 .. num - 1
               PROVE  Nth(writePos, i) \in Slots /\ (Nth(writePos, i) = s0 <=> i = d)
    OBVIOUS
  <2>1. i \in 0 .. PoolSize - 1 /\ d \in 0 .. PoolSize - 1 /\ i \in 0 .. PoolSize
    BY <1>0
  <2> QED BY <1>0, <1>2, <2>1, NthType, NthOnce
<1>7. \A q \in Readers : field[q] = field[r] => q = r
  BY <1>2 DEF Following, Fielded
<1> HIDE DEF left, s0
<1>8. Held'
  <2>1. \A q \in Readers : pc'[q] \in {"mark", "unmark"} => num' = 0
    BY <1>1, <1>4 DEF Ring, Held
  <2>2. \A w \in Writers :
           pc'[w] = "store" => num' < PoolSize /\ at'[w] = Nth(writePos', num') /\ subscribers' # {}
    BY <1>1, <1>4 DEF Ring, Held
  <2> QED BY <2>1, <2>2 DEF Held
<1>9. Window'
  <2>1. num' <= PoolSize /\ num' <= sent'
        /\ \A i \in 0 .. num' - 1 : data'[Nth(writePos', i)] = Base' + 1 + i
    BY <1>1 DEF Ring, Window
  <2>2. \A i \in 0 .. num' - 1 : bs'[Nth(writePos', i)] = {} => i = 0 /\ slotOwner'[writePos'] # NONE
    <3> SUFFICES ASSUME NEW i \in 0 .. num - 1, bs'[Nth(writePos, i)] = {}
                 PROVE  i = 0 /\ slotOwner'[writePos] # NONE
      BY <1>1
    <3>1. CASE i = d
      BY <1>0, <1>3, <1>4, <1>5, <1>6, <3>1
    <3>2. CASE i # d
      <4>1. i = 0 /\ slotOwner[writePos] # NONE
        BY <1>3, <1>6, <3>2 DEF Ring, Window
      <4> QED BY <1>0, <1>4, <4>1
    <3> QED BY <3>1, <3>2
  <2>3. \A s \in Slots : bs'[s] # {} \/ slotOwner'[s] # NONE
                            => \E i \in 0 .. num' - 1 : s = Nth(writePos', i)
    <3> SUFFICES ASSUME NEW s \in Slots, bs'[s] # {} \/ slotOwner'[s] # NONE
                 PROVE  \E i \in 0 .. num - 1 : s = Nth(writePos, i)
      BY <1>1
    <3>1. CASE s = s0
      BY <1>2, <3>1
    <3>2. CASE s # s0
      BY <1>3, <1>4, <3>2 DEF Ring, Window
    <3> QED BY <3>1, <3>2
  <2> QED BY <2>1, <2>2, <2>3 DEF Window
<1>10. Retire'
  <2>1. ASSUME NEW s \in Slots, slotOwner'[s] # NONE
        PROVE  /\ s = writePos' /\ bs'[s] = {}
               /\ slotOwner'[s] \in Readers /\ pc'[slotOwner'[s]] = "retire"
    <3>1. CASE s = s0
      <4>1. left = {} /\ slotOwner'[s] = r
        BY <1>0, <1>1, <1>4, <2>1, <3>1
      <4> QED BY <1>1, <1>3, <1>4, <1>5, <3>1, <4>1
    <3>2. CASE s # s0
      <4>1. slotOwner[s] # NONE /\ slotOwner'[s] = slotOwner[s]
        BY <1>4, <2>1, <3>2
      <4> QED BY <1>1, <1>3, <1>4, <3>2, <4>1 DEF Ring, Retire
    <3> QED BY <3>1, <3>2
  <2>2. ASSUME NEW q \in Readers, pc'[q] = "retire"
        PROVE  at'[q] = writePos' /\ slotOwner'[writePos'] = q /\ last'[q] = Base' + 1
    <3>1. CASE q = r
      <4>1. left = {} /\ d = 0 /\ s0 = writePos
        BY <1>4, <1>5, <2>2, <3>1
      <4>2. last'[r] = Base + 1
        BY <1>0, <1>3, <4>1
      <4> QED BY <1>0, <1>1, <1>4, <3>1, <4>1, <4>2 DEF s0
    <3>2. CASE q # r
      <4>1. pc[q] = "retire" /\ at[q] = writePos /\ slotOwner[writePos] = q /\ last[q] = Base + 1
        BY <1>4, <2>2, <3>2 DEF Ring, Retire
      <4>2. writePos # s0
        BY <1>0, <1>1, <4>1
      <4> QED BY <1>0, <1>1, <1>3, <1>4, <3>2, <4>1, <4>2
    <3> QED BY <3>1, <3>2
  <2> QED BY <2>1, <2>2 DEF Retire
<1>11. Follow'
  <2> SUFFICES ASSUME NEW q \in Readers, Following(q)'
               PROVE  Follows(q)'
    BY DEF Follow
  <2>1. CASE q = r
    <3>1. Ahead(r)' = 1
      BY <1>4 DEF Ahead
    <3>2. Wrap(subPos'[field'[r]] + 1) = Nth(writePos, d + 1)
      <4>1. d \in 0 .. PoolSize - 1
        BY <1>0
      <4>2. Wrap(s0 + 1) = Nth(writePos, d + 1)
        BY <1>0, <1>2, <4>1, NthNext DEF s0
      <4> QED BY <1>1, <1>2, <4>2
    <3>3. last'[r] = Base + d + 1 /\ last'[r] - Base = d + 1 /\ Base <= last'[r] /\ last'[r] <= sent
      BY <1>0, <1>3
    <3>4. ASSUME NEW i \in 0 .. num - 1
          PROVE  field[r] \in bs'[Nth(writePos, i)] <=> last'[r] < Base + 1 + i
      <4>1. CASE i = d
        <5>1. field[r] \notin bs'[Nth(writePos, i)]
          BY <1>3, <1>6, <4>1 DEF left
        <5>2. ~ (last'[r] < Base + 1 + i)
          BY <1>0, <3>3, <4>1
        <5> QED BY <5>1, <5>2
      <4>2. CASE i # d
        <5>1. bs'[Nth(writePos, i)] = bs[Nth(writePos, i)]
          BY <1>3, <1>6, <4>2
        <5>2. field[r] \in bs[Nth(writePos, i)] <=> last[r] < Base + 1 + i
          BY <1>2 DEF Ring, Follow, Follows
        <5>3. last[r] < Base + 1 + i <=> last'[r] < Base + 1 + i
          BY <1>0, <1>2, <3>3, <4>2
        <5> QED BY <5>1, <5>2, <5>3
      <4> QED BY <4>1, <4>2
    <3>5. at'[r] = subPos'[field'[r]]
      BY <1>1, <1>2 DEF s0
    <3> QED BY <1>1, <2>1, <3>1, <3>2, <3>3, <3>4, <3>5 DEF Follows
  <2>2. CASE q # r
    <3>1. /\ pc'[q] = pc[q] /\ Following(q) /\ Ahead(q)' = Ahead(q) /\ Follows(q) /\ last'[q] = last[q]
      BY <1>1, <1>3, <1>4, <2>2 DEF Following, Ahead, Ring, Follow
    <3>2. \A s \in Slots : field[q] \in bs'[s] <=> field[q] \in bs[s]
      BY <1>3, <1>7, <2>2 DEF left
    <3> QED BY <1>1, <1>6, <3>1, <3>2 DEF Follows
  <2> QED BY <2>1, <2>2
<1> QED BY <1>8, <1>9, <1>10, <1>11 DEF Ring

\* The last reader of the first message takes it out of the ring.
LEMMA ReadRetiresStep ==
    ASSUME Typed, PoolHeld, Ring, NEW r \in Readers, ReadRetires(r)
    PROVE  Ring'
<1> r \in Threads /\ Readers \subseteq Threads /\ Writers \subseteq Threads /\ r \notin Writers
  BY DEF Threads
<1>0. /\ num \in Nat /\ sent \in Nat /\ writePos \in Slots /\ last \in [Readers -> Nat]
      /\ slotOwner \in [Slots -> Readers \cup {NONE}] /\ num <= PoolSize /\ num <= sent
      /\ Base \in Int /\ Base + num = sent /\ NONE \notin Threads
  BY Outside DEF Typed, TypeOK, Ring, Window, Base
<1>1. /\ pc[r] = "retire" /\ poolOwner = NONE /\ at[r] = writePos /\ slotOwner[writePos] = r
      /\ UNCHANGED <<subscribers, subPos, data, bs, at, field, sent, last>>
      /\ writePos' = Wrap(writePos + 1) /\ slotOwner' = [slotOwner EXCEPT ![writePos] = NONE]
  BY DEF ReadRetires, PoolFree, slotVars, history, Ring, Retire
<1>2. bs[writePos] = {} /\ \A s \in Slots : slotOwner[s] # NONE => s = writePos
  BY <1>0, <1>1 DEF Ring, Retire
<1>3. num \in 1 .. PoolSize /\ 0 \in 0 .. num - 1
  <2>1. \E i \in 0 .. num - 1 : writePos = Nth(writePos, i)
    BY <1>0, <1>1 DEF Ring, Window
  <2> QED BY <1>0, <2>1
<1>4. num' = num - 1 /\ Base' = Base + 1
  <2>1. num' = num - 1
    BY <1>3, UnsignedLess DEF ReadRetires
  <2> QED BY <1>0, <1>1, <2>1 DEF Base
<1>5. \A i \in 1 .. PoolSize : Nth(writePos', i - 1) = Nth(writePos, i)
  BY <1>0, <1>1, NthShift
<1>6. ASSUME NEW i \in 0 .. num' - 1
      PROVE  /\ i + 1 \in 0 .. num - 1 /\ i + 1 # 0
             /\ Nth(writePos', i) = Nth(writePos, i + 1)
             /\ Base' + 1 + i = Base + 1 + (i + 1)
  <2>1. i + 1 \in 1 .. PoolSize /\ (i + 1) - 1 = i /\ i + 1 \in 0 .. num - 1
    BY <1>0, <1>3, <1>4
  <2>2. Nth(writePos', (i + 1) - 1) = Nth(writePos, i + 1)
    BY <1>5, <2>1
  <2> QED BY <1>0, <1>4, <2>1, <2>2
<1>7. \A u \in Threads : pc'[u] = IF u = r THEN "advance" ELSE pc[u]
  BY Moves DEF ReadRetires, PlaceNames
<1>8. \A s \in Slots : slotOwner'[s] = NONE
  BY <1>0, <1>1, <1>2
<1>9. Held'
  <2>1. \A u \in Threads : pc[u] \notin {"mark", "unmark", "store"}
    BY <1>0, <1>1 DEF PoolHeld, Holding
  <2>2. \A u \in Threads : pc'[u] \notin {"mark", "unmark", "store"}
    BY <1>7, <2>1
  <2> QED BY <2>2 DEF Held
<1>10. Window'
  <2>1. num' <= PoolSize /\ num' <= sent'
    BY <1>0, <1>1, <1>4
  <2>2. ASSUME NEW i \in 0 .. num' - 1
        PROVE  /\ data'[Nth(writePos', i)] = Base' + 1 + i
               /\ bs'[Nth(writePos', i)] # {}
    BY <1>1, <1>6 DEF Ring, Window
  <2>3. ASSUME NEW s \in Slots, bs'[s] # {}
        PROVE  \E i \in 0 .. num' - 1 : s = Nth(writePos', i)
    <3>1. PICK j \in 0 .. num - 1 : s = Nth(writePos, j)
      BY <1>1, <2>3 DEF Ring, Window
    <3>2. j # 0
      BY <1>0, <1>1, <1>2, <2>3, <3>1, NthFirst
    <3>3. j \in 1 .. PoolSize /\ j - 1 \in 0 .. num' - 1
      BY <1>0, <1>4, <3>2
    <3> QED BY <1>5, <3>1, <3>3
  <2> QED BY <1>8, <2>1, <2>2, <2>3 DEF Window
<1>11. Retire'
  <2>1. \A q \in Readers : pc'[q] # "retire"
    BY <1>1, <1>7 DEF Ring, Retire
  <2> QED BY <1>8, <2>1 DEF Retire
<1>12. Follow'
  <2> SUFFICES ASSUME NEW q \in Readers, Following(q)'
               PROVE  Follows(q)'
    BY DEF Follow
  <2>1. Following(q) /\ Ahead(q)' = Ahead(q) /\ Follows(q)
    BY <1>1, <1>7 DEF Following, Ahead, Ring, Follow
  <2>2. last[q] >= Base + 1 /\ last[q] <= sent
    <3>1. field[q] \notin bs[Nth(writePos, 0)]
      BY <1>0, <1>2, NthFirst
    <3>2. ~ (last[q] < Base + 1 + 0)
      BY <1>3, <2>1, <3>1 DEF Follows
    <3> QED BY <1>0, <2>1, <3>2 DEF Follows
  <2>3. Nth(writePos', last[q] - Base') = Nth(writePos, last[q] - Base)
    <3>1. last[q] - Base \in 1 .. PoolSize /\ (last[q] - Base) - 1 = last[q] - Base'
      BY <1>0, <1>4, <2>2
    <3> QED BY <1>5, <3>1
  <2>4. Base' <= last[q]
    BY <1>0, <1>4, <2>2
  <2>5. ASSUME NEW i \in 0 .. num' - 1
        PROVE  field[q] \in bs[Nth(writePos', i)] <=> last[q] < Base' + 1 + i
    BY <1>6, <2>1 DEF Follows
  <2>6. pc'[q] \in {"slot", "retire"} => at[q] = subPos[field[q]]
    BY <1>7, <2>1 DEF Follows
  <2> QED BY <1>1, <2>1, <2>2, <2>3, <2>4, <2>5, <2>6 DEF Follows
<1> QED BY <1>9, <1>10, <1>11, <1>12 DEF Ring

\* Read goes on to the next slot.
LEMMA ReadAdvancesStep ==
    ASSUME Typed, PoolHeld, Fielded, Ring, NEW r \in Readers, ReadAdvances(r)
    PROVE  Ring'
<1> r \in Threads /\ Readers \subseteq Threads /\ Writers \subseteq Threads /\ r \notin Writers
  BY DEF Threads
<1>0. /\ writePos \in Slots /\ subPos \in [Fields -> Slots] /\ field[r] \in Fields
      /\ field \in [Readers -> Fields \cup {NONE}] /\ at \in [Threads -> 0 .. 2 * PoolSize]
      /\ NONE \notin Fields /\ NONE \notin Threads
  BY Outside DEF Typed, TypeOK, Places, ReadAdvances
<1>1. /\ UNCHANGED <<subscribers, num, writePos, data, bs, slotOwner, field, sent, last>>
      /\ Base' = Base /\ pc[r] = "advance" /\ poolOwner = NONE
      /\ subPos' = [subPos EXCEPT ![field[r]] = Wrap(subPos[field[r]] + 1)]
  BY <1>0 DEF ReadAdvances, Next1, PoolFree, slotVars, owners, history, Base
<1>2. \A u \in Threads : pc'[u] = IF u = r THEN "idle" ELSE pc[u]
  BY Moves DEF ReadAdvances, PlaceNames
<1>3. \A u \in Threads : u # r => at'[u] = at[u]
  BY <1>0 DEF ReadAdvances, Index
<1>4. Held'
  <2>1. \A u \in Threads : pc[u] \notin {"mark", "unmark", "store"}
    BY <1>0, <1>1 DEF PoolHeld, Holding
  <2>2. \A u \in Threads : pc'[u] \notin {"mark", "unmark", "store"}
    BY <1>2, <2>1
  <2> QED BY <2>2 DEF Held
<1>5. Window'
  BY <1>1 DEF Ring, Window
<1>6. Retire'
  BY <1>1, <1>2, <1>3 DEF Ring, Retire
<1>7. Follow'
  <2> SUFFICES ASSUME NEW q \in Readers, Following(q)'
               PROVE  Follows(q)'
    BY DEF Follow
  <2>1. Following(q) /\ Follows(q)
    BY <1>1, <1>2 DEF Following, Ring, Follow
  <2>2. CASE q = r
    <3>1. Ahead(r) = 1 /\ Ahead(r)' = 0 /\ pc'[r] = "idle"
      BY <1>1, <1>2 DEF Ahead
    <3> DEFINE p == Wrap(subPos[field[r]] + 1)
    <3>2. p \in Slots /\ subPos'[field[r]] = p
      <4>1. p \in Slots
        BY <1>0, NthShift
      <4> QED BY <1>0, <1>1, <4>1
    <3>3. Wrap(p + 0) = p
      BY <3>2, NthFirst DEF Slots
    <3>4. p = Nth(writePos, last[r] - Base)
      BY <2>1, <2>2, <3>1 DEF Follows
    <3> HIDE DEF p
    <3> QED BY <1>1, <2>1, <2>2, <3>1, <3>2, <3>3, <3>4 DEF Follows
  <2>3. CASE q # r
    <3>1. /\ pc'[q] = pc[q] /\ at'[q] = at[q] /\ Ahead(q)' = Ahead(q)
      BY <1>2, <1>3, <2>3 DEF Ahead
    <3>2. field[q] # field[r]
      BY <2>1, <2>3 DEF Following, Fielded
    <3>3. subPos'[field[q]] = subPos[field[q]]
      BY <1>0, <1>1, <2>1, <3>2 DEF Following
    <3> QED BY <1>1, <2>1, <3>1, <3>3 DEF Follows
  <2> QED BY <2>2, <2>3
<1> QED BY <1>4, <1>5, <1>6, <1>7 DEF Ring

-----------------------------------------------------------------------------
\* The invariant of the ring: what orderly clients may rely on.
RingInv == CircleInv /\ Fielded /\ (orderly => Ring)

\* The ring is empty at first.
LEMMA RingInit == Init => RingInv
<1> SUFFICES ASSUME Init PROVE RingInv
  OBVIOUS
<1>1. CircleInv
  BY CircleInit DEF CircleInv
<1>2. \A t \in Threads : pc[t] = "idle"
  BY DEF Init
<1>3. \A r \in Readers : r \in Threads /\ field[r] = NONE
  BY DEF Init, Threads
<1>4. Fielded
  BY <1>2, <1>3, Outside DEF Init, Fielded
<1>5. Held /\ Retire /\ Follow
  BY <1>2, <1>3 DEF Init, Held, Retire, Follow, Following, Threads
<1>6. Window
  BY DEF Init, Window
<1> QED BY <1>1, <1>4, <1>5, <1>6 DEF RingInv, Ring

\* Every step keeps the invariant: those that end the order owe nothing any more.
LEMMA RingStep ==
    ASSUME RingInv, [Next]_vars
    PROVE  RingInv'
<1>1. CircleInv /\ CircleInv' /\ Fielded
  BY CircleStep DEF RingInv
<1>2. Typed /\ PoolHeld /\ Ghosts /\ Typed'
  BY <1>1 DEF CircleInv
<1>3. Fielded'
  BY <1>1, <1>2, FieldedStep
<1>4. ASSUME orderly'
      PROVE  Ring'
  <2>1. orderly => Ring
    BY DEF RingInv
  <2>2. ASSUME NEW r \in Readers, SubLocks(r) \/ SubMarks(r) \/ SubEnds(r)
        PROVE  Ring'
    BY <1>1, <1>2, <1>4, <2>1, <2>2, SubSteps
  <2>3. ASSUME NEW r \in Readers, UnSubLocks(r) \/ UnSubUnmarks(r) \/ UnSubEnds(r)
        PROVE  Ring'
    BY <1>1, <1>2, <1>4, <2>1, <2>3, UnSubSteps
  <2>4. ASSUME NEW w \in Writers, WriteLocks(w)
        PROVE  Ring'
    BY <1>2, <1>4, <2>1, <2>4, WriteLocksStep
  <2>5. ASSUME NEW w \in Writers, WriteStores(w)
        PROVE  Ring'
    <3>1. orderly
      BY <1>4, <2>5 DEF WriteStores
    <3> QED BY <1>1, <1>2, <2>1, <2>5, <3>1, WriteStoresStep
  <2>6. ASSUME NEW r \in Readers, ReadPicks(r) \/ ReadCopies(r) \/ ReadRetires(r) \/ ReadAdvances(r)
        PROVE  Ring'
    <3>1. orderly
      BY <1>4, <2>6 DEF ReadPicks, ReadCopies, ReadRetires, ReadAdvances, history
    <3> QED BY <1>1, <1>2, <2>1, <2>6, <3>1, ReadPicksStep, ReadCopiesStep, ReadRetiresStep,
               ReadAdvancesStep
  <2>7. ASSUME \/ UNCHANGED vars \/ SpuriousWakeup
               \/ \E r \in Readers : SubCall(r) \/ SubFull(r) \/ UnSubCall(r) \/ ReadCall(r)
                                     \/ ReadWaitsPool(r) \/ ReadWaitsSlot(r)
               \/ \E w \in Writers : WriteCall(w) \/ WriteDrops(w)
        PROVE  Ring'
    <3>1. orderly
      BY <1>4, <2>7 DEF vars, history, SpuriousWakeup, SubCall, SubFull, UnSubCall, ReadCall,
                        ReadWaitsPool, ReadWaitsSlot, WriteCall, WriteDrops
    <3> QED BY <1>2, <2>1, <2>7, <3>1, CalmSteps
  <2>8. ASSUME NEW r \in Readers, SubCall(r) \/ UnSubCall(r) \/ ReadCall(r) \/ ReaderStep(r)
        PROVE  Ring'
    <3>1. \/ SubLocks(r) \/ SubMarks(r) \/ SubEnds(r)
          \/ UnSubLocks(r) \/ UnSubUnmarks(r) \/ UnSubEnds(r)
          \/ ReadPicks(r) \/ ReadCopies(r) \/ ReadRetires(r) \/ ReadAdvances(r)
          \/ SubCall(r) \/ SubFull(r) \/ UnSubCall(r) \/ ReadCall(r)
          \/ ReadWaitsPool(r) \/ ReadWaitsSlot(r)
      BY <2>8 DEF ReaderStep
    <3> QED BY <2>2, <2>3, <2>6, <2>7, <3>1
  <2>9. ASSUME NEW w \in Writers, WriteCall(w) \/ WriterStep(w)
        PROVE  Ring'
    <3>1. WriteLocks(w) \/ WriteStores(w) \/ WriteCall(w) \/ WriteDrops(w)
      BY <2>9 DEF WriterStep
    <3> QED BY <2>4, <2>5, <2>7, <3>1
  <2>10. CASE UNCHANGED vars
    BY <2>7, <2>10
  <2>11. CASE Next
    BY <2>7, <2>8, <2>9, <2>11 DEF Next
  <2> QED BY <2>10, <2>11
<1> QED BY <1>1, <1>3, <1>4 DEF RingInv

\* The invariant holds throughout.
LEMMA RingAlways == Spec => []RingInv
BY RingInit, RingStep, PTL DEF Spec

\* As long as the clients are orderly, uiCurrMsgDataNum counts the messages that somebody
\* has still to read or is just retiring (lines 171-178 against 231-244).
THEOREM CountRight == Spec => []CountIsLive
<1>1. ASSUME RingInv
      PROVE  CountIsLive
  <2> SUFFICES ASSUME orderly
               PROVE  num = Cardinality(Live \cup Retiring)
    BY DEF CountIsLive
  <2>1. /\ num \in Nat /\ num <= PoolSize /\ writePos \in Slots
        /\ Ring
    <3>1. Ring /\ Typed
      BY <1>1 DEF RingInv, CircleInv
    <3>2. num \in Nat /\ writePos \in Slots
      BY <3>1 DEF Typed, TypeOK
    <3>3. num <= PoolSize
      BY <3>1 DEF Ring, Window
    <3> QED BY <3>1, <3>2, <3>3
  <2> DEFINE W == Live \cup Retiring
             f == [i \in 0 .. num - 1 |-> Nth(writePos, i)]
  <2>2. ASSUME NEW i \in 0 .. num - 1
        PROVE  Nth(writePos, i) \in W
    <3>1. Nth(writePos, i) \in Slots /\ Nth(writePos, 0) = writePos
      <4>1. i \in 0 .. PoolSize
        BY <2>1
      <4> QED BY <2>1, <4>1, NthType, NthFirst
    <3>2. bs[Nth(writePos, i)] # {} \/ (i = 0 /\ slotOwner[writePos] # NONE)
      BY <2>1 DEF Ring, Window
    <3> QED BY <3>1, <3>2 DEF Live, Retiring
  <2>3. ASSUME NEW s \in W
        PROVE  \E i \in 0 .. num - 1 : s = Nth(writePos, i)
    BY <2>1 DEF Live, Retiring, Ring, Window
  <2>4. ASSUME NEW i \in 0 .. num - 1, NEW j \in 0 .. num - 1, Nth(writePos, i) = Nth(writePos, j)
        PROVE  i = j
    <3>1. i \in 0 .. PoolSize - 1 /\ j \in 0 .. PoolSize - 1
      BY <2>1
    <3> QED BY <2>1, <2>4, <3>1, NthOnce
  <2> HIDE DEF W
  <2>5. f \in Bijection(0 .. num - 1, W)
    BY <2>2, <2>3, <2>4 DEF Bijection, Injection, Surjection, IsInjective
  <2>6. IsFiniteSet(0 .. num - 1) /\ Cardinality(0 .. num - 1) = num
    <3>1. 0 \in Int /\ num - 1 \in Int /\ (0 > num - 1 <=> num = 0) /\ num - 1 - 0 + 1 = num
      BY <2>1
    <3> QED BY <2>1, <3>1, FS_Interval
  <2>7. Cardinality(W) = num
    BY <2>5, <2>6, FS_Bijection DEF ExistsBijection
  <2> QED BY <2>7 DEF W
<1> QED BY <1>1, RingAlways, PTL

\* As long as the clients are orderly, the messages a reader has not read lie in the slots
\* it will visit, in the order they were written and marked for it, for any number of
\* readers at any distance from each other (lines 96, 142-159, 206-207, 228-252).
THEOREM ReadersInOrder == Spec => []InOrder
<1>1. ASSUME RingInv
      PROVE  InOrder
  <2> SUFFICES ASSUME orderly, NEW r \in Readers, Reading(r), NEW k \in last[r] + 1 .. sent
               PROVE  LET s == (subPos[field[r]] + Ahead(r) + (k - last[r]) - 1) % PoolSize
                      IN  data[s] = k /\ field[r] \in bs[s]
    BY DEF InOrder, Ahead
  <2>1. /\ num \in Nat /\ num <= PoolSize /\ writePos \in Slots /\ sent \in Nat /\ last[r] \in Nat
        /\ subPos \in [Fields -> Slots] /\ field[r] \in Fields /\ Base \in Int /\ Base + num = sent
        /\ Ring
    <3>1. Ring /\ Typed
      BY <1>1 DEF RingInv, CircleInv
    <3>2. /\ num \in Nat /\ writePos \in Slots /\ sent \in Nat /\ last[r] \in Nat
          /\ subPos \in [Fields -> Slots]
      BY <3>1 DEF Typed, TypeOK
    <3>3. field[r] \in Fields
      BY <3>1 DEF Typed, TypeOK, Reading
    <3>4. num <= PoolSize
      BY <3>1 DEF Ring, Window
    <3> QED BY <3>1, <3>2, <3>3, <3>4 DEF Base
  <2>2. Follows(r)
    BY <2>1 DEF Reading, Following, Ring, Follow
  <2> DEFINE p == subPos[field[r]] + Ahead(r)
             j == k - last[r] - 1
             i == k - Base - 1
             d == last[r] - Base
  <2>3. p \in 0 .. PoolSize /\ j \in 0 .. PoolSize - 1 /\ i \in 0 .. num - 1 /\ i = d + j
        /\ d \in 0 .. PoolSize /\ k = Base + 1 + i
    BY <2>1, <2>2 DEF Follows, Ahead, Slots
  <2>4. Wrap(p) = Nth(writePos, d) /\ Base <= last[r] /\ last[r] < Base + 1 + i
    BY <2>1, <2>2, <2>3 DEF Follows
  <2>5. p + (k - last[r]) - 1 = p + j
    BY <2>1, <2>3
  <2> HIDE DEF p, j, i, d
  <2>6. (p + j) % PoolSize = Nth(writePos, i)
    <3>1. p + j \in 0 .. 2 * PoolSize - 1
      BY <2>3
    <3>2. Wrap(p + j) = Nth(writePos, d + j)
      BY <2>1, <2>3, <2>4 DEF Nth, Wrap, Slots
    <3> QED BY <2>3, <3>1, <3>2, Remainder
  <2>7. data[Nth(writePos, i)] = k /\ field[r] \in bs[Nth(writePos, i)]
    BY <2>1, <2>2, <2>3, <2>4 DEF Ring, Window, Follows
  <2>8. (subPos[field[r]] + Ahead(r) + (k - last[r]) - 1) % PoolSize = Nth(writePos, i)
    BY <2>5, <2>6 DEF p
  <2> QED BY <2>7, <2>8
<1> QED BY <1>1, RingAlways, PTL

\* Only disorderly clients bring the counter out of the bounds of the ring: without a Sub or
\* an UnSub beside queued messages, and without a Write to a full ring, it stays within them
\* (lines 66-118, 170-173, 234-238).
THEOREM OrderlyCount == Spec => [](orderly => CountWithinPool)
<1>1. RingInv => (orderly => CountWithinPool)
  BY DEF RingInv, Ring, Window, CountWithinPool
<1> QED BY <1>1, RingAlways, PTL
=============================================================================
