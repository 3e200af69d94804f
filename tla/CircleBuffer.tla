---------------------------- MODULE CircleBuffer ----------------------------
(***************************************************************************)
(* The publish/subscribe ring of                                           *)
(* src/containers/CircleBuffer/c++/CircleBuffer.cpp: one lock for the pool *)
(* (subscribers, write position, count) and one for each slot, which holds *)
(* a message and the subscribers that have not read it.                    *)
(*                                                                         *)
(* A lock that is held while its owner asks for a second one is a variable *)
(* (poolOwner, slotOwner); every other critical section is one action.     *)
(* Message k is the k-th one accepted; 0 is the null pData.                *)
(***************************************************************************)
EXTENDS Naturals, FiniteSets

CONSTANTS
    Readers,       \* threads that Sub, Read and UnSub
    Writers,       \* threads that Write
    PoolSize,      \* MSG_POOL_SIZE
    SubSize,       \* MSG_SUB_SIZE
    UIntMax,       \* the largest unsigned int
    MaxMessages,   \* bound: messages accepted
    MaxSubs,       \* bound: calls of Sub
    NONE

ASSUME CircleBufferAssumption ==
    /\ PoolSize \in Nat \ {0} /\ SubSize \in Nat \ {0}
    /\ UIntMax \in Nat /\ UIntMax > 2 * PoolSize
    /\ MaxMessages \in Nat /\ MaxSubs \in Nat
    /\ Readers \cap Writers = {} /\ NONE \notin Readers \cup Writers \cup Nat

Threads == Readers \cup Writers
Slots == 0 .. PoolSize - 1
Fields == 0 .. SubSize - 1      \* the positions of a bitset of subscribers

VARIABLES
    subscribers,     \* bsSubscribers
    num, writePos,   \* uiCurrMsgDataNum, uiCurrWritePos
    subPos,          \* arrSubPos
    data, bs,        \* pData and bs of each slot
    poolOwner, slotOwner,   \* who holds PoolCond's mutex and each DataLocker's
    poolCond, slotCond,     \* the readers asleep on PoolCond and on their slot's
    pc, at,          \* where each thread is; its loop index or slot, 0 outside calls
    field,           \* iBitsetPos of each reader
    sent, last,      \* history: messages accepted; the last one each reader passed
    calls,           \* history: calls of Sub
    orderly          \* history: the clients never (un)subscribed beside queued
                     \* messages and never wrote to a full ring

poolVars == <<subscribers, num, writePos, subPos>>
slotVars == <<data, bs>>
owners   == <<poolOwner, slotOwner>>
conds    == <<poolCond, slotCond>>
history  == <<sent, last, calls, orderly>>
vars == <<poolVars, slotVars, owners, conds, pc, at, field, history>>

Goto(t, l) == pc' = [pc EXCEPT ![t] = l]
Index(t, i) == at' = [at EXCEPT ![t] = i]
Unsigned(n) == n % (UIntMax + 1)
Wrap(i) == IF i >= PoolSize THEN i - PoolSize ELSE i
PoolFree == poolOwner = NONE
SlotFree(s) == slotOwner[s] = NONE

Init ==
    /\ subscribers = {} /\ num = 0 /\ writePos = 0
    /\ subPos = [f \in Fields |-> 0]
    /\ data = [s \in Slots |-> 0] /\ bs = [s \in Slots |-> {}]
    /\ poolOwner = NONE /\ slotOwner = [s \in Slots |-> NONE]
    /\ poolCond = {} /\ slotCond = {}
    /\ pc = [t \in Threads |-> "idle"] /\ at = [t \in Threads |-> 0]
    /\ field = [r \in Readers |-> NONE]
    /\ sent = 0 /\ last = [r \in Readers |-> 0]
    /\ calls = 0
    /\ orderly = TRUE

-----------------------------------------------------------------------------
(* Sub *)

SubCall(r) ==
    /\ pc[r] = "idle" /\ field[r] = NONE /\ calls < MaxSubs
    /\ calls' = calls + 1
    /\ Goto(r, "sub")
    /\ UNCHANGED <<poolVars, slotVars, owners, conds, at, field, sent, last, orderly>>

SubFull(r) ==
    /\ pc[r] = "sub" /\ PoolFree /\ subscribers = Fields
    /\ Goto(r, "idle")
    /\ UNCHANGED <<poolVars, slotVars, owners, conds, at, field, history>>

SetFirstEmptyField(r) ==
    \E f \in Fields \ subscribers :
        /\ \A g \in Fields \ subscribers : f <= g
        /\ subscribers' = subscribers \cup {f}
        /\ field' = [field EXCEPT ![r] = f]

SubLocks(r) ==
    /\ pc[r] = "sub" /\ PoolFree
    /\ SetFirstEmptyField(r)
    /\ poolOwner' = r
    /\ Index(r, writePos) /\ Goto(r, "mark")
    /\ orderly' = (orderly /\ num = 0)
    /\ UNCHANGED <<num, writePos, subPos, slotVars, slotOwner, conds, sent, last, calls>>

\* The loop runs from uiCurrWritePos up to uiCurrMsgDataNum, a count.  Past the array,
\* here and in Write, array::at throws, nothing catches it, and there is no next step.
SubMarks(r) ==
    LET s == Wrap(at[r]) IN
    /\ pc[r] = "mark" /\ at[r] < num
    /\ s \in Slots /\ SlotFree(s)
    /\ bs' = [bs EXCEPT ![s] = @ \cup {field[r]}]
    /\ Index(r, at[r] + 1)
    /\ UNCHANGED <<poolVars, data, owners, conds, pc, field, history>>

MutSubPos == 0
SubPos == writePos

SubEnds(r) ==
    /\ pc[r] = "mark" /\ at[r] >= num
    /\ subPos' = [subPos EXCEPT ![field[r]] = SubPos]
    /\ poolOwner' = NONE
    /\ last' = [last EXCEPT ![r] = sent]
    /\ Goto(r, "idle") /\ Index(r, 0)
    /\ UNCHANGED <<subscribers, num, writePos, slotVars, slotOwner, conds, field,
                   sent, calls, orderly>>

-----------------------------------------------------------------------------
(* UnSub *)

UnSubCall(r) ==
    /\ pc[r] = "idle" /\ field[r] # NONE
    /\ Goto(r, "unsub")
    /\ UNCHANGED <<poolVars, slotVars, owners, conds, at, field, history>>

UnSubLocks(r) ==
    /\ pc[r] = "unsub" /\ PoolFree
    /\ poolOwner' = r
    /\ subscribers' = subscribers \ {field[r]}
    /\ Index(r, 0) /\ Goto(r, "unmark")
    /\ orderly' = (orderly /\ num = 0)
    /\ UNCHANGED <<num, writePos, subPos, slotVars, slotOwner, conds, field, sent, last, calls>>

MutUnmark(r) == bs
Unmark(r) == [bs EXCEPT ![at[r]] = @ \ {field[r]}]

UnSubUnmarks(r) ==
    /\ pc[r] = "unmark" /\ at[r] < PoolSize /\ SlotFree(at[r])
    /\ bs' = Unmark(r)
    /\ Index(r, at[r] + 1)
    /\ UNCHANGED <<poolVars, data, owners, conds, pc, field, history>>

UnSubEnds(r) ==
    /\ pc[r] = "unmark" /\ at[r] = PoolSize
    /\ poolOwner' = NONE
    /\ field' = [field EXCEPT ![r] = NONE]
    /\ last' = [last EXCEPT ![r] = 0]
    /\ Goto(r, "idle") /\ Index(r, 0)
    /\ UNCHANGED <<poolVars, slotVars, slotOwner, conds, sent, calls, orderly>>

-----------------------------------------------------------------------------
(* Write, of a message that is not empty *)

WriteCall(w) ==
    /\ pc[w] = "idle" /\ sent < MaxMessages
    /\ Goto(w, "write")
    /\ UNCHANGED <<poolVars, slotVars, owners, conds, at, field, history>>

WriteDrops(w) ==
    /\ pc[w] = "write" /\ PoolFree /\ subscribers = {}
    /\ Goto(w, "idle")
    /\ UNCHANGED <<poolVars, slotVars, owners, conds, at, field, history>>

MutEndPosition == Wrap(num)
EndPosition == Wrap(Unsigned(num + writePos))

WriteLocks(w) ==
    /\ pc[w] = "write" /\ PoolFree /\ subscribers # {}
    /\ EndPosition \in Slots
    /\ poolOwner' = w
    /\ Index(w, EndPosition) /\ Goto(w, "store")
    /\ orderly' = (orderly /\ num # PoolSize)
    /\ UNCHANGED <<poolVars, slotVars, slotOwner, conds, field, sent, last, calls>>

MutWakeNobody(s) == UNCHANGED conds
WakeReaders(s) == poolCond' = {} /\ slotCond' = {r \in slotCond : at[r] # s}

Counted == IF num = PoolSize THEN num ELSE Unsigned(num + 1)

WriteStores(w) ==
    /\ pc[w] = "store" /\ SlotFree(at[w])
    /\ data' = [data EXCEPT ![at[w]] = sent + 1]
    /\ bs' = [bs EXCEPT ![at[w]] = subscribers]
    /\ num' = Counted
    /\ WakeReaders(at[w])
    /\ poolOwner' = NONE
    /\ Goto(w, "idle") /\ Index(w, 0)
    /\ sent' = sent + 1
    /\ UNCHANGED <<subscribers, writePos, subPos, slotOwner, field, last, calls, orderly>>

-----------------------------------------------------------------------------
(* Read *)

ReadCall(r) ==
    /\ pc[r] = "idle" /\ field[r] # NONE
    /\ Goto(r, "read")
    /\ UNCHANGED <<poolVars, slotVars, owners, conds, at, field, history>>

ReadWaitsPool(r) ==
    /\ pc[r] = "read" /\ r \notin poolCond /\ PoolFree /\ num = 0
    /\ poolCond' = poolCond \cup {r}
    /\ UNCHANGED <<poolVars, slotVars, owners, slotCond, pc, at, field, history>>

ReadPicks(r) ==
    /\ pc[r] = "read" /\ r \notin poolCond /\ PoolFree /\ num # 0
    /\ Index(r, subPos[field[r]]) /\ Goto(r, "slot")
    /\ UNCHANGED <<poolVars, slotVars, owners, conds, field, history>>

Ready(r) == field[r] \in bs[at[r]] /\ data[at[r]] # 0

ReadWaitsSlot(r) ==
    /\ pc[r] = "slot" /\ r \notin slotCond /\ SlotFree(at[r]) /\ ~Ready(r)
    /\ slotCond' = slotCond \cup {r}
    /\ UNCHANGED <<poolVars, slotVars, owners, poolCond, pc, at, field, history>>

\* The last reader of a message keeps the slot's lock and asks for the pool's.
ReadCopies(r) ==
    LET left == bs[at[r]] \ {field[r]} IN
    /\ pc[r] = "slot" /\ r \notin slotCond /\ SlotFree(at[r]) /\ Ready(r)
    /\ bs' = [bs EXCEPT ![at[r]] = left]
    /\ last' = [last EXCEPT ![r] = data[at[r]]]
    /\ \/ left = {} /\ slotOwner' = [slotOwner EXCEPT ![at[r]] = r] /\ Goto(r, "retire")
       \/ left # {} /\ UNCHANGED slotOwner /\ Goto(r, "advance")
    /\ UNCHANGED <<poolVars, data, poolOwner, conds, at, field, sent, calls, orderly>>

\* An unsigned count is never below 0: the test of line 235 is never true.
ReadRetires(r) ==
    /\ pc[r] = "retire" /\ PoolFree
    /\ num' = Unsigned(num + UIntMax)
    /\ writePos' = Wrap(writePos + 1)
    /\ slotOwner' = [slotOwner EXCEPT ![at[r]] = NONE]
    /\ Goto(r, "advance")
    /\ UNCHANGED <<subscribers, subPos, slotVars, poolOwner, conds, at, field, history>>

MutNext(i) == i + 1
Next1(i) == Wrap(i + 1)

ReadAdvances(r) ==
    /\ pc[r] = "advance" /\ PoolFree
    /\ subPos' = [subPos EXCEPT ![field[r]] = Next1(@)]
    /\ Goto(r, "idle") /\ Index(r, 0)
    /\ UNCHANGED <<subscribers, num, writePos, slotVars, owners, conds, field, history>>

-----------------------------------------------------------------------------
SpuriousWakeup ==
    /\ \E r \in poolCond \cup slotCond :
          poolCond' = poolCond \ {r} /\ slotCond' = slotCond \ {r}
    /\ UNCHANGED <<poolVars, slotVars, owners, pc, at, field, history>>

ReaderStep(r) ==
    \/ SubFull(r) \/ SubLocks(r) \/ SubMarks(r) \/ SubEnds(r)
    \/ UnSubLocks(r) \/ UnSubUnmarks(r) \/ UnSubEnds(r)
    \/ ReadWaitsPool(r) \/ ReadPicks(r) \/ ReadWaitsSlot(r)
    \/ ReadCopies(r) \/ ReadRetires(r) \/ ReadAdvances(r)
WriterStep(w) == WriteDrops(w) \/ WriteLocks(w) \/ WriteStores(w)

Next ==
    \/ \E r \in Readers : SubCall(r) \/ UnSubCall(r) \/ ReadCall(r) \/ ReaderStep(r)
    \/ \E w \in Writers : WriteCall(w) \/ WriterStep(w)
    \/ SpuriousWakeup

Spec == Init /\ [][Next]_vars

\* A thread inside a call that can run eventually does; calls are the clients'.
FairSpec ==
    /\ Spec
    /\ \A r \in Readers : WF_vars(ReaderStep(r))
    /\ \A w \in Writers : WF_vars(WriterStep(w))

-----------------------------------------------------------------------------
(* Properties *)

TypeOK ==
    /\ subscribers \subseteq Fields
    /\ num \in 0 .. UIntMax /\ writePos \in Slots
    /\ subPos \in [Fields -> Slots]
    /\ data \in [Slots -> Nat] /\ bs \in [Slots -> SUBSET Fields]
    /\ poolOwner \in Threads \cup {NONE} /\ slotOwner \in [Slots -> Readers \cup {NONE}]
    /\ poolCond \subseteq Readers /\ slotCond \subseteq Readers
    /\ pc \in [Threads -> {"idle", "sub", "mark", "unsub", "unmark", "read", "slot",
                          "retire", "advance", "write", "store"}]
    /\ at \in [Threads -> 0 .. 2 * PoolSize]
    /\ field \in [Readers -> Fields \cup {NONE}]
    /\ sent \in Nat /\ last \in [Readers -> Nat] /\ calls \in Nat
    /\ orderly \in BOOLEAN

\* A slot is retired by the last reader of its message; a live one has readers left.
Retiring == {s \in Slots : slotOwner[s] # NONE}
Live == {s \in Slots : bs[s] # {}}

\* With orderly clients uiCurrMsgDataNum counts the messages that somebody has still
\* to read or is just retiring (lines 171-178 against 231-244).
CountIsLive == orderly /\ PoolFree => num = Cardinality(Live \cup Retiring)

\* uiCurrMsgDataNum is a count of slots: it does not fall below 0 (lines 234-238).
CountWithinPool == num <= PoolSize

\* A field given back by UnSub is in no slot any more, so that whoever gets it next
\* is not owed somebody else's messages (lines 105-118 against 159).
NoGhostSubscriber == PoolFree => \A s \in Slots : bs[s] \subseteq subscribers

\* With orderly clients, wherever two readers of different speed are, the messages
\* each has not read lie in the slots it will visit, in the order they were written
\* and marked for it: none is lost, overwritten or read twice (lines 96, 142-159,
\* 206-207, 228-252).
Reading(r) == field[r] # NONE /\ pc[r] \in {"idle", "read", "slot", "retire", "advance"}

InOrder ==
    orderly /\ PoolFree => \A r \in Readers : Reading(r) =>
        LET ahead == IF pc[r] \in {"retire", "advance"} THEN 1 ELSE 0 IN
        \A k \in last[r] + 1 .. sent :
            LET s == (subPos[field[r]] + ahead + (k - last[r]) - 1) % PoolSize IN
            data[s] = k /\ field[r] \in bs[s]

\* With orderly clients every call returns, a Read as soon as there is a message its
\* reader has not read: the two orders in which the pool's lock and a slot's are
\* taken never meet, and no wakeup is missed (lines 66-258).
CallsReturn ==
    \A t \in Threads :
        (orderly /\ pc[t] # "idle" /\ (t \in Readers /\ pc[t] \in {"read", "slot"} => last[t] < sent))
            ~> (pc[t] = "idle" \/ ~orderly)

\* Write returns, dropping a message when the ring is full (lines 170-173).
WriteReturns == \A w \in Writers : pc[w] = "write" ~> pc[w] = "idle"
=============================================================================
