------------------------------ MODULE Barrier ------------------------------
(***************************************************************************)
(* The reusable barrier swp::barrier of src/thread/c++/barrier/barrier.h:  *)
(* a count down and a generation number, one mutex, one condition          *)
(* variable.  As in its test program, the threads that call wait() are as  *)
(* many as the count the barrier was constructed with.                     *)
(***************************************************************************)
EXTENDS Naturals, FiniteSets

CONSTANTS
    Threads,      \* the threads that call wait()
    Threshold,    \* m_threshold
    UIntMax,      \* the largest unsigned int, at which m_generation wraps
    MaxRounds     \* bound: calls of wait() by each thread

ASSUME BarrierAssumption ==
    /\ IsFiniteSet(Threads) /\ Cardinality(Threads) = Threshold
    /\ Threshold \in Nat \ {0}
    /\ UIntMax \in Nat \ {0}
    /\ MaxRounds \in Nat

VARIABLES
    count, generation,   \* m_count, m_generation
    sleepers,            \* the threads asleep on m_cond
    pc, gen,             \* where each thread is, and its local gen
    called, passed,      \* history: calls of wait() begun and ended by each thread
    trues                \* history: calls that returned true

vars == <<count, generation, sleepers, pc, gen, called, passed, trues>>

Init ==
    /\ count = Threshold /\ generation = 0
    /\ sleepers = {}
    /\ pc = [t \in Threads |-> "out"] /\ gen = [t \in Threads |-> 0]
    /\ called = [t \in Threads |-> 0] /\ passed = [t \in Threads |-> 0]
    /\ trues = 0

-----------------------------------------------------------------------------
(* A definition whose name starts with Mut is a plausible bug in the one that *)
(* follows; it shows that a property can fail.                                *)

Call(t) == pc[t] = "out" /\ called[t] < MaxRounds /\ called' = [called EXCEPT ![t] = @ + 1]
Return(t) == pc' = [pc EXCEPT ![t] = "out"] /\ passed' = [passed EXCEPT ![t] = @ + 1]

\* A thread that is not the last one finds gen = m_generation and sleeps.
WaitSleeps(t) ==
    /\ Call(t) /\ count # 1
    /\ count' = count - 1
    /\ gen' = [gen EXCEPT ![t] = generation]
    /\ sleepers' = sleepers \cup {t}
    /\ pc' = [pc EXCEPT ![t] = "in"]
    /\ UNCHANGED <<generation, passed, trues>>

MutNextGeneration == generation + 1
NextGeneration == IF generation = UIntMax THEN 0 ELSE generation + 1

MutReset == Threshold - 1
Reset == Threshold

MutNotify == \E u \in sleepers : sleepers' = sleepers \ {u}
Notify == sleepers' = {}

WaitReleases(t) ==
    /\ Call(t) /\ count = 1
    /\ generation' = NextGeneration
    /\ count' = Reset
    /\ Notify
    /\ gen' = [gen EXCEPT ![t] = generation]
    /\ Return(t)
    /\ trues' = trues + 1

Awake(t) == pc[t] = "in" /\ t \notin sleepers

MutStillWaiting(t) == FALSE
StillWaiting(t) == gen[t] = generation

WaitAgain(t) ==
    /\ Awake(t) /\ StillWaiting(t)
    /\ sleepers' = sleepers \cup {t}
    /\ UNCHANGED <<count, generation, pc, gen, called, passed, trues>>

WaitReturns(t) ==
    /\ Awake(t) /\ ~StillWaiting(t)
    /\ Return(t)
    /\ UNCHANGED <<count, generation, sleepers, gen, called, trues>>

SpuriousWakeup(t) ==
    /\ t \in sleepers /\ sleepers' = sleepers \ {t}
    /\ UNCHANGED <<count, generation, pc, gen, called, passed, trues>>

Wait(t) == WaitSleeps(t) \/ WaitReleases(t)
Wake(t) == WaitAgain(t) \/ WaitReturns(t)

Next == \E t \in Threads : Wait(t) \/ Wake(t) \/ SpuriousWakeup(t)

Spec == Init /\ [][Next]_vars

\* A thread that was woken runs eventually; calls of wait() are owed to nobody.
FairSpec == Spec /\ \A t \in Threads : WF_vars(Wake(t))

-----------------------------------------------------------------------------
(* Properties *)

TypeOK ==
    /\ count \in 1 .. Threshold /\ generation \in 0 .. UIntMax
    /\ sleepers \subseteq Threads
    /\ pc \in [Threads -> {"out", "in"}] /\ gen \in [Threads -> 0 .. UIntMax]
    /\ called \in [Threads -> Nat] /\ passed \in [Threads -> Nat]
    /\ trues \in Nat

\* Nobody returns from its k-th wait() before everybody has called its own k-th
\* (barrier.h lines 20-34), however far the generation has wrapped.
BarrierHolds == \A t, u \in Threads : passed[t] <= called[u]

\* Of the calls of one round exactly one returns true (lines 23-28 against 34).
OneReturnsTrue == \A t \in Threads : passed[t] <= trues /\ trues <= called[t]

\* When everybody has called, everybody returns: no wakeup is missed by a thread that
\* went to sleep for a round, nor taken by one that is already in the next (lines 25-32).
EverybodyPasses ==
    \A t \in Threads, k \in 1 .. MaxRounds :
        (\A u \in Threads : called[u] >= k) ~> passed[t] >= k

-----------------------------------------------------------------------------
(* The inductive invariant: every thread is in the round that is being        *)
(* gathered, has been released from the round before, or is outside.          *)

Gathered == {t \in Threads : pc[t] = "in" /\ gen[t] = generation}

RoundsAgree ==
    \A t \in Threads :
        \/ t \in Gathered /\ called[t] = trues + 1 /\ passed[t] = trues
        \/ pc[t] = "in" /\ gen[t] # generation /\ called[t] = trues /\ passed[t] = trues - 1
        \/ pc[t] = "out" /\ called[t] = trues /\ passed[t] = trues

CountsMissing == count = Threshold - Cardinality(Gathered)

SleepersWait == sleepers \subseteq Gathered

BarrierInv == TypeOK /\ RoundsAgree /\ CountsMissing /\ SleepersWait
=============================================================================
