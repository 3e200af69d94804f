---------------------------- MODULE BarrierProof ----------------------------
(***************************************************************************)
(* What holds of Barrier for every set of threads and every number of      *)
(* rounds, with no more than two generation numbers.                       *)
(***************************************************************************)
EXTENDS Barrier, FiniteSetTheorems, TLAPS

USE BarrierAssumption DEF BarrierAssumption

\* What is gathered is finite, no more than the threads, and all of them when it is
\* as many.
LEMMA GatheredFinite ==
    /\ IsFiniteSet(Gathered) /\ Gathered \subseteq Threads
    /\ Cardinality(Gathered) \in Nat /\ Cardinality(Gathered) <= Threshold
    /\ Cardinality(Gathered) = Threshold => Gathered = Threads
  BY FS_Subset, FS_CardinalityType DEF Gathered

\* The barrier as constructed (barrier.h lines 11-16).
LEMMA BarrierInvInit == Init => BarrierInv
<1> SUFFICES ASSUME Init PROVE BarrierInv
  OBVIOUS
<1>1. Gathered = {}
  BY DEF Init, Gathered
<1>2. TypeOK /\ RoundsAgree /\ SleepersWait
  BY DEF Init, TypeOK, RoundsAgree, SleepersWait
<1>3. CountsMissing
  BY <1>1, FS_EmptySet DEF Init, CountsMissing
<1>4. QED
  BY <1>2, <1>3 DEF BarrierInv

\* A thread that is not the last one of its round (lines 20-23, 31-32).
LEMMA SleepStep ==
    ASSUME BarrierInv, NEW t \in Threads, WaitSleeps(t)
    PROVE  BarrierInv'
<1> USE DEF BarrierInv
<1>1. t \notin Gathered /\ pc[t] = "out" /\ called[t] = trues /\ passed[t] = trues
  BY DEF WaitSleeps, Call, Gathered, RoundsAgree
<1>2. Gathered' = Gathered \cup {t}
  BY DEF WaitSleeps, Gathered, TypeOK
<1>3. TypeOK'
  BY DEF WaitSleeps, Call, TypeOK
<1>4. RoundsAgree'
  <2> SUFFICES ASSUME NEW u \in Threads
               PROVE  \/ u \in Gathered' /\ called'[u] = trues' + 1 /\ passed'[u] = trues'
                      \/ pc'[u] = "in" /\ gen'[u] # generation' /\ called'[u] = trues' /\ passed'[u] = trues' - 1
                      \/ pc'[u] = "out" /\ called'[u] = trues' /\ passed'[u] = trues'
    BY DEF RoundsAgree
  <2>1. CASE u = t
    BY <1>1, <1>2, <2>1 DEF WaitSleeps, Call, TypeOK
  <2>2. CASE u # t
    BY <1>2, <2>2 DEF WaitSleeps, Call, TypeOK, RoundsAgree
  <2>3. QED
    BY <2>1, <2>2
<1>5. CountsMissing'
  <2>1. Cardinality(Gathered') = Cardinality(Gathered) + 1
    BY <1>1, <1>2, GatheredFinite, FS_AddElement
  <2>2. QED
    BY <2>1, GatheredFinite DEF WaitSleeps, CountsMissing, TypeOK
<1>6. SleepersWait'
  BY <1>2 DEF WaitSleeps, SleepersWait
<1>7. QED
  BY <1>3, <1>4, <1>5, <1>6

\* The last thread of a round: everybody else is gathered (lines 23-28).
LEMMA ReleaseStep ==
    ASSUME BarrierInv, NEW t \in Threads, WaitReleases(t)
    PROVE  BarrierInv'
<1> USE DEF BarrierInv
<1>1. t \notin Gathered /\ pc[t] = "out" /\ called[t] = trues /\ passed[t] = trues
  BY DEF WaitReleases, Call, Gathered, RoundsAgree
<1>2. Gathered \cup {t} = Threads
  <2>1. Cardinality(Gathered) = Threshold - 1
    BY GatheredFinite DEF WaitReleases, CountsMissing
  <2>2. IsFiniteSet(Gathered \cup {t}) /\ Cardinality(Gathered \cup {t}) = Threshold
    BY <1>1, <2>1, GatheredFinite, FS_AddElement
  <2>3. Gathered \cup {t} \in SUBSET Threads
    BY GatheredFinite
  <2>4. QED
    BY <2>2, <2>3, FS_Subset
<1>3. generation' # generation /\ generation' \in 0 .. UIntMax
  BY DEF WaitReleases, NextGeneration, TypeOK
<1>4. \A u \in Threads : u # t =>
        /\ pc[u] = "in" /\ gen[u] = generation
        /\ called[u] = trues + 1 /\ passed[u] = trues
  BY <1>2 DEF Gathered, RoundsAgree
<1>5. Gathered' = {}
  BY <1>3, <1>4 DEF WaitReleases, Return, Gathered, TypeOK
<1>6. TypeOK'
  BY <1>3 DEF WaitReleases, Call, Return, Notify, Reset, TypeOK
<1>7. RoundsAgree'
  <2> SUFFICES ASSUME NEW u \in Threads
               PROVE  \/ pc'[u] = "in" /\ gen'[u] # generation' /\ called'[u] = trues' /\ passed'[u] = trues' - 1
                      \/ pc'[u] = "out" /\ called'[u] = trues' /\ passed'[u] = trues'
    BY DEF RoundsAgree
  <2>1. CASE u = t
    BY <1>1, <2>1 DEF WaitReleases, Call, Return, TypeOK
  <2>2. CASE u # t
    BY <1>3, <1>4, <2>2 DEF WaitReleases, Call, Return, TypeOK
  <2>3. QED
    BY <2>1, <2>2
<1>8. CountsMissing'
  BY <1>5, FS_EmptySet DEF WaitReleases, Reset, CountsMissing
<1>9. SleepersWait'
  BY DEF WaitReleases, Notify, SleepersWait
<1>10. QED
  BY <1>6, <1>7, <1>8, <1>9

\* A thread that comes back from the condition variable (lines 31-34).
LEMMA WakeStep ==
    ASSUME BarrierInv, NEW t \in Threads, Wake(t) \/ SpuriousWakeup(t)
    PROVE  BarrierInv'
<1> USE DEF BarrierInv
<1>1. CASE WaitReturns(t)
  <2>1. pc[t] = "in" /\ t \notin Gathered /\ passed[t] = trues - 1 /\ called[t] = trues
    BY <1>1 DEF WaitReturns, Awake, StillWaiting, Gathered, RoundsAgree
  <2>2. Gathered' = Gathered
    BY <1>1, <2>1 DEF WaitReturns, Return, Gathered, TypeOK
  <2>3. TypeOK' /\ CountsMissing' /\ SleepersWait'
    BY <1>1, <2>2 DEF WaitReturns, Return, TypeOK, CountsMissing, SleepersWait
  <2>4. RoundsAgree'
    BY <1>1, <2>1, <2>2 DEF WaitReturns, Return, TypeOK, RoundsAgree
  <2>5. QED
    BY <2>3, <2>4
<1>2. CASE WaitAgain(t) \/ SpuriousWakeup(t)
  <2>1. /\ UNCHANGED <<count, generation, pc, gen, called, passed, trues>>
        /\ sleepers' \subseteq Gathered
    BY <1>2 DEF WaitAgain, SpuriousWakeup, Awake, StillWaiting, Gathered, SleepersWait
  <2>2. Gathered' = Gathered
    BY <2>1 DEF Gathered
  <2>3. QED
    BY <2>1, <2>2 DEF TypeOK, RoundsAgree, CountsMissing, SleepersWait, Gathered
<1>3. QED
  BY <1>1, <1>2 DEF Wake

\* The invariant holds in every reachable state.
THEOREM BarrierInvariant == Spec => []BarrierInv
<1>1. BarrierInv /\ [Next]_vars => BarrierInv'
  <2> SUFFICES ASSUME BarrierInv, [Next]_vars PROVE BarrierInv'
    OBVIOUS
  <2>1. CASE UNCHANGED vars
    BY <2>1 DEF vars, BarrierInv, TypeOK, RoundsAgree, CountsMissing, SleepersWait, Gathered
  <2>2. CASE Next
    BY <2>2, SleepStep, ReleaseStep, WakeStep DEF Next, Wait
  <2>3. QED
    BY <2>1, <2>2
<1>2. QED
  BY <1>1, BarrierInvInit, PTL DEF Spec

\* Every variable of the barrier keeps its type; m_count never falls to 0 outside the
\* critical section (lines 23-28).
THEOREM Typing == Spec => []TypeOK
<1>1. BarrierInv => TypeOK
  BY DEF BarrierInv
<1>2. QED
  BY <1>1, BarrierInvariant, PTL

\* Nobody leaves a round before everybody has come to it (lines 20-34).
THEOREM NobodyLeavesEarly == Spec => []BarrierHolds
<1>1. BarrierInv => BarrierHolds
  <2> SUFFICES ASSUME BarrierInv, NEW t \in Threads, NEW u \in Threads
               PROVE  passed[t] <= called[u]
    BY DEF BarrierHolds
  <2>1. passed[t] <= trues /\ trues <= called[u] /\ passed[t] \in Nat /\ called[u] \in Nat /\ trues \in Nat
    BY DEF BarrierInv, TypeOK, RoundsAgree
  <2>2. QED
    BY <2>1
<1>2. QED
  BY <1>1, BarrierInvariant, PTL

\* One call of every round returns true (lines 23-28, 34).
THEOREM OneTrueEachRound == Spec => []OneReturnsTrue
<1>1. BarrierInv => OneReturnsTrue
  BY DEF BarrierInv, TypeOK, RoundsAgree, OneReturnsTrue
<1>2. QED
  BY <1>1, BarrierInvariant, PTL
=============================================================================
