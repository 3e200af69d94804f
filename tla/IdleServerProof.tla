--------------------------- MODULE IdleServerProof ---------------------------
(***************************************************************************)
(* What holds of IdleServer for any number of connections.  First, what    *)
(* the walks of TimerList return: they are recursive functions on the      *)
(* cells, and what they compute for a list of any length is proved by      *)
(* taking the least position of a row where a claim fails.  Then the       *)
(* server: its list is in order, and descriptors, timers and events match. *)
(***************************************************************************)
EXTENDS IdleServer, FiniteSetTheorems, WellFoundedInduction, TLAPS

USE CellsAssumption DEF CellsAssumption

\* A set of numbers that is not empty has a least one.
LEMMA Least ==
    ASSUME NEW T, T \subseteq Nat, T # {}
    PROVE  \E x \in T : \A y \in T : x <= y
<1> DEFINE R == {ss \in Nat \X Nat : ss[1] < ss[2]}
<1>1. IsWellFoundedOn(R, Nat)
  BY NatLessThanWellFounded DEF OpToRel
<1>2. \A x, y \in Nat : x < y => <<x, y>> \in R
  OBVIOUS
<1> HIDE DEF R
<1>3. PICK x \in T : \A y \in T : ~ (<<y, x>> \in R)
  BY <1>1, WFMin
<1>4. ASSUME NEW y \in T PROVE x <= y
  <2>1. x \in Nat /\ y \in Nat /\ ~ (y < x)
    BY <1>2, <1>3
  <2> QED BY <2>1
<1> QED BY <1>4

\* The timers s[1] .. s[n] are linked both ways.
Links(l, s, n) ==
    /\ n = 0 => l.head = NULL
    /\ n > 0 => /\ l.head = s[1] /\ l.prev[s[1]] = NULL
                /\ l.tail = s[n] /\ l.next[s[n]] = NULL
    /\ \A i \in 1 .. n - 1 : l.next[s[i]] = s[i + 1] /\ l.prev[s[i + 1]] = s[i]

Ordered(expiry, s, n) == \A i, j \in 1 .. n : i <= j => expiry[s[i]] <= expiry[s[j]]

Row(s, n, T) ==
    /\ n \in Nat /\ s \in [1 .. n -> T]
    /\ \A c \in T : \E i \in 1 .. n : c = s[i]
    /\ \A i, j \in 1 .. n : s[i] = s[j] => i = j

Chain(l, s, n, T) == l \in Lists /\ T \subseteq Cells /\ Row(s, n, T) /\ Links(l, s, n)

\* The cells of timers that were deleted, or were never made.
Blank(l, T) == \A c \in Cells \ T : l.prev[c] = NULL /\ l.next[c] = NULL

\* A row whose neighbours are in order is in order.
LEMMA StepwiseOrdered ==
    ASSUME NEW n \in Nat, NEW s \in [1 .. n -> Cells], NEW expiry \in [Cells -> Nat],
           \A i \in 1 .. n - 1 : expiry[s[i]] <= expiry[s[i + 1]]
    PROVE  Ordered(expiry, s, n)
<1> SUFFICES ASSUME NEW i \in 1 .. n, NEW j \in 1 .. n, i <= j,
                    ~ (expiry[s[i]] <= expiry[s[j]])
             PROVE  FALSE
  BY DEF Ordered
<1> DEFINE Bad == {k \in i .. n : ~ (expiry[s[i]] <= expiry[s[k]])}
<1>1. Bad \subseteq Nat /\ j \in Bad
  OBVIOUS
<1>2. PICK k \in Bad : \A m \in Bad : k <= m
  BY <1>1, Least
<1>3. \A m \in 1 .. n : expiry[s[m]] \in Nat
  OBVIOUS
<1>4. k # i
  BY <1>3
<1>5. k - 1 \in i .. n /\ k - 1 \in 1 .. n - 1 /\ k - 1 \notin Bad
  BY <1>2, <1>4
<1>6. expiry[s[i]] <= expiry[s[k - 1]] /\ expiry[s[k - 1]] <= expiry[s[k]]
  <2>1. (k - 1) + 1 = k
    OBVIOUS
  <2> QED BY <1>5, <2>1
<1> QED BY <1>3, <1>5, <1>6

\* What has expired by any time is a first part of an ordered row.
LEMMA Threshold ==
    ASSUME NEW n \in Nat, NEW s \in [1 .. n -> Cells], NEW expiry \in [Cells -> Nat],
           Ordered(expiry, s, n), NEW e \in Nat
    PROVE  \E m \in 0 .. n : \A i \in 1 .. n : expiry[s[i]] <= e <=> i <= m
<1> DEFINE Late == {k \in 1 .. n + 1 : k = n + 1 \/ ~ (expiry[s[k]] <= e)}
<1>1. Late \subseteq Nat /\ n + 1 \in Late
  OBVIOUS
<1>2. PICK k \in Late : \A m \in Late : k <= m
  BY <1>1, Least
<1>3. ASSUME NEW i \in 1 .. n
      PROVE  expiry[s[i]] <= e <=> i <= k - 1
  <2>1. ASSUME i <= k - 1
        PROVE  expiry[s[i]] <= e
    BY <1>2, <2>1
  <2>2. ASSUME ~ (i <= k - 1)
        PROVE  ~ (expiry[s[i]] <= e)
    <3>1. k \in 1 .. n /\ k <= i
      BY <1>2, <2>2
    <3>2. expiry[s[k]] <= expiry[s[i]] /\ expiry[s[k]] \in Nat /\ expiry[s[i]] \in Nat
      BY <3>1 DEF Ordered
    <3> QED BY <3>1, <3>2
  <2> QED BY <2>1, <2>2
<1>4. k - 1 \in 0 .. n
  OBVIOUS
<1> QED BY <1>3, <1>4

\* IsSorted names a row of the timers, with no timer twice.
LEMMA SortedRow ==
    ASSUME NEW l \in Lists, NEW expiry \in [Cells -> Nat], NEW T \in SUBSET Cells,
           IsSorted(l, expiry, T)
    PROVE  \E n, s : Chain(l, s, n, T) /\ Ordered(expiry, s, n)
<1> DEFINE n == Cardinality(T)
<1>1. IsFiniteSet(T) /\ n \in Nat
  BY FS_Subset, FS_CardinalityType
<1>2. PICK s \in [1 .. n -> T] :
        /\ T = {s[i] : i \in 1 .. n}
        /\ IF n = 0 THEN l.head = NULL
           ELSE /\ l.head = s[1] /\ l.prev[s[1]] = NULL
                /\ l.tail = s[n] /\ l.next[s[n]] = NULL
        /\ \A i \in 1 .. n - 1 :
              /\ l.next[s[i]] = s[i + 1] /\ l.prev[s[i + 1]] = s[i]
              /\ expiry[s[i]] <= expiry[s[i + 1]]
  BY DEF IsSorted
<1>3. IsFiniteSet(1 .. n) /\ Cardinality(1 .. n) = n
  BY <1>1, FS_Interval
<1>4. s \in Surjection(1 .. n, T)
  BY <1>2 DEF Surjection
<1> HIDE DEF n
<1>5. s \in Injection(1 .. n, T)
  <2>1. Cardinality(T) = Cardinality(1 .. n)
    BY <1>3 DEF n
  <2> QED BY <1>1, <1>3, <1>4, <2>1, FS_SurjSameCardinalityImpliesInj
<1>6. Row(s, n, T)
  BY <1>1, <1>2, <1>5 DEF Row, Injection, IsInjective
<1>7. Links(l, s, n)
  BY <1>1, <1>2 DEF Links
<1>8. Ordered(expiry, s, n)
  <2>1. s \in [1 .. n -> Cells]
    OBVIOUS
  <2> QED BY <1>1, <1>2, <2>1, StepwiseOrdered
<1> QED BY <1>6, <1>7, <1>8 DEF Chain

\* And a row of them is what IsSorted asks for.
LEMMA RowSorted ==
    ASSUME NEW l, NEW expiry, NEW T, NEW n, NEW s,
           Chain(l, s, n, T), Ordered(expiry, s, n)
    PROVE  IsSorted(l, expiry, T)
<1> Row(s, n, T) /\ Links(l, s, n)
  BY DEF Chain
<1>1. n \in Nat /\ s \in Bijection(1 .. n, T)
  BY DEF Row, Bijection, Injection, Surjection, IsInjective
<1>2. IsFiniteSet(1 .. n) /\ Cardinality(1 .. n) = n
  BY <1>1, FS_Interval
<1>3. Cardinality(T) = n
  BY <1>1, <1>2, FS_Bijection DEF ExistsBijection
<1>4. s \in [1 .. n -> T] /\ T = {s[i] : i \in 1 .. n}
  <2>1. s \in [1 .. n -> T] /\ \A c \in T : \E i \in 1 .. n : c = s[i]
    BY DEF Row
  <2> QED BY <2>1
<1>5. IF n = 0 THEN l.head = NULL
      ELSE /\ l.head = s[1] /\ l.prev[s[1]] = NULL
           /\ l.tail = s[n] /\ l.next[s[n]] = NULL
  BY <1>1 DEF Links
<1>6. \A i \in 1 .. n - 1 :
         /\ l.next[s[i]] = s[i + 1] /\ l.prev[s[i + 1]] = s[i]
         /\ expiry[s[i]] <= expiry[s[i + 1]]
  BY <1>1 DEF Links, Ordered
<1> QED BY <1>3, <1>4, <1>5, <1>6, Zenon DEF IsSorted

\* Where add_timer's walk stops, from the timer at place a of the row on.
LEMMA PlaceFound ==
    ASSUME NEW l, NEW s, NEW n, NEW T, Chain(l, s, n, T), NEW expiry \in [Cells -> Nat],
           NEW t \in Cells \ T, \A c \in Cells \ T : l.next[c] \in T \cup {NULL},
           NEW m \in 1 .. n, \A i \in 1 .. n : expiry[s[i]] <= expiry[t] <=> i <= m,
           NEW a \in 1 .. m
    PROVE  Place(l, expiry, t, s[a]) = s[m]
<1> l \in Lists /\ T \subseteq Cells /\ Row(s, n, T) /\ Links(l, s, n)
  BY DEF Chain
<1> DEFINE Stop(p) == l.next[p] = NULL \/ Later(expiry, t, l.next[p])
           Eq(f) == f = [p \in Cells |-> IF Stop(p) THEN p ELSE f[l.next[p]]]
           W == [p \in Cells |-> IF Stop(p) THEN p
                                 ELSE IF p \in T \/ ~Stop(l.next[p]) THEN s[m] ELSE l.next[p]]
<1>1. n \in Nat /\ s \in [1 .. n -> T] /\ (\A c \in T : \E i \in 1 .. n : c = s[i]) /\ NULL \notin T
  BY DEF Row
<1>2. \A i \in 1 .. n : expiry[s[i]] \in Nat /\ expiry[t] \in Nat
  BY <1>1
<1>3. ASSUME NEW i \in 1 .. n
      PROVE  /\ Stop(s[i]) <=> i >= m
             /\ i < m => l.next[s[i]] = s[i + 1] /\ i + 1 \in 1 .. n
  <2>1. CASE i = n
    BY <2>1, <1>1 DEF Links
  <2>2. CASE i # n
    <3>1. i \in 1 .. n - 1 /\ i + 1 \in 1 .. n
      BY <1>1, <2>2
    <3>2. l.next[s[i]] = s[i + 1] /\ s[i + 1] # NULL
      BY <1>1, <3>1 DEF Links
    <3>3. Stop(s[i]) <=> ~ (i + 1 <= m)
      BY <1>2, <3>1, <3>2 DEF Later
    <3> QED BY <3>1, <3>2, <3>3
  <2> QED BY <2>1, <2>2
<1> HIDE DEF Stop
<1>4. Eq(W)
  <2>1. ASSUME NEW p \in Cells, ~Stop(p)
        PROVE  W[p] = W[l.next[p]]
    <3>1. CASE p \in T
      <4>1. PICK i \in 1 .. n : p = s[i]
        BY <1>1, <3>1
      <4>2. i < m /\ l.next[p] = s[i + 1] /\ i + 1 \in 1 .. n
        BY <1>1, <1>3, <2>1, <4>1
      <4>3. l.next[p] \in T /\ (Stop(l.next[p]) => l.next[p] = s[m])
        BY <1>1, <1>3, <4>2
      <4> QED BY <2>1, <3>1, <4>3
    <3>2. CASE p \notin T
      <4>1. l.next[p] \in T
        BY <2>1, <3>2 DEF Stop
      <4> QED BY <2>1, <3>2, <4>1
    <3> QED BY <3>1, <3>2
  <2>2. \A p \in Cells : Stop(p) => W[p] = p
    OBVIOUS
  <2>3. W = [p \in Cells |-> W[p]]
    OBVIOUS
  <2> HIDE DEF W
  <2> QED BY <2>1, <2>2, <2>3
<1> DEFINE F == CHOOSE f : Eq(f)
<1>5. Eq(F)
  <2> HIDE DEF Eq
  <2> QED BY <1>4, Zenon
<1>6. Place(l, expiry, t, s[a]) = F[s[a]]
  BY Zenon DEF Place, Stop
<1> HIDE DEF F
<1>7. \A p \in Cells : F[p] = IF Stop(p) THEN p ELSE F[l.next[p]]
  BY <1>5
<1> DEFINE Good == {k \in a .. m : F[s[k]] = s[m]}
<1>8. Good \subseteq Nat /\ m \in Good
  BY <1>1, <1>3, <1>7
<1>9. PICK k \in Good : \A j \in Good : k <= j
  BY <1>8, Least
<1>10. ASSUME k # a
       PROVE  FALSE
  <2>1. k - 1 \in a .. m /\ k - 1 \in 1 .. n /\ k - 1 < m /\ (k - 1) + 1 = k
    BY <1>1, <1>10
  <2>2. F[s[k - 1]] = F[s[k]]
    <3>1. s[k - 1] \in Cells /\ ~Stop(s[k - 1]) /\ l.next[s[k - 1]] = s[k]
      BY <1>1, <1>3, <2>1
    <3> QED BY <1>7, <3>1
  <2>3. k - 1 \in Good
    BY <2>1, <2>2
  <2> QED BY <1>9, <2>3
<1> QED BY <1>6, <1>10

\* What add_timer links, between p and its next.
LEMMA InsertedFields ==
    ASSUME NEW l \in Lists, NEW t \in Cells, NEW p \in Cells, t # p, l.next[p] # t
    PROVE  LET k == Inserted(l, t, p) IN
           /\ k \in Lists /\ k.head = l.head
           /\ k.tail = IF l.next[p] = NULL THEN t ELSE l.tail
           /\ \A c \in Cells : k.next[c] = IF c = p THEN t ELSE IF c = t THEN l.next[p] ELSE l.next[c]
           /\ \A c \in Cells : k.prev[c] = IF c = t THEN p ELSE IF c = l.next[p] THEN t ELSE l.prev[c]
<1> DEFINE q == l.next[p]
<1>1. /\ q \in Cells \cup {NULL} /\ l.prev \in [Cells -> Pointers] /\ l.next \in [Cells -> Pointers]
      /\ l.head \in Pointers /\ l.tail \in Pointers
  BY DEF Lists, Pointers
<1>2. l = [head |-> l.head, tail |-> l.tail, prev |-> l.prev, next |-> l.next]
  BY DEF Lists
<1>3. CASE q = NULL
  <2>1. Inserted(l, t, p) = [l EXCEPT !.next[p] = t, !.prev[t] = p, !.next[t] = NULL, !.tail = t]
    BY <1>3 DEF Inserted
  <2>2. Inserted(l, t, p) = [head |-> l.head, tail |-> t, prev |-> [l.prev EXCEPT ![t] = p],
                             next |-> [[l.next EXCEPT ![p] = t] EXCEPT ![t] = NULL]]
    BY <1>2, <2>1
  <2> HIDE DEF q
  <2>3. Inserted(l, t, p) \in Lists
    BY <1>1, <2>2 DEF Lists, Pointers
  <2> QED BY <1>1, <1>3, <2>2, <2>3 DEF q
<1>4. CASE q # NULL
  <2>1. Inserted(l, t, p) = [l EXCEPT !.next[p] = t, !.next[t] = q, !.prev[q] = t, !.prev[t] = p]
    BY <1>4, Zenon DEF Inserted
  <2>2. Inserted(l, t, p) = [head |-> l.head, tail |-> l.tail,
                             prev |-> [[l.prev EXCEPT ![q] = t] EXCEPT ![t] = p],
                             next |-> [[l.next EXCEPT ![p] = t] EXCEPT ![t] = q]]
    BY <1>2, <2>1
  <2> QED BY <1>1, <1>4, <2>2 DEF Lists, Pointers
<1> QED BY <1>3, <1>4

\* The row with t behind its first m timers.
With(s, n, m, t) == [i \in 1 .. n + 1 |-> IF i <= m THEN s[i] ELSE IF i = m + 1 THEN t ELSE s[i - 1]]

\* The row with t is a row of one timer more.
LEMMA WithRow ==
    ASSUME NEW n, NEW s, NEW T, Row(s, n, T), NEW t, t \notin T, NEW m \in 0 .. n
    PROVE  Row(With(s, n, m, t), n + 1, T \cup {t})
<1> DEFINE w == With(s, n, m, t)
<1>1. n \in Nat /\ s \in [1 .. n -> T] /\ (\A c \in T : \E i \in 1 .. n : c = s[i])
      /\ \A i, j \in 1 .. n : s[i] = s[j] => i = j
  BY DEF Row
<1>2. \A i \in 1 .. n + 1 : w[i] = IF i <= m THEN s[i] ELSE IF i = m + 1 THEN t ELSE s[i - 1]
  BY DEF With
<1>3. w = [i \in 1 .. n + 1 |-> w[i]]
  BY DEF With
<1> HIDE DEF w
<1>4. \A i \in 1 .. n + 1 : /\ i <= m => i \in 1 .. n
                            /\ i > m + 1 => i - 1 \in 1 .. n
  BY <1>1
<1>5. \A i \in 1 .. n + 1 : w[i] \in T \cup {t}
  BY <1>1, <1>2, <1>4
<1>6. w \in [1 .. n + 1 -> T \cup {t}]
  BY <1>3, <1>5
<1>7. ASSUME NEW c \in T \cup {t}
      PROVE  \E i \in 1 .. n + 1 : c = w[i]
  <2>1. CASE c = t
    <3>1. m + 1 \in 1 .. n + 1 /\ w[m + 1] = t
      BY <1>1, <1>2
    <3> QED BY <2>1, <3>1
  <2>2. CASE c \in T
    <3>1. PICK i \in 1 .. n : c = s[i]
      BY <1>1, <2>2
    <3>2. CASE i <= m
      BY <1>1, <1>2, <3>1, <3>2
    <3>3. CASE ~ (i <= m)
      <4>1. i + 1 \in 1 .. n + 1 /\ (i + 1) - 1 = i
        BY <1>1
      <4> QED BY <1>1, <1>2, <3>1, <3>3, <4>1
    <3> QED BY <3>2, <3>3
  <2> QED BY <2>1, <2>2
<1>8. ASSUME NEW i \in 1 .. n + 1, NEW j \in 1 .. n + 1, w[i] = w[j]
      PROVE  i = j
  <2>1. \A h \in 1 .. n + 1 : (w[h] = t) <=> (h = m + 1)
    BY <1>1, <1>2, <1>4
  <2>2. CASE i = m + 1 \/ j = m + 1
    BY <1>8, <2>1, <2>2
  <2>3. CASE i # m + 1 /\ j # m + 1
    <3>1. \A h \in 1 .. n + 1 : h # m + 1 =>
            LET b == IF h <= m THEN h ELSE h - 1 IN b \in 1 .. n /\ w[h] = s[b]
      BY <1>1, <1>2, <1>4
    <3> QED BY <1>1, <1>8, <2>3, <3>1
  <2> QED BY <2>2, <2>3
<1> QED BY <1>1, <1>6, <1>7, <1>8 DEF Row, w

\* The cells of S apart, k links what l does.
Elsewhere(k, l, S) == \A c \in Cells \ S : k.prev[c] = l.prev[c] /\ k.next[c] = l.next[c]

\* add_timer after the first m timers of a row makes the row with t of the list.
LEMMA InsertedLinks ==
    ASSUME NEW l, NEW s, NEW n, NEW T, Chain(l, s, n, T), NEW t \in Cells \ T, NEW m \in 1 .. n
    PROVE  /\ Chain(Inserted(l, t, s[m]), With(s, n, m, t), n + 1, T \cup {t})
           /\ Elsewhere(Inserted(l, t, s[m]), l, T \cup {t})
<1> l \in Lists /\ T \subseteq Cells /\ Row(s, n, T) /\ Links(l, s, n)
  BY DEF Chain
<1> DEFINE k == Inserted(l, t, s[m])
           w == With(s, n, m, t)
<1>1. /\ n \in Nat /\ s \in [1 .. n -> T] /\ NULL \notin T /\ s[m] \in T
      /\ \A i, j \in 1 .. n : s[i] = s[j] => i = j
  BY DEF Row
<1>2. /\ l.next[s[m]] = IF m = n THEN NULL ELSE s[m + 1]
      /\ m # n => m + 1 \in 1 .. n /\ s[m + 1] \in T
  <2>1. CASE m = n
    BY <1>1, <2>1 DEF Links
  <2>2. CASE m # n
    <3>1. m \in 1 .. n - 1 /\ m + 1 \in 1 .. n
      BY <1>1, <2>2
    <3> QED BY <1>1, <2>2, <3>1 DEF Links
  <2> QED BY <2>1, <2>2
<1>3. /\ k \in Lists /\ k.head = l.head
      /\ k.tail = IF m = n THEN t ELSE l.tail
      /\ \A c \in Cells : k.next[c] = IF c = s[m] THEN t ELSE IF c = t THEN l.next[s[m]] ELSE l.next[c]
      /\ \A c \in Cells : k.prev[c] = IF c = t THEN s[m]
                                      ELSE IF m # n /\ c = s[m + 1] THEN t ELSE l.prev[c]
  <2>1. l.next[s[m]] # t /\ t # s[m] /\ s[m] \in Cells /\ (l.next[s[m]] = NULL <=> m = n)
    BY <1>1, <1>2
  <2> HIDE DEF k
  <2>2. /\ k \in Lists /\ k.head = l.head
        /\ k.tail = IF l.next[s[m]] = NULL THEN t ELSE l.tail
        /\ \A c \in Cells : k.next[c] = IF c = s[m] THEN t ELSE IF c = t THEN l.next[s[m]] ELSE l.next[c]
        /\ \A c \in Cells : k.prev[c] = IF c = t THEN s[m] ELSE IF c = l.next[s[m]] THEN t ELSE l.prev[c]
    BY <2>1, InsertedFields DEF k
  <2> QED BY <1>2, <2>1, <2>2
<1> HIDE DEF k
<1>4. \A i \in 1 .. n + 1 : w[i] = IF i <= m THEN s[i] ELSE IF i = m + 1 THEN t ELSE s[i - 1]
  BY DEF With
<1> HIDE DEF w
<1>5. /\ 1 \in 1 .. n /\ n \in 1 .. n /\ w[1] = s[1] /\ (m + 1) - 1 = m
      /\ w[n + 1] = IF m = n THEN t ELSE s[n]
  BY <1>1, <1>4
<1>6. /\ l.head = s[1] /\ l.prev[s[1]] = NULL /\ l.tail = s[n] /\ l.next[s[n]] = NULL
      /\ \A i \in 1 .. n - 1 : l.next[s[i]] = s[i + 1] /\ l.prev[s[i + 1]] = s[i]
  BY <1>5 DEF Links
<1>7. k.head = w[1] /\ k.prev[w[1]] = NULL
  <2>1. s[1] \in Cells /\ s[1] # t /\ (m # n => s[1] # s[m + 1])
    BY <1>1, <1>2, <1>5
  <2> QED BY <1>3, <1>5, <1>6, <2>1
<1>8. k.tail = w[n + 1] /\ k.next[w[n + 1]] = NULL
  <2>1. s[n] \in Cells /\ s[n] # t /\ (m # n => s[n] # s[m])
    BY <1>1, <1>5
  <2> QED BY <1>2, <1>3, <1>5, <1>6, <2>1
<1>9. ASSUME NEW i \in 1 .. n
      PROVE  k.next[w[i]] = w[i + 1] /\ k.prev[w[i + 1]] = w[i]
  <2>1. CASE i < m
    <3>1. /\ i \in 1 .. n - 1 /\ i + 1 \in 1 .. n /\ i + 1 <= m /\ i <= m
          /\ i \in 1 .. n + 1 /\ i + 1 \in 1 .. n + 1
      BY <1>1, <2>1
    <3>2. w[i] = s[i] /\ w[i + 1] = s[i + 1]
      BY <1>4, <3>1
    <3>3. s[i] # s[m] /\ (m # n => s[i + 1] # s[m + 1]) /\ s[i] # t /\ s[i + 1] # t
          /\ s[i] \in Cells /\ s[i + 1] \in Cells
      BY <1>1, <1>2, <2>1, <3>1
    <3> QED BY <1>3, <1>6, <3>1, <3>2, <3>3
  <2>2. CASE i = m
    <3>1. w[i] = s[m] /\ w[i + 1] = t
      BY <1>1, <1>4, <2>2
    <3> QED BY <1>1, <1>3, <3>1
  <2>3. CASE i > m
    <3>1. /\ i - 1 \in 1 .. n - 1 /\ (i - 1) + 1 = i /\ i - 1 >= m /\ (i + 1) - 1 = i
          /\ i \in 1 .. n + 1 /\ i + 1 \in 1 .. n + 1 /\ i - 1 \in 1 .. n /\ ~ (i <= m)
          /\ m # n /\ ~ (i + 1 <= m) /\ i + 1 # m + 1
      BY <1>1, <2>3
    <3>2. w[i] = (IF i = m + 1 THEN t ELSE s[i - 1]) /\ w[i + 1] = s[i]
      BY <1>4, <3>1
    <3>3. s[i] # s[m] /\ s[i] # t /\ s[i] \in Cells /\ s[i - 1] # t /\ s[i - 1] \in Cells
          /\ (i = m + 1 <=> s[i - 1] = s[m]) /\ (i = m + 1 <=> s[i] = s[m + 1])
      BY <1>1, <1>2, <2>3, <3>1
    <3>4. l.next[s[i - 1]] = s[i] /\ l.prev[s[i]] = s[i - 1]
      BY <1>6, <3>1
    <3>5. CASE i = m + 1
      <4>1. k.next[t] = s[i] /\ k.prev[s[i]] = t
        BY <1>2, <1>3, <3>1, <3>3, <3>5
      <4> QED BY <3>2, <3>5, <4>1
    <3>6. CASE i # m + 1
      BY <1>3, <3>1, <3>2, <3>3, <3>4, <3>6
    <3> QED BY <3>5, <3>6
  <2> QED BY <1>1, <2>1, <2>2, <2>3
<1>10. Links(k, w, n + 1)
  <2>1. n + 1 > 0 /\ ~ (n + 1 = 0) /\ (n + 1) - 1 = n
    BY <1>1
  <2> QED BY <1>7, <1>8, <1>9, <2>1 DEF Links
<1>11. Elsewhere(k, l, T \cup {t})
  BY <1>1, <1>2, <1>3 DEF Elsewhere
<1>12. Row(w, n + 1, T \cup {t})
  <2>1. m \in 0 .. n
    BY <1>1
  <2> QED BY <2>1, WithRow DEF w
<1>13. Chain(k, w, n + 1, T \cup {t})
  BY <1>3, <1>10, <1>12 DEF Chain
<1> QED BY <1>11, <1>13 DEF k, w

\* The row with t is in order when t stands where it belongs.
LEMMA WithOrdered ==
    ASSUME NEW T \in SUBSET Cells, NEW n, NEW s, Row(s, n, T),
           NEW expiry \in [Cells -> Nat], Ordered(expiry, s, n), NEW t \in Cells, NEW m \in 0 .. n,
           \A i \in 1 .. n : expiry[s[i]] <= expiry[t] <=> i <= m
    PROVE  Ordered(expiry, With(s, n, m, t), n + 1)
<1> DEFINE w == With(s, n, m, t)
<1>1. n \in Nat /\ s \in [1 .. n -> T]
  BY DEF Row
<1>2. \A i \in 1 .. n : expiry[s[i]] \in Nat /\ expiry[t] \in Nat
  BY <1>1
<1>3. \A i \in 1 .. n + 1 : w[i] = IF i <= m THEN s[i] ELSE IF i = m + 1 THEN t ELSE s[i - 1]
  BY DEF With
<1> HIDE DEF w
<1>4. ASSUME NEW i \in 1 .. n + 1, NEW j \in 1 .. n + 1, i < j
      PROVE  expiry[w[i]] <= expiry[w[j]]
  <2>1. CASE j <= m
    BY <1>1, <1>3, <1>4, <2>1 DEF Ordered
  <2>2. CASE j = m + 1
    BY <1>1, <1>3, <1>4, <2>2
  <2>3. CASE j > m + 1
    <3>1. j - 1 \in 1 .. n /\ w[j] = s[j - 1] /\ ~ (j - 1 <= m)
      BY <1>1, <1>3, <2>3
    <3>2. CASE i <= m
      BY <1>1, <1>3, <3>1, <3>2 DEF Ordered
    <3>3. CASE i = m + 1
      <4>1. expiry[t] <= expiry[s[j - 1]]
        BY <1>2, <3>1
      <4> QED BY <1>1, <1>3, <3>1, <3>3, <4>1
    <3>4. CASE i > m + 1
      <4>1. i - 1 \in 1 .. n /\ w[i] = s[i - 1] /\ i - 1 <= j - 1
        BY <1>1, <1>3, <1>4, <3>4
      <4> QED BY <3>1, <4>1 DEF Ordered
    <3> QED BY <3>2, <3>3, <3>4
  <2> QED BY <2>1, <2>2, <2>3
<1>5. \A i \in 1 .. n + 1 : w[i] \in Cells
  BY <1>1, <1>3
<1>6. \A i \in 1 .. n + 1 : expiry[w[i]] <= expiry[w[i]]
  BY <1>5
<1> QED BY <1>1, <1>4, <1>6 DEF Ordered, w

\* The list of the timers of T, and nothing in the other cells.
InOrder(l, expiry, T) == l \in Lists /\ IsSorted(l, expiry, T) /\ Blank(l, T)

\* add_timer(timer, first), when first does not expire later
LEMMA AddAfterSorted ==
    ASSUME NEW l, NEW s, NEW n, NEW T, Chain(l, s, n, T),
           NEW expiry \in [Cells -> Nat], Ordered(expiry, s, n),
           NEW t \in Cells \ T, \A c \in Cells \ T : l.next[c] \in T \cup {NULL},
           \A c \in Cells \ (T \cup {t}) : l.prev[c] = NULL /\ l.next[c] = NULL,
           NEW a \in 1 .. n, expiry[s[a]] <= expiry[t]
    PROVE  InOrder(AddAfter(l, expiry, t, s[a]), expiry, T \cup {t})
<1>1. n \in Nat /\ s \in [1 .. n -> T] /\ s \in [1 .. n -> Cells] /\ Row(s, n, T)
  BY DEF Chain, Row
<1>2. \E m \in 0 .. n : \A i \in 1 .. n : expiry[s[i]] <= expiry[t] <=> i <= m
  <2> DEFINE e == expiry[t]
  <2>1. e \in Nat
    OBVIOUS
  <2> HIDE DEF e
  <2>2. \E m \in 0 .. n : \A i \in 1 .. n : expiry[s[i]] <= e <=> i <= m
    BY <1>1, <2>1, Threshold
  <2> QED BY <2>2 DEF e
<1>3. PICK m \in 0 .. n : \A i \in 1 .. n : expiry[s[i]] <= expiry[t] <=> i <= m
  BY <1>2
<1>4. m \in 1 .. n /\ a \in 1 .. m
  BY <1>1, <1>3
<1>5. AddAfter(l, expiry, t, s[a]) = Inserted(l, t, s[m])
  BY <1>3, <1>4, PlaceFound DEF AddAfter
<1> DEFINE k == Inserted(l, t, s[m])
           w == With(s, n, m, t)
<1>6. Chain(k, w, n + 1, T \cup {t}) /\ Elsewhere(k, l, T \cup {t})
  BY <1>4, InsertedLinks
<1>7. Ordered(expiry, w, n + 1)
  BY <1>1, <1>3, <1>4, WithOrdered DEF Chain
<1> HIDE DEF k, w
<1>8. IsSorted(k, expiry, T \cup {t})
  BY <1>6, <1>7, RowSorted
<1>9. Blank(k, T \cup {t}) /\ k \in Lists
  BY <1>6 DEF Blank, Chain, Elsewhere
<1> QED BY <1>5, <1>8, <1>9 DEF InOrder, k

\* The row of a list in order.
LEMMA RowOf ==
    ASSUME NEW l, NEW expiry \in [Cells -> Nat], NEW T \in SUBSET Cells, InOrder(l, expiry, T)
    PROVE  \E n, s : Chain(l, s, n, T) /\ Ordered(expiry, s, n)
BY SortedRow DEF InOrder

\* add_timer (lst_timer.h lines 85-109): wherever the walk stops, the list is one of
\* all its timers and the new one.
LEMMA AddTimerSorts ==
    ASSUME NEW l, NEW expiry \in [Cells -> Nat], NEW T \in SUBSET Cells, InOrder(l, expiry, T),
           NEW t \in Cells \ T
    PROVE  InOrder(AddTimer(l, expiry, t), expiry, T \cup {t})
<1>1. l \in Lists /\ \A c \in Cells \ T : l.prev[c] = NULL /\ l.next[c] = NULL
  BY DEF InOrder, Blank
<1>0. PICK n, s : Chain(l, s, n, T) /\ Ordered(expiry, s, n)
  BY RowOf
<1>2. /\ Row(s, n, T) /\ Links(l, s, n) /\ Ordered(expiry, s, n)
      /\ n \in Nat /\ s \in [1 .. n -> T] /\ s \in [1 .. n -> Cells]
  BY <1>0 DEF Chain, Row
<1>3. /\ l = [head |-> l.head, tail |-> l.tail, prev |-> l.prev, next |-> l.next]
      /\ l.prev \in [Cells -> Pointers] /\ l.next \in [Cells -> Pointers]
      /\ l.head \in Pointers /\ l.tail \in Pointers
  BY <1>1 DEF Lists
<1>4. /\ n = 0 <=> l.head = NULL
      /\ n # 0 => 1 \in 1 .. n /\ l.head = s[1] /\ l.head \in T
  <2>1. n # 0 => 1 \in 1 .. n /\ l.head = s[1] /\ l.head \in T
    BY <1>2 DEF Links
  <2> QED BY <1>2, <2>1 DEF Links
<1>5. CASE l.head # NULL /\ ~Later(expiry, t, l.head)
  <2>1. AddTimer(l, expiry, t) = AddAfter(l, expiry, t, s[1])
    BY <1>4, <1>5 DEF AddTimer
  <2>2. expiry[s[1]] <= expiry[t]
    <3>1. expiry[s[1]] \in Nat /\ expiry[t] \in Nat
      BY <1>4, <1>5
    <3> QED BY <1>4, <1>5, <3>1 DEF Later
  <2>3. n # 0 /\ 1 \in 1 .. n
    BY <1>4, <1>5
  <2>4. \A c \in Cells \ T : l.next[c] \in T \cup {NULL}
    BY <1>1
  <2>5. \A c \in Cells \ (T \cup {t}) : l.prev[c] = NULL /\ l.next[c] = NULL
    BY <1>1
  <2> QED BY <1>0, <2>1, <2>2, <2>3, <2>4, <2>5, AddAfterSorted
<1>6. CASE l.head = NULL \/ Later(expiry, t, l.head)
  <2> DEFINE k == AddTimer(l, expiry, t)
             w == With(s, n, 0, t)
  <2>1. /\ k \in Lists /\ k.head = t
        /\ k.tail = IF n = 0 THEN t ELSE l.tail
        /\ \A c \in Cells : k.next[c] = IF n # 0 /\ c = t THEN l.head ELSE l.next[c]
        /\ \A c \in Cells : k.prev[c] = IF n # 0 /\ c = l.head THEN t ELSE l.prev[c]
    <3>1. CASE l.head = NULL
      <4>1. k = [head |-> t, tail |-> t, prev |-> l.prev, next |-> l.next]
        BY <1>3, <3>1 DEF AddTimer
      <4> HIDE DEF k
      <4>2. k \in Lists
        BY <1>3, <4>1 DEF Lists, Pointers
      <4> QED BY <1>4, <3>1, <4>1, <4>2
    <3>2. CASE l.head # NULL
      <4>1. k = [l EXCEPT !.next[t] = l.head, !.prev[l.head] = t, !.head = t]
        BY <1>6, <3>2, Zenon DEF AddTimer
      <4>2. k = [head |-> t, tail |-> l.tail, prev |-> [l.prev EXCEPT ![l.head] = t],
                 next |-> [l.next EXCEPT ![t] = l.head]]
        BY <1>3, <4>1
      <4> HIDE DEF k
      <4>3. k \in Lists
        BY <1>3, <4>2 DEF Lists, Pointers
      <4> QED BY <1>3, <1>4, <3>2, <4>2, <4>3
    <3> QED BY <3>1, <3>2
  <2> HIDE DEF k
  <2>2. \A i \in 1 .. n + 1 : w[i] = IF i = 1 THEN t ELSE s[i - 1]
    BY DEF With
  <2>3. Row(w, n + 1, T \cup {t})
    <3>1. 0 \in 0 .. n
      BY <1>2
    <3> QED BY <1>2, <3>1, WithRow, Zenon
  <2>4. Ordered(expiry, w, n + 1)
    <3>1. ASSUME NEW i \in 1 .. n
          PROVE  expiry[s[i]] <= expiry[t] <=> i <= 0
      <4>1. n # 0 /\ 1 \in 1 .. n /\ l.head # NULL
        BY <1>4, <3>1
      <4>2. expiry[t] < expiry[s[1]] /\ expiry[s[1]] <= expiry[s[i]]
        BY <1>2, <1>4, <1>6, <3>1, <4>1 DEF Later, Ordered
      <4>3. expiry[s[1]] \in Nat /\ expiry[t] \in Nat /\ expiry[s[i]] \in Nat
        BY <1>2, <4>1
      <4> QED BY <3>1, <4>2, <4>3
    <3>2. 0 \in 0 .. n
      BY <1>2
    <3> HIDE DEF w
    <3> QED BY <1>2, <3>1, <3>2, WithOrdered DEF w
  <2> HIDE DEF w
  <2>5. Links(k, w, n + 1)
    <3>1. /\ n + 1 > 0 /\ n + 1 # 0 /\ (n + 1) - 1 = n /\ 1 \in 1 .. n + 1 /\ n + 1 \in 1 .. n + 1
          /\ w[1] = t /\ w[n + 1] = IF n = 0 THEN t ELSE s[n]
      BY <1>2, <2>2
    <3>2. k.head = w[1] /\ k.prev[w[1]] = NULL
      BY <1>1, <1>4, <2>1, <3>1
    <3>3. k.tail = w[n + 1] /\ k.next[w[n + 1]] = NULL
      <4>1. CASE n = 0
        BY <1>1, <2>1, <3>1, <4>1
      <4>2. CASE n # 0
        <5>1. n \in 1 .. n /\ s[n] \in T /\ l.tail = s[n] /\ l.next[s[n]] = NULL
          BY <1>2, <4>2 DEF Links
        <5> QED BY <2>1, <3>1, <4>2, <5>1
      <4> QED BY <4>1, <4>2
    <3>4. ASSUME NEW i \in 1 .. n
          PROVE  k.next[w[i]] = w[i + 1] /\ k.prev[w[i + 1]] = w[i]
      <4>1. /\ n # 0 /\ i \in 1 .. n + 1 /\ i + 1 \in 1 .. n + 1 /\ (i + 1) - 1 = i /\ i + 1 # 1
            /\ w[i + 1] = s[i] /\ s[i] \in T
        BY <1>2, <2>2
      <4>2. CASE i = 1
        BY <1>4, <2>1, <3>1, <4>1, <4>2
      <4>3. CASE i # 1
        <5>1. i - 1 \in 1 .. n - 1 /\ i - 1 \in 1 .. n /\ (i - 1) + 1 = i /\ w[i] = s[i - 1]
          BY <1>2, <2>2, <4>1, <4>3
        <5>2. l.next[s[i - 1]] = s[i] /\ l.prev[s[i]] = s[i - 1] /\ s[i - 1] \in T
          BY <1>2, <5>1 DEF Links
        <5>3. s[i] # s[1]
          BY <1>2, <1>4, <4>1, <4>3 DEF Row
        <5> QED BY <1>4, <2>1, <4>1, <5>1, <5>2, <5>3
      <4> QED BY <4>2, <4>3
    <3> QED BY <3>1, <3>2, <3>3, <3>4 DEF Links
  <2>6. IsSorted(k, expiry, T \cup {t})
    BY <2>1, <2>3, <2>4, <2>5, RowSorted DEF Chain
  <2>7. Blank(k, T \cup {t})
    BY <1>1, <1>4, <2>1 DEF Blank
  <2> QED BY <2>1, <2>6, <2>7 DEF InOrder, k
<1> QED BY <1>5, <1>6

\* The row but for the timer at place j.
Without(s, n, j) == [i \in 1 .. n - 1 |-> IF i < j THEN s[i] ELSE s[i + 1]]

\* The row without a timer is a row of one less.
LEMMA WithoutRow ==
    ASSUME NEW n, NEW s, NEW T, Row(s, n, T), NEW j \in 1 .. n
    PROVE  Row(Without(s, n, j), n - 1, T \ {s[j]})
<1> DEFINE w == Without(s, n, j)
<1>1. n \in Nat /\ s \in [1 .. n -> T] /\ (\A c \in T : \E i \in 1 .. n : c = s[i])
      /\ \A i, h \in 1 .. n : s[i] = s[h] => i = h
  BY DEF Row
<1>2. \A i \in 1 .. n - 1 : w[i] = IF i < j THEN s[i] ELSE s[i + 1]
  BY DEF Without
<1>3. w = [i \in 1 .. n - 1 |-> w[i]]
  BY DEF Without
<1> HIDE DEF w
<1>4. \A i \in 1 .. n - 1 : LET b == IF i < j THEN i ELSE i + 1 IN
                               b \in 1 .. n /\ b # j /\ w[i] = s[b]
  BY <1>1, <1>2
<1>5. \A i \in 1 .. n - 1 : w[i] \in T \ {s[j]}
  BY <1>1, <1>4
<1>6. w \in [1 .. n - 1 -> T \ {s[j]}]
  BY <1>3, <1>5
<1>7. ASSUME NEW c \in T \ {s[j]}
      PROVE  \E i \in 1 .. n - 1 : c = w[i]
  <2>1. PICK i \in 1 .. n : c = s[i]
    BY <1>1
  <2>2. CASE i < j
    <3>1. i \in 1 .. n - 1
      BY <1>1, <2>2
    <3> QED BY <1>2, <2>1, <2>2, <3>1
  <2>3. CASE ~ (i < j)
    <3>1. i - 1 \in 1 .. n - 1 /\ ~ (i - 1 < j) /\ (i - 1) + 1 = i
      BY <1>1, <2>1, <2>3
    <3> QED BY <1>2, <2>1, <3>1
  <2> QED BY <2>2, <2>3
<1>8. \A i, h \in 1 .. n - 1 : w[i] = w[h] => i = h
  BY <1>1, <1>4
<1>9. n - 1 \in Nat
  BY <1>1
<1> QED BY <1>6, <1>7, <1>8, <1>9 DEF Row, w

\* It is in order if the row was.
LEMMA WithoutOrdered ==
    ASSUME NEW n \in Nat, NEW s, NEW expiry, Ordered(expiry, s, n), NEW j \in 1 .. n
    PROVE  Ordered(expiry, Without(s, n, j), n - 1)
<1> DEFINE w == Without(s, n, j)
<1>1. \A i \in 1 .. n - 1 : w[i] = IF i < j THEN s[i] ELSE s[i + 1]
  BY DEF Without
<1> HIDE DEF w
<1>2. ASSUME NEW i \in 1 .. n - 1, NEW h \in 1 .. n - 1, i <= h
      PROVE  expiry[w[i]] <= expiry[w[h]]
  <2> DEFINE bi == IF i < j THEN i ELSE i + 1
             bh == IF h < j THEN h ELSE h + 1
  <2>1. bi \in 1 .. n /\ bh \in 1 .. n /\ bi <= bh
    BY <1>2
  <2>2. w[i] = s[bi] /\ w[h] = s[bh]
    BY <1>1
  <2> HIDE DEF bi, bh
  <2> QED BY <2>1, <2>2 DEF Ordered
<1> QED BY <1>2 DEF Ordered, w

\* Linking the neighbours of the timer at place j to each other takes it out of the row.
LEMMA WithoutLinks ==
    ASSUME NEW l, NEW s, NEW n, NEW T, Chain(l, s, n, T), NEW j \in 1 .. n, NEW k \in Lists,
           k.head = IF j = 1 THEN l.next[s[j]] ELSE l.head,
           n # 1 => k.tail = IF j = n THEN l.prev[s[j]] ELSE l.tail,
           \A c \in T \ {s[j]} :
              /\ k.next[c] = IF c = l.prev[s[j]] THEN l.next[s[j]] ELSE l.next[c]
              /\ k.prev[c] = IF c = l.next[s[j]] THEN l.prev[s[j]] ELSE l.prev[c]
    PROVE  Chain(k, Without(s, n, j), n - 1, T \ {s[j]})
<1> DEFINE w == Without(s, n, j)
           t == s[j]
<1>1. /\ n \in Nat /\ s \in [1 .. n -> T] /\ T \subseteq Cells /\ NULL \notin T
      /\ \A i, h \in 1 .. n : s[i] = s[h] => i = h
      /\ Row(s, n, T) /\ Links(l, s, n)
  BY DEF Chain, Row
<1>2. \A i \in 1 .. n - 1 : w[i] = IF i < j THEN s[i] ELSE s[i + 1]
  BY DEF Without
<1> HIDE DEF w
<1>3. /\ l.head = s[1] /\ l.prev[s[1]] = NULL /\ l.tail = s[n] /\ l.next[s[n]] = NULL
      /\ \A i \in 1 .. n - 1 : l.next[s[i]] = s[i + 1] /\ l.prev[s[i + 1]] = s[i]
  BY <1>1 DEF Links
<1>4. /\ l.next[t] = IF j = n THEN NULL ELSE s[j + 1]
      /\ l.prev[t] = IF j = 1 THEN NULL ELSE s[j - 1]
  <2>1. j # n => j \in 1 .. n - 1
    BY <1>1
  <2>2. j # 1 => j - 1 \in 1 .. n - 1 /\ (j - 1) + 1 = j
    BY <1>1
  <2> QED BY <1>3, <2>1, <2>2
<1>5. \A i \in 1 .. n : i # j =>
         /\ k.next[s[i]] = IF i = j - 1 THEN l.next[t] ELSE l.next[s[i]]
         /\ k.prev[s[i]] = IF i = j + 1 THEN l.prev[t] ELSE l.prev[s[i]]
  <2> SUFFICES ASSUME NEW i \in 1 .. n, i # j
               PROVE  /\ k.next[s[i]] = IF i = j - 1 THEN l.next[t] ELSE l.next[s[i]]
                      /\ k.prev[s[i]] = IF i = j + 1 THEN l.prev[t] ELSE l.prev[s[i]]
    OBVIOUS
  <2>1. s[i] \in T \ {t} /\ s[i] # NULL
    BY <1>1
  <2>2. s[i] = l.prev[t] <=> i = j - 1
    <3>1. j # 1 => j - 1 \in 1 .. n
      BY <1>1
    <3> QED BY <1>1, <1>4, <2>1, <3>1
  <2>3. s[i] = l.next[t] <=> i = j + 1
    <3>1. j # n => j + 1 \in 1 .. n
      BY <1>1
    <3> QED BY <1>1, <1>4, <2>1, <3>1
  <2> QED BY <2>1, <2>2, <2>3
<1>6. n - 1 = 0 => k.head = NULL
  BY <1>1, <1>4
<1>7. ASSUME n - 1 > 0
      PROVE  /\ k.head = w[1] /\ k.prev[w[1]] = NULL
             /\ k.tail = w[n - 1] /\ k.next[w[n - 1]] = NULL
  <2>1. /\ 1 \in 1 .. n - 1 /\ n - 1 \in 1 .. n - 1 /\ (n - 1) + 1 = n /\ 2 \in 1 .. n /\ n # 1
        /\ 1 \in 1 .. n /\ n \in 1 .. n /\ n - 1 \in 1 .. n /\ 1 + 1 = 2
    BY <1>1, <1>7
  <2>2. k.head = w[1] /\ k.prev[w[1]] = NULL
    <3>1. CASE j = 1
      <4>1. w[1] = s[2] /\ l.next[t] = s[2] /\ l.prev[t] = NULL
        BY <1>2, <1>4, <2>1, <3>1
      <4> QED BY <1>5, <2>1, <3>1, <4>1
    <3>2. CASE j # 1
      <4>1. w[1] = s[1] /\ 1 # j + 1
        BY <1>2, <2>1, <3>2
      <4> QED BY <1>3, <1>5, <2>1, <3>2, <4>1
    <3> QED BY <3>1, <3>2
  <2>3. k.tail = w[n - 1] /\ k.next[w[n - 1]] = NULL
    <3>1. CASE j = n
      <4>1. w[n - 1] = s[n - 1] /\ l.prev[t] = s[n - 1] /\ l.next[t] = NULL /\ n - 1 = j - 1 /\ n - 1 # j
        BY <1>1, <1>2, <1>4, <2>1, <3>1
      <4> QED BY <1>5, <2>1, <3>1, <4>1
    <3>2. CASE j # n
      <4>1. w[n - 1] = s[n] /\ n # j - 1
        BY <1>1, <1>2, <2>1, <3>2
      <4> QED BY <1>3, <1>5, <2>1, <3>2, <4>1
    <3> QED BY <3>1, <3>2
  <2> QED BY <2>2, <2>3
<1>8. ASSUME NEW i \in 1 .. (n - 1) - 1
      PROVE  k.next[w[i]] = w[i + 1] /\ k.prev[w[i + 1]] = w[i]
  <2>1. i \in 1 .. n - 1 /\ i + 1 \in 1 .. n - 1 /\ i \in 1 .. n /\ i + 1 \in 1 .. n /\ i + 2 \in 1 .. n
        /\ (i + 1) + 1 = i + 2 /\ n # 1
    BY <1>1
  <2>2. CASE i + 1 < j
    <3>1. w[i] = s[i] /\ w[i + 1] = s[i + 1] /\ i # j - 1 /\ i + 1 # j + 1 /\ i # j /\ i + 1 # j
      BY <1>2, <2>1, <2>2
    <3> QED BY <1>3, <1>5, <2>1, <3>1
  <2>3. CASE i + 1 = j
    <3>1. w[i] = s[i] /\ w[i + 1] = s[i + 2] /\ i = j - 1 /\ i + 2 = j + 1 /\ i # j /\ i + 2 # j
      BY <1>2, <2>1, <2>3
    <3>2. l.next[t] = s[i + 2] /\ l.prev[t] = s[i]
      BY <1>1, <1>4, <2>1, <2>3, <3>1
    <3> QED BY <1>5, <2>1, <3>1, <3>2
  <2>4. CASE i + 1 > j
    <3>1. /\ w[i] = s[i + 1] /\ w[i + 1] = s[i + 2] /\ i + 1 # j - 1 /\ i + 2 # j + 1
          /\ i + 1 # j /\ i + 2 # j
      BY <1>2, <2>1, <2>4
    <3> QED BY <1>3, <1>5, <2>1, <3>1
  <2> QED BY <2>1, <2>2, <2>3, <2>4
<1>9. Links(k, w, n - 1)
  BY <1>6, <1>7, <1>8 DEF Links
<1>10. Row(w, n - 1, T \ {t})
  BY <1>1, WithoutRow DEF w
<1> QED BY <1>1, <1>9, <1>10 DEF Chain, w

\* The neighbours of a timer in the row.
LEMMA NeighboursTyped ==
    ASSUME NEW l, NEW s, NEW n, NEW T, Chain(l, s, n, T), NEW j \in 1 .. n
    PROVE  /\ j = 1 <=> l.head = s[j]
           /\ j = n <=> l.tail = s[j]
           /\ j = 1 => l.prev[s[j]] = NULL
           /\ j # 1 => l.prev[s[j]] = s[j - 1] /\ s[j - 1] \in T \ {s[j]} /\ j - 1 \in 1 .. n
           /\ j = n => l.next[s[j]] = NULL
           /\ j # n => l.next[s[j]] = s[j + 1] /\ s[j + 1] \in T \ {s[j]} /\ j + 1 \in 1 .. n
           /\ s[j] \in T
<1>1. /\ n \in Nat /\ s \in [1 .. n -> T] /\ Links(l, s, n)
      /\ \A i, h \in 1 .. n : s[i] = s[h] => i = h
  BY DEF Chain, Row
<1>2. /\ l.head = s[1] /\ l.prev[s[1]] = NULL /\ l.tail = s[n] /\ l.next[s[n]] = NULL
      /\ \A i \in 1 .. n - 1 : l.next[s[i]] = s[i + 1] /\ l.prev[s[i + 1]] = s[i]
      /\ 1 \in 1 .. n /\ n \in 1 .. n
  BY <1>1 DEF Links
<1>3. j # n => j \in 1 .. n - 1 /\ j + 1 \in 1 .. n /\ j + 1 # j
  BY <1>1
<1>4. j # 1 => j - 1 \in 1 .. n - 1 /\ (j - 1) + 1 = j /\ j - 1 \in 1 .. n /\ j - 1 # j
  BY <1>1
<1> QED BY <1>1, <1>2, <1>3, <1>4

\* A list is its four fields.
LEMMA ListParts ==
    ASSUME NEW l \in Lists
    PROVE  /\ l = [head |-> l.head, tail |-> l.tail, prev |-> l.prev, next |-> l.next]
           /\ l.prev \in [Cells -> Pointers] /\ l.next \in [Cells -> Pointers]
           /\ l.head \in Pointers /\ l.tail \in Pointers
BY DEF Lists

\* What delete leaves of the list.
LEMMA DeletedFields ==
    ASSUME NEW l \in Lists, NEW T
    PROVE  LET d == Deleted(l, T) IN
           /\ d \in Lists /\ d.head = l.head /\ d.tail = l.tail
           /\ \A c \in Cells : /\ d.prev[c] = IF c \in T THEN NULL ELSE l.prev[c]
                               /\ d.next[c] = IF c \in T THEN NULL ELSE l.next[c]
<1> DEFINE P == [c \in Cells |-> IF c \in T THEN NULL ELSE l.prev[c]]
           N == [c \in Cells |-> IF c \in T THEN NULL ELSE l.next[c]]
           d == Deleted(l, T)
<1>1. P \in [Cells -> Pointers] /\ N \in [Cells -> Pointers] /\ l.head \in Pointers /\ l.tail \in Pointers
  BY ListParts DEF Pointers
<1>2. \A c \in Cells : /\ P[c] = IF c \in T THEN NULL ELSE l.prev[c]
                       /\ N[c] = IF c \in T THEN NULL ELSE l.next[c]
  OBVIOUS
<1>3. d = [l EXCEPT !.prev = P, !.next = N]
  BY DEF Deleted
<1>4. l = [head |-> l.head, tail |-> l.tail, prev |-> l.prev, next |-> l.next]
  BY ListParts
<1> HIDE DEF P, N, d
<1>5. d = [head |-> l.head, tail |-> l.tail, prev |-> P, next |-> N]
  BY <1>3, <1>4
<1>6. d \in Lists
  BY <1>1, <1>5 DEF Lists
<1> QED BY <1>2, <1>5, <1>6 DEF d

\* What del_timer links.
LEMMA UnlinkedFields ==
    ASSUME NEW l, NEW s, NEW n, NEW T, Chain(l, s, n, T), NEW j \in 1 .. n
    PROVE  LET u == Unlinked(l, s[j]) IN
           /\ u \in Lists
           /\ u.head = IF j = 1 THEN l.next[s[j]] ELSE l.head
           /\ n # 1 => u.tail = IF j = n THEN l.prev[s[j]] ELSE l.tail
           /\ \A c \in Cells \ {s[j]} :
                 /\ u.next[c] = IF c = l.prev[s[j]] THEN l.next[s[j]] ELSE l.next[c]
                 /\ u.prev[c] = IF c = l.next[s[j]] THEN l.prev[s[j]] ELSE l.prev[c]
<1> DEFINE t == s[j]
           P == l.prev[t]
           N == l.next[t]
           u == Unlinked(l, t)
<1>1. l \in Lists /\ T \subseteq Cells /\ n \in Nat
  BY DEF Chain, Row
<1>2. /\ l = [head |-> l.head, tail |-> l.tail, prev |-> l.prev, next |-> l.next]
      /\ l.prev \in [Cells -> Pointers] /\ l.next \in [Cells -> Pointers]
      /\ l.head \in Pointers /\ l.tail \in Pointers
  BY <1>1, ListParts
<1>3. /\ j = 1 <=> l.head = t
      /\ j = n <=> l.tail = t
      /\ IF j = 1 THEN P = NULL ELSE P \in T \ {t}
      /\ IF j = n THEN N = NULL ELSE N \in T \ {t}
      /\ t \in T
  BY NeighboursTyped
<1> HIDE DEF t, P, N
<1>4. CASE j = 1 /\ j = n
  <2>1. u = [head |-> NULL, tail |-> NULL, prev |-> l.prev, next |-> l.next]
    BY <1>2, <1>3, <1>4 DEF Unlinked
  <2> HIDE DEF u
  <2>2. u \in Lists
    BY <1>2, <2>1 DEF Lists, Pointers
  <2> QED BY <1>1, <1>3, <1>4, <2>1, <2>2 DEF u, t, P, N
<1>5. CASE j = 1 /\ j # n
  <2>1. u = [l EXCEPT !.head = l.next[t], !.prev[l.next[t]] = NULL]
    BY <1>3, <1>5 DEF Unlinked
  <2>2. u = [head |-> N, tail |-> l.tail, prev |-> [l.prev EXCEPT ![N] = NULL], next |-> l.next]
    BY <1>2, <2>1 DEF N
  <2> HIDE DEF u
  <2>3. u \in Lists
    BY <1>1, <1>2, <1>3, <1>5, <2>2 DEF Lists, Pointers
  <2>4. /\ u.head = N /\ u.tail = l.tail
        /\ \A c \in Cells \ {t} : /\ u.next[c] = IF c = P THEN N ELSE l.next[c]
                                  /\ u.prev[c] = IF c = N THEN P ELSE l.prev[c]
    BY <1>2, <1>3, <1>5, <2>2
  <2> QED BY <1>5, <2>3, <2>4 DEF u, t, P, N
<1>6. CASE j # 1 /\ j = n
  <2>1. u = [l EXCEPT !.tail = l.prev[t], !.next[l.prev[t]] = NULL]
    BY <1>3, <1>6 DEF Unlinked
  <2>2. u = [head |-> l.head, tail |-> P, prev |-> l.prev, next |-> [l.next EXCEPT ![P] = NULL]]
    BY <1>2, <2>1 DEF P
  <2> HIDE DEF u
  <2>3. u \in Lists
    BY <1>1, <1>2, <1>3, <1>6, <2>2 DEF Lists, Pointers
  <2>4. /\ u.head = l.head /\ u.tail = P
        /\ \A c \in Cells \ {t} : /\ u.next[c] = IF c = P THEN N ELSE l.next[c]
                                  /\ u.prev[c] = IF c = N THEN P ELSE l.prev[c]
    BY <1>2, <1>3, <1>6, <2>2
  <2> QED BY <1>6, <2>3, <2>4 DEF u, t, P, N
<1>7. CASE j # 1 /\ j # n
  <2>1. u = [l EXCEPT !.next[l.prev[t]] = l.next[t], !.prev[l.next[t]] = l.prev[t]]
    BY <1>3, <1>7 DEF Unlinked
  <2>2. u = [head |-> l.head, tail |-> l.tail, prev |-> [l.prev EXCEPT ![N] = P],
             next |-> [l.next EXCEPT ![P] = N]]
    BY <1>2, <2>1 DEF P, N
  <2> HIDE DEF u
  <2>3. u \in Lists
    BY <1>1, <1>2, <1>3, <1>7, <2>2 DEF Lists, Pointers
  <2>4. /\ u.head = l.head /\ u.tail = l.tail
        /\ \A c \in Cells \ {t} : /\ u.next[c] = IF c = P THEN N ELSE l.next[c]
                                  /\ u.prev[c] = IF c = N THEN P ELSE l.prev[c]
    BY <1>2, <1>3, <1>7, <2>2
  <2> QED BY <1>7, <2>3, <2>4 DEF u, t, P, N
<1> QED BY <1>4, <1>5, <1>6, <1>7

\* del_timer (lst_timer.h lines 156-198): the list is one of all timers but that one.
LEMMA DelTimerSorts ==
    ASSUME NEW l, NEW expiry \in [Cells -> Nat], NEW T \in SUBSET Cells, InOrder(l, expiry, T),
           NEW t \in T
    PROVE  InOrder(DelTimer(l, t), expiry, T \ {t})
<1>1. PICK n, s : Chain(l, s, n, T) /\ Ordered(expiry, s, n)
  BY RowOf
<1>2. /\ n \in Nat /\ s \in [1 .. n -> T] /\ \A c \in T : \E i \in 1 .. n : c = s[i]
      /\ Row(s, n, T)
  BY <1>1 DEF Chain, Row
<1>3. PICK j \in 1 .. n : t = s[j]
  BY <1>2
<1> DEFINE u == Unlinked(l, s[j])
           d == DelTimer(l, t)
<1>4. /\ u \in Lists
      /\ u.head = IF j = 1 THEN l.next[s[j]] ELSE l.head
      /\ n # 1 => u.tail = IF j = n THEN l.prev[s[j]] ELSE l.tail
      /\ \A c \in Cells \ {s[j]} :
            /\ u.next[c] = IF c = l.prev[s[j]] THEN l.next[s[j]] ELSE l.next[c]
            /\ u.prev[c] = IF c = l.next[s[j]] THEN l.prev[s[j]] ELSE l.prev[c]
  BY <1>1, UnlinkedFields
<1>5. d = Deleted(u, {t})
  BY <1>3 DEF DelTimer
<1> HIDE DEF u, d
<1>6. /\ d \in Lists /\ d.head = u.head /\ d.tail = u.tail
      /\ \A c \in Cells : /\ d.prev[c] = IF c = t THEN NULL ELSE u.prev[c]
                          /\ d.next[c] = IF c = t THEN NULL ELSE u.next[c]
  BY <1>4, <1>5, DeletedFields
<1>7. /\ d.head = IF j = 1 THEN l.next[s[j]] ELSE l.head
      /\ n # 1 => d.tail = IF j = n THEN l.prev[s[j]] ELSE l.tail
      /\ \A c \in T \ {s[j]} :
            /\ d.next[c] = IF c = l.prev[s[j]] THEN l.next[s[j]] ELSE l.next[c]
            /\ d.prev[c] = IF c = l.next[s[j]] THEN l.prev[s[j]] ELSE l.prev[c]
  BY <1>3, <1>4, <1>6
<1>8. Chain(d, Without(s, n, j), n - 1, T \ {t})
  BY <1>1, <1>3, <1>6, <1>7, WithoutLinks
<1>9. Ordered(expiry, Without(s, n, j), n - 1)
  BY <1>1, <1>2, WithoutOrdered
<1>10. IsSorted(d, expiry, T \ {t})
  BY <1>8, <1>9, RowSorted
<1>11. Blank(d, T \ {t})
  <2> SUFFICES ASSUME NEW c \in Cells \ (T \ {t}), c # t
               PROVE  d.prev[c] = NULL /\ d.next[c] = NULL
    BY <1>6 DEF Blank
  <2>1. l.prev[c] = NULL /\ l.next[c] = NULL
    BY DEF InOrder, Blank
  <2>2. c # NULL /\ c \notin T
    OBVIOUS
  <2>3. (l.prev[s[j]] = NULL \/ l.prev[s[j]] \in T) /\ (l.next[s[j]] = NULL \/ l.next[s[j]] \in T)
    <3>1. /\ j = 1 => l.prev[s[j]] = NULL
          /\ j # 1 => l.prev[s[j]] = s[j - 1] /\ s[j - 1] \in T \ {s[j]}
          /\ j = n => l.next[s[j]] = NULL
          /\ j # n => l.next[s[j]] = s[j + 1] /\ s[j + 1] \in T \ {s[j]}
      BY <1>1, NeighboursTyped
    <3> QED BY <3>1
  <2> QED BY <1>3, <1>4, <1>6, <2>1, <2>2, <2>3
<1> QED BY <1>6, <1>10, <1>11 DEF InOrder, d

\* The list while adjust_timer moves the timer at place j of it, not the last.
LiftedOut(l, t) == IF t = l.head THEN [l EXCEPT !.head = l.next[t], !.prev[l.next[t]] = NULL, !.next[t] = NULL]
               ELSE [l EXCEPT !.next[l.prev[t]] = l.next[t], !.prev[l.next[t]] = l.prev[t]]

\* Lifted out of the row, the timer leaves its neighbours linked to each other.
LEMMA TakenLinks ==
    ASSUME NEW l, NEW s, NEW n, NEW T, Chain(l, s, n, T), NEW j \in 1 .. n - 1
    PROVE  /\ Chain(LiftedOut(l, s[j]), Without(s, n, j), n - 1, T \ {s[j]})
           /\ Elsewhere(LiftedOut(l, s[j]), l, T)
           /\ LiftedOut(l, s[j]).next[s[j]] \in {NULL, s[j + 1]}
<1> DEFINE t == s[j]
           P == l.prev[t]
           N == l.next[t]
           u == LiftedOut(l, t)
<1>1. l \in Lists /\ T \subseteq Cells /\ n \in Nat /\ j \in 1 .. n /\ j # n
  BY DEF Chain, Row
<1>2. /\ l = [head |-> l.head, tail |-> l.tail, prev |-> l.prev, next |-> l.next]
      /\ l.prev \in [Cells -> Pointers] /\ l.next \in [Cells -> Pointers]
      /\ l.head \in Pointers /\ l.tail \in Pointers
  BY <1>1, ListParts
<1>3. /\ j = 1 <=> l.head = t
      /\ IF j = 1 THEN P = NULL ELSE P \in T \ {t}
      /\ N \in T \ {t} /\ N = s[j + 1]
      /\ t \in T
  BY <1>1, NeighboursTyped
<1> HIDE DEF t, P, N
<1>4. /\ u \in Lists /\ u.head = (IF j = 1 THEN N ELSE l.head) /\ u.tail = l.tail
      /\ \A c \in Cells \ {t} : /\ u.next[c] = IF c = P THEN N ELSE l.next[c]
                                /\ u.prev[c] = IF c = N THEN P ELSE l.prev[c]
      /\ u.next[t] \in {NULL, N}
  <2>1. CASE j = 1
    <3>1. u = [l EXCEPT !.head = l.next[t], !.prev[l.next[t]] = NULL, !.next[t] = NULL]
      BY <1>3, <2>1 DEF LiftedOut
    <3>2. u = [head |-> N, tail |-> l.tail, prev |-> [l.prev EXCEPT ![N] = NULL],
               next |-> [l.next EXCEPT ![t] = NULL]]
      BY <1>2, <3>1 DEF N
    <3> HIDE DEF u
    <3>3. u \in Lists
      BY <1>1, <1>2, <1>3, <3>2 DEF Lists, Pointers
    <3> QED BY <1>1, <1>2, <1>3, <2>1, <3>2, <3>3
  <2>2. CASE j # 1
    <3>1. u = [l EXCEPT !.next[l.prev[t]] = l.next[t], !.prev[l.next[t]] = l.prev[t]]
      BY <1>3, <2>2 DEF LiftedOut
    <3>2. u = [head |-> l.head, tail |-> l.tail, prev |-> [l.prev EXCEPT ![N] = P],
               next |-> [l.next EXCEPT ![P] = N]]
      BY <1>2, <3>1 DEF P, N
    <3> HIDE DEF u
    <3>3. u \in Lists
      BY <1>1, <1>2, <1>3, <2>2, <3>2 DEF Lists, Pointers
    <3>4. u.next[t] = N
      BY <1>1, <1>2, <1>3, <2>2, <3>2 DEF N
    <3> QED BY <1>1, <1>2, <1>3, <2>2, <3>2, <3>3, <3>4
  <2> QED BY <2>1, <2>2
<1> HIDE DEF u
<1>5. /\ u.head = IF j = 1 THEN l.next[s[j]] ELSE l.head
      /\ n # 1 => u.tail = IF j = n THEN l.prev[s[j]] ELSE l.tail
      /\ \A c \in T \ {s[j]} :
            /\ u.next[c] = IF c = l.prev[s[j]] THEN l.next[s[j]] ELSE l.next[c]
            /\ u.prev[c] = IF c = l.next[s[j]] THEN l.prev[s[j]] ELSE l.prev[c]
  BY <1>1, <1>4 DEF t, P, N
<1>6. Chain(u, Without(s, n, j), n - 1, T \ {s[j]})
  BY <1>1, <1>4, <1>5, WithoutLinks
<1>7. Elsewhere(u, l, T)
  <2> SUFFICES ASSUME NEW c \in Cells \ T PROVE u.prev[c] = l.prev[c] /\ u.next[c] = l.next[c]
    BY DEF Elsewhere
  <2>1. c # t /\ c # P /\ c # N
    BY <1>3
  <2> QED BY <1>4, <2>1
<1> QED BY <1>3, <1>4, <1>6, <1>7 DEF u, t

\* adjust_timer (lst_timer.h lines 116-149): after a timer's expiry has moved to a later
\* time, the list is in the order of the new expiries.
LEMMA AdjustTimerSorts ==
    ASSUME NEW l, NEW old \in [Cells -> Nat], NEW T \in SUBSET Cells, InOrder(l, old, T),
           NEW t \in T, NEW expiry \in [Cells -> Nat],
           \A c \in T \ {t} : expiry[c] = old[c], old[t] <= expiry[t]
    PROVE  InOrder(AdjustTimer(l, expiry, t), expiry, T)
<1>1. PICK n, s : Chain(l, s, n, T) /\ Ordered(old, s, n)
  BY RowOf
<1>2. /\ n \in Nat /\ s \in [1 .. n -> T] /\ (\A c \in T : \E i \in 1 .. n : c = s[i])
      /\ \A i, h \in 1 .. n : s[i] = s[h] => i = h
      /\ Row(s, n, T) /\ l \in Lists
  BY <1>1 DEF Chain, Row
<1>3. PICK j \in 1 .. n : t = s[j]
  BY <1>2
<1>4. \A i \in 1 .. n : /\ expiry[s[i]] \in Nat /\ old[s[i]] \in Nat
                        /\ i # j => expiry[s[i]] = old[s[i]]
                        /\ old[s[i]] <= expiry[s[i]]
  BY <1>2, <1>3
<1>5. \A c \in Cells \ T : l.prev[c] = NULL /\ l.next[c] = NULL
  BY DEF InOrder, Blank
<1>6. /\ j = 1 <=> l.head = t
      /\ j = n <=> l.next[t] = NULL
      /\ j # n => l.next[t] = s[j + 1] /\ j + 1 \in 1 .. n /\ s[j + 1] \in T \ {t}
  <2>1. j # n => l.next[s[j]] = s[j + 1] /\ s[j + 1] \in T \ {s[j]} /\ j + 1 \in 1 .. n
    BY <1>1, NeighboursTyped
  <2>2. (j = n => l.next[s[j]] = NULL) /\ (j = 1 <=> l.head = s[j])
    BY <1>1, NeighboursTyped
  <2> QED BY <1>3, <2>1, <2>2
<1>7. CASE l.next[t] = NULL \/ Later(expiry, t, l.next[t])
  <2>1. AdjustTimer(l, expiry, t) = l
    BY <1>7 DEF AdjustTimer
  <2>2. ASSUME NEW i \in 1 .. n, NEW h \in 1 .. n, i <= h
        PROVE  expiry[s[i]] <= expiry[s[h]]
    <3>1. old[s[i]] <= old[s[h]]
      BY <1>1, <2>2 DEF Ordered
    <3>2. CASE i # j
      BY <1>4, <3>1, <3>2
    <3>3. CASE i = h
      BY <1>4, <3>3
    <3>4. CASE i = j /\ h # j
      <4>1. j # n /\ j + 1 <= h /\ j + 1 \in 1 .. n
        BY <1>2, <2>2, <3>4
      <4>2. expiry[t] < expiry[s[j + 1]]
        BY <1>6, <1>7, <4>1 DEF Later
      <4>3. old[s[j + 1]] <= old[s[h]] /\ expiry[s[j + 1]] = old[s[j + 1]]
        BY <1>1, <1>4, <4>1 DEF Ordered
      <4> QED BY <1>3, <1>4, <3>4, <4>1, <4>2, <4>3
    <3> QED BY <3>2, <3>3, <3>4
  <2>3. Ordered(expiry, s, n)
    BY <2>2 DEF Ordered
  <2> QED BY <1>1, <2>1, <2>3, RowSorted DEF InOrder
<1>8. CASE ~ (l.next[t] = NULL \/ Later(expiry, t, l.next[t]))
  <2> DEFINE k == LiftedOut(l, t)
             w == Without(s, n, j)
             S == T \ {t}
  <2>1. j \in 1 .. n - 1 /\ j # n /\ n - 1 \in Nat
    BY <1>2, <1>6, <1>8
  <2>2. AdjustTimer(l, expiry, t) = AddAfter(k, expiry, t, l.next[t])
    BY <1>8, Zenon DEF AdjustTimer, LiftedOut
  <2>3. Chain(k, w, n - 1, S) /\ Elsewhere(k, l, T) /\ k.next[t] \in {NULL, s[j + 1]}
    BY <1>1, <1>3, <2>1, TakenLinks
  <2>4. l.next[t] = w[j]
    BY <1>6, <2>1 DEF Without
  <2>5. Ordered(expiry, w, n - 1)
    <3>1. Ordered(old, w, n - 1)
      BY <1>1, <1>2, WithoutOrdered
    <3>2. w \in [1 .. n - 1 -> S]
      BY <2>3 DEF Chain, Row
    <3> HIDE DEF w
    <3>3. \A i \in 1 .. n - 1 : expiry[w[i]] = old[w[i]]
      BY <3>2
    <3> QED BY <3>1, <3>3 DEF Ordered
  <2> HIDE DEF k, w
  <2>6. t \in Cells \ S /\ S \cup {t} = T
    OBVIOUS
  <2>7. \A c \in Cells \ S : k.next[c] \in S \cup {NULL}
    <3> SUFFICES ASSUME NEW c \in Cells \ S PROVE k.next[c] \in S \cup {NULL}
      OBVIOUS
    <3>1. CASE c = t
      BY <1>6, <2>1, <2>3, <3>1
    <3>2. CASE c # t
      BY <1>5, <2>3, <3>2 DEF Elsewhere
    <3> QED BY <3>1, <3>2
  <2>8. \A c \in Cells \ (S \cup {t}) : k.prev[c] = NULL /\ k.next[c] = NULL
    BY <1>5, <2>3 DEF Elsewhere
  <2>9. expiry[w[j]] <= expiry[t]
    <3>1. ~ (expiry[t] < expiry[s[j + 1]])
      BY <1>6, <1>8, <2>1 DEF Later
    <3> QED BY <1>3, <1>4, <1>6, <2>1, <2>4, <3>1
  <2> HIDE DEF S
  <2>10. InOrder(AddAfter(k, expiry, t, w[j]), expiry, S \cup {t})
    BY <2>1, <2>3, <2>5, <2>6, <2>7, <2>8, <2>9, AddAfterSorted
  <2> QED BY <2>2, <2>4, <2>6, <2>10
<1> QED BY <1>7, <1>8

\* The first m timers of the row, and no others, have expired.
Expired(expiry, s, n, now, m) == \A i \in 1 .. n : expiry[s[i]] <= now <=> i <= m

\* What tick's walk fires: the timers of the row up to the first that has not expired.
LEMMA DueFound ==
    ASSUME NEW l, NEW s, NEW n, NEW T, Chain(l, s, n, T), Blank(l, T),
           NEW expiry \in [Cells -> Nat], NEW now \in Nat,
           NEW m \in 0 .. n, Expired(expiry, s, n, now, m)
    PROVE  Due(l, expiry, now) = {c \in T : expiry[c] <= now}
<1> \A i \in 1 .. n : expiry[s[i]] <= now <=> i <= m
  BY DEF Expired
<1>1. /\ n \in Nat /\ s \in [1 .. n -> T] /\ (\A c \in T : \E i \in 1 .. n : c = s[i])
      /\ \A i, h \in 1 .. n : s[i] = s[h] => i = h
      /\ T \subseteq Cells /\ NULL \notin Cells /\ Links(l, s, n)
  BY DEF Chain, Row
<1> DEFINE Upto(k) == {c \in T : \E h \in k .. m : c = s[h]}
           Eq(f) == f = [p \in Pointers |-> IF p = NULL THEN {}
                                            ELSE IF now < expiry[p] THEN {} ELSE {p} \cup f[l.next[p]]]
           W == [p \in Pointers |->
                   IF p = NULL THEN {} ELSE IF now < expiry[p] THEN {}
                   ELSE IF p \in T THEN {c \in T : \E i \in 1 .. n, h \in 1 .. m : p = s[i] /\ c = s[h] /\ i <= h}
                   ELSE {p}]
<1>2. ASSUME NEW i \in 1 .. n
      PROVE  /\ s[i] \in T /\ s[i] \in Pointers /\ s[i] # NULL /\ (now < expiry[s[i]] <=> ~ (i <= m))
             /\ IF i = n THEN l.next[s[i]] = NULL ELSE l.next[s[i]] = s[i + 1] /\ i + 1 \in 1 .. n
  <2>1. s[i] \in T /\ s[i] \in Cells /\ expiry[s[i]] \in Nat
    BY <1>1
  <2>2. IF i = n THEN l.next[s[i]] = NULL ELSE l.next[s[i]] = s[i + 1] /\ i + 1 \in 1 .. n
    <3>1. CASE i = n
      BY <1>1, <3>1 DEF Links
    <3>2. CASE i # n
      <4>1. n \in Nat
        BY <1>1
      <4>2. i \in 1 .. n - 1 /\ i + 1 \in 1 .. n
        BY <3>2, <4>1
      <4>3. l.next[s[i]] = s[i + 1]
        BY <1>1, <4>2 DEF Links
      <4> QED BY <3>2, <4>2, <4>3
    <3> QED BY <3>1, <3>2
  <2> QED BY <1>1, <2>1, <2>2 DEF Pointers
<1>3. NULL \in Pointers
  BY DEF Pointers
<1>4. Eq(W)
  <2>1. W[NULL] = {}
    BY <1>3
  <2>2. ASSUME NEW i \in 1 .. n
        PROVE  W[s[i]] = {c \in T : \E h \in i .. m : c = s[h]}
    <3>1. CASE i <= m
      <4>1. W[s[i]] = {c \in T : \E j \in 1 .. n, h \in 1 .. m : s[i] = s[j] /\ c = s[h] /\ j <= h}
        BY <1>2, <3>1
      <4> HIDE DEF W
      <4>2. ASSUME NEW c \in T, NEW j \in 1 .. n, NEW h \in 1 .. m, s[i] = s[j], c = s[h], j <= h
            PROVE  h \in i .. m /\ c = s[h]
        BY <1>1, <4>2
      <4>3. ASSUME NEW c \in T, NEW h \in i .. m, c = s[h]
            PROVE  h \in 1 .. m /\ i <= h
        OBVIOUS
      <4> QED BY <4>1, <4>2, <4>3
    <3>2. CASE ~ (i <= m)
      <4>1. W[s[i]] = {}
        BY <1>2, <3>2
      <4> QED BY <3>2, <4>1
    <3> QED BY <3>1, <3>2
  <2>3. \A p \in Pointers : p # NULL /\ now < expiry[p] => W[p] = {}
    OBVIOUS
  <2>4. \A p \in Pointers : p # NULL /\ ~ (now < expiry[p]) /\ p \notin T => W[p] = {p}
    OBVIOUS
  <2>5. W = [p \in Pointers |-> W[p]]
    OBVIOUS
  <2> HIDE DEF W
  <2>6. ASSUME NEW p \in Pointers, p # NULL, ~ (now < expiry[p])
        PROVE  W[p] = {p} \cup W[l.next[p]]
    <3>1. CASE p \in T
      <4>1. PICK i \in 1 .. n : p = s[i]
        BY <1>1, <3>1
      <4>2. i <= m
        BY <1>2, <2>6, <4>1
      <4>3. W[l.next[p]] = {c \in T : \E h \in i + 1 .. m : c = s[h]}
        <5>1. CASE i = n
          <6>1. W[l.next[p]] = {}
            BY <1>2, <2>1, <4>1, <5>1
          <6>2. ~ \E h \in i + 1 .. m : TRUE
            BY <5>1
          <6> QED BY <6>1, <6>2
        <5>2. CASE i # n
          <6>1. l.next[p] = s[i + 1] /\ i + 1 \in 1 .. n
            BY <1>2, <4>1, <5>2
          <6> QED BY <2>2, <6>1
        <5> QED BY <5>1, <5>2
      <4>4. W[p] = {c \in T : \E h \in i .. m : c = s[h]}
        BY <2>2, <4>1
      <4>5. \A h \in i .. m : h = i \/ h \in i + 1 .. m
        OBVIOUS
      <4>6. \A h \in i + 1 .. m : h \in i .. m
        OBVIOUS
      <4>7. i \in i .. m /\ s[i] \in T
        BY <1>2, <4>2
      <4> QED BY <4>1, <4>3, <4>4, <4>5, <4>6, <4>7
    <3>2. CASE p \notin T
      <4>1. p \in Cells /\ l.next[p] = NULL
        BY <2>6, <3>2 DEF Pointers, Blank
      <4>2. W[p] = {p}
        BY <2>4, <2>6, <3>2
      <4> QED BY <2>1, <4>1, <4>2
    <3> QED BY <3>1, <3>2
  <2> QED BY <2>1, <2>3, <2>5, <2>6
<1> DEFINE F == CHOOSE f : Eq(f)
<1>5. Eq(F)
  <2> HIDE DEF Eq
  <2> QED BY <1>4, Zenon
<1>6. Due(l, expiry, now) = F[l.head]
  BY Zenon DEF Due
<1> HIDE DEF F
<1>7. \A p \in Pointers : F[p] = IF p = NULL THEN {} ELSE IF now < expiry[p] THEN {} ELSE {p} \cup F[l.next[p]]
  BY <1>5
<1> HIDE DEF W
<1>11. F[NULL] = {}
  BY <1>3, <1>7
<1>12. \A i \in 1 .. n : F[s[i]] = IF i <= m THEN {s[i]} \cup F[l.next[s[i]]] ELSE {}
  BY <1>2, <1>7
<1>8. {c \in T : expiry[c] <= now} = Upto(1)
  BY <1>1
<1>9. CASE m = 0
  <2>1. F[l.head] = {}
    <3>1. CASE n = 0
      BY <1>1, <1>11, <3>1 DEF Links
    <3>2. CASE n # 0
      <4>1. 1 \in 1 .. n /\ l.head = s[1]
        BY <1>1, <3>2 DEF Links
      <4>2. ~ (1 <= m)
        BY <1>9
      <4>3. F[s[1]] = {}
        BY <1>12, <4>1, <4>2
      <4> QED BY <4>1, <4>3
    <3> QED BY <3>1, <3>2
  <2> QED BY <1>6, <1>8, <1>9, <2>1
<1>10. CASE m # 0
  <2> DEFINE Good == {k \in 1 .. m : F[s[k]] = Upto(k)}
  <2>1. m \in 1 .. m /\ m \in 1 .. n /\ 1 \in 1 .. n /\ l.head = s[1]
    BY <1>1, <1>10 DEF Links
  <2>2. m \in Good
    <3>1. F[l.next[s[m]]] = {}
      <4>1. CASE m = n
        BY <1>2, <1>11, <2>1, <4>1
      <4>2. CASE m # n
        <5>1. m + 1 \in 1 .. n /\ l.next[s[m]] = s[m + 1]
          BY <1>2, <2>1, <4>2
        <5>2. ~ (m + 1 <= m)
          OBVIOUS
        <5> QED BY <1>12, <5>1, <5>2
      <4> QED BY <4>1, <4>2
    <3>2. F[s[m]] = {s[m]}
      <4>1. m <= m
        BY <2>1
      <4>2. F[s[m]] = {s[m]} \cup F[l.next[s[m]]]
        BY <1>12, <2>1, <4>1
      <4> QED BY <3>1, <4>2
    <3>3. \A h \in m .. m : h = m
      OBVIOUS
    <3> QED BY <1>2, <2>1, <3>2, <3>3
  <2>3. Good \subseteq Nat
    OBVIOUS
  <2>4. PICK k \in Good : \A i \in Good : k <= i
    BY <2>2, <2>3, Least
  <2>5. ASSUME k # 1
        PROVE  FALSE
    <3>1. /\ k - 1 \in 1 .. m /\ k - 1 \in 1 .. n /\ k - 1 # n /\ (k - 1) + 1 = k /\ k - 1 <= m
          /\ k - 1 \in k - 1 .. m
          /\ \A h \in k - 1 .. m : h = k - 1 \/ h \in k .. m
          /\ \A h \in k .. m : h \in k - 1 .. m
      BY <1>1, <2>5
    <3>2. F[s[k - 1]] = {s[k - 1]} \cup F[s[k]]
      <4>1. s[k - 1] \in Pointers /\ s[k - 1] # NULL /\ ~ (now < expiry[s[k - 1]]) /\ l.next[s[k - 1]] = s[k]
        BY <1>2, <3>1
      <4> QED BY <1>7, <4>1
    <3>3. F[s[k]] = Upto(k) /\ s[k - 1] \in T
      BY <1>2, <3>1
    <3>4. F[s[k - 1]] = Upto(k - 1)
      BY <3>1, <3>2, <3>3
    <3> QED BY <2>4, <3>1, <3>4
  <2> QED BY <1>6, <1>8, <2>1, <2>4, <2>5
<1> QED BY <1>9, <1>10

\* Where tick leaves head, when it fires the first m timers.
LEMMA FirstLeftFound ==
    ASSUME NEW l, NEW s, NEW n, NEW T, Chain(l, s, n, T), NEW fired, fired \subseteq T,
           NEW m \in 0 .. n, \A i \in 1 .. n : s[i] \in fired <=> i <= m
    PROVE  FirstLeft(l, fired) = IF m = n THEN NULL ELSE s[m + 1]
<1>1. /\ n \in Nat /\ s \in [1 .. n -> T] /\ (\A c \in T : \E i \in 1 .. n : c = s[i])
      /\ T \subseteq Cells /\ NULL \notin Cells /\ Links(l, s, n)
  BY DEF Chain, Row
<1> DEFINE first == IF m = n THEN NULL ELSE s[m + 1]
           Eq(f) == f = [p \in Pointers |-> IF p = NULL THEN NULL
                                            ELSE IF p \in fired THEN f[l.next[p]] ELSE p]
           W == [p \in Pointers |-> IF p = NULL THEN NULL ELSE IF p \in fired THEN first ELSE p]
<1>2. ASSUME NEW i \in 1 .. n
      PROVE  /\ s[i] \in Pointers /\ s[i] # NULL
             /\ IF i = n THEN l.next[s[i]] = NULL ELSE l.next[s[i]] = s[i + 1] /\ i + 1 \in 1 .. n
  <2>1. s[i] \in Cells /\ s[i] # NULL
    BY <1>1
  <2>2. CASE i = n
    BY <1>1, <2>1, <2>2 DEF Links, Pointers
  <2>3. CASE i # n
    <3>1. n \in Nat
      BY <1>1
    <3>2. i \in 1 .. n - 1 /\ i + 1 \in 1 .. n
      BY <2>3, <3>1
    <3>3. l.next[s[i]] = s[i + 1]
      BY <1>1, <3>2 DEF Links
    <3> QED BY <2>1, <2>3, <3>2, <3>3 DEF Pointers
  <2> QED BY <2>2, <2>3
<1>3. NULL \in Pointers /\ NULL \notin fired
  BY <1>1 DEF Pointers
<1>4. /\ first \in Pointers /\ first \notin fired
      /\ m # 0 => m \in 1 .. n /\ l.next[s[m]] = first
  <2>1. CASE m = n
    BY <1>1, <1>2, <1>3, <2>1
  <2>2. CASE m # n
    <3>1. n \in Nat
      BY <1>1
    <3>2. m + 1 \in 1 .. n /\ ~ (m + 1 <= m) /\ (m # 0 => m \in 1 .. n)
      BY <2>2, <3>1
    <3> QED BY <1>2, <2>2, <3>2
  <2> QED BY <2>1, <2>2
<1> HIDE DEF first
<1>5. Eq(W)
  <2>1. \A p \in Pointers : W[p] = IF p = NULL THEN NULL ELSE IF p \in fired THEN first ELSE p
    OBVIOUS
  <2>2. W = [p \in Pointers |-> W[p]]
    OBVIOUS
  <2> HIDE DEF W
  <2>3. W[first] = first
    BY <1>4, <2>1
  <2>4. ASSUME NEW p \in Pointers, p # NULL, p \in fired
        PROVE  W[p] = W[l.next[p]]
    <3>1. PICK i \in 1 .. n : p = s[i]
      BY <1>1, <2>4
    <3>2. i <= m
      BY <2>4, <3>1
    <3>3. CASE i = m
      BY <1>4, <2>1, <2>3, <2>4, <3>1, <3>3
    <3>4. CASE i # m
      <4>1. i # n /\ i + 1 <= m
        BY <3>2, <3>4
      <4>2. l.next[p] = s[i + 1] /\ i + 1 \in 1 .. n
        BY <1>2, <3>1, <4>1
      <4>3. l.next[p] \in fired /\ l.next[p] \in Pointers /\ l.next[p] # NULL
        BY <1>2, <4>1, <4>2
      <4> QED BY <2>1, <2>4, <4>3
    <3> QED BY <3>3, <3>4
  <2> QED BY <2>1, <2>2, <2>4
<1> DEFINE F == CHOOSE f : Eq(f)
<1>6. Eq(F)
  <2> HIDE DEF Eq
  <2> QED BY <1>5, Zenon
<1>7. FirstLeft(l, fired) = F[l.head]
  BY Zenon DEF FirstLeft
<1> HIDE DEF F
<1>8. \A p \in Pointers : F[p] = IF p = NULL THEN NULL ELSE IF p \in fired THEN F[l.next[p]] ELSE p
  BY <1>6
<1> HIDE DEF W
<1>9. F[first] = first
  BY <1>4, <1>8
<1>10. CASE m = 0
  <2>1. l.head = first
    <3>1. CASE n = 0
      BY <1>1, <1>10, <3>1 DEF Links, first
    <3>2. CASE n # 0
      <4>1. l.head = s[1]
        BY <1>1, <3>2 DEF Links
      <4> QED BY <1>10, <3>2, <4>1 DEF first
    <3> QED BY <3>1, <3>2
  <2> QED BY <1>7, <1>9, <2>1 DEF first
<1>11. CASE m # 0
  <2> DEFINE Good == {k \in 1 .. m : F[s[k]] = first}
  <2>1. m \in 1 .. m /\ m \in 1 .. n /\ 1 \in 1 .. n /\ l.head = s[1] /\ m <= m
    BY <1>1, <1>11 DEF Links
  <2>2. m \in Good
    <3>1. s[m] \in Pointers /\ s[m] # NULL /\ s[m] \in fired /\ l.next[s[m]] = first
      BY <1>2, <1>4, <2>1
    <3> QED BY <1>8, <1>9, <2>1, <3>1
  <2>3. Good \subseteq Nat
    OBVIOUS
  <2>4. PICK k \in Good : \A i \in Good : k <= i
    BY <2>2, <2>3, Least
  <2>5. ASSUME k # 1
        PROVE  FALSE
    <3>1. k - 1 \in 1 .. m /\ k - 1 \in 1 .. n /\ k - 1 # n /\ (k - 1) + 1 = k /\ k - 1 <= m
      BY <1>1, <2>5
    <3>2. s[k - 1] \in Pointers /\ s[k - 1] # NULL /\ s[k - 1] \in fired /\ l.next[s[k - 1]] = s[k]
      BY <1>2, <3>1
    <3>3. F[s[k - 1]] = first
      BY <1>8, <3>2
    <3> QED BY <2>4, <3>1, <3>3
  <2> QED BY <1>7, <2>1, <2>4, <2>5 DEF first
<1> QED BY <1>10, <1>11

\* The row without its first m timers.
Behind(s, n, m) == [i \in 1 .. n - m |-> s[i + m]]

\* tick (lst_timer.h lines 204-238) fires the timers that expired and leaves the others.
LEMMA TickSorts ==
    ASSUME NEW l, NEW expiry \in [Cells -> Nat], NEW T \in SUBSET Cells, InOrder(l, expiry, T),
           NEW now \in Nat
    PROVE  /\ Due(l, expiry, now) = {c \in T : expiry[c] <= now}
           /\ InOrder(Ticked(l, expiry, now), expiry, {c \in T : expiry[c] > now})
<1>1. PICK n, s : Chain(l, s, n, T) /\ Ordered(expiry, s, n)
  BY RowOf
<1>2. /\ n \in Nat /\ s \in [1 .. n -> T] /\ (\A c \in T : \E i \in 1 .. n : c = s[i])
      /\ \A i, h \in 1 .. n : s[i] = s[h] => i = h
      /\ s \in [1 .. n -> Cells] /\ l \in Lists /\ Blank(l, T) /\ Links(l, s, n)
  BY <1>1 DEF Chain, Row, InOrder
<1>3. PICK m \in 0 .. n : \A i \in 1 .. n : expiry[s[i]] <= now <=> i <= m
  BY <1>1, <1>2, Threshold
<1> DEFINE fired == {c \in T : expiry[c] <= now}
           S == {c \in T : expiry[c] > now}
<1>4. Due(l, expiry, now) = fired
  <2>1. Chain(l, s, n, T) /\ Blank(l, T) /\ Expired(expiry, s, n, now, m)
    BY <1>1, <1>2, <1>3 DEF Expired
  <2> QED BY <2>1, DueFound
<1>5. /\ fired \subseteq T /\ S = T \ fired
      /\ \A i \in 1 .. n : s[i] \in fired <=> i <= m
  BY <1>2, <1>3
<1> HIDE DEF fired, S
<1> DEFINE first == IF m = n THEN NULL ELSE s[m + 1]
           k == IF first = NULL THEN [l EXCEPT !.head = first]
                ELSE [[l EXCEPT !.head = first] EXCEPT !.prev[first] = NULL]
           d == Deleted(k, fired)
           w == Behind(s, n, m)
<1>6. FirstLeft(l, fired) = first
  BY <1>1, <1>5, FirstLeftFound
<1>7. Ticked(l, expiry, now) = d
  <2> HIDE DEF first
  <2> QED BY <1>4, <1>6, Zenon DEF Ticked
<1>8. /\ m # n => m + 1 \in 1 .. n /\ s[m + 1] \in S
      /\ first \in Pointers /\ (first = NULL <=> m = n)
  <2>1. m # n => m + 1 \in 1 .. n /\ ~ (m + 1 <= m)
    BY <1>2
  <2>2. m # n => s[m + 1] \in T /\ s[m + 1] \notin fired /\ s[m + 1] \in Cells
    BY <1>2, <1>5, <2>1
  <2> QED BY <1>5, <2>1, <2>2 DEF Pointers
<1>9. /\ k \in Lists /\ k.head = first /\ k.tail = l.tail /\ k.next = l.next
      /\ \A c \in Cells : k.prev[c] = IF c = first THEN NULL ELSE l.prev[c]
  <2> HIDE DEF first
  <2>1. /\ l = [head |-> l.head, tail |-> l.tail, prev |-> l.prev, next |-> l.next]
        /\ l.prev \in [Cells -> Pointers] /\ l.next \in [Cells -> Pointers]
        /\ l.head \in Pointers /\ l.tail \in Pointers
    BY <1>2, ListParts
  <2>2. CASE first = NULL
    <3>1. k = [head |-> first, tail |-> l.tail, prev |-> l.prev, next |-> l.next]
      BY <2>1, <2>2
    <3> HIDE DEF k
    <3>2. k \in Lists
      BY <1>8, <2>1, <3>1 DEF Lists
    <3> QED BY <2>2, <3>1, <3>2
  <2>3. CASE first # NULL
    <3>1. k = [head |-> first, tail |-> l.tail, prev |-> [l.prev EXCEPT ![first] = NULL], next |-> l.next]
      BY <2>1, <2>3
    <3> HIDE DEF k
    <3>2. k \in Lists
      BY <1>8, <2>1, <3>1 DEF Lists, Pointers
    <3> QED BY <2>1, <2>3, <3>1, <3>2
  <2> QED BY <2>2, <2>3
<1> HIDE DEF first, k
<1>10. /\ d \in Lists /\ d.head = k.head /\ d.tail = k.tail
       /\ \A c \in Cells : /\ d.prev[c] = IF c \in fired THEN NULL ELSE k.prev[c]
                           /\ d.next[c] = IF c \in fired THEN NULL ELSE k.next[c]
  BY <1>9, DeletedFields
<1> HIDE DEF d
<1>11. \A i \in 1 .. n - m : /\ w[i] = s[i + m] /\ i + m \in 1 .. n /\ ~ (i + m <= m)
                            /\ s[i + m] \in S /\ s[i + m] \notin fired /\ s[i + m] \in Cells
  <2> SUFFICES ASSUME NEW i \in 1 .. n - m
               PROVE  /\ w[i] = s[i + m] /\ i + m \in 1 .. n /\ ~ (i + m <= m)
                      /\ s[i + m] \in S /\ s[i + m] \notin fired /\ s[i + m] \in Cells
    OBVIOUS
  <2>1. w[i] = s[i + m]
    BY DEF Behind
  <2>2. i + m \in 1 .. n /\ ~ (i + m <= m)
    BY <1>2
  <2>3. s[i + m] \in T /\ s[i + m] \in Cells /\ s[i + m] \notin fired
    BY <1>2, <1>5, <2>2
  <2> QED BY <1>5, <2>1, <2>2, <2>3
<1>12. Row(w, n - m, S)
  <2>1. n - m \in Nat
    BY <1>2
  <2>2. w \in [1 .. n - m -> S]
    BY <1>11 DEF Behind
  <2>3. ASSUME NEW c \in S
        PROVE  \E i \in 1 .. n - m : c = w[i]
    <3>1. PICK i \in 1 .. n : c = s[i]
      BY <1>2, <1>5
    <3>2. ~ (i <= m)
      BY <1>5, <2>3, <3>1
    <3>3. i - m \in 1 .. n - m /\ (i - m) + m = i
      BY <1>2, <3>2
    <3>4. w[i - m] = s[i]
      BY <1>11, <3>3
    <3> QED BY <3>1, <3>3, <3>4
  <2>4. ASSUME NEW i \in 1 .. n - m, NEW h \in 1 .. n - m, w[i] = w[h]
        PROVE  i = h
    <3>1. i + m = h + m
      BY <1>2, <1>11, <2>4
    <3> QED BY <1>2, <3>1
  <2> QED BY <2>1, <2>2, <2>3, <2>4 DEF Row
<1> HIDE DEF w
<1>13. Ordered(expiry, w, n - m)
  <2> SUFFICES ASSUME NEW i \in 1 .. n - m, NEW h \in 1 .. n - m, i <= h
               PROVE  expiry[w[i]] <= expiry[w[h]]
    BY DEF Ordered
  <2>1. i + m <= h + m
    BY <1>2
  <2> QED BY <1>1, <1>11, <2>1 DEF Ordered
<1>14. Links(d, w, n - m)
  <2>1. n - m = 0 => m = n
    BY <1>2
  <2>2. ASSUME n - m > 0
        PROVE  /\ d.head = w[1] /\ d.prev[w[1]] = NULL
               /\ d.tail = w[n - m] /\ d.next[w[n - m]] = NULL
    <3>1. /\ m # n /\ 1 \in 1 .. n - m /\ n - m \in 1 .. n - m /\ 1 + m = m + 1 /\ (n - m) + m = n
      BY <1>2, <2>2
    <3>2. w[1] = first /\ w[n - m] = s[n] /\ first \in Cells /\ s[n] \in Cells
          /\ first \notin fired /\ s[n] \notin fired
      BY <1>11, <3>1 DEF first
    <3>3. l.tail = s[n] /\ l.next[s[n]] = NULL
      BY <1>2, <2>2 DEF Links
    <3> QED BY <1>9, <1>10, <3>2, <3>3
  <2>3. ASSUME NEW i \in 1 .. (n - m) - 1
        PROVE  d.next[w[i]] = w[i + 1] /\ d.prev[w[i + 1]] = w[i]
    <3>1. /\ i \in 1 .. n - m /\ i + 1 \in 1 .. n - m /\ (i + 1) + m = (i + m) + 1
          /\ i + m \in 1 .. n - 1 /\ m + 1 \in 1 .. n /\ (i + 1) + m # m + 1 /\ m # n
      BY <1>2
    <3>2. /\ w[i] = s[i + m] /\ w[i + 1] = s[(i + m) + 1] /\ w[i] \in Cells /\ w[i + 1] \in Cells
          /\ w[i] \notin fired /\ w[i + 1] \notin fired /\ (i + m) + 1 \in 1 .. n
      BY <1>11, <3>1
    <3>3. l.next[w[i]] = w[i + 1] /\ l.prev[w[i + 1]] = w[i]
      <4>1. \A j \in 1 .. n - 1 : l.next[s[j]] = s[j + 1] /\ l.prev[s[j + 1]] = s[j]
        BY <1>2 DEF Links
      <4> QED BY <3>1, <3>2, <4>1
    <3>4. w[i + 1] # first
      BY <1>2, <3>1, <3>2 DEF first
    <3> QED BY <1>9, <1>10, <3>2, <3>3, <3>4
  <2>4. n - m = 0 => d.head = NULL
    BY <1>8, <1>9, <1>10, <2>1
  <2> QED BY <2>2, <2>3, <2>4 DEF Links
<1>15. Chain(d, w, n - m, S) /\ S \subseteq Cells
  BY <1>5, <1>10, <1>12, <1>14 DEF Chain
<1>16. IsSorted(d, expiry, S)
  BY <1>13, <1>15, RowSorted
<1>17. Blank(d, S)
  BY <1>2, <1>5, <1>9, <1>10 DEF Blank
<1> QED BY <1>4, <1>7, <1>10, <1>16, <1>17 DEF InOrder, fired, S

\* A list stays in order when expiries change and their order does not.
LEMMA SameOrder ==
    ASSUME NEW l, NEW old \in [Cells -> Nat], NEW T \in SUBSET Cells, InOrder(l, old, T),
           NEW expiry \in [Cells -> Nat],
           \A c, d \in T : old[c] <= old[d] => expiry[c] <= expiry[d]
    PROVE  InOrder(l, expiry, T)
<1>1. PICK n, s : Chain(l, s, n, T) /\ Ordered(old, s, n)
  BY RowOf
<1>2. Ordered(expiry, s, n)
  <2> SUFFICES ASSUME NEW i \in 1 .. n, NEW j \in 1 .. n, i <= j
               PROVE  expiry[s[i]] <= expiry[s[j]]
    BY DEF Ordered
  <2>1. s[i] \in T /\ s[j] \in T
    BY <1>1 DEF Chain, Row
  <2> QED BY <1>1, <2>1 DEF Ordered
<1>3. IsSorted(l, expiry, T)
  BY <1>1, <1>2, RowSorted
<1> QED BY <1>3 DEF InOrder

-----------------------------------------------------------------------------
(* The server *)

USE IdleServerAssumption DEF IdleServerAssumption

\* The types of what the properties speak of.
Types ==
    /\ open \subseteq Fds /\ backlog \in Nat /\ gone \subseteq open
    /\ edge \subseteq Events /\ batch \subseteq Events
    /\ inbox \in [Fds -> {"none", "some", "much"}]
    /\ timer \in [Fds -> Pointers] /\ owner \in [Cells -> Fds \cup {NULL}]

\* close takes a descriptor out of the epoll set.
EdgesOpen == edge \cap Fds \subseteq open

\* What tells the time, and where the server is.
Times == alarm \in 0 .. Slot /\ expire \in [Cells -> 0 .. Timeout]
Flags ==
    /\ signals \subseteq {"ALRM", "TERM"} /\ pc \in {"wait", "events", "stopped"}
    /\ timeout \in BOOLEAN /\ stop \in BOOLEAN
Clock == Times /\ Flags

\* The list is one of the timers that were not deleted.
TimersInOrder == InOrder(list, expire, Live)

Matched == Types /\ EdgesOpen /\ TimersMatch /\ EventsHold
IdleInv == Matched /\ Clock /\ TimersInOrder

\* The server before its first epoll_wait (nonactive_conn.cpp lines 127-146).
LEMMA IdleInvInit == Init => IdleInv
<1> SUFFICES ASSUME Init PROVE IdleInv
  OBVIOUS
<1>1. Types /\ EdgesOpen
  BY DEF Init, Types, EdgesOpen, Pointers
<1>2. TimersMatch /\ EventsHold
  BY DEF Init, TimersMatch, EventsHold, Live
<1>3. Clock
  <2>1. Times
    BY DEF Init, Times
  <2>2. Flags
    BY DEF Init, Flags
  <2> QED BY <2>1, <2>2 DEF Clock
<1>4. TimersInOrder
  <2>1. Live = {} /\ list = EmptyList
    BY DEF Init, Live
  <2>2. list \in Lists /\ Blank(list, {})
    BY <2>1 DEF EmptyList, Lists, Pointers, Blank
  <2>3. Chain(list, <<>>, 0, {})
    <3>1. Row(<<>>, 0, {}) 
      BY DEF Row
    <3> QED BY <2>1, <2>2, <3>1 DEF Chain, Links, EmptyList
  <2>4. IsSorted(list, expire, {})
    BY <2>3, RowSorted DEF Ordered
  <2> QED BY <2>1, <2>2, <2>4 DEF TimersInOrder, InOrder
<1> QED BY <1>1, <1>2, <1>3, <1>4 DEF IdleInv, Matched

\* What leaves connections and timers alone, and takes events away or adds those of
\* open connections and of signals.
LEMMA NothingClosed ==
    ASSUME Matched, UNCHANGED <<open, timer, owner>>,
           gone' \subseteq open, inbox' \in [Fds -> {"none", "some", "much"}],
           backlog' \in Nat, backlog' >= backlog,
           batch' \subseteq batch, edge' \subseteq edge \cup open \cup {"pipe"}
    PROVE  Matched'
<1> USE DEF Matched
<1>1. Types'
  BY DEF Types, Events
<1>2. EdgesOpen' /\ TimersMatch'
  BY DEF Types, EdgesOpen, TimersMatch, Live
<1>3. "listen" \notin open
  BY DEF Types
<1>4. EventsHold'
  BY <1>3 DEF EventsHold, Types
<1> QED BY <1>1, <1>2, <1>4

\* Peers, signals and time.
LEMMA PeerStep ==
    ASSUME Matched, Environment \/ Pass
    PROVE  Matched'
<1> USE DEF Matched
<1>1. ASSUME Connect
      PROVE  Matched'
  <2>1. /\ backlog' = backlog + 1 /\ edge' = edge \cup {"listen"}
        /\ UNCHANGED <<open, inbox, gone, batch, timer, owner>>
    BY <1>1 DEF Connect, timers
  <2>2. Types' /\ EdgesOpen' /\ TimersMatch'
    BY <2>1 DEF Types, Events, EdgesOpen, TimersMatch, Live
  <2>3. EventsHold'
    BY <2>1 DEF Types, EventsHold
  <2> QED BY <2>2, <2>3
<1>2. ASSUME NEW f \in Fds, PeerSends(f)
      PROVE  Matched'
  BY <1>2, NothingClosed DEF PeerSends, timers, Types
<1>3. ASSUME NEW f \in Fds, PeerLeaves(f)
      PROVE  Matched'
  BY <1>3, NothingClosed DEF PeerLeaves, timers, Types
<1>4. ASSUME Terminate
      PROVE  Matched'
  BY <1>4, NothingClosed DEF Terminate, Signal, peers, timers, Types
<1>5. ASSUME Pass
      PROVE  Matched'
  BY <1>5, NothingClosed DEF Pass, Signal, peers, Types
<1> QED BY <1>1, <1>2, <1>3, <1>4, <1>5 DEF Environment

\* Closing the descriptors of some timers, and deleting these, keeps the rest matched.
LEMMA Closed ==
    ASSUME Matched, NEW T, Close({owner[c] : c \in T}, T), UNCHANGED timer,
           T \subseteq Live
    PROVE  TimersMatch' /\ EdgesOpen'
<1> DEFINE F == {owner[c] : c \in T}
<1>1. /\ open' = open \ F /\ edge' = edge \ F
      /\ owner' = [c \in Cells |-> IF c \in T THEN NULL ELSE owner[c]]
  BY DEF Close, Dropped
<1>2. \A f \in open' : f \in Fds /\ timer[f] \in Cells /\ owner[timer[f]] = f /\ timer[f] \notin T
  BY <1>1 DEF Matched, TimersMatch, Types
<1>3. \A f \in open' : timer'[f] \in Cells /\ owner'[timer'[f]] = f
  BY <1>1, <1>2
<1>4. ASSUME NEW c \in Live'
      PROVE  owner'[c] \in open' /\ timer'[owner'[c]] = c
  <2>1. c \in Cells /\ c \notin T /\ c \in Live /\ owner'[c] = owner[c]
    BY <1>1, <1>4 DEF Live
  <2>2. owner[c] \in open /\ timer[owner[c]] = c
    BY <2>1 DEF Matched, TimersMatch
  <2>3. owner[c] \notin F
    <3> SUFFICES ASSUME NEW d \in T, owner[d] = owner[c] PROVE FALSE
      OBVIOUS
    <3>1. timer[owner[d]] = d
      BY DEF Matched, TimersMatch
    <3> QED BY <2>1, <2>2, <3>1
  <2> QED BY <1>1, <2>1, <2>2, <2>3
<1>5. EdgesOpen'
  BY <1>1 DEF Matched, EdgesOpen
<1> QED BY <1>3, <1>4, <1>5 DEF TimersMatch

\* tick fires the timers that no time is left of.
LEMMA TickFires ==
    ASSUME Clock, TimersInOrder
    PROVE  /\ Due(list, expire, 0) = {c \in Live : expire[c] <= 0}
           /\ InOrder(Ticked(list, expire, 0), expire, {c \in Live : expire[c] > 0})
<1>1. /\ InOrder(list, expire, Live) /\ Live \in SUBSET Cells /\ expire \in [Cells -> Nat]
  BY DEF TimersInOrder, Clock, Times, Live
<1>2. \A now \in Nat :
         /\ Due(list, expire, now) = {c \in Live : expire[c] <= now}
         /\ InOrder(Ticked(list, expire, now), expire, {c \in Live : expire[c] > now})
  BY <1>1, TickSorts
<1> QED BY <1>2

\* The turn of the loop (lines 147-272).
LEMMA ServerStep ==
    ASSUME IdleInv, Server
    PROVE  Matched'
<1> USE DEF IdleInv, Matched
<1>1. ASSUME EpollWait
      PROVE  Matched'
  <2>1. batch' = edge /\ edge' = {} /\ UNCHANGED <<open, backlog, inbox, gone, timer, owner>>
    BY <1>1 DEF EpollWait, peers, timers
  <2>2. Types' /\ EdgesOpen' /\ TimersMatch'
    BY <2>1 DEF Types, EdgesOpen, TimersMatch, Live
  <2> QED BY <2>1, <2>2 DEF EdgesOpen, EventsHold
<1>2. ASSUME NEW f \in Fds, NEW c \in Cells, Accept(f, c)
      PROVE  Matched'
  <2>1. /\ "listen" \in batch /\ batch' = batch \ {"listen"} /\ f \notin open /\ owner[c] = NULL
        /\ backlog' = backlog - 1 /\ open' = open \cup {f}
        /\ \E data \in {"none", "some", "much"} : inbox' = [inbox EXCEPT ![f] = data]
        /\ gone' \in {gone, gone \cup {f}} /\ edge' \in {edge, edge \cup {f}}
        /\ timer' = [timer EXCEPT ![f] = c] /\ owner' = [owner EXCEPT ![c] = f]
    BY <1>2 DEF Accept, Handle, Taken, Live
  <2>2. backlog >= 1 /\ ("listen" \in edge => backlog >= 2) /\ f # "listen" /\ f # NULL
    BY <2>1 DEF EventsHold
  <2>3. Types'
    BY <2>1, <2>2 DEF Types, Events, Pointers
  <2>4. EdgesOpen' /\ EventsHold'
    BY <2>1, <2>2 DEF Types, EdgesOpen, EventsHold
  <2>5. TimersMatch'
    <3>1. \A g \in open : g # f /\ g \in Fds /\ timer[g] # c
      BY <2>1, <2>2 DEF TimersMatch, Types
    <3>2. \A g \in open' : timer'[g] \in Cells /\ owner'[timer'[g]] = g
      BY <2>1, <3>1 DEF TimersMatch, Types
    <3>3. \A d \in Live' : owner'[d] \in open' /\ timer'[owner'[d]] = d
      BY <2>1, <2>2, <3>1 DEF TimersMatch, Types, Live
    <3> QED BY <3>2, <3>3 DEF TimersMatch
  <2> QED BY <2>3, <2>4, <2>5
<1>3. ASSUME ReadSignals \/ NoTick
      PROVE  Matched'
  BY <1>3, NothingClosed DEF ReadSignals, NoTick, Handle, peers, timers, Types
<1>4. ASSUME NEW f \in Fds, RecvNothing(f)
      PROVE  Matched'
  BY <1>4, NothingClosed DEF RecvNothing, Handle, peers, timers, Types
<1>5. ASSUME NEW f \in Fds, RecvData(f)
      PROVE  Matched'
  BY <1>5, NothingClosed DEF RecvData, Handle, Types
<1>6. ASSUME NEW f \in Fds, RecvEnds(f)
      PROVE  Matched'
  <2>1. f \in batch /\ f \in open /\ timer[f] \in Live /\ owner[timer[f]] = f
    BY <1>6 DEF RecvEnds, Handle, EventsHold, TimersMatch, Live
  <2>2. /\ Close({owner[c] : c \in {timer[f]}}, {timer[f]})
        /\ batch' = batch \ {f} /\ UNCHANGED <<backlog, timer>>
    BY <1>6, <2>1 DEF RecvEnds, Handle
  <2>3. TimersMatch' /\ EdgesOpen'
    BY <2>1, <2>2, Closed
  <2>4. /\ open' = open \ {f} /\ gone' = gone \ {f} /\ edge' = edge \ {f}
        /\ inbox' = [g \in Fds |-> IF g \in {f} THEN "none" ELSE inbox[g]]
        /\ owner' = [c \in Cells |-> IF c \in {timer[f]} THEN NULL ELSE owner[c]]
    BY <1>6 DEF RecvEnds, Close, Dropped
  <2>5. Types' /\ EventsHold'
    BY <2>2, <2>4 DEF Types, EventsHold
  <2> QED BY <2>3, <2>5
<1>7. ASSUME Tick
      PROVE  Matched'
  <2> DEFINE T == Due(list, expire, 0)
             F == {owner[c] : c \in T}
  <2>1. T \subseteq Live
    BY TickFires
  <2>2. Close(F, T) /\ batch = {} /\ batch' = {} /\ UNCHANGED <<backlog, timer>>
    BY <1>7 DEF Tick
  <2> HIDE DEF T
  <2>3. TimersMatch' /\ EdgesOpen'
    BY <2>1, <2>2, Closed
  <2>4. /\ open' = open \ F /\ gone' = gone \ F /\ edge' = edge \ F
        /\ inbox' = [g \in Fds |-> IF g \in F THEN "none" ELSE inbox[g]]
        /\ owner' = [c \in Cells |-> IF c \in T THEN NULL ELSE owner[c]]
    BY <2>2 DEF Close, Dropped
  <2> HIDE DEF F
  <2>5. Types' /\ EventsHold'
    BY <2>2, <2>4 DEF Types, EventsHold
  <2> QED BY <2>3, <2>5
<1> QED BY <1>1, <1>2, <1>3, <1>4, <1>5, <1>6, <1>7 DEF Server

\* The alarm, the signals and the expiries keep their types.
LEMMA ClockStep ==
    ASSUME Clock, Next
    PROVE  Clock'
<1> USE DEF Clock
<1>1. Times'
  <2>1. alarm' \in {alarm, Less(alarm), Slot}
    BY DEF Next, Environment, Server, Connect, Terminate, PeerSends, PeerLeaves, Pass, EpollWait,
           ReadSignals, NoTick, Tick, SetAlarm, RecvNothing, RecvEnds, RecvData, Accept
  <2>2. \/ expire' = expire
        \/ expire' = [c \in Cells |-> Less(expire[c])]
        \/ \E c : expire' = [expire EXCEPT ![c] = Timeout]
    BY Zenon DEF Next, Environment, Server, Connect, Terminate, PeerSends, PeerLeaves, Pass,
           EpollWait, ReadSignals, NoTick, Tick, RecvNothing, RecvEnds, RecvData, Accept, timers
  <2>3. \A n \in Nat : \A i \in 0 .. n : Less(i) \in 0 .. n
    BY DEF Less
  <2>4. alarm' \in 0 .. Slot
    BY <2>1, <2>3 DEF Times
  <2>5. expire' \in [Cells -> 0 .. Timeout]
    <3>1. CASE expire' = expire
      BY <3>1 DEF Times
    <3>2. CASE expire' = [c \in Cells |-> Less(expire[c])]
      BY <2>3, <3>2 DEF Times
    <3>3. CASE \E c : expire' = [expire EXCEPT ![c] = Timeout]
      <4>1. Timeout \in 0 .. Timeout
        OBVIOUS
      <4> QED BY <3>3, <4>1 DEF Times
    <3> QED BY <2>2, <3>1, <3>2, <3>3
  <2> QED BY <2>4, <2>5 DEF Times
<1>2. Flags'
  BY DEF Flags, Next, Environment, Server, Connect, Terminate, PeerSends, PeerLeaves, Pass, Signal,
         EpollWait, ReadSignals, NoTick, Tick, Proceed, RecvNothing, RecvEnds, RecvData, Accept, control
<1> QED BY <1>1, <1>2

\* Each step leaves the timers that were not deleted in the order of their expiry: time
\* passes for all of them, and add_timer, adjust_timer, del_timer and tick are called as
\* the list allows.
LEMMA OrderStep ==
    ASSUME IdleInv, Next
    PROVE  TimersInOrder'
<1>1. /\ InOrder(list, expire, Live) /\ Live \in SUBSET Cells
      /\ expire \in [Cells -> Nat] /\ expire \in [Cells -> 0 .. Timeout]
  BY DEF IdleInv, TimersInOrder, Clock, Times, Live
<1>2. expire' \in [Cells -> Nat]
  BY ClockStep DEF IdleInv, Clock, Times
<1>3. CASE UNCHANGED timers
  BY <1>1, <1>3 DEF timers, TimersInOrder, Live
<1>4. CASE Pass
  <2>1. UNCHANGED <<list, Live>> /\ expire' = [c \in Cells |-> Less(expire[c])]
    BY <1>4 DEF Pass, Live
  <2>2. \A c, d \in Cells : expire[c] <= expire[d] => expire'[c] <= expire'[d]
    BY <1>1, <2>1 DEF Less
  <2>3. InOrder(list, expire', Live)
    BY <1>1, <1>2, <2>2, SameOrder
  <2> QED BY <2>1, <2>3 DEF TimersInOrder
<1>5. ASSUME NEW f \in Fds, NEW c \in Cells, Accept(f, c)
      PROVE  TimersInOrder'
  <2>1. /\ owner[c] = NULL /\ owner' = [owner EXCEPT ![c] = f]
        /\ expire' = [expire EXCEPT ![c] = Timeout] /\ list' = AddTimer(list, expire', c)
    BY <1>5 DEF Accept, Live
  <2>2. c \in Cells \ Live /\ Live' = Live \cup {c}
    BY <2>1 DEF Live, IdleInv, Matched, Types
  <2>3. \A d \in Live : expire'[d] = expire[d]
    BY <1>1, <2>1, <2>2
  <2>4. InOrder(list, expire', Live)
    BY <1>1, <1>2, <2>3, SameOrder
  <2>5. InOrder(list', expire', Live \cup {c})
    BY <1>1, <1>2, <2>1, <2>2, <2>4, AddTimerSorts
  <2> QED BY <2>2, <2>5 DEF TimersInOrder
<1>6. ASSUME NEW f \in Fds, RecvData(f)
      PROVE  TimersInOrder'
  <2>1. timer[f] \in Live
    BY <1>6 DEF RecvData, Handle, IdleInv, Matched, EventsHold, TimersMatch, Live
  <2>2. /\ UNCHANGED Live /\ expire' = [expire EXCEPT ![timer[f]] = Timeout]
        /\ list' = AdjustTimer(list, expire', timer[f])
    BY <1>6 DEF RecvData, Adjusted, Live
  <2>3. /\ \A d \in Live \ {timer[f]} : expire'[d] = expire[d]
        /\ expire[timer[f]] <= expire'[timer[f]]
    BY <1>1, <2>1, <2>2
  <2> DEFINE t == timer[f]
  <2> HIDE DEF t
  <2>4. InOrder(AdjustTimer(list, expire', t), expire', Live)
    BY <1>1, <1>2, <2>1, <2>3, AdjustTimerSorts DEF t
  <2> QED BY <2>2, <2>4 DEF TimersInOrder, t
<1>7. ASSUME NEW f \in Fds, RecvEnds(f)
      PROVE  TimersInOrder'
  <2>1. timer[f] \in Live
    BY <1>7 DEF RecvEnds, Handle, IdleInv, Matched, EventsHold, TimersMatch, Live
  <2>2. /\ owner' = [c \in Cells |-> IF c \in {timer[f]} THEN NULL ELSE owner[c]]
        /\ UNCHANGED expire /\ list' = DelTimer(list, timer[f])
    BY <1>7 DEF RecvEnds, Close
  <2>3. Live' = Live \ {timer[f]}
    BY <2>2 DEF Live
  <2>4. InOrder(list', expire, Live \ {timer[f]})
    BY <1>1, <2>1, <2>2, DelTimerSorts
  <2> QED BY <2>2, <2>3, <2>4 DEF TimersInOrder
<1>8. CASE Tick
  <2> DEFINE T == Due(list, expire, 0)
  <2>1. /\ owner' = [c \in Cells |-> IF c \in T THEN NULL ELSE owner[c]]
        /\ UNCHANGED expire /\ list' = Ticked(list, expire, 0)
    BY <1>8 DEF Tick, Close
  <2>2. T = {c \in Live : expire[c] <= 0}
        /\ InOrder(Ticked(list, expire, 0), expire, {c \in Live : expire[c] > 0})
    BY TickFires DEF IdleInv
  <2> HIDE DEF T
  <2>3. Live' = {c \in Live : expire[c] > 0}
    <3>1. Live' = Live \ T
      BY <2>1 DEF Live
    <3> QED BY <1>1, <2>2, <3>1
  <2> QED BY <2>1, <2>2, <2>3 DEF TimersInOrder
<1> QED
  BY <1>3, <1>4, <1>5, <1>6, <1>7, <1>8
  DEF Next, Environment, Server, Connect, Terminate, PeerSends, PeerLeaves, EpollWait,
      ReadSignals, NoTick, RecvNothing

\* Every step keeps the invariant.
LEMMA IdleInvStep ==
    ASSUME IdleInv, [Next]_vars
    PROVE  IdleInv'
<1>1. CASE UNCHANGED vars
  <2>1. Matched'
    BY <1>1, NothingClosed DEF vars, peers, timers, IdleInv, Matched, Types
  <2>2. Clock' /\ TimersInOrder'
    BY <1>1 DEF vars, control, timers, IdleInv, Clock, Times, Flags, TimersInOrder, Live
  <2> QED BY <2>1, <2>2 DEF IdleInv
<1>2. CASE Next
  <2>1. Matched'
    BY <1>2, PeerStep, ServerStep DEF Next, IdleInv
  <2> QED BY <1>2, <2>1, ClockStep, OrderStep DEF IdleInv
<1> QED BY <1>1, <1>2

\* So it always holds.
LEMMA IdleInvAlways == Spec => []IdleInv
BY IdleInvInit, IdleInvStep, PTL DEF Spec

-----------------------------------------------------------------------------
(* Theorems *)

\* Every variable keeps its type; the time left of a timer is at most 3 * TIMESLOT, and
\* no descriptor is known to have gone that is not open (lines 60-272).
THEOREM ServerTyped == Spec => []TypeOK
<1>1. IdleInv => TypeOK
  BY DEF IdleInv, Matched, Types, Clock, Times, Flags, TimersInOrder, InOrder, TypeOK
<1> QED BY <1>1, IdleInvAlways, PTL

\* Every open connection has a timer of its own in the list, and no other timer is left,
\* however descriptors and timers are used again (lines 166-178, 222-254).
THEOREM ConnectionsTimed == Spec => []TimersMatch
BY IdleInvAlways, PTL DEF IdleInv, Matched

\* Every event of a batch finds the connection it is about (lines 156-165, 217-220).
THEOREM EventsFind == Spec => []EventsHold
BY IdleInvAlways, PTL DEF IdleInv, Matched

\* The list links the timers that were not deleted in the order of their expiry, and
\* adding, moving, deleting any of them and a tick at any time would keep it so
\* (lst_timer.h lines 85-278).
THEOREM ListStaysInOrder == Spec => []ListInOrder
<1>1. ASSUME IdleInv
      PROVE  ListInOrder
  <2> DEFINE With1(c, e) == [expire EXCEPT ![c] = e]
  <2>1. /\ InOrder(list, expire, Live) /\ Live \in SUBSET Cells /\ expire \in [Cells -> Nat]
    BY <1>1 DEF IdleInv, TimersInOrder, Clock, Times, Live
  <2>2. IsSorted(list, expire, Live)
    BY <2>1 DEF InOrder
  <2>3. ASSUME NEW c \in Live
        PROVE  IsSorted(DelTimer(list, c), expire, Live \ {c})
    BY <2>1, DelTimerSorts DEF InOrder
  <2>4. ASSUME NEW e \in 0 .. Timeout
        PROVE  /\ \A c \in Cells \ Live :
                      IsSorted(AddTimer(list, With1(c, e), c), With1(c, e), Live \cup {c})
               /\ \A c \in Live : e >= expire[c] =>
                      IsSorted(AdjustTimer(list, With1(c, e), c), With1(c, e), Live)
               /\ Due(list, expire, e) = {c \in Live : expire[c] <= e}
               /\ IsSorted(Ticked(list, expire, e), expire, {c \in Live : expire[c] > e})
    <3>1. e \in Nat
      OBVIOUS
    <3>2. ASSUME NEW c \in Cells
          PROVE  /\ With1(c, e) \in [Cells -> Nat]
                 /\ \A d \in Cells : With1(c, e)[d] = IF d = c THEN e ELSE expire[d]
      BY <2>1, <3>1
    <3> HIDE DEF With1
    <3>3. ASSUME NEW c \in Cells \ Live
          PROVE  IsSorted(AddTimer(list, With1(c, e), c), With1(c, e), Live \cup {c})
      <4>1. InOrder(list, With1(c, e), Live)
        BY <2>1, <3>2, SameOrder
      <4> QED BY <2>1, <3>2, <4>1, AddTimerSorts DEF InOrder
    <3>4. ASSUME NEW c \in Live, e >= expire[c]
          PROVE  IsSorted(AdjustTimer(list, With1(c, e), c), With1(c, e), Live)
      <4>1. expire[c] <= With1(c, e)[c]
        BY <2>1, <3>2, <3>4
      <4>2. InOrder(AdjustTimer(list, With1(c, e), c), With1(c, e), Live)
        BY <2>1, <3>2, <4>1, AdjustTimerSorts
      <4> QED BY <4>2 DEF InOrder
    <3>5. /\ Due(list, expire, e) = {c \in Live : expire[c] <= e}
          /\ IsSorted(Ticked(list, expire, e), expire, {c \in Live : expire[c] > e})
      BY <2>1, <3>1, TickSorts DEF InOrder
    <3> QED BY <3>3, <3>4, <3>5
  <2> QED BY <2>2, <2>3, <2>4, Zenon DEF ListInOrder
<1> QED BY <1>1, IdleInvAlways, PTL
=============================================================================
