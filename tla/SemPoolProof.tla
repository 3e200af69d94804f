----------------------------- MODULE SemPoolProof -----------------------------
(***************************************************************************)
(* What holds of SemPool for any finite sets of workers and clients, any   *)
(* requests and any maximum of at least one.                               *)
(***************************************************************************)
EXTENDS SemPool, FiniteSetTheorems, TLAPS

USE SemPoolAssumption DEF SemPoolAssumption

Threads == Workers \cup Clients
Posting == {c \in Clients : pc[c] = "post"}
Popping == {w \in Workers : pc[w] = "pop"}

\* A token for every request, in the words of the two sets.
Tokens == Len(workqueue) <= tokens + Cardinality(Posting) + Cardinality(Popping)

StopPlaces == {"stopTest", "stopWait", "setStop", "stopPost", "stopped", "deleted"}

\* One client stops the pool when the others are done; it has seen the list empty, on
\* which nobody appends any more.
Stopping ==
    /\ \A c, d \in Clients : c # d /\ pc[c] \in StopPlaces => pc[d] = "idle"
    /\ \A c \in Clients : pc[c] \in {"setStop", "stopPost", "stopped", "deleted"}
                              => workqueue = << >>
    /\ \A c \in Clients : pc[c] \in {"stopped", "deleted"} => Joined

\* What append has been called with is in no other hand.
Offering ==
    \A c \in Clients : pc[c] = "append" =>
        /\ request[c] \in Requests /\ st[request[c]] = "offered"
        /\ \A d \in Clients : pc[d] = "append" /\ request[d] = request[c] => d = c

SemInv == TypeOK /\ Tokens /\ Offering /\ RequestInOneHand /\ Stopping

-----------------------------------------------------------------------------
LEMMA HandsFinite ==
    /\ IsFiniteSet(Posting) /\ Cardinality(Posting) \in Nat
    /\ IsFiniteSet(Popping) /\ Cardinality(Popping) \in Nat
BY FS_Subset, FS_CardinalityType DEF Posting, Popping

\* What becomes of the number of threads at a place when one comes or leaves.
LEMMA OneMore ==
    ASSUME NEW S, IsFiniteSet(S), NEW t, t \notin S
    PROVE  Cardinality(S \cup {t}) = Cardinality(S) + 1
BY FS_AddElement

LEMMA OneLess ==
    ASSUME NEW S, IsFiniteSet(S), NEW t \in S
    PROVE  Cardinality(S) = Cardinality(S \ {t}) + 1 /\ Cardinality(S \ {t}) \in Nat
<1>1. IsFiniteSet(S \ {t}) /\ S = (S \ {t}) \cup {t}
  BY FS_Subset
<1> QED BY <1>1, OneMore, FS_CardinalityType, Zenon

\* Where the threads are after one of them has gone from one place to the next.
LEMMA Moves ==
    ASSUME TypeOK, NEW t \in Threads, NEW l, Goto(t, l), l \in WorkerPlaces \cup ClientPlaces,
           t \in Workers => l \in WorkerPlaces, t \in Clients => l \in ClientPlaces
    PROVE  /\ \A u \in Threads : pc'[u] = IF u = t THEN l ELSE pc[u]
           /\ pc' \in [Workers \cup Clients -> WorkerPlaces \cup ClientPlaces]
           /\ \A w \in Workers : pc'[w] \in WorkerPlaces
           /\ \A c \in Clients : pc'[c] \in ClientPlaces
<1>1. /\ pc \in [Workers \cup Clients -> WorkerPlaces \cup ClientPlaces]
      /\ pc' = [pc EXCEPT ![t] = l] /\ t \in Workers \cup Clients
      /\ \A w \in Workers : pc[w] \in WorkerPlaces
      /\ \A c \in Clients : pc[c] \in ClientPlaces
  BY DEF TypeOK, Goto, Threads
<1>2. /\ \A u \in Threads : pc'[u] = IF u = t THEN l ELSE pc[u]
      /\ pc' \in [Workers \cup Clients -> WorkerPlaces \cup ClientPlaces]
  BY <1>1 DEF Threads
<1> QED BY <1>1, <1>2 DEF Threads

\* A step between two places that are no part of the count of tokens.
LEMMA Aside ==
    ASSUME TypeOK, NEW t \in Threads, NEW l,
           \A u \in Threads : pc'[u] = IF u = t THEN l ELSE pc[u],
           pc[t] \notin {"post", "pop"}, l \notin {"post", "pop"}
    PROVE  Posting' = Posting /\ Popping' = Popping
BY DEF Posting, Popping, Threads

LEMMA SemInvInit == Init => SemInv
<1> SUFFICES ASSUME Init PROVE SemInv
  OBVIOUS
<1>1. \A t \in Threads : pc[t] = IF t \in Workers THEN "test" ELSE "idle"
  BY DEF Init, Threads
<1>2. /\ pc \in [Workers \cup Clients -> WorkerPlaces \cup ClientPlaces]
      /\ \A w \in Workers : pc[w] \in WorkerPlaces
      /\ \A c \in Clients : pc[c] = "idle"
  BY <1>1 DEF Init, Threads, WorkerPlaces, ClientPlaces
<1>3. TypeOK
  <2>1. workqueue \in Seq(Requests) /\ emptyCond \subseteq Clients
    BY DEF Init
  <2>2. \A c \in Clients : pc[c] \in ClientPlaces
    BY <1>2 DEF ClientPlaces
  <2>3. /\ request \in [Workers \cup Clients -> Requests \cup {NoRequest}]
        /\ st \in [Requests -> {"new", "offered", "refused", "queued", "taken", "done"}]
    BY DEF Init
  <2> QED BY <1>2, <2>1, <2>2, <2>3 DEF Init, TypeOK
<1>4. Tokens
  BY <1>3, HandsFinite DEF Init, TypeOK, Tokens
<1>5. RequestInOneHand
  BY DEF Init, RequestInOneHand
<1>6. Stopping /\ Offering
  BY <1>2 DEF Stopping, StopPlaces, Offering
<1> QED BY <1>3, <1>4, <1>5, <1>6 DEF SemInv

-----------------------------------------------------------------------------
\* append (ThreadPool.h lines 99-113).
LEMMA AppendStep ==
    ASSUME SemInv, NEW c \in Clients,
           \/ \E r \in Requests : AppendCall(c, r)
           \/ AppendRefused(c) \/ AppendPush(c) \/ AppendPost(c)
    PROVE  SemInv'
<1> c \in Threads /\ c \notin Workers
  BY DEF Threads
<1>1. ASSUME NEW r \in Requests, AppendCall(c, r)
      PROVE  SemInv'
  <2>1. /\ \A u \in Threads : pc'[u] = IF u = c THEN "append" ELSE pc[u]
        /\ pc' \in [Workers \cup Clients -> WorkerPlaces \cup ClientPlaces]
        /\ \A w \in Workers : pc'[w] \in WorkerPlaces
        /\ \A d \in Clients : pc'[d] \in ClientPlaces
    BY <1>1, Moves DEF AppendCall, SemInv, ClientPlaces
  <2>2. Posting' = Posting /\ Popping' = Popping
    BY <1>1, <2>1, Aside DEF AppendCall, SemInv
  <2>3. TypeOK'
    BY <1>1, <2>1 DEF AppendCall, Holds, Mark, TypeOK, SemInv
  <2>4. Tokens'
    BY <1>1, <2>2 DEF AppendCall, Tokens, SemInv
  <2>5. Offering' /\ RequestInOneHand'
    BY <1>1, <2>1 DEF AppendCall, Holds, Mark, TypeOK, SemInv, Offering, RequestInOneHand, Threads
  <2>6. Stopping'
    BY <1>1, <2>1 DEF AppendCall, SemInv, Stopping, StopPlaces, Threads
  <2> QED BY <2>3, <2>4, <2>5, <2>6 DEF SemInv
<1>2. ASSUME AppendRefused(c)
      PROVE  SemInv'
  <2>1. /\ \A u \in Threads : pc'[u] = IF u = c THEN "idle" ELSE pc[u]
        /\ pc' \in [Workers \cup Clients -> WorkerPlaces \cup ClientPlaces]
        /\ \A w \in Workers : pc'[w] \in WorkerPlaces
        /\ \A d \in Clients : pc'[d] \in ClientPlaces
    BY <1>2, Moves DEF AppendRefused, SemInv, ClientPlaces
  <2>2. Posting' = Posting /\ Popping' = Popping
    BY <1>2, <2>1, Aside DEF AppendRefused, SemInv
  <2>3. TypeOK'
    BY <1>2, <2>1 DEF AppendRefused, Holds, Mark, TypeOK, SemInv
  <2>4. Tokens'
    BY <1>2, <2>2 DEF AppendRefused, Tokens, SemInv
  <2>5. Offering' /\ RequestInOneHand'
    BY <1>2, <2>1 DEF AppendRefused, Holds, Mark, TypeOK, SemInv, Offering, RequestInOneHand, Threads
  <2>6. Stopping'
    BY <1>2, <2>1 DEF AppendRefused, SemInv, Stopping, StopPlaces, Threads
  <2> QED BY <2>3, <2>4, <2>5, <2>6 DEF SemInv
<1>3. ASSUME AppendPush(c)
      PROVE  SemInv'
  <2> DEFINE r == request[c]
  <2>1. /\ \A u \in Threads : pc'[u] = IF u = c THEN "post" ELSE pc[u]
        /\ pc' \in [Workers \cup Clients -> WorkerPlaces \cup ClientPlaces]
        /\ \A w \in Workers : pc'[w] \in WorkerPlaces
        /\ \A d \in Clients : pc'[d] \in ClientPlaces
    BY <1>3, Moves DEF AppendPush, SemInv, ClientPlaces
  <2>2. Posting' = Posting \cup {c} /\ Popping' = Popping /\ c \notin Posting
    BY <1>3, <2>1 DEF AppendPush, Posting, Popping, Threads
  <2>3. /\ r \in Requests /\ workqueue \in Seq(Requests)
        /\ workqueue' = Append(workqueue, r) /\ Len(workqueue') = Len(workqueue) + 1
        /\ workqueue' \in Seq(Requests)
    BY <1>3 DEF AppendPush, SemInv, TypeOK, Offering
  <2>4. TypeOK'
    BY <1>3, <2>1, <2>3 DEF AppendPush, Mark, TypeOK, SemInv
  <2>5. Tokens'
    <3>1. Cardinality(Posting') = Cardinality(Posting) + 1
      BY <2>2, HandsFinite, OneMore
    <3> QED BY <1>3, <2>2, <2>3, <3>1, HandsFinite DEF AppendPush, Tokens, SemInv, TypeOK
  <2>6. \A q \in Requests : st'[q] = IF q = r THEN "queued" ELSE st[q]
    BY <1>3 DEF AppendPush, Mark, SemInv, TypeOK
  <2>7. Offering'
    <3>1. request' = request /\ \A d \in Clients : pc'[d] = "append" => pc[d] = "append" /\ d # c
      BY <1>3, <2>1 DEF AppendPush, Threads
    <3> QED BY <1>3, <2>6, <3>1 DEF AppendPush, SemInv, Offering
  <2>8. RequestInOneHand'
    <3>1. /\ st[r] = "offered"
          /\ \A i \in 1 .. Len(workqueue) : workqueue[i] # r /\ workqueue[i] \in Requests
      BY <1>3, <2>3 DEF AppendPush, SemInv, Offering, RequestInOneHand
    <3>2. /\ \A i \in 1 .. Len(workqueue) : workqueue'[i] = workqueue[i]
          /\ workqueue'[Len(workqueue) + 1] = r
      BY <2>3
    <3>3. \A i, k \in 1 .. Len(workqueue') : workqueue'[i] = workqueue'[k] => i = k
      <4> SUFFICES ASSUME NEW i \in 1 .. Len(workqueue'), NEW k \in 1 .. Len(workqueue'),
                          workqueue'[i] = workqueue'[k]
                   PROVE  i = k
        OBVIOUS
      <4>1. /\ i \in 1 .. Len(workqueue) \/ i = Len(workqueue) + 1
            /\ k \in 1 .. Len(workqueue) \/ k = Len(workqueue) + 1
        BY <2>3
      <4> QED BY <3>1, <3>2, <4>1 DEF SemInv, RequestInOneHand
    <3>4. request' = request /\ \A v \in Workers : pc'[v] = pc[v]
      BY <1>3, <2>1 DEF AppendPush, Threads
    <3>5. ASSUME NEW q \in Requests
          PROVE  st'[q] = "queued" <=> \E i \in 1 .. Len(workqueue') : workqueue'[i] = q
      <4>1. CASE q = r
        <5>1. Len(workqueue) + 1 \in 1 .. Len(workqueue')
          BY <2>3
        <5> QED BY <2>6, <3>2, <4>1, <5>1
      <4>2. CASE q # r
        <5>1. st'[q] = "queued" <=> \E i \in 1 .. Len(workqueue) : workqueue[i] = q
          BY <2>6, <4>2 DEF SemInv, RequestInOneHand
        <5>2. \A i \in 1 .. Len(workqueue') : i \in 1 .. Len(workqueue) \/ i = Len(workqueue) + 1
          BY <2>3
        <5>3. \A i \in 1 .. Len(workqueue) : i \in 1 .. Len(workqueue')
          BY <2>3
        <5> QED BY <3>2, <4>2, <5>1, <5>2, <5>3
      <4> QED BY <4>1, <4>2
    <3>6. \A q \in Requests :
            st'[q] = "taken" <=> \E v \in Workers : pc'[v] = "process" /\ request'[v] = q
      BY <2>6, <3>1, <3>4 DEF SemInv, RequestInOneHand
    <3> QED BY <3>3, <3>4, <3>5, <3>6 DEF SemInv, RequestInOneHand
  <2>9. Stopping'
    BY <1>3, <2>1 DEF AppendPush, SemInv, Stopping, StopPlaces, Threads
  <2> QED BY <2>4, <2>5, <2>7, <2>8, <2>9 DEF SemInv
<1>4. ASSUME AppendPost(c)
      PROVE  SemInv'
  <2>1. /\ \A u \in Threads : pc'[u] = IF u = c THEN "idle" ELSE pc[u]
        /\ pc' \in [Workers \cup Clients -> WorkerPlaces \cup ClientPlaces]
        /\ \A w \in Workers : pc'[w] \in WorkerPlaces
        /\ \A d \in Clients : pc'[d] \in ClientPlaces
    BY <1>4, Moves DEF AppendPost, SemInv, ClientPlaces
  <2>2. Posting' = Posting \ {c} /\ Popping' = Popping /\ c \in Posting
    BY <1>4, <2>1 DEF AppendPost, Posting, Popping, Threads
  <2>3. TypeOK'
    BY <1>4, <2>1 DEF AppendPost, Post, Holds, TypeOK, SemInv
  <2>4. Tokens'
    <3>1. Cardinality(Posting) = Cardinality(Posting') + 1 /\ Cardinality(Posting') \in Nat
      BY <2>2, HandsFinite, OneLess
    <3> QED BY <1>4, <2>2, <3>1, HandsFinite
            DEF AppendPost, Post, Tokens, SemInv, TypeOK
  <2>5. Offering' /\ RequestInOneHand'
    BY <1>4, <2>1 DEF AppendPost, Holds, TypeOK, SemInv, Offering, RequestInOneHand, Threads
  <2>6. Stopping'
    BY <1>4, <2>1 DEF AppendPost, SemInv, Stopping, StopPlaces, Threads
  <2> QED BY <2>3, <2>4, <2>5, <2>6 DEF SemInv
<1> QED BY <1>1, <1>2, <1>3, <1>4

-----------------------------------------------------------------------------
\* A worker (lines 150-178).
LEMMA WorkerSteps ==
    ASSUME SemInv, NEW w \in Workers, WorkerStep(w)
    PROVE  SemInv'
<1> w \in Threads /\ w \notin Clients
  BY DEF Threads
<1>1. ASSUME WorkerTest(w)
      PROVE  SemInv'
  <2>1. /\ \A u \in Threads : pc'[u] = IF u = w THEN (IF stop THEN "exited" ELSE "wait") ELSE pc[u]
        /\ pc' \in [Workers \cup Clients -> WorkerPlaces \cup ClientPlaces]
        /\ \A v \in Workers : pc'[v] \in WorkerPlaces
        /\ \A c \in Clients : pc'[c] \in ClientPlaces
    BY <1>1, Moves DEF WorkerTest, SemInv, WorkerPlaces
  <2>2. Posting' = Posting /\ Popping' = Popping
    BY <1>1, <2>1, Aside DEF WorkerTest, SemInv
  <2>3. TypeOK'
    BY <1>1, <2>1 DEF WorkerTest, TypeOK, SemInv
  <2>4. Tokens'
    BY <1>1, <2>2 DEF WorkerTest, Tokens, SemInv
  <2>5. Offering'
    BY <1>1, <2>1 DEF WorkerTest, SemInv, Offering, Threads
  <2>6. RequestInOneHand'
    <3>1. \A v \in Workers : pc'[v] = "process" <=> pc[v] = "process"
      BY <1>1, <2>1 DEF WorkerTest, Threads
    <3> QED BY <1>1, <3>1 DEF WorkerTest, SemInv, RequestInOneHand
  <2>7. Stopping'
    BY <1>1, <2>1 DEF WorkerTest, SemInv, Stopping, StopPlaces, Threads, Joined
  <2> QED BY <2>3, <2>4, <2>5, <2>6, <2>7 DEF SemInv
<1>2. ASSUME WorkerWait(w)
      PROVE  SemInv'
  <2>1. /\ \A u \in Threads : pc'[u] = IF u = w THEN "pop" ELSE pc[u]
        /\ pc' \in [Workers \cup Clients -> WorkerPlaces \cup ClientPlaces]
        /\ \A v \in Workers : pc'[v] \in WorkerPlaces
        /\ \A c \in Clients : pc'[c] \in ClientPlaces
    BY <1>2, Moves DEF WorkerWait, SemInv, WorkerPlaces
  <2>2. Posting' = Posting /\ Popping' = Popping \cup {w} /\ w \notin Popping
    BY <1>2, <2>1 DEF WorkerWait, Posting, Popping, Threads
  <2>3. TypeOK'
    BY <1>2, <2>1 DEF WorkerWait, TokenReady, TypeOK, SemInv
  <2>4. Tokens'
    <3>1. Cardinality(Popping') = Cardinality(Popping) + 1
      BY <2>2, HandsFinite, OneMore
    <3> QED BY <1>2, <2>2, <3>1, HandsFinite
            DEF WorkerWait, TokenReady, Tokens, SemInv, TypeOK
  <2>5. Offering' /\ RequestInOneHand'
    BY <1>2, <2>1 DEF WorkerWait, SemInv, Offering, RequestInOneHand, Threads
  <2>6. Stopping'
    BY <1>2, <2>1 DEF WorkerWait, SemInv, Stopping, StopPlaces, Threads, Joined
  <2> QED BY <2>3, <2>4, <2>5, <2>6 DEF SemInv
<1>3. ASSUME WorkerFindsNone(w)
      PROVE  SemInv'
  <2>1. /\ \A u \in Threads : pc'[u] = IF u = w THEN "test" ELSE pc[u]
        /\ pc' \in [Workers \cup Clients -> WorkerPlaces \cup ClientPlaces]
        /\ \A v \in Workers : pc'[v] \in WorkerPlaces
        /\ \A c \in Clients : pc'[c] \in ClientPlaces
    BY <1>3, Moves DEF WorkerFindsNone, SemInv, WorkerPlaces
  <2>2. Posting' = Posting /\ Popping' = Popping \ {w} /\ w \in Popping
    BY <1>3, <2>1 DEF WorkerFindsNone, Posting, Popping, Threads
  <2>3. TypeOK'
    BY <1>3, <2>1 DEF WorkerFindsNone, TypeOK, SemInv
  <2>4. Tokens'
    <3>1. Cardinality(Popping') \in Nat
      BY <2>2, HandsFinite, OneLess
    <3> QED BY <1>3, <2>2, <3>1, HandsFinite
            DEF WorkerFindsNone, Tokens, SemInv, TypeOK
  <2>5. Offering' /\ RequestInOneHand'
    BY <1>3, <2>1 DEF WorkerFindsNone, SemInv, Offering, RequestInOneHand, Threads
  <2>6. Stopping'
    BY <1>3, <2>1 DEF WorkerFindsNone, SemInv, Stopping, StopPlaces, Threads, Joined
  <2> QED BY <2>3, <2>4, <2>5, <2>6 DEF SemInv
<1>4. ASSUME WorkerPop(w)
      PROVE  SemInv'
  <2> DEFINE r == Head(workqueue)
             null == r \in NullRequests
  <2>1. /\ \A u \in Threads : pc'[u] = IF u = w THEN (IF null THEN "test" ELSE "process") ELSE pc[u]
        /\ pc' \in [Workers \cup Clients -> WorkerPlaces \cup ClientPlaces]
        /\ \A v \in Workers : pc'[v] \in WorkerPlaces
        /\ \A c \in Clients : pc'[c] \in ClientPlaces
    BY <1>4, Moves DEF WorkerPop, SemInv, WorkerPlaces
  <2>2. Posting' = Posting /\ Popping' = Popping \ {w} /\ w \in Popping
    BY <1>4, <2>1 DEF WorkerPop, Posting, Popping, Threads
  <2>3. /\ workqueue \in Seq(Requests) /\ workqueue # << >> /\ workqueue' = Tail(workqueue)
        /\ r \in Requests /\ workqueue' \in Seq(Requests)
        /\ Len(workqueue') = Len(workqueue) - 1
        /\ \A i \in 1 .. Len(workqueue') : workqueue'[i] = workqueue[i + 1]
        /\ workqueue[1] = r
    BY <1>4 DEF WorkerPop, PopFront, SemInv, TypeOK
  <2>4. /\ \A q \in Requests : st'[q] = IF q = r THEN (IF null THEN "done" ELSE "taken")
                                              ELSE st[q]
        /\ st' \in [Requests -> {"new", "offered", "refused", "queued", "taken", "done"}]
        /\ request' \in [Workers \cup Clients -> Requests \cup {NoRequest}]
        /\ \A t \in Threads : t # w => request'[t] = request[t]
        /\ ~null => request'[w] = r
    <3>1. CASE null
      BY <1>4, <2>3, <3>1 DEF WorkerPop, Mark, SemInv, TypeOK, Threads
    <3>2. CASE ~null
      BY <1>4, <2>3, <3>2 DEF WorkerPop, Mark, Holds, SemInv, TypeOK, Threads
    <3> QED BY <3>1, <3>2
  <2>5. TypeOK'
    BY <1>4, <2>1, <2>3, <2>4 DEF WorkerPop, TypeOK, SemInv
  <2>6. Tokens'
    <3>1. Cardinality(Popping) = Cardinality(Popping') + 1 /\ Cardinality(Popping') \in Nat
      BY <2>2, HandsFinite, OneLess
    <3> QED BY <1>4, <2>2, <2>3, <3>1, HandsFinite DEF WorkerPop, Tokens, SemInv, TypeOK
  <2>7. Offering'
    <3>1. st[r] = "queued"
      BY <2>3 DEF SemInv, RequestInOneHand
    <3>2. \A d \in Clients : pc'[d] = pc[d] /\ request'[d] = request[d]
      BY <2>1, <2>4 DEF Threads
    <3> QED BY <2>4, <3>1, <3>2 DEF SemInv, Offering
  <2>8. RequestInOneHand'
    <3>1. /\ 1 \in 1 .. Len(workqueue)
          /\ \A i \in 1 .. Len(workqueue') : i + 1 \in 1 .. Len(workqueue) /\ i + 1 # 1
      BY <2>3
    <3>2. \A i \in 1 .. Len(workqueue') : workqueue'[i] # r
      BY <2>3, <3>1 DEF SemInv, RequestInOneHand
    <3>3. \A i, k \in 1 .. Len(workqueue') : workqueue'[i] = workqueue'[k] => i = k
      <4> SUFFICES ASSUME NEW i \in 1 .. Len(workqueue'), NEW k \in 1 .. Len(workqueue'),
                          workqueue'[i] = workqueue'[k]
                   PROVE  i = k
        OBVIOUS
      <4>1. i + 1 = k + 1
        BY <2>3, <3>1 DEF SemInv, RequestInOneHand
      <4> QED BY <4>1
    <3>4. st[r] = "queued" /\ \A v \in Workers : ~(pc[v] = "process" /\ request[v] = r)
      BY <2>3, <3>1 DEF SemInv, RequestInOneHand
    <3>5. /\ \A v \in Workers \ {w} : pc'[v] = pc[v] /\ request'[v] = request[v]
          /\ pc[w] # "process" /\ (pc'[w] = "process" <=> ~null)
      BY <1>4, <2>1, <2>4 DEF WorkerPop, Threads
    <3>6. \A u, v \in Workers :
            pc'[u] = "process" /\ pc'[v] = "process" /\ request'[u] = request'[v] => u = v
      BY <2>4, <3>4, <3>5 DEF SemInv, RequestInOneHand
    <3>7. ASSUME NEW q \in Requests
          PROVE  st'[q] = "queued" <=> \E i \in 1 .. Len(workqueue') : workqueue'[i] = q
      <4>1. CASE q = r
        BY <2>4, <3>2, <4>1
      <4>2. ASSUME q # r, st'[q] = "queued"
            PROVE  \E i \in 1 .. Len(workqueue') : workqueue'[i] = q
        <5>1. PICK i \in 1 .. Len(workqueue) : workqueue[i] = q
          BY <2>4, <4>2 DEF SemInv, RequestInOneHand
        <5>2. i - 1 \in 1 .. Len(workqueue') /\ workqueue'[i - 1] = q
          BY <2>3, <4>2, <5>1
        <5> QED BY <5>2
      <4>3. ASSUME q # r, NEW i \in 1 .. Len(workqueue'), workqueue'[i] = q
            PROVE  st'[q] = "queued"
        <5>1. workqueue[i + 1] = q
          BY <2>3, <4>3
        <5>2. st[q] = "queued"
          BY <3>1, <5>1 DEF SemInv, RequestInOneHand
        <5> QED BY <2>4, <4>3, <5>2
      <4> QED BY <4>1, <4>2, <4>3
    <3>8. ASSUME NEW q \in Requests
          PROVE  st'[q] = "taken" <=> \E v \in Workers : pc'[v] = "process" /\ request'[v] = q
      <4>1. CASE q = r
        BY <2>4, <3>4, <3>5, <4>1
      <4>2. CASE q # r
        <5>1. st'[q] = "taken" <=> \E v \in Workers : pc[v] = "process" /\ request[v] = q
          BY <2>4, <4>2 DEF SemInv, RequestInOneHand
        <5>2. \A v \in Workers : (pc'[v] = "process" /\ request'[v] = q)
                                    <=> (pc[v] = "process" /\ request[v] = q)
          BY <2>4, <3>5, <4>2
        <5> QED BY <5>1, <5>2
      <4> QED BY <4>1, <4>2
    <3> QED BY <3>3, <3>6, <3>7, <3>8 DEF RequestInOneHand
  <2>9. Stopping'
    <3>1. workqueue # << >>
      BY <2>3
    <3> QED BY <2>1, <3>1 DEF SemInv, Stopping, StopPlaces, Threads, ClientPlaces
  <2> QED BY <2>5, <2>6, <2>7, <2>8, <2>9 DEF SemInv
<1>5. ASSUME WorkerProcess(w)
      PROVE  SemInv'
  <2>1. /\ \A u \in Threads : pc'[u] = IF u = w THEN "check" ELSE pc[u]
        /\ pc' \in [Workers \cup Clients -> WorkerPlaces \cup ClientPlaces]
        /\ \A v \in Workers : pc'[v] \in WorkerPlaces
        /\ \A c \in Clients : pc'[c] \in ClientPlaces
    BY <1>5, Moves DEF WorkerProcess, SemInv, WorkerPlaces
  <2>2. Posting' = Posting /\ Popping' = Popping
    BY <1>5, <2>1, Aside DEF WorkerProcess, SemInv
  <2>3. TypeOK'
    BY <1>5, <2>1 DEF WorkerProcess, Holds, Mark, TypeOK, SemInv
  <2>4. Tokens'
    BY <1>5, <2>2 DEF WorkerProcess, Tokens, SemInv
  <2>5. Offering' /\ RequestInOneHand'
    BY <1>5, <2>1 DEF WorkerProcess, Holds, Mark, TypeOK, SemInv, Offering, RequestInOneHand, Threads
  <2>6. Stopping'
    BY <1>5, <2>1 DEF WorkerProcess, SemInv, Stopping, StopPlaces, Threads, Joined
  <2> QED BY <2>3, <2>4, <2>5, <2>6 DEF SemInv
<1>6. ASSUME WorkerCheck(w)
      PROVE  SemInv'
  <2>1. /\ \A u \in Threads : pc'[u] = IF u = w THEN "test" ELSE pc[u]
        /\ pc' \in [Workers \cup Clients -> WorkerPlaces \cup ClientPlaces]
        /\ \A v \in Workers : pc'[v] \in WorkerPlaces
        /\ \A c \in Clients : pc'[c] \in ClientPlaces
    BY <1>6, Moves DEF WorkerCheck, SemInv, WorkerPlaces
  <2>2. Posting' = Posting /\ Popping' = Popping
    BY <1>6, <2>1, Aside DEF WorkerCheck, SemInv
  <2>3. TypeOK'
    BY <1>6, <2>1 DEF WorkerCheck, SignalEmpty, TypeOK, SemInv
  <2>4. Tokens'
    BY <1>6, <2>2 DEF WorkerCheck, Tokens, SemInv
  <2>5. Offering' /\ RequestInOneHand'
    BY <1>6, <2>1 DEF WorkerCheck, SignalEmpty, TypeOK, SemInv, Offering, RequestInOneHand, Threads
  <2>6. Stopping'
    BY <1>6, <2>1 DEF WorkerCheck, SemInv, Stopping, StopPlaces, Threads, Joined
  <2> QED BY <2>3, <2>4, <2>5, <2>6 DEF SemInv
<1> QED BY <1>1, <1>2, <1>3, <1>4, <1>5, <1>6 DEF WorkerStep

-----------------------------------------------------------------------------
\* stop and the destructor (lines 93-97, 125-140).
LEMMA StopStep ==
    ASSUME SemInv, NEW c \in Clients,
           \/ StopCall(c) \/ StopReads(c) \/ StopSleeps(c) \/ StopSets(c) \/ StopPosts(c)
           \/ StopJoins(c) \/ Delete(c)
    PROVE  SemInv'
<1> c \in Threads /\ c \notin Workers
  BY DEF Threads
<1>1. ASSUME StopCall(c)
      PROVE  SemInv'
  <2>1. /\ \A u \in Threads : pc'[u] = IF u = c THEN "stopTest" ELSE pc[u]
        /\ pc' \in [Workers \cup Clients -> WorkerPlaces \cup ClientPlaces]
        /\ \A v \in Workers : pc'[v] \in WorkerPlaces
        /\ \A d \in Clients : pc'[d] \in ClientPlaces
    BY <1>1, Moves DEF StopCall, SemInv, ClientPlaces
  <2>2. Posting' = Posting /\ Popping' = Popping
    BY <1>1, <2>1, Aside DEF StopCall, SemInv
  <2>3. TypeOK'
    BY <1>1, <2>1 DEF StopCall, TypeOK, SemInv
  <2>4. Tokens'
    BY <1>1, <2>2 DEF StopCall, Tokens, SemInv
  <2>5. Offering' /\ RequestInOneHand'
    BY <1>1, <2>1 DEF StopCall, TypeOK, SemInv, Offering, RequestInOneHand, Threads
  <2>6. Stopping'
    BY <1>1, <2>1 DEF StopCall, SemInv, Stopping, StopPlaces, Threads, Joined
  <2> QED BY <2>3, <2>4, <2>5, <2>6 DEF SemInv
<1>2. ASSUME StopReads(c)
      PROVE  SemInv'
  <2>1. /\ \A u \in Threads : pc'[u] = IF u = c THEN (IF workqueue = << >> THEN "setStop" ELSE "stopWait") ELSE pc[u]
        /\ pc' \in [Workers \cup Clients -> WorkerPlaces \cup ClientPlaces]
        /\ \A v \in Workers : pc'[v] \in WorkerPlaces
        /\ \A d \in Clients : pc'[d] \in ClientPlaces
    BY <1>2, Moves DEF StopReads, StopTest, SemInv, ClientPlaces
  <2>2. Posting' = Posting /\ Popping' = Popping
    BY <1>2, <2>1, Aside DEF StopReads, StopTest, SemInv
  <2>3. TypeOK'
    BY <1>2, <2>1 DEF StopReads, StopTest, TypeOK, SemInv
  <2>4. Tokens'
    BY <1>2, <2>2 DEF StopReads, Tokens, SemInv
  <2>5. Offering' /\ RequestInOneHand'
    BY <1>2, <2>1 DEF StopReads, StopTest, TypeOK, SemInv, Offering, RequestInOneHand, Threads
  <2>6. Stopping'
    BY <1>2, <2>1 DEF StopReads, StopTest, SemInv, Stopping, StopPlaces, Threads, Joined
  <2> QED BY <2>3, <2>4, <2>5, <2>6 DEF SemInv
<1>3. ASSUME StopSleeps(c)
      PROVE  SemInv'
  <2>1. /\ \A u \in Threads : pc'[u] = IF u = c THEN "stopTest" ELSE pc[u]
        /\ pc' \in [Workers \cup Clients -> WorkerPlaces \cup ClientPlaces]
        /\ \A v \in Workers : pc'[v] \in WorkerPlaces
        /\ \A d \in Clients : pc'[d] \in ClientPlaces
    BY <1>3, Moves DEF StopSleeps, SemInv, ClientPlaces
  <2>2. Posting' = Posting /\ Popping' = Popping
    BY <1>3, <2>1, Aside DEF StopSleeps, SemInv
  <2>3. TypeOK'
    BY <1>3, <2>1 DEF StopSleeps, TypeOK, SemInv
  <2>4. Tokens'
    BY <1>3, <2>2 DEF StopSleeps, Tokens, SemInv
  <2>5. Offering' /\ RequestInOneHand'
    BY <1>3, <2>1 DEF StopSleeps, TypeOK, SemInv, Offering, RequestInOneHand, Threads
  <2>6. Stopping'
    BY <1>3, <2>1 DEF StopSleeps, SemInv, Stopping, StopPlaces, Threads, Joined
  <2> QED BY <2>3, <2>4, <2>5, <2>6 DEF SemInv
<1>4. ASSUME StopSets(c)
      PROVE  SemInv'
  <2>1. /\ \A u \in Threads : pc'[u] = IF u = c THEN "stopPost" ELSE pc[u]
        /\ pc' \in [Workers \cup Clients -> WorkerPlaces \cup ClientPlaces]
        /\ \A v \in Workers : pc'[v] \in WorkerPlaces
        /\ \A d \in Clients : pc'[d] \in ClientPlaces
    BY <1>4, Moves DEF StopSets, SemInv, ClientPlaces
  <2>2. Posting' = Posting /\ Popping' = Popping
    BY <1>4, <2>1, Aside DEF StopSets, SemInv
  <2>3. TypeOK'
    BY <1>4, <2>1 DEF StopSets, TypeOK, SemInv
  <2>4. Tokens'
    BY <1>4, <2>2 DEF StopSets, Tokens, SemInv
  <2>5. Offering' /\ RequestInOneHand'
    BY <1>4, <2>1 DEF StopSets, TypeOK, SemInv, Offering, RequestInOneHand, Threads
  <2>6. Stopping'
    BY <1>4, <2>1 DEF StopSets, SemInv, Stopping, StopPlaces, Threads, Joined
  <2> QED BY <2>3, <2>4, <2>5, <2>6 DEF SemInv
<1>5. ASSUME StopPosts(c)
      PROVE  SemInv'
  <2>1. Posting' = Posting /\ Popping' = Popping
    BY <1>5 DEF StopPosts, Posting, Popping
  <2>2. TypeOK'
    BY <1>5 DEF StopPosts, TypeOK, SemInv
  <2>3. Tokens'
    BY <1>5, <2>1, HandsFinite DEF StopPosts, Tokens, SemInv, TypeOK
  <2>4. Offering' /\ RequestInOneHand' /\ Stopping'
    BY <1>5 DEF StopPosts, SemInv, Offering, RequestInOneHand, Stopping, Joined
  <2> QED BY <2>2, <2>3, <2>4 DEF SemInv
<1>6. ASSUME StopJoins(c)
      PROVE  SemInv'
  <2>1. /\ \A u \in Threads : pc'[u] = IF u = c THEN "stopped" ELSE pc[u]
        /\ pc' \in [Workers \cup Clients -> WorkerPlaces \cup ClientPlaces]
        /\ \A v \in Workers : pc'[v] \in WorkerPlaces
        /\ \A d \in Clients : pc'[d] \in ClientPlaces
    BY <1>6, Moves DEF StopJoins, SemInv, ClientPlaces
  <2>2. Posting' = Posting /\ Popping' = Popping
    BY <1>6, <2>1, Aside DEF StopJoins, SemInv
  <2>3. TypeOK'
    BY <1>6, <2>1 DEF StopJoins, TypeOK, SemInv
  <2>4. Tokens'
    BY <1>6, <2>2 DEF StopJoins, Tokens, SemInv
  <2>5. Offering' /\ RequestInOneHand'
    BY <1>6, <2>1 DEF StopJoins, TypeOK, SemInv, Offering, RequestInOneHand, Threads
  <2>6. Stopping'
    BY <1>6, <2>1 DEF StopJoins, SemInv, Stopping, StopPlaces, Threads, Joined
  <2> QED BY <2>3, <2>4, <2>5, <2>6 DEF SemInv
<1>7. ASSUME Delete(c)
      PROVE  SemInv'
  <2>1. /\ \A u \in Threads : pc'[u] = IF u = c THEN "deleted" ELSE pc[u]
        /\ pc' \in [Workers \cup Clients -> WorkerPlaces \cup ClientPlaces]
        /\ \A v \in Workers : pc'[v] \in WorkerPlaces
        /\ \A d \in Clients : pc'[d] \in ClientPlaces
    BY <1>7, Moves DEF Delete, SemInv, ClientPlaces
  <2>2. Posting' = Posting /\ Popping' = Popping
    BY <1>7, <2>1, Aside DEF Delete, SemInv
  <2>3. TypeOK'
    BY <1>7, <2>1 DEF Delete, TypeOK, SemInv
  <2>4. Tokens'
    BY <1>7, <2>2 DEF Delete, Tokens, SemInv
  <2>5. Offering' /\ RequestInOneHand'
    BY <1>7, <2>1 DEF Delete, TypeOK, SemInv, Offering, RequestInOneHand, Threads
  <2>6. Stopping'
    BY <1>7, <2>1 DEF Delete, SemInv, Stopping, StopPlaces, Threads, Joined
  <2> QED BY <2>3, <2>4, <2>5, <2>6 DEF SemInv
<1> QED BY <1>1, <1>2, <1>3, <1>4, <1>5, <1>6, <1>7

LEMMA SemInvStep == SemInv /\ [Next]_vars => SemInv'
<1> SUFFICES ASSUME SemInv, [Next]_vars PROVE SemInv'
  OBVIOUS
<1>1. ASSUME UNCHANGED vars PROVE SemInv'
  BY <1>1 DEF vars, SemInv, TypeOK, Tokens, Posting, Popping, Offering, RequestInOneHand,
              Stopping, Joined
<1>2. ASSUME SpuriousWakeup PROVE SemInv'
  BY <1>2 DEF SpuriousWakeup, SemInv, TypeOK, Tokens, Posting, Popping,
              Offering, RequestInOneHand, Stopping, Joined
<1> QED BY <1>1, <1>2, AppendStep, WorkerSteps, StopStep DEF Next, ClientStep

LEMMA SemInvAlways == Spec => []SemInv
BY SemInvInit, SemInvStep, PTL DEF Spec

\* The types are preserved.
THEOREM SemPoolTypes == Spec => []TypeOK
BY SemInvAlways, PTL DEF SemInv

\* However many workers take and clients add, no request is left in the list without a
\* token that brings a worker to it (ThreadPool.h lines 99-113, 155-163).
THEOREM TokensSuffice == Spec => []EveryRequestHasToken
<1>1. SemInv => EveryRequestHasToken
  BY DEF SemInv, Tokens, Posting, Popping, EveryRequestHasToken
<1> QED BY <1>1, SemInvAlways, PTL

\* However many workers and clients there are, no request is lost between the list and
\* the workers, doubled in the list, or processed by two of them (lines 103-111,
\* 155-169).
THEOREM RequestsKept == Spec => []RequestInOneHand
<1>1. SemInv => RequestInOneHand
  BY DEF SemInv
<1> QED BY <1>1, SemInvAlways, PTL

\* A list that holds as many requests as ThreadPool.h documents as its maximum (lines 21
\* and 45) takes one more: the test of line 104 refuses from m_max_requests + 1 on only.
LEMMA OneTooMany ==
    ASSUME TypeOK, NEW c \in Clients, pc[c] = "append", Len(workqueue) = MaxRequests
    PROVE  ~AppendRefused(c) /\ (AppendPush(c) => Len(workqueue') = MaxRequests + 1)
<1>1. ~TooMany
  BY DEF TooMany
<1>2. ASSUME AppendPush(c) PROVE Len(workqueue') = MaxRequests + 1
  <2>1. workqueue \in Seq(Requests) /\ request \in [Workers \cup Clients -> Requests \cup {NoRequest}]
    BY DEF TypeOK
  <2>2. workqueue \in Seq(Requests \cup {NoRequest}) /\ request[c] \in Requests \cup {NoRequest}
    BY <2>1
  <2> QED BY <1>2, <2>2 DEF AppendPush
<1> QED BY <1>1, <1>2 DEF AppendRefused

\* stop returns to an empty pool: whatever the requests and the workers, nothing that was
\* accepted is left and no worker runs, also when the pool is deleted (lines 93-97, 125-140).
THEOREM StopLeavesNothing == Spec => []StopDrains
<1>1. SemInv => StopDrains
  <2> SUFFICES ASSUME SemInv, NEW c \in Clients, pc[c] \in {"stopped", "deleted"}
               PROVE  /\ \A r \in Requests : st[r] \notin {"queued", "taken"}
                      /\ \A w \in Workers : pc[w] = "exited"
    BY DEF StopDrains
  <2>1. workqueue = << >> /\ Joined
    BY DEF SemInv, Stopping
  <2>2. \A r \in Requests : st[r] # "queued"
    BY <2>1 DEF SemInv, RequestInOneHand
  <2>3. \A r \in Requests : st[r] # "taken"
    BY <2>1 DEF SemInv, RequestInOneHand, Joined
  <2> QED BY <2>1, <2>2, <2>3 DEF Joined
<1> QED BY <1>1, SemInvAlways, PTL
=============================================================================
