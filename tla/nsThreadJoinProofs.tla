--------------------------- MODULE nsThreadJoinProofs ---------------------------
(***************************************************************************)
(* Proofs about how the threads of nsThread shut each other down and wait  *)
(* for each other (Shutdown, its acknowledgement, PR_JoinThread), and      *)
(* about what they do with the events that are dispatched to them: a       *)
(* synchronous dispatch waits for its event, and every thread keeps the    *)
(* promise that EventTarget states.                                        *)
(***************************************************************************)
EXTENDS nsThreadProofs

(* The thread has done everything it can do that others could notice. *)
Finished(t) == t \in known /\ (stk[t] # <<>> => Len(stk[t]) = 1 /\ Top(t).at = "bye")

(* Whoever the thread to shut down answers to is still in Shutdown; the   *)
(* answer comes once the thread is finished, and it is awaited.           *)
Contexts ==
  \A t, j \in Thread :
    /\ mShutdownContext[t] = j /\ stk[t] # <<>> => InShutdown(j, t)
    /\ \A e \in Pending(t) : e.k = "shutdown" /\ e.t = j => InShutdown(j, t)
    /\ \A e \in Pending(j) : e.k = "ack" /\ e.t = t => InShutdown(j, t) /\ Finished(t) /\ ~shutdownAck[t]

Acked ==
  /\ \A t \in Thread : shutdownAck[t] => Finished(t)
  /\ \A j \in Thread : \A i \in DOMAIN stk[j] :
       stk[j][i].fn = "Shutdown" /\ stk[j][i].at = "join" => shutdownAck[stk[j][i].t]

(* The queues of a thread; number 0 is the one that is being popped. *)
Slot(j, i) == IF i = 0 THEN popped[j] ELSE mEvents[j][i].q

(* Place n of queue i holds an event of S; only one place does. *)
EventAt(j, i, n, S) == /\ i \in 0 .. Len(mEvents[j]) /\ n \in 1 .. Len(Slot(j, i))
                       /\ Slot(j, i)[n] \in S

Single(j, S) == \A i, k, m, n : EventAt(j, i, m, S) /\ EventAt(j, k, n, S) => i = k /\ m = n

(* No thread is answered twice about the same thread. *)
Answers(t) == {e \in Event : e.k = "ack" /\ e.t = t}
AckAt(j, i, n, t) == EventAt(j, i, n, Answers(t))
AckOnce == \A j, t \in Thread : Single(j, Answers(t))

Joining == Orderly /\ Contexts /\ Acked /\ AckOnce /\ ShutDownForGood
--------------------------------------------------------------------------------
(* Where the events of a set are *)

LEMMA SingleSame ==
  ASSUME NEW v, mEvents'[v] = mEvents[v], popped'[v] = popped[v], NEW S, Single(v, S)
  PROVE  Single(v, S)'
<1>1. \A i : Slot(v, i)' = Slot(v, i)
  BY DEF Slot
<1>2. \A i, n : EventAt(v, i, n, S)' <=> EventAt(v, i, n, S)
  BY <1>1 DEF EventAt
<1> QED BY <1>2 DEF Single

(* An event is put at the end of queue i. *)
LEMMA AppendAt ==
  ASSUME TypeOK, NEW u \in Thread, NEW i \in 1 .. Len(mEvents[u]), NEW e \in Event,
         QueueSet(u, i, Append(mEvents[u][i].q, e)), popped' = popped,
         NEW S, NEW k, NEW n, EventAt(u, k, n, S)'
  PROVE  \/ EventAt(u, k, n, S)
         \/ k = i /\ n = Len(mEvents[u][i].q) + 1 /\ e \in S
<1>1. k \in 0 .. Len(mEvents[u]) /\ n \in 1 .. Len(Slot(u, k)') /\ Slot(u, k)'[n] \in S
  BY DEF EventAt, QueueSet
<1>2. k # 0 => k \in 1 .. Len(mEvents[u])
  BY <1>1, ChainType
<1>3. CASE k # i
  <2>1. Slot(u, k)' = Slot(u, k)
    BY <1>2, <1>3 DEF Slot, QueueSet
  <2> QED BY <1>1, <2>1 DEF EventAt
<1>4. CASE k = i
  <2> DEFINE q == mEvents[u][i].q
  <2>1. q \in Seq(Event) /\ Len(q) \in Nat
    BY ChainType, LenProperties
  <2>2. k # 0 /\ Slot(u, k) = q /\ Slot(u, k)' = Append(q, e)
    <3>1. k # 0 /\ k \in 1 .. Len(mEvents[u])
      BY <1>4
    <3>2. mEvents'[u][k].q = Append(q, e)
      BY <1>4, <3>1 DEF QueueSet
    <3> QED BY <1>4, <3>1, <3>2 DEF Slot
  <2>3. /\ Len(Append(q, e)) = Len(q) + 1 /\ Append(q, e)[Len(q) + 1] = e
        /\ \A x \in 1 .. Len(q) : Append(q, e)[x] = q[x]
    BY <2>1, AppendProperties
  <2> HIDE DEF q
  <2>4. n \in 1 .. Len(q) \/ n = Len(q) + 1
    BY <1>1, <2>1, <2>2, <2>3
  <2>5. CASE n \in 1 .. Len(q)
    BY <1>1, <2>2, <2>3, <2>5 DEF EventAt
  <2>6. CASE n = Len(q) + 1
    BY <1>1, <1>4, <2>2, <2>3, <2>6 DEF q
  <2> QED BY <2>4, <2>5, <2>6
<1> QED BY <1>3, <1>4

(* PutEvent keeps S single if e is not in S, or the first of S. *)
LEMMA PutSingle ==
  ASSUME Basic, NEW u \in Thread, NEW e \in Event, PutEvent(u, e) \/ mEvents' = Put(u, e),
         popped' = popped, NEW S, e \in S => \A k, n : ~EventAt(u, k, n, S),
         NEW v \in Thread, Single(v, S)
  PROVE  Single(v, S)'
<1>1. CASE mEvents' = mEvents
  BY <1>1, SingleSame
<1>2. CASE mEvents' = Put(u, e)
  <2>1. ChainShape(u) /\ TypeOK
    BY DEF Basic, Shape
  <2>2. PICK i \in 1 .. Len(mEvents[u]) : QueueSet(u, i, Append(mEvents[u][i].q, e))
    BY <1>2, <2>1, PutFacts
  <2>3. CASE v # u
    BY <2>2, <2>3, SingleSame DEF QueueSet
  <2>4. CASE v = u
    <3>1. \A k, n : EventAt(u, k, n, S)' =>
            EventAt(u, k, n, S) \/ (k = i /\ n = Len(mEvents[u][i].q) + 1 /\ e \in S)
      BY <2>1, <2>2, AppendAt
    <3> QED BY <2>4, <3>1 DEF Single
  <2> QED BY <2>3, <2>4
<1> QED BY <1>1, <1>2 DEF PutEvent

(* The first event of the newest queue is taken; it was the last of S. *)
LEMMA TakeSingle ==
  ASSUME Basic, NEW j \in Thread, HasPendingEvent(j),
         mEvents' = [mEvents EXCEPT ![j][Len(mEvents[j])].q = Tail(@)], popped' = popped,
         NEW S
  PROVE  /\ \A v \in Thread : Single(v, S) => Single(v, S)'
         /\ Single(j, S) /\ NextEvent(j) \in S => \A k, n : ~EventAt(j, k, n, S)'
<1> DEFINE L == Len(mEvents[j])
           q == mEvents[j][L].q
<1>1. QueueSet(j, L, Tail(q)) /\ TypeOK
  BY TakeFacts DEF Basic, Shape
<1>2. L \in Nat /\ L >= 1 /\ q \in Seq(Event) /\ q # <<>> /\ NextEvent(j) = Head(q)
  BY <1>1, ChainType, EmptySeq DEF Basic, Shape, ChainShape, HasPendingEvent, NextEvent, Newest
<1>3. /\ Len(q) \in Nat /\ Len(q) >= 1 /\ Head(q) = q[1] /\ Len(Tail(q)) = Len(q) - 1
      /\ \A x \in 1 .. Len(q) - 1 : Tail(q)[x] = q[x + 1]
  BY <1>2, HeadTailProperties, LenProperties, EmptySeq
<1>4. L = Len(mEvents[j]) /\ Slot(j, L) = q
  BY <1>2 DEF Slot
<1> HIDE DEF L, q
<1>5. ASSUME NEW k, NEW n, EventAt(j, k, n, S)'
      PROVE  IF k = L THEN EventAt(j, k, n + 1, S) /\ n \in Nat /\ n >= 1 ELSE EventAt(j, k, n, S)
  <2>1. k \in 0 .. L /\ n \in 1 .. Len(Slot(j, k)') /\ Slot(j, k)'[n] \in S
    BY <1>1, <1>4, <1>5 DEF EventAt, QueueSet
  <2>2. k # 0 => k \in 1 .. L
    BY <1>2, <2>1
  <2>3. CASE k # L
    <3>1. Slot(j, k)' = Slot(j, k)
      BY <1>1, <1>4, <2>2, <2>3 DEF Slot, QueueSet
    <3> QED BY <1>4, <2>1, <2>3, <3>1 DEF EventAt
  <2>4. CASE k = L
    <3>1. Slot(j, k)' = Tail(q)
      BY <1>1, <1>2, <1>4, <2>4 DEF Slot, QueueSet
    <3>2. n \in 1 .. Len(q) - 1 /\ n + 1 \in 1 .. Len(q) /\ n \in Nat /\ n >= 1
      BY <1>3, <2>1, <3>1
    <3> QED BY <1>3, <1>4, <2>1, <2>4, <3>1, <3>2 DEF EventAt
  <2> QED BY <2>3, <2>4
<1>6. ASSUME NEW v \in Thread \ {j}, Single(v, S) PROVE Single(v, S)'
  BY <1>1, <1>6, SingleSame DEF QueueSet
<1>7. ASSUME Single(j, S) PROVE Single(j, S)'
  <2> SUFFICES ASSUME NEW i, NEW k, NEW m, NEW n, EventAt(j, i, m, S)', EventAt(j, k, n, S)'
               PROVE  i = k /\ m = n
    BY DEF Single
  <2>1. /\ IF i = L THEN EventAt(j, i, m + 1, S) /\ m \in Nat ELSE EventAt(j, i, m, S)
        /\ IF k = L THEN EventAt(j, k, n + 1, S) /\ n \in Nat ELSE EventAt(j, k, n, S)
    BY <1>5
  <2>2. i = k
    BY <1>7, <2>1 DEF Single
  <2>3. CASE i # L
    BY <1>7, <2>1, <2>2, <2>3 DEF Single
  <2>4. CASE i = L
    <3>1. m + 1 = n + 1 /\ m \in Nat /\ n \in Nat
      BY <1>7, <2>1, <2>2, <2>4 DEF Single
    <3> QED BY <2>2, <3>1
  <2> QED BY <2>3, <2>4
<1>8. ASSUME Single(j, S), NextEvent(j) \in S, NEW k, NEW n, EventAt(j, k, n, S)' PROVE FALSE
  <2>1. EventAt(j, L, 1, S)
    <3>1. L \in 0 .. L /\ 1 \in 1 .. Len(q)
      BY <1>2, <1>3
    <3> QED BY <1>2, <1>3, <1>4, <1>8, <3>1 DEF EventAt
  <2>2. IF k = L THEN EventAt(j, k, n + 1, S) /\ n \in Nat /\ n >= 1 ELSE EventAt(j, k, n, S)
    BY <1>5, <1>8
  <2>3. k = L
    BY <1>8, <2>1, <2>2 DEF Single
  <2>4. n + 1 = 1 /\ n \in Nat /\ n >= 1
    BY <1>8, <2>1, <2>2, <2>3 DEF Single
  <2> QED BY <2>4
<1> QED BY <1>6, <1>7, <1>8

LEMMA PushSingle ==
  ASSUME Basic, NEW j \in Thread, NEW f \in Filter,
         mEvents' = [mEvents EXCEPT ![j] = Append(@, [filter |-> f, q |-> <<>>])], popped' = popped,
         NEW S, NEW v \in Thread, Single(v, S)
  PROVE  Single(v, S)'
<1> DEFINE L == Len(mEvents[j])
           c == [filter |-> f, q |-> <<>>]
<1>1. c \in ChainedQueue /\ c.q = <<>> /\ Len(<<>>) = 0
  BY FilterKinds, EmptySeq DEF ChainedQueue
<1>2. L \in Nat /\ mEvents[j] \in Seq(ChainedQueue) /\ mEvents \in [Thread -> Seq(ChainedQueue)]
  BY ChainType DEF Basic, TypeOK
<1> HIDE DEF c
<1>3. mEvents'[j] = Append(mEvents[j], c) /\ \A w \in Thread \ {j} : mEvents'[w] = mEvents[w]
  BY <1>2 DEF c
<1>4. /\ Len(mEvents'[j]) = L + 1 /\ mEvents'[j][L + 1] = c
      /\ \A i \in 1 .. L : mEvents'[j][i] = mEvents[j][i]
  BY <1>1, <1>2, <1>3, AppendProperties
<1>5. L = Len(mEvents[j])
  OBVIOUS
<1> HIDE DEF L
<1>6. ASSUME NEW k, NEW n, EventAt(j, k, n, S)' PROVE EventAt(j, k, n, S)
  <2>1. k \in 0 .. L + 1 /\ n \in 1 .. Len(Slot(j, k)') /\ Slot(j, k)'[n] \in S
    BY <1>4, <1>6 DEF EventAt
  <2>2. k # L + 1
    <3> SUFFICES ASSUME k = L + 1 PROVE FALSE
      OBVIOUS
    <3>1. Slot(j, k)' = <<>>
      BY <1>1, <1>2, <1>4 DEF Slot
    <3>2. n \in 1 .. 0
      BY <1>1, <2>1, <3>1
    <3> QED BY <3>2
  <2>3. k \in 0 .. L /\ (k # 0 => k \in 1 .. L)
    BY <1>2, <2>1, <2>2
  <2>4. Slot(j, k)' = Slot(j, k)
    <3>1. CASE k = 0
      BY <3>1 DEF Slot
    <3>2. CASE k # 0
      <4>1. mEvents'[j][k] = mEvents[j][k]
        BY <1>4, <2>3, <3>2
      <4>2. Slot(j, k)' = mEvents'[j][k].q /\ Slot(j, k) = mEvents[j][k].q
        BY <3>2, Zenon DEF Slot
      <4> QED BY <4>1, <4>2, Zenon
    <3> QED BY <3>1, <3>2
  <2> QED BY <1>5, <2>1, <2>3, <2>4 DEF EventAt
<1>7. CASE v # j
  BY <1>3, <1>7, SingleSame
<1>8. CASE v = j
  BY <1>6, <1>8 DEF Single
<1> QED BY <1>7, <1>8

LEMMA PopSingle ==
  ASSUME Basic, NEW j \in Thread, Len(mEvents[j]) >= 2, popped[j] = <<>>,
         popped' = [popped EXCEPT ![j] = Newest(j).q],
         mEvents' = [mEvents EXCEPT ![j] = SubSeq(@, 1, Len(@) - 1)],
         NEW S, NEW v \in Thread, Single(v, S)
  PROVE  Single(v, S)'
<1> DEFINE L == Len(mEvents[j])
<1>1. /\ L \in Nat /\ L >= 2 /\ mEvents[j] \in Seq(ChainedQueue)
      /\ mEvents \in [Thread -> Seq(ChainedQueue)] /\ popped \in [Thread -> Seq(Event)]
  BY ChainType DEF Basic, TypeOK
<1>2. /\ mEvents'[j] = SubSeq(mEvents[j], 1, L - 1) /\ popped'[j] = mEvents[j][L].q
      /\ \A w \in Thread \ {j} : mEvents'[w] = mEvents[w] /\ popped'[w] = popped[w]
  BY <1>1 DEF Newest
<1>3. Len(mEvents'[j]) = L - 1 /\ \A i \in 1 .. L - 1 : mEvents'[j][i] = mEvents[j][i]
  BY <1>1, <1>2, SubSeqProperties
<1>4. L = Len(mEvents[j])
  OBVIOUS
<1> HIDE DEF L
<1>5. ASSUME NEW k, NEW n, EventAt(j, k, n, S)'
      PROVE  k \in 0 .. L - 1 /\ IF k = 0 THEN EventAt(j, L, n, S) ELSE EventAt(j, k, n, S)
  <2>1. k \in 0 .. L - 1 /\ n \in 1 .. Len(Slot(j, k)') /\ Slot(j, k)'[n] \in S
    BY <1>3, <1>5 DEF EventAt
  <2>2. CASE k = 0
    <3>1. Slot(j, k)' = Slot(j, L) /\ L \in 0 .. L
      BY <1>1, <1>2, <2>2 DEF Slot
    <3> QED BY <1>4, <2>1, <2>2, <3>1 DEF EventAt
  <2>3. CASE k # 0
    <3>0. k \in Nat /\ L \in Nat /\ k <= L - 1
      BY <1>1, <2>1
    <3>1. k \in 1 .. L - 1 /\ k \in 0 .. L
      BY <2>3, <3>0
    <3>2. Slot(j, k)' = Slot(j, k)
      BY <1>3, <2>3, <3>1 DEF Slot
    <3> QED BY <1>4, <2>1, <2>3, <3>1, <3>2 DEF EventAt
  <2> QED BY <2>2, <2>3
<1>6. CASE v # j
  BY <1>2, <1>6, SingleSame
<1>7. CASE v = j
  <2> SUFFICES ASSUME NEW i, NEW k, NEW m, NEW n, EventAt(j, i, m, S)', EventAt(j, k, n, S)'
               PROVE  i = k /\ m = n
    BY <1>7 DEF Single
  <2>1. /\ i \in 0 .. L - 1 /\ IF i = 0 THEN EventAt(j, L, m, S) ELSE EventAt(j, i, m, S)
        /\ k \in 0 .. L - 1 /\ IF k = 0 THEN EventAt(j, L, n, S) ELSE EventAt(j, k, n, S)
    BY <1>5
  <2>2. L \notin 0 .. L - 1
    BY <1>1
  <2> QED BY <1>7, <2>1, <2>2 DEF Single
<1> QED BY <1>6, <1>7

LEMMA RepostSingle ==
  ASSUME Basic, NEW j \in Thread, popped[j] # <<>>,
         mEvents' = Put(j, Head(popped[j])), popped' = [popped EXCEPT ![j] = Tail(@)],
         NEW S, NEW v \in Thread, Single(v, S)
  PROVE  Single(v, S)'
<1> DEFINE r == popped[j]
           e == Head(r)
<1>1. /\ r \in Seq(Event) /\ r # <<>> /\ popped \in [Thread -> Seq(Event)]
      /\ ChainShape(j) /\ TypeOK
  BY DEF Basic, TypeOK, Shape
<1>2. /\ e \in Event /\ Len(r) \in Nat /\ Len(r) >= 1 /\ e = r[1] /\ Len(Tail(r)) = Len(r) - 1
      /\ \A x \in 1 .. Len(r) - 1 : Tail(r)[x] = r[x + 1]
  BY <1>1, HeadTailProperties, LenProperties, EmptySeq
<1>3. PICK l \in 1 .. Len(mEvents[j]) : QueueSet(j, l, Append(mEvents[j][l].q, e))
  BY <1>1, <1>2, PutFacts
<1> DEFINE q == mEvents[j][l].q
<1>4. popped'[j] = Tail(r) /\ \A w \in Thread \ {j} : popped'[w] = popped[w]
  BY <1>1
<1>5. q \in Seq(Event) /\ Len(q) \in Nat
  BY <1>1, ChainType, LenProperties
<1>6. /\ Len(Append(q, e)) = Len(q) + 1 /\ Append(q, e)[Len(q) + 1] = e
      /\ \A x \in 1 .. Len(q) : Append(q, e)[x] = q[x]
  BY <1>2, <1>5, AppendProperties
<1>7. /\ Slot(j, 0) = r /\ Slot(j, l) = q /\ l # 0
      /\ Slot(j, 0)' = Tail(r) /\ Slot(j, l)' = Append(q, e)
  <2>1. l # 0
    OBVIOUS
  <2>2. mEvents'[j][l].q = Append(q, e)
    BY <1>3 DEF QueueSet
  <2> QED BY <1>4, <2>1, <2>2 DEF Slot
<1>8. \A k \in 1 .. Len(mEvents[j]) : k # l => Slot(j, k)' = Slot(j, k)
  BY <1>3 DEF QueueSet, Slot
<1>9. Len(mEvents'[j]) = Len(mEvents[j]) /\ Len(mEvents[j]) \in Nat
  BY <1>1, <1>3, ChainType DEF QueueSet
<1> HIDE DEF r, e, q
<1>10. ASSUME NEW k, NEW n, EventAt(j, k, n, S)'
       PROVE  \/ k = 0 /\ n \in Nat /\ n >= 1 /\ EventAt(j, 0, n + 1, S)
              \/ k = l /\ n = Len(q) + 1 /\ EventAt(j, 0, 1, S)
              \/ k = l /\ n \in 1 .. Len(q) /\ EventAt(j, l, n, S)
              \/ k # 0 /\ k # l /\ EventAt(j, k, n, S)
  <2>1. k \in 0 .. Len(mEvents[j]) /\ n \in 1 .. Len(Slot(j, k)') /\ Slot(j, k)'[n] \in S
    BY <1>9, <1>10 DEF EventAt
  <2>2. CASE k = 0
    <3>1. n \in 1 .. Len(r) - 1 /\ n + 1 \in 1 .. Len(r) /\ n \in Nat /\ n >= 1
      BY <1>2, <1>7, <2>1, <2>2
    <3>2. r[n + 1] \in S
      BY <1>2, <1>7, <2>1, <2>2, <3>1
    <3> QED BY <1>7, <1>9, <2>1, <2>2, <3>1, <3>2 DEF EventAt
  <2>3. CASE k = l /\ n = Len(q) + 1
    <3>1. 1 \in 1 .. Len(r) /\ 0 \in 0 .. Len(mEvents[j])
      BY <1>2, <1>9
    <3> QED BY <1>2, <1>6, <1>7, <2>1, <2>3, <3>1 DEF EventAt
  <2>4. CASE k = l /\ n # Len(q) + 1
    <3>1. n \in 1 .. Len(q)
      BY <1>5, <1>6, <1>7, <2>1, <2>4
    <3> QED BY <1>6, <1>7, <2>1, <2>4, <3>1 DEF EventAt
  <2>5. CASE k # 0 /\ k # l
    <3>1. k \in 1 .. Len(mEvents[j])
      BY <1>9, <2>1, <2>5
    <3> QED BY <1>8, <2>1, <2>5, <3>1 DEF EventAt
  <2> QED BY <2>2, <2>3, <2>4, <2>5
<1>11. CASE v # j
  BY <1>3, <1>4, <1>11, SingleSame DEF QueueSet
<1>12. CASE v = j
  <2> SUFFICES ASSUME NEW i, NEW k, NEW m, NEW n, EventAt(j, i, m, S)', EventAt(j, k, n, S)'
               PROVE  i = k /\ m = n
    BY <1>12 DEF Single
  <2>1. \/ i = 0 /\ m \in Nat /\ m >= 1 /\ EventAt(j, 0, m + 1, S)
        \/ i = l /\ m = Len(q) + 1 /\ EventAt(j, 0, 1, S)
        \/ i = l /\ m \in 1 .. Len(q) /\ EventAt(j, l, m, S)
        \/ i # 0 /\ i # l /\ EventAt(j, i, m, S)
    BY <1>10
  <2>2. \/ k = 0 /\ n \in Nat /\ n >= 1 /\ EventAt(j, 0, n + 1, S)
        \/ k = l /\ n = Len(q) + 1 /\ EventAt(j, 0, 1, S)
        \/ k = l /\ n \in 1 .. Len(q) /\ EventAt(j, l, n, S)
        \/ k # 0 /\ k # l /\ EventAt(j, k, n, S)
    BY <1>10
  <2>3. \A a, b, x, y : EventAt(j, a, x, S) /\ EventAt(j, b, y, S) => a = b /\ x = y
    BY <1>12 DEF Single
  <2> QED BY <1>7, <2>1, <2>2, <2>3
<1> QED BY <1>11, <1>12

(* The places and the pending events. *)
LEMMA PendingAt ==
  ASSUME TypeOK, NEW j \in Thread, NEW e \in Pending(j)
  PROVE  e \in Event /\ \E i, n : EventAt(j, i, n, {e})
<1>1. /\ mEvents[j] \in Seq(ChainedQueue) /\ Len(mEvents[j]) \in Nat /\ popped[j] \in Seq(Event)
      /\ \A i \in 1 .. Len(mEvents[j]) : mEvents[j][i].q \in Seq(Event)
  BY ChainType
<1>2. e \in Range(popped[j]) \/ \E i \in 1 .. Len(mEvents[j]) : e \in Range(mEvents[j][i].q)
  BY <1>1, PendingMeans DEF Pending
<1>3. ASSUME NEW s \in Seq(Event), e \in Range(s) PROVE e \in Event /\ \E n \in 1 .. Len(s) : s[n] = e
  BY <1>3, LenProperties, ElementOfSeq DEF Range
<1>4. CASE e \in Range(popped[j])
  <2>1. PICK n \in 1 .. Len(popped[j]) : popped[j][n] = e
    BY <1>1, <1>3, <1>4
  <2>2. 0 \in 0 .. Len(mEvents[j]) /\ Slot(j, 0) = popped[j]
    BY <1>1 DEF Slot
  <2>3. EventAt(j, 0, n, {e})
    BY <2>1, <2>2 DEF EventAt
  <2> QED BY <1>1, <1>3, <1>4, <2>3
<1>5. ASSUME NEW i \in 1 .. Len(mEvents[j]), e \in Range(mEvents[j][i].q)
      PROVE  e \in Event /\ \E k, n : EventAt(j, k, n, {e})
  <2>1. PICK n \in 1 .. Len(mEvents[j][i].q) : mEvents[j][i].q[n] = e
    BY <1>1, <1>3, <1>5
  <2>2. i \in 0 .. Len(mEvents[j]) /\ i # 0
    BY <1>1
  <2>3. Slot(j, i) = mEvents[j][i].q
    BY <2>2 DEF Slot
  <2>4. EventAt(j, i, n, {e})
    BY <2>1, <2>2, <2>3 DEF EventAt
  <2> QED BY <1>1, <1>3, <1>5, <2>4
<1> QED BY <1>2, <1>4, <1>5

AllFound == TypeOK => \A j \in Thread : \A e \in Pending(j) : e \in Event /\ \E i, n : EventAt(j, i, n, {e})

LEMMA AllFoundThen == AllFound'
<1>1. AllFound
  BY PendingAt DEF AllFound
<1> QED BY <1>1, PTL

LEMMA AtPending ==
  ASSUME TypeOK, NEW j \in Thread, NEW i, NEW n, NEW S, EventAt(j, i, n, S)
  PROVE  \E e \in Pending(j) : e \in S
<1>1. /\ mEvents[j] \in Seq(ChainedQueue) /\ Len(mEvents[j]) \in Nat /\ popped[j] \in Seq(Event)
      /\ \A k \in 1 .. Len(mEvents[j]) : mEvents[j][k].q \in Seq(Event)
  BY ChainType
<1>2. i \in 0 .. Len(mEvents[j]) /\ n \in 1 .. Len(Slot(j, i)) /\ Slot(j, i)[n] \in S
  BY DEF EventAt
<1>3. i # 0 => i \in 1 .. Len(mEvents[j])
  BY <1>1, <1>2
<1>4. Slot(j, i) \in Seq(Event)
  BY <1>1, <1>3 DEF Slot
<1>5. Slot(j, i)[n] \in Range(Slot(j, i))
  BY <1>2, <1>4, LenProperties DEF Range
<1>6. Slot(j, i)[n] \in Pending(j)
  <2>1. \A x : x \in Pending(j) <=>
          x \in Range(popped[j]) \/ \E k \in 1 .. Len(mEvents[j]) : x \in Range(mEvents[j][k].q)
    BY <1>1, PendingMeans DEF Pending
  <2> QED BY <1>3, <1>5, <2>1 DEF Slot
<1> QED BY <1>2, <1>6
--------------------------------------------------------------------------------
(* Where the acknowledgements are *)

LEMMA PutOneAck ==
  ASSUME Basic, NEW u \in Thread, NEW e \in Event, PutEvent(u, e) \/ mEvents' = Put(u, e),
         popped' = popped, AckOnce, e.k = "ack" => \A k, n : ~AckAt(u, k, n, e.t)
  PROVE  AckOnce'
<1> SUFFICES ASSUME NEW v \in Thread, NEW t \in Thread PROVE Single(v, Answers(t))'
  BY DEF AckOnce, Answers, Event, Kind
<1> QED BY PutSingle DEF AckOnce, AckAt, Answers

LEMMA TakeAcks ==
  ASSUME Basic, NEW j \in Thread, HasPendingEvent(j), AckOnce,
         mEvents' = [mEvents EXCEPT ![j][Len(mEvents[j])].q = Tail(@)], popped' = popped
  PROVE  /\ AckOnce'
         /\ NextEvent(j).k = "ack" => \A t, k, n : t = NextEvent(j).t => ~AckAt(j, k, n, t)'
<1>1. NextEvent(j) \in Event
  BY TakeFacts DEF Basic, Shape
<1>2. ASSUME NEW t \in Thread
      PROVE  /\ \A v \in Thread : Single(v, Answers(t))'
             /\ NextEvent(j) \in Answers(t) => \A k, n : ~EventAt(j, k, n, Answers(t))'
  BY TakeSingle DEF AckOnce
<1>3. NextEvent(j).k = "ack" => \A t, k, n : t = NextEvent(j).t => ~AckAt(j, k, n, t)'
  BY <1>1, <1>2 DEF AckAt, Answers, Event
<1> QED BY <1>2, <1>3 DEF AckOnce

LEMMA PushAcks ==
  ASSUME Basic, NEW j \in Thread, NEW f \in Filter, AckOnce,
         mEvents' = [mEvents EXCEPT ![j] = Append(@, [filter |-> f, q |-> <<>>])], popped' = popped
  PROVE  AckOnce'
BY PushSingle DEF AckOnce

LEMMA PopAcks ==
  ASSUME Basic, NEW j \in Thread, Len(mEvents[j]) >= 2, popped[j] = <<>>, AckOnce,
         popped' = [popped EXCEPT ![j] = Newest(j).q],
         mEvents' = [mEvents EXCEPT ![j] = SubSeq(@, 1, Len(@) - 1)]
  PROVE  AckOnce'
BY PopSingle DEF AckOnce

LEMMA RepostAcks ==
  ASSUME Basic, NEW j \in Thread, popped[j] # <<>>, AckOnce,
         mEvents' = Put(j, Head(popped[j])), popped' = [popped EXCEPT ![j] = Tail(@)]
  PROVE  AckOnce'
BY RepostSingle DEF AckOnce

LEMMA AcksFound ==
  ASSUME TypeOK', NEW j \in Thread, NEW e \in Pending(j)', e.k = "ack"
  PROVE  \E i, n : AckAt(j, i, n, e.t)'
<1>1. e \in Event /\ \E i, n : EventAt(j, i, n, {e})'
  BY AllFoundThen DEF AllFound
<1> QED BY <1>1 DEF AckAt, EventAt, Answers

LEMMA PendingAck ==
  ASSUME TypeOK, NEW j \in Thread, NEW i, NEW n, NEW t, AckAt(j, i, n, t)
  PROVE  \E e \in Pending(j) : e.k = "ack" /\ e.t = t
BY AtPending DEF AckAt, Answers

(* Every step but DispatchAck leaves at most one answer about each thread. *)
LEMMA QuietAcks == ASSUME AckOnce, mEvents' = mEvents, popped' = popped PROVE AckOnce'
BY SingleSame DEF AckOnce
--------------------------------------------------------------------------------
(* Who waits for whom *)

(* Calls of Shutdown go on. *)
Persist == \A j, t \in Thread : InShutdown(j, t) => InShutdown(j, t)'

(* No call of Shutdown gets to the join. *)
JoinOld ==
  \A j \in Thread : \A i \in DOMAIN stk'[j] : stk'[j][i].fn = "Shutdown" /\ stk'[j][i].at = "join" =>
    i \in DOMAIN stk[j] /\ stk[j][i].fn = "Shutdown" /\ stk[j][i].at = "join" /\ stk[j][i].t = stk'[j][i].t

(* Nobody is told to shut down or answered. *)
PendingCalm ==
  \A v \in Thread : \A e \in Pending(v)' : e \in Pending(v) \/ e.k \notin {"shutdown", "ack"}

LEMMA InShutdownMeans ==
  ASSUME NEW j, NEW t
  PROVE  InShutdown(j, t) <=> \E i \in DOMAIN stk[j] : stk[j][i].fn = "Shutdown" /\ stk[j][i].t = t
BY DEF InShutdown, Frames

LEMMA InShutdownThen ==
  ASSUME NEW j, NEW t, NEW i \in DOMAIN stk'[j], stk'[j][i].fn = "Shutdown", stk'[j][i].t = t
  PROVE  InShutdown(j, t)'
BY DEF InShutdown, Frames

LEMMA StayPersist == ASSUME AllStay PROVE Persist
<1> SUFFICES ASSUME NEW j \in Thread, NEW t \in Thread, InShutdown(j, t) PROVE InShutdown(j, t)'
  BY DEF Persist
<1>1. PICK i \in DOMAIN stk[j] : stk[j][i].fn = "Shutdown" /\ stk[j][i].t = t
  BY InShutdownMeans
<1>2. i \in DOMAIN stk'[j] /\ stk'[j][i].fn = "Shutdown" /\ stk'[j][i].t = t
  BY <1>1 DEF AllStay, Stays
<1> QED BY <1>2, InShutdownThen

LEMMA LeftPersist ==
  ASSUME Basic, NEW a \in Thread, stk[a] # <<>>, Left(a), Top(a).fn # "Shutdown"
  PROVE  Persist
<1> SUFFICES ASSUME NEW j \in Thread, NEW t \in Thread, InShutdown(j, t) PROVE InShutdown(j, t)'
  BY DEF Persist
<1>1. PICK i \in DOMAIN stk[j] : stk[j][i].fn = "Shutdown" /\ stk[j][i].t = t
  BY InShutdownMeans
<1>2. Stays(j, i) \/ (j = a /\ i = Len(stk[a]))
  BY LeftFrames DEF Basic
<1>3. ~(j = a /\ i = Len(stk[a]))
  BY <1>1 DEF Top
<1>4. i \in DOMAIN stk'[j] /\ stk'[j][i].fn = "Shutdown" /\ stk'[j][i].t = t
  BY <1>1, <1>2, <1>3 DEF Stays
<1> QED BY <1>4, InShutdownThen

LEMMA GrownJoin ==
  ASSUME NEW a, NEW at, NEW f, Grown(a, at, f), at # "join", f.at # "join"
  PROVE  JoinOld
BY DEF Grown, FromOld, JoinOld

LEMMA CarriedJoin ==
  ASSUME NEW a, NEW at, Carried(a, at), at # "join"
  PROVE  JoinOld
BY DEF Carried, FromOld, JoinOld

LEMMA CalmAs == ASSUME PendingAs PROVE PendingCalm
BY DEF PendingAs, PendingCalm

LEMMA CalmPosted ==
  ASSUME NEW u \in Thread, NEW e, Posted(u, e), e.k \notin {"shutdown", "ack"}
  PROVE  PendingCalm
BY DEF Posted, PendingAs, PendingPlus, PendingCalm

LEMMA CalmPlus ==
  ASSUME NEW u \in Thread, NEW e, PendingPlus(u, e), e.k \notin {"shutdown", "ack"}
  PROVE  PendingCalm
BY DEF PendingPlus, PendingCalm

(* A finished thread stays so. *)
LEMMA FinishedStays ==
  ASSUME NEW t, Finished(t), known \subseteq known', stk'[t] = stk[t] \/ stk'[t] = <<>>
  PROVE  Finished(t)'
BY DEF Finished, Top

(* The steps of a thread that do not touch the answers. *)
Calm(a) ==
  /\ stk[a] # <<>> /\ Top(a).at # "bye"
  /\ \A v \in Thread \ {a} : stk'[v] = stk[v] \/ (v \notin known /\ stk[v] = <<>>)
  /\ Persist /\ JoinOld /\ PendingCalm
  /\ known \subseteq known' /\ \A v \in Thread : mEventsAreDoomed[v] => mEventsAreDoomed'[v]
  /\ \A u \in known' \ {Main} : ~mShutdownRequired'[u] =>
       (u \in known /\ ~mShutdownRequired[u]) \/ \E t \in Thread : InShutdown(t, u)'
  /\ UNCHANGED <<shutdownAck, mShutdownContext>>

LEMMA CalmFinished ==
  ASSUME NEW a \in Thread, Calm(a), NEW t \in Thread, Finished(t)
  PROVE  Finished(t)'
<1>1. t # a /\ t \in known
  BY DEF Calm, Finished
<1>2. stk'[t] = stk[t] /\ known \subseteq known'
  BY <1>1 DEF Calm
<1> QED BY <1>2, FinishedStays

(* The steps that answer nobody. *)
Gentle ==
  /\ Persist /\ known \subseteq known' /\ \A v \in Thread : mEventsAreDoomed[v] => mEventsAreDoomed'[v]
  /\ shutdownAck' = shutdownAck /\ \A v \in Thread : Finished(v) => Finished(v)'
  /\ \A v \in known : stk[v] = <<>> => stk'[v] = <<>>
  /\ \A v, j \in Thread : mShutdownContext'[v] = j => mShutdownContext[v] = j \/ InShutdown(j, v)'
  /\ \A v \in Thread : \A e \in Pending(v)' :
       e \in Pending(v) \/ (e.k # "ack" /\ (e.k = "shutdown" => InShutdown(e.t, v)'))
  /\ \A j \in Thread : \A i \in DOMAIN stk'[j] :
       stk'[j][i].fn = "Shutdown" /\ stk'[j][i].at = "join" => shutdownAck[stk'[j][i].t]
  /\ \A u \in known' \ {Main} : ~mShutdownRequired'[u] =>
       (u \in known /\ ~mShutdownRequired[u]) \/ \E t \in Thread : InShutdown(t, u)'

LEMMA CalmGentle == ASSUME Joining, NEW a \in Thread, Calm(a) PROVE Gentle
<1>1. \A v \in Thread : Finished(v) => Finished(v)'
  BY CalmFinished
<1>2. \A v \in known : stk[v] = <<>> => stk'[v] = <<>>
  BY DEF Calm, Joining, Orderly, Basic, TypeOK
<1>3. \A v \in Thread : \A e \in Pending(v)' :
        e \in Pending(v) \/ (e.k # "ack" /\ (e.k = "shutdown" => InShutdown(e.t, v)'))
  BY DEF Calm, PendingCalm
<1>4. \A j \in Thread : \A i \in DOMAIN stk'[j] :
        stk'[j][i].fn = "Shutdown" /\ stk'[j][i].at = "join" => shutdownAck[stk'[j][i].t]
  BY DEF Calm, JoinOld, Joining, Acked
<1> QED BY <1>1, <1>2, <1>3, <1>4 DEF Calm, Gentle

LEMMA GentleKeeps ==
  ASSUME Joining, Gentle
  PROVE  Contexts' /\ Acked' /\ ShutDownForGood'
<1>1. Persist /\ known \subseteq known' /\ shutdownAck' = shutdownAck
  BY DEF Gentle
<1>2. Contexts /\ Acked /\ ShutDownForGood /\ Orderly
  BY DEF Joining
<1>3. ASSUME NEW t \in Thread, NEW j \in Thread
      PROVE  /\ mShutdownContext'[t] = j /\ stk'[t] # <<>> => InShutdown(j, t)'
             /\ \A e \in Pending(t)' : e.k = "shutdown" /\ e.t = j => InShutdown(j, t)'
             /\ \A e \in Pending(j)' : e.k = "ack" /\ e.t = t =>
                  InShutdown(j, t)' /\ Finished(t)' /\ ~shutdownAck'[t]
  <2>1. ASSUME mShutdownContext'[t] = j, stk'[t] # <<>> PROVE InShutdown(j, t)'
    <3>0. mShutdownContext[t] = j \/ InShutdown(j, t)'
      BY <2>1 DEF Gentle
    <3>1. CASE mShutdownContext[t] = j
      <4>1. j # NoThread
        BY ThreadConstants
      <4>2. t \in known
        BY <1>2, <3>1, <4>1 DEF Orderly, Claims, OnlyKnown
      <4>3. stk[t] # <<>>
        BY <2>1, <4>2 DEF Gentle
      <4> QED BY <1>1, <1>2, <3>1, <4>3 DEF Contexts, Persist
    <3> QED BY <3>0, <3>1
  <2>2. ASSUME NEW e \in Pending(t)', e.k = "shutdown", e.t = j PROVE InShutdown(j, t)'
    <3>1. e \in Pending(t) \/ InShutdown(j, t)'
      BY <2>2 DEF Gentle
    <3> QED BY <1>1, <1>2, <2>2, <3>1 DEF Contexts, Persist
  <2>3. ASSUME NEW e \in Pending(j)', e.k = "ack", e.t = t
        PROVE  InShutdown(j, t)' /\ Finished(t)' /\ ~shutdownAck'[t]
    <3>1. e \in Pending(j)
      BY <2>3 DEF Gentle
    <3>2. InShutdown(j, t) /\ Finished(t) /\ ~shutdownAck[t]
      BY <1>2, <2>3, <3>1 DEF Contexts
    <3> QED BY <1>1, <3>2 DEF Persist, Gentle
  <2> QED BY <2>1, <2>2, <2>3
<1>4. Contexts'
  BY <1>3 DEF Contexts
<1>5. Acked'
  <2>1. ASSUME NEW t \in Thread, shutdownAck'[t] PROVE Finished(t)'
    BY <1>1, <1>2, <2>1 DEF Acked, Gentle
  <2>2. ASSUME NEW j \in Thread, NEW i \in DOMAIN stk'[j], stk'[j][i].fn = "Shutdown", stk'[j][i].at = "join"
        PROVE  shutdownAck'[stk'[j][i].t]
    BY <1>1, <2>2 DEF Gentle
  <2> QED BY <2>1, <2>2 DEF Acked
<1>6. ShutDownForGood'
  <2> SUFFICES ASSUME NEW u \in known' \ {Main}, ~mShutdownRequired'[u],
                      \A t \in Thread : ~InShutdown(t, u)'
               PROVE  mEventsAreDoomed'[u] /\ stk'[u] = <<>>
    BY DEF ShutDownForGood
  <2>1. u \in known /\ ~mShutdownRequired[u] /\ u \in Thread
    BY <1>2 DEF Gentle, Orderly, Basic, TypeOK
  <2>2. \A t \in Thread : ~InShutdown(t, u)
    BY <1>1, <2>1 DEF Persist
  <2>3. mEventsAreDoomed[u] /\ stk[u] = <<>>
    BY <1>2, <2>1, <2>2 DEF ShutDownForGood
  <2> QED BY <2>1, <2>3 DEF Gentle
<1> QED BY <1>4, <1>5, <1>6

answerVars == <<known, mShutdownRequired, mShutdownContext, shutdownAck>>

DoomStays == \A v \in Thread : mEventsAreDoomed[v] => mEventsAreDoomed'[v]

LEMMA CalmSame ==
  ASSUME NEW t \in Thread, stk[t] # <<>>, Top(t).at # "bye", stk' = stk,
         UNCHANGED answerVars, DoomStays, PendingCalm
  PROVE  Calm(t)
<1>1. Persist /\ JoinOld
  BY SameFrames, StayPersist, CarriedJoin
<1> QED BY <1>1 DEF Calm, answerVars, DoomStays

LEMMA CalmMoved ==
  ASSUME Basic, NEW t \in Thread, NEW at, stk[t] # <<>>, Top(t).at # "bye", at # "join", Moved(t, at),
         UNCHANGED answerVars, DoomStays, PendingCalm
  PROVE  Calm(t)
<1>1. Persist /\ JoinOld
  BY MovedFrames, StayPersist, CarriedJoin DEF Basic
<1>2. \A v \in Thread \ {t} : stk'[v] = stk[v]
  BY DEF Moved
<1> QED BY <1>1, <1>2 DEF Calm, answerVars, DoomStays

LEMMA CalmInto ==
  ASSUME Basic, NEW t \in Thread, NEW at, NEW f, stk[t] # <<>>, Top(t).at # "bye", at # "join",
         f.at # "join", MovedInto(t, at, f), UNCHANGED answerVars, DoomStays, PendingCalm
  PROVE  Calm(t)
<1>1. Persist /\ JoinOld
  BY MovedIntoFrames, StayPersist, GrownJoin DEF Basic
<1>2. \A v \in Thread \ {t} : stk'[v] = stk[v]
  BY DEF MovedInto
<1> QED BY <1>1, <1>2 DEF Calm, answerVars, DoomStays

LEMMA CalmLeft ==
  ASSUME Basic, NEW t \in Thread, stk[t] # <<>>, Top(t).at # "bye", Top(t).fn # "Shutdown", Left(t),
         known \subseteq known', UNCHANGED <<mShutdownRequired, mShutdownContext, shutdownAck>>,
         \A u \in known' : u \in known \/ mShutdownRequired[u], DoomStays, PendingCalm
  PROVE  Calm(t)
<1>1. Persist
  BY LeftPersist
<1>2. Carried(t, "loop")
  BY LeftFrames DEF Basic
<1>3. JoinOld
  BY <1>2, CarriedJoin
<1>4. \A v \in Thread \ {t} : stk'[v] = stk[v]
  BY DEF Left
<1> QED BY <1>1, <1>3, <1>4 DEF Calm, DoomStays
--------------------------------------------------------------------------------
(* One lemma per group of actions: the step is calm, and no answer is      *)
(* given twice.                                                            *)

LEMMA DispatchCalm ==
  ASSUME Joining, NEW t \in Thread, NEW u \in Thread, Dispatch(t, u) \/ DispatchSync(t, u)
  PROVE  Calm(t) /\ AckOnce'
<1>b. Basic /\ AckOnce
  BY DEF Joining, Orderly
<1>0. nEvents + 1 \in 0 .. MaxEvents
  BY <1>b, ThreadConstants DEF Basic, TypeOK, Dispatch, DispatchSync
<1>1. /\ stk[t] # <<>> /\ Top(t).at \in {"loop", "task"} /\ UNCHANGED answerVars /\ DoomStays
      /\ popped' = popped
  BY <1>b, ClientCode DEF Dispatch, DispatchSync, answerVars, shutVars, DoomStays
<1>2. CASE Dispatch(t, u)
  <2>1. /\ stk' = stk /\ \E e \in Event : e.k = "task" /\ e.id = nEvents + 1 /\ Posted(u, e)
    BY <1>b, <1>2, DispatchFacts
  <2>2. PendingCalm
    BY <2>1, CalmPosted
  <2>3. AckOnce'
    <3> DEFINE e == [k |-> "task", id |-> nEvents + 1, t |-> t]
    <3>1. e \in Event /\ e.k # "ack"
      BY <1>0 DEF Event, Kind
    <3>2. PutEvent(u, e)
      BY <1>2 DEF Dispatch
    <3> HIDE DEF e
    <3> QED BY <1>b, <1>1, <3>1, <3>2, PutOneAck
  <2> QED BY <1>1, <2>1, <2>2, <2>3, CalmSame
<1>3. CASE DispatchSync(t, u)
  <2>1. /\ mEventsAreDoomed[u] => stk' = stk
        /\ \E e \in Event : e.k = "sync" /\ e.id = nEvents + 1 /\ Posted(u, e)
        /\ ~mEventsAreDoomed[u] => \E f : /\ f.fn = "Dispatch" /\ f.at = "test" /\ f.id = nEvents + 1
                                          /\ MovedInto(t, Top(t).at, f)
    BY <1>b, <1>3, DispatchSyncFacts
  <2>2. PendingCalm
    BY <2>1, CalmPosted
  <2>3. AckOnce'
    <3> DEFINE e == [k |-> "sync", id |-> nEvents + 1, t |-> t]
    <3>1. e \in Event /\ e.k # "ack"
      BY <1>0 DEF Event, Kind
    <3>2. PutEvent(u, e)
      BY <1>3 DEF DispatchSync
    <3> HIDE DEF e
    <3> QED BY <1>b, <1>1, <3>1, <3>2, PutOneAck
  <2>4. CASE mEventsAreDoomed[u]
    BY <1>1, <2>1, <2>2, <2>3, <2>4, CalmSame
  <2>5. CASE ~mEventsAreDoomed[u]
    <3>1. PICK f : f.fn = "Dispatch" /\ f.at = "test" /\ MovedInto(t, Top(t).at, f)
      BY <2>1, <2>5
    <3> QED BY <1>b, <1>1, <2>2, <2>3, <3>1, CalmInto
  <2> QED BY <2>4, <2>5
<1> QED BY <1>2, <1>3

LEMMA NewThreadCalm ==
  ASSUME Joining, NEW t \in Thread, NEW u \in Thread, NewThread(t, u)
  PROVE  Calm(t) /\ AckOnce'
<1>b. Basic /\ AckOnce
  BY DEF Joining, Orderly
<1>1. Created(t, u) /\ PendingAs
  BY <1>b, NewThreadStep
<1>2. /\ stk[t] # <<>> /\ Top(t).at \in {"loop", "task"} /\ u \notin known /\ stk[u] = <<>>
      /\ mEvents' = mEvents /\ popped' = popped /\ mEventsAreDoomed' = mEventsAreDoomed
      /\ known' = known /\ shutdownAck' = shutdownAck /\ mShutdownContext' = mShutdownContext
      /\ mShutdownRequired' = [mShutdownRequired EXCEPT ![u] = TRUE]
  BY <1>b, ClientCode DEF NewThread, queueVars
<1>3. \A v \in Thread \ {t} : stk'[v] = stk[v] \/ (v \notin known /\ stk[v] = <<>>)
  BY <1>1, <1>2 DEF Created
<1>4. Persist
  BY <1>b, <1>1, CreatedFrames, StayPersist DEF Basic
<1>5. JoinOld
  <2>1. \A v \in Thread : \A i \in DOMAIN stk'[v] :
          \/ FromOld(v, i, t, "loop")
          \/ v = t /\ i = Len(stk[t]) + 1 /\ stk'[v][i] = InitFrame(t, u)
          \/ v = u /\ stk'[v][i] = FirstFrame(u)
    BY <1>b, <1>1, CreatedFrames DEF Basic
  <2>2. InitFrame(t, u).at = "put" /\ FirstFrame(u).at = "start"
    BY DEF InitFrame, FirstFrame
  <2> QED BY <2>1, <2>2 DEF JoinOld, FromOld
<1>6. \A v \in known' \ {Main} : ~mShutdownRequired'[v] => v \in known /\ ~mShutdownRequired[v]
  <2>1. mShutdownRequired \in [Thread -> BOOLEAN] /\ known \subseteq Thread
    BY <1>b DEF Basic, TypeOK
  <2> QED BY <1>2, <2>1
<1>7. AckOnce' /\ PendingCalm
  BY <1>b, <1>1, <1>2, QuietAcks, CalmAs
<1> QED BY <1>2, <1>3, <1>4, <1>5, <1>6, <1>7 DEF Calm

LEMMA ClaimingCalm ==
  ASSUME Joining, NEW t \in Thread, NEW u \in Thread, Claiming(t, u)
  PROVE  Calm(t) /\ AckOnce'
<1>b. Basic /\ AckOnce
  BY DEF Joining, Orderly
<1>1. MovedInto(t, Top(t).at, ShutdownFrame(t, u)) /\ PendingAs
  BY <1>b, ClaimingFacts
<1>2. /\ stk[t] # <<>> /\ Top(t).at \in {"loop", "task"}
      /\ mEvents' = mEvents /\ popped' = popped /\ mEventsAreDoomed' = mEventsAreDoomed
      /\ known' = known /\ shutdownAck' = shutdownAck /\ mShutdownContext' = mShutdownContext
      /\ mShutdownRequired' = [mShutdownRequired EXCEPT ![u] = FALSE]
  BY <1>b, ClientCode DEF Claiming, Claim, queueVars
<1>3. ShutdownFrame(t, u).fn = "Shutdown" /\ ShutdownFrame(t, u).t = u /\ ShutdownFrame(t, u).at = "put"
  BY DEF ShutdownFrame
<1>4. Persist /\ JoinOld
  BY <1>b, <1>1, <1>2, <1>3, MovedIntoFrames, StayPersist, GrownJoin DEF Basic
<1>5. InShutdown(t, u)'
  <2>1. Len(stk[t]) + 1 \in DOMAIN stk'[t] /\ stk'[t][Len(stk[t]) + 1] = ShutdownFrame(t, u)
    BY <1>b, <1>1, StackType DEF MovedInto, Basic
  <2> QED BY <1>3, <2>1, InShutdownThen
<1>6. \A v \in known' \ {Main} : ~mShutdownRequired'[v] =>
        (v \in known /\ ~mShutdownRequired[v]) \/ \E j \in Thread : InShutdown(j, v)'
  <2>1. mShutdownRequired \in [Thread -> BOOLEAN] /\ known \subseteq Thread
    BY <1>b DEF Basic, TypeOK
  <2>2. \A v \in known' \ {Main} : ~mShutdownRequired'[v] => (v \in known /\ ~mShutdownRequired[v]) \/ v = u
    BY <1>2, <2>1
  <2> QED BY <1>5, <2>2
<1>7. AckOnce' /\ PendingCalm
  BY <1>b, <1>1, <1>2, QuietAcks, CalmAs
<1>8. \A v \in Thread \ {t} : stk'[v] = stk[v]
  BY <1>1 DEF MovedInto
<1> QED BY <1>2, <1>4, <1>6, <1>7, <1>8 DEF Calm

LEMMA InitDoneCalm ==
  ASSUME Joining, NEW t \in Thread, InitDone(t)
  PROVE  Calm(t) /\ AckOnce'
<1>b. Basic /\ AckOnce /\ Orderly
  BY DEF Joining, Orderly
<1>1. Left(t) /\ PendingAs
  BY <1>b, InitDoneFacts
<1>2. /\ stk[t] # <<>> /\ Top(t).at = "wait" /\ Top(t).fn = "Init"
      /\ mEvents' = mEvents /\ popped' = popped /\ mEventsAreDoomed' = mEventsAreDoomed
      /\ known' = known \cup {Top(t).t}
      /\ UNCHANGED <<mShutdownRequired, mShutdownContext, shutdownAck>>
  BY DEF InitDone, Is, queueVars, shutVars
<1>3. mShutdownRequired[Top(t).t]
  BY <1>b, <1>2, TopClaims DEF FrameClaims
<1>4. AckOnce' /\ PendingCalm
  BY <1>b, <1>1, <1>2, QuietAcks, CalmAs
<1> QED BY <1>b, <1>1, <1>2, <1>3, <1>4, CalmLeft DEF DoomStays

LEMMA QuietCalm ==
  ASSUME Joining, NEW t \in Thread,
         \/ PopEventQueueDone(t) \/ RunReturns(t) \/ SyncTaskReturns(t)
         \/ DispatchSyncTest(t) \/ DispatchSyncNoWait(t)
         \/ ThreadStart(t) \/ LeaveLoop(t) \/ Doom(t) \/ DrainMore(t) \/ Unregister(t)
  PROVE  Calm(t) /\ AckOnce'
<1>b. Basic /\ AckOnce
  BY DEF Joining, Orderly
<1>1. CASE PopEventQueueDone(t)
  <2>1. Left(t) /\ PendingAs
    BY <1>b, <1>1, PopEventQueueDoneFacts
  <2>2. /\ stk[t] # <<>> /\ Top(t).fn = "EventLoop" /\ Top(t).at = "pop" /\ UNCHANGED answerVars /\ DoomStays
        /\ mEvents' = mEvents /\ popped' = popped
    BY <1>1 DEF PopEventQueueDone, Is, answerVars, shutVars, queueVars, DoomStays
  <2> QED BY <1>b, <2>1, <2>2, QuietAcks, CalmAs, CalmLeft DEF answerVars
<1>2. CASE RunReturns(t)
  <2>1. Left(t) /\ PendingAs
    BY <1>b, <1>2, RunReturnsFacts
  <2>2. /\ stk[t] # <<>> /\ Top(t).fn = "Run" /\ Top(t).at = "task" /\ UNCHANGED answerVars /\ DoomStays
        /\ mEvents' = mEvents /\ popped' = popped
    BY <1>2 DEF RunReturns, Is, answerVars, shutVars, queueVars, DoomStays
  <2> QED BY <1>b, <2>1, <2>2, QuietAcks, CalmAs, CalmLeft DEF answerVars
<1>3. CASE SyncTaskReturns(t)
  <2>1. Moved(t, "reply") /\ PendingAs
    BY <1>b, <1>3, SyncTaskReturnsFacts
  <2>2. /\ stk[t] # <<>> /\ Top(t).at = "task" /\ UNCHANGED answerVars /\ DoomStays
        /\ mEvents' = mEvents /\ popped' = popped
    BY <1>b, <1>3 DEF SyncTaskReturns, Is, answerVars, shutVars, queueVars, DoomStays, Basic, TypeOK
  <2> QED BY <1>b, <2>1, <2>2, QuietAcks, CalmAs, CalmMoved
<1>4. CASE DispatchSyncTest(t)
  <2>1. /\ PendingAs
        /\ Top(t).id \in mSyncTask => Moved(t, "wait")
        /\ Top(t).id \notin mSyncTask => Left(t)
    BY <1>b, <1>4, DispatchSyncTestFacts
  <2>2. /\ stk[t] # <<>> /\ Top(t).fn = "Dispatch" /\ Top(t).at = "test" /\ UNCHANGED answerVars
        /\ DoomStays /\ mEvents' = mEvents /\ popped' = popped
    BY <1>4 DEF DispatchSyncTest, Is, answerVars, shutVars, queueVars, DoomStays
  <2>3. Calm(t)
    <3>1. CASE Top(t).id \in mSyncTask
      BY <1>b, <2>1, <2>2, <3>1, CalmAs, CalmMoved
    <3>2. CASE Top(t).id \notin mSyncTask
      BY <1>b, <2>1, <2>2, <3>2, CalmAs, CalmLeft DEF answerVars
    <3> QED BY <3>1, <3>2
  <2> QED BY <1>b, <2>2, <2>3, QuietAcks
<1>5. CASE DispatchSyncNoWait(t)
  <2>1. Moved(t, "test") /\ PendingAs
    BY <1>b, <1>5, DispatchSyncNoWaitFacts
  <2>2. /\ stk[t] # <<>> /\ Top(t).at = "wait" /\ UNCHANGED answerVars /\ DoomStays
        /\ mEvents' = mEvents /\ popped' = popped
    BY <1>b, <1>5 DEF DispatchSyncNoWait, Is, answerVars, shutVars, queueVars, DoomStays, Basic, TypeOK
  <2> QED BY <1>b, <2>1, <2>2, QuietAcks, CalmAs, CalmMoved
<1>6. CASE ThreadStart(t)
  <2>1. Moved(t, "startup") /\ PendingAs
    BY <1>b, <1>6, ThreadStartFacts
  <2>2. /\ stk[t] # <<>> /\ Top(t).at = "start" /\ UNCHANGED answerVars /\ DoomStays
        /\ mEvents' = mEvents /\ popped' = popped
    BY <1>b, <1>6 DEF ThreadStart, Is, answerVars, shutVars, queueVars, DoomStays, Basic, TypeOK
  <2> QED BY <1>b, <2>1, <2>2, QuietAcks, CalmAs, CalmMoved
<1>7. CASE LeaveLoop(t)
  <2>1. Moved(t, "drain") /\ PendingAs
    BY <1>b, <1>7, LeaveLoopFacts
  <2>2. /\ stk[t] # <<>> /\ Top(t).at = "loop" /\ UNCHANGED answerVars /\ DoomStays
        /\ mEvents' = mEvents /\ popped' = popped
    BY <1>b, <1>7 DEF LeaveLoop, Is, answerVars, shutVars, queueVars, DoomStays, Basic, TypeOK
  <2> QED BY <1>b, <2>1, <2>2, QuietAcks, CalmAs, CalmMoved
<1>8. CASE Doom(t)
  <2>1. Moved(t, "gone") /\ PendingAs
    BY <1>b, <1>8, DoomFacts
  <2>2. /\ stk[t] # <<>> /\ Top(t).at = "drain" /\ UNCHANGED answerVars /\ DoomStays
        /\ mEvents' = mEvents /\ popped' = popped
    BY <1>b, <1>8 DEF Doom, Is, answerVars, shutVars, queueVars, DoomStays, Basic, TypeOK
  <2> QED BY <1>b, <2>1, <2>2, QuietAcks, CalmAs, CalmMoved
<1>9. CASE Unregister(t)
  <2>1. Moved(t, "ack") /\ PendingAs
    BY <1>b, <1>9, UnregisterFacts
  <2>2. /\ stk[t] # <<>> /\ Top(t).at = "gone" /\ UNCHANGED answerVars /\ DoomStays
        /\ mEvents' = mEvents /\ popped' = popped
    BY <1>b, <1>9 DEF Unregister, Is, answerVars, shutVars, queueVars, DoomStays, Basic, TypeOK
  <2> QED BY <1>b, <2>1, <2>2, QuietAcks, CalmAs, CalmMoved
<1>10. CASE DrainMore(t)
  <2>1. /\ PendingAs
        /\ \/ Is(t, "ThreadFunc", "drain") /\ Moved(t, "pending")
           \/ Is(t, "ThreadFunc", "pending") /\ Moved(t, "drain")
    BY <1>b, <1>10, DrainMoreFacts
  <2>2. /\ stk[t] # <<>> /\ Top(t).at \in {"drain", "pending"} /\ UNCHANGED answerVars /\ DoomStays
        /\ mEvents' = mEvents /\ popped' = popped
    BY <2>1, <1>10 DEF DrainMore, Is, answerVars, shutVars, queueVars, DoomStays
  <2>3. Calm(t)
    BY <1>b, <2>1, <2>2, CalmAs, CalmMoved
  <2> QED BY <1>b, <2>2, <2>3, QuietAcks
<1> QED BY <1>1, <1>2, <1>3, <1>4, <1>5, <1>6, <1>7, <1>8, <1>9, <1>10

LEMMA QueueCalm ==
  ASSUME Joining, NEW t \in Thread,
         \/ \E f \in Filter : PushEventQueue(t, f)
         \/ PopEventQueue(t) \/ RepostEvent(t) \/ SyncReply(t) \/ InitPutStartup(t)
  PROVE  Calm(t) /\ AckOnce'
<1>b. Basic /\ AckOnce
  BY DEF Joining, Orderly
<1>1. ASSUME NEW f \in Filter, PushEventQueue(t, f) PROVE Calm(t) /\ AckOnce'
  <2>1. MovedInto(t, Top(t).at, LoopFrame(t)) /\ PendingAs
    BY <1>b, <1>1, PushEventQueueFacts
  <2>2. stk[t] # <<>> /\ Top(t).at \in {"loop", "task"} /\ UNCHANGED answerVars /\ DoomStays
    BY <1>b, <1>1, ClientCode DEF PushEventQueue, answerVars, shutVars, DoomStays
  <2>3. LoopFrame(t).at = "loop"
    BY DEF LoopFrame
  <2>4. AckOnce'
    BY <1>b, <1>1, PushAcks DEF PushEventQueue
  <2> QED BY <1>b, <2>1, <2>2, <2>3, <2>4, CalmAs, CalmInto
<1>2. CASE PopEventQueue(t)
  <2>1. Moved(t, "pop") /\ PendingAs
    BY <1>b, <1>2, PopEventQueueFacts
  <2>2. /\ stk[t] # <<>> /\ Top(t).at = "loop" /\ Top(t).fn = "EventLoop"
        /\ UNCHANGED answerVars /\ DoomStays
    BY <1>2 DEF PopEventQueue, Is, answerVars, shutVars, DoomStays
  <2>3. popped[t] = <<>>
    BY <1>b, <2>2, NothingPopped
  <2>4. Len(mEvents[t]) >= 2
    BY <1>b, <2>2, LoopChain
  <2>5. AckOnce'
    BY <1>b, <1>2, <2>3, <2>4, PopAcks DEF PopEventQueue
  <2> QED BY <1>b, <2>1, <2>2, <2>5, CalmAs, CalmMoved
<1>3. CASE RepostEvent(t)
  <2>1. stk' = stk /\ PendingAs
    BY <1>b, <1>3, RepostEventFacts
  <2>2. stk[t] # <<>> /\ Top(t).at = "pop" /\ UNCHANGED answerVars /\ DoomStays
    BY <1>3 DEF RepostEvent, Is, answerVars, shutVars, DoomStays
  <2>3. AckOnce'
    BY <1>b, <1>3, RepostAcks DEF RepostEvent
  <2> QED BY <2>1, <2>2, <2>3, CalmAs, CalmSame
<1>4. CASE SyncReply(t)
  <2>1. /\ Left(t) /\ Top(t).t \in Thread
        /\ \E e \in Event : e.k = "sync" /\ e.id = Top(t).id /\ Posted(Top(t).t, e)
    BY <1>b, <1>4, SyncReplyFacts
  <2>2. /\ stk[t] # <<>> /\ Top(t).fn = "SyncRun" /\ Top(t).at = "reply" /\ UNCHANGED answerVars
        /\ DoomStays /\ popped' = popped
    BY <1>4 DEF SyncReply, Is, answerVars, shutVars, DoomStays
  <2>3. PendingCalm
    BY <2>1, CalmPosted
  <2>4. AckOnce'
    <3> DEFINE e == [k |-> "sync", id |-> Top(t).id, t |-> Top(t).t]
    <3>1. Top(t) \in Frame
      BY <1>b, <2>2, TopShape DEF Basic
    <3>2. e \in Event /\ e.k # "ack"
      BY <3>1 DEF Event, Kind, Frame
    <3>3. PutEvent(Top(t).t, e)
      BY <1>4 DEF SyncReply
    <3> HIDE DEF e
    <3> QED BY <1>b, <2>1, <2>2, <3>2, <3>3, PutOneAck
  <2> QED BY <1>b, <2>1, <2>2, <2>3, <2>4, CalmLeft DEF answerVars
<1>5. CASE InitPutStartup(t)
  <2>1. /\ Moved(t, "wait") /\ Top(t).t \in Thread
        /\ \E e \in Event : e.k = "startup" /\ PendingPlus(Top(t).t, e)
    BY <1>b, <1>5, InitPutStartupFacts
  <2>2. /\ stk[t] # <<>> /\ Top(t).at = "put" /\ UNCHANGED answerVars /\ DoomStays /\ popped' = popped
    BY <1>5 DEF InitPutStartup, Is, answerVars, shutVars, DoomStays
  <2>3. PendingCalm
    BY <2>1, CalmPlus
  <2>4. AckOnce'
    <3> DEFINE e == [k |-> "startup", id |-> 0, t |-> Top(t).t]
    <3>1. e \in Event /\ e.k # "ack"
      BY <2>1, ThreadConstants DEF Event, Kind
    <3>2. mEvents' = Put(Top(t).t, e)
      BY <1>5 DEF InitPutStartup
    <3> HIDE DEF e
    <3> QED BY <1>b, <2>1, <2>2, <3>1, <3>2, PutOneAck
  <2> QED BY <1>b, <2>1, <2>2, <2>3, <2>4, CalmMoved
<1> QED BY <1>1, <1>2, <1>3, <1>4, <1>5
--------------------------------------------------------------------------------
(* The protocol of Shutdown *)

LEMMA ShutdownPostGentle ==
  ASSUME Joining, NEW t \in Thread, ShutdownPost(t)
  PROVE  Gentle /\ AckOnce'
<1>b. Basic /\ AckOnce /\ Orderly /\ Acked
  BY DEF Joining, Orderly
<1>1. PICK e \in Event : /\ Basic' /\ Moved(t, "wait") /\ Top(t).t \in Thread
                         /\ e.k = "shutdown" /\ e.t = t /\ Posted(Top(t).t, e)
  BY <1>b, ShutdownPostFacts
<1>2. /\ stk[t] # <<>> /\ Top(t).fn = "Shutdown" /\ Top(t).at = "put" /\ UNCHANGED answerVars
      /\ mEventsAreDoomed' = mEventsAreDoomed /\ popped' = popped
  BY DEF ShutdownPost, Is, answerVars, shutVars
<1>3. Persist /\ JoinOld
  BY <1>b, <1>1, MovedFrames, StayPersist, CarriedJoin, <1>2 DEF Basic
<1>4. \A v \in Thread \ {t} : stk'[v] = stk[v]
  BY <1>1 DEF Moved
<1>5. ~Finished(t) /\ \A v \in Thread : Finished(v) => Finished(v)'
  <2>1. ~Finished(t)
    BY <1>2 DEF Finished
  <2> QED BY <1>2, <1>4, <2>1, FinishedStays DEF answerVars
<1>6. PICK u \in Thread : u = Top(t).t
  BY <1>1
<1>7. InShutdown(t, u)'
  <2>1. InShutdown(t, u)
    BY <1>b, <1>2, <1>6, TopShape, InShutdownMeans DEF Basic
  <2> QED BY <1>3, <2>1 DEF Persist
<1>8. \A v \in Thread : \A d \in Pending(v)' :
        d \in Pending(v) \/ (d.k # "ack" /\ (d.k = "shutdown" => InShutdown(d.t, v)'))
  <2>0. Posted(u, e)
    BY <1>1, <1>6
  <2>1. \A v \in Thread : \A d \in Pending(v)' : d \in Pending(v) \/ (d = e /\ v = u)
    BY <2>0 DEF Posted, PendingAs, PendingPlus
  <2> QED BY <1>1, <1>7, <2>1
<1>9. AckOnce'
  <2> DEFINE d == [k |-> "shutdown", id |-> 0, t |-> t]
  <2>1. d \in Event /\ d.k # "ack"
    BY ThreadConstants DEF Event, Kind
  <2>2. PutEvent(u, d)
    BY <1>6 DEF ShutdownPost
  <2> HIDE DEF d
  <2> QED BY <1>b, <1>2, <2>1, <2>2, PutOneAck
<1>10. \A j \in Thread : \A i \in DOMAIN stk'[j] :
         stk'[j][i].fn = "Shutdown" /\ stk'[j][i].at = "join" => shutdownAck[stk'[j][i].t]
  BY <1>b, <1>3 DEF JoinOld, Acked
<1>11. \A v \in known : stk[v] = <<>> => stk'[v] = <<>>
  BY <1>b, <1>2, <1>4 DEF Basic, TypeOK
<1> QED BY <1>2, <1>3, <1>5, <1>8, <1>9, <1>10, <1>11 DEF Gentle, answerVars

(* The answer has come: the thread may be joined. *)
LEMMA ShutdownAckedGentle ==
  ASSUME Joining, NEW t \in Thread, ShutdownAcked(t)
  PROVE  Gentle /\ AckOnce'
<1>b. Basic /\ AckOnce /\ Orderly /\ Acked
  BY DEF Joining, Orderly
<1>1. Moved(t, "join") /\ PendingAs
  BY <1>b, ShutdownAckedFacts
<1>2. /\ stk[t] # <<>> /\ Top(t).at = "wait" /\ UNCHANGED answerVars /\ shutdownAck[Top(t).t]
      /\ mEventsAreDoomed' = mEventsAreDoomed /\ mEvents' = mEvents /\ popped' = popped
  BY DEF ShutdownAcked, Is, answerVars, shutVars, queueVars
<1>3. Persist /\ Carried(t, "join")
  BY <1>b, <1>1, <1>2, MovedFrames, StayPersist DEF Basic
<1>4. \A v \in Thread \ {t} : stk'[v] = stk[v]
  BY <1>1 DEF Moved
<1>5. \A v \in Thread : Finished(v) => Finished(v)'
  <2>1. ~Finished(t)
    BY <1>2 DEF Finished
  <2> QED BY <1>2, <1>4, <2>1, FinishedStays DEF answerVars
<1>6. \A j \in Thread : \A i \in DOMAIN stk'[j] :
        stk'[j][i].fn = "Shutdown" /\ stk'[j][i].at = "join" => shutdownAck[stk'[j][i].t]
  <2> SUFFICES ASSUME NEW j \in Thread, NEW i \in DOMAIN stk'[j],
                      stk'[j][i].fn = "Shutdown", stk'[j][i].at = "join"
               PROVE  shutdownAck[stk'[j][i].t]
    OBVIOUS
  <2>1. FromOld(j, i, t, "join")
    BY <1>3 DEF Carried
  <2>2. CASE stk'[j][i].at = stk[j][i].at
    BY <1>b, <2>1, <2>2 DEF FromOld, Acked
  <2>3. CASE j = t /\ i = Len(stk[t])
    BY <1>2, <2>1, <2>3 DEF FromOld, Top
  <2> QED BY <2>1, <2>2, <2>3 DEF FromOld
<1>7. AckOnce'
  BY <1>b, <1>2, QuietAcks
<1>8. \A v \in known : stk[v] = <<>> => stk'[v] = <<>>
  BY <1>b, <1>2, <1>4 DEF Basic, TypeOK
<1> QED BY <1>1, <1>2, <1>3, <1>5, <1>6, <1>7, <1>8 DEF Gentle, answerVars, PendingAs

LEMMA ThreadExitGentle ==
  ASSUME Joining, NEW t \in Thread, ThreadExit(t)
  PROVE  Gentle /\ AckOnce'
<1>b. Basic /\ AckOnce /\ Orderly /\ Acked
  BY DEF Joining, Orderly
<1>1. Left(t) /\ PendingAs
  BY <1>b, ThreadExitFacts
<1>2. /\ stk[t] # <<>> /\ Top(t).at = "bye" /\ Top(t).fn = "ThreadFunc" /\ UNCHANGED answerVars
      /\ mEventsAreDoomed' = mEventsAreDoomed /\ mEvents' = mEvents /\ popped' = popped
  BY DEF ThreadExit, Is, answerVars, shutVars, queueVars
<1>3. Persist /\ JoinOld
  <2>1. Carried(t, "loop")
    BY <1>b, <1>1, <1>2, LeftFrames DEF Basic
  <2> QED BY <1>b, <1>1, <1>2, <2>1, LeftPersist, CarriedJoin
<1>4. (\A v \in Thread \ {t} : stk'[v] = stk[v]) /\ stk'[t] = <<>>
  <2>1. Len(stk[t]) = 1
    BY <1>b, <1>2, TopShape DEF Basic
  <2>2. Len(stk'[t]) = 0 /\ stk'[t] \in Seq(Frame)
    BY <1>1, <2>1 DEF Left
  <2> QED BY <1>1, <2>2, EmptySeq DEF Left
<1>5. \A v \in Thread : Finished(v) => Finished(v)'
  BY <1>2, <1>4, FinishedStays DEF answerVars
<1>6. \A j \in Thread : \A i \in DOMAIN stk'[j] :
        stk'[j][i].fn = "Shutdown" /\ stk'[j][i].at = "join" => shutdownAck[stk'[j][i].t]
  BY <1>b, <1>3 DEF JoinOld, Acked
<1>7. AckOnce'
  BY <1>b, <1>2, QuietAcks
<1>8. \A v \in known : stk[v] = <<>> => stk'[v] = <<>>
  BY <1>b, <1>2, <1>4 DEF Basic, TypeOK
<1> QED BY <1>1, <1>2, <1>3, <1>5, <1>6, <1>7, <1>8 DEF Gentle, answerVars, PendingAs

(* What every event that is taken does to the stacks. *)
LEMMA TakingStacks ==
  ASSUME Joining, NEW t \in Thread, NEW at \in At, Taking(t, at)
  PROVE  /\ Persist /\ JoinOld /\ \A v \in Thread : Finished(v) => Finished(v)'
         /\ \A v \in known : stk[v] = <<>> => stk'[v] = <<>>
         /\ \A v \in Thread : stk'[v] # <<>> => stk[v] # <<>>
<1>b. Basic
  BY DEF Joining, Orderly
<1>1. /\ Runs(NextEvent(t)) => MovedInto(t, at, RunFrame(t, NextEvent(t)))
      /\ ~Runs(NextEvent(t)) => Moved(t, at)
  BY <1>b, TakingFacts
<1>2. /\ stk[t] # <<>> /\ at # "join" /\ Top(t).at # "bye" /\ known' = known
      /\ RunFrame(t, NextEvent(t)).at = "task"
  BY DEF Taking, TakeAndRun, RunFrame
<1>3. Persist /\ JoinOld /\ \A v \in Thread \ {t} : stk'[v] = stk[v]
  <2>1. CASE Runs(NextEvent(t))
    BY <1>b, <1>1, <1>2, <2>1, MovedIntoFrames, StayPersist, GrownJoin DEF Basic, MovedInto
  <2>2. CASE ~Runs(NextEvent(t))
    BY <1>b, <1>1, <1>2, <2>2, MovedFrames, StayPersist, CarriedJoin DEF Basic, Moved
  <2> QED BY <2>1, <2>2
<1>4. \A v \in Thread : Finished(v) => Finished(v)'
  <2>1. ~Finished(t)
    BY <1>2 DEF Finished
  <2> QED BY <1>2, <1>3, <2>1, FinishedStays
<1>5. \A v \in known : stk[v] = <<>> => stk'[v] = <<>>
  BY <1>b, <1>2, <1>3 DEF Basic, TypeOK
<1> QED BY <1>2, <1>3, <1>4, <1>5

LEMMA TakingGentle ==
  ASSUME Joining, NEW t \in Thread, NEW at \in At, Taking(t, at), NextEvent(t).k # "ack"
  PROVE  Gentle
<1> DEFINE e == NextEvent(t)
<1>b. Basic /\ Contexts /\ Acked
  BY DEF Joining, Orderly
<1>1. PendingTaken(t, e) /\ e \in Event
  BY <1>b, TakingFacts
<1>2. /\ Persist /\ JoinOld /\ \A v \in Thread : Finished(v) => Finished(v)'
      /\ \A v \in known : stk[v] = <<>> => stk'[v] = <<>>
  BY TakingStacks
<1>3. /\ UNCHANGED <<known, mShutdownRequired, mEventsAreDoomed>> /\ shutdownAck' = shutdownAck
      /\ mShutdownContext' = IF e.k = "shutdown" THEN [mShutdownContext EXCEPT ![t] = e.t]
                                                 ELSE mShutdownContext
  BY DEF Taking, TakeAndRun, RunEvent
<1> HIDE DEF e
<1>4. \A v, j \in Thread : mShutdownContext'[v] = j => mShutdownContext[v] = j \/ InShutdown(j, v)'
  <2>1. mShutdownContext \in [Thread -> Thread \cup {NoThread}]
    BY <1>b DEF Basic, TypeOK
  <2>2. e.k = "shutdown" => e.t \in Thread /\ InShutdown(e.t, t)
    BY <1>b, <1>1 DEF Contexts, PendingTaken, Event
  <2>3. ASSUME e.k = "shutdown", NEW j \in Thread, j = e.t PROVE InShutdown(j, t)'
    BY <1>2, <2>2, <2>3 DEF Persist
  <2> QED BY <1>3, <2>1, <2>3
<1>5. \A j \in Thread : \A i \in DOMAIN stk'[j] :
        stk'[j][i].fn = "Shutdown" /\ stk'[j][i].at = "join" => shutdownAck[stk'[j][i].t]
  BY <1>b, <1>2 DEF JoinOld, Acked
<1>6. \A v \in Thread : Pending(v)' \subseteq Pending(v)
  BY <1>1 DEF PendingTaken
<1> QED BY <1>2, <1>3, <1>4, <1>5, <1>6 DEF Gentle

LEMMA OneJoiner ==
  ASSUME Orderly, NEW t \in Thread, NEW u \in Thread, NEW v, InShutdown(t, v), InShutdown(u, v)
  PROVE  t = u
BY InShutdownMeans DEF Orderly, Claims, OneClaim

(* The answer arrives: the context of the joining thread notes it. *)
LEMMA TakingAck ==
  ASSUME Joining, NEW t \in Thread, NEW at \in At, Taking(t, at), NextEvent(t).k = "ack"
  PROVE  Contexts' /\ Acked' /\ ShutDownForGood'
<1> DEFINE e == NextEvent(t)
<1>b. Basic /\ Contexts /\ Acked /\ AckOnce /\ ShutDownForGood /\ Orderly
  BY DEF Joining, Orderly
<1>1. Basic' /\ PendingTaken(t, e) /\ e \in Event
  BY <1>b, TakingFacts
<1>2. /\ Persist /\ JoinOld /\ \A v \in Thread : Finished(v) => Finished(v)'
      /\ \A v \in known : stk[v] = <<>> => stk'[v] = <<>>
      /\ \A v \in Thread : stk'[v] # <<>> => stk[v] # <<>>
  BY TakingStacks
<1>3. /\ UNCHANGED <<known, mShutdownRequired, mEventsAreDoomed>> /\ mShutdownContext' = mShutdownContext
      /\ shutdownAck' = [shutdownAck EXCEPT ![e.t] = TRUE]
      /\ HasPendingEvent(t) /\ popped' = popped
      /\ mEvents' = [mEvents EXCEPT ![t][Len(mEvents[t])].q = Tail(@)]
  BY DEF Taking, TakeAndRun, RunEvent
<1>4. \A d, k, n : d = e.t => ~AckAt(t, k, n, d)'
  BY <1>b, <1>3, TakeAcks
<1> HIDE DEF e
<1>5. e.t \in Thread /\ InShutdown(t, e.t) /\ Finished(e.t) /\ e.k = "ack"
  BY <1>b, <1>1 DEF e, Contexts, PendingTaken, Event
<1>6. PICK d \in Thread : d = e.t
  BY <1>5
<1>7. shutdownAck \in [Thread -> BOOLEAN]
  BY <1>b DEF Basic, TypeOK
<1>8. ASSUME NEW v \in Thread, NEW j \in Thread, NEW c \in Pending(j)', c.k = "ack", c.t = v
      PROVE  InShutdown(j, v)' /\ Finished(v)' /\ ~shutdownAck'[v]
  <2>1. c \in Pending(j)
    BY <1>1, <1>8 DEF PendingTaken
  <2>2. InShutdown(j, v) /\ Finished(v) /\ ~shutdownAck[v]
    BY <1>b, <1>8, <2>1 DEF Contexts
  <2>3. v # d
    <3> SUFFICES ASSUME v = d PROVE FALSE
      OBVIOUS
    <3>1. j = t
      BY <1>b, <1>5, <1>6, <2>2, OneJoiner
    <3>2. TypeOK'
      BY <1>1 DEF Basic
    <3>3. \A w \in Thread : \A x \in Pending(w)' : x.k = "ack" => \E i, n : AckAt(w, i, n, x.t)'
      BY <3>2, AcksFound
    <3>4. \E i, n : AckAt(t, i, n, v)'
      BY <1>8, <3>1, <3>3
    <3> QED BY <1>4, <1>6, <3>4
  <2> QED BY <1>2, <1>3, <1>6, <1>7, <2>2, <2>3 DEF Persist
<1>9. Contexts'
  <2>1. ASSUME NEW v \in Thread, NEW j \in Thread, mShutdownContext'[v] = j, stk'[v] # <<>>
        PROVE  InShutdown(j, v)'
    BY <1>b, <1>2, <1>3, <2>1 DEF Contexts, Persist
  <2>2. ASSUME NEW v \in Thread, NEW j \in Thread, NEW c \in Pending(v)', c.k = "shutdown", c.t = j
        PROVE  InShutdown(j, v)'
    BY <1>b, <1>1, <1>2, <2>2 DEF Contexts, Persist, PendingTaken
  <2> QED BY <1>8, <2>1, <2>2 DEF Contexts
<1>10. Acked'
  <2>1. ASSUME NEW v \in Thread, shutdownAck'[v] PROVE Finished(v)'
    <3>1. shutdownAck[v] \/ v = d
      BY <1>3, <1>6, <1>7, <2>1
    <3>2. Finished(v)
      BY <1>b, <1>5, <1>6, <3>1 DEF Acked
    <3> QED BY <1>2, <3>2
  <2>2. ASSUME NEW j \in Thread, NEW i \in DOMAIN stk'[j], stk'[j][i].fn = "Shutdown", stk'[j][i].at = "join"
        PROVE  shutdownAck'[stk'[j][i].t]
    <3>1. i \in DOMAIN stk[j] /\ stk'[j][i].t = stk[j][i].t /\ shutdownAck[stk[j][i].t]
      BY <1>b, <1>2, <2>2 DEF JoinOld, Acked
    <3>2. stk[j][i].t \in Thread
      <4>1. stk[j][i] \in Frame
        BY <1>b, <3>1, StackType DEF Basic
      <4> QED BY <4>1 DEF Frame
    <3> QED BY <1>3, <1>7, <3>1, <3>2
  <2> QED BY <2>1, <2>2 DEF Acked
<1>11. ShutDownForGood'
  <2> SUFFICES ASSUME NEW u \in known' \ {Main}, ~mShutdownRequired'[u],
                      \A j \in Thread : ~InShutdown(j, u)'
               PROVE  mEventsAreDoomed'[u] /\ stk'[u] = <<>>
    BY DEF ShutDownForGood
  <2>1. u \in known /\ ~mShutdownRequired[u] /\ u \in Thread
    BY <1>b, <1>3 DEF Basic, TypeOK
  <2>2. \A j \in Thread : ~InShutdown(j, u)
    BY <1>2, <2>1 DEF Persist
  <2> QED BY <1>b, <1>2, <1>3, <2>1, <2>2 DEF ShutDownForGood
<1> QED BY <1>9, <1>10, <1>11

LEMMA TakingAcks ==
  ASSUME Joining, NEW t \in Thread, NEW at \in At, Taking(t, at)
  PROVE  AckOnce'
BY TakeAcks DEF Joining, Orderly, Taking, TakeAndRun

(* Shutdown returns: nobody holds a pointer to its context any more. *)
LEMMA ShutdownJoinKeeps ==
  ASSUME Joining, NEW t \in Thread, ShutdownJoin(t)
  PROVE  Contexts' /\ Acked' /\ ShutDownForGood' /\ AckOnce'
<1>b. Basic /\ Contexts /\ Acked /\ AckOnce /\ ShutDownForGood /\ Orderly /\ DoomedRight
  BY DEF Joining, Orderly
<1>1. Left(t) /\ PendingAs
  BY <1>b, ShutdownJoinFacts
<1>2. /\ stk[t] # <<>> /\ Top(t).fn = "Shutdown" /\ Top(t).at = "join" /\ UNCHANGED answerVars
      /\ mEventsAreDoomed' = mEventsAreDoomed /\ mEvents' = mEvents /\ popped' = popped
      /\ stk[Top(t).t] = <<>>
  BY DEF ShutdownJoin, Is, answerVars, queueVars
<1>3. PICK u \in Thread : u = Top(t).t
  BY <1>b, <1>2, TopClaims
<1>4. stk[u] = <<>> /\ u # t /\ u \in known \ {Main} /\ mEventsAreDoomed[u] /\ Pending(u) = {}
  <2>1. u \in known \ {Main}
    BY <1>b, <1>2, <1>3, TopClaims DEF FrameClaims
  <2> QED BY <1>b, <1>2, <1>3, <2>1 DEF DoomedRight
<1>5. shutdownAck[u]
  BY <1>b, <1>2, <1>3, TopShape DEF Acked, Basic
<1>6. (\A v \in Thread \ {t} : stk'[v] = stk[v]) /\ stk'[u] = <<>>
  BY <1>1, <1>4 DEF Left
<1>7. ASSUME NEW j \in Thread, NEW v \in Thread, InShutdown(j, v), v # u PROVE InShutdown(j, v)'
  <2>1. PICK i \in DOMAIN stk[j] : stk[j][i].fn = "Shutdown" /\ stk[j][i].t = v
    BY <1>7, InShutdownMeans
  <2>2. Stays(j, i) \/ (j = t /\ i = Len(stk[t]))
    BY <1>b, <1>1, <1>2, LeftFrames DEF Basic
  <2>3. ~(j = t /\ i = Len(stk[t]))
    BY <1>3, <1>7, <2>1 DEF Top
  <2>4. i \in DOMAIN stk'[j] /\ stk'[j][i].fn = "Shutdown" /\ stk'[j][i].t = v
    BY <2>1, <2>2, <2>3 DEF Stays
  <2> QED BY <2>4, InShutdownThen
<1>8. ASSUME NEW v \in Thread, Finished(v) PROVE Finished(v)'
  <2>1. v # t
    BY <1>2, <1>8 DEF Finished
  <2> QED BY <1>2, <1>6, <1>8, <2>1, FinishedStays DEF answerVars
<1>9. Contexts'
  <2>1. ASSUME NEW v \in Thread, NEW j \in Thread, mShutdownContext'[v] = j, stk'[v] # <<>>
        PROVE  InShutdown(j, v)'
    <3>1. mShutdownContext[v] = j /\ stk[v] # <<>> /\ v # u
      BY <1>2, <1>6, <2>1 DEF answerVars
    <3> QED BY <1>b, <1>7, <3>1 DEF Contexts
  <2>2. ASSUME NEW v \in Thread, NEW j \in Thread, NEW c \in Pending(v)', c.k = "shutdown", c.t = j
        PROVE  InShutdown(j, v)'
    <3>1. c \in Pending(v) /\ v # u
      BY <1>1, <1>4, <2>2 DEF PendingAs
    <3> QED BY <1>b, <1>7, <2>2, <3>1 DEF Contexts
  <2>3. ASSUME NEW v \in Thread, NEW j \in Thread, NEW c \in Pending(j)', c.k = "ack", c.t = v
        PROVE  InShutdown(j, v)' /\ Finished(v)' /\ ~shutdownAck'[v]
    <3>1. c \in Pending(j)
      BY <1>1, <2>3 DEF PendingAs
    <3>2. InShutdown(j, v) /\ Finished(v) /\ ~shutdownAck[v]
      BY <1>b, <2>3, <3>1 DEF Contexts
    <3>3. v # u
      BY <1>5, <3>2
    <3> QED BY <1>2, <1>7, <1>8, <3>2, <3>3 DEF answerVars
  <2> QED BY <2>1, <2>2, <2>3 DEF Contexts
<1>10. Acked'
  <2>1. Carried(t, "wait")
    BY <1>b, <1>1, <1>2, LeftFrames DEF Basic
  <2>2. JoinOld
    BY <2>1, CarriedJoin
  <2>3. ASSUME NEW j \in Thread, NEW i \in DOMAIN stk'[j], stk'[j][i].fn = "Shutdown", stk'[j][i].at = "join"
        PROVE  shutdownAck'[stk'[j][i].t]
    BY <1>b, <1>2, <2>2, <2>3 DEF JoinOld, Acked, answerVars
  <2>4. ASSUME NEW v \in Thread, shutdownAck'[v] PROVE Finished(v)'
    BY <1>b, <1>2, <1>8, <2>4 DEF Acked, answerVars
  <2> QED BY <2>3, <2>4 DEF Acked
<1>11. ShutDownForGood'
  <2> SUFFICES ASSUME NEW v \in known' \ {Main}, ~mShutdownRequired'[v],
                      \A j \in Thread : ~InShutdown(j, v)'
               PROVE  mEventsAreDoomed'[v] /\ stk'[v] = <<>>
    BY DEF ShutDownForGood
  <2>1. v \in known /\ ~mShutdownRequired[v] /\ v \in Thread
    BY <1>b, <1>2 DEF Basic, TypeOK, answerVars
  <2>2. CASE v = u
    BY <1>2, <1>4, <1>6, <2>2
  <2>3. CASE v # u
    <3>1. \A j \in Thread : ~InShutdown(j, v)
      BY <1>7, <2>1, <2>3
    <3>2. mEventsAreDoomed[v] /\ stk[v] = <<>> /\ v # t
      BY <1>b, <1>2, <2>1, <3>1 DEF ShutDownForGood
    <3> QED BY <1>2, <1>6, <2>1, <3>2
  <2> QED BY <2>2, <2>3
<1>12. AckOnce'
  BY <1>b, <1>2, QuietAcks
<1> QED BY <1>9, <1>10, <1>11, <1>12

(* The thread that is done answers whoever shuts it down, once. *)
LEMMA DispatchAckKeeps ==
  ASSUME Joining, NEW t \in Thread, DispatchAck(t)
  PROVE  Contexts' /\ Acked' /\ ShutDownForGood' /\ AckOnce'
<1>b. Basic /\ Contexts /\ Acked /\ AckOnce /\ ShutDownForGood /\ Orderly
  BY DEF Joining, Orderly
<1>1. /\ stk[t] # <<>> /\ Top(t).fn = "ThreadFunc" /\ Top(t).at = "ack" /\ UNCHANGED answerVars
      /\ mEventsAreDoomed' = mEventsAreDoomed /\ popped' = popped
  BY DEF DispatchAck, Is, answerVars, shutVars
<1>2. mShutdownContext[t] # NoThread /\ t \in known
  BY <1>b, <1>1, TopClaims DEF Late
<1>3. PICK e \in Event : /\ Basic' /\ Moved(t, "bye") /\ mShutdownContext[t] \in Thread
                         /\ e.k = "ack" /\ e.t = t /\ Posted(mShutdownContext[t], e)
  BY <1>b, <1>2, DispatchAckFacts
<1>4. PICK k \in Thread : k = mShutdownContext[t]
  BY <1>3
<1>5. Persist /\ JoinOld
  BY <1>b, <1>1, <1>3, MovedFrames, StayPersist, CarriedJoin DEF Basic
<1>6. InShutdown(k, t) /\ InShutdown(k, t)'
  BY <1>b, <1>1, <1>4, <1>5 DEF Contexts, Persist
<1>7. ~Finished(t) /\ ~shutdownAck[t]
  BY <1>b, <1>1 DEF Finished, Acked
<1>8. Finished(t)'
  <2>1. Len(stk[t]) = 1
    BY <1>b, <1>1, TopShape DEF Basic
  <2>2. Len(stk'[t]) = 1 /\ stk'[t][1].at = "bye"
    BY <1>3, <2>1 DEF Moved
  <2> QED BY <1>1, <1>2, <2>2 DEF Finished, Top, answerVars
<1>9. \A v \in Thread \ {t} : stk'[v] = stk[v]
  BY <1>3 DEF Moved
<1>10. \A v \in Thread : Finished(v) => Finished(v)'
  BY <1>1, <1>8, <1>9, FinishedStays DEF answerVars
<1>11. \A v \in Thread : \A d \in Pending(v)' : d \in Pending(v) \/ (d = e /\ v = k)
  <2>1. Posted(k, e)
    BY <1>3, <1>4
  <2> QED BY <2>1 DEF Posted, PendingAs, PendingPlus
<1>12. Contexts'
  <2>1. ASSUME NEW v \in Thread, NEW j \in Thread, mShutdownContext'[v] = j, stk'[v] # <<>>
        PROVE  InShutdown(j, v)'
    <3>1. mShutdownContext[v] = j /\ stk[v] # <<>>
      BY <1>1, <1>9, <2>1 DEF answerVars
    <3> QED BY <1>b, <1>5, <3>1 DEF Contexts, Persist
  <2>2. ASSUME NEW v \in Thread, NEW j \in Thread, NEW c \in Pending(v)', c.k = "shutdown", c.t = j
        PROVE  InShutdown(j, v)'
    BY <1>b, <1>3, <1>5, <1>11, <2>2 DEF Contexts, Persist
  <2>3. ASSUME NEW v \in Thread, NEW j \in Thread, NEW c \in Pending(j)', c.k = "ack", c.t = v
        PROVE  InShutdown(j, v)' /\ Finished(v)' /\ ~shutdownAck'[v]
    <3>1. CASE c \in Pending(j)
      BY <1>b, <1>1, <1>5, <1>10, <2>3, <3>1 DEF Contexts, Persist, answerVars
    <3>2. CASE c = e /\ j = k
      BY <1>1, <1>3, <1>6, <1>7, <1>8, <2>3, <3>2 DEF answerVars
    <3> QED BY <1>11, <2>3, <3>1, <3>2
  <2> QED BY <2>1, <2>2, <2>3 DEF Contexts
<1>13. Acked'
  BY <1>b, <1>1, <1>5, <1>10 DEF Acked, JoinOld, answerVars
<1>14. ShutDownForGood'
  <2> SUFFICES ASSUME NEW u \in known' \ {Main}, ~mShutdownRequired'[u],
                      \A j \in Thread : ~InShutdown(j, u)'
               PROVE  mEventsAreDoomed'[u] /\ stk'[u] = <<>>
    BY DEF ShutDownForGood
  <2>1. u \in known /\ ~mShutdownRequired[u] /\ u \in Thread
    BY <1>b, <1>1 DEF Basic, TypeOK, answerVars
  <2>2. \A j \in Thread : ~InShutdown(j, u)
    BY <1>5, <2>1 DEF Persist
  <2>3. mEventsAreDoomed[u] /\ stk[u] = <<>> /\ u # t
    BY <1>b, <1>1, <2>1, <2>2 DEF ShutDownForGood
  <2> QED BY <1>1, <1>9, <2>1, <2>3
<1>15. AckOnce'
  <2> DEFINE d == [k |-> "ack", id |-> 0, t |-> t]
  <2>1. d \in Event /\ d.t = t
    BY ThreadConstants DEF Event, Kind
  <2>2. PutEvent(k, d)
    BY <1>4 DEF DispatchAck
  <2> HIDE DEF d
  <2>3. ASSUME NEW i, NEW n PROVE ~AckAt(k, i, n, t)
    <3> SUFFICES ASSUME AckAt(k, i, n, t) PROVE FALSE
      OBVIOUS
    <3>1. PICK c \in Pending(k) : c.k = "ack" /\ c.t = t
      BY <1>b, PendingAck DEF Basic
    <3> QED BY <1>b, <1>7, <3>1 DEF Contexts
  <2> QED BY <1>b, <1>1, <2>1, <2>2, <2>3, PutOneAck
<1> QED BY <1>12, <1>13, <1>14, <1>15
--------------------------------------------------------------------------------
LEMMA InitJoining == ASSUME Init PROVE Joining
<1>1. Orderly /\ TypeOK
  BY InitOrderly DEF Orderly, Basic
<1>2. /\ \A t \in Thread : Pending(t) = {} /\ mShutdownContext[t] = NoThread
      /\ \A t \in Thread \ {Main} : stk[t] = <<>>
      /\ DOMAIN stk[Main] = {1} /\ stk[Main][1].fn = "app"
  BY InitBasic
<1>3. known = {Main} /\ \A t \in Thread : ~shutdownAck[t]
  BY DEF Init
<1>4. Contexts
  BY <1>2, ThreadConstants DEF Contexts
<1>5. Acked
  <2>1. ASSUME NEW j \in Thread, NEW i \in DOMAIN stk[j] PROVE stk[j][i].fn # "Shutdown"
    <3>1. CASE j = Main
      BY <1>2, <2>1, <3>1
    <3>2. CASE j # Main
      BY <1>2, <2>1, <3>2
    <3> QED BY <3>1, <3>2
  <2> QED BY <1>3, <2>1 DEF Acked
<1>6. AckOnce
  <2>1. ASSUME NEW j \in Thread, NEW S PROVE \A i, n : ~EventAt(j, i, n, S)
    BY <1>1, <1>2, AtPending
  <2> QED BY <2>1 DEF AckOnce, Single
<1>7. ShutDownForGood
  BY <1>3 DEF ShutDownForGood
<1> QED BY <1>1, <1>4, <1>5, <1>6, <1>7 DEF Joining

LEMMA NextJoining == ASSUME Joining, Next PROVE Joining'
<1>1. Orderly'
  BY NextOrderly DEF Joining
<1> SUFFICES Contexts' /\ Acked' /\ ShutDownForGood' /\ AckOnce'
  BY <1>1 DEF Joining
<1> PICK t \in Thread : ClientStep(t) \/ ThreadStep(t) \/ PopEventQueue(t)
  BY DEF Next
<1>c. Calm(t) /\ AckOnce' => Contexts' /\ Acked' /\ ShutDownForGood' /\ AckOnce'
  BY CalmGentle, GentleKeeps
<1>2. CASE ClientStep(t)
  <2>1. ASSUME NEW u \in Thread, \/ Dispatch(t, u) \/ DispatchSync(t, u) \/ NewThread(t, u)
                                 \/ Shutdown(t, u)
        PROVE  Calm(t) /\ AckOnce'
    BY <2>1, DispatchCalm, NewThreadCalm, ShutdownClaims, ClaimingCalm
  <2>2. ASSUME NEW f \in Filter, PushEventQueue(t, f) PROVE Calm(t) /\ AckOnce'
    BY <2>2, QueueCalm
  <2> QED BY <1>2, <1>c, <2>1, <2>2 DEF ClientStep
<1>3. CASE \/ PopEventQueueDone(t) \/ RunReturns(t) \/ SyncTaskReturns(t)
           \/ DispatchSyncTest(t) \/ DispatchSyncNoWait(t)
           \/ ThreadStart(t) \/ LeaveLoop(t) \/ Doom(t) \/ DrainMore(t) \/ Unregister(t)
  BY <1>3, <1>c, QuietCalm
<1>4. CASE PopEventQueue(t) \/ RepostEvent(t) \/ SyncReply(t) \/ InitPutStartup(t)
  BY <1>4, <1>c, QueueCalm
<1>5. CASE InitDone(t)
  BY <1>5, <1>c, InitDoneCalm
<1>6. CASE ShutdownPost(t) \/ ShutdownAcked(t) \/ ThreadExit(t)
  BY <1>6, GentleKeeps, ShutdownPostGentle, ShutdownAckedGentle, ThreadExitGentle
<1>7. CASE ShutdownJoin(t)
  BY <1>7, ShutdownJoinKeeps
<1>8. CASE DispatchAck(t)
  BY <1>8, DispatchAckKeeps
<1>9. CASE ProcessNextEvent(t) \/ ThreadStartup(t)
  <2>1. PICK at \in At : Taking(t, at)
    BY <1>9, TakingCases
  <2>2. AckOnce'
    BY <2>1, TakingAcks
  <2>3. CASE NextEvent(t).k = "ack"
    BY <2>1, <2>2, <2>3, TakingAck
  <2>4. CASE NextEvent(t).k # "ack"
    BY <2>1, <2>2, <2>4, TakingGentle, GentleKeeps
  <2> QED BY <2>3, <2>4
<1> QED BY <1>2, <1>3, <1>4, <1>5, <1>6, <1>7, <1>8, <1>9 DEF ThreadStep

(* Shutdown, called from elsewhere than from client code. *)
LEMMA ClaimedJoining ==
  ASSUME Joining, NEW t \in Thread, NEW u \in Thread, Claiming(t, u)
  PROVE  Joining'
<1>1. Orderly'
  BY ClaimingKeeps DEF Joining, Orderly
<1>2. Calm(t) /\ AckOnce'
  BY ClaimingCalm
<1> QED BY <1>1, <1>2, CalmGentle, GentleKeeps DEF Joining

LEMMA StutterJoining == ASSUME Joining, UNCHANGED vars PROVE Joining'
<1>1. /\ UNCHANGED <<mEvents, popped, mEventsAreDoomed, mShutdownRequired, mShutdownContext,
                     shutdownAck, stk, known>>
  BY DEF vars, queueVars, shutVars, histVars
<1>2. PendingAs /\ Orderly' /\ AckOnce'
  BY <1>1, PendingKept, StutterOrderly, QuietAcks DEF Joining
<1>3. Persist /\ JoinOld
  BY <1>1, SameFrames, StayPersist, CarriedJoin
<1>4. \A v \in Thread : Finished(v) => Finished(v)'
  BY <1>1, FinishedStays
<1>5. Gentle
  BY <1>1, <1>2, <1>3, <1>4 DEF Gentle, PendingAs, JoinOld, Joining, Acked
<1> QED BY <1>2, <1>5, GentleKeeps DEF Joining

(* The shutdown of threads by each other is in order in every reachable  *)
(* state of nsThread.                                                    *)
THEOREM AlwaysJoining == Spec => []Joining
<1>1. Init => Joining
  BY InitJoining
<1>2. Joining /\ [Next]_vars => Joining'
  BY NextJoining, StutterJoining
<1> QED BY <1>1, <1>2, PTL DEF Spec

(* ContextAlive: the thread that is being shut down and the ACK event use  *)
(* their raw pointers to nsThreadShutdownContext only while the frame of   *)
(* Shutdown that holds it is on the stack, for any number of threads that  *)
(* shut each other down.                                                   *)
THEOREM ContextOutlivesUse == Spec => []ContextAlive
<1>1. Joining => ContextAlive
  <2> SUFFICES ASSUME Joining, NEW t \in Thread, NEW j \in Thread,
                      \/ mShutdownContext[t] = j /\ stk[t] # <<>>
                      \/ \E i \in DOMAIN mEvents[j] : \E n \in DOMAIN mEvents[j][i].q :
                           mEvents[j][i].q[n].k = "ack" /\ mEvents[j][i].q[n].t = t
               PROVE  InShutdown(j, t)
    BY DEF ContextAlive
  <2>1. CASE mShutdownContext[t] = j /\ stk[t] # <<>>
    BY <2>1 DEF Joining, Contexts
  <2>2. ASSUME NEW i \in DOMAIN mEvents[j], NEW n \in DOMAIN mEvents[j][i].q,
               mEvents[j][i].q[n].k = "ack", mEvents[j][i].q[n].t = t
        PROVE  InShutdown(j, t)
    <3>1. mEvents[j][i].q[n] \in Pending(j)
      BY DEF Pending, EventsIn, Range
    <3> QED BY <2>2, <3>1 DEF Joining, Contexts
  <2> QED BY <2>1, <2>2
<1> QED BY <1>1, AlwaysJoining, PTL

(* SafeToJoin: PR_JoinThread is called only when the other thread has      *)
(* nothing left to do, and a thread is in at most one call of Shutdown     *)
(* that got past the claim.                                                *)
THEOREM JoinIsSafe == Spec => []SafeToJoin
<1>1. Joining => SafeToJoin
  <2> SUFFICES ASSUME Joining PROVE SafeToJoin
    OBVIOUS
  <2>1. Orderly /\ TypeOK /\ Shape
    BY DEF Joining, Orderly, Basic
  <2>2. ASSUME NEW t \in Thread, Is(t, "Shutdown", "join"), NEW u, u = Top(t).t
        PROVE  stk[u] = <<>> \/ (Len(stk[u]) = 1 /\ Top(u).at = "bye")
    <3>1. stk[t] # <<>> /\ Top(t).fn = "Shutdown" /\ Top(t).at = "join"
      BY <2>2 DEF Is
    <3>2. shutdownAck[u] /\ u \in Thread
      BY <2>1, <2>2, <3>1, TopShape, TopClaims DEF Joining, Acked
    <3> QED BY <3>2 DEF Joining, Acked, Finished
  <2>3. ASSUME NEW t \in Thread, NEW u \in Thread, NEW v \in Thread, InShutdown(t, v), InShutdown(u, v)
        PROVE  t = u
    BY <2>1, <2>3, OneJoiner
  <2> QED BY <2>2, <2>3 DEF SafeToJoin
<1> QED BY <1>1, AlwaysJoining, PTL

(* ShutDownForGood: when Shutdown has returned, the thread has terminated  *)
(* and takes no events.                                                    *)
THEOREM ShutdownIsFinal == Spec => []ShutDownForGood
<1>1. Joining => ShutDownForGood
  BY DEF Joining
<1> QED BY <1>1, AlwaysJoining, PTL
--------------------------------------------------------------------------------
(* Dispatch *)

(* The events that were begun, and the events with number x. *)
Begun == {x \in EventId : begun[x] > 0}
Copies(x) == {e \in Event : e.id = x}

(* The frames that belong to a synchronous dispatch: its event has been    *)
(* begun where it runs, its task is gone when it replies, and it is        *)
(* waited for until it has run.                                            *)
SyncFrames ==
  \A t \in Thread : \A i \in DOMAIN stk[t] :
    /\ stk[t][i].fn = "SyncRun" => stk[t][i].id \in Begun
    /\ stk[t][i].fn = "SyncRun" /\ stk[t][i].at = "reply" => stk[t][i].id \notin mSyncTask
    /\ stk[t][i].fn = "Dispatch" => stk[t][i].id \in mSyncTask \cup ran

(* Only client events have numbers, a wrapper whose task is gone comes     *)
(* back from where it ran, and what will run has not run before.           *)
SyncEvents ==
  \A t \in Thread : \A e \in Pending(t) :
    /\ e.k \notin {"task", "sync"} => e.id = 0
    /\ e.k = "sync" => e.id \in mSyncTask \cup Begun
    /\ Runs(e) => e.id \notin Begun

(* An event that was not begun waits in one thread, and only once. *)
OneTarget ==
  \A t, u \in Thread : \A e \in Pending(t), d \in Pending(u) :
    e.id = d.id /\ e.id \in EventId \ Begun => t = u

OnceEach == \A t \in Thread : \A x \in EventId \ Begun : Single(t, Copies(x))

Delivery == /\ Orderly /\ Begun \subseteq 1 .. nEvents /\ SyncFrames /\ SyncEvents
            /\ OneTarget /\ OnceEach
--------------------------------------------------------------------------------
(* What a step does to the frames, the events and the history *)

NewFrames ==
  \A v \in Thread : \A i \in DOMAIN stk'[v] :
    /\ stk'[v][i].fn = "SyncRun" =>
         \/ stk'[v][i].id \in Begun'
         \/ i \in DOMAIN stk[v] /\ stk[v][i].fn = "SyncRun" /\ stk'[v][i].id = stk[v][i].id
    /\ stk'[v][i].fn = "SyncRun" /\ stk'[v][i].at = "reply" =>
         \/ stk'[v][i].id \notin mSyncTask'
         \/ /\ i \in DOMAIN stk[v] /\ stk[v][i].fn = "SyncRun" /\ stk[v][i].at = "reply"
            /\ stk'[v][i].id = stk[v][i].id
    /\ stk'[v][i].fn = "Dispatch" =>
         \/ stk'[v][i].id \in mSyncTask'
         \/ i \in DOMAIN stk[v] /\ stk[v][i].fn = "Dispatch" /\ stk'[v][i].id = stk[v][i].id

Progress ==
  /\ Begun \subseteq Begun' /\ ran \subseteq ran' /\ Begun' \subseteq 1 .. nEvents'
  /\ \A x \in mSyncTask : x \in mSyncTask' \/ (x \in ran' /\ x \in Begun')
  /\ mSyncTask' \subseteq mSyncTask \cup {nEvents + 1}
  /\ \A x \in Begun' \ Begun : \A v \in Thread : \A d \in Pending(v)' : d.id # x

FreshEvents(e) ==
  \/ e.k \notin {"task", "sync"} /\ e.id = 0
  \/ e.k = "sync" /\ e.id \in Begun /\ e.id \notin mSyncTask'
  \/ /\ e.id = nEvents + 1 /\ e.k \in {"task", "sync"} /\ e.id \notin Begun'
     /\ e.k = "sync" => e.id \in mSyncTask'

Arrivals ==
  \/ \A v \in Thread : Pending(v)' \subseteq Pending(v)
  \/ \E u \in Thread : \E e :
       FreshEvents(e) /\ \A v \in Thread : \A d \in Pending(v)' : d \in Pending(v) \/ (d = e /\ v = u)

LEMMA GrownNew ==
  ASSUME NEW t, NEW at, NEW f, Grown(t, at, f), f.fn = "SyncRun" => f.id \in Begun' /\ f.at = "task",
         f.fn = "Dispatch" => f.id \in mSyncTask', at # "reply"
  PROVE  NewFrames
<1> SUFFICES ASSUME NEW v \in Thread, NEW i \in DOMAIN stk'[v]
             PROVE  /\ stk'[v][i].fn = "SyncRun" =>
                         \/ stk'[v][i].id \in Begun'
                         \/ i \in DOMAIN stk[v] /\ stk[v][i].fn = "SyncRun" /\ stk'[v][i].id = stk[v][i].id
                    /\ stk'[v][i].fn = "SyncRun" /\ stk'[v][i].at = "reply" =>
                         \/ stk'[v][i].id \notin mSyncTask'
                         \/ /\ i \in DOMAIN stk[v] /\ stk[v][i].fn = "SyncRun" /\ stk[v][i].at = "reply"
                            /\ stk'[v][i].id = stk[v][i].id
                    /\ stk'[v][i].fn = "Dispatch" =>
                         \/ stk'[v][i].id \in mSyncTask'
                         \/ i \in DOMAIN stk[v] /\ stk[v][i].fn = "Dispatch" /\ stk'[v][i].id = stk[v][i].id
  BY DEF NewFrames
<1>1. FromOld(v, i, t, at) \/ stk'[v][i] = f
  BY DEF Grown
<1>2. CASE FromOld(v, i, t, at)
  BY <1>2 DEF FromOld
<1>3. CASE stk'[v][i] = f
  BY <1>3
<1> QED BY <1>1, <1>2, <1>3

LEMMA CarriedNew == ASSUME NEW t, NEW at, Carried(t, at), at # "reply" PROVE NewFrames
BY DEF Carried, FromOld, NewFrames

LEMMA IdsKnown ==
  ASSUME Delivery, NEW t \in Thread, NEW e \in Pending(t)
  PROVE  e.id # nEvents + 1 /\ nEvents \in Nat
<1>1. nEvents \in Nat /\ Numbered
  BY ThreadConstants DEF Delivery, Orderly, Basic, TypeOK
<1>2. e.k \in {"task", "sync"} => e.id \in 1 .. nEvents
  BY <1>1 DEF Numbered
<1>3. e.k \notin {"task", "sync"} => e.id = 0
  BY DEF Delivery, SyncEvents
<1> QED BY <1>1, <1>2, <1>3

LEMMA DeliveryKept ==
  ASSUME Delivery, Orderly', NewFrames, Progress, Arrivals, OnceEach'
  PROVE  Delivery'
<1>b. SyncFrames /\ SyncEvents /\ OneTarget
  BY DEF Delivery
<1>n. nEvents + 1 \notin Begun
  <2>1. nEvents \in Nat /\ Begun \subseteq 1 .. nEvents
    BY ThreadConstants DEF Delivery, Orderly, Basic, TypeOK
  <2> QED BY <2>1
<1>1. SyncFrames'
  <2> SUFFICES ASSUME NEW t \in Thread, NEW i \in DOMAIN stk'[t]
               PROVE  /\ stk'[t][i].fn = "SyncRun" => stk'[t][i].id \in Begun'
                      /\ stk'[t][i].fn = "SyncRun" /\ stk'[t][i].at = "reply" => stk'[t][i].id \notin mSyncTask'
                      /\ stk'[t][i].fn = "Dispatch" => stk'[t][i].id \in mSyncTask' \cup ran'
    BY DEF SyncFrames
  <2>1. stk'[t][i].fn = "SyncRun" => stk'[t][i].id \in Begun'
    BY <1>b DEF NewFrames, SyncFrames, Progress
  <2>2. stk'[t][i].fn = "Dispatch" => stk'[t][i].id \in mSyncTask' \cup ran'
    BY <1>b DEF NewFrames, SyncFrames, Progress
  <2>3. stk'[t][i].fn = "SyncRun" /\ stk'[t][i].at = "reply" => stk'[t][i].id \notin mSyncTask'
    BY <1>b, <1>n DEF NewFrames, SyncFrames, Progress
  <2> QED BY <2>1, <2>2, <2>3
<1>2. ASSUME NEW t \in Thread, NEW e \in Pending(t)' PROVE e \in Pending(t) \/ FreshEvents(e)
  BY <1>2 DEF Arrivals
<1>3. SyncEvents'
  <2> SUFFICES ASSUME NEW t \in Thread, NEW e \in Pending(t)'
               PROVE  /\ e.k \notin {"task", "sync"} => e.id = 0
                      /\ e.k = "sync" => e.id \in mSyncTask' \cup Begun'
                      /\ e.k = "task" \/ (e.k = "sync" /\ e.id \in mSyncTask') => e.id \notin Begun'
    BY DEF SyncEvents, Runs
  <2>1. CASE e \in Pending(t)
    <3>1. e.id # nEvents + 1
      BY <2>1, IdsKnown
    <3>2. e.id \in mSyncTask' => e.id \in mSyncTask
      BY <3>1 DEF Progress
    <3>3. e.id \notin Begun' \ Begun
      BY DEF Progress
    <3> QED BY <1>b, <2>1, <3>2, <3>3 DEF SyncEvents, Progress, Runs
  <2>2. CASE FreshEvents(e)
    BY <2>2 DEF FreshEvents, Progress
  <2> QED BY <1>2, <2>1, <2>2
<1>4. OneTarget'
  <2> SUFFICES ASSUME NEW t \in Thread, NEW u \in Thread, NEW e \in Pending(t)', NEW d \in Pending(u)',
                      e.id = d.id, e.id \in EventId \ Begun', t # u
               PROVE  FALSE
    BY DEF OneTarget
  <2>1. e.id \notin Begun /\ e.id # 0
    BY DEF Progress, EventId
  <2>2. ~(e \in Pending(t) /\ d \in Pending(u))
    BY <1>b, <2>1 DEF OneTarget
  <2>w. PICK w \in Thread : \E c : /\ FreshEvents(c)
                                   /\ \A v \in Thread : \A x \in Pending(v)' : x \in Pending(v) \/ (x = c /\ v = w)
    BY <2>2 DEF Arrivals
  <2>3. PICK c : /\ FreshEvents(c)
                 /\ \A v \in Thread : \A x \in Pending(v)' : x \in Pending(v) \/ (x = c /\ v = w)
    BY <2>w
  <2>4. \/ e = c /\ d \in Pending(u)
        \/ d = c /\ e \in Pending(t)
    BY <2>2, <2>3
  <2>5. c.id = e.id /\ c.id = nEvents + 1
    BY <2>1, <2>3, <2>4 DEF FreshEvents
  <2> QED BY <2>4, <2>5, IdsKnown
<1> QED BY <1>1, <1>3, <1>4 DEF Delivery, Progress
--------------------------------------------------------------------------------
(* What a step does to the promise *)

LEMMA WaitingMeans ==
  ASSUME TypeOK, NEW t \in Thread
  PROVE  WaitingOn(t) = {x \in EventId \ Begun : \E e \in Pending(t) : e.id = x}
<1>1. /\ mEvents[t] \in Seq(ChainedQueue) /\ popped[t] \in Seq(Event)
      /\ DOMAIN mEvents[t] = 1 .. Len(mEvents[t])
  BY ChainType
<1>2. \A e : e \in Pending(t) <=> \/ \E n \in DOMAIN popped[t] : e = popped[t][n]
                                  \/ \E i \in DOMAIN mEvents[t] : \E n \in DOMAIN mEvents[t][i].q : e = mEvents[t][i].q[n]
  BY <1>1, PendingMeans DEF Pending, Range
<1>3. ASSUME NEW x
      PROVE  (\E e \in Pending(t) : e.id = x) <=>
               \/ \E i \in DOMAIN mEvents[t] : \E n \in DOMAIN mEvents[t][i].q : mEvents[t][i].q[n].id = x
               \/ \E n \in DOMAIN popped[t] : popped[t][n].id = x
  BY <1>2
<1>4. \A x \in EventId : x \notin Begun <=> begun[x] = 0
  BY DEF Begun, TypeOK
<1> QED BY <1>3, <1>4 DEF WaitingOn

LEMMA BegunSame == ASSUME begun' = begun PROVE Begun' = Begun
BY DEF Begun

WaitingFound ==
  TypeOK => \A t \in Thread : WaitingOn(t) = {x \in EventId \ Begun : \E e \in Pending(t) : e.id = x}

LEMMA WaitingFoundThen == WaitingFound'
<1>1. WaitingFound
  BY WaitingMeans DEF WaitingFound
<1> QED BY <1>1, PTL

LEMMA WaitingThen ==
  ASSUME TypeOK, TypeOK', NEW t \in Thread
  PROVE  /\ \A x : x \in WaitingOn(t) <=> x \in EventId \ Begun /\ \E e \in Pending(t) : e.id = x
         /\ \A x : x \in WaitingOn(t)' <=> x \in EventId \ Begun' /\ \E e \in Pending(t)' : e.id = x
<1>1. WaitingOn(t)' = {x \in EventId \ Begun' : \E e \in Pending(t)' : e.id = x}
  BY WaitingFoundThen DEF WaitingFound
<1>2. WaitingOn(t) = {x \in EventId \ Begun : \E e \in Pending(t) : e.id = x}
  BY WaitingMeans
<1> QED BY <1>1, <1>2

WaitsAs == \A v \in Thread : WaitingOn(v)' = WaitingOn(v)

Hides == WaitsAs /\ UNCHANGED <<begun, mEventsAreDoomed>>

Accepts(u, x) ==
  /\ ~mEventsAreDoomed[u] /\ x \in EventId \ Begun /\ \A v \in Thread : x \notin WaitingOn(v)
  /\ \A v \in Thread : WaitingOn(v)' = IF v = u THEN WaitingOn(u) \cup {x} ELSE WaitingOn(v)
  /\ UNCHANGED <<begun, mEventsAreDoomed>>

Begins(u, x) ==
  /\ x \in WaitingOn(u)
  /\ \A v \in Thread : WaitingOn(v)' = IF v = u THEN WaitingOn(u) \ {x} ELSE WaitingOn(v)
  /\ begun' = [begun EXCEPT ![x] = @ + 1] /\ mEventsAreDoomed' = mEventsAreDoomed

Closes(u) ==
  /\ WaitingOn(u) = {} /\ WaitsAs
  /\ begun' = begun /\ mEventsAreDoomed' = [mEventsAreDoomed EXCEPT ![u] = TRUE]

Promised == \/ Hides
            \/ \E u \in Thread : Closes(u) \/ \E x \in EventId : Accepts(u, x) \/ Begins(u, x)

LEMMA WaitsSame ==
  ASSUME TypeOK, TypeOK', Begun' = Begun, PendingAs
  PROVE  WaitsAs
BY WaitingThen DEF WaitsAs, PendingAs

(* An event that is no client event, or was begun before, is put. *)
LEMMA WaitsPlus ==
  ASSUME TypeOK, TypeOK', Begun' = Begun, NEW u \in Thread, NEW e, PendingPlus(u, e),
         e.id \notin EventId \ Begun
  PROVE  WaitsAs
<1> SUFFICES ASSUME NEW v \in Thread, NEW x PROVE x \in WaitingOn(v)' <=> x \in WaitingOn(v)
  BY DEF WaitsAs
<1>1. CASE v = u
  BY <1>1, WaitingThen DEF PendingPlus
<1>2. CASE v # u
  BY <1>2, WaitingThen DEF PendingPlus
<1> QED BY <1>1, <1>2

LEMMA WaitsPosted ==
  ASSUME TypeOK, TypeOK', Begun' = Begun, NEW u \in Thread, NEW e, Posted(u, e),
         e.id \notin EventId \ Begun
  PROVE  WaitsAs
BY WaitsPlus, WaitsSame DEF Posted

(* A new event is put. *)
LEMMA WaitsMore ==
  ASSUME TypeOK, TypeOK', Begun' = Begun, NEW u \in Thread, NEW e, PendingPlus(u, e),
         e.id \in EventId \ Begun
  PROVE  \A v \in Thread : WaitingOn(v)' = IF v = u THEN WaitingOn(u) \cup {e.id} ELSE WaitingOn(v)
<1> SUFFICES ASSUME NEW v \in Thread, NEW x
             PROVE  x \in WaitingOn(v)' <=> x \in WaitingOn(v) \/ (v = u /\ x = e.id)
  OBVIOUS
<1>1. CASE v = u
  BY <1>1, WaitingThen DEF PendingPlus
<1>2. CASE v # u
  BY <1>2, WaitingThen DEF PendingPlus
<1> QED BY <1>1, <1>2

(* An event that is no client event, or was begun before, is taken. *)
LEMMA WaitsTaken ==
  ASSUME TypeOK, TypeOK', Begun' = Begun, NEW t \in Thread, NEW e, PendingTaken(t, e),
         e.id \notin EventId \ Begun
  PROVE  WaitsAs
<1> SUFFICES ASSUME NEW v \in Thread, NEW x PROVE x \in WaitingOn(v)' <=> x \in WaitingOn(v)
  BY DEF WaitsAs
<1>1. CASE v = t
  <2>1. \A d : d.id \in EventId \ Begun => (d \in Pending(t)' <=> d \in Pending(t))
    BY DEF PendingTaken
  <2> QED BY <1>1, <2>1, WaitingThen
<1>2. CASE v # t
  BY <1>2, WaitingThen DEF PendingTaken
<1> QED BY <1>1, <1>2

(* A client event is begun. *)
LEMMA WaitsLess ==
  ASSUME TypeOK, TypeOK', OneTarget, NEW t \in Thread, NEW e, PendingTaken(t, e),
         e.id \in EventId \ Begun, Begun' = Begun \cup {e.id}
  PROVE  /\ e.id \in WaitingOn(t)
         /\ \A v \in Thread : WaitingOn(v)' = IF v = t THEN WaitingOn(t) \ {e.id} ELSE WaitingOn(v)
<1>1. e \in Pending(t)
  BY DEF PendingTaken
<1>2. e.id \in WaitingOn(t)
  BY <1>1, WaitingThen
<1>3. ASSUME NEW v \in Thread \ {t}, NEW d \in Pending(v) PROVE d.id # e.id
  BY <1>1 DEF OneTarget
<1>4. ASSUME NEW v \in Thread, NEW x PROVE x \in WaitingOn(v)' <=> x \in WaitingOn(v) /\ ~(v = t /\ x = e.id)
  <2>1. CASE v = t
    <3>1. \A d : d.id # e.id => (d \in Pending(t)' <=> d \in Pending(t))
      BY DEF PendingTaken
    <3> QED BY <2>1, <3>1, WaitingThen
  <2>2. CASE v # t
    BY <1>3, <2>2, WaitingThen DEF PendingTaken
  <2> QED BY <2>1, <2>2
<1> QED BY <1>2, <1>4
--------------------------------------------------------------------------------
Stepped == NewFrames /\ Progress /\ Arrivals /\ Promised

noteVars == <<begun, ran, mSyncTask, nEvents, mEventsAreDoomed>>

LEMMA QuietStepped ==
  ASSUME Delivery, TypeOK', PendingAs, NewFrames, UNCHANGED noteVars
  PROVE  Stepped
<1>1. TypeOK /\ Begun \subseteq 1 .. nEvents /\ Begun' = Begun
  BY BegunSame DEF Delivery, Orderly, Basic, noteVars
<1>2. WaitsAs
  BY <1>1, WaitsSame DEF noteVars
<1>3. Progress
  BY <1>1 DEF Progress, noteVars
<1>4. Arrivals
  BY DEF Arrivals, PendingAs
<1> QED BY <1>2, <1>3, <1>4 DEF Stepped, Promised, Hides, noteVars

LEMMA MovedNew ==
  ASSUME TypeOK, NEW t \in Thread, stk[t] # <<>>, NEW at, Moved(t, at), at # "reply"
  PROVE  NewFrames
BY MovedFrames, CarriedNew

LEMMA LeftNew ==
  ASSUME TypeOK, NEW t \in Thread, stk[t] # <<>>, Left(t)
  PROVE  NewFrames
<1>1. Carried(t, "loop")
  BY LeftFrames
<1> QED BY <1>1, CarriedNew

LEMMA QuietSteps ==
  ASSUME Delivery, Basic', NEW t \in Thread,
         \/ \E f \in Filter : PushEventQueue(t, f)
         \/ \E u \in Thread : NewThread(t, u) \/ Shutdown(t, u)
         \/ PopEventQueue(t) \/ RepostEvent(t) \/ PopEventQueueDone(t)
         \/ DispatchSyncTest(t) \/ DispatchSyncNoWait(t)
         \/ ShutdownAcked(t) \/ ShutdownJoin(t) \/ InitDone(t)
         \/ ThreadStart(t) \/ LeaveLoop(t) \/ DrainMore(t) \/ Unregister(t) \/ ThreadExit(t)
  PROVE  Stepped
<1>b. Basic /\ TypeOK /\ TypeOK'
  BY DEF Delivery, Orderly, Basic
<1> SUFFICES PendingAs /\ NewFrames /\ UNCHANGED noteVars
  BY <1>b, QuietStepped
<1>1. ASSUME NEW f \in Filter, PushEventQueue(t, f) PROVE PendingAs /\ NewFrames /\ UNCHANGED noteVars
  <2>1. MovedInto(t, Top(t).at, LoopFrame(t)) /\ PendingAs
    BY <1>b, <1>1, PushEventQueueFacts
  <2>2. stk[t] # <<>> /\ Top(t).at # "reply" /\ UNCHANGED noteVars
    BY <1>b, <1>1, ClientCode DEF PushEventQueue, noteVars
  <2>3. LoopFrame(t).fn = "EventLoop"
    BY DEF LoopFrame
  <2> QED BY <1>b, <2>1, <2>2, <2>3, MovedIntoFrames, GrownNew
<1>2. ASSUME NEW u \in Thread, Shutdown(t, u) PROVE PendingAs /\ NewFrames /\ UNCHANGED noteVars
  <2>1. MovedInto(t, Top(t).at, ShutdownFrame(t, u)) /\ PendingAs
    BY <1>b, <1>2, ShutdownClaims, ClaimingFacts
  <2>2. stk[t] # <<>> /\ Top(t).at # "reply" /\ UNCHANGED noteVars
    BY <1>b, <1>2, ClientCode DEF Shutdown, Claim, noteVars, histVars, queueVars
  <2>3. ShutdownFrame(t, u).fn = "Shutdown"
    BY DEF ShutdownFrame
  <2> QED BY <1>b, <2>1, <2>2, <2>3, MovedIntoFrames, GrownNew
<1>3. ASSUME NEW u \in Thread, NewThread(t, u) PROVE PendingAs /\ NewFrames /\ UNCHANGED noteVars
  <2>1. Created(t, u) /\ PendingAs
    BY <1>b, <1>3, NewThreadStep
  <2>2. UNCHANGED noteVars
    BY <1>3 DEF NewThread, noteVars, histVars, queueVars
  <2>3. \A v \in Thread : \A i \in DOMAIN stk'[v] :
          \/ FromOld(v, i, t, "loop")
          \/ v = t /\ i = Len(stk[t]) + 1 /\ stk'[v][i] = InitFrame(t, u)
          \/ v = u /\ stk'[v][i] = FirstFrame(u)
    BY <1>b, <2>1, CreatedFrames
  <2>4. InitFrame(t, u).fn = "Init" /\ FirstFrame(u).fn = "ThreadFunc"
    BY DEF InitFrame, FirstFrame
  <2>5. NewFrames
    BY <2>3, <2>4 DEF FromOld, NewFrames
  <2> QED BY <2>1, <2>2, <2>5
<1>4. CASE PopEventQueue(t)
  BY <1>b, <1>4, PopEventQueueFacts, MovedNew DEF PopEventQueue, Is, noteVars, histVars
<1>5. CASE RepostEvent(t)
  <2>1. stk' = stk /\ PendingAs /\ UNCHANGED noteVars
    BY <1>b, <1>5, RepostEventFacts DEF RepostEvent, noteVars, histVars
  <2>2. Carried(t, "loop")
    BY <2>1, SameFrames
  <2> QED BY <2>1, <2>2, CarriedNew
<1>6. CASE PopEventQueueDone(t)
  BY <1>b, <1>6, PopEventQueueDoneFacts, LeftNew DEF PopEventQueueDone, Is, noteVars, histVars, queueVars
<1>7. CASE DispatchSyncTest(t)
  <2>1. /\ PendingAs
        /\ Top(t).id \in mSyncTask => Moved(t, "wait")
        /\ Top(t).id \notin mSyncTask => Left(t)
    BY <1>b, <1>7, DispatchSyncTestFacts
  <2>2. stk[t] # <<>> /\ UNCHANGED noteVars
    BY <1>7 DEF DispatchSyncTest, Is, noteVars, histVars, queueVars
  <2> QED BY <1>b, <2>1, <2>2, MovedNew, LeftNew
<1>8. CASE DispatchSyncNoWait(t)
  BY <1>b, <1>8, DispatchSyncNoWaitFacts, MovedNew DEF DispatchSyncNoWait, Is, noteVars, histVars, queueVars
<1>9. CASE ShutdownAcked(t)
  BY <1>b, <1>9, ShutdownAckedFacts, MovedNew DEF ShutdownAcked, Is, noteVars, histVars, queueVars
<1>10. CASE ShutdownJoin(t)
  BY <1>b, <1>10, ShutdownJoinFacts, LeftNew DEF ShutdownJoin, Is, noteVars, histVars, queueVars
<1>11. CASE InitDone(t)
  BY <1>b, <1>11, InitDoneFacts, LeftNew DEF InitDone, Is, noteVars, histVars, queueVars
<1>12. CASE ThreadStart(t)
  BY <1>b, <1>12, ThreadStartFacts, MovedNew DEF ThreadStart, Is, noteVars, histVars, queueVars
<1>13. CASE LeaveLoop(t)
  BY <1>b, <1>13, LeaveLoopFacts, MovedNew DEF LeaveLoop, Is, noteVars, histVars, queueVars
<1>14. CASE DrainMore(t)
  <2>1. /\ PendingAs
        /\ \/ Is(t, "ThreadFunc", "drain") /\ Moved(t, "pending")
           \/ Is(t, "ThreadFunc", "pending") /\ Moved(t, "drain")
    BY <1>b, <1>14, DrainMoreFacts
  <2>2. stk[t] # <<>> /\ UNCHANGED noteVars
    BY <1>14, <2>1 DEF DrainMore, Is, noteVars, histVars, queueVars
  <2> QED BY <1>b, <2>1, <2>2, MovedNew
<1>15. CASE Unregister(t)
  BY <1>b, <1>15, UnregisterFacts, MovedNew DEF Unregister, Is, noteVars, histVars, queueVars
<1>16. CASE ThreadExit(t)
  BY <1>b, <1>16, ThreadExitFacts, LeftNew DEF ThreadExit, Is, noteVars, histVars, queueVars
<1> QED BY <1>1, <1>2, <1>3, <1>4, <1>5, <1>6, <1>7, <1>8, <1>9, <1>10, <1>11, <1>12, <1>13, <1>14,
            <1>15, <1>16

(* An event returns. *)
LEMMA ReturnSteps ==
  ASSUME Delivery, Basic', NEW t \in Thread, RunReturns(t) \/ SyncTaskReturns(t)
  PROVE  Stepped
<1>b. Basic /\ TypeOK /\ TypeOK' /\ Begun \subseteq 1 .. nEvents
  BY DEF Delivery, Orderly, Basic
<1>1. /\ stk[t] # <<>> /\ ran' = ran \cup {Top(t).id}
      /\ begun' = begun /\ nEvents' = nEvents /\ mEventsAreDoomed' = mEventsAreDoomed
  BY DEF RunReturns, SyncTaskReturns, Is, queueVars
<1>s. Begun' = Begun
  BY <1>1, BegunSame
<1>2. PendingAs /\ NewFrames
  <2>1. CASE RunReturns(t)
    BY <1>b, <1>1, <2>1, RunReturnsFacts, LeftNew
  <2>2. CASE SyncTaskReturns(t)
    <3>1. Moved(t, "reply") /\ PendingAs
      BY <1>b, <2>2, SyncTaskReturnsFacts
    <3>2. Carried(t, "reply")
      BY <1>b, <1>1, <3>1, MovedFrames
    <3>3. stk[t][Len(stk[t])].id \notin mSyncTask'
      BY <2>2 DEF SyncTaskReturns, Top
    <3> QED BY <3>1, <3>2, <3>3 DEF Carried, FromOld, NewFrames
  <2> QED BY <2>1, <2>2
<1>3. Progress
  <2>1. CASE RunReturns(t)
    BY <1>b, <1>1, <1>s, <2>1 DEF Progress, RunReturns
  <2>2. CASE SyncTaskReturns(t)
    <3>1. Top(t).id \in Begun
      <4>1. Top(t).fn = "SyncRun" /\ Len(stk[t]) \in DOMAIN stk[t] /\ Top(t) = stk[t][Len(stk[t])]
        BY <1>b, <1>1, <2>2, TopShape DEF Basic, SyncTaskReturns, Is
      <4> QED BY <4>1 DEF Delivery, SyncFrames
    <3>2. mSyncTask' = mSyncTask \ {Top(t).id}
      BY <2>2 DEF SyncTaskReturns
    <3> QED BY <1>b, <1>1, <1>s, <3>1, <3>2 DEF Progress
  <2> QED BY <2>1, <2>2
<1>4. Promised
  BY <1>b, <1>1, <1>s, <1>2, WaitsSame DEF Promised, Hides
<1> QED BY <1>2, <1>3, <1>4 DEF Stepped, Arrivals, PendingAs

(* The thread stops taking events. *)
LEMMA DoomStepped ==
  ASSUME Delivery, Basic', NEW t \in Thread, Doom(t)
  PROVE  Stepped
<1>b. Basic /\ TypeOK /\ TypeOK' /\ Begun \subseteq 1 .. nEvents
  BY DEF Delivery, Orderly, Basic
<1>1. /\ Is(t, "ThreadFunc", "drain") /\ stk[t] # <<>> /\ ~HasPendingEvent(t)
      /\ UNCHANGED <<begun, ran, mSyncTask, nEvents>>
      /\ mEventsAreDoomed' = [mEventsAreDoomed EXCEPT ![t] = TRUE]
  BY DEF Doom, Is, histVars
<1>s. Begun' = Begun
  BY <1>1, BegunSame
<1>2. PendingAs /\ NewFrames
  BY <1>b, <1>1, DoomFacts, MovedNew
<1>3. Pending(t) = {}
  BY <1>b, <1>1, EmptyChain
<1>4. WaitingOn(t) = {}
  BY <1>b, <1>3, WaitingMeans
<1>5. Closes(t)
  BY <1>b, <1>1, <1>s, <1>2, <1>4, WaitsSame DEF Closes
<1>6. Progress
  BY <1>b, <1>1, <1>s DEF Progress
<1> QED BY <1>2, <1>5, <1>6 DEF Stepped, Arrivals, PendingAs, Promised

(* Events that are no client events, and the wrapper that comes back. *)
LEMMA PostSteps ==
  ASSUME Delivery, Basic', NEW t \in Thread,
         ShutdownPost(t) \/ DispatchAck(t) \/ InitPutStartup(t) \/ SyncReply(t)
  PROVE  Stepped
<1>b. Basic /\ TypeOK /\ TypeOK' /\ Begun \subseteq 1 .. nEvents /\ Orderly
  BY DEF Delivery, Orderly, Basic
<1>1. stk[t] # <<>> /\ UNCHANGED noteVars
  BY DEF ShutdownPost, DispatchAck, InitPutStartup, SyncReply, Is, noteVars, histVars
<1>s. Begun' = Begun /\ begun' = begun /\ mSyncTask' = mSyncTask
  BY <1>1, BegunSame DEF noteVars
<1>2. ASSUME NEW u \in Thread, NEW e, Posted(u, e) \/ PendingPlus(u, e), NewFrames,
             \/ e.k \notin {"task", "sync"} /\ e.id = 0
             \/ e.k = "sync" /\ e.id \in Begun /\ e.id \notin mSyncTask
      PROVE  Stepped
  <2>1. FreshEvents(e) /\ e.id \notin EventId \ Begun
    BY <1>s, <1>2 DEF FreshEvents, EventId
  <2>2. Arrivals
    BY <1>2, <2>1 DEF Arrivals, Posted, PendingAs, PendingPlus
  <2>3. Promised
    BY <1>b, <1>1, <1>s, <1>2, <2>1, WaitsPosted, WaitsPlus DEF Promised, Hides, noteVars
  <2>4. Progress
    BY <1>b, <1>1, <1>s DEF Progress, noteVars
  <2> QED BY <1>2, <2>2, <2>3, <2>4 DEF Stepped
<1>3. CASE ShutdownPost(t)
  <2>1. Moved(t, "wait") /\ Top(t).t \in Thread
    BY <1>b, <1>3, ShutdownPostFacts
  <2>2. PICK e \in Event : e.k = "shutdown" /\ e.id = 0 /\ Posted(Top(t).t, e)
    BY <1>b, <1>3, ShutdownPostFacts
  <2> QED BY <1>b, <1>1, <1>2, <2>1, <2>2, MovedNew
<1>4. CASE DispatchAck(t)
  <2>1. mShutdownContext[t] # NoThread
    BY <1>b, <1>4, TopClaims DEF DispatchAck, Is, Late
  <2>2. Moved(t, "bye") /\ mShutdownContext[t] \in Thread
    BY <1>b, <1>4, <2>1, DispatchAckFacts
  <2>3. PICK e \in Event : e.k = "ack" /\ e.id = 0 /\ Posted(mShutdownContext[t], e)
    BY <1>b, <1>4, <2>1, DispatchAckFacts
  <2> QED BY <1>b, <1>1, <1>2, <2>2, <2>3, MovedNew
<1>5. CASE InitPutStartup(t)
  <2>1. Moved(t, "wait") /\ Top(t).t \in Thread
    BY <1>b, <1>5, InitPutStartupFacts
  <2>2. PICK e \in Event : e.k = "startup" /\ e.id = 0 /\ PendingPlus(Top(t).t, e)
    BY <1>b, <1>5, InitPutStartupFacts
  <2> QED BY <1>b, <1>1, <1>2, <2>1, <2>2, MovedNew
<1>6. CASE SyncReply(t)
  <2>1. Left(t) /\ Top(t).t \in Thread
    BY <1>b, <1>6, SyncReplyFacts
  <2>2. PICK e \in Event : e.k = "sync" /\ e.id = Top(t).id /\ Posted(Top(t).t, e)
    BY <1>b, <1>6, SyncReplyFacts
  <2>3. Top(t).id \in Begun /\ Top(t).id \notin mSyncTask
    <3>1. /\ Top(t).fn = "SyncRun" /\ Top(t).at = "reply"
          /\ Len(stk[t]) \in DOMAIN stk[t] /\ Top(t) = stk[t][Len(stk[t])]
      BY <1>b, <1>1, <1>6, TopShape DEF Basic, SyncReply, Is
    <3> QED BY <3>1 DEF Delivery, SyncFrames
  <2> QED BY <1>b, <1>1, <1>2, <2>1, <2>2, <2>3, LeftNew
<1> QED BY <1>3, <1>4, <1>5, <1>6

LEMMA DispatchSteps ==
  ASSUME Delivery, Basic', NEW t \in Thread, NEW u \in Thread, Dispatch(t, u) \/ DispatchSync(t, u)
  PROVE  Stepped
<1>b. Basic /\ TypeOK /\ TypeOK' /\ Begun \subseteq 1 .. nEvents
  BY DEF Delivery, Orderly, Basic
<1>0. nEvents \in Nat /\ nEvents + 1 \in EventId /\ nEvents + 1 \notin Begun
  <2>1. nEvents \in Nat /\ nEvents < MaxEvents /\ MaxEvents \in Nat
    BY <1>b, ThreadConstants DEF TypeOK, Dispatch, DispatchSync
  <2> QED BY <1>b, <2>1 DEF EventId
<1>1. /\ stk[t] # <<>> /\ nEvents' = nEvents + 1 /\ UNCHANGED <<begun, ran, mEventsAreDoomed>>
      /\ Top(t).at # "reply"
  BY <1>b, ClientCode DEF Dispatch, DispatchSync
<1>s. Begun' = Begun
  BY <1>1, BegunSame
<1>2. PICK e \in Event : /\ e.k \in {"task", "sync"} /\ e.id = nEvents + 1 /\ Posted(u, e)
                         /\ e.k = "sync" => DispatchSync(t, u)
  BY <1>b, DispatchFacts, DispatchSyncFacts
<1>3. NewFrames /\ mSyncTask \subseteq mSyncTask' /\ mSyncTask' \subseteq mSyncTask \cup {nEvents + 1}
  <2>1. CASE Dispatch(t, u)
    BY <1>b, <2>1, DispatchFacts, SameFrames, CarriedNew DEF Dispatch
  <2>2. CASE DispatchSync(t, u) /\ mEventsAreDoomed[u]
    BY <1>b, <2>2, DispatchSyncFacts, SameFrames, CarriedNew DEF DispatchSync
  <2>3. CASE DispatchSync(t, u) /\ ~mEventsAreDoomed[u]
    <3>1. PICK f : f.fn = "Dispatch" /\ f.id = nEvents + 1 /\ MovedInto(t, Top(t).at, f)
      BY <1>b, <2>3, DispatchSyncFacts
    <3>2. mSyncTask' = mSyncTask \cup {nEvents + 1}
      BY <2>3 DEF DispatchSync
    <3> QED BY <1>b, <1>1, <3>1, <3>2, MovedIntoFrames, GrownNew
  <2> QED BY <2>1, <2>2, <2>3
<1>4. Progress
  <2>1. 1 .. nEvents \subseteq 1 .. nEvents + 1
    BY <1>0
  <2> QED BY <1>b, <1>1, <1>s, <1>3, <2>1 DEF Progress
<1>5. CASE mEventsAreDoomed[u]
  <2>1. PendingAs
    BY <1>2, <1>5 DEF Posted
  <2>2. Promised
    BY <1>b, <1>1, <1>s, <2>1, WaitsSame DEF Promised, Hides
  <2> QED BY <1>3, <1>4, <2>1, <2>2 DEF Stepped, Arrivals, PendingAs
<1>6. CASE ~mEventsAreDoomed[u]
  <2>1. PendingPlus(u, e)
    BY <1>2, <1>6 DEF Posted
  <2>2. e.k = "sync" => e.id \in mSyncTask'
    BY <1>2, <1>6 DEF DispatchSync
  <2>3. Arrivals
    BY <1>0, <1>s, <1>2, <2>1, <2>2 DEF Arrivals, FreshEvents, PendingPlus
  <2>4. ASSUME NEW v \in Thread PROVE e.id \notin WaitingOn(v)
    BY <1>b, <1>2, IdsKnown, WaitingMeans
  <2>5. Accepts(u, e.id)
    BY <1>b, <1>0, <1>1, <1>s, <1>2, <1>6, <2>1, <2>4, WaitsMore DEF Accepts
  <2> QED BY <1>0, <1>2, <1>3, <1>4, <2>3, <2>5 DEF Stepped, Promised
<1> QED BY <1>5, <1>6

(* An event is taken; what it does not begin was begun before. *)
LEMMA TakingStepped ==
  ASSUME Delivery, Basic', NEW t \in Thread, NEW at \in At, Taking(t, at)
  PROVE  Stepped
<1> DEFINE e == NextEvent(t)
           f == RunFrame(t, e)
<1>b. /\ Basic /\ TypeOK /\ TypeOK' /\ Begun \subseteq 1 .. nEvents /\ Numbered
      /\ OneTarget /\ SyncEvents /\ OnceEach
  BY DEF Delivery, Orderly, Basic
<1>1. /\ e \in Event /\ PendingTaken(t, e)
      /\ Runs(e) => MovedInto(t, at, f)
      /\ ~Runs(e) => Moved(t, at)
  BY <1>b, TakingFacts
<1>2. /\ begun' = IF Runs(e) THEN [begun EXCEPT ![e.id] = @ + 1] ELSE begun
      /\ stk[t] # <<>> /\ at # "reply" /\ UNCHANGED <<mEventsAreDoomed, mSyncTask, nEvents, ran>>
  BY DEF Taking, TakeAndRun, RunEvent, Runs
<1>3. f.fn \in {"Run", "SyncRun"} /\ f.id = e.id /\ f.at = "task"
  BY DEF RunFrame
<1>o. e.id \in EventId \ Begun => \A d \in Pending(t)' : d.id # e.id
  <2>1. HasPendingEvent(t) /\ popped' = popped /\ mEvents' = [mEvents EXCEPT ![t][Len(mEvents[t])].q = Tail(@)]
    BY DEF Taking, TakeAndRun
  <2>2. \A x : Single(t, Copies(x)) /\ e \in Copies(x) => \A k, n : ~EventAt(t, k, n, Copies(x))'
    BY <1>b, <2>1, TakeSingle
  <2>3. ASSUME NEW d \in Pending(t)', NEW x \in EventId \ Begun, d.id = x, e.id = x PROVE FALSE
    <3>1. d \in Event /\ \E k, n : EventAt(t, k, n, {d})'
      BY <1>b, AllFoundThen DEF AllFound
    <3>2. \E k, n : EventAt(t, k, n, Copies(x))'
      BY <2>3, <3>1 DEF EventAt, Copies
    <3>3. Single(t, Copies(x)) /\ e \in Copies(x)
      BY <1>b, <1>1, <2>3 DEF OnceEach, Copies
    <3> QED BY <2>2, <3>2, <3>3
  <2> QED BY <2>3
<1> HIDE DEF e, f
<1>4. e \in Pending(t) /\ \A v \in Thread : Pending(v)' \subseteq Pending(v)
  BY <1>1 DEF PendingTaken
<1>5. CASE Runs(e)
  <2>1. e.id \in 1 .. nEvents /\ e.id \in EventId
    <3>1. e.id \in 1 .. nEvents /\ nEvents \in Nat /\ MaxEvents \in Nat /\ nEvents <= MaxEvents
      BY <1>b, <1>4, <1>5, ThreadConstants DEF Numbered, Runs, TypeOK
    <3> QED BY <3>1 DEF EventId
  <2>2. e.id \notin Begun
    BY <1>b, <1>4, <1>5 DEF SyncEvents
  <2>3. begun' = [begun EXCEPT ![e.id] = @ + 1] /\ Begun' = Begun \cup {e.id}
    BY <1>b, <1>2, <1>5, <2>1 DEF Begun, TypeOK
  <2>4. NewFrames
    BY <1>b, <1>1, <1>2, <1>3, <1>5, <2>3, MovedIntoFrames, GrownNew
  <2>5. ASSUME NEW v \in Thread, NEW d \in Pending(v)' PROVE d.id # e.id
    <3>1. CASE v = t
      BY <1>o, <2>1, <2>2, <2>5, <3>1
    <3>2. CASE v # t
      BY <1>b, <1>4, <2>1, <2>2, <2>5, <3>2 DEF OneTarget
    <3> QED BY <3>1, <3>2
  <2>6. Progress
    BY <1>b, <1>2, <2>1, <2>3, <2>5 DEF Progress
  <2>7. Begins(t, e.id)
    BY <1>b, <1>1, <1>2, <2>1, <2>2, <2>3, WaitsLess DEF Begins
  <2> QED BY <1>4, <2>1, <2>4, <2>6, <2>7 DEF Stepped, Arrivals, Promised
<1>6. CASE ~Runs(e)
  <2>1. e.id \notin EventId \ Begun
    BY <1>4, <1>6 DEF Delivery, SyncEvents, Runs, EventId
  <2>2. begun' = begun /\ Begun' = Begun
    BY <1>2, <1>6, BegunSame
  <2>3. WaitsAs
    BY <1>b, <1>1, <2>1, <2>2, WaitsTaken
  <2>4. NewFrames
    BY <1>b, <1>1, <1>2, <1>6, MovedNew
  <2>5. Progress
    BY <1>b, <1>2, <2>2 DEF Progress
  <2> QED BY <1>2, <1>4, <2>2, <2>3, <2>4, <2>5 DEF Stepped, Arrivals, Promised, Hides
<1> QED BY <1>5, <1>6

(* No step makes a second copy of an event that was not begun. *)
LEMMA SinglesOnce ==
  ASSUME OnceEach, Begun \subseteq Begun',
         \A x : \A v \in Thread : Single(v, Copies(x)) => Single(v, Copies(x))'
  PROVE  OnceEach'
<1> SUFFICES ASSUME NEW t \in Thread, NEW x \in EventId, x \notin Begun' PROVE Single(t, Copies(x))'
  BY DEF OnceEach
<1> QED BY DEF OnceEach

LEMMA QuietOnce ==
  ASSUME OnceEach, Begun \subseteq Begun', mEvents' = mEvents, popped' = popped
  PROVE  OnceEach'
<1>1. ASSUME NEW x, NEW v \in Thread, Single(v, Copies(x)) PROVE Single(v, Copies(x))'
  BY <1>1, SingleSame
<1> QED BY <1>1, SinglesOnce

LEMMA PutOnce ==
  ASSUME Delivery, Begun \subseteq Begun', NEW u \in Thread, NEW e \in Event,
         PutEvent(u, e) \/ mEvents' = Put(u, e), popped' = popped,
         e.id \in EventId \ Begun => e.id = nEvents + 1
  PROVE  OnceEach'
<1>b. Basic /\ TypeOK /\ OnceEach
  BY DEF Delivery, Orderly, Basic
<1> SUFFICES ASSUME NEW t \in Thread, NEW x \in EventId, x \notin Begun' PROVE Single(t, Copies(x))'
  BY DEF OnceEach
<1>1. x \in EventId \ Begun /\ Single(t, Copies(x))
  BY <1>b DEF OnceEach
<1>2. ASSUME e \in Copies(x), NEW k, NEW n, EventAt(u, k, n, Copies(x)) PROVE FALSE
  <2>1. PICK d \in Pending(u) : d \in Copies(x)
    BY <1>b, <1>2, AtPending
  <2>2. d.id = nEvents + 1
    BY <1>1, <1>2, <2>1 DEF Copies
  <2> QED BY <2>2, IdsKnown
<1> QED BY <1>b, <1>1, <1>2, PutSingle

LEMMA NextOnce == ASSUME Delivery, Next, Begun \subseteq Begun' PROVE OnceEach'
<1>b. Basic /\ TypeOK /\ OnceEach /\ Orderly
  BY DEF Delivery, Orderly, Basic
<1> PICK t \in Thread : ClientStep(t) \/ ThreadStep(t) \/ PopEventQueue(t)
  BY DEF Next
<1>1. CASE mEvents' = mEvents /\ popped' = popped
  BY <1>b, <1>1, QuietOnce
<1>2. ASSUME NEW u \in Thread, Dispatch(t, u) \/ DispatchSync(t, u) PROVE OnceEach'
  <2>1. nEvents + 1 \in 0 .. MaxEvents
    BY <1>b, <1>2, ThreadConstants DEF TypeOK, Dispatch, DispatchSync
  <2>2. PICK e \in Event : e.id = nEvents + 1 /\ PutEvent(u, e)
    <3>1. /\ [k |-> "task", id |-> nEvents + 1, t |-> t] \in Event
          /\ [k |-> "sync", id |-> nEvents + 1, t |-> t] \in Event
      BY <2>1 DEF Event, Kind
    <3> QED BY <1>2, <3>1 DEF Dispatch, DispatchSync
  <2>3. popped' = popped
    BY <1>2 DEF Dispatch, DispatchSync
  <2> QED BY <2>2, <2>3, PutOnce
<1>3. ASSUME NEW f \in Filter, PushEventQueue(t, f) PROVE OnceEach'
  <2>1. ASSUME NEW x, NEW v \in Thread, Single(v, Copies(x)) PROVE Single(v, Copies(x))'
    BY <1>b, <1>3, <2>1, PushSingle DEF PushEventQueue
  <2> QED BY <1>b, <2>1, SinglesOnce
<1>4. CASE PopEventQueue(t)
  <2>1. stk[t] # <<>> /\ Top(t).at = "loop" /\ Top(t).fn = "EventLoop"
    BY <1>4 DEF PopEventQueue, Is
  <2>2. popped[t] = <<>> /\ Len(mEvents[t]) >= 2
    BY <1>b, <2>1, NothingPopped, LoopChain
  <2>3. ASSUME NEW x, NEW v \in Thread, Single(v, Copies(x)) PROVE Single(v, Copies(x))'
    BY <1>b, <1>4, <2>2, <2>3, PopSingle DEF PopEventQueue
  <2> QED BY <1>b, <2>3, SinglesOnce
<1>5. CASE RepostEvent(t)
  <2>1. ASSUME NEW x, NEW v \in Thread, Single(v, Copies(x)) PROVE Single(v, Copies(x))'
    BY <1>b, <1>5, <2>1, RepostSingle DEF RepostEvent
  <2> QED BY <1>b, <2>1, SinglesOnce
<1>6. CASE ProcessNextEvent(t) \/ ThreadStartup(t)
  <2>1. /\ HasPendingEvent(t) /\ popped' = popped
        /\ mEvents' = [mEvents EXCEPT ![t][Len(mEvents[t])].q = Tail(@)]
    BY <1>6, TakingCases DEF Taking, TakeAndRun
  <2>2. \A x : \A v \in Thread : Single(v, Copies(x)) => Single(v, Copies(x))'
    BY <1>b, <2>1, TakeSingle
  <2> QED BY <1>b, <2>2, SinglesOnce
<1>7. CASE ShutdownPost(t) \/ InitPutStartup(t)
  <2>1. Top(t).t \in Thread
    BY <1>b, <1>7, ShutdownPostFacts, InitPutStartupFacts
  <2>2. PICK e \in Event : e.id = 0 /\ (PutEvent(Top(t).t, e) \/ mEvents' = Put(Top(t).t, e))
    <3>1. /\ [k |-> "shutdown", id |-> 0, t |-> t] \in Event
          /\ [k |-> "startup", id |-> 0, t |-> Top(t).t] \in Event
      BY <2>1, ThreadConstants DEF Event, Kind
    <3> QED BY <1>7, <3>1 DEF ShutdownPost, InitPutStartup
  <2>3. popped' = popped /\ e.id \notin EventId
    BY <1>7, <2>2 DEF ShutdownPost, InitPutStartup, EventId
  <2> QED BY <2>1, <2>2, <2>3, PutOnce
<1>8. CASE DispatchAck(t)
  <2>1. mShutdownContext[t] # NoThread
    BY <1>b, <1>8, TopClaims DEF DispatchAck, Is, Late
  <2>2. mShutdownContext[t] \in Thread
    BY <1>b, <1>8, <2>1, DispatchAckFacts
  <2>3. PICK e \in Event : e.id = 0 /\ PutEvent(mShutdownContext[t], e)
    <3>1. [k |-> "ack", id |-> 0, t |-> t] \in Event
      BY ThreadConstants DEF Event, Kind
    <3> QED BY <1>8, <3>1 DEF DispatchAck
  <2>4. popped' = popped /\ e.id \notin EventId
    BY <1>8, <2>3 DEF DispatchAck, EventId
  <2> QED BY <2>2, <2>3, <2>4, PutOnce
<1>9. CASE SyncReply(t)
  <2>1. /\ stk[t] # <<>> /\ Top(t).fn = "SyncRun" /\ popped' = popped
        /\ PutEvent(Top(t).t, [k |-> "sync", id |-> Top(t).id, t |-> Top(t).t])
    BY <1>9 DEF SyncReply, Is
  <2>2. Top(t) \in Frame /\ Len(stk[t]) \in DOMAIN stk[t] /\ Top(t) = stk[t][Len(stk[t])]
    BY <1>b, <2>1, TopShape DEF Basic
  <2>3. Top(t).id \in Begun
    BY <2>1, <2>2 DEF Delivery, SyncFrames
  <2>4. PICK e \in Event : e.id = Top(t).id /\ PutEvent(Top(t).t, e)
    <3>1. [k |-> "sync", id |-> Top(t).id, t |-> Top(t).t] \in Event
      BY <2>2 DEF Event, Kind, Frame
    <3> QED BY <2>1, <3>1
  <2>5. Top(t).t \in Thread
    BY <2>2 DEF Frame
  <2> QED BY <2>1, <2>3, <2>4, <2>5, PutOnce
<1>10. CASE \/ \E u \in Thread : NewThread(t, u) \/ Shutdown(t, u)
            \/ RunReturns(t) \/ SyncTaskReturns(t) \/ DispatchSyncTest(t) \/ DispatchSyncNoWait(t)
            \/ ShutdownAcked(t) \/ ShutdownJoin(t) \/ InitDone(t) \/ ThreadStart(t)
            \/ LeaveLoop(t) \/ Doom(t) \/ DrainMore(t) \/ Unregister(t) \/ ThreadExit(t)
            \/ PopEventQueueDone(t)
  BY <1>1, <1>10 DEF NewThread, Shutdown, Claim, RunReturns, SyncTaskReturns, DispatchSyncTest,
       DispatchSyncNoWait, ShutdownAcked, ShutdownJoin, InitDone, ThreadStart, LeaveLoop, Doom,
       DrainMore, Unregister, ThreadExit, PopEventQueueDone, queueVars
<1> QED BY <1>2, <1>3, <1>4, <1>5, <1>6, <1>7, <1>8, <1>9, <1>10 DEF ClientStep, ThreadStep

LEMMA NextStepped == ASSUME Delivery, Next PROVE Stepped /\ Orderly'
<1>1. Orderly' /\ Basic'
  BY NextOrderly DEF Delivery, Orderly
<1> PICK t \in Thread : ClientStep(t) \/ ThreadStep(t) \/ PopEventQueue(t)
  BY DEF Next
<1>2. CASE ClientStep(t)
  <2>1. ASSUME NEW u \in Thread, Dispatch(t, u) \/ DispatchSync(t, u) PROVE Stepped
    BY <1>1, <2>1, DispatchSteps
  <2>2. CASE \E u \in Thread : NewThread(t, u) \/ Shutdown(t, u)
    BY <1>1, <2>2, QuietSteps
  <2>3. CASE \E f \in Filter : PushEventQueue(t, f)
    BY <1>1, <2>3, QuietSteps
  <2> QED BY <1>1, <1>2, <2>1, <2>2, <2>3 DEF ClientStep
<1>3. CASE \/ PopEventQueue(t) \/ RepostEvent(t) \/ PopEventQueueDone(t)
           \/ DispatchSyncTest(t) \/ DispatchSyncNoWait(t)
           \/ ShutdownAcked(t) \/ ShutdownJoin(t) \/ InitDone(t)
           \/ ThreadStart(t) \/ LeaveLoop(t) \/ DrainMore(t) \/ Unregister(t) \/ ThreadExit(t)
  BY <1>1, <1>3, QuietSteps
<1>4. CASE RunReturns(t) \/ SyncTaskReturns(t)
  BY <1>1, <1>4, ReturnSteps
<1>5. CASE Doom(t)
  BY <1>1, <1>5, DoomStepped
<1>6. CASE ShutdownPost(t) \/ DispatchAck(t) \/ InitPutStartup(t) \/ SyncReply(t)
  BY <1>1, <1>6, PostSteps
<1>7. CASE ProcessNextEvent(t) \/ ThreadStartup(t)
  BY <1>1, <1>7, TakingCases, TakingStepped
<1> QED BY <1>2, <1>3, <1>4, <1>5, <1>6, <1>7 DEF ThreadStep

LEMMA StutterStepped == ASSUME Delivery, UNCHANGED vars PROVE Stepped /\ Orderly'
<1>1. UNCHANGED <<mEvents, popped, stk>> /\ UNCHANGED noteVars
  BY DEF vars, queueVars, histVars, noteVars
<1>2. Orderly' /\ TypeOK'
  BY StutterOrderly DEF Delivery, Orderly, Basic
<1>3. PendingAs /\ NewFrames
  BY <1>1, PendingKept, SameFrames, CarriedNew
<1> QED BY <1>1, <1>2, <1>3, QuietStepped

LEMMA InitDelivery == ASSUME Init PROVE Delivery
<1>1. Orderly
  BY InitOrderly
<1>2. /\ \A t \in Thread : Pending(t) = {}
      /\ \A t \in Thread \ {Main} : stk[t] = <<>>
      /\ DOMAIN stk[Main] = {1} /\ stk[Main][1].fn = "app"
  BY InitBasic
<1>3. Begun = {}
  BY DEF Init, Begun
<1>4. SyncFrames
  <2>1. ASSUME NEW t \in Thread, NEW i \in DOMAIN stk[t] PROVE stk[t][i].fn = "app"
    <3>1. CASE t = Main
      BY <1>2, <2>1, <3>1
    <3>2. CASE t # Main
      BY <1>2, <2>1, <3>2
    <3> QED BY <3>1, <3>2
  <2> QED BY <2>1 DEF SyncFrames
<1>5. OnceEach
  <2>1. ASSUME NEW t \in Thread, NEW S PROVE \A i, n : ~EventAt(t, i, n, S)
    BY <1>1, <1>2, AtPending DEF Orderly, Basic
  <2> QED BY <2>1 DEF OnceEach, Single
<1> QED BY <1>1, <1>2, <1>3, <1>4, <1>5 DEF Delivery, SyncEvents, OneTarget

LEMMA StepDelivery == Delivery /\ [Next]_vars => Delivery'
<1> SUFFICES ASSUME Delivery, [Next]_vars PROVE Delivery'
  OBVIOUS
<1>1. Stepped /\ Orderly'
  BY NextStepped, StutterStepped
<1>2. Begun \subseteq Begun'
  BY <1>1 DEF Stepped, Progress
<1>3. CASE Next
  BY <1>1, <1>2, <1>3, NextOnce, DeliveryKept DEF Stepped
<1>4. CASE UNCHANGED vars
  <2>1. OnceEach'
    BY <1>2, <1>4, QuietOnce DEF Delivery, vars, queueVars
  <2> QED BY <1>1, <2>1, DeliveryKept DEF Stepped
<1> QED BY <1>3, <1>4

(* The numbers of the events are used consistently in every reachable      *)
(* state of nsThread.                                                      *)
THEOREM AlwaysDelivery == Spec => []Delivery
<1>1. Init => Delivery
  BY InitDelivery
<1> QED BY <1>1, StepDelivery, PTL DEF Spec
--------------------------------------------------------------------------------
(* Only the test of the flag ends a synchronous dispatch. *)
LEMMA OnlyTest ==
  ASSUME Orderly, NEW t \in Thread, Is(t, "Dispatch", "test"),
         ClientStep(t) \/ ThreadStep(t) \/ PopEventQueue(t)
  PROVE  DispatchSyncTest(t)
<1>1. Top(t).fn = "Dispatch" /\ Top(t).at = "test"
  BY DEF Is
<1>2. ~ClientStep(t)
  BY <1>1 DEF ClientStep, Dispatch, DispatchSync, NewThread, Shutdown, PushEventQueue, InClientCode, Is
<1>3. ~ProcessNextEvent(t) /\ ~ThreadStartup(t)
  BY <1>1 DEF ProcessNextEvent, ThreadStartup, Is
<1> QED BY <1>1, <1>2, <1>3 DEF ThreadStep, RunReturns, SyncTaskReturns, SyncReply, DispatchSyncNoWait,
          ShutdownPost, ShutdownAcked, ShutdownJoin, InitPutStartup, InitDone, ThreadStart, LeaveLoop,
          Doom, DrainMore, Unregister, DispatchAck, ThreadExit, RepostEvent, PopEventQueueDone,
          PopEventQueue, Is

(* SyncDispatchWaits: a synchronous dispatch that was accepted does not     *)
(* return before its task has, for any number of threads that dispatch to   *)
(* each other in circles and nest event loops while they wait.              *)
THEOREM SyncWaits == Spec => SyncDispatchWaits
<1>1. ASSUME Delivery, Next, NEW t \in Thread, Is(t, "Dispatch", "test"), Len(stk'[t]) < Len(stk[t])
      PROVE  Top(t).id \in ran
  <2>1. PICK a \in Thread : ClientStep(a) \/ ThreadStep(a) \/ PopEventQueue(a)
    BY <1>1 DEF Next
  <2>2. TypeOK /\ Shape /\ Orderly /\ Basic
    BY <1>1 DEF Delivery, Orderly, Basic
  <2>3. stk[t] # <<>> /\ Top(t).fn = "Dispatch" /\ Len(stk[t]) \in Nat
    BY <1>1, <2>2, StackType DEF Is
  <2>4. a = t
    <3> SUFFICES ASSUME a # t PROVE FALSE
      OBVIOUS
    <3>1. stk'[t] = stk[t]
      BY <2>1, <2>2, <2>3, OwnStack
    <3>2. ~(Len(stk[t]) < Len(stk[t]))
      BY <2>3
    <3> QED BY <1>1, <3>1, <3>2
  <2>5. DispatchSyncTest(t)
    BY <1>1, <2>1, <2>2, <2>4, OnlyTest
  <2>6. Top(t).id \notin mSyncTask
    <3> SUFFICES ASSUME Top(t).id \in mSyncTask PROVE FALSE
      OBVIOUS
    <3>1. Len(stk'[t]) = Len(stk[t])
      BY <2>2, <2>5, DispatchSyncTestFacts DEF Moved
    <3>2. ~(Len(stk[t]) < Len(stk[t]))
      BY <2>3
    <3> QED BY <1>1, <3>1, <3>2
  <2>7. Top(t).id \in mSyncTask \cup ran
    BY <1>1, <2>2, <2>3, TopShape DEF Delivery, SyncFrames
  <2> QED BY <2>6, <2>7
<1>2. Delivery /\ [Next]_vars =>
        [\A t \in Thread :
           (Is(t, "Dispatch", "test") /\ Len(stk'[t]) < Len(stk[t])) => Top(t).id \in ran]_vars
  BY <1>1
<1> QED BY <1>2, AlwaysDelivery, PTL DEF Spec, SyncDispatchWaits

LEMMA StepKeepsPromise == Delivery /\ [Next]_vars => [Target!Next]_Target!vars
<1> SUFFICES ASSUME Delivery, [Next]_vars PROVE [Target!Next]_Target!vars
  OBVIOUS
<1>1. Promised /\ TypeOK
  BY NextStepped, StutterStepped DEF Stepped, Delivery, Orderly, Basic
<1>d. mEventsAreDoomed \in [Thread -> BOOLEAN]
  BY <1>1 DEF TypeOK
<1> DEFINE w == [t \in Thread |-> WaitingOn(t)]
           c == {t \in Thread : mEventsAreDoomed[t]}
<1>w. w \in [Thread -> SUBSET EventId] /\ \A t \in Thread : w[t] = WaitingOn(t)
  BY DEF WaitingOn
<1>2. CASE Hides
  <2>1. w' = w /\ c' = c /\ begun' = begun
    BY <1>2 DEF Hides, WaitsAs
  <2> QED BY <2>1 DEF Target!vars
<1>3. ASSUME NEW u \in Thread, Closes(u) PROVE Target!Next
  <2>1. w' = w /\ begun' = begun /\ w[u] = {}
    BY <1>3 DEF Closes, WaitsAs
  <2>2. c' = c \cup {u}
    BY <1>3, <1>d DEF Closes
  <2> QED BY <2>1, <2>2 DEF Target!Next, Target!Close
<1>4. ASSUME NEW u \in Thread, NEW x \in EventId, Accepts(u, x) PROVE Target!Next
  <2>1. begun' = begun /\ c' = c /\ u \notin c
    BY <1>4 DEF Accepts
  <2>2. w' = [w EXCEPT ![u] = @ \cup {x}]
    BY <1>4, <1>w DEF Accepts
  <2>3. x \notin Target!Known
    BY <1>4 DEF Accepts, Target!Known, Begun
  <2> QED BY <2>1, <2>2, <2>3 DEF Target!Next, Target!Accept
<1>5. ASSUME NEW u \in Thread, NEW x \in EventId, Begins(u, x) PROVE Target!Next
  <2>1. begun' = [begun EXCEPT ![x] = @ + 1] /\ c' = c /\ x \in w[u]
    BY <1>5 DEF Begins
  <2>2. w' = [w EXCEPT ![u] = @ \ {x}]
    BY <1>5, <1>w DEF Begins
  <2> QED BY <2>1, <2>2 DEF Target!Next, Target!Begin
<1> QED BY <1>1, <1>2, <1>3, <1>4, <1>5 DEF Promised

(* ImplementsTarget: filters, nested loops and shutdown notwithstanding,    *)
(* every thread keeps the promise of nsIEventTarget; in particular no event *)
(* is begun twice.                                                          *)
THEOREM TargetPromiseKept == Spec => ImplementsTarget
<1>1. Init => Target!Init
  <2> SUFFICES ASSUME Init PROVE Target!Init
    OBVIOUS
  <2>1. \A t \in Thread : WaitingOn(t) = {}
    BY InitBasic, WaitingMeans
  <2>2. begun = [e \in EventId |-> 0] /\ \A t \in Thread : ~mEventsAreDoomed[t]
    BY DEF Init
  <2> QED BY <2>1, <2>2 DEF Target!Init
<1> QED BY <1>1, AlwaysDelivery, StepKeepsPromise, PTL DEF Spec, ImplementsTarget, Target!Spec
================================================================================
