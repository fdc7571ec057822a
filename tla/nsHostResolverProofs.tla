-------------------------- MODULE nsHostResolverProofs --------------------------
(***************************************************************************)
(* Proofs about nsHostResolver, for any hosts, calls, limits and bounds.   *)
(* A record is freed when its last reference goes, so where the records    *)
(* are and how often they are referenced cannot be proved one without the  *)
(* other: Resolving is one invariant, in six parts.                        *)
(***************************************************************************)
EXTENDS nsHostResolver, TLAPS, FiniteSetTheorems, SequenceTheorems

One(b) == IF b THEN 1 ELSE 0
Distinct(s) == \A i, j \in DOMAIN s : s[i] = s[j] => i = j

Waits(x) == (\E p \in Priority : x \in ToSet(queue[p])) \/ x \in ToSet(aborted)
Kept(x) == x \in ToSet(mEvictionQ) \/ x \in ToSet(evicted)
LooksUp(w, x) == w \in Worker /\ pc[w] = "lookup" /\ cur[w] = x
Known(x) == \E h \in Host : mDB[h] = x
Users(x) == {a \in Actor : cur[a] = x}
Holders(x) == {r \in Request : req[r].rec = x}

(* Where each thread is and what it has in its hands. *)
Hands ==
  /\ TypeOK /\ nReq <= MaxRequests
  /\ pc[0] \in {"none", "deliver", "clear", "done"}
  /\ \A w \in Worker : pc[w] \notin {"clear", "done"}
  /\ \A a \in Actor : /\ cur[a] \in Rec <=> pc[a] \in {"lookup", "deliver"}
                      /\ pc[a] # "deliver" => cbs[a] = {}
  /\ \A r \in Request : /\ req[r].rec \in Rec <=> req[r].at = "handed"
                        /\ req[r].calls = One(req[r].at = "called")
                        /\ r > nReq => req[r].at = "unused"

(* No record is linked into a list twice; the lists of the resolver are     *)
(* empty after Shutdown, and those of Shutdown before.                      *)
Lists ==
  /\ \A p \in Priority : Distinct(queue[p])
  /\ Distinct(mEvictionQ) /\ Distinct(aborted) /\ Distinct(evicted)
  /\ mShutdown => /\ \A p \in Priority : queue[p] = <<>>
                  /\ mEvictionQ = <<>> /\ \A h \in Host : mDB[h] = NoRec
  /\ ~mShutdown => aborted = <<>> /\ evicted = <<>> /\ pc[0] = "none"

(* A record that is being resolved is in one place; the flags of a record   *)
(* say where it is; the cached ones are in the table.                       *)
Places ==
  /\ \A x \in Rec :
       /\ \A p \in Priority : x \in ToSet(queue[p]) => rec[x].flags = p /\ rec[x].onQueue
       /\ rec[x].resolving <=> Waits(x) \/ \E w \in Worker : LooksUp(w, x)
       /\ rec[x].resolving => x \notin ToSet(mEvictionQ) /\ (~mShutdown => Known(x))
       /\ x \in ToSet(mEvictionQ) => Known(x)
       /\ rec[x].usingAny => \E w \in Worker : LooksUp(w, x)
  /\ \A x \in Rec, w \in Worker : LooksUp(w, x) =>
       /\ ~Waits(x) /\ ~rec[x].onQueue
       /\ \A v \in Worker : LooksUp(v, x) => v = w
  /\ \A h \in Host : mDB[h] # NoRec => rec[mDB[h]].host = h

(* The references to a record are counted, and without any it is gone. *)
Counted(x) == /\ rec[x].refc = One(Known(x)) + One(Waits(x)) + One(Kept(x))
                               + Cardinality(Users(x)) + Cardinality(Holders(x))
              /\ rec[x].refc = 0 => rec[x] = NoRecord
References == \A x \in Rec : Counted(x)

(* A pending request is in one list of callbacks. *)
Listed(r, x) == x \in Rec /\ r \in rec[x].callbacks
Called(r, a) == a \in Actor /\ r \in cbs[a]
Callbacks ==
  \A r \in Request :
    /\ req[r].at = "pending" => \/ \E x \in Rec : Listed(r, x)
                                \/ \E a \in Actor : Called(r, a)
    /\ \A x \in Rec : Listed(r, x) =>
         /\ rec[x].resolving /\ req[r].at = "pending"
         /\ \A y \in Rec : Listed(r, y) => x = y
         /\ \A a \in Actor : ~Called(r, a)
    /\ \A a \in Actor : Called(r, a) =>
         req[r].at = "pending" /\ \A b \in Actor : Called(r, b) => a = b

Live == {w \in Worker : pc[w] # "none"}
Resting == {w \in Worker : pc[w] \in {"idle", "woken", "late"}}
Busy == {x \in Rec : rec[x].usingAny}
Counters ==
  /\ mPendingCount = Cardinality(Queued)
  /\ mEvictionQSize = Len(mEvictionQ) /\ mEvictionQSize <= MaxCacheEntries
  /\ mThreadCount = Cardinality(Live) /\ mThreadCount <= MaxResolverThreads
  /\ mNumIdleThreads = Cardinality(Resting)
  /\ mActiveAnyThreadCount = Cardinality(Busy)
  /\ mActiveAnyThreadCount <= HighThreadThreshold

Resolving == Hands /\ Lists /\ Places /\ References /\ Callbacks /\ Counters
--------------------------------------------------------------------------------
(* Sequences and finite sets *)

LEMMA AppendSet ==
  ASSUME NEW S, NEW s \in Seq(S), NEW x \in S
  PROVE  /\ ToSet(Append(s, x)) = ToSet(s) \cup {x}
         /\ Append(s, x) \in Seq(S) /\ Len(Append(s, x)) = Len(s) + 1
         /\ Distinct(s) /\ x \notin ToSet(s) => Distinct(Append(s, x))
<1> DEFINE q == Append(s, x)
<1>1. /\ q \in Seq(S) /\ Len(q) = Len(s) + 1 /\ Len(s) \in Nat
      /\ DOMAIN s = 1 .. Len(s) /\ DOMAIN q = 1 .. Len(s) + 1
      /\ \A i \in 1 .. Len(s) : q[i] = s[i]
      /\ q[Len(s) + 1] = x
  OBVIOUS
<1> HIDE DEF q
<1>2. ToSet(q) = ToSet(s) \cup {x}
  <2>1. ASSUME NEW y \in ToSet(q) PROVE y \in ToSet(s) \cup {x}
    <3>1. PICK i \in 1 .. Len(s) + 1 : y = q[i]
      BY <1>1 DEF ToSet
    <3>2. i \in 1 .. Len(s) \/ i = Len(s) + 1
      BY <1>1
    <3> QED BY <1>1, <3>1, <3>2 DEF ToSet
  <2>2. ASSUME NEW y \in ToSet(s) PROVE y \in ToSet(q)
    <3>1. PICK i \in 1 .. Len(s) : y = s[i]
      BY <1>1 DEF ToSet
    <3>2. i \in DOMAIN q /\ y = q[i]
      BY <1>1, <3>1
    <3> QED BY <3>2 DEF ToSet
  <2>3. x \in ToSet(q)
    <3>1. Len(s) + 1 \in DOMAIN q
      BY <1>1
    <3> QED BY <1>1, <3>1 DEF ToSet
  <2> QED BY <2>1, <2>2, <2>3
<1>3. ASSUME Distinct(s), x \notin ToSet(s) PROVE Distinct(q)
  <2>1. \A i \in 1 .. Len(s) : s[i] # x
    BY <1>1, <1>3 DEF ToSet
  <2> QED BY <1>1, <1>3, <2>1 DEF Distinct
<1> QED BY <1>1, <1>2, <1>3 DEF q

LEMMA TailSet ==
  ASSUME NEW S, NEW s \in Seq(S), s # <<>>
  PROVE  /\ Head(s) \in ToSet(s) /\ Head(s) \in S
         /\ Tail(s) \in Seq(S) /\ Len(Tail(s)) = Len(s) - 1
         /\ Distinct(s) => Distinct(Tail(s)) /\ ToSet(Tail(s)) = ToSet(s) \ {Head(s)}
<1>1. Len(s) \in Nat \ {0} /\ Head(s) = s[1] /\ DOMAIN s = 1 .. Len(s)
  OBVIOUS
<1>2. Tail(s) \in Seq(S) /\ Len(Tail(s)) = Len(s) - 1 /\ \A i \in 1 .. Len(s) - 1 : Tail(s)[i] = s[i + 1]
  BY <1>1
<1>3. ASSUME Distinct(s) PROVE Distinct(Tail(s)) /\ ToSet(Tail(s)) = ToSet(s) \ {Head(s)}
  <2>1. DOMAIN Tail(s) = 1 .. Len(s) - 1
    BY <1>2
  <2>2. Distinct(Tail(s))
    BY <1>1, <1>2, <1>3, <2>1 DEF Distinct
  <2>3. ASSUME NEW y \in ToSet(Tail(s)) PROVE y \in ToSet(s) \ {Head(s)}
    <3>1. PICK i \in 1 .. Len(s) - 1 : y = s[i + 1]
      BY <1>2, <2>1 DEF ToSet
    <3> QED BY <1>1, <1>3, <3>1 DEF ToSet, Distinct
  <2>4. ASSUME NEW y \in ToSet(s) \ {Head(s)} PROVE y \in ToSet(Tail(s))
    <3>1. PICK i \in 1 .. Len(s) : y = s[i]
      BY <1>1 DEF ToSet
    <3>2. i - 1 \in 1 .. Len(s) - 1 /\ y = Tail(s)[i - 1]
      BY <1>1, <1>2, <3>1
    <3> QED BY <2>1, <3>2 DEF ToSet
  <2> QED BY <2>2, <2>3, <2>4
<1>4. Head(s) \in ToSet(s) /\ Head(s) \in S
  <2>1. 1 \in DOMAIN s
    BY <1>1
  <2> QED BY <1>1, <2>1 DEF ToSet
<1> QED BY <1>2, <1>3, <1>4

LEMMA WithoutSet ==
  ASSUME NEW S, NEW s \in Seq(S), NEW x, Distinct(s)
  PROVE  /\ Without(s, x) \in Seq(S) /\ Distinct(Without(s, x))
         /\ ToSet(Without(s, x)) = ToSet(s) \ {x}
         /\ Len(Without(s, x)) = IF x \in ToSet(s) THEN Len(s) - 1 ELSE Len(s)
<1>1. CASE x \notin ToSet(s)
  BY <1>1 DEF Without
<1>2. CASE x \in ToSet(s)
  <2> DEFINE k == CHOOSE i \in DOMAIN s : s[i] = x
             n == Len(s)
             q == RemoveAt(s, k)
  <2>1. n \in Nat /\ DOMAIN s = 1 .. n /\ k \in 1 .. n /\ s[k] = x
    BY <1>2 DEF ToSet
  <2>2. Without(s, x) = q
    BY <1>2 DEF Without
  <2> HIDE DEF k, n
  <2>3. /\ q \in Seq(S) /\ Len(q) = n - 1 /\ DOMAIN q = 1 .. n - 1
        /\ \A i \in 1 .. n - 1 : q[i] = IF i < k THEN s[i] ELSE s[i + 1]
    <3> DEFINE b == SubSeq(s, 1, k - 1)
               c == SubSeq(s, k + 1, n)
    <3>1. /\ b \in Seq(S) /\ Len(b) = k - 1
          /\ \A i \in 1 .. k - 1 : b[i] = s[i]
      BY <2>1 DEF n
    <3>2. /\ c \in Seq(S) /\ Len(c) = n - k
          /\ \A i \in 1 .. n - k : c[i] = s[k + i]
      <4>1. k + 1 \in 1 .. Len(s) + 1 /\ n \in (k + 1) - 1 .. Len(s)
        BY <2>1 DEF n
      <4>2. /\ c \in Seq(S) /\ Len(c) = n - (k + 1) + 1
            /\ \A i \in 1 .. n - (k + 1) + 1 : c[i] = s[(k + 1) + i - 1]
        BY <4>1, SubSeqProperties
      <4> HIDE DEF c
      <4>3. n - (k + 1) + 1 = n - k /\ \A i \in 1 .. n - k : (k + 1) + i - 1 = k + i
        BY <2>1
      <4> QED BY <4>2, <4>3
    <3>3. q = b \o c
      BY DEF RemoveAt, n
    <3> HIDE DEF b, c
    <3>4. /\ q \in Seq(S) /\ Len(q) = n - 1
          /\ \A i \in 1 .. n - 1 : q[i] = IF i <= k - 1 THEN b[i] ELSE c[i - (k - 1)]
      BY <2>1, <3>1, <3>2, <3>3
    <3>5. DOMAIN q = 1 .. n - 1
      BY <3>4
    <3>6. ASSUME NEW i \in 1 .. n - 1 PROVE q[i] = IF i < k THEN s[i] ELSE s[i + 1]
      <4>1. CASE i < k
        BY <2>1, <3>1, <3>4, <4>1
      <4>2. CASE ~(i < k)
        <5>1. i - (k - 1) \in 1 .. n - k /\ k + (i - (k - 1)) = i + 1 /\ ~(i <= k - 1)
          BY <2>1, <4>2
        <5> QED BY <3>2, <3>4, <4>2, <5>1
      <4> QED BY <4>1, <4>2
    <3> QED BY <3>4, <3>5, <3>6
  <2> HIDE DEF q
  <2>4. Distinct(q)
    <3> SUFFICES ASSUME NEW i \in 1 .. n - 1, NEW j \in 1 .. n - 1, q[i] = q[j] PROVE i = j
      BY <2>3 DEF Distinct
    <3>1. PICK a \in 1 .. n : q[i] = s[a] /\ a = IF i < k THEN i ELSE i + 1
      BY <2>1, <2>3
    <3>2. PICK b \in 1 .. n : q[j] = s[b] /\ b = IF j < k THEN j ELSE j + 1
      BY <2>1, <2>3
    <3>3. a = b
      BY <2>1, <3>1, <3>2 DEF Distinct
    <3> QED BY <2>1, <3>1, <3>2, <3>3
  <2>5. ASSUME NEW y \in ToSet(q) PROVE y \in ToSet(s) \ {x}
    <3>1. PICK i \in 1 .. n - 1 : y = q[i]
      BY <2>3 DEF ToSet
    <3>2. PICK j \in 1 .. n : y = s[j] /\ j # k
      BY <2>1, <2>3, <3>1
    <3> QED BY <2>1, <3>2 DEF ToSet, Distinct
  <2>6. ASSUME NEW y \in ToSet(s) \ {x} PROVE y \in ToSet(q)
    <3>1. PICK i \in 1 .. n : y = s[i]
      BY <2>1 DEF ToSet
    <3>2. i < k \/ i > k
      BY <2>1, <3>1
    <3>3. PICK j \in 1 .. n - 1 : y = q[j]
      <4>1. CASE i < k
        BY <2>1, <2>3, <3>1, <4>1
      <4>2. CASE i > k
        <5>1. i - 1 \in 1 .. n - 1 /\ ~(i - 1 < k) /\ (i - 1) + 1 = i
          BY <2>1, <4>2
        <5> QED BY <2>3, <3>1, <5>1
      <4> QED BY <3>2, <4>1, <4>2
    <3> QED BY <2>3, <3>3 DEF ToSet
  <2> QED BY <1>2, <2>2, <2>3, <2>4, <2>5, <2>6 DEF n
<1> QED BY <1>1, <1>2

LEMMA ConcatSet ==
  ASSUME NEW S, NEW s \in Seq(S), NEW t \in Seq(S)
  PROVE  /\ s \o t \in Seq(S) /\ ToSet(s \o t) = ToSet(s) \cup ToSet(t)
         /\ Distinct(s) /\ Distinct(t) /\ ToSet(s) \cap ToSet(t) = {} => Distinct(s \o t)
<1> DEFINE q == s \o t
           m == Len(s)
           n == Len(t)
<1>1. /\ m \in Nat /\ n \in Nat /\ DOMAIN s = 1 .. m /\ DOMAIN t = 1 .. n
      /\ q \in Seq(S) /\ Len(q) = m + n /\ DOMAIN q = 1 .. m + n
      /\ \A i \in 1 .. m + n : q[i] = IF i <= m THEN s[i] ELSE t[i - m]
  OBVIOUS
<1> HIDE DEF q, m, n
<1>2. ASSUME NEW y \in ToSet(q) PROVE y \in ToSet(s) \cup ToSet(t)
  <2>1. PICK i \in 1 .. m + n : y = q[i]
    BY <1>1 DEF ToSet
  <2>2. (i \in 1 .. m /\ y = s[i]) \/ (i - m \in 1 .. n /\ y = t[i - m])
    BY <1>1, <2>1
  <2> QED BY <1>1, <2>2 DEF ToSet
<1>3. ASSUME NEW y \in ToSet(s) PROVE y \in ToSet(q)
  <2>1. PICK i \in 1 .. m : y = s[i]
    BY <1>1 DEF ToSet
  <2>2. i \in DOMAIN q /\ q[i] = y
    BY <1>1, <2>1
  <2> QED BY <2>2 DEF ToSet
<1>4. ASSUME NEW y \in ToSet(t) PROVE y \in ToSet(q)
  <2>1. PICK i \in 1 .. n : y = t[i]
    BY <1>1 DEF ToSet
  <2>2. i + m \in DOMAIN q /\ ~(i + m <= m) /\ (i + m) - m = i
    BY <1>1, <2>1
  <2>3. q[i + m] = y
    BY <1>1, <2>1, <2>2
  <2> QED BY <2>2, <2>3 DEF ToSet
<1>5. ASSUME Distinct(s), Distinct(t), ToSet(s) \cap ToSet(t) = {} PROVE Distinct(q)
  <2>1. \A i \in 1 .. m, j \in 1 .. n : s[i] # t[j]
    BY <1>1, <1>5 DEF ToSet
  <2> SUFFICES ASSUME NEW i \in 1 .. m + n, NEW j \in 1 .. m + n, q[i] = q[j] PROVE i = j
    BY <1>1 DEF Distinct
  <2>2. CASE i <= m /\ j <= m
    BY <1>1, <1>5, <2>2 DEF Distinct
  <2>3. CASE i <= m /\ ~(j <= m)
    BY <1>1, <2>1, <2>3
  <2>4. CASE ~(i <= m) /\ j <= m
    <3>1. i - m \in 1 .. n /\ j \in 1 .. m /\ q[i] = t[i - m] /\ q[j] = s[j]
      BY <1>1, <2>4
    <3> QED BY <2>1, <3>1
  <2>5. CASE ~(i <= m) /\ ~(j <= m)
    <3>1. i - m \in 1 .. n /\ j - m \in 1 .. n /\ q[i] = t[i - m] /\ q[j] = t[j - m]
      BY <1>1, <2>5
    <3>2. i - m = j - m
      BY <1>1, <1>5, <3>1 DEF Distinct
    <3> QED BY <1>1, <3>2
  <2> QED BY <2>2, <2>3, <2>4, <2>5
<1> QED BY <1>1, <1>2, <1>3, <1>4, <1>5 DEF q

LEMMA EmptyList == ToSet(<<>>) = {} /\ Distinct(<<>>)
BY DEF ToSet, Distinct

(* A set that changes in one element. *)
LEMMA CardFlip ==
  ASSUME NEW S, NEW T, NEW a, IsFiniteSet(S), S \ {a} = T \ {a}
  PROVE  /\ IsFiniteSet(T) /\ Cardinality(S) \in Nat /\ Cardinality(T) \in Nat
         /\ Cardinality(T) = Cardinality(S) - One(a \in S) + One(a \in T)
<1>1. /\ IsFiniteSet(S \ {a}) /\ Cardinality(S) \in Nat /\ Cardinality(S \ {a}) \in Nat
      /\ Cardinality(S) = Cardinality(S \ {a}) + One(a \in S)
  BY FS_RemoveElement, FS_CardinalityType DEF One
<1>2. CASE a \notin T
  <2>1. T = S \ {a}
    BY <1>2
  <2> QED BY <1>1, <1>2, <2>1 DEF One
<1>3. CASE a \in T
  <2>1. T = (S \ {a}) \cup {a} /\ a \notin S \ {a}
    BY <1>3
  <2>2. IsFiniteSet(T) /\ Cardinality(T) = Cardinality(S \ {a}) + 1
    BY <1>1, <2>1, FS_AddElement
  <2> QED BY <1>1, <1>3, <2>2 DEF One
<1> QED BY <1>2, <1>3

(* A set with at most one element. *)
LEMMA CardOne ==
  ASSUME NEW S, \A a, b \in S : a = b
  PROVE  Cardinality(S) = One(S # {}) /\ IsFiniteSet(S)
<1>1. CASE S = {}
  BY <1>1, FS_EmptySet DEF One
<1>2. CASE S # {}
  <2>1. PICK a : S = {a}
    BY <1>2
  <2> QED BY <1>2, <2>1, FS_Singleton DEF One
<1> QED BY <1>1, <1>2
--------------------------------------------------------------------------------
(* What the parts of the invariant speak about *)

LEMMA Constants ==
  /\ MaxWorkers \in Nat /\ MaxRequests \in Nat /\ MaxRecords \in Nat /\ MaxCacheEntries \in Nat
  /\ HighThreadThreshold \in Nat /\ MaxResolverThreads \in Nat /\ MaxNonPriorityRequests \in Nat
  /\ HighThreadThreshold <= MaxResolverThreads /\ MaxResolverThreads <= MaxWorkers
  /\ NoRec \notin Nat /\ NoRec \notin Rec
BY ResolverAssumption DEF Rec

LEMMA Finite ==
  /\ IsFiniteSet(Worker) /\ IsFiniteSet(Actor) /\ IsFiniteSet(Request) /\ IsFiniteSet(Rec)
  /\ Cardinality(Worker) = MaxWorkers
<1>1. IsFiniteSet(Worker) /\ IsFiniteSet(Request) /\ IsFiniteSet(Rec)
  BY Constants, FS_Interval DEF Worker, Request, Rec
<1>2. IsFiniteSet({0})
  BY FS_Singleton
<1>3. Cardinality(Worker) = MaxWorkers
  <2>1. 1 \in Int /\ MaxWorkers \in Int
    BY Constants
  <2>2. Cardinality(1 .. MaxWorkers) = IF 1 > MaxWorkers THEN 0 ELSE MaxWorkers - 1 + 1
    BY <2>1, FS_Interval
  <2> QED BY <2>2, Constants DEF Worker
<1> QED BY <1>1, <1>2, <1>3, FS_Union DEF Actor

LEMMA FiniteUsers ==
  \A x : /\ IsFiniteSet(Users(x)) /\ IsFiniteSet(Holders(x))
         /\ Cardinality(Users(x)) \in Nat /\ Cardinality(Holders(x)) \in Nat
<1> SUFFICES ASSUME NEW x
             PROVE  /\ IsFiniteSet(Users(x)) /\ IsFiniteSet(Holders(x))
                    /\ Cardinality(Users(x)) \in Nat /\ Cardinality(Holders(x)) \in Nat
  OBVIOUS
<1>1. Users(x) \subseteq Actor /\ Holders(x) \subseteq Request
  BY DEF Users, Holders
<1> QED BY <1>1, Finite, FS_Subset, FS_CardinalityType

LEMMA FiniteCounts ==
  /\ IsFiniteSet(Live) /\ IsFiniteSet(Resting) /\ IsFiniteSet(Busy)
  /\ TypeOK => IsFiniteSet(Queued)
<1>1. Live \subseteq Worker /\ Resting \subseteq Worker /\ Busy \subseteq Rec
  BY DEF Live, Resting, Busy
<1>2. TypeOK => Queued \subseteq Rec
  BY DEF TypeOK, Queued, ToSet
<1> QED BY <1>1, <1>2, Finite, FS_Subset

(* A thread that turns to another record, and a request that is handed to    *)
(* somebody else.                                                            *)
LEMMA UsersChange ==
  ASSUME NEW a \in Actor, \A b \in Actor \ {a} : cur'[b] = cur[b], NEW x
  PROVE  Cardinality(Users(x)') = Cardinality(Users(x)) - One(cur[a] = x) + One(cur'[a] = x)
<1>1. Users(x) \ {a} = Users(x)' \ {a}
  BY DEF Users
<1>2. (a \in Users(x) <=> cur[a] = x) /\ (a \in Users(x)' <=> cur'[a] = x)
  BY DEF Users
<1>3. Cardinality(Users(x)') = Cardinality(Users(x)) - One(a \in Users(x)) + One(a \in Users(x)')
  BY <1>1, FiniteUsers, CardFlip
<1> QED BY <1>2, <1>3 DEF One

LEMMA HoldersChange ==
  ASSUME NEW r \in Request, \A s \in Request \ {r} : req'[s] = req[s], NEW x
  PROVE  Cardinality(Holders(x)') = Cardinality(Holders(x)) - One(req[r].rec = x) + One(req'[r].rec = x)
<1>1. Holders(x) \ {r} = Holders(x)' \ {r}
  BY DEF Holders
<1>2. (r \in Holders(x) <=> req[r].rec = x) /\ (r \in Holders(x)' <=> req'[r].rec = x)
  BY DEF Holders
<1>3. Cardinality(Holders(x)') = Cardinality(Holders(x)) - One(r \in Holders(x)) + One(r \in Holders(x)')
  BY <1>1, FiniteUsers, CardFlip
<1> QED BY <1>2, <1>3 DEF One

(* A record that nobody holds is nowhere. *)
LEMMA NobodyHolds ==
  ASSUME NEW x \in Rec, Counted(x), rec[x].refc = 0
  PROVE  /\ ~Known(x) /\ ~Waits(x) /\ ~Kept(x) /\ rec[x] = NoRecord
         /\ \A a \in Actor : cur[a] # x
         /\ \A r \in Request : req[r].rec # x
<1>1. /\ ~Known(x) /\ ~Waits(x) /\ ~Kept(x) /\ rec[x] = NoRecord
      /\ Cardinality(Users(x)) = 0 /\ Cardinality(Holders(x)) = 0
  BY FiniteUsers DEF Counted, One
<1>2. Users(x) = {} /\ Holders(x) = {}
  BY <1>1, FiniteUsers, FS_EmptySet
<1> QED BY <1>1, <1>2 DEF Users, Holders

LEMMA Updates ==
  \A f \in nsHostRecord :
    /\ \A v \in Host : [f EXCEPT !.host = v] \in nsHostRecord
    /\ \A v \in Nat : [f EXCEPT !.refc = v] \in nsHostRecord
    /\ \A v \in Priority : [f EXCEPT !.flags = v] \in nsHostRecord
    /\ \A v \in SUBSET Request : [f EXCEPT !.callbacks = v] \in nsHostRecord
    /\ \A v \in BOOLEAN : /\ [f EXCEPT !.addr_info = v] \in nsHostRecord
                          /\ [f EXCEPT !.addr = v] \in nsHostRecord
                          /\ [f EXCEPT !.negative = v] \in nsHostRecord
                          /\ [f EXCEPT !.resolving = v] \in nsHostRecord
                          /\ [f EXCEPT !.onQueue = v] \in nsHostRecord
                          /\ [f EXCEPT !.usingAny = v] \in nsHostRecord
<1> SUFFICES ASSUME NEW f \in nsHostRecord
             PROVE  /\ \A v \in Host : [f EXCEPT !.host = v] \in nsHostRecord
                    /\ \A v \in Nat : [f EXCEPT !.refc = v] \in nsHostRecord
                    /\ \A v \in Priority : [f EXCEPT !.flags = v] \in nsHostRecord
                    /\ \A v \in SUBSET Request : [f EXCEPT !.callbacks = v] \in nsHostRecord
                    /\ \A v \in BOOLEAN : /\ [f EXCEPT !.addr_info = v] \in nsHostRecord
                                          /\ [f EXCEPT !.addr = v] \in nsHostRecord
                                          /\ [f EXCEPT !.negative = v] \in nsHostRecord
                                          /\ [f EXCEPT !.resolving = v] \in nsHostRecord
                                          /\ [f EXCEPT !.onQueue = v] \in nsHostRecord
                                          /\ [f EXCEPT !.usingAny = v] \in nsHostRecord
  OBVIOUS
<1>1. \A v \in Host : [f EXCEPT !.host = v] \in nsHostRecord
  BY DEF nsHostRecord
<1>2. \A v \in Nat : [f EXCEPT !.refc = v] \in nsHostRecord
  BY DEF nsHostRecord
<1>3. \A v \in Priority : [f EXCEPT !.flags = v] \in nsHostRecord
  BY DEF nsHostRecord
<1>4. \A v \in SUBSET Request : [f EXCEPT !.callbacks = v] \in nsHostRecord
  BY DEF nsHostRecord
<1>5. ASSUME NEW v \in BOOLEAN
      PROVE  [f EXCEPT !.addr_info = v] \in nsHostRecord /\ [f EXCEPT !.addr = v] \in nsHostRecord
  BY DEF nsHostRecord
<1>6. ASSUME NEW v \in BOOLEAN
      PROVE  [f EXCEPT !.negative = v] \in nsHostRecord /\ [f EXCEPT !.resolving = v] \in nsHostRecord
  BY DEF nsHostRecord
<1>7. ASSUME NEW v \in BOOLEAN
      PROVE  [f EXCEPT !.onQueue = v] \in nsHostRecord /\ [f EXCEPT !.usingAny = v] \in nsHostRecord
  BY DEF nsHostRecord
<1> QED BY <1>1, <1>2, <1>3, <1>4, <1>5, <1>6, <1>7

LEMMA InitResolving == Init => Resolving
<1> SUFFICES ASSUME Init PROVE Resolving
  OBVIOUS
<1> USE DEF Init
<1>1. NoRecord \in nsHostRecord /\ NoRequest \in Answers
  BY Constants DEF NoRecord, NoRequest, nsHostRecord, Answers, Priority
<1>2. Hands
  <2>1. TypeOK
    <3>1. rec \in [Rec -> nsHostRecord] /\ req \in [Request -> Answers]
      BY <1>1
    <3>2. <<>> \in Seq(Rec)
      OBVIOUS
    <3>3. queue \in [Priority -> Seq(Rec)] /\ {mEvictionQ, aborted, evicted} \subseteq Seq(Rec)
      BY <3>2
    <3>4. cur \in [Actor -> Rec \cup {NoRec}] /\ cbs \in [Actor -> SUBSET Request] /\ ok \in [Actor -> BOOLEAN]
      OBVIOUS
    <3>5. mDB \in [Host -> Rec \cup {NoRec}] /\ pc \in [Actor -> Points]
      BY DEF Points
    <3>6. {mShutdown, noThread} \subseteq BOOLEAN
      OBVIOUS
    <3>7. {mEvictionQSize, mPendingCount, mNumIdleThreads, mThreadCount, mActiveAnyThreadCount, nReq} \subseteq Nat
      OBVIOUS
    <3> HIDE DEF Init
    <3> QED BY <3>1, <3>3, <3>4, <3>5, <3>6, <3>7 DEF TypeOK
  <2>2. /\ 0 \in Actor /\ Worker \subseteq Actor
    BY DEF Actor
  <2> QED BY <2>1, <2>2, Constants DEF Hands, NoRequest, One
<1>3. Lists
  BY EmptyList, <1>2 DEF Lists, Hands, Actor
<1>4. \A x \in Rec : ~Known(x) /\ ~Waits(x) /\ ~Kept(x)
  BY EmptyList, Constants DEF Known, Waits, Kept
<1>5. \A x \in Rec, w \in Worker : ~LooksUp(w, x)
  BY Constants DEF LooksUp, Actor
<1>6. Places
  BY <1>4, <1>5, EmptyList DEF Places, NoRecord
<1>7. References
  <2> SUFFICES ASSUME NEW x \in Rec PROVE Counted(x)
    BY DEF References
  <2>1. Users(x) = {} /\ Holders(x) = {}
    BY Constants DEF Users, Holders, NoRequest
  <2> QED BY <1>4, <2>1, FS_EmptySet DEF Counted, One, NoRecord
<1>8. Callbacks
  BY DEF Callbacks, Listed, Called, NoRecord, NoRequest
<1>9. Counters
  <2>1. Queued = {} /\ Live = {} /\ Resting = {} /\ Busy = {}
    BY EmptyList DEF Queued, Live, Resting, Busy, NoRecord, Actor
  <2> QED BY <2>1, FS_EmptySet, Constants DEF Counters
<1> QED BY <1>2, <1>3, <1>6, <1>7, <1>8, <1>9 DEF Resolving
--------------------------------------------------------------------------------
(* Views that stay the same *)

LEMMA SameCounted ==
  ASSUME NEW x, Counted(x), rec'[x] = rec[x], Known(x)' <=> Known(x), Waits(x)' <=> Waits(x),
         Kept(x)' <=> Kept(x), Users(x)' = Users(x), Holders(x)' = Holders(x)
  PROVE  Counted(x)'
BY DEF Counted, One

LEMMA SameLists ==
  /\ UNCHANGED <<queue, aborted>> => \A x : Waits(x)' <=> Waits(x)
  /\ UNCHANGED <<mEvictionQ, evicted>> => \A x : Kept(x)' <=> Kept(x)
  /\ UNCHANGED mDB => \A x : Known(x)' <=> Known(x)
  /\ UNCHANGED cur => \A x : Users(x)' = Users(x)
  /\ UNCHANGED req => \A x : Holders(x)' = Holders(x)
  /\ UNCHANGED cbs => \A r, a : Called(r, a)' <=> Called(r, a)
  /\ UNCHANGED rec => \A r, x : Listed(r, x)' <=> Listed(r, x)
BY DEF Waits, Kept, Known, Users, Holders, Called, Listed

(* A thread that moves about outside the lookups. *)
Wandering == {"none", "get", "idle", "woken", "late"}
Drifts == /\ pc' \in [Actor -> Points]
          /\ \A a \in Actor : pc'[a] = pc[a] \/ (a \in Worker /\ {pc[a], pc'[a]} \subseteq Wandering)

LEMMA DriftLooksUp ==
  ASSUME Drifts, UNCHANGED cur
  PROVE  \A w, x : LooksUp(w, x)' <=> LooksUp(w, x)
BY DEF Drifts, LooksUp, Wandering, Actor

LEMMA ActorParts == 0 \in Actor /\ 0 \notin Worker /\ Worker \subseteq Actor /\ \A a \in Actor : a = 0 \/ a \in Worker
BY Constants DEF Actor, Worker

LEMMA DriftKeeps ==
  ASSUME Resolving, Drifts, UNCHANGED <<cache, locals, closing, requests>>,
         {mNumIdleThreads', mThreadCount', mActiveAnyThreadCount'} \subseteq Nat
  PROVE  Hands' /\ Lists' /\ Places' /\ References' /\ Callbacks'
<1> USE DEF Resolving, cache, locals, closing, requests
<1>1. Hands'
  <2>1. TypeOK'
    BY DEF Hands, TypeOK, Drifts
  <2>2. \A a \in Actor : pc'[a] \in {"lookup", "deliver", "clear", "done"} <=> pc[a] \in {"lookup", "deliver", "clear", "done"}
    BY DEF Drifts, Wandering
  <2>3. \A a \in Actor : pc[a] \in {"lookup", "deliver", "clear", "done"} => pc'[a] = pc[a]
    BY DEF Drifts, Wandering
  <2>4. pc'[0] = pc[0]
    BY ActorParts DEF Drifts
  <2> QED BY <2>1, <2>2, <2>3, <2>4, ActorParts DEF Hands
<1>2. Lists'
  BY ActorParts DEF Lists, Drifts
<1>3. \A w, x : LooksUp(w, x)' <=> LooksUp(w, x)
  BY DriftLooksUp
<1>4. Places'
  BY <1>3, SameLists DEF Places
<1>5. References'
  BY SameCounted, SameLists DEF References
<1>6. Callbacks'
  BY SameLists DEF Callbacks
<1> QED BY <1>1, <1>2, <1>4, <1>5, <1>6

(* One thread that moves on, and what that does to the counters. *)
LEMMA PcCounts ==
  ASSUME TypeOK, NEW w \in Worker, NEW p, pc' = [pc EXCEPT ![w] = p]
  PROVE  /\ Cardinality(Live') = Cardinality(Live) - One(pc[w] # "none") + One(p # "none")
         /\ Cardinality(Resting') = Cardinality(Resting) - One(pc[w] \in {"idle", "woken", "late"})
                                      + One(p \in {"idle", "woken", "late"})
<1>1. /\ Live \ {w} = Live' \ {w} /\ Resting \ {w} = Resting' \ {w}
      /\ w \in Live <=> pc[w] # "none"
      /\ w \in Live' <=> p # "none"
      /\ w \in Resting <=> pc[w] \in {"idle", "woken", "late"}
      /\ w \in Resting' <=> p \in {"idle", "woken", "late"}
  BY ActorParts DEF TypeOK, Live, Resting
<1>2. /\ Cardinality(Live') = Cardinality(Live) - One(w \in Live) + One(w \in Live')
      /\ Cardinality(Resting') = Cardinality(Resting) - One(w \in Resting) + One(w \in Resting')
  BY <1>1, FiniteCounts, CardFlip
<1> QED BY <1>1, <1>2 DEF One

LEMMA SleepResolving ==
  ASSUME Resolving, NEW w \in Worker, Sleep(w) \/ TimeOut(w) \/ Exit(w)
  PROVE  Resolving'
<1> USE DEF cache, locals, closing, requests, counts
<1>0. TypeOK /\ Counters
  BY DEF Resolving, Hands
<1>1. PICK p \in Wandering : pc' = [pc EXCEPT ![w] = p] /\ pc[w] \in Wandering
  BY DEF Sleep, TimeOut, Exit, Looking, Wandering
<1>2. Drifts
  BY <1>0, <1>1, ActorParts DEF TypeOK, Drifts, Wandering, Points
<1>3. Cardinality(Live) \in Nat /\ Cardinality(Resting) \in Nat
      /\ (w \in Resting => Cardinality(Resting) > 0) /\ (w \in Live => Cardinality(Live) > 0)
  BY FiniteCounts, FS_CardinalityType, FS_EmptySet
<1>4. /\ w \in Resting <=> pc[w] \in {"idle", "woken", "late"}
      /\ w \in Live <=> pc[w] # "none"
  BY DEF Resting, Live
<1>5. /\ Cardinality(Live') = Cardinality(Live) - One(pc[w] # "none") + One(p # "none")
      /\ Cardinality(Resting') = Cardinality(Resting) - One(pc[w] \in {"idle", "woken", "late"})
                                   + One(p \in {"idle", "woken", "late"})
  BY <1>0, <1>1, PcCounts
<1>6. pc'[w] = p
  BY <1>0, <1>1, ActorParts DEF TypeOK
<1>7. /\ mThreadCount' = Cardinality(Live') /\ mThreadCount' <= mThreadCount
      /\ mNumIdleThreads' = Cardinality(Resting')
  <2>1. CASE Sleep(w)
    <3>1. p = "idle" /\ pc[w] \in {"get", "woken"}
      BY <1>6, <2>1, <1>0, ActorParts DEF Sleep, TypeOK
    <3> QED BY <1>0, <1>3, <1>5, <2>1, <3>1 DEF Sleep, IdleAfter, Counters, One
  <2>2. CASE TimeOut(w)
    <3>1. p = "late" /\ pc[w] = "idle"
      BY <1>6, <2>2, <1>0, ActorParts DEF TimeOut, TypeOK
    <3> QED BY <1>0, <1>3, <1>5, <2>2, <3>1 DEF TimeOut, Counters, One
  <2>3. CASE Exit(w)
    <3>1. p = "none" /\ pc[w] \in {"get", "woken", "late"}
      BY <1>6, <2>3, <1>0, ActorParts DEF Exit, TypeOK, Looking
    <3> QED BY <1>0, <1>3, <1>5, <2>3, <3>1 DEF Exit, IdleAfter, Counters, One
  <2> QED BY <2>1, <2>2, <2>3
<1>8. /\ UNCHANGED <<cache, locals, closing, requests>>
      /\ mThreadCount' \in Nat /\ mNumIdleThreads' \in Nat
      /\ mActiveAnyThreadCount' = mActiveAnyThreadCount
  BY <1>0, <1>3, <1>4 DEF Sleep, TimeOut, Exit, Looking, IdleAfter, Counters, TypeOK
<1>9. Counters'
  <2>1. Queued' = Queued /\ Busy' = Busy
    BY <1>8 DEF Queued, Busy
  <2>2. mThreadCount' <= MaxResolverThreads
    BY <1>0, <1>7, <1>8, Constants DEF Counters, TypeOK
  <2> QED BY <1>0, <1>7, <1>8, <2>1, <2>2 DEF Counters
<1>10. mActiveAnyThreadCount' \in Nat
  BY <1>0, <1>8 DEF TypeOK
<1> QED BY <1>2, <1>8, <1>9, <1>10, DriftKeeps DEF Resolving
--------------------------------------------------------------------------------
(* Records that lose a reference, and go when it was the last *)

Gone(x) == /\ ~Known(x) /\ ~Waits(x) /\ ~Kept(x)
           /\ \A a \in Actor : cur[a] # x
           /\ \A r \in Request : req[r].rec # x
Vanish == \A x \in Rec : Counted(x) /\ rec[x].refc = 0 => Gone(x)

LEMMA VanishThen == Vanish'
<1>1. Vanish
  BY NobodyHolds DEF Vanish, Gone
<1> QED BY <1>1, PTL

SameShape(x) == /\ rec'[x].host = rec[x].host /\ rec'[x].resolving = rec[x].resolving
                /\ rec'[x].onQueue = rec[x].onQueue /\ rec'[x].usingAny = rec[x].usingAny
                /\ rec'[x].flags = rec[x].flags
Fades(x) == SameShape(x) \/ (rec'[x] = NoRecord)

LEMMA ReleaseShape ==
  ASSUME rec \in [Rec -> nsHostRecord], NEW x \in Rec, NEW n \in Nat \ {0}, rec[x].refc >= n,
         rec' = Released(rec, x, n)
  PROVE  /\ rec' \in [Rec -> nsHostRecord]
         /\ \A y \in Rec \ {x} : rec'[y] = rec[y]
         /\ rec'[x].refc = rec[x].refc - n
         /\ rec'[x].refc = 0 => rec'[x] = NoRecord
         /\ rec'[x].refc # 0 => SameShape(x) /\ rec'[x].callbacks = rec[x].callbacks
<1>1. NoRecord \in nsHostRecord /\ NoRecord.refc = 0
  BY DEF NoRecord, nsHostRecord, Priority
<1>2. rec[x] \in nsHostRecord
  OBVIOUS
<1>3. CASE rec[x].refc = n
  <2>1. rec' = [rec EXCEPT ![x] = NoRecord]
    BY <1>3 DEF Released
  <2> QED BY <1>1, <1>2, <1>3, <2>1
<1>4. CASE rec[x].refc # n
  <2> DEFINE f == [rec[x] EXCEPT !.refc = @ - n]
  <2>1. rec' = [rec EXCEPT ![x] = f]
    BY <1>4 DEF Released
  <2>2. /\ f \in nsHostRecord /\ f.refc = rec[x].refc - n /\ f.refc # 0
        /\ f.host = rec[x].host /\ f.resolving = rec[x].resolving /\ f.onQueue = rec[x].onQueue
        /\ f.usingAny = rec[x].usingAny /\ f.flags = rec[x].flags /\ f.callbacks = rec[x].callbacks
    BY <1>2, <1>4 DEF nsHostRecord
  <2> HIDE DEF f
  <2>3. rec'[x] = f /\ rec' \in [Rec -> nsHostRecord] /\ \A y \in Rec \ {x} : rec'[y] = rec[y]
    BY <2>1, <2>2
  <2> QED BY <2>2, <2>3 DEF SameShape
<1> QED BY <1>3, <1>4

(* No place is lost with a record that goes. *)
LEMMA FadePlaces ==
  ASSUME Resolving, References', rec' \in [Rec -> nsHostRecord], \A x \in Rec : Fades(x),
         UNCHANGED <<mDB, queue, aborted, mEvictionQ, mShutdown>>,
         \A w \in Worker, x \in Rec : LooksUp(w, x)' <=> LooksUp(w, x)
  PROVE  /\ Places'
         /\ \A x \in Rec : rec'[x].resolving = rec[x].resolving /\ rec'[x].usingAny = rec[x].usingAny
<1>0. /\ Places /\ TypeOK
      /\ \A x \in Rec : (Waits(x)' <=> Waits(x)) /\ (Known(x)' <=> Known(x))
  BY SameLists DEF Resolving, Hands
<1>1. ASSUME NEW x \in Rec, ~SameShape(x)
      PROVE  /\ ~Known(x) /\ ~Waits(x) /\ x \notin ToSet(mEvictionQ)
             /\ \A w \in Worker : ~LooksUp(w, x)
             /\ ~rec[x].resolving /\ ~rec[x].usingAny /\ rec'[x] = NoRecord
  <2>1. rec'[x] = NoRecord /\ rec'[x].refc = 0
    BY <1>1 DEF Fades, NoRecord
  <2>2. Gone(x)'
    BY <2>1, VanishThen DEF Vanish, References
  <2>3. ~Known(x)' /\ ~Waits(x)' /\ ~Kept(x)' /\ \A a \in Actor : cur'[a] # x
    BY <2>2 DEF Gone
  <2>4. x \notin ToSet(mEvictionQ)
    BY <2>3 DEF Kept
  <2>5. \A w \in Worker : ~LooksUp(w, x)
    BY <2>3, ActorParts DEF LooksUp
  <2> QED BY <1>0, <2>1, <2>3, <2>4, <2>5 DEF Places, TypeOK, nsHostRecord
<1>2. \A x \in Rec : rec'[x].resolving = rec[x].resolving /\ rec'[x].usingAny = rec[x].usingAny
  <2> SUFFICES ASSUME NEW x \in Rec, ~SameShape(x)
               PROVE  rec'[x].resolving = rec[x].resolving /\ rec'[x].usingAny = rec[x].usingAny
    BY DEF SameShape
  <2> QED BY <1>0, <1>1 DEF NoRecord, TypeOK, nsHostRecord
<1>3. ASSUME NEW x \in Rec
      PROVE  /\ \A p \in Priority : x \in ToSet(queue[p]) => rec'[x].flags = p /\ rec'[x].onQueue
             /\ rec'[x].resolving <=> Waits(x)' \/ \E w \in Worker : LooksUp(w, x)'
             /\ rec'[x].resolving => x \notin ToSet(mEvictionQ) /\ (~mShutdown => Known(x)')
             /\ x \in ToSet(mEvictionQ) => Known(x)'
             /\ rec'[x].usingAny => \E w \in Worker : LooksUp(w, x)'
  <2>1. \A p \in Priority : x \in ToSet(queue[p]) => rec'[x].flags = p /\ rec'[x].onQueue
    BY <1>0, <1>1 DEF Places, SameShape, Waits
  <2> QED BY <1>0, <1>2, <2>1 DEF Places
<1>4. ASSUME NEW x \in Rec, NEW w \in Worker, LooksUp(w, x)'
      PROVE  ~Waits(x)' /\ ~rec'[x].onQueue /\ \A v \in Worker : LooksUp(v, x)' => v = w
  BY <1>0, <1>1, <1>4 DEF Places, SameShape
<1>5. ASSUME NEW h \in Host, mDB[h] # NoRec PROVE rec'[mDB[h]].host = h
  <2>1. mDB[h] \in Rec /\ Known(mDB[h])
    BY <1>0, <1>5 DEF TypeOK, Known
  <2> QED BY <1>0, <1>1, <1>5, <2>1 DEF Places, SameShape
<1>6. Places'
  BY <1>3, <1>4, <1>5 DEF Places
<1> QED BY <1>2, <1>6

LEMMA SameCounters ==
  ASSUME Counters, UNCHANGED <<queue, mEvictionQ, mEvictionQSize, mPendingCount, counts>>,
         Live' = Live, Resting' = Resting, \A x \in Rec : rec'[x].usingAny = rec[x].usingAny
  PROVE  Counters'
<1>1. Queued' = Queued /\ Busy' = Busy
  BY DEF Queued, Busy
<1> QED BY <1>1 DEF Counters, counts

(* A record that is used or handed out has a reference. *)
LEMMA UsedCounts ==
  ASSUME Resolving, NEW x \in Rec,
         (\E a \in Actor : cur[a] = x) \/ (\E r \in Request : req[r].rec = x)
  PROVE  rec[x].refc \in Nat \ {0}
<1>1. Users(x) # {} \/ Holders(x) # {}
  BY DEF Users, Holders
<1>2. Cardinality(Users(x)) # 0 \/ Cardinality(Holders(x)) # 0
  BY <1>1, FiniteUsers, FS_EmptySet
<1> QED BY <1>2, FiniteUsers DEF Resolving, References, Counted, One

(* A record that somebody waits for does not go. *)
LEMMA FadeCallbacks ==
  ASSUME Callbacks, TypeOK, \A x \in Rec : rec'[x].resolving = rec[x].resolving,
         \A x \in Rec : rec'[x].callbacks = rec[x].callbacks \/ rec'[x] = NoRecord
  PROVE  \A r \in Request, x \in Rec : Listed(r, x)' <=> Listed(r, x)
<1> SUFFICES ASSUME NEW r \in Request, NEW x \in Rec, rec'[x] = NoRecord
             PROVE  Listed(r, x)' <=> Listed(r, x)
  BY DEF Listed
<1>1. ~Listed(r, x)'
  BY DEF Listed, NoRecord
<1>2. ~rec[x].resolving
  BY DEF NoRecord, TypeOK, nsHostRecord
<1> QED BY <1>1, <1>2 DEF Callbacks

LEMMA ToldIs ==
  ASSUME NEW q \in Answers, q.calls = 0
  PROVE  Told(q) \in Answers /\ Told(q).at = "called" /\ Told(q).rec = NoRec /\ Told(q).calls = 1
BY DEF Told, Answers

LEMMA CallBackResolving ==
  ASSUME Resolving, NEW r \in Request, CallBack(r)
  PROVE  Resolving'
<1> DEFINE x == req[r].rec
           q == Told(req[r])
<1> USE DEF cache, locals, closing, requests, counts
<1>0. Hands /\ TypeOK /\ Lists /\ Places /\ References /\ Callbacks /\ Counters
  BY DEF Resolving, Hands
<1>1. /\ req[r].at = "handed" /\ req' = [req EXCEPT ![r] = q] /\ rec' = Released(rec, x, 1)
      /\ UNCHANGED <<mDB, queue, mEvictionQ, mEvictionQSize, mPendingCount, counts, pc, locals, closing, nReq, noThread>>
  BY DEF CallBack
<1>2. x \in Rec /\ rec[x].refc \in Nat \ {0}
  <2>1. x \in Rec
    BY <1>0, <1>1 DEF Hands
  <2> QED BY <2>1, UsedCounts
<1>3. q \in Answers /\ q.at = "called" /\ q.rec = NoRec /\ q.calls = 1
  <2>1. req[r] \in Answers /\ req[r].calls = 0
    BY <1>0, <1>1 DEF Hands, TypeOK, One
  <2> QED BY <2>1, ToldIs
<1> HIDE DEF x, q
<1>4. /\ rec' \in [Rec -> nsHostRecord]
      /\ \A y \in Rec \ {x} : rec'[y] = rec[y]
      /\ rec'[x].refc = rec[x].refc - 1
      /\ rec'[x].refc = 0 => rec'[x] = NoRecord
      /\ rec'[x].refc # 0 => SameShape(x) /\ rec'[x].callbacks = rec[x].callbacks
  BY <1>0, <1>1, <1>2, ReleaseShape DEF TypeOK
<1>5. /\ req' \in [Request -> Answers] /\ req'[r] = q
      /\ \A s \in Request \ {r} : req'[s] = req[s]
  BY <1>0, <1>1, <1>3 DEF TypeOK
<1>6. Hands'
  <2>1. TypeOK'
    BY <1>0, <1>1, <1>4, <1>5 DEF TypeOK
  <2> QED BY <1>0, <1>1, <1>3, <1>5, <2>1, Constants DEF Hands, One
<1>7. Lists'
  BY <1>0, <1>1 DEF Lists
<1>8. References'
  <2> SUFFICES ASSUME NEW y \in Rec PROVE Counted(y)'
    BY DEF References
  <2>1. Cardinality(Holders(y)') = Cardinality(Holders(y)) - One(req[r].rec = y) + One(req'[r].rec = y)
    BY <1>5, HoldersChange
  <2>2. Cardinality(Holders(y)') = Cardinality(Holders(y)) - One(x = y)
    BY <1>3, <1>5, <2>1, Constants, FiniteUsers DEF x, One
  <2>3. /\ (Known(y)' <=> Known(y)) /\ (Waits(y)' <=> Waits(y)) /\ (Kept(y)' <=> Kept(y))
        /\ Users(y)' = Users(y)
    BY <1>1, SameLists
  <2>4. Counted(y) /\ Cardinality(Users(y)) \in Nat /\ Cardinality(Holders(y)) \in Nat
    BY <1>0, FiniteUsers DEF References
  <2>5. CASE y = x
    BY <1>2, <1>4, <2>2, <2>3, <2>4, <2>5 DEF Counted, One
  <2>6. CASE y # x
    BY <1>4, <2>2, <2>3, <2>4, <2>6 DEF Counted, One
  <2> QED BY <2>5, <2>6
<1>9. /\ Places'
      /\ \A y \in Rec : rec'[y].resolving = rec[y].resolving /\ rec'[y].usingAny = rec[y].usingAny
  <2>1. \A y \in Rec : Fades(y)
    BY <1>4 DEF Fades, SameShape
  <2>2. \A w \in Worker, y \in Rec : LooksUp(w, y)' <=> LooksUp(w, y)
    BY <1>1 DEF LooksUp
  <2> QED BY <1>1, <1>4, <1>8, <2>1, <2>2, FadePlaces
<1>10. Callbacks'
  <2>1. \A s \in Request, y \in Rec : Listed(s, y)' <=> Listed(s, y)
    BY <1>0, <1>4, <1>9, FadeCallbacks
  <2>2. \A s \in Request, a \in Actor : Called(s, a)' <=> Called(s, a)
    BY <1>1, SameLists
  <2>3. \A s \in Request : req'[s].at = "pending" <=> req[s].at = "pending"
    BY <1>1, <1>3, <1>5
  <2> QED BY <1>0, <1>9, <2>1, <2>2, <2>3 DEF Callbacks
<1>11. Counters'
  BY <1>0, <1>1, <1>9, SameCounters DEF Live, Resting
<1> QED BY <1>6, <1>7, <1>8, <1>9, <1>10, <1>11 DEF Resolving

LEMMA DeliverResolving ==
  ASSUME Resolving, NEW a \in Actor, Deliver(a)
  PROVE  Resolving'
<1> DEFINE x == cur[a]
           p == IF a = 0 THEN "clear" ELSE "get"
<1> USE DEF cache, locals, closing, requests, counts
<1>0. Hands /\ TypeOK /\ Lists /\ Places /\ References /\ Callbacks /\ Counters
  BY DEF Resolving, Hands
<1>1. /\ pc[a] = "deliver" /\ rec' = Released(rec, x, 1)
      /\ req' = [r \in Request |-> IF r \in cbs[a] THEN Told(req[r]) ELSE req[r]]
      /\ pc' = [pc EXCEPT ![a] = p] /\ cur' = [cur EXCEPT ![a] = NoRec]
      /\ cbs' = [cbs EXCEPT ![a] = {}] /\ ok' = [ok EXCEPT ![a] = FALSE]
      /\ UNCHANGED <<mDB, queue, mEvictionQ, mEvictionQSize, mPendingCount, counts, closing, nReq, noThread>>
  BY DEF Deliver
<1>2. x \in Rec /\ rec[x].refc \in Nat \ {0}
  <2>1. x \in Rec
    BY <1>0, <1>1 DEF Hands
  <2> QED BY <2>1, UsedCounts
<1> HIDE DEF x
<1>3. \A r \in cbs[a] : /\ r \in Request /\ req[r].at = "pending"
                        /\ Told(req[r]) \in Answers /\ Told(req[r]).at = "called"
                        /\ Told(req[r]).rec = NoRec /\ Told(req[r]).calls = 1
  <2> SUFFICES ASSUME NEW r \in cbs[a]
               PROVE  /\ r \in Request /\ req[r].at = "pending"
                      /\ Told(req[r]) \in Answers /\ Told(req[r]).at = "called"
                      /\ Told(req[r]).rec = NoRec /\ Told(req[r]).calls = 1
    OBVIOUS
  <2>1. r \in Request /\ Called(r, a)
    BY <1>0 DEF TypeOK, Called
  <2>2. req[r].at = "pending" /\ req[r] \in Answers /\ req[r].calls = 0
    BY <1>0, <2>1 DEF Callbacks, Hands, TypeOK, One
  <2> QED BY <2>1, <2>2, ToldIs
<1>4. /\ rec' \in [Rec -> nsHostRecord]
      /\ \A y \in Rec \ {x} : rec'[y] = rec[y]
      /\ rec'[x].refc = rec[x].refc - 1
      /\ rec'[x].refc = 0 => rec'[x] = NoRecord
      /\ rec'[x].refc # 0 => SameShape(x) /\ rec'[x].callbacks = rec[x].callbacks
  BY <1>0, <1>1, <1>2, ReleaseShape DEF TypeOK
<1>5. /\ req' \in [Request -> Answers]
      /\ \A s \in cbs[a] : req'[s].at = "called" /\ req'[s].rec = NoRec /\ req'[s].calls = 1
      /\ \A s \in Request \ cbs[a] : req'[s] = req[s]
  <2>1. \A s \in Request : req'[s] = IF s \in cbs[a] THEN Told(req[s]) ELSE req[s]
    BY <1>1
  <2>2. \A s \in Request : req'[s] \in Answers
    BY <1>0, <1>3, <2>1 DEF TypeOK
  <2>3. req' \in [Request -> Answers]
    BY <1>1, <2>1, <2>2
  <2> QED BY <1>3, <2>1, <2>3
<1>6. Hands'
  <2>1. TypeOK'
    <3>1. pc' \in [Actor -> Points] /\ cur' \in [Actor -> Rec \cup {NoRec}]
          /\ cbs' \in [Actor -> SUBSET Request] /\ ok' \in [Actor -> BOOLEAN]
      BY <1>0, <1>1 DEF TypeOK, Points
    <3> QED BY <1>0, <1>1, <1>4, <1>5, <3>1 DEF TypeOK
  <2>2. \A r \in Request : /\ req'[r].rec \in Rec <=> req'[r].at = "handed"
                           /\ req'[r].calls = One(req'[r].at = "called")
                           /\ r > nReq' => req'[r].at = "unused"
    BY <1>0, <1>1, <1>3, <1>5, Constants DEF Hands, One
  <2>3. \A b \in Actor : /\ cur'[b] \in Rec <=> pc'[b] \in {"lookup", "deliver"}
                         /\ pc'[b] # "deliver" => cbs'[b] = {}
    BY <1>0, <1>1, Constants DEF Hands, TypeOK
  <2>4. /\ pc'[0] \in {"none", "deliver", "clear", "done"}
        /\ \A w \in Worker : pc'[w] \notin {"clear", "done"}
    BY <1>0, <1>1, ActorParts DEF Hands, TypeOK
  <2> QED BY <1>0, <1>1, <2>1, <2>2, <2>3, <2>4 DEF Hands
<1>7. Lists'
  <2>1. mShutdown \/ pc'[0] = "none"
    BY <1>0, <1>1, ActorParts DEF Lists, TypeOK
  <2> QED BY <1>0, <1>1, <2>1 DEF Lists
<1>8. References'
  <2> SUFFICES ASSUME NEW y \in Rec PROVE Counted(y)'
    BY DEF References
  <2>1. Cardinality(Users(y)') = Cardinality(Users(y)) - One(cur[a] = y) + One(cur'[a] = y)
    <3>1. \A b \in Actor \ {a} : cur'[b] = cur[b]
      BY <1>0, <1>1 DEF TypeOK
    <3> QED BY <3>1, UsersChange
  <2>2. Cardinality(Users(y)') = Cardinality(Users(y)) - One(x = y)
    <3>1. cur'[a] # y
      BY <1>0, <1>1, Constants DEF TypeOK
    <3> QED BY <2>1, <3>1, FiniteUsers DEF x, One
  <2>3. /\ (Known(y)' <=> Known(y)) /\ (Waits(y)' <=> Waits(y)) /\ (Kept(y)' <=> Kept(y))
    BY <1>1, SameLists
  <2>4. Holders(y)' = Holders(y)
    <3>1. \A r \in cbs[a] : req[r].rec # y /\ req'[r].rec # y
      BY <1>0, <1>3, <1>5, Constants DEF Hands
    <3> QED BY <1>5, <3>1 DEF Holders
  <2>5. Counted(y) /\ Cardinality(Users(y)) \in Nat /\ Cardinality(Holders(y)) \in Nat
    BY <1>0, FiniteUsers DEF References
  <2>6. CASE y = x
    BY <1>2, <1>4, <2>2, <2>3, <2>4, <2>5, <2>6 DEF Counted, One
  <2>7. CASE y # x
    BY <1>4, <2>2, <2>3, <2>4, <2>5, <2>7 DEF Counted, One
  <2> QED BY <2>6, <2>7
<1>9. /\ Places'
      /\ \A y \in Rec : rec'[y].resolving = rec[y].resolving /\ rec'[y].usingAny = rec[y].usingAny
  <2>1. \A y \in Rec : Fades(y)
    BY <1>4 DEF Fades, SameShape
  <2>2. \A w \in Worker, y \in Rec : LooksUp(w, y)' <=> LooksUp(w, y)
    BY <1>0, <1>1, ActorParts, Constants DEF LooksUp, TypeOK
  <2> QED BY <1>1, <1>4, <1>8, <2>1, <2>2, FadePlaces
<1>10. Callbacks'
  <2>1. \A s \in Request, y \in Rec : Listed(s, y)' <=> Listed(s, y)
    BY <1>0, <1>4, <1>9, FadeCallbacks
  <2>2. \A s \in Request, b \in Actor : Called(s, b)' <=> Called(s, b) /\ b # a
    BY <1>0, <1>1 DEF Called, TypeOK
  <2>3. \A s \in Request : req'[s].at = "pending" <=> req[s].at = "pending" /\ ~Called(s, a)
    BY <1>3, <1>5 DEF Called
  <2> QED BY <1>0, <1>9, <2>1, <2>2, <2>3 DEF Callbacks
<1>11. Counters'
  <2>1. Live' = Live /\ Resting' = Resting
    BY <1>0, <1>1, ActorParts DEF Live, Resting, TypeOK
  <2> QED BY <1>0, <1>1, <1>9, <2>1, SameCounters
<1> QED BY <1>6, <1>7, <1>8, <1>9, <1>10, <1>11 DEF Resolving

(* The answer to a new request. *)
LEMMA AnswerShape ==
  ASSUME Resolving, Asks, NEW s \in {"refused", "handed", "pending"}, NEW y \in Rec \cup {NoRec},
         NEW k \in BOOLEAN, y \in Rec <=> s = "handed", Answer(s, y, k)
  PROVE  /\ nReq + 1 \in Request /\ nReq' = nReq + 1 /\ nReq' \in Nat /\ nReq' <= MaxRequests
         /\ req' \in [Request -> Answers]
         /\ \A r \in Request \ {nReq + 1} : req'[r] = req[r]
         /\ req[nReq + 1].at = "unused" /\ req'[nReq + 1].at = s
         /\ \A r \in Request : /\ req'[r].rec \in Rec <=> req'[r].at = "handed"
                               /\ req'[r].calls = One(req'[r].at = "called")
                               /\ r > nReq' => req'[r].at = "unused"
         /\ \A z \in Rec : Cardinality(Holders(z)') = Cardinality(Holders(z)) + One(z = y)
         /\ \A x \in Rec : ~Listed(nReq + 1, x)
         /\ \A a \in Actor : ~Called(nReq + 1, a)
<1> DEFINE r == nReq + 1
           q == [at |-> s, rec |-> y, ok |-> k, calls |-> 0]
<1>0. Hands /\ TypeOK /\ Callbacks /\ nReq \in Nat
  BY DEF Resolving, Hands, TypeOK
<1>1. r \in Request /\ nReq' = r /\ r \in Nat /\ r <= MaxRequests /\ r > nReq
  BY <1>0, Constants DEF Asks, Answer, Request
<1>2. q \in Answers /\ q.at = s /\ q.rec = y /\ q.calls = 0
  BY DEF Answers
<1>3. req' = [req EXCEPT ![r] = q]
  BY DEF Answer
<1> HIDE DEF r, q
<1>4. /\ req' \in [Request -> Answers] /\ req'[r] = q
      /\ \A t \in Request \ {r} : req'[t] = req[t]
  BY <1>0, <1>1, <1>2, <1>3 DEF TypeOK
<1>5. req[r].at = "unused" /\ req[r].rec \notin Rec
  BY <1>0, <1>1 DEF Hands
<1>6. \A t \in Request : /\ req'[t].rec \in Rec <=> req'[t].at = "handed"
                         /\ req'[t].calls = One(req'[t].at = "called")
                         /\ t > nReq' => req'[t].at = "unused"
  BY <1>0, <1>1, <1>2, <1>4 DEF Hands, One, Request
<1>7. ASSUME NEW z \in Rec PROVE Cardinality(Holders(z)') = Cardinality(Holders(z)) + One(z = y)
  <2>1. Cardinality(Holders(z)') = Cardinality(Holders(z)) - One(req[r].rec = z) + One(req'[r].rec = z)
    BY <1>1, <1>4, HoldersChange
  <2> QED BY <1>2, <1>4, <1>5, <2>1, FiniteUsers DEF One
<1>8. (\A x \in Rec : ~Listed(r, x)) /\ (\A a \in Actor : ~Called(r, a))
  BY <1>0, <1>1, <1>5 DEF Callbacks
<1> QED BY <1>1, <1>2, <1>4, <1>5, <1>6, <1>7, <1>8 DEF r

LEMMA AfterShutdownResolving ==
  ASSUME Resolving, AfterShutdown
  PROVE  Resolving'
<1> USE DEF cache, locals, closing, counts
<1>0. Hands /\ TypeOK /\ Lists /\ Places /\ References /\ Callbacks /\ Counters
  BY DEF Resolving, Hands
<1>1. /\ Asks /\ Answer("refused", NoRec, FALSE)
      /\ UNCHANGED <<cache, counts, pc, locals, closing, noThread>>
  BY DEF AfterShutdown
<1>2. /\ nReq' \in Nat /\ nReq' <= MaxRequests /\ req' \in [Request -> Answers]
      /\ \A r \in Request \ {nReq + 1} : req'[r] = req[r]
      /\ req[nReq + 1].at = "unused" /\ req'[nReq + 1].at = "refused"
      /\ \A r \in Request : /\ req'[r].rec \in Rec <=> req'[r].at = "handed"
                            /\ req'[r].calls = One(req'[r].at = "called")
                            /\ r > nReq' => req'[r].at = "unused"
      /\ \A z \in Rec : Cardinality(Holders(z)') = Cardinality(Holders(z)) + One(z = NoRec)
  BY <1>1, AnswerShape, Constants
<1>3. Hands'
  <2>1. TypeOK'
    BY <1>0, <1>1, <1>2 DEF TypeOK
  <2> QED BY <1>0, <1>1, <1>2, <2>1 DEF Hands
<1>4. Lists'
  BY <1>0, <1>1 DEF Lists
<1>5. Places'
  <2>1. \A w \in Worker, y \in Rec : LooksUp(w, y)' <=> LooksUp(w, y)
    BY <1>1 DEF LooksUp
  <2> QED BY <1>0, <1>1, <2>1, SameLists DEF Places
<1>6. References'
  <2> SUFFICES ASSUME NEW y \in Rec PROVE Counted(y)'
    BY DEF References
  <2>1. Cardinality(Holders(y)') = Cardinality(Holders(y))
    BY <1>2, Constants, FiniteUsers DEF One
  <2>2. (Known(y)' <=> Known(y)) /\ (Waits(y)' <=> Waits(y)) /\ (Kept(y)' <=> Kept(y)) /\ Users(y)' = Users(y)
    BY <1>1, SameLists
  <2>3. Counted(y) /\ rec'[y] = rec[y]
    BY <1>0, <1>1 DEF References
  <2> QED BY <2>1, <2>2, <2>3 DEF Counted, One
<1>7. Callbacks'
  <2>1. \A r \in Request : req'[r].at = "pending" <=> req[r].at = "pending"
    BY <1>2
  <2> QED BY <1>0, <1>1, <2>1, SameLists DEF Callbacks
<1>8. Counters'
  BY <1>0, <1>1, SameCounters DEF Live, Resting
<1> QED BY <1>3, <1>4, <1>5, <1>6, <1>7, <1>8 DEF Resolving

LEMMA DetachResolving ==
  ASSUME Resolving, NEW h \in Host, NEW r \in Request, DetachCallback(h, r)
  PROVE  Resolving'
<1> DEFINE x == mDB[h]
<1> USE DEF cache, locals, closing, requests, counts
<1>0. Hands /\ TypeOK /\ Lists /\ Places /\ References /\ Callbacks /\ Counters
  BY DEF Resolving, Hands
<1>1. /\ x \in Rec /\ r \in rec[x].callbacks
      /\ rec' = [rec EXCEPT ![x] = [rec[x] EXCEPT !.callbacks = rec[x].callbacks \ {r}, !.refc = rec[x].refc + 1]]
      /\ req' = [req EXCEPT ![r].at = "handed", ![r].rec = x]
      /\ UNCHANGED <<mDB, queue, mEvictionQ, mEvictionQSize, mPendingCount, counts, pc, locals, closing, nReq, noThread>>
  BY <1>0 DEF DetachCallback, TypeOK
<1> HIDE DEF x
<1>2. Listed(r, x) /\ req[r].at = "pending" /\ rec[x].resolving
  BY <1>0, <1>1 DEF Listed, Callbacks
<1>3. /\ rec' \in [Rec -> nsHostRecord]
      /\ \A y \in Rec \ {x} : rec'[y] = rec[y]
      /\ SameShape(x) /\ rec'[x].refc = rec[x].refc + 1 /\ rec'[x].callbacks = rec[x].callbacks \ {r}
  <2> DEFINE f == [rec[x] EXCEPT !.callbacks = rec[x].callbacks \ {r}, !.refc = rec[x].refc + 1]
  <2>1. rec[x] \in nsHostRecord
    BY <1>0, <1>1 DEF TypeOK
  <2>2. /\ f \in nsHostRecord /\ f.refc = rec[x].refc + 1 /\ f.callbacks = rec[x].callbacks \ {r}
        /\ f.host = rec[x].host /\ f.resolving = rec[x].resolving /\ f.onQueue = rec[x].onQueue
        /\ f.usingAny = rec[x].usingAny /\ f.flags = rec[x].flags
    <3>1. f \in nsHostRecord
      <4> DEFINE g == [rec[x] EXCEPT !.callbacks = rec[x].callbacks \ {r}]
      <4>1. rec[x].refc + 1 \in Nat /\ rec[x].callbacks \ {r} \in SUBSET Request
        BY <2>1 DEF nsHostRecord
      <4>2. g \in nsHostRecord
        BY <2>1, <4>1, Updates
      <4>3. f = [g EXCEPT !.refc = rec[x].refc + 1]
        OBVIOUS
      <4> HIDE DEF f, g
      <4> QED BY <4>1, <4>2, <4>3, Updates
    <3>2. /\ f.refc = rec[x].refc + 1 /\ f.callbacks = rec[x].callbacks \ {r}
          /\ f.host = rec[x].host /\ f.resolving = rec[x].resolving
      BY <2>1 DEF nsHostRecord
    <3>3. f.onQueue = rec[x].onQueue /\ f.usingAny = rec[x].usingAny /\ f.flags = rec[x].flags
      BY <2>1 DEF nsHostRecord
    <3> QED BY <3>1, <3>2, <3>3
  <2> HIDE DEF f
  <2>3. rec' = [rec EXCEPT ![x] = f]
    BY <1>1 DEF f
  <2> QED BY <1>0, <1>1, <2>2, <2>3 DEF TypeOK, SameShape
<1>4. /\ req' \in [Request -> Answers]
      /\ \A s \in Request \ {r} : req'[s] = req[s]
      /\ req'[r].at = "handed" /\ req'[r].rec = x /\ req'[r].calls = req[r].calls
  BY <1>0, <1>1 DEF TypeOK, Answers
<1>5. Hands'
  <2>1. TypeOK'
    BY <1>0, <1>1, <1>3, <1>4 DEF TypeOK
  <2> QED BY <1>0, <1>1, <1>2, <1>4, <2>1 DEF Hands, One
<1>6. Lists'
  BY <1>0, <1>1 DEF Lists
<1>7. References'
  <2> SUFFICES ASSUME NEW y \in Rec PROVE Counted(y)'
    BY DEF References
  <2>1. Cardinality(Holders(y)') = Cardinality(Holders(y)) - One(req[r].rec = y) + One(req'[r].rec = y)
    BY <1>4, HoldersChange
  <2>2. Cardinality(Holders(y)') = Cardinality(Holders(y)) + One(x = y)
    BY <1>0, <1>2, <1>4, <2>1, FiniteUsers DEF One, Hands
  <2>3. (Known(y)' <=> Known(y)) /\ (Waits(y)' <=> Waits(y)) /\ (Kept(y)' <=> Kept(y)) /\ Users(y)' = Users(y)
    BY <1>1, SameLists
  <2>4. /\ Counted(y) /\ Cardinality(Users(y)) \in Nat /\ Cardinality(Holders(y)) \in Nat
        /\ rec[y].refc \in Nat
    BY <1>0, FiniteUsers DEF References, TypeOK, nsHostRecord
  <2>5. CASE y = x
    BY <1>3, <2>2, <2>3, <2>4, <2>5 DEF Counted, One
  <2>6. CASE y # x
    BY <1>3, <2>2, <2>3, <2>4, <2>6 DEF Counted, One
  <2> QED BY <2>5, <2>6
<1>8. /\ Places'
      /\ \A y \in Rec : rec'[y].resolving = rec[y].resolving /\ rec'[y].usingAny = rec[y].usingAny
  <2>1. \A y \in Rec : Fades(y)
    BY <1>3 DEF Fades, SameShape
  <2>2. \A w \in Worker, y \in Rec : LooksUp(w, y)' <=> LooksUp(w, y)
    BY <1>1 DEF LooksUp
  <2> QED BY <1>1, <1>3, <1>7, <2>1, <2>2, FadePlaces
<1>9. Callbacks'
  <2>1. \A s \in Request, y \in Rec : Listed(s, y)' <=> Listed(s, y) /\ ~(s = r /\ y = x)
    BY <1>1, <1>3 DEF Listed
  <2>2. \A s \in Request, a \in Actor : Called(s, a)' <=> Called(s, a)
    BY <1>1, SameLists
  <2>3. \A s \in Request : req'[s].at = "pending" <=> req[s].at = "pending" /\ s # r
    BY <1>4
  <2>4. ASSUME NEW s \in Request, NEW y \in Rec, Listed(s, y)'
        PROVE  s # r /\ Listed(s, y)
    BY <1>0, <1>1, <1>2, <2>1, <2>4 DEF Callbacks
  <2>5. \A a \in Actor : ~Called(r, a)
    BY <1>0, <1>1, <1>2 DEF Callbacks
  <2> SUFFICES ASSUME NEW s \in Request
               PROVE  /\ req'[s].at = "pending" => \/ \E y \in Rec : Listed(s, y)'
                                                   \/ \E a \in Actor : Called(s, a)'
                      /\ \A y \in Rec : Listed(s, y)' =>
                           /\ rec'[y].resolving /\ req'[s].at = "pending"
                           /\ \A z \in Rec : Listed(s, z)' => y = z
                           /\ \A a \in Actor : ~Called(s, a)'
                      /\ \A a \in Actor : Called(s, a)' =>
                           req'[s].at = "pending" /\ \A b \in Actor : Called(s, b)' => a = b
    BY DEF Callbacks
  <2>6. req'[s].at = "pending" => (\E y \in Rec : Listed(s, y)') \/ \E a \in Actor : Called(s, a)'
    BY <1>0, <2>1, <2>2, <2>3 DEF Callbacks
  <2>7. ASSUME NEW y \in Rec, Listed(s, y)'
        PROVE  /\ rec'[y].resolving /\ req'[s].at = "pending"
               /\ \A z \in Rec : Listed(s, z)' => y = z
               /\ \A a \in Actor : ~Called(s, a)'
    BY <1>0, <1>8, <2>1, <2>2, <2>3, <2>4, <2>7 DEF Callbacks
  <2>8. ASSUME NEW a \in Actor, Called(s, a)'
        PROVE  req'[s].at = "pending" /\ \A b \in Actor : Called(s, b)' => a = b
    BY <1>0, <2>2, <2>3, <2>5, <2>8 DEF Callbacks
  <2> QED BY <2>6, <2>7, <2>8
<1>10. Counters'
  BY <1>0, <1>1, <1>8, SameCounters DEF Live, Resting
<1> QED BY <1>5, <1>6, <1>7, <1>8, <1>9, <1>10 DEF Resolving
--------------------------------------------------------------------------------
(* The table entry of a host *)

(* The record that ResolveHost works with is the record of the table, or one *)
(* that nobody has; either way it is as it was but for its host and its      *)
(* references.                                                               *)
EntryFacts(h, x, f) ==
  /\ x \in Rec /\ f \in nsHostRecord /\ f.host = h
  /\ f.addr = rec[x].addr /\ f.resolving = rec[x].resolving /\ f.onQueue = rec[x].onQueue
  /\ f.usingAny = rec[x].usingAny /\ f.flags = rec[x].flags /\ f.callbacks = rec[x].callbacks
  /\ f.refc = 1 + One(Waits(x)) + One(Kept(x)) + Cardinality(Users(x)) + Cardinality(Holders(x))
  /\ mDB[h] = x \/ (mDB[h] = NoRec /\ ~Known(x))
  /\ \A g \in Host : mDB[g] = x => g = h
  /\ HasResult(f) \/ f.resolving => mDB[h] = x

LEMMA EntryIs ==
  ASSUME Resolving, NEW h \in Host, Room(h)
  PROVE  EntryFacts(h, Entry(h), Record(h))
<1> DEFINE x == Entry(h)
           f == Record(h)
<1>0. TypeOK /\ Places /\ References
  BY DEF Resolving, Hands
<1>1. CASE mDB[h] # NoRec
  <2>1. x = mDB[h] /\ x \in Rec /\ f = rec[x] /\ rec[x] \in nsHostRecord
    BY <1>0, <1>1 DEF TypeOK, Entry, Record
  <2>2. f.host = h /\ \A g \in Host : mDB[g] = x => g = h
    BY <1>0, <1>1, <2>1, Constants DEF Places
  <2>3. Known(x) /\ Counted(x)
    BY <1>0, <2>1 DEF Known, References
  <2>4. f.refc = 1 + One(Waits(x)) + One(Kept(x)) + Cardinality(Users(x)) + Cardinality(Holders(x))
    BY <2>1, <2>3, FiniteUsers DEF Counted, One
  <2> HIDE DEF x, f
  <2>5. EntryFacts(h, x, f)
    BY <2>1, <2>2, <2>4 DEF EntryFacts
  <2> QED BY <2>5 DEF x, f
<1>2. CASE mDB[h] = NoRec
  <2>1. x \in Rec /\ rec[x].refc = 0
    BY <1>2 DEF Entry, Room, NewRec
  <2>2. Counted(x)
    BY <1>0, <2>1 DEF References
  <2>3. /\ ~Known(x) /\ ~Waits(x) /\ ~Kept(x) /\ rec[x] = NoRecord
        /\ Cardinality(Users(x)) = 0 /\ Cardinality(Holders(x)) = 0
    BY <2>1, <2>2, NobodyHolds, FiniteUsers DEF Counted, One
  <2>4. f = [NoRecord EXCEPT !.host = h, !.refc = 1]
    BY <1>2 DEF Record
  <2>5. NoRecord \in nsHostRecord
    BY DEF NoRecord, nsHostRecord, Priority
  <2>6. f \in nsHostRecord
    <3>1. [NoRecord EXCEPT !.host = h] \in nsHostRecord
      BY <2>5, Updates
    <3>2. f = [[NoRecord EXCEPT !.host = h] EXCEPT !.refc = 1]
      BY <2>4
    <3> HIDE DEF f
    <3> QED BY <3>1, <3>2, Updates
  <2>7. /\ f.host = h /\ f.refc = 1 /\ ~f.addr /\ ~f.addr_info /\ ~f.negative /\ ~f.resolving
        /\ ~f.onQueue /\ ~f.usingAny /\ f.flags = "high" /\ f.callbacks = {}
    BY <2>4 DEF NoRecord
  <2> HIDE DEF f, x
  <2>8. EntryFacts(h, x, f)
    <3>1. /\ ~rec[x].addr /\ ~rec[x].resolving /\ ~rec[x].onQueue /\ ~rec[x].usingAny
          /\ rec[x].flags = "high" /\ rec[x].callbacks = {}
      BY <2>3 DEF NoRecord
    <3>2. f.addr \in BOOLEAN /\ f.resolving \in BOOLEAN /\ f.onQueue \in BOOLEAN /\ f.usingAny \in BOOLEAN
      BY <2>6 DEF nsHostRecord
    <3>3. rec[x] \in nsHostRecord
      BY <2>3, <2>5
    <3>4. /\ rec[x].addr \in BOOLEAN /\ rec[x].resolving \in BOOLEAN
          /\ rec[x].onQueue \in BOOLEAN /\ rec[x].usingAny \in BOOLEAN
      BY <3>3 DEF nsHostRecord
    <3>5. /\ f.addr = rec[x].addr /\ f.resolving = rec[x].resolving /\ f.onQueue = rec[x].onQueue
          /\ f.usingAny = rec[x].usingAny /\ f.flags = rec[x].flags /\ f.callbacks = rec[x].callbacks
      BY <2>7, <3>1, <3>2, <3>4
    <3>6. f.refc = 1 + One(Waits(x)) + One(Kept(x)) + Cardinality(Users(x)) + Cardinality(Holders(x))
      BY <2>3, <2>7 DEF One
    <3>7. ~HasResult(f)
      BY <2>7 DEF HasResult
    <3>8. \A g \in Host : mDB[g] # x
      BY <2>3 DEF Known
    <3> QED BY <1>2, <2>1, <2>3, <2>6, <2>7, <3>5, <3>6, <3>7, <3>8 DEF EntryFacts
  <2> QED BY <2>8 DEF x, f
<1> QED BY <1>1, <1>2

(* The table knows the record now, and no other that it did not know. *)
LEMMA KnownNow ==
  ASSUME TypeOK, NEW h \in Host, NEW x \in Rec, mDB[h] \in {x, NoRec},
         mDB' = [mDB EXCEPT ![h] = x]
  PROVE  /\ Known(x)' /\ mDB' \in [Host -> Rec \cup {NoRec}]
         /\ \A y \in Rec : Known(y)' <=> Known(y) \/ y = x
<1>1. mDB'[h] = x /\ \A g \in Host \ {h} : mDB'[g] = mDB[g]
  BY DEF TypeOK
<1>2. ASSUME NEW y \in Rec, Known(y) PROVE Known(y)'
  <2>1. PICK g \in Host : mDB[g] = y
    BY <1>2 DEF Known
  <2> QED BY <1>1, <2>1, Constants DEF Known
<1>3. ASSUME NEW y \in Rec, Known(y)' PROVE Known(y) \/ y = x
  BY <1>1, <1>3 DEF Known
<1>4. Known(x)'
  BY <1>1 DEF Known
<1> QED BY <1>2, <1>3, <1>4 DEF TypeOK

Alike(g, f) == /\ g.resolving = f.resolving /\ g.onQueue = f.onQueue /\ g.usingAny = f.usingAny
               /\ g.flags = f.flags /\ g.callbacks = f.callbacks

Written(h, x, g) == rec' = [rec EXCEPT ![x] = g] /\ mDB' = [mDB EXCEPT ![h] = x]

(* A call that is answered at once leaves the record where it is. *)
LEMMA AnsweredKeeps ==
  ASSUME Resolving, NEW h \in Host, NEW x, NEW f, EntryFacts(h, x, f), Asks, ~mShutdown,
         NEW g \in nsHostRecord, NEW s, NEW y, NEW k \in BOOLEAN,
         \/ s = "handed" /\ y = x
         \/ s = "refused" /\ y = NoRec,
         g.host = h, Alike(g, f), g.refc = f.refc + One(y = x),
         Answer(s, y, k),
         Written(h, x, g),
         UNCHANGED <<queue, mEvictionQ, mEvictionQSize, mPendingCount, counts, pc, locals, closing, noThread>>
  PROVE  Resolving'
<1> USE DEF locals, closing, counts, Written
<1>0. Hands /\ TypeOK /\ Lists /\ Places /\ References /\ Callbacks /\ Counters
  BY DEF Resolving, Hands
<1>1. /\ x \in Rec /\ mDB[h] \in {x, NoRec} /\ (mDB[h] = x \/ ~Known(x))
      /\ \A i \in Host : mDB[i] = x => i = h
      /\ g.resolving = rec[x].resolving /\ g.onQueue = rec[x].onQueue /\ g.usingAny = rec[x].usingAny
      /\ g.flags = rec[x].flags /\ g.callbacks = rec[x].callbacks
      /\ f.refc = 1 + One(Waits(x)) + One(Kept(x)) + Cardinality(Users(x)) + Cardinality(Holders(x))
  BY DEF EntryFacts, Alike
<1>2. y \in Rec \cup {NoRec} /\ (y \in Rec <=> s = "handed") /\ s \in {"refused", "handed", "pending"}
  BY <1>1, Constants
<1>3. /\ nReq' \in Nat /\ nReq' <= MaxRequests /\ req' \in [Request -> Answers]
      /\ \A r \in Request \ {nReq + 1} : req'[r] = req[r]
      /\ req[nReq + 1].at = "unused" /\ req'[nReq + 1].at = s
      /\ \A r \in Request : /\ req'[r].rec \in Rec <=> req'[r].at = "handed"
                            /\ req'[r].calls = One(req'[r].at = "called")
                            /\ r > nReq' => req'[r].at = "unused"
      /\ \A z \in Rec : Cardinality(Holders(z)') = Cardinality(Holders(z)) + One(z = y)
  BY <1>2, AnswerShape
<1>4. /\ Known(x)' /\ mDB' \in [Host -> Rec \cup {NoRec}]
      /\ \A z \in Rec : Known(z)' <=> Known(z) \/ z = x
  BY <1>0, <1>1, KnownNow
<1>5. rec' \in [Rec -> nsHostRecord] /\ rec'[x] = g /\ \A z \in Rec \ {x} : rec'[z] = rec[z]
  BY <1>0, <1>1 DEF TypeOK
<1>6. \A z \in Rec : /\ rec'[z].resolving = rec[z].resolving /\ rec'[z].onQueue = rec[z].onQueue
                     /\ rec'[z].usingAny = rec[z].usingAny /\ rec'[z].flags = rec[z].flags
                     /\ rec'[z].callbacks = rec[z].callbacks
  BY <1>1, <1>5
<1>7. Hands'
  <2>1. TypeOK'
    BY <1>0, <1>3, <1>4, <1>5 DEF TypeOK
  <2> QED BY <1>0, <1>3, <2>1 DEF Hands
<1>8. Lists'
  BY <1>0 DEF Lists
<1>9. /\ \A z \in Rec : (Waits(z)' <=> Waits(z)) /\ (Kept(z)' <=> Kept(z)) /\ Users(z)' = Users(z)
      /\ \A w \in Worker, z \in Rec : LooksUp(w, z)' <=> LooksUp(w, z)
  BY SameLists DEF LooksUp
<1>10. Places'
  <2>1. ASSUME NEW i \in Host, mDB'[i] # NoRec PROVE rec'[mDB'[i]].host = i
    <3>1. CASE i = h
      BY <1>0, <1>1, <1>5, <3>1 DEF TypeOK
    <3>2. CASE i # h
      <4>1. mDB'[i] = mDB[i] /\ mDB[i] # x /\ mDB[i] \in Rec
        BY <1>0, <1>1, <2>1, <3>2 DEF TypeOK
      <4> QED BY <1>0, <1>5, <4>1, Constants DEF Places
    <3> QED BY <3>1, <3>2
  <2> QED BY <1>0, <1>4, <1>6, <1>9, <2>1 DEF Places
<1>11. References'
  <2> SUFFICES ASSUME NEW z \in Rec PROVE Counted(z)'
    BY DEF References
  <2>1. /\ Counted(z) /\ Cardinality(Users(z)) \in Nat /\ Cardinality(Holders(z)) \in Nat
    BY <1>0, FiniteUsers DEF References
  <2>2. CASE z = x
    <3>1. One(z = y) = One(y = x) /\ One(y = x) \in {0, 1}
      BY <2>2 DEF One
    <3>2. /\ rec'[z].refc = f.refc + One(y = x) /\ f.refc # 0
          /\ f.refc = One(Known(z)') + One(Waits(z)') + One(Kept(z)') + Cardinality(Users(z)') + Cardinality(Holders(z))
      BY <1>1, <1>4, <1>5, <1>9, <2>1, <2>2 DEF One
    <3>3. Cardinality(Holders(z)') = Cardinality(Holders(z)) + One(y = x)
      BY <1>3, <3>1
    <3>4. Cardinality(Users(z)') \in Nat
      BY <1>9, <2>1
    <3> QED BY <2>1, <3>1, <3>2, <3>3, <3>4 DEF Counted, One
  <2>3. CASE z # x
    <3>1. One(z = y) = 0
      BY <2>3, Constants DEF One
    <3> QED BY <1>3, <1>4, <1>5, <1>9, <2>1, <2>3, <3>1 DEF Counted, One
  <2> QED BY <2>2, <2>3
<1>12. Callbacks'
  <2>1. \A r \in Request, z \in Rec : Listed(r, z)' <=> Listed(r, z)
    BY <1>6 DEF Listed
  <2>2. \A r \in Request, a \in Actor : Called(r, a)' <=> Called(r, a)
    BY SameLists
  <2>3. \A r \in Request : req'[r].at = "pending" <=> req[r].at = "pending"
    BY <1>3
  <2> QED BY <1>0, <1>6, <2>1, <2>2, <2>3 DEF Callbacks
<1>13. Counters'
  BY <1>0, <1>6, SameCounters DEF Live, Resting
<1> QED BY <1>7, <1>8, <1>10, <1>11, <1>12, <1>13 DEF Resolving

LEMMA UseResultResolving ==
  ASSUME Resolving, NEW h \in Host, NEW b \in BOOLEAN, UseResult(h, b)
  PROVE  Resolving'
<1> DEFINE x == Entry(h)
           f == Record(h)
           g == Handed(h)
           k == ~f.negative \/ IsLiteral(h, b)
<1>1. /\ Asks /\ ~mShutdown /\ Written(h, x, g)
      /\ Answer("handed", x, k) /\ k \in BOOLEAN
      /\ UNCHANGED <<queue, mEvictionQ, mEvictionQSize, mPendingCount, counts, pc, locals, closing, noThread>>
  BY DEF UseResult, Hand, IsLiteral, Written
<1>2. EntryFacts(h, x, f)
  BY EntryIs DEF UseResult
<1>3. f \in nsHostRecord /\ g = [f EXCEPT !.refc = f.refc + 1, !.addr = f.addr \/ h \in Literal] /\ f.host = h
  BY <1>2 DEF EntryFacts, Handed
<1> HIDE DEF f, g, x, k
<1>4. g \in nsHostRecord /\ g.host = h /\ Alike(g, f) /\ g.refc = f.refc + 1
  <2> DEFINE e == [f EXCEPT !.refc = f.refc + 1]
  <2>1. e \in nsHostRecord /\ (f.addr \/ h \in Literal) \in BOOLEAN
    <3>1. f.refc + 1 \in Nat /\ f.addr \in BOOLEAN
      BY <1>3 DEF nsHostRecord
    <3>2. e \in nsHostRecord
      BY <1>3, <3>1, Updates
    <3> QED BY <3>1, <3>2
  <2>2. g = [e EXCEPT !.addr = f.addr \/ h \in Literal]
    BY <1>3
  <2>3. g \in nsHostRecord
    BY <2>1, <2>2, Updates
  <2> QED BY <1>3, <2>3 DEF nsHostRecord, Alike
<1>5. PICK y : y = x
  OBVIOUS
<1>6. g.refc = f.refc + One(y = x)
  BY <1>4, <1>5 DEF One
<1>7. PICK m \in BOOLEAN : Answer("handed", y, m)
  BY <1>1, <1>5
<1> QED BY <1>1, <1>2, <1>4, <1>5, <1>6, <1>7, AnsweredKeeps

LEMMA QueueFullResolving ==
  ASSUME Resolving, NEW h \in Host, NEW p \in Priority, NEW b \in BOOLEAN, QueueFull(h, p, b)
  PROVE  Resolving'
<1> DEFINE x == Entry(h)
           f == Record(h)
<1>1. /\ Asks /\ ~mShutdown /\ Written(h, x, f)
      /\ Answer("refused", NoRec, FALSE)
      /\ UNCHANGED <<queue, mEvictionQ, mEvictionQSize, mPendingCount, counts, pc, locals, closing, noThread>>
  BY DEF QueueFull, MustLookUp, Written
<1>2. EntryFacts(h, x, f)
  BY EntryIs DEF QueueFull, MustLookUp
<1> HIDE DEF f, x
<1>3. f \in nsHostRecord /\ f.host = h /\ f.refc \in Nat /\ Alike(f, f)
  BY <1>2 DEF EntryFacts, nsHostRecord, Alike
<1>4. x \in Rec /\ f.refc = f.refc + One(NoRec = x)
  BY <1>2, <1>3, Constants DEF One, EntryFacts
<1> QED BY <1>1, <1>2, <1>3, <1>4, AnsweredKeeps
--------------------------------------------------------------------------------
(* Waking and creating threads *)

ThreadsMove == /\ Drifts /\ Resting' = Resting /\ mThreadCount' \in Nat
               /\ mThreadCount' = Cardinality(Live') /\ mThreadCount' <= MaxResolverThreads

LEMMA NotifyMoves ==
  ASSUME Resolving, pc' \in Notify, mThreadCount' = mThreadCount
  PROVE  ThreadsMove
<1>0. TypeOK /\ Counters
  BY DEF Resolving, Hands
<1>1. CASE pc' = pc
  BY <1>0, <1>1 DEF ThreadsMove, Drifts, TypeOK, Live, Resting, Counters
<1>2. CASE pc' # pc
  <2>1. PICK w \in Worker : pc[w] = "idle" /\ pc' = [pc EXCEPT ![w] = "woken"]
    BY <1>2 DEF Notify, Idle
  <2>2. Drifts
    BY <1>0, <2>1, ActorParts DEF Drifts, TypeOK, Points, Wandering
  <2>3. Live' = Live /\ Resting' = Resting
    BY <1>0, <2>1, ActorParts DEF Live, Resting, TypeOK
  <2> QED BY <1>0, <2>2, <2>3 DEF ThreadsMove, TypeOK, Counters
<1> QED BY <1>1, <1>2

(* There is a slot for a new thread, because the threads are counted. *)
LEMMA SpawnMoves ==
  ASSUME Resolving, NEW p, MayCreate(p), pc' = Spawned, mThreadCount' = mThreadCount + 1
  PROVE  ThreadsMove
<1> DEFINE w == CHOOSE v \in Worker : pc[v] = "none"
<1>0. TypeOK /\ Counters
  BY DEF Resolving, Hands
<1>1. mThreadCount < MaxResolverThreads /\ mThreadCount \in Nat
  BY <1>0, Constants DEF MayCreate, TypeOK
<1>2. \E v \in Worker : pc[v] = "none"
  <2> SUFFICES ASSUME \A v \in Worker : pc[v] # "none" PROVE FALSE
    OBVIOUS
  <2>1. Live = Worker
    BY DEF Live
  <2> QED BY <1>0, <1>1, <2>1, Finite, Constants DEF Counters
<1>3. w \in Worker /\ pc[w] = "none" /\ pc' = [pc EXCEPT ![w] = "get"]
  BY <1>2 DEF Spawned
<1> HIDE DEF w
<1>4. Drifts
  BY <1>0, <1>3, ActorParts DEF Drifts, TypeOK, Points, Wandering
<1>5. Cardinality(Live') = Cardinality(Live) + 1
  <2>1. /\ Cardinality(Live') = Cardinality(Live) - One(pc[w] # "none") + One("get" # "none")
    BY <1>0, <1>3, PcCounts
  <2> QED BY <1>0, <1>1, <1>3, <2>1 DEF One, Counters
<1>6. Resting' = Resting
  BY <1>0, <1>3, ActorParts DEF Resting, TypeOK
<1> QED BY <1>0, <1>1, <1>4, <1>5, <1>6, Constants DEF ThreadsMove, Counters

LEMMA StayMoves ==
  ASSUME Resolving, pc' = pc, mThreadCount' = mThreadCount
  PROVE  ThreadsMove
<1>0. TypeOK /\ Counters
  BY DEF Resolving, Hands
<1> QED BY <1>0 DEF ThreadsMove, Drifts, TypeOK, Live, Resting, Counters

LEMMA CreateMoves ==
  ASSUME Resolving, NEW p, NEW o, o \in ConditionallyCreateThread(p), pc' = o.pc, mThreadCount' = o.threads
  PROVE  ThreadsMove /\ o.ok \in BOOLEAN
<1>0. mNumIdleThreads \in Nat
  BY DEF Resolving, Hands, TypeOK
<1>1. CASE mNumIdleThreads > 0
  <2>a. ~(mNumIdleThreads = 0)
    BY <1>0, <1>1
  <2>b. ConditionallyCreateThread(p) = {Outcome(f, mThreadCount, TRUE) : f \in Notify}
    BY <1>1, <2>a, Zenon DEF ConditionallyCreateThread
  <2>1. PICK f \in Notify : o = Outcome(f, mThreadCount, TRUE)
    BY <2>b
  <2>2. o.pc = f /\ o.threads = mThreadCount /\ o.ok = TRUE
    BY <2>1 DEF Outcome
  <2> QED BY <2>2, NotifyMoves
<1>2. CASE mNumIdleThreads = 0 /\ MayCreate(p)
  <2>a. ~(mNumIdleThreads > 0)
    BY <1>2
  <2>b. ConditionallyCreateThread(p) = {Outcome(Spawned, mThreadCount + 1, TRUE)}
                                         \cup (IF ThreadMayFail THEN {Outcome(pc, mThreadCount, FALSE)} ELSE {})
    BY <1>2, <2>a, Zenon DEF ConditionallyCreateThread
  <2>1. o = Outcome(Spawned, mThreadCount + 1, TRUE) \/ o = Outcome(pc, mThreadCount, FALSE)
    BY <2>b
  <2>2. \/ o.pc = Spawned /\ o.threads = mThreadCount + 1 /\ o.ok = TRUE
        \/ o.pc = pc /\ o.threads = mThreadCount /\ o.ok = FALSE
    BY <2>1 DEF Outcome
  <2> QED BY <1>2, <2>2, SpawnMoves, StayMoves
<1>3. CASE mNumIdleThreads = 0 /\ ~MayCreate(p)
  <2>1. o = Outcome(pc, mThreadCount, TRUE)
    BY <1>3 DEF ConditionallyCreateThread
  <2>2. o.pc = pc /\ o.threads = mThreadCount /\ o.ok = TRUE
    BY <2>1 DEF Outcome
  <2> QED BY <2>2, StayMoves
<1> QED BY <1>0, <1>1, <1>2, <1>3
--------------------------------------------------------------------------------
(* Lookups that are issued *)

IssuedAs(s, y, g, x, f) ==
  \/ s = "handed" /\ y = x /\ g.callbacks = f.callbacks
  \/ s = "refused" /\ y = NoRec /\ g.callbacks = {}
  \/ s = "pending" /\ y = NoRec /\ g.callbacks = {nReq + 1}

LEMMA IssueKeeps ==
  ASSUME Resolving, NEW h \in Host, NEW x, NEW f, EntryFacts(h, x, f), Asks, ~mShutdown, ~f.resolving,
         NEW s, NEW y, NEW k \in BOOLEAN, Answer(s, y, k), NEW g \in nsHostRecord, IssuedAs(s, y, g, x, f),
         g.host = h, g.usingAny = f.usingAny, g.refc = f.refc + One(y = x),
         NEW o, IssueLookup(x, g, o), mDB' = [mDB EXCEPT ![h] = x],
         UNCHANGED <<mNumIdleThreads, mActiveAnyThreadCount, locals, closing>>
  PROVE  Resolving'
<1> USE DEF locals, closing
<1> DEFINE e == [g EXCEPT !.refc = IF OnEvictionQ(x) THEN g.refc ELSE g.refc + 1,
                          !.resolving = TRUE, !.onQueue = TRUE]
           r == nReq + 1
<1>0. Hands /\ TypeOK /\ Lists /\ Places /\ References /\ Callbacks /\ Counters
  BY DEF Resolving, Hands
<1>1. /\ x \in Rec /\ mDB[h] \in {x, NoRec} /\ (mDB[h] = x \/ ~Known(x))
      /\ \A i \in Host : mDB[i] = x => i = h
      /\ ~rec[x].resolving /\ f.callbacks = rec[x].callbacks /\ g.usingAny = rec[x].usingAny
      /\ f.refc = 1 + One(Waits(x)) + One(Kept(x)) + Cardinality(Users(x)) + Cardinality(Holders(x))
  BY DEF EntryFacts
<1>2. /\ ~Waits(x) /\ (\A w \in Worker : ~LooksUp(w, x)) /\ ~rec[x].usingAny
      /\ aborted = <<>> /\ evicted = <<>> /\ ToSet(aborted) = {} /\ ToSet(evicted) = {}
  BY <1>0, <1>1, EmptyList DEF Places, Lists
<1>3. f.callbacks = {} /\ rec[x].callbacks = {}
  <2>1. \A t \in Request : ~Listed(t, x)
    BY <1>0, <1>1 DEF Callbacks
  <2>2. rec[x].callbacks \subseteq Request
    BY <1>0, <1>1 DEF TypeOK, nsHostRecord
  <2> QED BY <1>1, <2>1, <2>2 DEF Listed
<1>4. /\ e \in nsHostRecord /\ e.host = h /\ e.resolving /\ e.onQueue /\ e.usingAny = g.usingAny
      /\ e.flags = g.flags /\ e.callbacks = g.callbacks /\ g.flags \in Priority /\ g.refc \in Nat
      /\ e.refc = IF OnEvictionQ(x) THEN g.refc ELSE g.refc + 1
  <2>1. (IF OnEvictionQ(x) THEN g.refc ELSE g.refc + 1) \in Nat /\ g.flags \in Priority /\ g.refc \in Nat
    BY DEF nsHostRecord
  <2>2. [g EXCEPT !.refc = IF OnEvictionQ(x) THEN g.refc ELSE g.refc + 1] \in nsHostRecord
    BY <2>1, Updates
  <2>3. [[g EXCEPT !.refc = IF OnEvictionQ(x) THEN g.refc ELSE g.refc + 1] EXCEPT !.resolving = TRUE] \in nsHostRecord
    BY <2>2, Updates
  <2>4. e = [[[g EXCEPT !.refc = IF OnEvictionQ(x) THEN g.refc ELSE g.refc + 1] EXCEPT !.resolving = TRUE] EXCEPT !.onQueue = TRUE]
    OBVIOUS
  <2>5. e \in nsHostRecord
    BY <2>3, <2>4, Updates
  <2>6. e.host = g.host /\ e.resolving /\ e.onQueue /\ e.usingAny = g.usingAny
    BY DEF nsHostRecord
  <2>7. /\ e.flags = g.flags /\ e.callbacks = g.callbacks
        /\ e.refc = IF OnEvictionQ(x) THEN g.refc ELSE g.refc + 1
    BY DEF nsHostRecord
  <2> QED BY <2>1, <2>5, <2>6, <2>7
<1>5. /\ rec' = [rec EXCEPT ![x] = e]
      /\ mEvictionQ' = Without(mEvictionQ, x)
      /\ mEvictionQSize' = IF OnEvictionQ(x) THEN mEvictionQSize - 1 ELSE mEvictionQSize
      /\ queue' = [queue EXCEPT ![g.flags] = Append(@, x)]
      /\ mPendingCount' = mPendingCount + 1
      /\ o \in ConditionallyCreateThread(g.flags)
      /\ pc' = o.pc /\ mThreadCount' = o.threads /\ noThread' = (noThread \/ ~o.ok)
  BY DEF IssueLookup
<1> HIDE DEF e
<1>6. ThreadsMove /\ noThread' \in BOOLEAN
  BY <1>0, <1>5, CreateMoves DEF TypeOK
<1>7. y \in Rec \cup {NoRec} /\ (y \in Rec <=> s = "handed") /\ s \in {"refused", "handed", "pending"}
  BY <1>1, Constants DEF IssuedAs
<1>8. /\ r \in Request /\ nReq' \in Nat /\ nReq' <= MaxRequests /\ req' \in [Request -> Answers]
      /\ \A t \in Request \ {r} : req'[t] = req[t]
      /\ req[r].at = "unused" /\ req'[r].at = s
      /\ \A t \in Request : /\ req'[t].rec \in Rec <=> req'[t].at = "handed"
                            /\ req'[t].calls = One(req'[t].at = "called")
                            /\ t > nReq' => req'[t].at = "unused"
      /\ \A z \in Rec : Cardinality(Holders(z)') = Cardinality(Holders(z)) + One(z = y)
      /\ \A z \in Rec : ~Listed(r, z)
      /\ \A a \in Actor : ~Called(r, a)
  BY <1>7, AnswerShape
<1>9. /\ Known(x)' /\ mDB' \in [Host -> Rec \cup {NoRec}]
      /\ \A z \in Rec : Known(z)' <=> Known(z) \/ z = x
  BY <1>0, <1>1, KnownNow
<1>10. rec' \in [Rec -> nsHostRecord] /\ rec'[x] = e /\ \A z \in Rec \ {x} : rec'[z] = rec[z]
  BY <1>0, <1>1, <1>4, <1>5 DEF TypeOK
<1>11. /\ queue' \in [Priority -> Seq(Rec)] /\ \A p \in Priority : Distinct(queue'[p])
       /\ ToSet(queue'[g.flags]) = ToSet(queue[g.flags]) \cup {x}
       /\ \A p \in Priority \ {g.flags} : queue'[p] = queue[p]
       /\ \A p \in Priority : x \notin ToSet(queue[p])
  <2>1. queue[g.flags] \in Seq(Rec) /\ Distinct(queue[g.flags]) /\ \A p \in Priority : x \notin ToSet(queue[p])
    BY <1>0, <1>2, <1>4 DEF TypeOK, Lists, Waits
  <2>2. /\ queue'[g.flags] = Append(queue[g.flags], x)
        /\ \A p \in Priority \ {g.flags} : queue'[p] = queue[p]
    BY <1>0, <1>4, <1>5 DEF TypeOK
  <2>3. /\ Append(queue[g.flags], x) \in Seq(Rec) /\ Distinct(Append(queue[g.flags], x))
        /\ ToSet(Append(queue[g.flags], x)) = ToSet(queue[g.flags]) \cup {x}
    BY <1>1, <1>4, <2>1, AppendSet
  <2> QED BY <1>0, <1>4, <1>5, <2>1, <2>2, <2>3 DEF TypeOK, Lists
<1>12. /\ mEvictionQ' \in Seq(Rec) /\ Distinct(mEvictionQ') /\ ToSet(mEvictionQ') = ToSet(mEvictionQ) \ {x}
       /\ mEvictionQSize' = Len(mEvictionQ') /\ mEvictionQSize' \in Nat /\ mEvictionQSize' <= MaxCacheEntries
  <2>1. mEvictionQ \in Seq(Rec) /\ Distinct(mEvictionQ) /\ mEvictionQSize = Len(mEvictionQ)
        /\ mEvictionQSize <= MaxCacheEntries
    BY <1>0 DEF TypeOK, Lists, Counters
  <2>2. /\ mEvictionQ' \in Seq(Rec) /\ Distinct(mEvictionQ') /\ ToSet(mEvictionQ') = ToSet(mEvictionQ) \ {x}
        /\ Len(mEvictionQ') = IF x \in ToSet(mEvictionQ) THEN Len(mEvictionQ) - 1 ELSE Len(mEvictionQ)
    BY <1>5, <2>1, WithoutSet
  <2>3. Len(mEvictionQ') \in Nat /\ Len(mEvictionQ) \in Nat
    BY <2>1, <2>2
  <2> QED BY <1>5, <2>1, <2>2, <2>3, Constants DEF OnEvictionQ
<1>13. /\ \A z \in Rec : (Waits(z)' <=> Waits(z) \/ z = x) /\ (Kept(z)' <=> Kept(z) /\ z # x)
       /\ Kept(x) <=> OnEvictionQ(x)
       /\ \A z : Users(z)' = Users(z)
       /\ \A w, z : LooksUp(w, z)' <=> LooksUp(w, z)
  <2>1. \A z \in Rec : Waits(z)' <=> Waits(z) \/ z = x
    BY <1>4, <1>11 DEF Waits
  <2>2. \A z \in Rec : Kept(z)' <=> Kept(z) /\ z # x
    BY <1>2, <1>12 DEF Kept
  <2>3. Kept(x) <=> OnEvictionQ(x)
    BY <1>2 DEF Kept, OnEvictionQ
  <2> QED BY <1>6, <2>1, <2>2, <2>3, SameLists, DriftLooksUp DEF ThreadsMove
<1>14. Hands'
  <2>1. TypeOK'
    <3>1. mPendingCount' \in Nat
      BY <1>0, <1>5 DEF TypeOK
    <3> QED BY <1>0, <1>6, <1>8, <1>9, <1>10, <1>11, <1>12, <3>1 DEF TypeOK, ThreadsMove, Drifts
  <2>2. \A a \in Actor : pc'[a] = pc[a] \/ (a \in Worker /\ {pc[a], pc'[a]} \subseteq Wandering)
    BY <1>6 DEF ThreadsMove, Drifts
  <2>3. pc'[0] = pc[0] /\ \A w \in Worker : pc'[w] \notin {"clear", "done"}
    BY <1>0, <2>2, ActorParts DEF Hands, Wandering
  <2>4. \A a \in Actor : /\ cur'[a] \in Rec <=> pc'[a] \in {"lookup", "deliver"}
                         /\ pc'[a] # "deliver" => cbs'[a] = {}
    BY <1>0, <2>2 DEF Hands, Wandering
  <2> QED BY <1>0, <1>8, <2>1, <2>3, <2>4 DEF Hands
<1>15. Lists'
  <2>1. pc'[0] = pc[0]
    BY <1>6, ActorParts DEF ThreadsMove, Drifts
  <2> QED BY <1>0, <1>11, <1>12, <2>1 DEF Lists
<1>16. Places'
  <2>1. ASSUME NEW i \in Host, mDB'[i] # NoRec PROVE rec'[mDB'[i]].host = i
    <3>1. CASE i = h
      BY <1>0, <1>1, <1>4, <1>10, <3>1 DEF TypeOK
    <3>2. CASE i # h
      <4>1. mDB'[i] = mDB[i] /\ mDB[i] # x /\ mDB[i] \in Rec
        BY <1>0, <1>1, <2>1, <3>2 DEF TypeOK
      <4> QED BY <1>0, <1>10, <4>1, Constants DEF Places
    <3> QED BY <3>1, <3>2
  <2>2. ASSUME NEW z \in Rec
        PROVE  /\ \A p \in Priority : z \in ToSet(queue'[p]) => rec'[z].flags = p /\ rec'[z].onQueue
               /\ rec'[z].resolving <=> Waits(z)' \/ \E w \in Worker : LooksUp(w, z)'
               /\ rec'[z].resolving => z \notin ToSet(mEvictionQ') /\ (~mShutdown' => Known(z)')
               /\ z \in ToSet(mEvictionQ') => Known(z)'
               /\ rec'[z].usingAny => \E w \in Worker : LooksUp(w, z)'
    <3>1. CASE z = x
      BY <1>1, <1>2, <1>4, <1>9, <1>10, <1>11, <1>12, <1>13, <3>1
    <3>2. CASE z # x
      <4>1. rec'[z] = rec[z] /\ \A p \in Priority : z \in ToSet(queue'[p]) <=> z \in ToSet(queue[p])
        BY <1>4, <1>10, <1>11, <3>2
      <4> QED BY <1>0, <1>9, <1>12, <1>13, <3>2, <4>1 DEF Places
    <3> QED BY <3>1, <3>2
  <2>3. ASSUME NEW z \in Rec, NEW w \in Worker, LooksUp(w, z)'
        PROVE  ~Waits(z)' /\ ~rec'[z].onQueue /\ \A v \in Worker : LooksUp(v, z)' => v = w
    <3>1. LooksUp(w, z) /\ z # x
      BY <1>2, <1>13, <2>3
    <3> QED BY <1>0, <1>10, <1>13, <3>1 DEF Places
  <2> QED BY <2>1, <2>2, <2>3 DEF Places
<1>17. References'
  <2> SUFFICES ASSUME NEW z \in Rec PROVE Counted(z)'
    BY DEF References
  <2>1. /\ Counted(z) /\ Cardinality(Users(z)) \in Nat /\ Cardinality(Holders(z)) \in Nat
        /\ Cardinality(Users(z)') = Cardinality(Users(z))
    BY <1>0, <1>13, FiniteUsers DEF References
  <2>2. CASE z = x
    <3>1. One(z = y) = One(y = x) /\ One(y = x) \in {0, 1}
      BY <2>2 DEF One
    <3>2. g.refc = 1 + One(Kept(x)) + Cardinality(Users(x)) + Cardinality(Holders(x)) + One(y = x)
      BY <1>1, <1>2, <2>1, <2>2, <3>1 DEF One
    <3>3. e.refc = 1 + 1 + Cardinality(Users(x)) + Cardinality(Holders(x)) + One(y = x)
      BY <1>4, <1>13, <2>1, <2>2, <3>1, <3>2 DEF One
    <3>4. Known(z)' /\ Waits(z)' /\ ~Kept(z)'
      BY <1>9, <1>13, <2>2
    <3>5. Cardinality(Holders(z)') = Cardinality(Holders(z)) + One(y = x)
      BY <1>8, <3>1
    <3> QED BY <1>10, <2>1, <2>2, <3>1, <3>3, <3>4, <3>5 DEF Counted, One
  <2>3. CASE z # x
    <3>1. One(z = y) = 0
      BY <1>7, <2>3, Constants DEF One, IssuedAs
    <3> QED BY <1>8, <1>9, <1>10, <1>13, <2>1, <2>3, <3>1 DEF Counted, One
  <2> QED BY <2>2, <2>3
<1>18. Callbacks'
  <2>1. \A t \in Request, z \in Rec : Listed(t, z)' <=> Listed(t, z) \/ (z = x /\ t = r /\ s = "pending")
    <3> SUFFICES ASSUME NEW t \in Request, NEW z \in Rec
                 PROVE  Listed(t, z)' <=> Listed(t, z) \/ (z = x /\ t = r /\ s = "pending")
      OBVIOUS
    <3>1. CASE z # x
      BY <1>10, <3>1 DEF Listed
    <3>2. CASE z = x
      BY <1>3, <1>4, <1>10, <3>2 DEF Listed, IssuedAs
    <3> QED BY <3>1, <3>2
  <2>2. \A t \in Request, a \in Actor : Called(t, a)' <=> Called(t, a)
    BY SameLists
  <2>3. \A t \in Request : req'[t].at = "pending" <=> req[t].at = "pending" \/ (t = r /\ s = "pending")
    BY <1>8
  <2>4. \A z \in Rec : rec[z].resolving => rec'[z].resolving
    BY <1>1, <1>10
  <2>5. rec'[x].resolving
    BY <1>4, <1>10
  <2> SUFFICES ASSUME NEW t \in Request
               PROVE  /\ req'[t].at = "pending" => \/ \E z \in Rec : Listed(t, z)'
                                                   \/ \E a \in Actor : Called(t, a)'
                      /\ \A z \in Rec : Listed(t, z)' =>
                           /\ rec'[z].resolving /\ req'[t].at = "pending"
                           /\ \A v \in Rec : Listed(t, v)' => z = v
                           /\ \A a \in Actor : ~Called(t, a)'
                      /\ \A a \in Actor : Called(t, a)' =>
                           req'[t].at = "pending" /\ \A b \in Actor : Called(t, b)' => a = b
    BY DEF Callbacks
  <2>6. CASE t = r
    BY <1>1, <1>8, <2>1, <2>2, <2>3, <2>5, <2>6
  <2>7. CASE t # r
    BY <1>0, <2>1, <2>2, <2>3, <2>4, <2>7 DEF Callbacks
  <2> QED BY <2>6, <2>7
<1>19. Counters'
  <2>1. Queued' = Queued \cup {x} /\ x \notin Queued
    <3>1. /\ \A z : z \in Queued <=> \E p \in Priority : z \in ToSet(queue[p])
          /\ \A z : z \in Queued' <=> \E p \in Priority : z \in ToSet(queue'[p])
      BY DEF Queued
    <3>2. \A z : \A p \in Priority : z \in ToSet(queue'[p]) <=> z \in ToSet(queue[p]) \/ (p = g.flags /\ z = x)
      BY <1>11
    <3> QED BY <1>4, <1>11, <3>1, <3>2
  <2>2. Cardinality(Queued') = Cardinality(Queued) + 1
    BY <1>0, <2>1, FiniteCounts, FS_AddElement
  <2>3. Busy' = Busy
    BY <1>1, <1>4, <1>10 DEF Busy
  <2> QED BY <1>0, <1>5, <1>6, <1>12, <2>2, <2>3 DEF Counters, ThreadsMove
<1> QED BY <1>14, <1>15, <1>16, <1>17, <1>18, <1>19 DEF Resolving

LEMMA UseFailureResolving ==
  ASSUME Resolving, NEW h \in Host, NEW b \in BOOLEAN, UseFailure(h, b)
  PROVE  Resolving'
<1> DEFINE x == Entry(h)
           f == Record(h)
           g == [f EXCEPT !.refc = f.refc + 1]
<1>1. /\ Asks /\ ~mShutdown /\ Room(h) /\ ~f.resolving /\ HasResult(f) /\ Answer("handed", x, FALSE)
      /\ UNCHANGED <<mDB, mNumIdleThreads, mActiveAnyThreadCount, locals, closing>>
  BY DEF UseFailure, Usable
<1>2. PICK o : IssueLookup(x, g, o)
  BY DEF UseFailure
<1>3. EntryFacts(h, x, f)
  BY <1>1, EntryIs
<1> HIDE DEF x, f
<1>4. /\ f \in nsHostRecord /\ f.host = h /\ mDB[h] = x /\ x \in Rec /\ f.refc \in Nat
  BY <1>1, <1>3 DEF EntryFacts, nsHostRecord
<1>5. /\ g \in nsHostRecord /\ g.host = h /\ g.usingAny = f.usingAny /\ g.refc = f.refc + 1
      /\ g.callbacks = f.callbacks
  <2>1. f.refc + 1 \in Nat
    BY <1>4
  <2>2. g \in nsHostRecord
    BY <1>4, <2>1, Updates
  <2>3. g.host = f.host /\ g.usingAny = f.usingAny /\ g.refc = f.refc + 1 /\ g.callbacks = f.callbacks
    BY <1>4 DEF nsHostRecord
  <2> QED BY <1>4, <2>2, <2>3
<1>6. mDB' = [mDB EXCEPT ![h] = x]
  BY <1>1, <1>4 DEF Resolving, Hands, TypeOK
<1> HIDE DEF g
<1>7. PICK y : y = x
  OBVIOUS
<1>8. g.refc = f.refc + One(y = x) /\ Answer("handed", y, FALSE) /\ IssuedAs("handed", y, g, x, f)
  BY <1>1, <1>5, <1>7 DEF One, IssuedAs
<1> QED BY <1>1, <1>2, <1>3, <1>5, <1>6, <1>8, IssueKeeps

LEMMA NewLookupResolving ==
  ASSUME Resolving, NEW h \in Host, NEW p \in Priority, NEW b \in BOOLEAN, NewLookup(h, p, b)
  PROVE  Resolving'
<1> DEFINE x == Entry(h)
           f == Record(h)
<1>1. /\ Asks /\ ~mShutdown /\ Room(h) /\ ~f.resolving /\ mDB' = [mDB EXCEPT ![h] = x]
      /\ UNCHANGED <<mNumIdleThreads, mActiveAnyThreadCount, locals, closing>>
  BY DEF NewLookup, MustLookUp
<1>2. PICK o : /\ IssueLookup(x, [f EXCEPT !.flags = p, !.callbacks = IF o.ok THEN @ \cup {nReq + 1} ELSE @], o)
               /\ Answer(IF o.ok THEN "pending" ELSE "refused", NoRec, FALSE)
  BY DEF NewLookup
<1>3. EntryFacts(h, x, f)
  BY <1>1, EntryIs
<1> HIDE DEF x, f
<1> DEFINE c == IF o.ok THEN f.callbacks \cup {nReq + 1} ELSE f.callbacks
           g == [f EXCEPT !.flags = p, !.callbacks = c]
           s == IF o.ok THEN "pending" ELSE "refused"
<1>4. f \in nsHostRecord /\ f.host = h /\ x \in Rec /\ f.refc \in Nat
  BY <1>3 DEF EntryFacts, nsHostRecord
<1>5. /\ c \in SUBSET Request
      /\ c = IF o.ok THEN {nReq + 1} ELSE {}
  <2>1. f.callbacks = {}
    <3>1. Callbacks /\ TypeOK /\ f.callbacks = rec[x].callbacks /\ ~rec[x].resolving
      BY <1>1, <1>3 DEF EntryFacts, Resolving, Hands
    <3>2. \A t \in Request : ~Listed(t, x)
      BY <1>4, <3>1 DEF Callbacks
    <3>3. rec[x].callbacks \subseteq Request
      BY <1>4, <3>1 DEF TypeOK, nsHostRecord
    <3> QED BY <1>4, <3>1, <3>2, <3>3 DEF Listed
  <2> QED BY <1>1, <2>1, Constants DEF Asks, Request, Resolving, Hands, TypeOK
<1>6. IssueLookup(x, g, o) /\ Answer(s, NoRec, FALSE)
  BY <1>2
<1> HIDE DEF c
<1>7. /\ g \in nsHostRecord /\ g.host = h /\ g.usingAny = f.usingAny /\ g.refc = f.refc /\ g.callbacks = c
  <2>1. [f EXCEPT !.flags = p] \in nsHostRecord
    BY <1>4, Updates
  <2>2. g = [[f EXCEPT !.flags = p] EXCEPT !.callbacks = c]
    OBVIOUS
  <2>3. g \in nsHostRecord
    BY <1>5, <2>1, <2>2, Updates
  <2> QED BY <1>4, <2>3 DEF nsHostRecord
<1> HIDE DEF g
<1>8. IssuedAs(s, NoRec, g, x, f)
  BY <1>5, <1>7 DEF IssuedAs
<1> HIDE DEF s
<1>9. g.refc = f.refc + One(NoRec = x)
  BY <1>4, <1>7, Constants DEF One
<1> QED BY <1>1, <1>3, <1>6, <1>7, <1>8, <1>9, IssueKeeps

(* A record that is moved was waiting in the queue of its priority. *)
LEMMA MoveQueues ==
  ASSUME Resolving, ~mShutdown, NEW x \in Rec, rec[x].resolving, rec[x].onQueue, NEW p \in Priority,
         p # rec[x].flags,
         queue' = [queue EXCEPT ![rec[x].flags] = Without(@, x), ![p] = Append(@, x)]
  PROVE  /\ queue' \in [Priority -> Seq(Rec)] /\ \A q \in Priority : Distinct(queue'[q])
         /\ \A z \in Rec \ {x}, q \in Priority : z \in ToSet(queue'[q]) <=> z \in ToSet(queue[q])
         /\ \A q \in Priority : x \in ToSet(queue'[q]) <=> q = p
         /\ x \in ToSet(queue[rec[x].flags])
<1> DEFINE c == rec[x].flags
<1>0. TypeOK /\ Lists /\ Places
  BY DEF Resolving, Hands
<1>1. c \in Priority /\ x \in ToSet(queue[c]) /\ \A q \in Priority \ {c} : x \notin ToSet(queue[q])
  <2>1. Waits(x) /\ ToSet(aborted) = {}
    BY <1>0, EmptyList DEF Places, Lists
  <2> QED BY <1>0, <2>1 DEF Places, Waits, TypeOK, nsHostRecord
<1>2. /\ queue'[c] = Without(queue[c], x) /\ queue'[p] = Append(queue[p], x)
      /\ \A q \in Priority \ {c, p} : queue'[q] = queue[q]
  BY <1>0, <1>1 DEF TypeOK
<1> HIDE DEF c
<1>3. /\ queue[c] \in Seq(Rec) /\ queue[p] \in Seq(Rec) /\ Distinct(queue[c]) /\ Distinct(queue[p])
      /\ x \notin ToSet(queue[p]) /\ c # p
  BY <1>0, <1>1 DEF TypeOK, Lists, c
<1>4. /\ queue'[c] \in Seq(Rec) /\ Distinct(queue'[c]) /\ ToSet(queue'[c]) = ToSet(queue[c]) \ {x}
  <2>1. LET s == Without(queue[c], x)
        IN  s \in Seq(Rec) /\ Distinct(s) /\ ToSet(s) = ToSet(queue[c]) \ {x}
    BY <1>3, WithoutSet
  <2> QED BY <1>2, <2>1
<1>5. /\ queue'[p] \in Seq(Rec) /\ Distinct(queue'[p]) /\ ToSet(queue'[p]) = ToSet(queue[p]) \cup {x}
  <2>1. LET s == Append(queue[p], x)
        IN  s \in Seq(Rec) /\ Distinct(s) /\ ToSet(s) = ToSet(queue[p]) \cup {x}
    BY <1>3, AppendSet
  <2> QED BY <1>2, <2>1
<1>6. \A q \in Priority : queue'[q] \in Seq(Rec) /\ Distinct(queue'[q])
  BY <1>0, <1>2, <1>4, <1>5 DEF TypeOK, Lists
<1>7. queue' \in [Priority -> Seq(Rec)]
  <2>1. queue' = [q \in Priority |-> queue'[q]]
    BY <1>0 DEF TypeOK
  <2> QED BY <1>6, <2>1
<1>8. \A z \in Rec \ {x}, q \in Priority : z \in ToSet(queue'[q]) <=> z \in ToSet(queue[q])
  BY <1>2, <1>4, <1>5
<1>9. \A q \in Priority : x \in ToSet(queue'[q]) <=> q = p
  BY <1>1, <1>2, <1>3, <1>4, <1>5
<1> QED BY <1>1, <1>6, <1>7, <1>8, <1>9 DEF c

(* The lookup that somebody joins goes on, perhaps in a better queue. *)
Joined(x, f, g, p) == /\ g.host = f.host /\ g.refc = f.refc /\ g.resolving = f.resolving
                      /\ g.onQueue = f.onQueue /\ g.usingAny = f.usingAny
                      /\ g.callbacks = f.callbacks \cup {nReq + 1}
                      /\ \/ g.flags = f.flags /\ queue' = queue
                         \/ /\ f.onQueue /\ p # f.flags /\ g.flags = p
                            /\ queue' = [queue EXCEPT ![f.flags] = Without(@, x), ![p] = Append(@, x)]

LEMMA JoinShape ==
  ASSUME Resolving, NEW h \in Host, NEW p \in Priority, NEW b \in BOOLEAN, JoinLookup(h, p, b)
  PROVE  /\ mDB[h] \in Rec /\ rec[mDB[h]].resolving /\ Asks /\ ~mShutdown
         /\ \E g \in nsHostRecord : /\ rec' = [rec EXCEPT ![mDB[h]] = g]
                                    /\ Joined(mDB[h], rec[mDB[h]], g, p)
         /\ ThreadsMove /\ noThread' \in BOOLEAN
         /\ Answer("pending", NoRec, FALSE)
         /\ UNCHANGED <<mDB, mEvictionQ, mEvictionQSize, mPendingCount, mNumIdleThreads, mActiveAnyThreadCount, locals, closing>>
<1> DEFINE x == mDB[h]
           f == rec[x]
           c == f.callbacks \cup {nReq + 1}
           e == [f EXCEPT !.callbacks = c]
           moves == Moves(e, p)
           g == IF moves THEN [e EXCEPT !.flags = p] ELSE e
<1>0. TypeOK /\ nReq \in Nat
  BY DEF Resolving, Hands, TypeOK
<1>1. /\ Asks /\ ~mShutdown /\ Room(h) /\ Record(h).resolving
      /\ Answer("pending", NoRec, FALSE)
      /\ UNCHANGED <<mDB, mEvictionQ, mEvictionQSize, mPendingCount, mNumIdleThreads, mActiveAnyThreadCount, locals, closing>>
  <2>1. [Record(h) EXCEPT !.callbacks = @ \cup {nReq + 1}].resolving = Record(h).resolving
    <3>1. Record(h) \in nsHostRecord
      BY EntryIs DEF JoinLookup, MustLookUp, EntryFacts
    <3> QED BY <3>1 DEF nsHostRecord
  <2> QED BY <2>1 DEF JoinLookup, MustLookUp
<1>2. x \in Rec /\ f.resolving /\ Entry(h) = x /\ Record(h) = f /\ f \in nsHostRecord
  <2>1. Entry(h) = x /\ x \in Rec /\ Record(h).resolving
    BY <1>1, EntryIs DEF EntryFacts
  <2> QED BY <1>0, <2>1, Constants DEF Record, TypeOK
<1>3. c \in SUBSET Request
  <2>1. f.callbacks \in SUBSET Request
    BY <1>2 DEF nsHostRecord
  <2>2. nReq + 1 \in Request
    BY <1>0, <1>1, Constants DEF Asks, Request
  <2> QED BY <2>1, <2>2
<1>4. /\ rec' = [rec EXCEPT ![x] = g]
      /\ queue' = IF moves THEN [queue EXCEPT ![e.flags] = Without(@, x), ![p] = Append(@, x)] ELSE queue
      /\ \E o \in JoinThreads(moves, p) :
           pc' = o.pc /\ mThreadCount' = o.threads /\ noThread' = (noThread \/ ~o.ok)
  <2> HIDE DEF x
  <2>1. rec[x] = Record(h) /\ Entry(h) = x
    BY <1>2
  <2>2. e = [Record(h) EXCEPT !.callbacks = @ \cup {nReq + 1}]
    BY <2>1
  <2> HIDE DEF f, c, e
  <2>3. PICK d : d = [Record(h) EXCEPT !.callbacks = @ \cup {nReq + 1}]
    OBVIOUS
  <2>4. /\ rec' = [rec EXCEPT ![Entry(h)] = IF Moves(d, p) THEN [d EXCEPT !.flags = p] ELSE d]
        /\ queue' = IF Moves(d, p) THEN [queue EXCEPT ![d.flags] = Without(@, Entry(h)), ![p] = Append(@, Entry(h))]
                                   ELSE queue
        /\ \E o \in JoinThreads(Moves(d, p), p) :
             pc' = o.pc /\ mThreadCount' = o.threads /\ noThread' = (noThread \/ ~o.ok)
    BY <2>3 DEF JoinLookup
  <2> QED BY <2>1, <2>2, <2>3, <2>4
<1> HIDE DEF x, f, c
<1>5. /\ e \in nsHostRecord /\ e.host = f.host /\ e.refc = f.refc /\ e.resolving = f.resolving
      /\ e.onQueue = f.onQueue /\ e.usingAny = f.usingAny /\ e.flags = f.flags /\ e.callbacks = c
  <2>1. e \in nsHostRecord
    BY <1>2, <1>3, Updates
  <2>2. /\ e.host = f.host /\ e.refc = f.refc /\ e.resolving = f.resolving /\ e.onQueue = f.onQueue
    BY <1>2 DEF nsHostRecord
  <2>3. e.usingAny = f.usingAny /\ e.flags = f.flags /\ e.callbacks = c
    BY <1>2 DEF nsHostRecord
  <2> QED BY <2>1, <2>2, <2>3
<1> HIDE DEF e
<1>6. g \in nsHostRecord /\ Joined(x, f, g, p)
  <2>1. CASE moves
    <3>1. g = [e EXCEPT !.flags = p] /\ f.onQueue /\ p # f.flags
      BY <1>5, <2>1 DEF Moves, Better
    <3>2. g \in nsHostRecord
      BY <1>5, <3>1, Updates
    <3>3. /\ g.host = e.host /\ g.refc = e.refc /\ g.resolving = e.resolving /\ g.onQueue = e.onQueue
      BY <1>5, <3>1 DEF nsHostRecord
    <3>4. g.usingAny = e.usingAny /\ g.flags = p /\ g.callbacks = e.callbacks
      BY <1>5, <3>1 DEF nsHostRecord
    <3>5. queue' = [queue EXCEPT ![f.flags] = Without(@, x), ![p] = Append(@, x)]
      BY <1>4, <1>5, <2>1
    <3> HIDE DEF g, moves
    <3> QED BY <1>5, <3>1, <3>2, <3>3, <3>4, <3>5 DEF Joined, c
  <2>2. CASE ~moves
    BY <1>4, <1>5, <2>2 DEF Joined, c
  <2> QED BY <2>1, <2>2
<1>7. ThreadsMove /\ noThread' \in BOOLEAN
  <2> HIDE DEF moves, g
  <2>1. noThread' \in BOOLEAN
    BY <1>4
  <2>2. CASE moves /\ p = "high"
    <3>1. JoinThreads(moves, p) = ConditionallyCreateThread(p)
      BY <2>2 DEF JoinThreads
    <3> QED BY <1>4, <2>1, <3>1, CreateMoves
  <2>3. CASE moves /\ p = "medium"
    <3>1. JoinThreads(moves, p) = {Outcome(m, mThreadCount, TRUE) : m \in Notify}
      BY <2>3 DEF JoinThreads
    <3>2. pc' \in Notify /\ mThreadCount' = mThreadCount
      BY <1>4, <3>1 DEF Outcome
    <3> QED BY <2>1, <3>2, NotifyMoves
  <2>4. CASE ~(moves /\ p = "high") /\ ~(moves /\ p = "medium")
    <3>1. JoinThreads(moves, p) = {Outcome(pc, mThreadCount, TRUE)}
      BY <2>4 DEF JoinThreads
    <3>2. pc' = pc /\ mThreadCount' = mThreadCount
      BY <1>4, <3>1 DEF Outcome
    <3> QED BY <2>1, <3>2, StayMoves
  <2> QED BY <2>2, <2>3, <2>4
<1> HIDE DEF g, moves
<1>8. \E d \in nsHostRecord : rec' = [rec EXCEPT ![x] = d] /\ Joined(x, f, d, p)
  BY <1>4, <1>6
<1> QED BY <1>1, <1>2, <1>7, <1>8 DEF x, f

LEMMA JoinLookupResolving ==
  ASSUME Resolving, NEW h \in Host, NEW p \in Priority, NEW b \in BOOLEAN, JoinLookup(h, p, b)
  PROVE  Resolving'
<1> DEFINE x == mDB[h]
           r == nReq + 1
<1> USE DEF locals, closing
<1>0. Hands /\ TypeOK /\ Lists /\ Places /\ References /\ Callbacks /\ Counters
  BY DEF Resolving, Hands
<1>1. /\ x \in Rec /\ rec[x].resolving /\ Asks /\ ~mShutdown
      /\ ThreadsMove /\ noThread' \in BOOLEAN
      /\ Answer("pending", NoRec, FALSE)
      /\ UNCHANGED <<mDB, mEvictionQ, mEvictionQSize, mPendingCount, mNumIdleThreads, mActiveAnyThreadCount, locals, closing>>
  BY JoinShape
<1>2. PICK g \in nsHostRecord : rec' = [rec EXCEPT ![x] = g] /\ Joined(x, rec[x], g, p)
  BY JoinShape
<1>3. Known(x)
  BY <1>1 DEF Known
<1> HIDE DEF x
<1>4. /\ rec' \in [Rec -> nsHostRecord] /\ rec'[x] = g /\ \A z \in Rec \ {x} : rec'[z] = rec[z]
  BY <1>0, <1>1, <1>2 DEF TypeOK
<1>5. /\ g.host = rec[x].host /\ g.refc = rec[x].refc /\ g.resolving = rec[x].resolving
      /\ g.onQueue = rec[x].onQueue /\ g.usingAny = rec[x].usingAny
      /\ g.callbacks = rec[x].callbacks \cup {r}
  BY <1>2 DEF Joined
<1>6. /\ queue' \in [Priority -> Seq(Rec)] /\ \A q \in Priority : Distinct(queue'[q])
      /\ \A z \in Rec : (\E q \in Priority : z \in ToSet(queue'[q])) <=> \E q \in Priority : z \in ToSet(queue[q])
      /\ \A z \in Rec \ {x}, q \in Priority : z \in ToSet(queue'[q]) <=> z \in ToSet(queue[q])
      /\ \A q \in Priority : x \in ToSet(queue'[q]) => g.flags = q /\ g.onQueue
  <2>1. CASE g.flags = rec[x].flags /\ queue' = queue
    BY <1>0, <1>1, <1>5, <2>1 DEF TypeOK, Lists, Places
  <2>2. CASE /\ rec[x].onQueue /\ p # rec[x].flags /\ g.flags = p
             /\ queue' = [queue EXCEPT ![rec[x].flags] = Without(@, x), ![p] = Append(@, x)]
    <3>1. /\ queue' \in [Priority -> Seq(Rec)] /\ \A q \in Priority : Distinct(queue'[q])
          /\ \A z \in Rec \ {x}, q \in Priority : z \in ToSet(queue'[q]) <=> z \in ToSet(queue[q])
          /\ \A q \in Priority : x \in ToSet(queue'[q]) <=> q = p
          /\ x \in ToSet(queue[rec[x].flags])
      BY <1>1, <2>2, MoveQueues
    <3>2. rec[x].flags \in Priority
      BY <1>0, <1>1 DEF TypeOK, nsHostRecord
    <3>3. \A z \in Rec : (\E q \in Priority : z \in ToSet(queue'[q])) <=> \E q \in Priority : z \in ToSet(queue[q])
      BY <3>1, <3>2
    <3>4. \A q \in Priority : x \in ToSet(queue'[q]) => g.flags = q /\ g.onQueue
      BY <1>5, <2>2, <3>1
    <3> QED BY <3>1, <3>3, <3>4
  <2> QED BY <1>2, <2>1, <2>2 DEF Joined
<1>7. /\ r \in Request /\ nReq' \in Nat /\ nReq' <= MaxRequests /\ req' \in [Request -> Answers]
      /\ \A t \in Request \ {r} : req'[t] = req[t]
      /\ req[r].at = "unused" /\ req'[r].at = "pending"
      /\ \A t \in Request : /\ req'[t].rec \in Rec <=> req'[t].at = "handed"
                            /\ req'[t].calls = One(req'[t].at = "called")
                            /\ t > nReq' => req'[t].at = "unused"
      /\ \A z \in Rec : Cardinality(Holders(z)') = Cardinality(Holders(z)) + One(z = NoRec)
      /\ \A z \in Rec : ~Listed(r, z)
      /\ \A a \in Actor : ~Called(r, a)
  BY <1>1, AnswerShape, Constants
<1>8. /\ \A z \in Rec : (Waits(z)' <=> Waits(z)) /\ (Kept(z)' <=> Kept(z)) /\ (Known(z)' <=> Known(z))
      /\ \A z : Users(z)' = Users(z)
      /\ \A w, z : LooksUp(w, z)' <=> LooksUp(w, z)
  <2>1. \A z \in Rec : Waits(z)' <=> Waits(z)
    BY <1>1, <1>6 DEF Waits
  <2> QED BY <1>1, <2>1, SameLists, DriftLooksUp DEF ThreadsMove
<1>9. \A a \in Actor : pc'[a] = pc[a] \/ (a \in Worker /\ {pc[a], pc'[a]} \subseteq Wandering)
  BY <1>1 DEF ThreadsMove, Drifts
<1>10. Hands'
  <2>1. TypeOK'
    BY <1>0, <1>1, <1>4, <1>6, <1>7 DEF TypeOK, ThreadsMove, Drifts
  <2>2. pc'[0] = pc[0] /\ \A w \in Worker : pc'[w] \notin {"clear", "done"}
    BY <1>0, <1>9, ActorParts DEF Hands, Wandering
  <2>3. \A a \in Actor : /\ cur'[a] \in Rec <=> pc'[a] \in {"lookup", "deliver"}
                         /\ pc'[a] # "deliver" => cbs'[a] = {}
    BY <1>0, <1>1, <1>9 DEF Hands, Wandering
  <2> QED BY <1>0, <1>7, <2>1, <2>2, <2>3 DEF Hands
<1>11. Lists'
  <2>1. pc'[0] = pc[0]
    BY <1>9, ActorParts
  <2> QED BY <1>0, <1>1, <1>6, <2>1 DEF Lists
<1>12. Places'
  <2>1. ASSUME NEW i \in Host, mDB'[i] # NoRec PROVE rec'[mDB'[i]].host = i
    <3>1. mDB'[i] = mDB[i] /\ mDB[i] \in Rec
      BY <1>0, <1>1, <2>1 DEF TypeOK
    <3> QED BY <1>0, <1>4, <1>5, <2>1, <3>1 DEF Places
  <2>2. ASSUME NEW z \in Rec
        PROVE  /\ \A q \in Priority : z \in ToSet(queue'[q]) => rec'[z].flags = q /\ rec'[z].onQueue
               /\ rec'[z].resolving = rec[z].resolving /\ rec'[z].onQueue = rec[z].onQueue
               /\ rec'[z].usingAny = rec[z].usingAny
    <3>1. CASE z = x
      BY <1>4, <1>5, <1>6, <3>1
    <3>2. CASE z # x
      BY <1>0, <1>4, <1>6, <3>2 DEF Places
    <3> QED BY <3>1, <3>2
  <2> QED BY <1>0, <1>1, <1>8, <2>1, <2>2 DEF Places
<1>13. References'
  <2> SUFFICES ASSUME NEW z \in Rec PROVE Counted(z)'
    BY DEF References
  <2>1. /\ Counted(z) /\ Cardinality(Holders(z)) \in Nat /\ Cardinality(Users(z)) \in Nat
    BY <1>0, FiniteUsers DEF References
  <2>2. Cardinality(Holders(z)') = Cardinality(Holders(z))
    BY <1>7, <2>1, Constants DEF One
  <2>3. CASE z = x
    <3>1. rec[z].refc # 0 /\ rec'[z].refc = rec[z].refc
      BY <1>3, <1>4, <1>5, <2>1, <2>3 DEF Counted, One
    <3> QED BY <1>8, <2>1, <2>2, <3>1 DEF Counted, One
  <2>4. CASE z # x
    BY <1>4, <1>8, <2>1, <2>2, <2>4 DEF Counted, One
  <2> QED BY <2>3, <2>4
<1>14. Callbacks'
  <2>1. \A t \in Request, z \in Rec : Listed(t, z)' <=> Listed(t, z) \/ (z = x /\ t = r)
    BY <1>1, <1>4, <1>5 DEF Listed
  <2>2. \A t \in Request, a \in Actor : Called(t, a)' <=> Called(t, a)
    BY <1>1, SameLists
  <2>3. \A t \in Request : req'[t].at = "pending" <=> req[t].at = "pending" \/ t = r
    BY <1>7
  <2>4. \A z \in Rec : rec'[z].resolving = rec[z].resolving
    BY <1>4, <1>5
  <2> SUFFICES ASSUME NEW t \in Request
               PROVE  /\ req'[t].at = "pending" => \/ \E z \in Rec : Listed(t, z)'
                                                   \/ \E a \in Actor : Called(t, a)'
                      /\ \A z \in Rec : Listed(t, z)' =>
                           /\ rec'[z].resolving /\ req'[t].at = "pending"
                           /\ \A v \in Rec : Listed(t, v)' => z = v
                           /\ \A a \in Actor : ~Called(t, a)'
                      /\ \A a \in Actor : Called(t, a)' =>
                           req'[t].at = "pending" /\ \A d \in Actor : Called(t, d)' => a = d
    BY DEF Callbacks
  <2>5. CASE t = r
    BY <1>1, <1>7, <2>1, <2>2, <2>3, <2>4, <2>5
  <2>6. CASE t # r
    BY <1>0, <2>1, <2>2, <2>3, <2>4, <2>6 DEF Callbacks
  <2> QED BY <2>5, <2>6
<1>15. Counters'
  <2>1. Queued' = Queued
    <3>1. /\ \A z : z \in Queued <=> \E q \in Priority : z \in ToSet(queue[q])
          /\ \A z : z \in Queued' <=> \E q \in Priority : z \in ToSet(queue'[q])
      BY DEF Queued
    <3>2. \A q \in Priority : ToSet(queue[q]) \subseteq Rec /\ ToSet(queue'[q]) \subseteq Rec
      BY <1>0, <1>6 DEF TypeOK, ToSet
    <3> QED BY <1>6, <3>1, <3>2
  <2>2. Busy' = Busy
    BY <1>4, <1>5 DEF Busy
  <2> QED BY <1>0, <1>1, <2>1, <2>2 DEF Counters, ThreadsMove
<1> QED BY <1>10, <1>11, <1>12, <1>13, <1>14, <1>15 DEF Resolving
--------------------------------------------------------------------------------
(* The workers *)

LEMMA BestIs ==
  ASSUME NEW S \in SUBSET Priority, S # {}
  PROVE  Best(S) \in S
<1>1. \E p \in S : \A q \in S : p = q \/ Better(p, q)
  <2>1. CASE "high" \in S
    BY <2>1 DEF Better, Priority
  <2>2. CASE "high" \notin S /\ "medium" \in S
    BY <2>2 DEF Better, Priority
  <2>3. CASE "high" \notin S /\ "medium" \notin S
    BY <2>3 DEF Priority
  <2> QED BY <2>1, <2>2, <2>3
<1> QED BY <1>1 DEF Best

LEMMA DeQueueResolving ==
  ASSUME Resolving, NEW w \in Worker, DeQueue(w)
  PROVE  Resolving'
<1> DEFINE p == Best(Takeable)
           x == Head(queue[p])
           g == [rec[x] EXCEPT !.onQueue = FALSE, !.usingAny = (p # "high")]
<1> USE DEF closing, requests
<1>0. Hands /\ TypeOK /\ Lists /\ Places /\ References /\ Callbacks /\ Counters
  BY DEF Resolving, Hands
<1>1. /\ Looking(w) /\ ~mShutdown /\ Takeable # {}
      /\ queue' = [queue EXCEPT ![p] = Tail(@)]
      /\ mPendingCount' = mPendingCount - 1
      /\ rec' = [rec EXCEPT ![x] = g]
      /\ mActiveAnyThreadCount' = IF p = "high" THEN mActiveAnyThreadCount ELSE mActiveAnyThreadCount + 1
      /\ mNumIdleThreads' = IdleAfter(w)
      /\ pc' = [pc EXCEPT ![w] = "lookup"] /\ cur' = [cur EXCEPT ![w] = x]
      /\ UNCHANGED <<mDB, mEvictionQ, mEvictionQSize, mThreadCount, cbs, ok, closing, requests>>
  BY DEF DeQueue
<1>2. p \in Priority /\ queue[p] # <<>> /\ (p = "high" \/ mActiveAnyThreadCount < HighThreadThreshold)
  <2>1. p \in Takeable
    BY <1>1, BestIs DEF Takeable
  <2> QED BY <2>1 DEF Takeable
<1> HIDE DEF p
<1>3. /\ x \in Rec /\ x \in ToSet(queue[p]) /\ Tail(queue[p]) \in Seq(Rec) /\ Distinct(Tail(queue[p]))
      /\ ToSet(Tail(queue[p])) = ToSet(queue[p]) \ {x}
  <2>1. queue[p] \in Seq(Rec) /\ Distinct(queue[p])
    BY <1>0, <1>2 DEF TypeOK, Lists
  <2> QED BY <1>2, <2>1, TailSet
<1> HIDE DEF x
<1>4. /\ queue' \in [Priority -> Seq(Rec)] /\ \A q \in Priority : Distinct(queue'[q])
      /\ ToSet(queue'[p]) = ToSet(queue[p]) \ {x}
      /\ \A q \in Priority \ {p} : queue'[q] = queue[q]
      /\ \A q \in Priority \ {p} : x \notin ToSet(queue[q])
  <2>1. queue'[p] = Tail(queue[p]) /\ \A q \in Priority \ {p} : queue'[q] = queue[q]
    BY <1>0, <1>1, <1>2 DEF TypeOK
  <2>2. \A q \in Priority \ {p} : x \notin ToSet(queue[q])
    BY <1>0, <1>2, <1>3 DEF Places
  <2> QED BY <1>0, <1>1, <1>2, <1>3, <2>1, <2>2 DEF TypeOK, Lists
<1>5. /\ Waits(x) /\ rec[x].resolving /\ (\A v \in Worker : ~LooksUp(v, x)) /\ ~rec[x].usingAny
      /\ aborted = <<>> /\ ToSet(aborted) = {}
  BY <1>0, <1>1, <1>2, <1>3, EmptyList DEF Places, Lists, Waits
<1>6. /\ g \in nsHostRecord /\ g.host = rec[x].host /\ g.refc = rec[x].refc /\ g.resolving = rec[x].resolving
      /\ ~g.onQueue /\ g.usingAny = (p # "high") /\ g.flags = rec[x].flags /\ g.callbacks = rec[x].callbacks
  <2> DEFINE e == [rec[x] EXCEPT !.onQueue = FALSE]
  <2>1. rec[x] \in nsHostRecord
    BY <1>0, <1>3 DEF TypeOK
  <2>2. e \in nsHostRecord
    BY <2>1, Updates
  <2>3. g = [e EXCEPT !.usingAny = (p # "high")]
    OBVIOUS
  <2>4. g \in nsHostRecord
    <3> HIDE DEF e, g
    <3> QED BY <2>2, <2>3, Updates
  <2>5. g.host = rec[x].host /\ g.refc = rec[x].refc /\ g.resolving = rec[x].resolving /\ ~g.onQueue
    BY <2>1 DEF nsHostRecord
  <2>6. g.usingAny = (p # "high") /\ g.flags = rec[x].flags /\ g.callbacks = rec[x].callbacks
    BY <2>1 DEF nsHostRecord
  <2> QED BY <2>4, <2>5, <2>6
<1> HIDE DEF g
<1>7. rec' \in [Rec -> nsHostRecord] /\ rec'[x] = g /\ \A z \in Rec \ {x} : rec'[z] = rec[z]
  BY <1>0, <1>1, <1>3, <1>6 DEF TypeOK
<1>8. /\ pc' \in [Actor -> Points] /\ pc'[w] = "lookup" /\ (\A a \in Actor \ {w} : pc'[a] = pc[a])
      /\ cur' \in [Actor -> Rec \cup {NoRec}] /\ cur'[w] = x /\ (\A a \in Actor \ {w} : cur'[a] = cur[a])
      /\ pc[w] \in {"get", "woken", "late"} /\ w \in Actor /\ cur[w] \notin Rec
  <2>1. pc[w] \in {"get", "woken", "late"} /\ w \in Actor
    BY <1>1, ActorParts DEF Looking
  <2>2. cur[w] \notin Rec
    BY <1>0, <2>1 DEF Hands
  <2>3. /\ pc' \in [Actor -> Points] /\ pc'[w] = "lookup" /\ (\A a \in Actor \ {w} : pc'[a] = pc[a])
    BY <1>0, <1>1, <2>1 DEF TypeOK, Points
  <2>4. /\ cur' \in [Actor -> Rec \cup {NoRec}] /\ cur'[w] = x /\ (\A a \in Actor \ {w} : cur'[a] = cur[a])
    BY <1>0, <1>1, <1>3, <2>1 DEF TypeOK
  <2> QED BY <2>1, <2>2, <2>3, <2>4
<1>9. /\ \A z \in Rec : (Waits(z)' <=> Waits(z) /\ z # x) /\ (Kept(z)' <=> Kept(z)) /\ (Known(z)' <=> Known(z))
      /\ \A z : Holders(z)' = Holders(z)
      /\ \A v \in Worker, z \in Rec : LooksUp(v, z)' <=> LooksUp(v, z) \/ (v = w /\ z = x)
  <2>1. \A z \in Rec : Waits(z)' <=> Waits(z) /\ z # x
    BY <1>1, <1>2, <1>4, <1>5 DEF Waits
  <2>2. \A v \in Worker, z \in Rec : LooksUp(v, z)' <=> LooksUp(v, z) \/ (v = w /\ z = x)
    BY <1>8, ActorParts DEF LooksUp
  <2> QED BY <1>1, <2>1, <2>2, SameLists
<1>10. /\ Cardinality(Live') = Cardinality(Live) /\ mNumIdleThreads' = Cardinality(Resting')
       /\ mNumIdleThreads' \in Nat
  <2>1. /\ Cardinality(Live') = Cardinality(Live) - One(pc[w] # "none") + One("lookup" # "none")
        /\ Cardinality(Resting') = Cardinality(Resting) - One(pc[w] \in {"idle", "woken", "late"})
                                     + One("lookup" \in {"idle", "woken", "late"})
    BY <1>0, <1>1, PcCounts
  <2>2. IsFiniteSet(Live) /\ IsFiniteSet(Resting') /\ Cardinality(Live) \in Nat /\ Cardinality(Resting) \in Nat
    <3>1. Resting' \subseteq Worker
      BY DEF Resting
    <3> QED BY <3>1, FiniteCounts, FS_CardinalityType, Finite, FS_Subset
  <2>3. Cardinality(Resting') \in Nat
    BY <2>2, FS_CardinalityType
  <2>4. /\ Cardinality(Live') = Cardinality(Live)
        /\ Cardinality(Resting') = Cardinality(Resting) - (IF pc[w] = "get" THEN 0 ELSE 1)
    BY <1>8, <2>1, <2>2 DEF One
  <2> QED BY <1>0, <1>1, <2>2, <2>3, <2>4 DEF Counters, IdleAfter
<1>11. /\ Cardinality(Queued') = mPendingCount' /\ mPendingCount' \in Nat
  <2>1. Queued' = Queued \ {x} /\ x \in Queued
    <3>1. /\ \A z : z \in Queued <=> \E q \in Priority : z \in ToSet(queue[q])
          /\ \A z : z \in Queued' <=> \E q \in Priority : z \in ToSet(queue'[q])
      BY DEF Queued
    <3>2. \A z : \A q \in Priority : z \in ToSet(queue'[q]) <=> z \in ToSet(queue[q]) /\ z # x
      BY <1>4
    <3> QED BY <1>2, <1>3, <3>1, <3>2
  <2>2. IsFiniteSet(Queued) /\ IsFiniteSet(Queued') /\ Cardinality(Queued') = Cardinality(Queued) - 1
    BY <1>0, <2>1, FiniteCounts, FS_RemoveElement
  <2>3. Cardinality(Queued') \in Nat
    BY <2>2, FS_CardinalityType
  <2> QED BY <1>0, <1>1, <2>2, <2>3 DEF Counters
<1>12. /\ mActiveAnyThreadCount' = Cardinality(Busy') /\ mActiveAnyThreadCount' <= HighThreadThreshold
       /\ mActiveAnyThreadCount' \in Nat
  <2>1. x \notin Busy
    BY <1>5 DEF Busy
  <2>2. CASE p = "high"
    <3>1. Busy' = Busy
      BY <1>5, <1>6, <1>7, <2>2 DEF Busy
    <3> QED BY <1>0, <1>1, <2>2, <3>1 DEF Counters, TypeOK
  <2>3. CASE p # "high"
    <3>1. Busy' = Busy \cup {x}
      BY <1>3, <1>6, <1>7, <2>3 DEF Busy
    <3>2. Cardinality(Busy') = Cardinality(Busy) + 1
      BY <2>1, <3>1, FiniteCounts, FS_AddElement
    <3> QED BY <1>0, <1>1, <1>2, <2>3, <3>2, Constants DEF Counters, TypeOK
  <2> QED BY <2>2, <2>3
<1>13. Counters'
  BY <1>0, <1>1, <1>10, <1>11, <1>12 DEF Counters
<1>14. Hands'
  <2>1. TypeOK'
    BY <1>0, <1>1, <1>4, <1>7, <1>8, <1>10, <1>11, <1>12 DEF TypeOK
  <2>2. pc'[0] = pc[0] /\ \A v \in Worker : pc'[v] \notin {"clear", "done"}
    BY <1>0, <1>8, ActorParts DEF Hands
  <2>3. \A a \in Actor : /\ cur'[a] \in Rec <=> pc'[a] \in {"lookup", "deliver"}
                         /\ pc'[a] # "deliver" => cbs'[a] = {}
    BY <1>0, <1>1, <1>3, <1>8 DEF Hands
  <2> QED BY <1>0, <1>1, <2>1, <2>2, <2>3 DEF Hands
<1>15. Lists'
  <2>1. pc'[0] = pc[0]
    BY <1>8, ActorParts
  <2> QED BY <1>0, <1>1, <1>4, <2>1 DEF Lists
<1>16. Places'
  <2>1. ASSUME NEW i \in Host, mDB'[i] # NoRec PROVE rec'[mDB'[i]].host = i
    <3>1. mDB'[i] = mDB[i] /\ mDB[i] \in Rec
      BY <1>0, <1>1, <2>1 DEF TypeOK
    <3> QED BY <1>0, <1>6, <1>7, <2>1, <3>1 DEF Places
  <2>2. ASSUME NEW z \in Rec
        PROVE  /\ \A q \in Priority : z \in ToSet(queue'[q]) => rec'[z].flags = q /\ rec'[z].onQueue
               /\ rec'[z].resolving <=> Waits(z)' \/ \E v \in Worker : LooksUp(v, z)'
               /\ rec'[z].resolving => z \notin ToSet(mEvictionQ') /\ (~mShutdown' => Known(z)')
               /\ z \in ToSet(mEvictionQ') => Known(z)'
               /\ rec'[z].usingAny => \E v \in Worker : LooksUp(v, z)'
    <3>1. CASE z = x
      <4>1. \A q \in Priority : x \notin ToSet(queue'[q])
        BY <1>4
      <4>2. rec'[z].resolving /\ \E v \in Worker : LooksUp(v, z)'
        <5>1. rec'[z].resolving
          BY <1>5, <1>6, <1>7, <3>1
        <5>2. LooksUp(w, z)'
          BY <1>3, <1>9, <3>1
        <5> QED BY <5>1, <5>2
      <4> QED BY <1>0, <1>1, <1>3, <1>5, <1>9, <3>1, <4>1, <4>2 DEF Places
    <3>2. CASE z # x
      <4>1. rec'[z] = rec[z] /\ \A q \in Priority : z \in ToSet(queue'[q]) <=> z \in ToSet(queue[q])
        BY <1>4, <1>7, <3>2
      <4> QED BY <1>0, <1>1, <1>9, <3>2, <4>1 DEF Places
    <3> QED BY <3>1, <3>2
  <2>3. ASSUME NEW z \in Rec, NEW v \in Worker, LooksUp(v, z)'
        PROVE  ~Waits(z)' /\ ~rec'[z].onQueue /\ \A u \in Worker : LooksUp(u, z)' => u = v
    <3>1. CASE z = x
      BY <1>3, <1>5, <1>6, <1>7, <1>9, <2>3, <3>1
    <3>2. CASE z # x
      BY <1>0, <1>7, <1>9, <2>3, <3>2 DEF Places
    <3> QED BY <3>1, <3>2
  <2> QED BY <2>1, <2>2, <2>3 DEF Places
<1>17. References'
  <2> SUFFICES ASSUME NEW z \in Rec PROVE Counted(z)'
    BY DEF References
  <2>1. /\ Counted(z) /\ Cardinality(Users(z)) \in Nat /\ Cardinality(Holders(z)) \in Nat
    BY <1>0, FiniteUsers DEF References
  <2>2. Cardinality(Users(z)') = Cardinality(Users(z)) - One(cur[w] = z) + One(cur'[w] = z)
    BY <1>8, UsersChange
  <2>3. Cardinality(Users(z)') = Cardinality(Users(z)) + One(z = x)
    BY <1>8, <2>1, <2>2 DEF One
  <2>4. CASE z = x
    <3>1. rec[z].refc # 0 /\ rec'[z].refc = rec[z].refc
      BY <1>5, <1>6, <1>7, <2>1, <2>4 DEF Counted, One
    <3> QED BY <1>5, <1>9, <2>1, <2>3, <2>4, <3>1 DEF Counted, One
  <2>5. CASE z # x
    BY <1>7, <1>9, <2>1, <2>3, <2>5 DEF Counted, One
  <2> QED BY <2>4, <2>5
<1>18. Callbacks'
  <2>1. \A t \in Request, z \in Rec : Listed(t, z)' <=> Listed(t, z)
    BY <1>6, <1>7 DEF Listed
  <2>2. \A t \in Request, a \in Actor : Called(t, a)' <=> Called(t, a)
    BY <1>1, SameLists
  <2>3. \A z \in Rec : rec'[z].resolving = rec[z].resolving
    BY <1>6, <1>7
  <2> QED BY <1>0, <1>1, <2>1, <2>2, <2>3 DEF Callbacks
<1> QED BY <1>13, <1>14, <1>15, <1>16, <1>17, <1>18 DEF Resolving

LEMMA ResultIs ==
  ASSUME NEW x, rec[x] \in nsHostRecord, NEW success \in BOOLEAN
  PROVE  LET f == Result(x, success)
         IN  /\ f \in nsHostRecord /\ f.host = rec[x].host /\ f.refc = rec[x].refc
             /\ f.onQueue = rec[x].onQueue /\ f.flags = rec[x].flags
             /\ ~f.resolving /\ ~f.usingAny /\ f.callbacks = {}
<1> DEFINE f == Result(x, success)
           c == [rec[x] EXCEPT !.callbacks = {}]
           d == [c EXCEPT !.addr_info = success]
           e == [d EXCEPT !.negative = ~success]
           g == [e EXCEPT !.resolving = FALSE]
<1>0. f = [g EXCEPT !.usingAny = FALSE]
  BY DEF Result
<1>1. /\ c \in nsHostRecord /\ c.host = rec[x].host /\ c.refc = rec[x].refc
      /\ c.onQueue = rec[x].onQueue /\ c.flags = rec[x].flags /\ c.callbacks = {}
  <2>1. c \in nsHostRecord
    BY Updates
  <2> QED BY <2>1 DEF nsHostRecord
<1> HIDE DEF c
<1>2. /\ d \in nsHostRecord /\ d.host = c.host /\ d.refc = c.refc
      /\ d.onQueue = c.onQueue /\ d.flags = c.flags /\ d.callbacks = c.callbacks
  <2>1. d \in nsHostRecord
    BY <1>1, Updates
  <2> QED BY <1>1, <2>1 DEF nsHostRecord
<1> HIDE DEF d
<1>3. /\ e \in nsHostRecord /\ e.host = d.host /\ e.refc = d.refc
      /\ e.onQueue = d.onQueue /\ e.flags = d.flags /\ e.callbacks = d.callbacks
  <2>1. e \in nsHostRecord
    BY <1>2, Updates
  <2> QED BY <1>2, <2>1 DEF nsHostRecord
<1> HIDE DEF e
<1>4. /\ g \in nsHostRecord /\ g.host = e.host /\ g.refc = e.refc /\ ~g.resolving
      /\ g.onQueue = e.onQueue /\ g.flags = e.flags /\ g.callbacks = e.callbacks
  <2>1. g \in nsHostRecord
    BY <1>3, Updates
  <2> QED BY <1>3, <2>1 DEF nsHostRecord
<1> HIDE DEF f, g
<1>5. /\ f \in nsHostRecord /\ f.host = g.host /\ f.refc = g.refc /\ f.resolving = g.resolving
      /\ f.onQueue = g.onQueue /\ f.flags = g.flags /\ f.callbacks = g.callbacks /\ ~f.usingAny
  <2>1. f \in nsHostRecord
    BY <1>0, <1>4, Updates
  <2>2. f.host = g.host /\ f.refc = g.refc /\ f.resolving = g.resolving /\ f.onQueue = g.onQueue
    BY <1>0, <1>4 DEF nsHostRecord
  <2>3. f.flags = g.flags /\ f.callbacks = g.callbacks /\ ~f.usingAny
    BY <1>0, <1>4 DEF nsHostRecord
  <2> QED BY <2>1, <2>2, <2>3
<1>6. /\ f \in nsHostRecord /\ f.host = rec[x].host /\ f.refc = rec[x].refc
      /\ f.onQueue = rec[x].onQueue /\ f.flags = rec[x].flags
      /\ ~f.resolving /\ ~f.usingAny /\ f.callbacks = {}
  BY <1>1, <1>2, <1>3, <1>4, <1>5
<1> QED BY <1>6 DEF f

(* What is left of the cache when the lookup of x is over: keeps says that   *)
(* x is cached now, and out is the record that had to make room.             *)
Finished(x, keeps, out) ==
  /\ rec' \in [Rec -> nsHostRecord] /\ mDB' \in [Host -> Rec \cup {NoRec}]
  /\ \A z \in Rec : rec'[z].refc = rec[z].refc + One(keeps /\ z = x) - (2 * One(z \in out))
  /\ \A z \in Rec \ (out \cup {x}) : rec'[z] = rec[z]
  /\ \A z \in out \ {x} : /\ rec'[z].refc = 0 => rec'[z] = NoRecord
                          /\ rec'[z].refc # 0 => SameShape(z) /\ rec'[z].callbacks = rec[z].callbacks
  /\ rec'[x].refc # 0 /\ ~rec'[x].resolving /\ ~rec'[x].usingAny /\ rec'[x].callbacks = {}
  /\ rec'[x].host = rec[x].host /\ rec'[x].onQueue = rec[x].onQueue /\ rec'[x].flags = rec[x].flags
  /\ \A h \in Host : mDB'[h] # NoRec => mDB'[h] = mDB[h]
  /\ \A z \in Rec : Known(z)' <=> Known(z) /\ z \notin out
  /\ keeps => ~mShutdown /\ ~Kept(x)
  /\ \A z \in out : keeps /\ Known(z) /\ (z \in ToSet(mEvictionQ) \/ z = x)
  /\ mEvictionQ' \in Seq(Rec) /\ Distinct(mEvictionQ')
  /\ \A z \in Rec : z \in ToSet(mEvictionQ') <=> (z \in ToSet(mEvictionQ) \/ (keeps /\ z = x)) /\ z \notin out
  /\ mEvictionQSize' = Len(mEvictionQ') /\ mEvictionQSize' \in Nat /\ mEvictionQSize' <= MaxCacheEntries

(* A record that is being resolved has a reference for that. *)
LEMMA ResolvingCounts ==
  ASSUME Resolving, NEW x \in Rec, rec[x].resolving
  PROVE  rec[x].refc \in Nat /\ rec[x].refc >= 1 + One(Known(x))
<1>0. TypeOK /\ Places /\ References
  BY DEF Resolving, Hands
<1>1. Counted(x) /\ rec[x].refc \in Nat
  BY <1>0 DEF References, TypeOK, nsHostRecord
<1>2. Waits(x) \/ Users(x) # {}
  <2>1. Waits(x) \/ \E w \in Worker : LooksUp(w, x)
    BY <1>0 DEF Places
  <2> QED BY <2>1, ActorParts DEF LooksUp, Users
<1>3. Waits(x) \/ Cardinality(Users(x)) # 0
  BY <1>2, FiniteUsers, FS_EmptySet
<1> QED BY <1>1, <1>3, FiniteUsers DEF Counted, One

LEMMA CompleteShape ==
  ASSUME Resolving, NEW a, NEW x \in Rec, NEW success \in BOOLEAN, rec[x].resolving, Complete(a, x, success)
  PROVE  \E keeps \in BOOLEAN, out \in SUBSET Rec : Finished(x, keeps, out)
<1> DEFINE keeps == success /\ ~mShutdown
           f == Result(x, success)
           e == IF keeps THEN [f EXCEPT !.refc = f.refc + 1] ELSE f
           R == [rec EXCEPT ![x] = e]
           q == Append(mEvictionQ, x)
           full == mEvictionQSize >= MaxCacheEntries
           oldest == Head(q)
<1>0. Hands /\ TypeOK /\ Lists /\ Places /\ References /\ Counters
  BY DEF Resolving, Hands
<1>1. /\ mEvictionQ' = IF keeps THEN IF full THEN Tail(q) ELSE q ELSE mEvictionQ
      /\ mEvictionQSize' = IF keeps /\ ~full THEN mEvictionQSize + 1 ELSE mEvictionQSize
      /\ mDB' = IF keeps /\ full THEN [mDB EXCEPT ![R[oldest].host] = NoRec] ELSE mDB
      /\ rec' = IF keeps /\ full THEN Released(R, oldest, 2) ELSE R
  BY DEF Complete
<1>2. /\ f \in nsHostRecord /\ f.host = rec[x].host /\ f.refc = rec[x].refc
      /\ f.onQueue = rec[x].onQueue /\ f.flags = rec[x].flags
      /\ ~f.resolving /\ ~f.usingAny /\ f.callbacks = {}
  <2>1. rec[x] \in nsHostRecord
    BY <1>0 DEF TypeOK
  <2> QED BY <2>1, ResultIs
<1> HIDE DEF f, keeps
<1>3. /\ e \in nsHostRecord /\ e.host = rec[x].host /\ e.refc = rec[x].refc + One(keeps)
      /\ e.onQueue = rec[x].onQueue /\ e.flags = rec[x].flags
      /\ ~e.resolving /\ ~e.usingAny /\ e.callbacks = {}
  <2>0. f.refc \in Nat /\ f.refc + 1 \in Nat
    BY <1>2 DEF nsHostRecord
  <2>1. CASE keeps
    <3>1. e = [f EXCEPT !.refc = f.refc + 1]
      BY <2>1
    <3>2. e \in nsHostRecord
      BY <1>2, <2>0, <3>1, Updates
    <3>3. e.host = f.host /\ e.refc = f.refc + 1 /\ e.onQueue = f.onQueue /\ e.flags = f.flags
      BY <1>2, <3>1 DEF nsHostRecord
    <3>4. e.resolving = f.resolving /\ e.usingAny = f.usingAny /\ e.callbacks = f.callbacks
      BY <1>2, <3>1 DEF nsHostRecord
    <3> HIDE DEF e
    <3> QED BY <1>2, <2>1, <3>2, <3>3, <3>4 DEF One
  <2>2. CASE ~keeps
    BY <1>2, <2>0, <2>2 DEF One
  <2> QED BY <2>1, <2>2
<1>4. rec[x].refc \in Nat /\ rec[x].refc >= 1 + One(Known(x))
  BY ResolvingCounts
<1> HIDE DEF e
<1>5. R \in [Rec -> nsHostRecord] /\ R[x] = e /\ \A z \in Rec \ {x} : R[z] = rec[z]
  BY <1>0, <1>3 DEF TypeOK
<1>6. \A z \in Rec : rec[z].refc \in Nat /\ R[z].refc = rec[z].refc + One(keeps /\ z = x)
  BY <1>0, <1>3, <1>5 DEF TypeOK, nsHostRecord, One
<1>7. /\ mEvictionQ \in Seq(Rec) /\ Distinct(mEvictionQ) /\ x \notin ToSet(mEvictionQ)
      /\ mEvictionQSize = Len(mEvictionQ) /\ mEvictionQSize \in Nat /\ mEvictionQSize <= MaxCacheEntries
  BY <1>0 DEF TypeOK, Lists, Places, Counters
<1>8. keeps => ~mShutdown /\ ~Kept(x) /\ Known(x)
  <2>1. keeps => ~mShutdown
    BY DEF keeps
  <2>2. ~mShutdown => ToSet(evicted) = {}
    BY <1>0, EmptyList DEF Lists
  <2> QED BY <1>0, <1>7, <2>1, <2>2 DEF Kept, Places
<1>9. /\ q \in Seq(Rec) /\ Distinct(q) /\ ToSet(q) = ToSet(mEvictionQ) \cup {x} /\ Len(q) = mEvictionQSize + 1
  BY <1>7, AppendSet
<1> HIDE DEF R, q, full
<1>10. CASE ~keeps
  <2>1. rec' = R /\ UNCHANGED <<mDB, mEvictionQ, mEvictionQSize>>
    BY <1>1, <1>10
  <2>2. \A z \in Rec : Known(z)' <=> Known(z)
    BY <2>1 DEF Known
  <2>3. Finished(x, FALSE, {})
    <3>1. \A z \in Rec : rec'[z].refc = rec[z].refc + One(FALSE /\ z = x) - (2 * One(z \in {}))
      BY <1>6, <1>10, <2>1 DEF One
    <3>2. /\ rec'[x].refc # 0 /\ ~rec'[x].resolving /\ ~rec'[x].usingAny /\ rec'[x].callbacks = {}
          /\ rec'[x].host = rec[x].host /\ rec'[x].onQueue = rec[x].onQueue /\ rec'[x].flags = rec[x].flags
      BY <1>3, <1>4, <1>5, <1>10, <2>1 DEF One
    <3>3. rec' \in [Rec -> nsHostRecord] /\ mDB' \in [Host -> Rec \cup {NoRec}]
      BY <1>0, <1>5, <2>1 DEF TypeOK
    <3>4. \A z \in Rec \ ({} \cup {x}) : rec'[z] = rec[z]
      BY <1>5, <2>1
    <3> QED BY <1>7, <2>1, <2>2, <3>1, <3>2, <3>3, <3>4 DEF Finished
  <2> QED BY <2>3
<1>11. CASE keeps /\ ~full
  <2>1. rec' = R /\ mEvictionQ' = q /\ mEvictionQSize' = mEvictionQSize + 1 /\ UNCHANGED mDB
    BY <1>1, <1>11
  <2>2. \A z \in Rec : Known(z)' <=> Known(z)
    BY <2>1 DEF Known
  <2>3. Finished(x, TRUE, {})
    <3>1. \A z \in Rec : rec'[z].refc = rec[z].refc + One(TRUE /\ z = x) - (2 * One(z \in {}))
      BY <1>6, <1>11, <2>1 DEF One
    <3>2. /\ rec'[x].refc # 0 /\ ~rec'[x].resolving /\ ~rec'[x].usingAny /\ rec'[x].callbacks = {}
          /\ rec'[x].host = rec[x].host /\ rec'[x].onQueue = rec[x].onQueue /\ rec'[x].flags = rec[x].flags
      BY <1>3, <1>4, <1>5, <1>11, <2>1 DEF One
    <3>3. rec' \in [Rec -> nsHostRecord] /\ mDB' \in [Host -> Rec \cup {NoRec}]
      BY <1>0, <1>5, <2>1 DEF TypeOK
    <3>4. \A z \in Rec \ ({} \cup {x}) : rec'[z] = rec[z]
      BY <1>5, <2>1
    <3>5. mEvictionQSize + 1 <= MaxCacheEntries
      BY <1>7, <1>11, Constants DEF full
    <3> QED BY <1>7, <1>8, <1>9, <1>11, <2>1, <2>2, <3>1, <3>2, <3>3, <3>4, <3>5 DEF Finished
  <2> QED BY <2>3
<1>12. CASE keeps /\ full
  <2>1. PICK o : o = oldest
    OBVIOUS
  <2>2. /\ rec' = Released(R, o, 2) /\ mEvictionQ' = Tail(q) /\ mEvictionQSize' = mEvictionQSize
        /\ mDB' = [mDB EXCEPT ![R[o].host] = NoRec]
    BY <1>1, <1>12, <2>1
  <2>3. /\ o \in ToSet(q) /\ o \in Rec /\ Tail(q) \in Seq(Rec) /\ Distinct(Tail(q))
        /\ ToSet(Tail(q)) = ToSet(q) \ {o} /\ Len(Tail(q)) = mEvictionQSize
    <3>1. q # <<>>
      BY <1>7, <1>9
    <3>2. /\ Head(q) \in ToSet(q) /\ Head(q) \in Rec /\ Tail(q) \in Seq(Rec) /\ Distinct(Tail(q))
          /\ ToSet(Tail(q)) = ToSet(q) \ {Head(q)} /\ Len(Tail(q)) = Len(q) - 1
      BY <1>9, <3>1, TailSet
    <3> QED BY <1>7, <1>9, <2>1, <3>2
  <2>4. Known(o) /\ (o \in ToSet(mEvictionQ) \/ o = x)
    BY <1>0, <1>8, <1>9, <1>12, <2>3 DEF Places
  <2>5. rec[o].refc >= 2 /\ R[o].refc >= 2 /\ (o = x => R[o].refc >= 3)
    <3>1. CASE o = x
      BY <1>4, <1>6, <1>8, <1>12, <3>1 DEF One
    <3>2. CASE o # x
      <4>1. Kept(o) /\ Counted(o)
        BY <1>0, <2>3, <2>4, <3>2 DEF Kept, References
      <4> QED BY <1>6, <2>3, <2>4, <3>2, <4>1, FiniteUsers DEF Counted, One
    <3> QED BY <3>1, <3>2
  <2>6. PICK h \in Host : mDB[h] = o
    BY <2>4 DEF Known
  <2>7. R[o].host = h /\ \A i \in Host : mDB[i] = o => i = h
    <3>1. \A i \in Host : mDB[i] = o => rec[o].host = i
      BY <1>0, <2>3, Constants DEF Places
    <3>2. R[o].host = rec[o].host
      BY <1>3, <1>5, <2>3
    <3> QED BY <2>6, <3>1, <3>2
  <2>8. mDB' \in [Host -> Rec \cup {NoRec}] /\ mDB'[h] = NoRec /\ \A i \in Host \ {h} : mDB'[i] = mDB[i]
    BY <1>0, <2>2, <2>7 DEF TypeOK
  <2>9. \A z \in Rec : Known(z)' <=> Known(z) /\ z # o
    <3>1. ASSUME NEW z \in Rec, Known(z)' PROVE Known(z) /\ z # o
      BY <2>7, <2>8, <3>1, Constants DEF Known
    <3>2. ASSUME NEW z \in Rec, Known(z), z # o PROVE Known(z)'
      <4>1. PICK i \in Host : mDB[i] = z
        BY <3>2 DEF Known
      <4> QED BY <2>6, <2>8, <3>2, <4>1 DEF Known
    <3> QED BY <3>1, <3>2
  <2> DEFINE g == IF R[o].refc = 2 THEN NoRecord ELSE [R[o] EXCEPT !.refc = R[o].refc - 2]
  <2>10. /\ g \in nsHostRecord /\ g.refc = R[o].refc - 2
         /\ g.refc = 0 => g = NoRecord
         /\ g.refc # 0 => /\ g.host = R[o].host /\ g.resolving = R[o].resolving /\ g.onQueue = R[o].onQueue
                          /\ g.usingAny = R[o].usingAny /\ g.flags = R[o].flags /\ g.callbacks = R[o].callbacks
    <3>0. R[o] \in nsHostRecord /\ R[o].refc \in Nat /\ R[o].refc - 2 \in Nat
      <4>1. R[o] \in nsHostRecord
        BY <1>5, <2>3
      <4> QED BY <2>5, <4>1 DEF nsHostRecord
    <3>1. CASE R[o].refc = 2
      <4>1. NoRecord \in nsHostRecord /\ NoRecord.refc = 0
        BY DEF NoRecord, nsHostRecord, Priority
      <4> QED BY <3>1, <4>1
    <3>2. CASE R[o].refc # 2
      <4>1. g = [R[o] EXCEPT !.refc = R[o].refc - 2]
        BY <3>2
      <4>2. g \in nsHostRecord
        BY <3>0, <4>1, Updates
      <4>3. g.refc = R[o].refc - 2 /\ g.host = R[o].host /\ g.resolving = R[o].resolving /\ g.onQueue = R[o].onQueue
        BY <3>0, <4>1 DEF nsHostRecord
      <4>4. g.usingAny = R[o].usingAny /\ g.flags = R[o].flags /\ g.callbacks = R[o].callbacks
        BY <3>0, <4>1 DEF nsHostRecord
      <4> HIDE DEF g
      <4> QED BY <2>5, <3>0, <3>2, <4>2, <4>3, <4>4
    <3> QED BY <3>1, <3>2
  <2>11. rec' = [R EXCEPT ![o] = g]
    BY <2>2 DEF Released
  <2> HIDE DEF g
  <2>12. rec' \in [Rec -> nsHostRecord] /\ rec'[o] = g /\ \A z \in Rec \ {o} : rec'[z] = R[z]
    BY <1>5, <2>3, <2>10, <2>11
  <2>13. \A z \in Rec : rec'[z].refc = rec[z].refc + One(TRUE /\ z = x) - (2 * One(z \in {o}))
    <3> SUFFICES ASSUME NEW z \in Rec
                 PROVE  rec'[z].refc = rec[z].refc + One(TRUE /\ z = x) - (2 * One(z \in {o}))
      OBVIOUS
    <3>1. rec[z].refc \in Nat /\ R[z].refc = rec[z].refc + One(z = x) /\ One(z = x) \in {0, 1}
      BY <1>6, <1>12 DEF One
    <3>2. CASE z = o
      BY <2>10, <2>12, <3>1, <3>2 DEF One
    <3>3. CASE z # o
      BY <2>12, <3>1, <3>3 DEF One
    <3> QED BY <3>2, <3>3
  <2>14. /\ rec'[x].refc # 0 /\ ~rec'[x].resolving /\ ~rec'[x].usingAny /\ rec'[x].callbacks = {}
         /\ rec'[x].host = rec[x].host /\ rec'[x].onQueue = rec[x].onQueue /\ rec'[x].flags = rec[x].flags
    <3>1. CASE o = x
      <4>1. g.refc # 0
        BY <2>5, <2>10, <3>1, <1>6
      <4> QED BY <1>3, <1>5, <2>10, <2>12, <3>1, <4>1
    <3>2. CASE o # x
      BY <1>3, <1>4, <1>5, <1>12, <2>12, <3>2 DEF One
    <3> QED BY <3>1, <3>2
  <2>15. \A z \in {o} \ {x} : /\ rec'[z].refc = 0 => rec'[z] = NoRecord
                              /\ rec'[z].refc # 0 => SameShape(z) /\ rec'[z].callbacks = rec[z].callbacks
    BY <1>5, <2>3, <2>10, <2>12 DEF SameShape
  <2>16. \A z \in Rec \ ({o} \cup {x}) : rec'[z] = rec[z]
    BY <1>5, <2>12
  <2>17. \A i \in Host : mDB'[i] # NoRec => mDB'[i] = mDB[i]
    BY <2>8
  <2>18. /\ mEvictionQ' \in Seq(Rec) /\ Distinct(mEvictionQ')
         /\ \A z \in Rec : z \in ToSet(mEvictionQ') <=> (z \in ToSet(mEvictionQ) \/ (TRUE /\ z = x)) /\ z \notin {o}
         /\ mEvictionQSize' = Len(mEvictionQ') /\ mEvictionQSize' \in Nat /\ mEvictionQSize' <= MaxCacheEntries
    BY <1>7, <1>9, <2>2, <2>3
  <2>19. Finished(x, TRUE, {o})
    BY <1>8, <1>12, <2>4, <2>8, <2>9, <2>12, <2>13, <2>14, <2>15, <2>16, <2>17, <2>18 DEF Finished
  <2> QED BY <2>3, <2>19
<1> QED BY <1>10, <1>11, <1>12

(* The end of a lookup: of a worker's, or of one that Shutdown fails. *)
Ends(a, x) == \/ LooksUp(a, x) /\ UNCHANGED aborted
              \/ /\ a = 0 /\ pc[0] = "clear" /\ aborted # <<>>
                 /\ x = Head(aborted) /\ aborted' = Tail(aborted)

LEMMA EndsShape ==
  ASSUME Resolving, NEW a \in Actor, NEW x \in Rec, Ends(a, x), UNCHANGED queue,
         pc' = [pc EXCEPT ![a] = "deliver"], cur' = [cur EXCEPT ![a] = x]
  PROVE  /\ rec[x].resolving /\ aborted' \in Seq(Rec) /\ Distinct(aborted')
         /\ ~mShutdown => aborted' = <<>> /\ pc'[0] = "none"
         /\ \A z \in Rec : /\ Waits(z)' <=> Waits(z) /\ z # x
                           /\ One(Waits(z)') + Cardinality(Users(z)') = One(Waits(z)) + Cardinality(Users(z))
         /\ \A v \in Worker, z \in Rec : LooksUp(v, z)' <=> LooksUp(v, z) /\ z # x
         /\ Live' = Live /\ Resting' = Resting /\ cbs[a] = {}
         /\ pc'[0] \in {"none", "deliver", "clear", "done"}
<1>0. Hands /\ TypeOK /\ Lists /\ Places
  BY DEF Resolving, Hands
<1>1. /\ pc'[a] = "deliver" /\ (\A b \in Actor \ {a} : pc'[b] = pc[b])
      /\ cur'[a] = x /\ (\A b \in Actor \ {a} : cur'[b] = cur[b])
  BY <1>0 DEF TypeOK
<1>2. \A z \in Rec : /\ Cardinality(Users(z)) \in Nat
                     /\ Cardinality(Users(z)') = Cardinality(Users(z)) - One(cur[a] = z) + One(cur'[a] = z)
  BY <1>1, UsersChange, FiniteUsers
<1>3. CASE LooksUp(a, x) /\ UNCHANGED aborted
  <2>1. a \in Worker /\ pc[a] = "lookup" /\ cur[a] = x /\ ~Waits(x) /\ rec[x].resolving
    BY <1>0, <1>3 DEF LooksUp, Places
  <2>2. \A z \in Rec : Waits(z)' <=> Waits(z)
    BY <1>3 DEF Waits
  <2>3. \A z \in Rec : One(Waits(z)') + Cardinality(Users(z)') = One(Waits(z)) + Cardinality(Users(z))
    BY <1>1, <1>2, <2>1, <2>2 DEF One
  <2>4. \A v \in Worker, z \in Rec : LooksUp(v, z)' <=> LooksUp(v, z) /\ z # x
    <3> SUFFICES ASSUME NEW v \in Worker, NEW z \in Rec
                 PROVE  LooksUp(v, z)' <=> LooksUp(v, z) /\ z # x
      OBVIOUS
    <3>1. LooksUp(v, x) => v = a
      BY <1>0, <1>3, <2>1 DEF Places
    <3>2. CASE v = a
      BY <1>1, <2>1, <3>2 DEF LooksUp
    <3>3. CASE v # a
      BY <1>1, <3>1, <3>3, ActorParts DEF LooksUp
    <3> QED BY <3>2, <3>3
  <2>5. Live' = Live /\ Resting' = Resting
    BY <1>1, <2>1, ActorParts DEF Live, Resting
  <2>6. pc'[0] = pc[0] /\ cbs[a] = {}
    BY <1>0, <1>1, <2>1, ActorParts DEF Hands
  <2>7. aborted' \in Seq(Rec) /\ Distinct(aborted') /\ (~mShutdown => aborted' = <<>> /\ pc'[0] = "none")
    BY <1>0, <1>3, <2>6 DEF TypeOK, Lists
  <2> QED BY <1>0, <2>1, <2>2, <2>3, <2>4, <2>5, <2>6, <2>7 DEF Hands
<1>4. CASE a = 0 /\ pc[0] = "clear" /\ aborted # <<>> /\ x = Head(aborted) /\ aborted' = Tail(aborted)
  <2>1. /\ mShutdown /\ cbs[a] = {} /\ cur[a] \notin Rec /\ \A p \in Priority : ToSet(queue[p]) = {}
    BY <1>0, <1>4, EmptyList DEF Lists, Hands
  <2>2. /\ x \in ToSet(aborted) /\ aborted' \in Seq(Rec) /\ Distinct(aborted')
        /\ ToSet(aborted') = ToSet(aborted) \ {x}
    <3>1. aborted \in Seq(Rec) /\ Distinct(aborted)
      BY <1>0 DEF TypeOK, Lists
    <3>2. /\ Head(aborted) \in ToSet(aborted) /\ Tail(aborted) \in Seq(Rec) /\ Distinct(Tail(aborted))
          /\ ToSet(Tail(aborted)) = ToSet(aborted) \ {Head(aborted)}
      BY <1>4, <3>1, TailSet
    <3> QED BY <1>4, <3>2
  <2>3. Waits(x) /\ rec[x].resolving /\ \A v \in Worker : ~LooksUp(v, x)
    BY <1>0, <2>2 DEF Waits, Places
  <2>4. \A z \in Rec : Waits(z)' <=> Waits(z) /\ z # x
    BY <2>1, <2>2 DEF Waits
  <2>5. ASSUME NEW z \in Rec
        PROVE  One(Waits(z)') + Cardinality(Users(z)') = One(Waits(z)) + Cardinality(Users(z))
    <3>1. Cardinality(Users(z)') = Cardinality(Users(z)) + One(x = z)
      BY <1>1, <1>2, <2>1 DEF One
    <3> QED BY <1>2, <2>3, <2>4, <3>1 DEF One
  <2>6. \A v \in Worker, z \in Rec : LooksUp(v, z)' <=> LooksUp(v, z) /\ z # x
    BY <1>1, <1>4, <2>3, ActorParts DEF LooksUp
  <2>7. Live' = Live /\ Resting' = Resting
    BY <1>1, <1>4, ActorParts DEF Live, Resting
  <2> QED BY <1>1, <1>4, <2>1, <2>2, <2>3, <2>4, <2>5, <2>6, <2>7
<1> QED BY <1>3, <1>4 DEF Ends

LEMMA CompleteResolving ==
  ASSUME Resolving, NEW a \in Actor, NEW x \in Rec, NEW success \in BOOLEAN,
         Ends(a, x), Complete(a, x, success)
  PROVE  Resolving'
<1> USE DEF requests
<1>0. Hands /\ TypeOK /\ Lists /\ Places /\ References /\ Callbacks /\ Counters
  BY DEF Resolving, Hands
<1>1. /\ mActiveAnyThreadCount' = IF rec[x].usingAny THEN mActiveAnyThreadCount - 1 ELSE mActiveAnyThreadCount
      /\ cbs' = [cbs EXCEPT ![a] = rec[x].callbacks]
      /\ ok' = [ok EXCEPT ![a] = success]
      /\ cur' = [cur EXCEPT ![a] = x]
      /\ pc' = [pc EXCEPT ![a] = "deliver"]
      /\ UNCHANGED <<queue, mPendingCount, mNumIdleThreads, mThreadCount, mShutdown, evicted, requests>>
  BY DEF Complete
<1>2. /\ rec[x].resolving /\ aborted' \in Seq(Rec) /\ Distinct(aborted')
      /\ ~mShutdown => aborted' = <<>> /\ pc'[0] = "none"
      /\ \A z \in Rec : /\ Waits(z)' <=> Waits(z) /\ z # x
                        /\ One(Waits(z)') + Cardinality(Users(z)') = One(Waits(z)) + Cardinality(Users(z))
      /\ \A v \in Worker, z \in Rec : LooksUp(v, z)' <=> LooksUp(v, z) /\ z # x
      /\ Live' = Live /\ Resting' = Resting /\ cbs[a] = {}
      /\ pc'[0] \in {"none", "deliver", "clear", "done"}
  BY <1>1, EndsShape
<1>3. PICK keeps \in BOOLEAN, out \in SUBSET Rec : Finished(x, keeps, out)
  BY <1>2, CompleteShape
<1>4. /\ rec' \in [Rec -> nsHostRecord] /\ mDB' \in [Host -> Rec \cup {NoRec}]
      /\ \A z \in Rec : rec'[z].refc = rec[z].refc + One(keeps /\ z = x) - (2 * One(z \in out))
      /\ \A z \in Rec \ (out \cup {x}) : rec'[z] = rec[z]
      /\ \A z \in out \ {x} : /\ rec'[z].refc = 0 => rec'[z] = NoRecord
                              /\ rec'[z].refc # 0 => SameShape(z) /\ rec'[z].callbacks = rec[z].callbacks
  BY <1>3 DEF Finished
<1>5. /\ rec'[x].refc # 0 /\ ~rec'[x].resolving /\ ~rec'[x].usingAny /\ rec'[x].callbacks = {}
      /\ rec'[x].host = rec[x].host /\ rec'[x].onQueue = rec[x].onQueue /\ rec'[x].flags = rec[x].flags
      /\ \A h \in Host : mDB'[h] # NoRec => mDB'[h] = mDB[h]
      /\ \A z \in Rec : Known(z)' <=> Known(z) /\ z \notin out
      /\ keeps => ~mShutdown /\ ~Kept(x)
      /\ \A z \in out : keeps /\ Known(z) /\ (z \in ToSet(mEvictionQ) \/ z = x)
  BY <1>3 DEF Finished
<1>6. /\ mEvictionQ' \in Seq(Rec) /\ Distinct(mEvictionQ')
      /\ \A z \in Rec : z \in ToSet(mEvictionQ') <=> (z \in ToSet(mEvictionQ) \/ (keeps /\ z = x)) /\ z \notin out
      /\ mEvictionQSize' = Len(mEvictionQ') /\ mEvictionQSize' \in Nat /\ mEvictionQSize' <= MaxCacheEntries
  BY <1>3 DEF Finished
<1>7. /\ pc' \in [Actor -> Points] /\ pc'[a] = "deliver" /\ (\A b \in Actor \ {a} : pc'[b] = pc[b])
      /\ cur' \in [Actor -> Rec \cup {NoRec}] /\ cur'[a] = x /\ (\A b \in Actor \ {a} : cur'[b] = cur[b])
      /\ cbs' \in [Actor -> SUBSET Request] /\ cbs'[a] = rec[x].callbacks /\ (\A b \in Actor \ {a} : cbs'[b] = cbs[b])
      /\ ok' \in [Actor -> BOOLEAN]
  <2>1. rec[x].callbacks \in SUBSET Request
    BY <1>0 DEF TypeOK, nsHostRecord
  <2>2. /\ pc' \in [Actor -> Points] /\ pc'[a] = "deliver" /\ (\A b \in Actor \ {a} : pc'[b] = pc[b])
    BY <1>0, <1>1 DEF TypeOK, Points
  <2>3. /\ cur' \in [Actor -> Rec \cup {NoRec}] /\ cur'[a] = x /\ (\A b \in Actor \ {a} : cur'[b] = cur[b])
    BY <1>0, <1>1 DEF TypeOK
  <2>4. /\ cbs' \in [Actor -> SUBSET Request] /\ cbs'[a] = rec[x].callbacks /\ (\A b \in Actor \ {a} : cbs'[b] = cbs[b])
    BY <1>0, <1>1, <2>1 DEF TypeOK
  <2>5. ok' \in [Actor -> BOOLEAN]
    BY <1>0, <1>1 DEF TypeOK
  <2> QED BY <2>2, <2>3, <2>4, <2>5
<1>8. ASSUME NEW z \in Rec \ {x}
      PROVE  /\ rec'[z].resolving = rec[z].resolving /\ rec'[z].usingAny = rec[z].usingAny
             /\ rec'[z].callbacks = rec[z].callbacks
             /\ rec[z].resolving => rec'[z] = rec[z] /\ z \notin out
  <2>1. CASE z \notin out
    BY <1>4, <2>1
  <2>2. CASE z \in out
    <3>1. ~rec[z].resolving /\ ~rec[z].usingAny /\ rec[z] \in nsHostRecord
      BY <1>0, <1>5, <2>2 DEF Places, TypeOK
    <3>2. rec[z].callbacks = {}
      <4>1. \A t \in Request : ~Listed(t, z)
        BY <1>0, <3>1 DEF Callbacks
      <4>2. rec[z].callbacks \subseteq Request
        BY <3>1 DEF nsHostRecord
      <4> QED BY <4>1, <4>2 DEF Listed
    <3>3. rec[z].resolving = FALSE /\ rec[z].usingAny = FALSE
      BY <3>1 DEF nsHostRecord
    <3>4. CASE rec'[z] = NoRecord
      <4>1. rec'[z].resolving = FALSE /\ rec'[z].usingAny = FALSE /\ rec'[z].callbacks = {}
        BY <3>4 DEF NoRecord
      <4> QED BY <3>1, <3>2, <3>3, <4>1
    <3>5. CASE rec'[z] # NoRecord
      BY <1>4, <2>2, <3>1, <3>5 DEF SameShape
    <3> QED BY <3>4, <3>5
  <2> QED BY <2>1, <2>2
<1>9. keeps => Known(x) /\ ToSet(evicted) = {}
  <2>1. ~mShutdown => ToSet(evicted) = {}
    BY <1>0, EmptyList DEF Lists
  <2> QED BY <1>0, <1>2, <1>5, <2>1 DEF Places
<1>10. \A z \in Rec : Kept(z)' <=> (Kept(z) \/ (keeps /\ z = x)) /\ z \notin out
  BY <1>1, <1>5, <1>6, <1>9 DEF Kept
<1>11. References'
  <2> SUFFICES ASSUME NEW z \in Rec PROVE Counted(z)'
    BY DEF References
  <2>1. /\ Counted(z) /\ Cardinality(Users(z)) \in Nat /\ Cardinality(Holders(z)) \in Nat
        /\ Holders(z)' = Holders(z) /\ rec[z].refc \in Nat
    BY <1>0, <1>1, FiniteUsers DEF References, Holders, TypeOK, nsHostRecord
  <2>2. One(Known(z)') = One(Known(z)) - One(z \in out)
    BY <1>5 DEF One
  <2>3. One(Kept(z)') = One(Kept(z)) + One(keeps /\ z = x) - One(z \in out)
    <3>1. CASE z = x
      BY <1>5, <1>10, <3>1 DEF One
    <3>2. CASE z # x
      <4>1. z \in out => Kept(z)
        BY <1>5, <3>2 DEF Kept
      <4> QED BY <1>10, <3>2, <4>1 DEF One
    <3> QED BY <3>1, <3>2
  <2>4. Cardinality(Users(z)') \in Nat
    <3>1. Users(z)' \subseteq Actor
      BY DEF Users
    <3> QED BY <3>1, Finite, FS_Subset, FS_CardinalityType
  <2>5. rec'[z].refc = One(Known(z)') + One(Waits(z)') + One(Kept(z)') + Cardinality(Users(z)') + Cardinality(Holders(z)')
    <3>1. /\ rec[z].refc = One(Known(z)) + One(Waits(z)) + One(Kept(z)) + Cardinality(Users(z)) + Cardinality(Holders(z))
          /\ One(Waits(z)') + Cardinality(Users(z)') = One(Waits(z)) + Cardinality(Users(z))
          /\ rec'[z].refc = rec[z].refc + One(keeps /\ z = x) - (2 * One(z \in out))
      BY <1>2, <1>4, <2>1 DEF Counted
    <3>2. /\ One(Known(z)) \in Int /\ One(Waits(z)) \in Int /\ One(Kept(z)) \in Int /\ One(Waits(z)') \in Int
          /\ One(keeps /\ z = x) \in Int /\ One(z \in out) \in Int
      BY DEF One
    <3> QED BY <2>1, <2>2, <2>3, <2>4, <3>1, <3>2
  <2>6. rec'[z].refc = 0 => rec'[z] = NoRecord
    <3>1. CASE z = x
      BY <1>5, <3>1
    <3>2. CASE z \in out \ {x}
      BY <1>4, <3>2
    <3>3. CASE z \notin out \cup {x}
      BY <1>4, <2>1, <3>3 DEF Counted
    <3> QED BY <3>1, <3>2, <3>3
  <2> QED BY <2>5, <2>6 DEF Counted
<1>12. Places'
  <2>1. ASSUME NEW i \in Host, mDB'[i] # NoRec PROVE rec'[mDB'[i]].host = i
    <3>1. mDB'[i] = mDB[i] /\ mDB[i] \in Rec /\ rec[mDB[i]].host = i
      BY <1>0, <1>4, <1>5, <2>1, Constants DEF Places, TypeOK
    <3>2. PICK z \in Rec : z = mDB'[i] /\ Known(z)'
      BY <1>4, <2>1 DEF Known
    <3>3. z \notin out
      BY <1>5, <3>2
    <3>4. rec'[z].host = rec[z].host
      BY <1>4, <1>5, <3>3
    <3> QED BY <3>1, <3>2, <3>4
  <2>2. ASSUME NEW z \in Rec
        PROVE  /\ \A q \in Priority : z \in ToSet(queue'[q]) => rec'[z].flags = q /\ rec'[z].onQueue
               /\ rec'[z].resolving <=> Waits(z)' \/ \E v \in Worker : LooksUp(v, z)'
               /\ rec'[z].resolving => z \notin ToSet(mEvictionQ') /\ (~mShutdown' => Known(z)')
               /\ z \in ToSet(mEvictionQ') => Known(z)'
               /\ rec'[z].usingAny => \E v \in Worker : LooksUp(v, z)'
    <3>1. CASE z = x
      <4>1. \A q \in Priority : z \in ToSet(queue'[q]) => rec'[z].flags = q /\ rec'[z].onQueue
        BY <1>0, <1>1, <1>5, <3>1 DEF Places
      <4>2. z \in ToSet(mEvictionQ') => Known(z)'
        BY <1>0, <1>2, <1>5, <1>6, <1>9, <3>1 DEF Places
      <4> QED BY <1>2, <1>5, <3>1, <4>1, <4>2
    <3>2. CASE z # x
      <4>1. \A q \in Priority : z \in ToSet(queue'[q]) => rec'[z].flags = q /\ rec'[z].onQueue
        <5>1. \A q \in Priority : z \in ToSet(queue[q]) => rec[z].resolving
          BY <1>0 DEF Places, Waits
        <5> QED BY <1>0, <1>1, <1>8, <3>2, <5>1 DEF Places
      <4>2. z \in ToSet(mEvictionQ') => Known(z)'
        BY <1>0, <1>5, <1>6, <3>2 DEF Places
      <4>3. rec'[z].resolving => z \notin ToSet(mEvictionQ') /\ (~mShutdown' => Known(z)')
        BY <1>0, <1>1, <1>5, <1>6, <1>8, <3>2 DEF Places
      <4> QED BY <1>0, <1>2, <1>8, <3>2, <4>1, <4>2, <4>3 DEF Places
    <3> QED BY <3>1, <3>2
  <2>3. ASSUME NEW z \in Rec, NEW v \in Worker, LooksUp(v, z)'
        PROVE  ~Waits(z)' /\ ~rec'[z].onQueue /\ \A u \in Worker : LooksUp(u, z)' => u = v
    <3>1. LooksUp(v, z) /\ z # x
      BY <1>2, <2>3
    <3>2. rec[z].resolving /\ ~Waits(z) /\ ~rec[z].onQueue /\ \A u \in Worker : LooksUp(u, z) => u = v
      BY <1>0, <3>1 DEF Places
    <3> QED BY <1>2, <1>8, <3>1, <3>2
  <2> QED BY <2>1, <2>2, <2>3 DEF Places
<1>13. Callbacks'
  <2>1. \A t \in Request, z \in Rec : Listed(t, z)' <=> Listed(t, z) /\ z # x
    BY <1>5, <1>8 DEF Listed
  <2>2. \A t \in Request, b \in Actor : Called(t, b)' <=> Called(t, b) \/ (b = a /\ Listed(t, x))
    BY <1>2, <1>7 DEF Called, Listed
  <2>3. \A z \in Rec \ {x} : rec'[z].resolving = rec[z].resolving
    BY <1>8
  <2> SUFFICES ASSUME NEW t \in Request
               PROVE  /\ req'[t].at = "pending" => \/ \E z \in Rec : Listed(t, z)'
                                                   \/ \E b \in Actor : Called(t, b)'
                      /\ \A z \in Rec : Listed(t, z)' =>
                           /\ rec'[z].resolving /\ req'[t].at = "pending"
                           /\ \A v \in Rec : Listed(t, v)' => z = v
                           /\ \A b \in Actor : ~Called(t, b)'
                      /\ \A b \in Actor : Called(t, b)' =>
                           req'[t].at = "pending" /\ \A d \in Actor : Called(t, d)' => b = d
    BY DEF Callbacks
  <2>4. req'[t] = req[t]
    BY <1>1
  <2>5. CASE Listed(t, x)
    <3>1. req[t].at = "pending" /\ (\A z \in Rec : Listed(t, z) => z = x) /\ \A b \in Actor : ~Called(t, b)
      BY <1>0, <2>5 DEF Callbacks
    <3> QED BY <2>1, <2>2, <2>4, <2>5, <3>1
  <2>6. CASE ~Listed(t, x)
    <3>1. \A z \in Rec : Listed(t, z)' <=> Listed(t, z)
      BY <2>1, <2>6
    <3>2. \A b \in Actor : Called(t, b)' <=> Called(t, b)
      BY <2>2, <2>6
    <3>3. \A z \in Rec : Listed(t, z) => rec'[z].resolving = rec[z].resolving
      BY <2>3, <2>6
    <3> QED BY <1>0, <2>4, <3>1, <3>2, <3>3 DEF Callbacks
  <2> QED BY <2>5, <2>6
<1>14. mActiveAnyThreadCount' = Cardinality(Busy') /\ mActiveAnyThreadCount' <= HighThreadThreshold
       /\ mActiveAnyThreadCount' \in Nat
  <2>1. Busy' = Busy \ {x}
    BY <1>5, <1>8 DEF Busy
  <2>2. IsFiniteSet(Busy) /\ IsFiniteSet(Busy') /\ (x \in Busy <=> rec[x].usingAny)
        /\ Cardinality(Busy') = IF x \in Busy THEN Cardinality(Busy) - 1 ELSE Cardinality(Busy)
    <3>1. x \in Busy <=> rec[x].usingAny
      BY DEF Busy
    <3> QED BY <2>1, <3>1, FiniteCounts, FS_RemoveElement
  <2>3. Cardinality(Busy') \in Nat /\ Cardinality(Busy) \in Nat
    BY <2>2, FS_CardinalityType
  <2> QED BY <1>0, <1>1, <2>2, <2>3, Constants DEF Counters
<1>15. Counters'
  <2>1. Queued' = Queued
    BY <1>1 DEF Queued
  <2> QED BY <1>0, <1>1, <1>2, <1>6, <1>14, <2>1 DEF Counters
<1>16. Hands'
  <2>1. TypeOK'
    BY <1>0, <1>1, <1>2, <1>4, <1>6, <1>7, <1>14 DEF TypeOK
  <2>2. \A v \in Worker : pc'[v] \notin {"clear", "done"}
    BY <1>0, <1>7, ActorParts DEF Hands
  <2>3. \A b \in Actor : /\ cur'[b] \in Rec <=> pc'[b] \in {"lookup", "deliver"}
                         /\ pc'[b] # "deliver" => cbs'[b] = {}
    BY <1>0, <1>7 DEF Hands
  <2> QED BY <1>0, <1>1, <1>2, <2>1, <2>2, <2>3 DEF Hands
<1>17. Lists'
  <2>1. mShutdown => mEvictionQ' = <<>> /\ \A h \in Host : mDB'[h] = NoRec
    <3>1. mShutdown => \A z \in Rec : z \notin ToSet(mEvictionQ')
      BY <1>0, <1>5, <1>6, EmptyList DEF Lists
    <3>2. (\A z \in Rec : z \notin ToSet(mEvictionQ')) => mEvictionQ' = <<>>
      <4>1. mEvictionQ' # <<>> => Head(mEvictionQ') \in ToSet(mEvictionQ') /\ Head(mEvictionQ') \in Rec
        BY <1>6, TailSet
      <4> QED BY <4>1
    <3> QED BY <1>0, <1>5, <3>1, <3>2 DEF Lists
  <2> QED BY <1>0, <1>1, <1>2, <1>6, <2>1 DEF Lists
<1> QED BY <1>11, <1>12, <1>13, <1>15, <1>16, <1>17 DEF Resolving

LEMMA LookupEnds ==
  ASSUME Resolving, NEW w \in Worker, NEW success \in BOOLEAN, OnLookupComplete(w, success)
  PROVE  Resolving'
<1>1. PICK x : x = cur[w]
  OBVIOUS
<1>2. pc[w] = "lookup" /\ Complete(w, x, success) /\ UNCHANGED aborted /\ w \in Actor
  BY <1>1, ActorParts DEF OnLookupComplete
<1>3. x \in Rec
  BY <1>1, <1>2 DEF Resolving, Hands
<1>4. Ends(w, x)
  BY <1>1, <1>2 DEF Ends, LooksUp
<1> QED BY <1>2, <1>3, <1>4, CompleteResolving

LEMMA ClearResolving ==
  ASSUME Resolving, ClearPendingQueue
  PROVE  Resolving'
<1>1. PICK x : x = Head(aborted)
  OBVIOUS
<1>2. pc[0] = "clear" /\ aborted # <<>> /\ Complete(0, x, FALSE) /\ aborted' = Tail(aborted) /\ 0 \in Actor
  BY <1>1, ActorParts DEF ClearPendingQueue
<1>3. x \in Rec
  <2>1. aborted \in Seq(Rec)
    BY DEF Resolving, Hands, TypeOK
  <2> QED BY <1>1, <1>2, <2>1, TailSet
<1>4. Ends(0, x)
  BY <1>1, <1>2 DEF Ends
<1> QED BY <1>2, <1>3, <1>4, CompleteResolving
--------------------------------------------------------------------------------
(* Shutdown *)

(* Several records that lose a reference at once. *)
LEMMA ReleaseAll ==
  ASSUME TypeOK, NEW S, \A z \in Rec : z \in S => rec[z].refc # 0,
         rec' = [z \in Rec |-> IF z \in S THEN Released(rec, z, 1)[z] ELSE rec[z]]
  PROVE  /\ rec' \in [Rec -> nsHostRecord]
         /\ \A z \in Rec : /\ rec'[z].refc = rec[z].refc - One(z \in S)
                           /\ z \notin S => rec'[z] = rec[z]
                           /\ z \in S /\ rec'[z].refc = 0 => rec'[z] = NoRecord
                           /\ rec'[z].refc # 0 => SameShape(z) /\ rec'[z].callbacks = rec[z].callbacks
<1>1. ASSUME NEW z \in Rec
      PROVE  /\ rec'[z] \in nsHostRecord /\ rec'[z].refc = rec[z].refc - One(z \in S)
             /\ z \notin S => rec'[z] = rec[z]
             /\ z \in S /\ rec'[z].refc = 0 => rec'[z] = NoRecord
             /\ rec'[z].refc # 0 => SameShape(z) /\ rec'[z].callbacks = rec[z].callbacks
  <2>1. rec[z] \in nsHostRecord /\ rec[z].refc \in Nat
    BY DEF TypeOK, nsHostRecord
  <2>2. CASE z \notin S
    BY <2>1, <2>2 DEF One, SameShape
  <2>3. CASE z \in S /\ rec[z].refc = 1
    <3>1. rec'[z] = NoRecord
      BY <2>3 DEF Released, TypeOK
    <3>2. NoRecord \in nsHostRecord /\ NoRecord.refc = 0
      BY DEF NoRecord, nsHostRecord, Priority
    <3> QED BY <2>1, <2>3, <3>1, <3>2 DEF One
  <2>4. CASE z \in S /\ rec[z].refc # 1
    <3> DEFINE g == [rec[z] EXCEPT !.refc = rec[z].refc - 1]
    <3>1. rec'[z] = g /\ rec[z].refc - 1 \in Nat /\ rec[z].refc - 1 # 0
      <4>1. Released(rec, z, 1)[z] = g
        BY <2>4 DEF Released, TypeOK
      <4> HIDE DEF g
      <4> QED BY <2>1, <2>4, <4>1
    <3>2. g \in nsHostRecord
      BY <2>1, <3>1, Updates
    <3>3. g.refc = rec[z].refc - 1 /\ g.host = rec[z].host /\ g.resolving = rec[z].resolving /\ g.onQueue = rec[z].onQueue
      BY <2>1 DEF nsHostRecord
    <3>4. g.usingAny = rec[z].usingAny /\ g.flags = rec[z].flags /\ g.callbacks = rec[z].callbacks
      BY <2>1 DEF nsHostRecord
    <3> HIDE DEF g
    <3> QED BY <2>1, <2>4, <3>1, <3>2, <3>3, <3>4 DEF One, SameShape
  <2> QED BY <2>2, <2>3, <2>4
<1> QED BY <1>1

LEMMA ShutdownResolving ==
  ASSUME Resolving, Shutdown
  PROVE  Resolving'
<1> USE DEF counts, locals, requests
<1>0. Hands /\ TypeOK /\ Lists /\ Places /\ References /\ Callbacks /\ Counters
  BY DEF Resolving, Hands
<1>1. /\ ~mShutdown /\ pc[0] = "none" /\ mShutdown' = TRUE
      /\ aborted' = queue["high"] \o queue["medium"] \o queue["low"]
      /\ evicted' = mEvictionQ
      /\ queue' = [p \in Priority |-> <<>>]
      /\ mEvictionQ' = <<>> /\ mEvictionQSize' = 0 /\ mPendingCount' = 0
      /\ pc' = [a \in Actor |-> CASE a = 0 -> "clear" [] a \in Idle -> "woken" [] OTHER -> pc[a]]
      /\ rec' = [x \in Rec |-> IF x \in InDB THEN Released(rec, x, 1)[x] ELSE rec[x]]
      /\ mDB' = [h \in Host |-> NoRec]
      /\ UNCHANGED <<counts, locals, requests>>
  BY DEF Shutdown
<1>2. \A z \in Rec : (z \in InDB <=> Known(z)) /\ (Known(z) => rec[z].refc # 0)
  <2> SUFFICES ASSUME NEW z \in Rec PROVE (z \in InDB <=> Known(z)) /\ (Known(z) => rec[z].refc # 0)
    OBVIOUS
  <2>1. z \in InDB <=> Known(z)
    BY Constants DEF InDB, Known
  <2>2. Known(z) => rec[z].refc # 0
    BY <1>0, FiniteUsers DEF References, Counted, One
  <2> QED BY <2>1, <2>2
<1>3. /\ rec' \in [Rec -> nsHostRecord]
      /\ \A z \in Rec : /\ rec'[z].refc = rec[z].refc - One(Known(z))
                        /\ ~Known(z) => rec'[z] = rec[z]
                        /\ Known(z) /\ rec'[z].refc = 0 => rec'[z] = NoRecord
                        /\ rec'[z].refc # 0 => SameShape(z) /\ rec'[z].callbacks = rec[z].callbacks
  <2> DEFINE S == InDB
  <2>1. \A z \in Rec : z \in S => rec[z].refc # 0
    BY <1>2
  <2>2. /\ rec' \in [Rec -> nsHostRecord]
        /\ \A z \in Rec : /\ rec'[z].refc = rec[z].refc - One(z \in S)
                          /\ z \notin S => rec'[z] = rec[z]
                          /\ z \in S /\ rec'[z].refc = 0 => rec'[z] = NoRecord
                          /\ rec'[z].refc # 0 => SameShape(z) /\ rec'[z].callbacks = rec[z].callbacks
    BY <1>0, <1>1, <2>1, ReleaseAll
  <2>3. \A z \in Rec : One(z \in S) = One(Known(z))
    BY <1>2 DEF One
  <2> QED BY <1>2, <2>2, <2>3
<1>4. /\ \A p \in Priority : queue'[p] = <<>> /\ ToSet(queue'[p]) = {} /\ Distinct(queue'[p])
      /\ queue' \in [Priority -> Seq(Rec)] /\ ToSet(mEvictionQ') = {} /\ Distinct(mEvictionQ')
      /\ mDB' \in [Host -> Rec \cup {NoRec}] /\ \A h \in Host : mDB'[h] = NoRec
  <2>1. <<>> \in Seq(Rec)
    OBVIOUS
  <2> QED BY <1>1, <2>1, EmptyList
<1>5. /\ aborted' \in Seq(Rec) /\ Distinct(aborted')
      /\ \A z : z \in ToSet(aborted') <=> \E p \in Priority : z \in ToSet(queue[p])
  <2>1. /\ queue["high"] \in Seq(Rec) /\ queue["medium"] \in Seq(Rec) /\ queue["low"] \in Seq(Rec)
        /\ Distinct(queue["high"]) /\ Distinct(queue["medium"]) /\ Distinct(queue["low"])
    BY <1>0 DEF TypeOK, Lists, Priority
  <2>2. \A z \in Rec : \A p, q \in Priority : z \in ToSet(queue[p]) /\ z \in ToSet(queue[q]) => p = q
    BY <1>0 DEF Places
  <2>3. \A p \in Priority : ToSet(queue[p]) \subseteq Rec
    BY <1>0 DEF TypeOK, ToSet
  <2>4. /\ ToSet(queue["high"]) \cap ToSet(queue["medium"]) = {}
        /\ (ToSet(queue["high"]) \cup ToSet(queue["medium"])) \cap ToSet(queue["low"]) = {}
    BY <2>2, <2>3 DEF Priority
  <2> DEFINE s == queue["high"] \o queue["medium"]
             t == s \o queue["low"]
  <2>5. s \in Seq(Rec) /\ ToSet(s) = ToSet(queue["high"]) \cup ToSet(queue["medium"]) /\ Distinct(s)
    BY <2>1, <2>4, ConcatSet
  <2> HIDE DEF s
  <2>6. t \in Seq(Rec) /\ ToSet(t) = ToSet(s) \cup ToSet(queue["low"]) /\ Distinct(t)
    BY <2>1, <2>4, <2>5, ConcatSet
  <2>7. aborted' = t
    BY <1>1 DEF s
  <2> HIDE DEF t
  <2> QED BY <2>5, <2>6, <2>7 DEF Priority
<1>6. /\ pc'[0] = "clear"
      /\ \A w \in Worker : pc'[w] = IF pc[w] = "idle" THEN "woken" ELSE pc[w]
      /\ pc' \in [Actor -> Points]
  <2>1. \A a \in Actor : pc'[a] = CASE a = 0 -> "clear" [] a \in Idle -> "woken" [] OTHER -> pc[a]
    BY <1>1
  <2>2. 0 \notin Idle /\ \A w \in Worker : w \in Idle <=> pc[w] = "idle"
    BY ActorParts DEF Idle
  <2>3. pc'[0] = "clear"
    BY <2>1, <2>2, ActorParts
  <2>4. \A w \in Worker : pc'[w] = IF pc[w] = "idle" THEN "woken" ELSE pc[w]
    BY <2>1, <2>2, ActorParts
  <2>5. \A a \in Actor : pc'[a] \in Points
    BY <1>0, <2>3, <2>4, ActorParts DEF TypeOK, Points
  <2> QED BY <1>1, <2>3, <2>4, <2>5
<1>7. /\ \A z \in Rec : (Waits(z)' <=> Waits(z)) /\ (Kept(z)' <=> Kept(z)) /\ ~Known(z)'
      /\ \A z : Users(z)' = Users(z) /\ Holders(z)' = Holders(z)
      /\ \A w \in Worker, z \in Rec : LooksUp(w, z)' <=> LooksUp(w, z)
  <2>1. ToSet(aborted) = {} /\ ToSet(evicted) = {}
    BY <1>0, <1>1, EmptyList DEF Lists
  <2>2. \A z \in Rec : Waits(z)' <=> Waits(z)
    BY <1>4, <1>5, <2>1 DEF Waits
  <2>3. \A z \in Rec : Kept(z)' <=> Kept(z)
    BY <1>1, <1>4, <2>1 DEF Kept
  <2>4. \A z \in Rec : ~Known(z)'
    BY <1>4, Constants DEF Known
  <2>5. \A w \in Worker, z \in Rec : LooksUp(w, z)' <=> LooksUp(w, z)
    BY <1>1, <1>6 DEF LooksUp
  <2> QED BY <1>1, <2>2, <2>3, <2>4, <2>5, SameLists
<1>8. References'
  <2> SUFFICES ASSUME NEW z \in Rec PROVE Counted(z)'
    BY DEF References
  <2>1. Counted(z) /\ Cardinality(Users(z)) \in Nat /\ Cardinality(Holders(z)) \in Nat /\ rec[z].refc \in Nat
    BY <1>0, FiniteUsers DEF References, TypeOK, nsHostRecord
  <2>2. rec'[z].refc = One(Known(z)') + One(Waits(z)') + One(Kept(z)') + Cardinality(Users(z)') + Cardinality(Holders(z)')
    BY <1>3, <1>7, <2>1 DEF Counted, One
  <2>3. rec'[z].refc = 0 => rec'[z] = NoRecord
    BY <1>3, <2>1 DEF Counted
  <2> QED BY <2>2, <2>3 DEF Counted
<1>9. ASSUME NEW z \in Rec
      PROVE  /\ rec'[z].resolving = rec[z].resolving /\ rec'[z].usingAny = rec[z].usingAny
             /\ rec'[z].callbacks = rec[z].callbacks \/ rec'[z] = NoRecord
             /\ rec[z].resolving => SameShape(z)
  <2>1. CASE rec'[z].refc # 0
    BY <1>3, <2>1 DEF SameShape
  <2>2. CASE rec'[z].refc = 0
    <3>1. rec'[z] = NoRecord /\ Gone(z)'
      BY <1>8, <2>2, VanishThen DEF Vanish, References, Counted
    <3>2. ~Waits(z)' /\ \A a \in Actor : cur'[a] # z
      BY <3>1 DEF Gone
    <3>3. ~Waits(z) /\ \A w \in Worker : ~LooksUp(w, z)
      BY <1>1, <1>7, <3>2, ActorParts DEF LooksUp
    <3>4. rec[z] \in nsHostRecord /\ ~rec[z].resolving /\ ~rec[z].usingAny
      BY <1>0, <3>3 DEF Places, TypeOK
    <3>5. rec[z].resolving = FALSE /\ rec[z].usingAny = FALSE
      BY <3>4 DEF nsHostRecord
    <3>6. rec'[z].resolving = FALSE /\ rec'[z].usingAny = FALSE
      BY <3>1 DEF NoRecord
    <3> QED BY <3>1, <3>5, <3>6
  <2> QED BY <2>1, <2>2
<1>10. Places'
  <2>1. ASSUME NEW z \in Rec, NEW w \in Worker, LooksUp(w, z)'
        PROVE  ~Waits(z)' /\ ~rec'[z].onQueue /\ \A v \in Worker : LooksUp(v, z)' => v = w
    <3>1. LooksUp(w, z) /\ rec[z].resolving
      BY <1>0, <1>7, <2>1 DEF Places
    <3> QED BY <1>0, <1>7, <1>9, <3>1 DEF Places, SameShape
  <2>2. ASSUME NEW z \in Rec
        PROVE  /\ rec'[z].resolving <=> Waits(z)' \/ \E w \in Worker : LooksUp(w, z)'
               /\ rec'[z].usingAny => \E w \in Worker : LooksUp(w, z)'
    BY <1>0, <1>7, <1>9 DEF Places
  <2> QED BY <1>1, <1>4, <2>1, <2>2 DEF Places
<1>11. Callbacks'
  <2>1. \A t \in Request, z \in Rec : Listed(t, z)' <=> Listed(t, z)
    BY <1>0, <1>9, FadeCallbacks
  <2>2. \A t \in Request, a \in Actor : Called(t, a)' <=> Called(t, a)
    BY <1>1, SameLists
  <2> QED BY <1>0, <1>1, <1>9, <2>1, <2>2 DEF Callbacks
<1>12. Counters'
  <2>1. Queued' = {}
    BY <1>4 DEF Queued
  <2>2. Live' = Live /\ Resting' = Resting
    BY <1>6 DEF Live, Resting
  <2>3. Busy' = Busy
    BY <1>9 DEF Busy
  <2>4. Len(mEvictionQ') = 0
    BY <1>1
  <2> QED BY <1>0, <1>1, <2>1, <2>2, <2>3, <2>4, FS_EmptySet, Constants DEF Counters
<1>13. Hands'
  <2>1. TypeOK'
    <3>1. {mEvictionQSize', mPendingCount', mNumIdleThreads', mThreadCount', mActiveAnyThreadCount', nReq'} \subseteq Nat
      BY <1>0, <1>1 DEF TypeOK
    <3>2. {mEvictionQ', aborted', evicted'} \subseteq Seq(Rec)
      <4>1. <<>> \in Seq(Rec)
        OBVIOUS
      <4> QED BY <1>0, <1>1, <1>5, <4>1 DEF TypeOK
    <3> QED BY <1>0, <1>1, <1>3, <1>4, <1>6, <3>1, <3>2 DEF TypeOK
  <2>2. cur[0] \notin Rec /\ cbs[0] = {}
    BY <1>0, <1>1, ActorParts DEF Hands
  <2>3. \A a \in Actor : /\ cur'[a] \in Rec <=> pc'[a] \in {"lookup", "deliver"}
                         /\ pc'[a] # "deliver" => cbs'[a] = {}
    BY <1>0, <1>1, <1>6, <2>2, ActorParts DEF Hands
  <2>4. \A w \in Worker : pc'[w] \notin {"clear", "done"}
    BY <1>0, <1>6 DEF Hands
  <2> QED BY <1>0, <1>1, <1>6, <2>1, <2>3, <2>4 DEF Hands
<1>14. Lists'
  BY <1>0, <1>1, <1>4, <1>5 DEF Lists
<1> QED BY <1>8, <1>10, <1>11, <1>12, <1>13, <1>14 DEF Resolving

LEMMA ReleaseEvictedResolving ==
  ASSUME Resolving, ReleaseEvicted
  PROVE  Resolving'
<1> USE DEF counts, locals, requests
<1> DEFINE S == ToSet(evicted)
<1>0. Hands /\ TypeOK /\ Lists /\ Places /\ References /\ Callbacks /\ Counters
  BY DEF Resolving, Hands
<1>1. /\ pc[0] = "clear" /\ evicted' = <<>> /\ pc' = [pc EXCEPT ![0] = "done"]
      /\ rec' = [x \in Rec |-> IF x \in S THEN Released(rec, x, 1)[x] ELSE rec[x]]
      /\ UNCHANGED <<mDB, queue, mEvictionQ, mEvictionQSize, mPendingCount, counts, locals, mShutdown, aborted, requests>>
  BY DEF ReleaseEvicted
<1>2. mShutdown /\ \A z : Kept(z) <=> z \in S
  BY <1>0, <1>1, EmptyList DEF Lists, Kept
<1>3. \A z : ~Kept(z)'
  BY <1>0, <1>1, <1>2, EmptyList DEF Lists, Kept
<1> HIDE DEF S
<1>4. /\ rec' \in [Rec -> nsHostRecord]
      /\ \A z \in Rec : /\ rec'[z].refc = rec[z].refc - One(z \in S)
                        /\ z \notin S => rec'[z] = rec[z]
                        /\ z \in S /\ rec'[z].refc = 0 => rec'[z] = NoRecord
                        /\ rec'[z].refc # 0 => SameShape(z) /\ rec'[z].callbacks = rec[z].callbacks
  <2>1. \A z \in Rec : z \in S => rec[z].refc # 0
    BY <1>0, <1>2, FiniteUsers DEF References, Counted, One
  <2> QED BY <1>0, <1>1, <2>1, ReleaseAll
<1>5. /\ pc' \in [Actor -> Points] /\ pc'[0] = "done" /\ \A w \in Worker : pc'[w] = pc[w]
  BY <1>0, <1>1, ActorParts DEF TypeOK, Points
<1>6. References'
  <2> SUFFICES ASSUME NEW z \in Rec PROVE Counted(z)'
    BY DEF References
  <2>1. Counted(z) /\ Cardinality(Users(z)) \in Nat /\ Cardinality(Holders(z)) \in Nat /\ rec[z].refc \in Nat
    BY <1>0, FiniteUsers DEF References, TypeOK, nsHostRecord
  <2>2. (Known(z)' <=> Known(z)) /\ (Waits(z)' <=> Waits(z)) /\ Users(z)' = Users(z) /\ Holders(z)' = Holders(z)
    BY <1>1, SameLists
  <2>3. rec'[z].refc = One(Known(z)') + One(Waits(z)') + One(Kept(z)') + Cardinality(Users(z)') + Cardinality(Holders(z)')
    BY <1>2, <1>3, <1>4, <2>1, <2>2 DEF Counted, One
  <2>4. rec'[z].refc = 0 => rec'[z] = NoRecord
    BY <1>4, <2>1 DEF Counted
  <2> QED BY <2>3, <2>4 DEF Counted
<1>7. /\ Places'
      /\ \A z \in Rec : rec'[z].resolving = rec[z].resolving /\ rec'[z].usingAny = rec[z].usingAny
  <2>1. \A z \in Rec : Fades(z)
    BY <1>4 DEF Fades, SameShape
  <2>2. \A w \in Worker, z \in Rec : LooksUp(w, z)' <=> LooksUp(w, z)
    BY <1>1, <1>5 DEF LooksUp
  <2> QED BY <1>1, <1>4, <1>6, <2>1, <2>2, FadePlaces
<1>8. Callbacks'
  <2>1. \A t \in Request, z \in Rec : Listed(t, z)' <=> Listed(t, z)
    <3>1. \A z \in Rec : rec'[z].callbacks = rec[z].callbacks \/ rec'[z] = NoRecord
      BY <1>4
    <3> QED BY <1>0, <1>7, <3>1, FadeCallbacks
  <2>2. \A t \in Request, a \in Actor : Called(t, a)' <=> Called(t, a)
    BY <1>1, SameLists
  <2> QED BY <1>0, <1>1, <1>7, <2>1, <2>2 DEF Callbacks
<1>9. Counters'
  <2>1. Live' = Live /\ Resting' = Resting
    BY <1>5 DEF Live, Resting
  <2> QED BY <1>0, <1>1, <1>7, <2>1, SameCounters
<1>10. Hands'
  <2>1. TypeOK'
    <3>1. <<>> \in Seq(Rec)
      OBVIOUS
    <3> QED BY <1>0, <1>1, <1>4, <1>5, <3>1 DEF TypeOK
  <2>2. \A a \in Actor : /\ cur'[a] \in Rec <=> pc'[a] \in {"lookup", "deliver"}
                         /\ pc'[a] # "deliver" => cbs'[a] = {}
    BY <1>0, <1>1, <1>5, ActorParts DEF Hands
  <2> QED BY <1>0, <1>1, <1>5, <2>1, <2>2 DEF Hands
<1>11. Lists'
  BY <1>0, <1>1, <1>2, EmptyList DEF Lists
<1> QED BY <1>6, <1>7, <1>8, <1>9, <1>10, <1>11 DEF Resolving

LEMMA StutterResolving ==
  ASSUME Resolving, UNCHANGED vars
  PROVE  Resolving'
<1> USE DEF vars, cache, counts, locals, closing, requests
<1>1. Drifts
  BY DEF Drifts, Resolving, Hands, TypeOK
<1>2. Hands' /\ Lists' /\ Places' /\ References' /\ Callbacks'
  BY <1>1, DriftKeeps DEF Resolving, Hands, TypeOK
<1>3. Counters'
  BY SameCounters DEF Resolving, Live, Resting
<1> QED BY <1>2, <1>3 DEF Resolving

LEMMA NextResolving == Resolving /\ [Next]_vars => Resolving'
<1> SUFFICES ASSUME Resolving, [Next]_vars PROVE Resolving'
  OBVIOUS
<1>1. ASSUME NEW c \in Calls, ResolveHost(c.host, c.priority, c.bypass) PROVE Resolving'
  <2>1. c.host \in Host /\ c.priority \in Priority /\ c.bypass \in BOOLEAN
    BY ResolverAssumption
  <2> QED BY <1>1, <2>1, UseResultResolving, UseFailureResolving, QueueFullResolving, NewLookupResolving,
             JoinLookupResolving DEF ResolveHost
<1>2. ASSUME NEW h \in Host, NEW r \in Request, DetachCallback(h, r) PROVE Resolving'
  BY <1>2, DetachResolving
<1>3. ASSUME AfterShutdown PROVE Resolving'
  BY <1>3, AfterShutdownResolving
<1>4. ASSUME NEW r \in Request, CallBack(r) PROVE Resolving'
  BY <1>4, CallBackResolving
<1>5. ASSUME NEW w \in Worker, WorkerStep(w) \/ TimeOut(w) PROVE Resolving'
  BY <1>5, SleepResolving, DeQueueResolving, DeliverResolving, LookupEnds, ActorParts DEF WorkerStep
<1>6. ASSUME Shutdown \/ ShutdownStep PROVE Resolving'
  BY <1>6, ShutdownResolving, ClearResolving, ReleaseEvictedResolving, DeliverResolving, ActorParts DEF ShutdownStep
<1>7. ASSUME UNCHANGED vars PROVE Resolving'
  BY <1>7, StutterResolving
<1> QED BY <1>1, <1>2, <1>3, <1>4, <1>5, <1>6, <1>7 DEF Next

(* nsHostResolver keeps its records, their references, its callbacks and     *)
(* its counters in step with each other, whatever callers, workers and       *)
(* Shutdown do, for any limits and any number of hosts, threads and calls.   *)
THEOREM AlwaysResolving == Spec => []Resolving
BY InitResolving, NextResolving, PTL DEF Spec
--------------------------------------------------------------------------------
(* What the invariant says of the numbers in the properties *)

LEMMA Positions ==
  ASSUME NEW s, Distinct(s), NEW x
  PROVE  Cardinality({i \in DOMAIN s : s[i] = x}) = One(x \in ToSet(s))
<1>1. Cardinality({i \in DOMAIN s : s[i] = x}) = One({i \in DOMAIN s : s[i] = x} # {})
  BY CardOne DEF Distinct
<1>2. {i \in DOMAIN s : s[i] = x} # {} <=> x \in ToSet(s)
  BY DEF ToSet
<1> QED BY <1>1, <1>2 DEF One

LEMMA WaitsOnce ==
  ASSUME Resolving, NEW x \in Rec
  PROVE  Cardinality({p \in Priority : x \in ToSet(queue[p])}) + Cardinality({i \in DOMAIN aborted : aborted[i] = x})
           = One(Waits(x))
<1> DEFINE Q == {p \in Priority : x \in ToSet(queue[p])}
<1>0. Lists /\ Places
  BY DEF Resolving
<1>1. Cardinality(Q) = One(Q # {})
  BY <1>0, CardOne DEF Places
<1>2. Q # {} <=> \E p \in Priority : x \in ToSet(queue[p])
  OBVIOUS
<1>3. Cardinality({i \in DOMAIN aborted : aborted[i] = x}) = One(x \in ToSet(aborted))
  BY <1>0, Positions DEF Lists
<1>4. ~(Q # {} /\ x \in ToSet(aborted))
  BY <1>0, <1>2, EmptyList DEF Lists
<1> HIDE DEF Q
<1>5. Waits(x) <=> Q # {} \/ x \in ToSet(aborted)
  BY <1>2 DEF Waits
<1>6. Cardinality(Q) + Cardinality({i \in DOMAIN aborted : aborted[i] = x}) = One(Waits(x))
  BY <1>1, <1>3, <1>4, <1>5 DEF One
<1> QED BY <1>6 DEF Q

LEMMA KeptOnce ==
  ASSUME Resolving, NEW x \in Rec
  PROVE  Cardinality({i \in DOMAIN mEvictionQ : mEvictionQ[i] = x}) + Cardinality({i \in DOMAIN evicted : evicted[i] = x})
           = One(Kept(x))
<1>0. Lists
  BY DEF Resolving
<1>1. /\ Cardinality({i \in DOMAIN mEvictionQ : mEvictionQ[i] = x}) = One(x \in ToSet(mEvictionQ))
      /\ Cardinality({i \in DOMAIN evicted : evicted[i] = x}) = One(x \in ToSet(evicted))
  BY <1>0, Positions DEF Lists
<1>2. ~(x \in ToSet(mEvictionQ) /\ x \in ToSet(evicted))
  BY <1>0, EmptyList DEF Lists
<1> QED BY <1>1, <1>2 DEF Kept, One

(* A record that is being resolved is on exactly one queue, or with exactly  *)
(* one worker, or among those that Shutdown has yet to fail (IssueLookup,    *)
(* ResolveHost, GetHostToLookup, OnLookupComplete, Shutdown).                *)
THEOREM LookupHasOnePlace == Spec => []ResolvedByOne
<1>1. Resolving => ResolvedByOne
  <2> SUFFICES ASSUME Resolving, NEW x \in Rec
               PROVE  /\ (Cardinality({p \in Priority : x \in ToSet(queue[p])})
                            + Cardinality({i \in DOMAIN aborted : aborted[i] = x})
                            + Cardinality({w \in Worker : pc[w] = "lookup" /\ cur[w] = x}))
                           = IF rec[x].resolving THEN 1 ELSE 0
                      /\ \A p \in Priority : x \in ToSet(queue[p]) => rec[x].flags = p /\ rec[x].onQueue
                      /\ rec[x].resolving => ~OnEvictionQ(x)
    BY DEF ResolvedByOne
  <2> DEFINE W == {w \in Worker : pc[w] = "lookup" /\ cur[w] = x}
  <2>0. Places
    BY DEF Resolving
  <2>1. \A w : w \in W <=> LooksUp(w, x)
    BY DEF LooksUp
  <2> HIDE DEF W
  <2>2. Cardinality(W) = One(W # {})
    <3>1. \A v, w \in W : v = w
      BY <2>0, <2>1 DEF Places, LooksUp
    <3> QED BY <3>1, CardOne
  <2>3. /\ W # {} <=> \E w \in Worker : LooksUp(w, x)
        /\ ~(Waits(x) /\ W # {})
        /\ rec[x].resolving <=> Waits(x) \/ W # {}
    <3>1. W # {} <=> \E w \in Worker : LooksUp(w, x)
      BY <2>1 DEF LooksUp
    <3> QED BY <2>0, <3>1 DEF Places
  <2>4. One(Waits(x)) + Cardinality(W) = IF rec[x].resolving THEN 1 ELSE 0
    BY <2>2, <2>3 DEF One
  <2>5. (Cardinality({p \in Priority : x \in ToSet(queue[p])}) + Cardinality({i \in DOMAIN aborted : aborted[i] = x})
          + Cardinality(W)) = IF rec[x].resolving THEN 1 ELSE 0
    BY <2>4, WaitsOnce
  <2> QED BY <2>0, <2>5 DEF Places, OnEvictionQ, W
<1> QED BY <1>1, AlwaysResolving, PTL

(* A callback is called at most once, and until then it is in one list or    *)
(* in one thread's hands, however completion, DetachCallback and Shutdown    *)
(* race (OnLookupComplete, DetachCallback, ClearPendingQueue).               *)
THEOREM CallbacksOnce == Spec => []CalledOnce
<1>1. Resolving => CalledOnce
  <2> SUFFICES ASSUME Resolving, NEW r \in Request
               PROVE  /\ req[r].calls <= 1
                      /\ (Cardinality({x \in Rec : r \in rec[x].callbacks /\ rec[x].resolving})
                            + Cardinality({a \in Actor : r \in cbs[a]})) = IF req[r].at = "pending" THEN 1 ELSE 0
    BY DEF CalledOnce
  <2> DEFINE X == {x \in Rec : r \in rec[x].callbacks /\ rec[x].resolving}
             A == {a \in Actor : r \in cbs[a]}
  <2>0. Callbacks /\ Hands
    BY DEF Resolving
  <2>1. /\ \A x : x \in X <=> Listed(r, x)
        /\ \A a : a \in A <=> Called(r, a)
    BY <2>0 DEF Listed, Called, Callbacks
  <2>2. \A x \in X : x \in Rec
    OBVIOUS
  <2>3. \A a \in A : a \in Actor
    OBVIOUS
  <2> HIDE DEF X, A
  <2>4. (\A x, y \in X : x = y) /\ (\A a, b \in A : a = b)
    BY <2>0, <2>1, <2>2, <2>3 DEF Callbacks
  <2>5. Cardinality(X) = One(X # {}) /\ Cardinality(A) = One(A # {})
    BY <2>4, CardOne
  <2>6. ~(X # {} /\ A # {}) /\ (req[r].at = "pending" <=> X # {} \/ A # {})
    BY <2>0, <2>1, <2>2, <2>3 DEF Callbacks
  <2>7. Cardinality(X) + Cardinality(A) = IF req[r].at = "pending" THEN 1 ELSE 0
    BY <2>5, <2>6 DEF One
  <2>8. req[r].calls <= 1
    BY <2>0 DEF Hands, One
  <2> QED BY <2>7, <2>8 DEF X, A
<1> QED BY <1>1, AlwaysResolving, PTL

(* The reference count of a record is the number of places that refer to     *)
(* it, so that the last Release frees it and no earlier one does             *)
(* (nsHostRecord::Release, IssueLookup, OnLookupComplete, Shutdown).         *)
THEOREM ReferencesCounted == Spec => []ReferencesExact
<1>1. Resolving => ReferencesExact
  <2> SUFFICES ASSUME Resolving, NEW x \in Rec PROVE rec[x].refc = Owners(x)
    BY DEF ReferencesExact
  <2> DEFINE k == IF x \in InDB THEN 1 ELSE 0
             c1 == Cardinality({p \in Priority : x \in ToSet(queue[p])})
             c2 == Cardinality({i \in DOMAIN aborted : aborted[i] = x})
             c3 == Cardinality({i \in DOMAIN mEvictionQ : mEvictionQ[i] = x})
             c4 == Cardinality({i \in DOMAIN evicted : evicted[i] = x})
             c5 == Cardinality({a \in Actor : cur[a] = x})
             c6 == Cardinality({r \in Request : req[r].rec = x})
  <2>1. Owners(x) = k + c1 + c2 + c3 + c4 + c5 + c6
    BY DEF Owners
  <2>2. k = One(Known(x))
    BY Constants DEF InDB, Known, One
  <2>3. c1 + c2 = One(Waits(x)) /\ c3 + c4 = One(Kept(x))
    BY WaitsOnce, KeptOnce
  <2>4. c5 = Cardinality(Users(x)) /\ c6 = Cardinality(Holders(x))
    BY DEF Users, Holders
  <2>5. c1 \in Nat /\ c2 \in Nat /\ c3 \in Nat /\ c4 \in Nat
    <3>0. Lists /\ Places
      BY DEF Resolving
    <3>1. c2 \in Nat /\ c3 \in Nat /\ c4 \in Nat
      <4>1. c2 = One(x \in ToSet(aborted)) /\ c3 = One(x \in ToSet(mEvictionQ)) /\ c4 = One(x \in ToSet(evicted))
        BY <3>0, Positions DEF Lists
      <4> HIDE DEF c2, c3, c4
      <4> QED BY <4>1 DEF One
    <3>2. c1 = One({p \in Priority : x \in ToSet(queue[p])} # {})
      BY <3>0, CardOne DEF Places
    <3> QED BY <3>1, <3>2 DEF One
  <2>6. rec[x].refc = One(Known(x)) + One(Waits(x)) + One(Kept(x)) + Cardinality(Users(x)) + Cardinality(Holders(x))
    BY DEF Resolving, References, Counted
  <2> HIDE DEF k, c1, c2, c3, c4, c5, c6
  <2>7. c5 \in Nat /\ c6 \in Nat /\ One(Known(x)) \in Nat
    BY <2>4, FiniteUsers DEF One
  <2> QED BY <2>1, <2>2, <2>3, <2>4, <2>5, <2>6, <2>7
<1> QED BY <1>1, AlwaysResolving, PTL

(* mPendingCount, mEvictionQSize, mThreadCount, mNumIdleThreads and          *)
(* mActiveAnyThreadCount say what they stand for and keep to their limits    *)
(* (IssueLookup, ConditionallyCreateThread, GetHostToLookup,                 *)
(* OnLookupComplete, ThreadFunc).                                            *)
THEOREM CountersExact == Spec => []CountsExact
<1>1. Resolving => CountsExact
  BY DEF Resolving, Hands, Counters, CountsExact, Live, Resting, Busy
<1> QED BY <1>1, AlwaysResolving, PTL

================================================================================
