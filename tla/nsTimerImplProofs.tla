--------------------------- MODULE nsTimerImplProofs ---------------------------
(***************************************************************************)
(* Proofs about nsTimerImpl, for any number of timers and any bounds.      *)
(*                                                                         *)
(* Timing, which holds whatever the timers are, says who owns a timer and  *)
(* that its reference count is the number of its owners: that is what      *)
(* keeps a timer alive while anybody uses it.                              *)
(*                                                                         *)
(* Repeating, Sorted and Awake add what the list looks like.  They need    *)
(* hypotheses on what the timers are used for, because the code does not   *)
(* promise it otherwise: the timer thread adds a precise timer to the list *)
(* without looking whether the user has just done so (Repeating), SetDelay *)
(* inside the timer's own callback moves a deadline without moving the     *)
(* timer (Sorted), and after a sleep notification the timer thread rests   *)
(* whatever is in the list (Awake).                                        *)
(***************************************************************************)
EXTENDS nsTimerImpl, FiniteSets, TLAPS, FiniteSetTheorems, SequenceTheorems, WellFoundedInduction

(* How often t occurs in s. *)
Occ(s, t) == Cardinality({i \in 1..Len(s) : s[i] = t})
One(b) == IF b THEN 1 ELSE 0
(* The timers of the events in the user's queue. *)
Posted == [i \in 1..Len(events) |-> events[i].t]

(* The owners of a timer: the list, the copy of it that Shutdown works     *)
(* through, the events, the timer thread, the event that is being run, the *)
(* user.                                                                   *)
Refs(t) == Occ(mTimers, t) + Occ(timers, t) + Occ(Posted, t)
             + One(timer = t) + One(fired = t) + One(t \in held)

RefsExact == \A t \in Timer : mRefCnt[t] = Refs(t)

(* Where Run has a timer in its hands, and where InitCommon is. *)
Handling == {"post", "type", "add", "dispatch", "drop"}
Initialising == {"init_remove", "init_generation", "init_delay", "init_add"}

(* What the locals of the two threads tell about where they are.  While    *)
(* the user is in a call no timer is being added by Fire; timers are left  *)
(* to release only after mShutdown was set, and the list is empty then.    *)
Places ==
  /\ timer = NoTimer <=> thread \notin Handling
  /\ fired = NoTimer <=> firing = "no"
  /\ opTimer = NoTimer <=> op \in {"none", "wake"}
  /\ op \in Initialising \cup {"cancel", "delay"} => opTimer \in held
  /\ op \in {"wake", "wake_changed"} => opIndex # 0
  /\ op = "wake_changed" =>
       ~mShutdown /\ (Listed(opTimer) \/ timer = opTimer \/ Contains(Posted, opTimer))
  /\ op # "none" => firing \in {"no", "callback"} /\ timers = <<>>
  /\ timers # <<>> => firing = "no"
  /\ mShutdown <=> exit # "no"
  /\ mShutdown => mTimers = <<>>
  /\ ~mShutdown => timers = <<>>
  /\ thread \in {"drop", "exit"} => mShutdown

(* Every call to InitCommon draws at most one generation. *)
Generated == /\ gGenerator <= nCalls
             /\ op \in {"init_remove", "init_generation"} => gGenerator < nCalls

Timing == TypeOK /\ Places /\ Generated /\ RefsExact

(* The deadline of t is set and t is about to be put into the list. *)
Pending(t) == \/ op \in {"init_add", "delay", "wake_changed"} /\ opTimer = t
              \/ firing = "add" /\ fired = t

(* The timer whose deadline is set but which has not been moved yet. *)
Changing == IF op \in {"delay", "wake_changed"} THEN {opTimer} ELSE {}

(* Without precise timers the timer thread adds none by itself. *)
NonePrecise == /\ \A t \in Timer : mType[t] # "precise"
               /\ opType # "precise"
               /\ thread \notin {"add", "drop"}

(* No timer is in the list twice, and mArmed says which ones are. *)
Neat == (\A t \in Timer : Occ(mTimers, t) <= 1) /\ ArmedMeansListed

(* What was found out by testing mArmed outside the lock is still true:    *)
(* InitCommon and Fire add a timer that is not in the list.                *)
Unlisted ==
  /\ op \in {"init_generation", "init_delay", "init_add"} => ~Listed(opTimer)
  /\ firing = "add" => ~Listed(fired)

(* Somebody other than the list has a reference to t. *)
Owned(t) == t \in held \/ timer = t \/ fired = t \/ Contains(Posted, t)

(* The list is never left as the only owner, except while Release is on    *)
(* its way to take the timer out.                                          *)
LastOwner ==
  \A t \in Timer : Listed(t) => Owned(t) \/ (op \in {"release", "release_remove"} /\ opTimer = t)

(* Deadlines are close enough to each other, and to now, for               *)
(* TIMER_LESS_THAN: at most MaxDelay ahead, and not before the start; and  *)
(* a timer that is about to be added is compared with deadlines that are   *)
(* at most MaxDelay later than its own.                                    *)
Deadlines ==
  /\ \A t \in Timer : mTimeout[t] <= now + MaxDelay
  /\ \A t \in Timer : Listed(t) \/ Pending(t) => mTimeout[t] >= Start
  /\ \A t, u \in Timer : Pending(t) => mTimeout[u] <= mTimeout[t] + MaxDelay

(* Among the timers outside C, the one that is not due yet does not come   *)
(* before one that is due sooner.                                          *)
InOrder(s, C) ==
  \A i, j \in 1 .. Len(s) :
    (i < j /\ s[i] \notin C /\ s[j] \notin C /\ now < mTimeout[s[i]]) => mTimeout[s[i]] <= mTimeout[s[j]]

Repeating == NonePrecise /\ Neat /\ Unlisted /\ LastOwner
Sorted == op # "delay" /\ Deadlines /\ InOrder(mTimers, Changing)
--------------------------------------------------------------------------------
(* The list operations.  r is s with e put in at position p. *)
Widened(r, s, p, e) ==
  /\ Len(r) = Len(s) + 1 /\ p \in 1 .. Len(s) + 1 /\ r[p] = e
  /\ \A i \in 1 .. Len(s) : s[i] = IF i < p THEN r[i] ELSE r[i + 1]

(* The least index that SelectInSeq and RemoveFirst take exists. *)
LEMMA LeastIndex ==
  ASSUME NEW I \in SUBSET Nat, I # {}
  PROVE  Min(I) \in I /\ \A j \in I : Min(I) <= j
<1>1. IsWellFoundedOn(OpToRel(<, Nat), Nat)
  BY NatLessThanWellFounded
<1>2. PICK m \in I : \A y \in I : ~ (<<y, m>> \in OpToRel(<, Nat))
  BY <1>1, WFMin
<1>3. \A y \in I : ~(y < m)
  BY <1>2 DEF OpToRel
<1>4. \A y \in I : m <= y
  BY <1>3
<1> QED BY <1>4 DEF Min

LEMMA OccType ==
  ASSUME NEW S, NEW s \in Seq(S), NEW t
  PROVE  /\ IsFiniteSet({i \in 1 .. Len(s) : s[i] = t})
         /\ Occ(s, t) \in Nat
         /\ Occ(s, t) = 0 <=> ~Contains(s, t)
<1> DEFINE I == {i \in 1 .. Len(s) : s[i] = t}
<1>1. IsFiniteSet(I)
  <2>1. Len(s) \in Nat
    OBVIOUS
  <2>2. IsFiniteSet(1 .. Len(s))
    BY <2>1, FS_Interval
  <2> QED BY <2>2, FS_Subset
<1>2. Cardinality(I) \in Nat /\ (Cardinality(I) = 0 <=> I = {})
  BY <1>1, FS_CardinalityType, FS_EmptySet
<1>3. Contains(s, t) <=> I # {}
  BY DEF Contains
<1> QED BY <1>1, <1>2, <1>3 DEF Occ

LEMMA OccEmpty ==
  ASSUME NEW t
  PROVE  Occ(<<>>, t) = 0 /\ ~Contains(<<>>, t)
<1>1. <<>> \in Seq(Timer) /\ ~Contains(<<>>, t)
  BY DEF Contains
<1> QED BY <1>1, OccType

(* Put in one element, and it occurs once more. *)
LEMMA WidenedOcc ==
  ASSUME NEW S, NEW s \in Seq(S), NEW r \in Seq(S), NEW p, NEW e, Widened(r, s, p, e), NEW t
  PROVE  Occ(r, t) = Occ(s, t) + One(e = t)
<1> DEFINE I == {i \in 1 .. Len(s) : s[i] = t}
           J == {i \in 1 .. Len(r) : r[i] = t}
           f == [i \in I |-> IF i < p THEN i ELSE i + 1]
<1>1. Len(s) \in Nat /\ Len(r) = Len(s) + 1 /\ p \in 1 .. Len(s) + 1 /\ r[p] = e
  BY DEF Widened
<1>2. IsFiniteSet(I) /\ IsFiniteSet(J)
  BY OccType
<1>3. f \in Bijection(I, J \ {p})
  <2>1. ASSUME NEW i \in I PROVE f[i] \in J \ {p}
    <3>1. i \in 1 .. Len(s) /\ s[i] = t
      OBVIOUS
    <3>2. t = r[f[i]] /\ f[i] \in 1 .. Len(r) /\ f[i] # p
      BY <1>1, <3>1 DEF Widened
    <3> QED BY <3>2
  <2>2. f \in [I -> J \ {p}]
    BY <2>1
  <2>3. ASSUME NEW i \in I, NEW j \in I, f[i] = f[j] PROVE i = j
    <3>1. i \in Nat /\ j \in Nat /\ p \in Nat
      BY <1>1
    <3>2. f[i] = (IF i < p THEN i ELSE i + 1) /\ f[j] = (IF j < p THEN j ELSE j + 1)
      OBVIOUS
    <3>3. (IF i < p THEN i ELSE i + 1) = (IF j < p THEN j ELSE j + 1)
      BY <2>3, <3>2
    <3> HIDE DEF f, I
    <3> QED BY <3>1, <3>3
  <2>4. ASSUME NEW j \in J \ {p} PROVE \E i \in I : f[i] = j
    <3> DEFINE i == IF j < p THEN j ELSE j - 1
    <3>1. j \in 1 .. Len(s) + 1 /\ r[j] = t /\ j # p
      BY <1>1
    <3>2. i \in 1 .. Len(s) /\ j = (IF i < p THEN i ELSE i + 1)
      BY <1>1, <3>1
    <3>3. s[i] = IF i < p THEN r[i] ELSE r[i + 1]
      BY <3>2 DEF Widened
    <3> HIDE DEF i
    <3>4. s[i] = t
      BY <3>1, <3>2, <3>3
    <3>5. i \in I /\ f[i] = j
      BY <3>2, <3>4
    <3> QED BY <3>5
  <2> HIDE DEF f, I, J
  <2> QED BY <2>2, <2>3, <2>4 DEF Bijection, Injection, Surjection, IsInjective
<1>4. Cardinality(J \ {p}) = Cardinality(I)
  BY <1>2, <1>3, FS_Bijection DEF ExistsBijection
<1>5. Cardinality(J \ {p}) = IF p \in J THEN Cardinality(J) - 1 ELSE Cardinality(J)
  BY <1>2, FS_RemoveElement
<1>6. p \in J <=> e = t
  BY <1>1
<1>7. Cardinality(I) \in Nat /\ Cardinality(J) \in Nat
  BY <1>2, FS_CardinalityType
<1> HIDE DEF I, J
<1>8. Cardinality(J) = Cardinality(I) + One(e = t)
  BY <1>4, <1>5, <1>6, <1>7 DEF One
<1> QED BY <1>8 DEF Occ, I, J

(* What InsertAt, RemoveFirst, Tail and Append do to a sequence. *)
LEMMA InsertWidens ==
  ASSUME NEW S, NEW s \in Seq(S), NEW e \in S, NEW p \in 1 .. Len(s) + 1
  PROVE  InsertAt(s, p, e) \in Seq(S) /\ Widened(InsertAt(s, p, e), s, p, e)
<1> DEFINE n == Len(s)
           b == SubSeq(s, 1, p - 1)
           c == SubSeq(s, p, n)
           d == b \o <<e>>
           r == InsertAt(s, p, e)
<1>1. n \in Nat /\ DOMAIN s = 1 .. n /\ p \in 1 .. n + 1 /\ \A i \in 1 .. n : s[i] \in S
  OBVIOUS
<1>2. r = d \o c
  BY DEF InsertAt
<1> HIDE DEF n
<1>3. b \in Seq(S) /\ Len(b) = p - 1 /\ \A i \in 1 .. p - 1 : b[i] = s[i]
  <2>1. \A i \in 1 .. p - 1 : s[i] \in S
    BY <1>1
  <2>2. /\ b \in Seq(S) /\ Len(b) = IF 1 <= p - 1 THEN (p - 1) - 1 + 1 ELSE 0
        /\ \A i \in 1 .. (p - 1) - 1 + 1 : b[i] = s[1 + i - 1]
    BY <1>1, <2>1, SubSeqProperties
  <2> HIDE DEF b
  <2>3. (p - 1) - 1 + 1 = p - 1 /\ (p - 1 >= 0) /\ \A i \in 1 .. p - 1 : 1 + i - 1 = i
    BY <1>1
  <2> QED BY <1>1, <2>2, <2>3
<1>4. c \in Seq(S) /\ Len(c) = n - p + 1 /\ \A i \in 1 .. n - p + 1 : c[i] = s[p + i - 1]
  <2>1. \A i \in p .. n : s[i] \in S
    BY <1>1
  <2>2. /\ c \in Seq(S) /\ Len(c) = IF p <= n THEN n - p + 1 ELSE 0
        /\ \A i \in 1 .. n - p + 1 : c[i] = s[p + i - 1]
    BY <1>1, <2>1, SubSeqProperties
  <2> HIDE DEF c
  <2> QED BY <1>1, <2>2
<1> HIDE DEF b, c
<1>5. d \in Seq(S) /\ Len(d) = p /\ d[p] = e /\ \A i \in 1 .. p - 1 : d[i] = s[i]
  BY <1>1, <1>3
<1> HIDE DEF d
<1>6. /\ r \in Seq(S) /\ Len(r) = n + 1
      /\ \A i \in 1 .. n + 1 : r[i] = IF i <= p THEN d[i] ELSE c[i - p]
  <2>1. /\ d \o c \in Seq(S) /\ Len(d \o c) = Len(d) + Len(c)
        /\ \A i \in 1 .. Len(d) + Len(c) : (d \o c)[i] = IF i <= Len(d) THEN d[i] ELSE c[i - Len(d)]
    BY <1>4, <1>5, ConcatProperties
  <2>2. Len(d) + Len(c) = n + 1
    BY <1>1, <1>4, <1>5
  <2> QED BY <1>2, <1>5, <2>1, <2>2
<1> HIDE DEF r
<1>7. r[p] = e
  BY <1>1, <1>5, <1>6
<1>8. ASSUME NEW i \in 1 .. n PROVE s[i] = IF i < p THEN r[i] ELSE r[i + 1]
  <2>1. CASE i < p
    BY <1>1, <1>5, <1>6, <2>1
  <2>2. CASE ~(i < p)
    <3>1. i + 1 \in 1 .. n + 1 /\ ~(i + 1 <= p) /\ (i + 1) - p \in 1 .. n - p + 1
      BY <1>1, <2>2
    <3>2. p + ((i + 1) - p) - 1 = i
      BY <1>1
    <3>3. c[(i + 1) - p] = s[p + ((i + 1) - p) - 1]
      BY <1>4, <3>1
    <3> QED BY <1>6, <2>2, <3>1, <3>2, <3>3
  <2> QED BY <2>1, <2>2
<1> QED BY <1>1, <1>6, <1>7, <1>8 DEF Widened, n, r

LEMMA RemoveWidens ==
  ASSUME NEW S, NEW s \in Seq(S), NEW e
  PROVE  /\ RemoveFirst(s, e) \in Seq(S)
         /\ ~Contains(s, e) => RemoveFirst(s, e) = s
         /\ Contains(s, e) => \E p \in 1 .. Len(s) : Widened(s, RemoveFirst(s, e), p, e)
<1>1. CASE ~Contains(s, e)
  BY <1>1 DEF Contains, RemoveFirst
<1>2. CASE Contains(s, e)
  <2> DEFINE n == Len(s)
             I == {i \in 1 .. n : s[i] = e}
             k == Min(I)
             b == SubSeq(s, 1, k - 1)
             c == SubSeq(s, k + 1, n)
             q == RemoveAt(s, k)
  <2>1. n \in Nat /\ DOMAIN s = 1 .. n /\ \A i \in 1 .. n : s[i] \in S
    OBVIOUS
  <2>2. I # {} /\ I \subseteq Nat
    BY <1>2 DEF Contains
  <2>3. k \in 1 .. n /\ s[k] = e
    <3>1. k \in I
      BY <2>2, LeastIndex
    <3> QED BY <3>1
  <2>4. RemoveFirst(s, e) = q
    <3>1. SelectInSeq(s, LAMBDA v : v = e) = k
      BY <2>2 DEF SelectInSeq
    <3> QED BY <1>2, <3>1 DEF RemoveFirst, Contains
  <2>5. q = b \o c
    BY DEF RemoveAt
  <2> HIDE DEF k, n, I
  <2>6. b \in Seq(S) /\ Len(b) = k - 1 /\ \A i \in 1 .. k - 1 : b[i] = s[i]
    <3>1. \A i \in 1 .. k - 1 : s[i] \in S
      BY <2>1, <2>3
    <3>2. /\ b \in Seq(S) /\ Len(b) = IF 1 <= k - 1 THEN (k - 1) - 1 + 1 ELSE 0
          /\ \A i \in 1 .. (k - 1) - 1 + 1 : b[i] = s[1 + i - 1]
      BY <2>1, <2>3, <3>1, SubSeqProperties
    <3> HIDE DEF b
    <3>3. (k - 1) - 1 + 1 = k - 1 /\ (k - 1 >= 0) /\ \A i \in 1 .. k - 1 : 1 + i - 1 = i
      BY <2>1, <2>3
    <3> QED BY <2>1, <2>3, <3>2, <3>3
  <2>7. c \in Seq(S) /\ Len(c) = n - k /\ \A i \in 1 .. n - k : c[i] = s[k + i]
    <3>1. \A i \in k + 1 .. n : s[i] \in S
      BY <2>1, <2>3
    <3>2. /\ c \in Seq(S) /\ Len(c) = IF k + 1 <= n THEN n - (k + 1) + 1 ELSE 0
          /\ \A i \in 1 .. n - (k + 1) + 1 : c[i] = s[(k + 1) + i - 1]
      BY <2>1, <2>3, <3>1, SubSeqProperties
    <3> HIDE DEF c
    <3>3. n - (k + 1) + 1 = n - k /\ \A i \in 1 .. n - k : (k + 1) + i - 1 = k + i
      BY <2>1, <2>3
    <3> QED BY <2>1, <2>3, <3>2, <3>3
  <2> HIDE DEF b, c
  <2>8. /\ q \in Seq(S) /\ Len(q) = n - 1
        /\ \A i \in 1 .. n - 1 : q[i] = IF i <= k - 1 THEN b[i] ELSE c[i - (k - 1)]
    <3>1. /\ b \o c \in Seq(S) /\ Len(b \o c) = Len(b) + Len(c)
          /\ \A i \in 1 .. Len(b) + Len(c) : (b \o c)[i] = IF i <= Len(b) THEN b[i] ELSE c[i - Len(b)]
      BY <2>6, <2>7, ConcatProperties
    <3>2. Len(b) + Len(c) = n - 1
      BY <2>1, <2>3, <2>6, <2>7
    <3> QED BY <2>5, <2>6, <3>1, <3>2
  <2> HIDE DEF q
  <2>9. ASSUME NEW i \in 1 .. n - 1 PROVE q[i] = IF i < k THEN s[i] ELSE s[i + 1]
    <3>1. CASE i < k
      BY <2>1, <2>3, <2>6, <2>8, <3>1
    <3>2. CASE ~(i < k)
      <4>1. i - (k - 1) \in 1 .. n - k /\ k + (i - (k - 1)) = i + 1 /\ ~(i <= k - 1)
        BY <2>1, <2>3, <3>2
      <4> QED BY <2>7, <2>8, <3>2, <4>1
    <3> QED BY <3>1, <3>2
  <2>10. Widened(s, q, k, e)
    BY <2>1, <2>3, <2>8, <2>9 DEF Widened, n
  <2> QED BY <1>2, <2>3, <2>4, <2>8, <2>10 DEF n
<1> QED BY <1>1, <1>2

LEMMA TailWidens ==
  ASSUME NEW S, NEW s \in Seq(S), s # <<>>
  PROVE  Tail(s) \in Seq(S) /\ Head(s) \in S /\ Head(s) = s[1] /\ Widened(s, Tail(s), 1, Head(s))
<1>1. /\ Len(s) \in Nat \ {0} /\ Head(s) = s[1] /\ Head(s) \in S /\ Tail(s) \in Seq(S)
      /\ Len(Tail(s)) = Len(s) - 1 /\ \A i \in 1 .. Len(Tail(s)) : Tail(s)[i] = s[i + 1]
  BY HeadTailProperties, EmptySeq
<1> QED BY <1>1 DEF Widened

LEMMA AppendWidens ==
  ASSUME NEW S, NEW s \in Seq(S), NEW e \in S
  PROVE  Append(s, e) \in Seq(S) /\ Widened(Append(s, e), s, Len(s) + 1, e)
BY AppendProperties DEF Widened
--------------------------------------------------------------------------------
(* What the assumption on the constants says of the limits. *)
LEMMA Limits ==
  /\ Interval \in Nat /\ Limit \in Nat \ {0} /\ 2 * Limit <= Interval
  /\ MaxDelay \in Nat /\ MaxDelay + 1 = Limit
  /\ Never \in Nat /\ Start \in Nat /\ MaxTime \in Nat /\ Start <= MaxTime
  /\ MaxTime - Start + MaxAdjustment < Limit /\ MaxTime - Start < Limit
  /\ MaxAdjustment \in Nat /\ DelayLineLength \in Nat \ {0}
<1>1. /\ Interval \in Nat /\ Interval > 1 /\ Start \in Nat /\ MaxTime \in Nat /\ Start <= MaxTime
      /\ MaxTime - Start + MaxAdjustment < Interval \div 2
      /\ FeedbackMax \in Nat /\ DelayLineLength \in Nat \ {0}
  BY TimerConstants DEF MaxAdjustment
<1>2. Interval \div 2 \in Nat /\ 2 * (Interval \div 2) <= Interval /\ Interval \div 2 >= 1
  BY <1>1
<1>3. MaxAdjustment \in Nat
  BY <1>1 DEF MaxAdjustment
<1> QED BY <1>1, <1>2, <1>3 DEF Limit, MaxDelay, Never

Later(t, u) == LessThan(now, mTimeout[u]) /\ LessThan(mTimeout[t], mTimeout[u])

(* AddTimerInternal finds the first timer that is later, if there is one. *)
LEMMA PositionIs ==
  ASSUME NEW s \in Seq(Timer), NEW t \in Timer
  PROVE  /\ Position(s, t) \in 1 .. Len(s) + 1
         /\ \A i \in 1 .. Len(s) : i < Position(s, t) => ~Later(t, s[i])
         /\ Position(s, t) <= Len(s) => Later(t, s[Position(s, t)])
<1> DEFINE later(u) == LessThan(now, mTimeout[u]) /\ LessThan(mTimeout[t], mTimeout[u])
           I == {i \in 1 .. Len(s) : later(s[i])}
           k == SelectInSeq(s, later)
<1>1. Len(s) \in Nat
  OBVIOUS
<1>2. k = IF I # {} THEN Min(I) ELSE 0
  BY DEF SelectInSeq
<1>3. Position(s, t) = IF k = 0 THEN Len(s) + 1 ELSE k
  BY DEF Position
<1>4. \A i \in 1 .. Len(s) : i \in I <=> Later(t, s[i])
  BY DEF Later
<1>5. I \subseteq 1 .. Len(s) /\ I \subseteq Nat
  OBVIOUS
<1> HIDE DEF I, k
<1>6. CASE I = {}
  BY <1>1, <1>2, <1>3, <1>4, <1>6
<1>7. CASE I # {}
  <2>1. Min(I) \in I /\ \A j \in I : Min(I) <= j
    BY <1>5, <1>7, LeastIndex
  <2>2. Min(I) \in 1 .. Len(s) /\ Position(s, t) = Min(I)
    <3>1. Min(I) \in 1 .. Len(s)
      BY <1>5, <2>1
    <3>2. Min(I) # 0
      BY <1>1, <3>1
    <3> QED BY <1>2, <1>3, <1>7, <3>1, <3>2
  <2>3. ASSUME NEW i \in 1 .. Len(s), i < Min(I) PROVE ~Later(t, s[i])
    BY <1>1, <1>4, <2>1, <2>2, <2>3
  <2> QED BY <1>1, <1>4, <2>1, <2>2, <2>3
<1> QED BY <1>6, <1>7

LEMMA AddedIs ==
  ASSUME NEW s \in Seq(Timer), NEW t \in Timer
  PROVE  /\ Added(s, t) \in Seq(Timer)
         /\ Widened(Added(s, t), s, Position(s, t), t)
         /\ \A u : Occ(Added(s, t), u) = Occ(s, u) + One(t = u)
<1>1. Added(s, t) \in Seq(Timer) /\ Widened(Added(s, t), s, Position(s, t), t)
  BY PositionIs, InsertWidens DEF Added
<1> QED BY <1>1, WidenedOcc

(* What AddTimer, RemoveTimer and TimerDelayChanged have in common: the    *)
(* count of the timer follows its occurrences in the list.                 *)
ListChange(x) ==
  /\ mTimers' \in Seq(Timer) /\ mArmed' \in [Timer -> BOOLEAN]
  /\ \E d \in -1 .. 1 : /\ \A t \in Timer : Occ(mTimers', t) = Occ(mTimers, t) + IF t = x THEN d ELSE 0
                        /\ mRefCnt' = [mRefCnt EXCEPT ![x] = @ + d]

ListStep(x) ==
  /\ ListChange(x)
  /\ thread' = thread \/ (thread = "waiting" /\ thread' = "notified")
  /\ mShutdown /\ mTimers = <<>> => mTimers' = <<>>

LEMMA NoListStep ==
  ASSUME TypeOK, NEW x \in Timer, UNCHANGED <<listVars, thread>>
  PROVE  ListStep(x)
<1>1. mTimers' = mTimers /\ mArmed' = mArmed /\ mRefCnt' = mRefCnt /\ thread' = thread
  BY DEF listVars
<1>2. mTimers \in Seq(Timer) /\ mArmed \in [Timer -> BOOLEAN] /\ mRefCnt \in [Timer -> Nat]
  BY DEF TypeOK
<1>3. mRefCnt = [mRefCnt EXCEPT ![x] = @ + 0]
  BY <1>2
<1>4. \A t \in Timer : Occ(mTimers, t) = Occ(mTimers, t) + IF t = x THEN 0 ELSE 0
  <2> TAKE t \in Timer
  <2>1. Occ(mTimers, t) \in Nat
    BY <1>2, OccType
  <2> QED BY <2>1
<1> QED BY <1>1, <1>2, <1>3, <1>4 DEF ListStep, ListChange

LEMMA AddTimerLists ==
  ASSUME TypeOK, NEW x \in Timer, AddTimer(x)
  PROVE  ListStep(x)
<1>1. CASE mShutdown
  BY <1>1, NoListStep DEF AddTimer
<1>2. CASE ~mShutdown
  <2>1. /\ mTimers' = Added(mTimers, x)
        /\ mArmed' = [mArmed EXCEPT ![x] = TRUE]
        /\ mRefCnt' = [mRefCnt EXCEPT ![x] = @ + 1]
        /\ thread' = thread \/ (thread = "waiting" /\ thread' = "notified")
    BY <1>2 DEF AddTimer, Wakes
  <2>2. mTimers \in Seq(Timer) /\ mArmed \in [Timer -> BOOLEAN]
    BY DEF TypeOK
  <2>3. mTimers' \in Seq(Timer) /\ \A t : Occ(mTimers', t) = Occ(mTimers, t) + One(x = t)
    BY <2>1, <2>2, AddedIs
  <2>4. \A t \in Timer : Occ(mTimers', t) = Occ(mTimers, t) + IF t = x THEN 1 ELSE 0
    BY <2>3 DEF One
  <2> QED BY <1>2, <2>1, <2>2, <2>3, <2>4 DEF ListStep, ListChange
<1> QED BY <1>1, <1>2

LEMMA RemovedIs ==
  ASSUME NEW s \in Seq(Timer), NEW x
  PROVE  /\ RemoveFirst(s, x) \in Seq(Timer)
         /\ \A u : Occ(RemoveFirst(s, x), u) = Occ(s, u) - One(u = x /\ Contains(s, x))
<1>1. RemoveFirst(s, x) \in Seq(Timer)
  BY RemoveWidens
<1>2. ASSUME NEW u PROVE Occ(RemoveFirst(s, x), u) = Occ(s, u) - One(u = x /\ Contains(s, x))
  <2>1. Occ(RemoveFirst(s, x), u) \in Nat /\ Occ(s, u) \in Nat
    BY <1>1, OccType
  <2>2. CASE ~Contains(s, x)
    BY <2>1, <2>2, RemoveWidens DEF One
  <2>3. CASE Contains(s, x)
    <3>1. PICK p \in 1 .. Len(s) : Widened(s, RemoveFirst(s, x), p, x)
      BY <2>3, RemoveWidens
    <3>2. Occ(s, u) = Occ(RemoveFirst(s, x), u) + One(x = u)
      BY <1>1, <3>1, WidenedOcc
    <3> QED BY <2>1, <2>3, <3>2 DEF One
  <2> QED BY <2>2, <2>3
<1> QED BY <1>1, <1>2

LEMMA RemoveTimerLists ==
  ASSUME TypeOK, NEW x \in Timer, RemoveTimer(x)
  PROVE  ListStep(x)
<1>1. CASE ~Contains(mTimers, x)
  BY <1>1, NoListStep DEF RemoveTimer
<1>2. CASE Contains(mTimers, x)
  <2>1. /\ mTimers' = RemoveFirst(mTimers, x)
        /\ mArmed' = [mArmed EXCEPT ![x] = FALSE]
        /\ mRefCnt' = [mRefCnt EXCEPT ![x] = @ - 1]
        /\ thread' = thread \/ (thread = "waiting" /\ thread' = "notified")
    BY <1>2 DEF RemoveTimer, Wakes
  <2>2. mTimers \in Seq(Timer) /\ mArmed \in [Timer -> BOOLEAN] /\ mRefCnt \in [Timer -> Nat]
    BY DEF TypeOK
  <2>3. mTimers' \in Seq(Timer) /\ \A u : Occ(mTimers', u) = Occ(mTimers, u) - One(u = x /\ Contains(mTimers, x))
    BY <2>1, <2>2, RemovedIs
  <2>4. \A t \in Timer : Occ(mTimers', t) = Occ(mTimers, t) + IF t = x THEN -1 ELSE 0
    <3> TAKE t \in Timer
    <3>1. Occ(mTimers, t) \in Nat
      BY <2>2, OccType
    <3> QED BY <1>2, <2>3, <3>1 DEF One
  <2>5. mRefCnt' = [mRefCnt EXCEPT ![x] = @ + (-1)]
    BY <2>1, <2>2
  <2>6. mTimers # <<>>
    BY <1>2, OccEmpty
  <2>7. -1 \in -1 .. 1
    OBVIOUS
  <2> QED BY <2>1, <2>2, <2>3, <2>4, <2>5, <2>6, <2>7 DEF ListStep, ListChange
<1> QED BY <1>1, <1>2

LEMMA TimerDelayChangedLists ==
  ASSUME TypeOK, NEW x \in Timer, TimerDelayChanged(x)
  PROVE  ListStep(x)
<1> DEFINE rest == RemoveFirst(mTimers, x)
           found == IF Contains(mTimers, x) THEN 1 ELSE 0
           armed == IF mShutdown THEN 0 ELSE 1
<1>1. mTimers \in Seq(Timer) /\ mArmed \in [Timer -> BOOLEAN] /\ mRefCnt \in [Timer -> Nat] /\ mShutdown \in BOOLEAN
  BY DEF TypeOK
<1>2. /\ mTimers' = IF mShutdown THEN rest ELSE Added(rest, x)
      /\ mArmed' = [mArmed EXCEPT ![x] = IF mShutdown THEN @ /\ found = 0 ELSE TRUE]
      /\ mRefCnt' = [mRefCnt EXCEPT ![x] = @ + armed - found]
      /\ thread' = thread \/ (thread = "waiting" /\ thread' = "notified")
  BY DEF TimerDelayChanged, Wakes
<1>3. rest \in Seq(Timer) /\ \A u : Occ(rest, u) = Occ(mTimers, u) - One(u = x /\ Contains(mTimers, x))
  BY <1>1, RemovedIs
<1>4. mArmed' \in [Timer -> BOOLEAN]
  BY <1>1, <1>2
<1>5. armed \in 0 .. 1 /\ found \in 0 .. 1 /\ armed - found \in -1 .. 1
  OBVIOUS
<1>6. \A t \in Timer : Occ(rest, t) = Occ(mTimers, t) - IF t = x THEN found ELSE 0
  BY <1>3 DEF One
<1>7. mShutdown /\ mTimers = <<>> => rest = <<>>
  BY <1>1, OccEmpty, RemoveWidens
<1> HIDE DEF rest, found
<1>8. mTimers' \in Seq(Timer) /\ \A t \in Timer : Occ(mTimers', t) = Occ(rest, t) + IF t = x THEN armed ELSE 0
  <2>1. CASE mShutdown
    <3>1. mTimers' = rest /\ armed = 0
      BY <1>2, <2>1
    <3>2. ASSUME NEW t \in Timer PROVE Occ(rest, t) \in Nat
      BY <1>3, OccType
    <3> QED BY <1>3, <3>1, <3>2
  <2>2. CASE ~mShutdown
    <3>1. mTimers' = Added(rest, x)
      BY <1>2, <2>2
    <3>2. mTimers' \in Seq(Timer) /\ \A u : Occ(mTimers', u) = Occ(rest, u) + One(x = u)
      BY <1>3, <3>1, AddedIs
    <3> QED BY <2>2, <3>2 DEF One
  <2> QED BY <2>1, <2>2
<1> HIDE DEF armed
<1>9. \A t \in Timer : Occ(mTimers', t) = Occ(mTimers, t) + IF t = x THEN armed - found ELSE 0
  <2> TAKE t \in Timer
  <2>1. Occ(mTimers, t) \in Nat /\ Occ(rest, t) \in Nat
    BY <1>1, <1>3, OccType
  <2> QED BY <1>5, <1>6, <1>8, <2>1
<1>10. mRefCnt' = [mRefCnt EXCEPT ![x] = @ + (armed - found)]
  BY <1>1, <1>2, <1>5
<1> QED BY <1>2, <1>4, <1>5, <1>7, <1>8, <1>9, <1>10 DEF ListStep, ListChange
--------------------------------------------------------------------------------
(* The parts of TypeOK. *)
FilterTypes == /\ mDelayLineCounter \in 0 .. DelayLineLength
               /\ mTimeoutAdjustment \in IF mDelayLineCounter < DelayLineLength THEN {0}
                                         ELSE -MaxAdjustment .. MaxAdjustment
ClockTypes == /\ now \in Start .. MaxTime /\ wakeAt \in Int
              /\ mDelay \in [Timer -> 0 .. MaxDelay] /\ mTimeout \in [Timer -> Nat]
ListTypes == /\ mTimers \in Seq(Timer) /\ timers \in Seq(Timer) /\ held \subseteq Timer
             /\ mArmed \in [Timer -> BOOLEAN] /\ mRefCnt \in [Timer -> Nat]
FlagTypes == /\ mShutdown \in BOOLEAN /\ mSleeping \in BOOLEAN /\ callback \in BOOLEAN
             /\ mCanceled \in [Timer -> BOOLEAN] /\ mFiring \in [Timer -> BOOLEAN]
             /\ mCallback \in [Timer -> BOOLEAN]
CountTypes == /\ generation \in 0 .. MaxCalls /\ gGenerator \in 0 .. MaxCalls
              /\ mGeneration \in [Timer -> 0 .. MaxCalls]
              /\ events \in Seq([t: Timer, gen: 0 .. MaxCalls])
              /\ nCalls \in 0 .. MaxCalls /\ nSleeps \in 0 .. MaxSleeps
PlaceTypes == /\ thread \in {"run", "next", "waiting", "notified", "post", "type", "add", "dispatch",
                              "drop", "exit"}
              /\ timer \in Timer \cup {NoTimer} /\ fired \in Timer \cup {NoTimer}
              /\ firing \in {"no", "callback", "nothing", "add", "end"}
              /\ exit \in {"no", "joining", "down"}
CallTypes == /\ op \in {"none", "init_remove", "init_generation", "init_delay", "init_add", "cancel",
                        "delay", "release", "release_remove", "wake", "wake_changed"}
             /\ opTimer \in Timer \cup {NoTimer} /\ opDelay \in Nat /\ opIndex \in Nat
             /\ opType \in {"one_shot", "slack", "precise"}
             /\ mType \in [Timer -> {"one_shot", "slack", "precise"}]

LEMMA TypeParts ==
  TypeOK <=> FilterTypes /\ ClockTypes /\ ListTypes /\ FlagTypes /\ CountTypes /\ PlaceTypes /\ CallTypes
BY DEF TypeOK, FilterTypes, ClockTypes, ListTypes, FlagTypes, CountTypes, PlaceTypes, CallTypes

LEMMA TypePartsThen ==
  ASSUME FilterTypes', ClockTypes', ListTypes', FlagTypes', CountTypes', PlaceTypes', CallTypes'
  PROVE  TypeOK'
BY DEF TypeOK, FilterTypes, ClockTypes, ListTypes, FlagTypes, CountTypes, PlaceTypes, CallTypes

(* A step that moves no reference. *)
LEMMA SameRefs ==
  ASSUME Timing, UNCHANGED <<mTimers, mRefCnt, timers, events, timer, fired, held>>
  PROVE  RefsExact' /\ Posted' = Posted /\ \A t : Listed(t)' = Listed(t)
BY DEF Timing, RefsExact, Refs, Posted, Listed

LEMMA NoTimerOut == NoTimer \notin Timer
BY TimerConstants

LEMMA Bounds == MaxCalls \in Nat /\ MaxSleeps \in Nat
BY TimerConstants

(* SetDelayInternal keeps delays below DELAY_INTERVAL_MAX. *)
LEMMA DelaySets ==
  ASSUME ClockTypes, NEW x \in Timer, NEW type, NEW base \in Nat, NEW d \in Nat,
         SetDelayInternal(x, type, base, d), now' = now, wakeAt' = wakeAt
  PROVE  ClockTypes'
<1>1. Capped(d) \in 0 .. MaxDelay
  BY Limits DEF Capped
<1>2. now \in Nat
  BY Limits DEF ClockTypes
<1> QED BY <1>1, <1>2, Limits DEF ClockTypes, SetDelayInternal

(* A call that has yet to draw a generation has one left. *)
LEMMA Counted ==
  ASSUME Timing
  PROVE  /\ gGenerator \in Nat /\ nCalls \in Nat /\ nCalls <= MaxCalls /\ gGenerator <= nCalls
         /\ op \in {"init_remove", "init_generation"} => gGenerator + 1 <= nCalls
<1>1. CountTypes
  BY TypeParts DEF Timing
<1>2. gGenerator \in 0 .. MaxCalls /\ nCalls \in 0 .. MaxCalls
  BY <1>1 DEF CountTypes
<1>3. Generated
  BY DEF Timing
<1>4. gGenerator \in Nat /\ nCalls \in Nat /\ nCalls <= MaxCalls
  BY <1>2, Bounds
<1>5. gGenerator <= nCalls
  BY <1>3 DEF Generated
<1>6. op \in {"init_remove", "init_generation"} => gGenerator + 1 <= nCalls
  BY <1>3, <1>4 DEF Generated
<1> QED BY <1>4, <1>5, <1>6

LEMMA GeneratedKept ==
  ASSUME Timing, UNCHANGED <<gGenerator, nCalls>>, op' = op \/ op' \notin {"init_remove", "init_generation"}
  PROVE  Generated'
<1>1. Generated
  BY DEF Timing
<1> QED BY <1>1 DEF Generated

LEMMA GeneratedCall ==
  ASSUME Timing, gGenerator' = gGenerator, nCalls' = nCalls + 1, op = "none"
  PROVE  Generated'
<1>1. gGenerator \in Nat /\ nCalls \in Nat /\ gGenerator <= nCalls
  BY Counted
<1> QED BY <1>1 DEF Generated

(* One lemma for each action: first those that move no reference, ... *)
LEMMA TickTiming ==
  ASSUME Timing, Tick
  PROVE  Timing'
<1> USE TypeParts, NoTimerOut DEF Timing
<1>1. UNCHANGED <<mTimers, mRefCnt, timers, events, timer, fired, held>>
  BY DEF Tick, listVars, runVars, fireVars, exitVars
<1>2. RefsExact' /\ Posted' = Posted /\ \A u : Listed(u)' = Listed(u)
  BY <1>1, SameRefs
<1>3. ClockTypes'
  <2>1. UNCHANGED <<wakeAt, mDelay, mTimeout>> /\ now < MaxTime /\ now' = now + 1
    BY DEF Tick, runVars
  <2> QED BY <2>1, Limits DEF ClockTypes
<1>4. ListTypes'
  <2>1. UNCHANGED <<mTimers, timers, held, mArmed, mRefCnt>>
    BY DEF Tick, listVars, runVars, userVars, fireVars, exitVars, boundVars
  <2> QED BY <2>1 DEF ListTypes
<1>5. FlagTypes'
  <2>1. UNCHANGED <<mShutdown, mSleeping, callback, mCanceled, mFiring, mCallback>>
    BY DEF Tick, listVars, runVars, userVars, fireVars, exitVars, boundVars
  <2> QED BY <2>1 DEF FlagTypes
<1>6. CountTypes'
  <2>1. UNCHANGED <<generation, gGenerator, mGeneration, events, nCalls, nSleeps>>
    BY DEF Tick, listVars, runVars, userVars, fireVars, exitVars, boundVars
  <2> QED BY <2>1 DEF CountTypes
<1>7. PlaceTypes'
  <2>1. UNCHANGED <<thread, timer, fired, firing, exit>>
    BY DEF Tick, listVars, runVars, userVars, fireVars, exitVars, boundVars
  <2> QED BY <2>1 DEF PlaceTypes
<1>8. CallTypes'
  <2>1. UNCHANGED <<op, opTimer, opDelay, opIndex, opType, mType>>
    BY DEF Tick, listVars, runVars, userVars, fireVars, exitVars, boundVars
  <2> QED BY <2>1 DEF CallTypes
<1>9. Generated'
  <2>1. UNCHANGED <<gGenerator, nCalls>> /\ (op' = op \/ op' \notin {"init_remove", "init_generation"})
    BY DEF Tick, listVars, runVars, userVars, fireVars, exitVars, boundVars
  <2> QED BY <2>1, GeneratedKept
<1>10. Places'
  BY <1>1, <1>2 DEF Places, Handling, Initialising, CallTypes, PlaceTypes, FlagTypes, Tick, listVars,
     runVars, userVars, fireVars, exitVars, boundVars
<1>20. FilterTypes'
  BY DEF FilterTypes, Tick, filterVars
<1> QED BY <1>2, <1>3, <1>4, <1>5, <1>6, <1>7, <1>8, <1>9, <1>10, <1>20, TypePartsThen

LEMMA WakeUpTiming ==
  ASSUME Timing, WakeUp
  PROVE  Timing'
<1> USE TypeParts, NoTimerOut DEF Timing
<1>1. UNCHANGED <<mTimers, mRefCnt, timers, events, timer, fired, held>>
  BY DEF WakeUp, listVars, runVars, fireVars, exitVars
<1>2. RefsExact' /\ Posted' = Posted /\ \A u : Listed(u)' = Listed(u)
  BY <1>1, SameRefs
<1>3. ClockTypes'
  <2>1. UNCHANGED <<now, mDelay, mTimeout>> /\ wakeAt' = Never
    BY DEF WakeUp
  <2> QED BY <2>1, Limits DEF ClockTypes
<1>4. ListTypes'
  <2>1. UNCHANGED <<mTimers, timers, held, mArmed, mRefCnt>>
    BY DEF WakeUp, listVars, runVars, userVars, fireVars, exitVars, boundVars
  <2> QED BY <2>1 DEF ListTypes
<1>5. FlagTypes'
  <2>1. UNCHANGED <<mShutdown, mSleeping, callback, mCanceled, mFiring, mCallback>>
    BY DEF WakeUp, listVars, runVars, userVars, fireVars, exitVars, boundVars
  <2> QED BY <2>1 DEF FlagTypes
<1>6. CountTypes'
  <2>1. UNCHANGED <<generation, gGenerator, mGeneration, events, nCalls, nSleeps>>
    BY DEF WakeUp, listVars, runVars, userVars, fireVars, exitVars, boundVars
  <2> QED BY <2>1 DEF CountTypes
<1>7. PlaceTypes'
  BY DEF PlaceTypes, Places, WakeUp, listVars, runVars, userVars, fireVars, exitVars, boundVars
<1>8. CallTypes'
  <2>1. UNCHANGED <<op, opTimer, opDelay, opIndex, opType, mType>>
    BY DEF WakeUp, listVars, runVars, userVars, fireVars, exitVars, boundVars
  <2> QED BY <2>1 DEF CallTypes
<1>9. Generated'
  <2>1. UNCHANGED <<gGenerator, nCalls>> /\ (op' = op \/ op' \notin {"init_remove", "init_generation"})
    BY DEF WakeUp, listVars, runVars, userVars, fireVars, exitVars, boundVars
  <2> QED BY <2>1, GeneratedKept
<1>10. Places'
  BY <1>1, <1>2 DEF Places, Handling, Initialising, CallTypes, PlaceTypes, FlagTypes, WakeUp, listVars,
     runVars, userVars, fireVars, exitVars, boundVars
<1>20. FilterTypes'
  BY DEF FilterTypes, WakeUp, filterVars
<1> QED BY <1>2, <1>3, <1>4, <1>5, <1>6, <1>7, <1>8, <1>9, <1>10, <1>20, TypePartsThen

LEMMA PostTimerEventTiming ==
  ASSUME Timing, PostTimerEvent
  PROVE  Timing'
<1> USE TypeParts, NoTimerOut DEF Timing
<1>1. UNCHANGED <<mTimers, mRefCnt, timers, events, timer, fired, held>>
  BY DEF PostTimerEvent, listVars, runVars, fireVars, exitVars
<1>2. RefsExact' /\ Posted' = Posted /\ \A u : Listed(u)' = Listed(u)
  BY <1>1, SameRefs
<1>3. ClockTypes'
  <2>1. UNCHANGED <<now, wakeAt, mDelay, mTimeout>>
    BY DEF PostTimerEvent, listVars, runVars, userVars, fireVars, exitVars, boundVars
  <2> QED BY <2>1 DEF ClockTypes
<1>4. ListTypes'
  <2>1. UNCHANGED <<mTimers, timers, held, mArmed, mRefCnt>>
    BY DEF PostTimerEvent, listVars, runVars, userVars, fireVars, exitVars, boundVars
  <2> QED BY <2>1 DEF ListTypes
<1>5. FlagTypes'
  <2>1. UNCHANGED <<mShutdown, mSleeping, callback, mCanceled, mFiring, mCallback>>
    BY DEF PostTimerEvent, listVars, runVars, userVars, fireVars, exitVars, boundVars
  <2> QED BY <2>1 DEF FlagTypes
<1>6. CountTypes'
  <2>1. UNCHANGED <<gGenerator, mGeneration, events, nCalls, nSleeps>> /\ generation' = mGeneration[timer]
    BY DEF PostTimerEvent, boundVars
  <2>2. timer \in Timer
    BY DEF PostTimerEvent, Places, Handling, PlaceTypes
  <2> QED BY <2>1, <2>2 DEF CountTypes
<1>7. PlaceTypes'
  BY DEF PlaceTypes, Places, PostTimerEvent, listVars, runVars, userVars, fireVars, exitVars, boundVars
<1>8. CallTypes'
  <2>1. UNCHANGED <<op, opTimer, opDelay, opIndex, opType, mType>>
    BY DEF PostTimerEvent, listVars, runVars, userVars, fireVars, exitVars, boundVars
  <2> QED BY <2>1 DEF CallTypes
<1>9. Generated'
  <2>1. UNCHANGED <<gGenerator, nCalls>> /\ (op' = op \/ op' \notin {"init_remove", "init_generation"})
    BY DEF PostTimerEvent, listVars, runVars, userVars, fireVars, exitVars, boundVars
  <2> QED BY <2>1, GeneratedKept
<1>10. Places'
  BY <1>1, <1>2 DEF Places, Handling, Initialising, CallTypes, PlaceTypes, FlagTypes, PostTimerEvent,
     listVars, runVars, userVars, fireVars, exitVars, boundVars
<1>20. FilterTypes'
  BY DEF FilterTypes, PostTimerEvent, filterVars
<1> QED BY <1>2, <1>3, <1>4, <1>5, <1>6, <1>7, <1>8, <1>9, <1>10, <1>20, TypePartsThen

LEMMA PostPreciseTiming ==
  ASSUME Timing, PostPrecise
  PROVE  Timing'
<1> USE TypeParts, NoTimerOut DEF Timing
<1>1. UNCHANGED <<mTimers, mRefCnt, timers, events, timer, fired, held>>
  BY DEF PostPrecise, listVars, runVars, fireVars, exitVars
<1>2. RefsExact' /\ Posted' = Posted /\ \A u : Listed(u)' = Listed(u)
  BY <1>1, SameRefs
<1>3. ClockTypes'
  <2>1. CASE UNCHANGED <<mDelay, mTimeout>>
    BY <2>1 DEF ClockTypes, PostPrecise, listVars, runVars, userVars, fireVars, exitVars, boundVars
  <2>2. CASE SetDelayInternal(timer, "precise", mTimeout[timer], mDelay[timer])
    <3>1. mTimeout \in [Timer -> Nat] /\ mDelay \in [Timer -> Nat] /\ now \in Nat
      BY Limits DEF ClockTypes
    <3>2. timer \in Timer /\ mDelay[timer] \in Nat
      BY <2>2, <3>1, TimerConstants DEF Places, Handling, CallTypes, PlaceTypes, PostPrecise
    <3>3. mTimeout[timer] \in Nat
      BY <3>1, <3>2
    <3>4. now' = now /\ wakeAt' = wakeAt
      BY DEF PostPrecise, listVars, runVars, userVars, fireVars, exitVars, boundVars
    <3> QED BY <2>2, <3>2, <3>3, <3>4, DelaySets
  <2> QED BY <2>1, <2>2 DEF PostPrecise
<1>4. ListTypes'
  <2>1. UNCHANGED <<mTimers, timers, held, mArmed, mRefCnt>>
    BY DEF PostPrecise, listVars, runVars, userVars, fireVars, exitVars, boundVars
  <2> QED BY <2>1 DEF ListTypes
<1>5. FlagTypes'
  <2>1. UNCHANGED <<mShutdown, mSleeping, callback, mCanceled, mFiring, mCallback>>
    BY DEF PostPrecise, listVars, runVars, userVars, fireVars, exitVars, boundVars
  <2> QED BY <2>1 DEF FlagTypes
<1>6. CountTypes'
  <2>1. UNCHANGED <<generation, gGenerator, mGeneration, events, nCalls, nSleeps>>
    BY DEF PostPrecise, listVars, runVars, userVars, fireVars, exitVars, boundVars
  <2> QED BY <2>1 DEF CountTypes
<1>7. PlaceTypes'
  BY DEF PlaceTypes, Places, PostPrecise, listVars, runVars, userVars, fireVars, exitVars, boundVars
<1>8. CallTypes'
  <2>1. UNCHANGED <<op, opTimer, opDelay, opIndex, opType, mType>>
    BY DEF PostPrecise, listVars, runVars, userVars, fireVars, exitVars, boundVars
  <2> QED BY <2>1 DEF CallTypes
<1>9. Generated'
  <2>1. UNCHANGED <<gGenerator, nCalls>> /\ (op' = op \/ op' \notin {"init_remove", "init_generation"})
    BY DEF PostPrecise, listVars, runVars, userVars, fireVars, exitVars, boundVars
  <2> QED BY <2>1, GeneratedKept
<1>10. Places'
  BY <1>1, <1>2 DEF Places, Handling, Initialising, CallTypes, PlaceTypes, FlagTypes, PostPrecise,
     listVars, runVars, userVars, fireVars, exitVars, boundVars
<1>20. FilterTypes'
  BY DEF FilterTypes, PostPrecise, filterVars
<1> QED BY <1>2, <1>3, <1>4, <1>5, <1>6, <1>7, <1>8, <1>9, <1>10, <1>20, TypePartsThen

LEMMA InitTimerTiming ==
  ASSUME Timing, NEW t \in Timer, NEW type \in Types, NEW d \in Delays, InitTimer(t, type, d)
  PROVE  Timing'
<1> USE TypeParts, NoTimerOut DEF Timing
<1>1. UNCHANGED <<mTimers, mRefCnt, timers, events, timer, fired, held>>
  BY DEF InitTimer, listVars, runVars, fireVars, exitVars, MayCall, Calling, UserFree
<1>2. RefsExact' /\ Posted' = Posted /\ \A u : Listed(u)' = Listed(u)
  BY <1>1, SameRefs
<1>3. ClockTypes'
  <2>1. UNCHANGED <<now, wakeAt, mDelay, mTimeout>>
    BY DEF InitTimer, listVars, runVars, userVars, fireVars, exitVars, boundVars, MayCall, Calling, UserFree
  <2> QED BY <2>1 DEF ClockTypes
<1>4. ListTypes'
  <2>1. UNCHANGED <<mTimers, timers, held, mArmed, mRefCnt>>
    BY DEF InitTimer, listVars, runVars, userVars, fireVars, exitVars, boundVars, MayCall, Calling, UserFree
  <2> QED BY <2>1 DEF ListTypes
<1>5. FlagTypes'
  BY DEF FlagTypes, Places, InitTimer, listVars, runVars, userVars, fireVars, exitVars, boundVars,
     MayCall, Calling, UserFree
<1>6. CountTypes'
  <2>1. UNCHANGED <<generation, gGenerator, mGeneration, events, nSleeps>> /\ nCalls < MaxCalls /\ nCalls' = nCalls + 1
    BY DEF InitTimer, listVars, runVars, userVars, fireVars, exitVars, boundVars, MayCall, Calling, UserFree
  <2> QED BY <2>1, Bounds DEF CountTypes
<1>7. PlaceTypes'
  <2>1. UNCHANGED <<thread, timer, fired, firing, exit>>
    BY DEF InitTimer, listVars, runVars, userVars, fireVars, exitVars, boundVars, MayCall, Calling, UserFree
  <2> QED BY <2>1 DEF PlaceTypes
<1>8. CallTypes'
  BY TimerConstants DEF CallTypes, Places, InitTimer, listVars, runVars, userVars, fireVars, exitVars,
     boundVars, MayCall, Calling, UserFree
<1>9. Generated'
  <2>1. gGenerator' = gGenerator /\ nCalls' = nCalls + 1 /\ op = "none"
    BY DEF InitTimer, listVars, runVars, userVars, fireVars, exitVars, boundVars, MayCall, Calling, UserFree
  <2> QED BY <2>1, GeneratedCall
<1>10. Places'
  BY <1>1, <1>2 DEF Places, Handling, Initialising, CallTypes, PlaceTypes, FlagTypes, InitTimer,
     listVars, runVars, userVars, fireVars, exitVars, boundVars, MayCall, Calling, UserFree
<1>20. FilterTypes'
  BY DEF FilterTypes, InitTimer, filterVars
<1> QED BY <1>2, <1>3, <1>4, <1>5, <1>6, <1>7, <1>8, <1>9, <1>10, <1>20, TypePartsThen

LEMMA InitGenerationTiming ==
  ASSUME Timing, InitGeneration
  PROVE  Timing'
<1> USE TypeParts, NoTimerOut DEF Timing
<1>1. UNCHANGED <<mTimers, mRefCnt, timers, events, timer, fired, held>>
  BY DEF InitGeneration, listVars, runVars, fireVars, exitVars, Goes
<1>2. RefsExact' /\ Posted' = Posted /\ \A u : Listed(u)' = Listed(u)
  BY <1>1, SameRefs
<1>3. ClockTypes'
  <2>1. UNCHANGED <<now, wakeAt, mDelay, mTimeout>>
    BY DEF InitGeneration, listVars, runVars, userVars, fireVars, exitVars, boundVars, Goes
  <2> QED BY <2>1 DEF ClockTypes
<1>4. ListTypes'
  <2>1. UNCHANGED <<mTimers, timers, held, mArmed, mRefCnt>>
    BY DEF InitGeneration, listVars, runVars, userVars, fireVars, exitVars, boundVars, Goes
  <2> QED BY <2>1 DEF ListTypes
<1>5. FlagTypes'
  BY DEF FlagTypes, InitGeneration, Goes, fireVars
<1>6. CountTypes'
  <2>1. UNCHANGED <<generation, events, nCalls, nSleeps>> /\ gGenerator' = gGenerator + 1
        /\ mGeneration' = [mGeneration EXCEPT ![opTimer] = gGenerator + 1] /\ op = "init_generation"
    BY DEF InitGeneration, Goes, runVars
  <2>2. gGenerator + 1 <= nCalls
    BY <2>1, Counted
  <2>3. gGenerator + 1 \in 0 .. MaxCalls
    BY <2>2, Counted, Bounds
  <2> QED BY <2>1, <2>3 DEF CountTypes
<1>7. PlaceTypes'
  <2>1. UNCHANGED <<thread, timer, fired, firing, exit>>
    BY DEF InitGeneration, listVars, runVars, userVars, fireVars, exitVars, boundVars, Goes
  <2> QED BY <2>1 DEF PlaceTypes
<1>8. CallTypes'
  BY DEF CallTypes, Places, InitGeneration, listVars, runVars, userVars, fireVars, exitVars, boundVars, Goes
<1>9. Generated'
  <2>1. gGenerator' = gGenerator + 1 /\ nCalls' = nCalls /\ op = "init_generation" /\ op' = "init_delay"
    BY DEF InitGeneration, Goes
  <2> QED BY <2>1, Counted DEF Generated
<1>10. Places'
  BY <1>1, <1>2 DEF Places, Handling, Initialising, CallTypes, PlaceTypes, FlagTypes, InitGeneration,
     listVars, runVars, userVars, fireVars, exitVars, boundVars, Goes
<1>20. FilterTypes'
  BY DEF FilterTypes, InitGeneration, filterVars
<1> QED BY <1>2, <1>3, <1>4, <1>5, <1>6, <1>7, <1>8, <1>9, <1>10, <1>20, TypePartsThen

LEMMA InitDelayTiming ==
  ASSUME Timing, InitDelay
  PROVE  Timing'
<1> USE TypeParts, NoTimerOut DEF Timing
<1>1. UNCHANGED <<mTimers, mRefCnt, timers, events, timer, fired, held>>
  BY DEF InitDelay, listVars, runVars, fireVars, exitVars, Goes
<1>2. RefsExact' /\ Posted' = Posted /\ \A u : Listed(u)' = Listed(u)
  BY <1>1, SameRefs
<1>3. ClockTypes'
  <2>1. CASE UNCHANGED <<mDelay, mTimeout>>
    BY <2>1 DEF ClockTypes, InitDelay, listVars, runVars, userVars, fireVars, exitVars, boundVars, Goes
  <2>2. CASE SetDelayInternal(opTimer, opType, mTimeout[opTimer], opDelay)
    <3>1. mTimeout \in [Timer -> Nat] /\ mDelay \in [Timer -> Nat] /\ now \in Nat
      BY Limits DEF ClockTypes
    <3>2. opTimer \in Timer /\ opDelay \in Nat
      BY <2>2, <3>1, TimerConstants DEF Places, Handling, CallTypes, PlaceTypes, InitDelay, Goes
    <3>3. mTimeout[opTimer] \in Nat
      BY <3>1, <3>2
    <3>4. now' = now /\ wakeAt' = wakeAt
      BY DEF InitDelay, listVars, runVars, userVars, fireVars, exitVars, boundVars, Goes
    <3> QED BY <2>2, <3>2, <3>3, <3>4, DelaySets
  <2> QED BY <2>1, <2>2 DEF InitDelay, Goes
<1>4. ListTypes'
  <2>1. UNCHANGED <<mTimers, timers, held, mArmed, mRefCnt>>
    BY DEF InitDelay, listVars, runVars, userVars, fireVars, exitVars, boundVars, Goes
  <2> QED BY <2>1 DEF ListTypes
<1>5. FlagTypes'
  <2>1. UNCHANGED <<mShutdown, mSleeping, callback, mCanceled, mFiring, mCallback>>
    BY DEF InitDelay, listVars, runVars, userVars, fireVars, exitVars, boundVars, Goes
  <2> QED BY <2>1 DEF FlagTypes
<1>6. CountTypes'
  <2>1. UNCHANGED <<generation, gGenerator, mGeneration, events, nCalls, nSleeps>>
    BY DEF InitDelay, listVars, runVars, userVars, fireVars, exitVars, boundVars, Goes
  <2> QED BY <2>1 DEF CountTypes
<1>7. PlaceTypes'
  <2>1. UNCHANGED <<thread, timer, fired, firing, exit>>
    BY DEF InitDelay, listVars, runVars, userVars, fireVars, exitVars, boundVars, Goes
  <2> QED BY <2>1 DEF PlaceTypes
<1>8. CallTypes'
  BY DEF CallTypes, Places, InitDelay, listVars, runVars, userVars, fireVars, exitVars, boundVars, Goes
<1>9. Generated'
  <2>1. UNCHANGED <<gGenerator, nCalls>> /\ (op' = op \/ op' \notin {"init_remove", "init_generation"})
    BY DEF InitDelay, listVars, runVars, userVars, fireVars, exitVars, boundVars, Goes
  <2> QED BY <2>1, GeneratedKept
<1>10. Places'
  BY <1>1, <1>2 DEF Places, Handling, Initialising, CallTypes, PlaceTypes, FlagTypes, InitDelay,
     listVars, runVars, userVars, fireVars, exitVars, boundVars, Goes
<1>20. FilterTypes'
  BY DEF FilterTypes, InitDelay, filterVars
<1> QED BY <1>2, <1>3, <1>4, <1>5, <1>6, <1>7, <1>8, <1>9, <1>10, <1>20, TypePartsThen

LEMMA CancelTiming ==
  ASSUME Timing, NEW t \in Timer, Cancel(t)
  PROVE  Timing'
<1> USE TypeParts, NoTimerOut DEF Timing
<1>1. UNCHANGED <<mTimers, mRefCnt, timers, events, timer, fired, held>>
  BY DEF Cancel, listVars, runVars, fireVars, exitVars, MayCall, Calling, UserFree
<1>2. RefsExact' /\ Posted' = Posted /\ \A u : Listed(u)' = Listed(u)
  BY <1>1, SameRefs
<1>3. ClockTypes'
  <2>1. UNCHANGED <<now, wakeAt, mDelay, mTimeout>>
    BY DEF Cancel, listVars, runVars, userVars, fireVars, exitVars, boundVars, MayCall, Calling, UserFree
  <2> QED BY <2>1 DEF ClockTypes
<1>4. ListTypes'
  <2>1. UNCHANGED <<mTimers, timers, held, mArmed, mRefCnt>>
    BY DEF Cancel, listVars, runVars, userVars, fireVars, exitVars, boundVars, MayCall, Calling, UserFree
  <2> QED BY <2>1 DEF ListTypes
<1>5. FlagTypes'
  BY DEF FlagTypes, Places, Cancel, listVars, runVars, userVars, fireVars, exitVars, boundVars,
     MayCall, Calling, UserFree
<1>6. CountTypes'
  <2>1. UNCHANGED <<generation, gGenerator, mGeneration, events, nSleeps>> /\ nCalls < MaxCalls /\ nCalls' = nCalls + 1
    BY DEF Cancel, listVars, runVars, userVars, fireVars, exitVars, boundVars, MayCall, Calling, UserFree
  <2> QED BY <2>1, Bounds DEF CountTypes
<1>7. PlaceTypes'
  <2>1. UNCHANGED <<thread, timer, fired, firing, exit>>
    BY DEF Cancel, listVars, runVars, userVars, fireVars, exitVars, boundVars, MayCall, Calling, UserFree
  <2> QED BY <2>1 DEF PlaceTypes
<1>8. CallTypes'
  BY DEF CallTypes, Places, Cancel, listVars, runVars, userVars, fireVars, exitVars, boundVars,
     MayCall, Calling, UserFree
<1>9. Generated'
  <2>1. gGenerator' = gGenerator /\ nCalls' = nCalls + 1 /\ op = "none"
    BY DEF Cancel, listVars, runVars, userVars, fireVars, exitVars, boundVars, MayCall, Calling, UserFree
  <2> QED BY <2>1, GeneratedCall
<1>10. Places'
  BY <1>1, <1>2 DEF Places, Handling, Initialising, CallTypes, PlaceTypes, FlagTypes, Cancel, listVars,
     runVars, userVars, fireVars, exitVars, boundVars, MayCall, Calling, UserFree
<1>20. FilterTypes'
  BY DEF FilterTypes, Cancel, filterVars
<1> QED BY <1>2, <1>3, <1>4, <1>5, <1>6, <1>7, <1>8, <1>9, <1>10, <1>20, TypePartsThen

LEMMA SetDelayTiming ==
  ASSUME Timing, NEW t \in Timer, NEW d \in Delays, SetDelay(t, d)
  PROVE  Timing'
<1> USE TypeParts, NoTimerOut DEF Timing
<1>1. UNCHANGED <<mTimers, mRefCnt, timers, events, timer, fired, held>>
  BY DEF SetDelay, listVars, runVars, fireVars, exitVars, MayCall, Calling, UserFree
<1>2. RefsExact' /\ Posted' = Posted /\ \A u : Listed(u)' = Listed(u)
  BY <1>1, SameRefs
<1>3. ClockTypes'
  <2>1. CASE UNCHANGED <<mDelay, mTimeout>>
    BY <2>1 DEF ClockTypes, SetDelay, listVars, runVars, userVars, fireVars, exitVars, boundVars,
       MayCall, Calling, UserFree, SetDelayFields
  <2>2. CASE SetDelayInternal(t, mType[t], (IF mTimeout[t] % Interval # 0 /\ mType[t] = "precise" THEN now ELSE mTimeout[t]), d)
    <3>1. mTimeout \in [Timer -> Nat] /\ mDelay \in [Timer -> Nat] /\ now \in Nat
      BY Limits DEF ClockTypes
    <3>2. t \in Timer /\ d \in Nat
      BY <2>2, <3>1, TimerConstants DEF Places, Handling, CallTypes, PlaceTypes, SetDelay, MayCall,
         Calling, UserFree, SetDelayFields
    <3>3. (IF mTimeout[t] % Interval # 0 /\ mType[t] = "precise" THEN now ELSE mTimeout[t]) \in Nat
      BY <3>1, <3>2
    <3>4. now' = now /\ wakeAt' = wakeAt
      BY DEF SetDelay, listVars, runVars, userVars, fireVars, exitVars, boundVars, MayCall, Calling,
         UserFree, SetDelayFields
    <3> QED BY <2>2, <3>2, <3>3, <3>4, DelaySets
  <2> QED BY <2>1, <2>2 DEF SetDelay, MayCall, Calling, UserFree, SetDelayFields
<1>4. ListTypes'
  <2>1. UNCHANGED <<mTimers, timers, held, mArmed, mRefCnt>>
    BY DEF SetDelay, listVars, runVars, userVars, fireVars, exitVars, boundVars, MayCall, Calling, UserFree
  <2> QED BY <2>1 DEF ListTypes
<1>5. FlagTypes'
  <2>1. UNCHANGED <<mShutdown, mSleeping, callback, mCanceled, mFiring, mCallback>>
    BY DEF SetDelay, listVars, runVars, userVars, fireVars, exitVars, boundVars, MayCall, Calling, UserFree
  <2> QED BY <2>1 DEF FlagTypes
<1>6. CountTypes'
  <2>1. UNCHANGED <<generation, gGenerator, mGeneration, events, nSleeps>> /\ nCalls < MaxCalls /\ nCalls' = nCalls + 1
    BY DEF SetDelay, listVars, runVars, userVars, fireVars, exitVars, boundVars, MayCall, Calling, UserFree
  <2> QED BY <2>1, Bounds DEF CountTypes
<1>7. PlaceTypes'
  <2>1. UNCHANGED <<thread, timer, fired, firing, exit>>
    BY DEF SetDelay, listVars, runVars, userVars, fireVars, exitVars, boundVars, MayCall, Calling, UserFree
  <2> QED BY <2>1 DEF PlaceTypes
<1>8. CallTypes'
  BY DEF CallTypes, Places, SetDelay, listVars, runVars, userVars, fireVars, exitVars, boundVars,
     MayCall, Calling, UserFree
<1>9. Generated'
  <2>1. gGenerator' = gGenerator /\ nCalls' = nCalls + 1 /\ op = "none"
    BY DEF SetDelay, listVars, runVars, userVars, fireVars, exitVars, boundVars, MayCall, Calling, UserFree
  <2> QED BY <2>1, GeneratedCall
<1>10. Places'
  BY <1>1, <1>2 DEF Places, Handling, Initialising, CallTypes, PlaceTypes, FlagTypes, SetDelay,
     listVars, runVars, userVars, fireVars, exitVars, boundVars, MayCall, Calling, UserFree
<1>20. FilterTypes'
  BY DEF FilterTypes, SetDelay, filterVars
<1> QED BY <1>2, <1>3, <1>4, <1>5, <1>6, <1>7, <1>8, <1>9, <1>10, <1>20, TypePartsThen

LEMMA ReleaseTestTiming ==
  ASSUME Timing, ReleaseTest
  PROVE  Timing'
<1> USE TypeParts, NoTimerOut DEF Timing
<1>1. UNCHANGED <<mTimers, mRefCnt, timers, events, timer, fired, held>>
  BY DEF ReleaseTest, listVars, runVars, fireVars, exitVars, Goes, Returns, Idle
<1>2. RefsExact' /\ Posted' = Posted /\ \A u : Listed(u)' = Listed(u)
  BY <1>1, SameRefs
<1>3. ClockTypes'
  <2>1. UNCHANGED <<now, wakeAt, mDelay, mTimeout>>
    BY DEF ReleaseTest, listVars, runVars, userVars, fireVars, exitVars, boundVars, Goes, Returns, Idle
  <2> QED BY <2>1 DEF ClockTypes
<1>4. ListTypes'
  <2>1. UNCHANGED <<mTimers, timers, held, mArmed, mRefCnt>>
    BY DEF ReleaseTest, listVars, runVars, userVars, fireVars, exitVars, boundVars, Goes, Returns, Idle
  <2> QED BY <2>1 DEF ListTypes
<1>5. FlagTypes'
  BY DEF FlagTypes, Places, ReleaseTest, listVars, runVars, userVars, fireVars, exitVars, boundVars,
     Goes, Returns, Idle
<1>6. CountTypes'
  <2>1. UNCHANGED <<generation, gGenerator, mGeneration, events, nCalls, nSleeps>>
    BY DEF ReleaseTest, listVars, runVars, userVars, fireVars, exitVars, boundVars, Goes, Returns, Idle
  <2> QED BY <2>1 DEF CountTypes
<1>7. PlaceTypes'
  <2>1. UNCHANGED <<thread, timer, fired, firing, exit>>
    BY DEF ReleaseTest, listVars, runVars, userVars, fireVars, exitVars, boundVars, Goes, Returns, Idle
  <2> QED BY <2>1 DEF PlaceTypes
<1>8. CallTypes'
  <2>1. CASE mArmed[opTimer]
    BY <2>1 DEF CallTypes, ReleaseTest, Goes
  <2>2. CASE ~mArmed[opTimer]
    <3>1. Idle /\ mType' = mType
      BY <2>2 DEF ReleaseTest, Returns
    <3> QED BY <3>1 DEF CallTypes, Idle
  <2> QED BY <2>1, <2>2
<1>9. Generated'
  <2>1. UNCHANGED <<gGenerator, nCalls>> /\ (op' = op \/ op' \notin {"init_remove", "init_generation"})
    BY DEF ReleaseTest, listVars, runVars, userVars, fireVars, exitVars, boundVars, Goes, Returns, Idle
  <2> QED BY <2>1, GeneratedKept
<1>10. Places'
  BY <1>1, <1>2 DEF Places, Handling, Initialising, CallTypes, PlaceTypes, FlagTypes, ReleaseTest,
     listVars, runVars, userVars, fireVars, exitVars, boundVars, Goes, Returns, Idle
<1>20. FilterTypes'
  BY DEF FilterTypes, ReleaseTest, filterVars
<1> QED BY <1>2, <1>3, <1>4, <1>5, <1>6, <1>7, <1>8, <1>9, <1>10, <1>20, TypePartsThen

LEMMA FireReturnsTiming ==
  ASSUME Timing, FireReturns
  PROVE  Timing'
<1> USE TypeParts, NoTimerOut DEF Timing
<1>1. UNCHANGED <<mTimers, mRefCnt, timers, events, timer, fired, held>>
  BY DEF FireReturns, listVars, runVars, fireVars, exitVars, UserFree
<1>2. RefsExact' /\ Posted' = Posted /\ \A u : Listed(u)' = Listed(u)
  BY <1>1, SameRefs
<1>3. ClockTypes'
  <2>1. CASE UNCHANGED <<mDelay, mTimeout>>
    BY <2>1 DEF ClockTypes, FireReturns, listVars, runVars, userVars, fireVars, exitVars, boundVars,
       UserFree
  <2>2. CASE SetDelayInternal(fired, "slack", mTimeout[fired], mDelay[fired])
    <3>1. mTimeout \in [Timer -> Nat] /\ mDelay \in [Timer -> Nat] /\ now \in Nat
      BY Limits DEF ClockTypes
    <3>2. fired \in Timer /\ mDelay[fired] \in Nat
      BY <2>2, <3>1, TimerConstants DEF Places, Handling, CallTypes, PlaceTypes, FireReturns, UserFree
    <3>3. mTimeout[fired] \in Nat
      BY <3>1, <3>2
    <3>4. now' = now /\ wakeAt' = wakeAt
      BY DEF FireReturns, listVars, runVars, userVars, fireVars, exitVars, boundVars, UserFree
    <3> QED BY <2>2, <3>2, <3>3, <3>4, DelaySets
  <2> QED BY <2>1, <2>2 DEF FireReturns, UserFree
<1>4. ListTypes'
  <2>1. UNCHANGED <<mTimers, timers, held, mArmed, mRefCnt>>
    BY DEF FireReturns, listVars, runVars, userVars, fireVars, exitVars, boundVars, UserFree
  <2> QED BY <2>1 DEF ListTypes
<1>5. FlagTypes'
  BY DEF FlagTypes, Places, FireReturns, listVars, runVars, userVars, fireVars, exitVars, boundVars,
     UserFree
<1>6. CountTypes'
  <2>1. UNCHANGED <<generation, gGenerator, mGeneration, events, nCalls, nSleeps>>
    BY DEF FireReturns, listVars, runVars, userVars, fireVars, exitVars, boundVars, UserFree
  <2> QED BY <2>1 DEF CountTypes
<1>7. PlaceTypes'
  BY DEF PlaceTypes, Places, FireReturns, listVars, runVars, userVars, fireVars, exitVars, boundVars,
     UserFree
<1>8. CallTypes'
  <2>1. UNCHANGED <<op, opTimer, opDelay, opIndex, opType, mType>>
    BY DEF FireReturns, listVars, runVars, userVars, fireVars, exitVars, boundVars, UserFree
  <2> QED BY <2>1 DEF CallTypes
<1>9. Generated'
  <2>1. UNCHANGED <<gGenerator, nCalls>> /\ (op' = op \/ op' \notin {"init_remove", "init_generation"})
    BY DEF FireReturns, listVars, runVars, userVars, fireVars, exitVars, boundVars, UserFree
  <2> QED BY <2>1, GeneratedKept
<1>10. Places'
  BY <1>1, <1>2 DEF Places, Handling, Initialising, CallTypes, PlaceTypes, FlagTypes, FireReturns,
     listVars, runVars, userVars, fireVars, exitVars, boundVars, UserFree
<1>20. FilterTypes'
  BY DEF FilterTypes, FireReturns, filterVars
<1> QED BY <1>2, <1>3, <1>4, <1>5, <1>6, <1>7, <1>8, <1>9, <1>10, <1>20, TypePartsThen

LEMMA DoBeforeSleepTiming ==
  ASSUME Timing, DoBeforeSleep
  PROVE  Timing'
<1> USE TypeParts, NoTimerOut DEF Timing
<1>1. UNCHANGED <<mTimers, mRefCnt, timers, events, timer, fired, held>>
  BY DEF DoBeforeSleep, listVars, runVars, fireVars, exitVars, UserFree
<1>2. RefsExact' /\ Posted' = Posted /\ \A u : Listed(u)' = Listed(u)
  BY <1>1, SameRefs
<1>3. ClockTypes'
  <2>1. UNCHANGED <<now, wakeAt, mDelay, mTimeout>>
    BY DEF DoBeforeSleep, listVars, runVars, userVars, fireVars, exitVars, boundVars, UserFree
  <2> QED BY <2>1 DEF ClockTypes
<1>4. ListTypes'
  <2>1. UNCHANGED <<mTimers, timers, held, mArmed, mRefCnt>>
    BY DEF DoBeforeSleep, listVars, runVars, userVars, fireVars, exitVars, boundVars, UserFree
  <2> QED BY <2>1 DEF ListTypes
<1>5. FlagTypes'
  BY DEF FlagTypes, Places, DoBeforeSleep, listVars, runVars, userVars, fireVars, exitVars, boundVars,
     UserFree
<1>6. CountTypes'
  <2>1. UNCHANGED <<generation, gGenerator, mGeneration, events, nCalls>> /\ nSleeps < MaxSleeps /\ nSleeps' = nSleeps + 1
    BY DEF DoBeforeSleep, runVars
  <2> QED BY <2>1, Bounds DEF CountTypes
<1>7. PlaceTypes'
  <2>1. UNCHANGED <<thread, timer, fired, firing, exit>>
    BY DEF DoBeforeSleep, listVars, runVars, userVars, fireVars, exitVars, boundVars, UserFree
  <2> QED BY <2>1 DEF PlaceTypes
<1>8. CallTypes'
  <2>1. UNCHANGED <<op, opTimer, opDelay, opIndex, opType, mType>>
    BY DEF DoBeforeSleep, listVars, runVars, userVars, fireVars, exitVars, boundVars, UserFree
  <2> QED BY <2>1 DEF CallTypes
<1>9. Generated'
  <2>1. UNCHANGED <<gGenerator, nCalls>> /\ (op' = op \/ op' \notin {"init_remove", "init_generation"})
    BY DEF DoBeforeSleep, listVars, runVars, userVars, fireVars, exitVars, boundVars, UserFree
  <2> QED BY <2>1, GeneratedKept
<1>10. Places'
  BY <1>1, <1>2 DEF Places, Handling, Initialising, CallTypes, PlaceTypes, FlagTypes, DoBeforeSleep,
     listVars, runVars, userVars, fireVars, exitVars, boundVars, UserFree
<1>20. FilterTypes'
  BY DEF FilterTypes, DoBeforeSleep, filterVars
<1> QED BY <1>2, <1>3, <1>4, <1>5, <1>6, <1>7, <1>8, <1>9, <1>10, <1>20, TypePartsThen

LEMMA DoAfterSleepTiming ==
  ASSUME Timing, DoAfterSleep
  PROVE  Timing'
<1> USE TypeParts, NoTimerOut DEF Timing
<1>1. UNCHANGED <<mTimers, mRefCnt, timers, events, timer, fired, held>>
  BY DEF DoAfterSleep, listVars, runVars, fireVars, exitVars, UserFree
<1>2. RefsExact' /\ Posted' = Posted /\ \A u : Listed(u)' = Listed(u)
  BY <1>1, SameRefs
<1>3. ClockTypes'
  <2>1. UNCHANGED <<now, wakeAt, mDelay, mTimeout>>
    BY DEF DoAfterSleep, listVars, runVars, userVars, fireVars, exitVars, boundVars, UserFree
  <2> QED BY <2>1 DEF ClockTypes
<1>4. ListTypes'
  <2>1. UNCHANGED <<mTimers, timers, held, mArmed, mRefCnt>>
    BY DEF DoAfterSleep, listVars, runVars, userVars, fireVars, exitVars, boundVars, UserFree
  <2> QED BY <2>1 DEF ListTypes
<1>5. FlagTypes'
  BY DEF FlagTypes, Places, DoAfterSleep, listVars, runVars, userVars, fireVars, exitVars, boundVars,
     UserFree
<1>6. CountTypes'
  <2>1. UNCHANGED <<generation, gGenerator, mGeneration, events, nCalls>> /\ nSleeps < MaxSleeps /\ nSleeps' = nSleeps + 1
    BY DEF DoAfterSleep, runVars
  <2> QED BY <2>1, Bounds DEF CountTypes
<1>7. PlaceTypes'
  <2>1. UNCHANGED <<thread, timer, fired, firing, exit>>
    BY DEF DoAfterSleep, listVars, runVars, userVars, fireVars, exitVars, boundVars, UserFree
  <2> QED BY <2>1 DEF PlaceTypes
<1>8. CallTypes'
  BY DEF CallTypes, Places, DoAfterSleep, listVars, runVars, userVars, fireVars, exitVars, boundVars,
     UserFree
<1>9. Generated'
  <2>1. UNCHANGED <<gGenerator, nCalls>> /\ (op' = op \/ op' \notin {"init_remove", "init_generation"})
    BY DEF DoAfterSleep, listVars, runVars, userVars, fireVars, exitVars, boundVars, UserFree
  <2> QED BY <2>1, GeneratedKept
<1>10. Places'
  <2>1. /\ op = "none" /\ op' = "wake" /\ opIndex' = 1 /\ firing = "no" /\ timers = <<>>
        /\ UNCHANGED <<opTimer, thread, timer, firing, fired, timers, exit, mShutdown, mTimers>>
    BY DEF DoAfterSleep, UserFree, listVars, runVars, fireVars, exitVars
  <2> QED BY <1>1, <1>2, <2>1 DEF Places, Initialising
<1>20. FilterTypes'
  BY DEF FilterTypes, DoAfterSleep, filterVars
<1> QED BY <1>2, <1>3, <1>4, <1>5, <1>6, <1>7, <1>8, <1>9, <1>10, <1>20, TypePartsThen

LEMMA ShutdownJoinedTiming ==
  ASSUME Timing, ShutdownJoined
  PROVE  Timing'
<1> USE TypeParts, NoTimerOut DEF Timing
<1>1. UNCHANGED <<mTimers, mRefCnt, timers, events, timer, fired, held>>
  BY DEF ShutdownJoined, listVars, runVars, fireVars, exitVars, UserFree
<1>2. RefsExact' /\ Posted' = Posted /\ \A u : Listed(u)' = Listed(u)
  BY <1>1, SameRefs
<1>3. ClockTypes'
  <2>1. UNCHANGED <<now, wakeAt, mDelay, mTimeout>>
    BY DEF ShutdownJoined, listVars, runVars, userVars, fireVars, exitVars, boundVars, UserFree
  <2> QED BY <2>1 DEF ClockTypes
<1>4. ListTypes'
  <2>1. UNCHANGED <<mTimers, timers, held, mArmed, mRefCnt>>
    BY DEF ShutdownJoined, listVars, runVars, userVars, fireVars, exitVars, boundVars, UserFree
  <2> QED BY <2>1 DEF ListTypes
<1>5. FlagTypes'
  <2>1. UNCHANGED <<mShutdown, mSleeping, callback, mCanceled, mFiring, mCallback>>
    BY DEF ShutdownJoined, listVars, runVars, userVars, fireVars, exitVars, boundVars, UserFree
  <2> QED BY <2>1 DEF FlagTypes
<1>6. CountTypes'
  <2>1. UNCHANGED <<generation, gGenerator, mGeneration, events, nCalls, nSleeps>>
    BY DEF ShutdownJoined, listVars, runVars, userVars, fireVars, exitVars, boundVars, UserFree
  <2> QED BY <2>1 DEF CountTypes
<1>7. PlaceTypes'
  BY DEF PlaceTypes, Places, ShutdownJoined, listVars, runVars, userVars, fireVars, exitVars,
     boundVars, UserFree
<1>8. CallTypes'
  <2>1. UNCHANGED <<op, opTimer, opDelay, opIndex, opType, mType>>
    BY DEF ShutdownJoined, listVars, runVars, userVars, fireVars, exitVars, boundVars, UserFree
  <2> QED BY <2>1 DEF CallTypes
<1>9. Generated'
  <2>1. UNCHANGED <<gGenerator, nCalls>> /\ (op' = op \/ op' \notin {"init_remove", "init_generation"})
    BY DEF ShutdownJoined, listVars, runVars, userVars, fireVars, exitVars, boundVars, UserFree
  <2> QED BY <2>1, GeneratedKept
<1>10. Places'
  BY <1>1, <1>2 DEF Places, Handling, Initialising, CallTypes, PlaceTypes, FlagTypes, ShutdownJoined,
     listVars, runVars, userVars, fireVars, exitVars, boundVars, UserFree
<1>20. FilterTypes'
  BY DEF FilterTypes, ShutdownJoined, filterVars
<1> QED BY <1>2, <1>3, <1>4, <1>5, <1>6, <1>7, <1>8, <1>9, <1>10, <1>20, TypePartsThen

LEMMA AfterSleepNextTiming ==
  ASSUME Timing, AfterSleepNext
  PROVE  Timing'
<1> USE TypeParts, NoTimerOut DEF Timing
<1>1. UNCHANGED <<mTimers, mRefCnt, timers, events, timer, fired, held>>
  BY DEF AfterSleepNext, listVars, runVars, fireVars, exitVars, Idle, Calling, SetDelayFields
<1>2. RefsExact' /\ Posted' = Posted /\ \A u : Listed(u)' = Listed(u)
  BY <1>1, SameRefs
<1>3. ClockTypes'
  <2>1. CASE UNCHANGED <<mDelay, mTimeout>>
    BY <2>1 DEF ClockTypes, AfterSleepNext, runVars
  <2>2. CASE opIndex <= Len(mTimers) /\ SetDelayFields(mTimers[opIndex], mDelay[mTimers[opIndex]])
    <3> DEFINE x == mTimers[opIndex]
               base == IF mTimeout[x] % Interval # 0 /\ mType[x] = "precise" THEN now ELSE mTimeout[x]
    <3>1. mTimeout \in [Timer -> Nat] /\ mDelay \in [Timer -> Nat] /\ now \in Nat
      BY Limits DEF ClockTypes
    <3>2. opIndex \in 1 .. Len(mTimers)
      BY <2>2 DEF Places, CallTypes, AfterSleepNext
    <3>3. x \in Timer
      BY <3>2 DEF ListTypes
    <3>4. base \in Nat /\ mDelay[x] \in Nat
      BY <3>1, <3>3
    <3>5. now' = now /\ wakeAt' = wakeAt
      BY DEF AfterSleepNext, runVars
    <3>6. SetDelayInternal(x, mType[x], base, mDelay[x])
      BY <2>2 DEF SetDelayFields
    <3> HIDE DEF x, base
    <3> QED BY <3>3, <3>4, <3>5, <3>6, DelaySets
  <2>3. \/ UNCHANGED <<mDelay, mTimeout>>
        \/ opIndex <= Len(mTimers) /\ SetDelayFields(mTimers[opIndex], mDelay[mTimers[opIndex]])
    <3>1. opIndex \in Nat /\ Len(mTimers) \in Nat
      BY DEF CallTypes, ListTypes
    <3>2. CASE opIndex > Len(mTimers)
      <4>1. UNCHANGED <<mDelay, mTimeout>>
        BY <3>2 DEF AfterSleepNext
      <4> QED BY <4>1
    <3>3. CASE ~(opIndex > Len(mTimers))
      <4>1. CASE Unset(mTimers[opIndex])
        <5>1. UNCHANGED <<mDelay, mTimeout>>
          BY <3>3, <4>1 DEF AfterSleepNext
        <5> QED BY <5>1
      <4>2. CASE ~Unset(mTimers[opIndex])
        BY <3>1, <3>3, <4>2 DEF AfterSleepNext
      <4> QED BY <4>1, <4>2
    <3> QED BY <3>2, <3>3
  <2> QED BY <2>1, <2>2, <2>3
<1>4. ListTypes'
  <2>1. UNCHANGED <<mTimers, timers, held, mArmed, mRefCnt>>
    BY DEF AfterSleepNext, listVars, runVars, userVars, fireVars, exitVars, boundVars, Idle, Calling,
       SetDelayFields
  <2> QED BY <2>1 DEF ListTypes
<1>5. FlagTypes'
  BY DEF FlagTypes, AfterSleepNext, fireVars
<1>6. CountTypes'
  <2>1. UNCHANGED <<generation, gGenerator, mGeneration, events, nCalls, nSleeps>>
    BY DEF AfterSleepNext, listVars, runVars, userVars, fireVars, exitVars, boundVars, Idle, Calling,
       SetDelayFields
  <2> QED BY <2>1 DEF CountTypes
<1>7. PlaceTypes'
  <2>1. UNCHANGED <<thread, timer, fired, firing, exit>>
    BY DEF AfterSleepNext, listVars, runVars, userVars, fireVars, exitVars, boundVars, Idle, Calling,
       SetDelayFields
  <2> QED BY <2>1 DEF PlaceTypes
<1>8. CallTypes'
  <2>1. opIndex \in Nat /\ Len(mTimers) \in Nat /\ opIndex # 0 /\ mType' = mType
    BY DEF CallTypes, ListTypes, Places, AfterSleepNext
  <2>2. CASE opIndex > Len(mTimers)
    BY <2>1, <2>2 DEF AfterSleepNext, Idle, CallTypes
  <2>3. CASE ~(opIndex > Len(mTimers))
    <3>1. mTimers[opIndex] \in Timer
      BY <2>1, <2>3 DEF ListTypes
    <3>2. CASE Unset(mTimers[opIndex])
      BY <2>1, <2>3, <3>2 DEF AfterSleepNext, CallTypes
    <3>3. CASE ~Unset(mTimers[opIndex])
      BY <2>1, <2>3, <3>1, <3>3 DEF AfterSleepNext, CallTypes, Calling
    <3> QED BY <3>2, <3>3
  <2> QED BY <2>2, <2>3
<1>9. Generated'
  <2>1. UNCHANGED <<gGenerator, nCalls>> /\ op' \in {"none", "wake", "wake_changed"}
    BY DEF AfterSleepNext, Idle, Calling, boundVars
  <2> QED BY <2>1, GeneratedKept
<1>10. Places'
  <2>1. /\ opIndex \in Nat /\ Len(mTimers) \in Nat /\ opIndex # 0 /\ op = "wake"
        /\ UNCHANGED <<thread, mShutdown, firing, exit>>
    BY DEF CallTypes, ListTypes, Places, AfterSleepNext, runVars, fireVars, exitVars
  <2>2. CASE opIndex > Len(mTimers)
    <3>1. Idle
      BY <2>2 DEF AfterSleepNext
    <3> QED BY <1>1, <1>2, <2>1, <3>1 DEF Idle, Places, Initialising
  <2>3. CASE ~(opIndex > Len(mTimers))
    <3>1. mTimers[opIndex] \in Timer /\ Listed(mTimers[opIndex]) /\ ~mShutdown
      <4>1. opIndex \in 1 .. Len(mTimers)
        BY <2>1, <2>3
      <4>2. mTimers # <<>>
        BY <4>1
      <4> QED BY <4>1, <4>2 DEF ListTypes, Listed, Contains, Places
    <3>2. CASE Unset(mTimers[opIndex])
      <4>1. op' = "wake" /\ opTimer' = opTimer /\ opIndex' # 0
        BY <2>1, <2>3, <3>2 DEF AfterSleepNext
      <4> QED BY <1>1, <1>2, <2>1, <4>1 DEF Places, Initialising
    <3>3. CASE ~Unset(mTimers[opIndex])
      <4>1. op' = "wake_changed" /\ opTimer' = mTimers[opIndex] /\ opIndex' = opIndex
        BY <2>1, <2>3, <3>3 DEF AfterSleepNext, Calling
      <4>2. Listed(opTimer)'
        BY <1>1, <3>1, <4>1 DEF Listed
      <4> QED BY <1>1, <1>2, <2>1, <3>1, <4>1, <4>2 DEF Places, Initialising
    <3> QED BY <3>2, <3>3
  <2> QED BY <2>2, <2>3
<1>20. FilterTypes'
  BY Limits DEF FilterTypes, AfterSleepNext, filterVars
<1> QED BY <1>2, <1>3, <1>4, <1>5, <1>6, <1>7, <1>8, <1>9, <1>10, <1>20, TypePartsThen

(* ... then those that only change the list and its references, ... *)
LEMMA PostedType ==
  ASSUME TypeOK
  PROVE  Posted \in Seq(Timer) /\ Len(Posted) = Len(events) /\ \A i \in 1 .. Len(events) : Posted[i] = events[i].t
<1>1. events \in Seq([t: Timer, gen: 0 .. MaxCalls])
  BY DEF TypeOK
<1>2. Len(events) \in Nat /\ \A i \in 1 .. Len(events) : events[i] \in [t: Timer, gen: 0 .. MaxCalls]
  BY <1>1, LenProperties
<1>3. \A i \in 1 .. Len(events) : events[i].t \in Timer
  BY <1>2
<1> QED BY <1>2, <1>3 DEF Posted

--------------------------------------------------------------------------------
LEMMA ListStepRefs ==
  ASSUME Timing, NEW x \in Timer, ListChange(x), UNCHANGED <<timers, events, timer, fired, held>>
  PROVE  RefsExact' /\ Posted' = Posted /\ ListTypes'
<1>1. ListTypes
  BY TypeParts DEF Timing
<1>2. PICK d \in -1 .. 1 : /\ \A t \in Timer : Occ(mTimers', t) = Occ(mTimers, t) + IF t = x THEN d ELSE 0
                          /\ mRefCnt' = [mRefCnt EXCEPT ![x] = @ + d]
  BY DEF ListStep, ListChange
<1>3. Posted' = Posted
  BY DEF Posted
<1>4. ASSUME NEW t \in Timer PROVE mRefCnt'[t] = Refs(t)' /\ mRefCnt'[t] \in Nat
  <2> DEFINE others == Occ(timers, t) + Occ(Posted, t) + One(timer = t) + One(fired = t) + One(t \in held)
  <2>1. /\ Occ(timers, t) \in Nat /\ Occ(mTimers, t) \in Nat /\ Occ(mTimers', t) \in Nat
    BY <1>1, OccType DEF ListTypes, ListChange
  <2>2. Occ(Posted, t) \in Nat
    BY PostedType, OccType DEF Timing
  <2>3. others \in Nat /\ Refs(t) = Occ(mTimers, t) + others
    BY <2>1, <2>2 DEF Refs, One
  <2>4. Refs(t)' = Occ(mTimers', t) + others
    <3>1. Refs(t)' = Occ(mTimers', t) + Occ(timers, t) + Occ(Posted, t) + One(timer = t) + One(fired = t) + One(t \in held)
      BY <1>3 DEF Refs
    <3> QED BY <2>1, <2>2, <3>1 DEF One
  <2>5. mRefCnt[t] = Refs(t) /\ mRefCnt'[t] = mRefCnt[t] + IF t = x THEN d ELSE 0
    BY <1>1, <1>2 DEF Timing, RefsExact, ListTypes
  <2>6. Occ(mTimers', t) = Occ(mTimers, t) + IF t = x THEN d ELSE 0
    BY <1>2
  <2> HIDE DEF others
  <2> QED BY <2>1, <2>3, <2>4, <2>5, <2>6
<1>5. mRefCnt' \in [Timer -> Nat]
  BY <1>1, <1>2, <1>4 DEF ListTypes
<1> QED BY <1>1, <1>3, <1>4, <1>5 DEF RefsExact, ListTypes, ListChange

LEMMA InitRemoveTiming ==
  ASSUME Timing, InitRemove
  PROVE  Timing'
<1> USE TypeParts, NoTimerOut DEF Timing
<1>1. opTimer \in Timer /\ UNCHANGED <<timers, events, timer, fired, held>>
  BY DEF Places, CallTypes, PlaceTypes, InitRemove, exitVars, fireVars, Goes
<1>11. ListStep(opTimer)
  BY <1>1, RemoveTimerLists DEF InitRemove
<1>2. RefsExact' /\ Posted' = Posted /\ ListTypes'
  BY <1>1, <1>11, ListStepRefs DEF ListStep
<1>3. ClockTypes'
  <2>1. UNCHANGED <<now, wakeAt, mDelay, mTimeout>>
    BY DEF InitRemove, listVars, runVars, userVars, fireVars, exitVars, boundVars, Goes
  <2> QED BY <2>1 DEF ClockTypes
<1>4. ListTypes'
  BY <1>2
<1>5. FlagTypes'
  <2>1. UNCHANGED <<mShutdown, mSleeping, callback, mCanceled, mFiring, mCallback>>
    BY DEF InitRemove, listVars, runVars, userVars, fireVars, exitVars, boundVars, Goes
  <2> QED BY <2>1 DEF FlagTypes
<1>6. CountTypes'
  <2>1. UNCHANGED <<generation, gGenerator, mGeneration, events, nCalls, nSleeps>>
    BY DEF InitRemove, listVars, runVars, userVars, fireVars, exitVars, boundVars, Goes
  <2> QED BY <2>1 DEF CountTypes
<1>7. PlaceTypes'
  BY <1>1, <1>11 DEF PlaceTypes, ListStep, InitRemove, listVars, runVars, userVars, fireVars, exitVars,
     boundVars, Goes
<1>8. CallTypes'
  BY DEF CallTypes, Places, InitRemove, listVars, runVars, userVars, fireVars, exitVars, boundVars, Goes
<1>9. Generated'
  <2>1. UNCHANGED <<gGenerator, nCalls>> /\ op = "init_remove"
    BY DEF InitRemove, Goes
  <2> QED BY <2>1, Counted DEF Generated
<1>10. Places'
  BY <1>1, <1>2, <1>11 DEF ListStep, Places, Handling, Initialising, CallTypes, PlaceTypes, FlagTypes,
     InitRemove, listVars, runVars, userVars, fireVars, exitVars, boundVars, Goes
<1>20. FilterTypes'
  BY DEF FilterTypes, InitRemove, filterVars
<1> QED BY <1>2, <1>3, <1>4, <1>5, <1>6, <1>7, <1>8, <1>9, <1>10, <1>20, TypePartsThen

LEMMA InitAddTiming ==
  ASSUME Timing, InitAdd
  PROVE  Timing'
<1> USE TypeParts, NoTimerOut DEF Timing
<1>1. opTimer \in Timer /\ UNCHANGED <<timers, events, timer, fired, held>>
  BY DEF Places, CallTypes, PlaceTypes, InitAdd, exitVars, fireVars, Returns, Idle
<1>11. ListStep(opTimer)
  BY <1>1, AddTimerLists DEF InitAdd
<1>2. RefsExact' /\ Posted' = Posted /\ ListTypes'
  BY <1>1, <1>11, ListStepRefs DEF ListStep
<1>3. ClockTypes'
  <2>1. UNCHANGED <<now, wakeAt, mDelay, mTimeout>>
    BY DEF InitAdd, listVars, runVars, userVars, fireVars, exitVars, boundVars, Returns, Idle
  <2> QED BY <2>1 DEF ClockTypes
<1>4. ListTypes'
  BY <1>2
<1>5. FlagTypes'
  <2>1. UNCHANGED <<mShutdown, mSleeping, callback, mCanceled, mFiring, mCallback>>
    BY DEF InitAdd, listVars, runVars, userVars, fireVars, exitVars, boundVars, Returns, Idle
  <2> QED BY <2>1 DEF FlagTypes
<1>6. CountTypes'
  <2>1. UNCHANGED <<generation, gGenerator, mGeneration, events, nCalls, nSleeps>>
    BY DEF InitAdd, listVars, runVars, userVars, fireVars, exitVars, boundVars, Returns, Idle
  <2> QED BY <2>1 DEF CountTypes
<1>7. PlaceTypes'
  BY <1>1, <1>11 DEF PlaceTypes, ListStep, InitAdd, listVars, runVars, userVars, fireVars, exitVars,
     boundVars, Returns, Idle
<1>8. CallTypes'
  BY DEF CallTypes, Places, InitAdd, listVars, runVars, userVars, fireVars, exitVars, boundVars,
     Returns, Idle
<1>9. Generated'
  <2>1. UNCHANGED <<gGenerator, nCalls>> /\ (op' = op \/ op' \notin {"init_remove", "init_generation"})
    BY DEF InitAdd, listVars, runVars, userVars, fireVars, exitVars, boundVars, Returns, Idle
  <2> QED BY <2>1, GeneratedKept
<1>10. Places'
  BY <1>1, <1>2, <1>11 DEF ListStep, Places, Handling, Initialising, CallTypes, PlaceTypes, FlagTypes,
     InitAdd, listVars, runVars, userVars, fireVars, exitVars, boundVars, Returns, Idle
<1>20. FilterTypes'
  BY DEF FilterTypes, InitAdd, filterVars
<1> QED BY <1>2, <1>3, <1>4, <1>5, <1>6, <1>7, <1>8, <1>9, <1>10, <1>20, TypePartsThen

LEMMA CancelRemoveTiming ==
  ASSUME Timing, CancelRemove
  PROVE  Timing'
<1> USE TypeParts, NoTimerOut DEF Timing
<1>1. opTimer \in Timer /\ UNCHANGED <<timers, events, timer, fired, held>>
  BY DEF Places, CallTypes, PlaceTypes, CancelRemove, exitVars, fireVars, Returns, Idle
<1>11. ListStep(opTimer)
  BY <1>1, RemoveTimerLists DEF CancelRemove
<1>2. RefsExact' /\ Posted' = Posted /\ ListTypes'
  BY <1>1, <1>11, ListStepRefs DEF ListStep
<1>3. ClockTypes'
  <2>1. UNCHANGED <<now, wakeAt, mDelay, mTimeout>>
    BY DEF CancelRemove, listVars, runVars, userVars, fireVars, exitVars, boundVars, Returns, Idle
  <2> QED BY <2>1 DEF ClockTypes
<1>4. ListTypes'
  BY <1>2
<1>5. FlagTypes'
  BY DEF FlagTypes, Places, CancelRemove, listVars, runVars, userVars, fireVars, exitVars, boundVars,
     Returns, Idle
<1>6. CountTypes'
  <2>1. UNCHANGED <<generation, gGenerator, mGeneration, events, nCalls, nSleeps>>
    BY DEF CancelRemove, listVars, runVars, userVars, fireVars, exitVars, boundVars, Returns, Idle
  <2> QED BY <2>1 DEF CountTypes
<1>7. PlaceTypes'
  BY <1>1, <1>11 DEF PlaceTypes, ListStep, CancelRemove, listVars, runVars, userVars, fireVars,
     exitVars, boundVars, Returns, Idle
<1>8. CallTypes'
  BY DEF CallTypes, Places, CancelRemove, listVars, runVars, userVars, fireVars, exitVars, boundVars,
     Returns, Idle
<1>9. Generated'
  <2>1. UNCHANGED <<gGenerator, nCalls>> /\ (op' = op \/ op' \notin {"init_remove", "init_generation"})
    BY DEF CancelRemove, listVars, runVars, userVars, fireVars, exitVars, boundVars, Returns, Idle
  <2> QED BY <2>1, GeneratedKept
<1>10. Places'
  BY <1>1, <1>2, <1>11 DEF ListStep, Places, Handling, Initialising, CallTypes, PlaceTypes, FlagTypes,
     CancelRemove, listVars, runVars, userVars, fireVars, exitVars, boundVars, Returns, Idle
<1>20. FilterTypes'
  BY DEF FilterTypes, CancelRemove, filterVars
<1> QED BY <1>2, <1>3, <1>4, <1>5, <1>6, <1>7, <1>8, <1>9, <1>10, <1>20, TypePartsThen

LEMMA SetDelayChangedTiming ==
  ASSUME Timing, SetDelayChanged
  PROVE  Timing'
<1> USE TypeParts, NoTimerOut DEF Timing
<1>1. opTimer \in Timer /\ UNCHANGED <<timers, events, timer, fired, held>>
  BY DEF Places, CallTypes, PlaceTypes, SetDelayChanged, exitVars, fireVars, Returns, Idle
<1>11. ListStep(opTimer)
  BY <1>1, TimerDelayChangedLists DEF SetDelayChanged
<1>2. RefsExact' /\ Posted' = Posted /\ ListTypes'
  BY <1>1, <1>11, ListStepRefs DEF ListStep
<1>3. ClockTypes'
  <2>1. UNCHANGED <<now, wakeAt, mDelay, mTimeout>>
    BY DEF SetDelayChanged, listVars, runVars, userVars, fireVars, exitVars, boundVars, Returns, Idle
  <2> QED BY <2>1 DEF ClockTypes
<1>4. ListTypes'
  BY <1>2
<1>5. FlagTypes'
  <2>1. UNCHANGED <<mShutdown, mSleeping, callback, mCanceled, mFiring, mCallback>>
    BY DEF SetDelayChanged, listVars, runVars, userVars, fireVars, exitVars, boundVars, Returns, Idle
  <2> QED BY <2>1 DEF FlagTypes
<1>6. CountTypes'
  <2>1. UNCHANGED <<generation, gGenerator, mGeneration, events, nCalls, nSleeps>>
    BY DEF SetDelayChanged, listVars, runVars, userVars, fireVars, exitVars, boundVars, Returns, Idle
  <2> QED BY <2>1 DEF CountTypes
<1>7. PlaceTypes'
  BY <1>1, <1>11 DEF PlaceTypes, ListStep, SetDelayChanged, listVars, runVars, userVars, fireVars,
     exitVars, boundVars, Returns, Idle
<1>8. CallTypes'
  BY DEF CallTypes, Places, SetDelayChanged, listVars, runVars, userVars, fireVars, exitVars,
     boundVars, Returns, Idle
<1>9. Generated'
  <2>1. UNCHANGED <<gGenerator, nCalls>> /\ (op' = op \/ op' \notin {"init_remove", "init_generation"})
    BY DEF SetDelayChanged, listVars, runVars, userVars, fireVars, exitVars, boundVars, Returns, Idle
  <2> QED BY <2>1, GeneratedKept
<1>10. Places'
  BY <1>1, <1>2, <1>11 DEF ListStep, Places, Handling, Initialising, CallTypes, PlaceTypes, FlagTypes,
     SetDelayChanged, listVars, runVars, userVars, fireVars, exitVars, boundVars, Returns, Idle
<1>20. FilterTypes'
  BY DEF FilterTypes, SetDelayChanged, filterVars
<1> QED BY <1>2, <1>3, <1>4, <1>5, <1>6, <1>7, <1>8, <1>9, <1>10, <1>20, TypePartsThen

LEMMA ReleaseRemoveTiming ==
  ASSUME Timing, ReleaseRemove
  PROVE  Timing'
<1> USE TypeParts, NoTimerOut DEF Timing
<1>1. opTimer \in Timer /\ UNCHANGED <<timers, events, timer, fired, held>>
  BY DEF Places, CallTypes, PlaceTypes, ReleaseRemove, exitVars, fireVars, Returns, Idle
<1>11. ListStep(opTimer)
  BY <1>1, RemoveTimerLists DEF ReleaseRemove
<1>2. RefsExact' /\ Posted' = Posted /\ ListTypes'
  BY <1>1, <1>11, ListStepRefs DEF ListStep
<1>3. ClockTypes'
  <2>1. UNCHANGED <<now, wakeAt, mDelay, mTimeout>>
    BY DEF ReleaseRemove, listVars, runVars, userVars, fireVars, exitVars, boundVars, Returns, Idle
  <2> QED BY <2>1 DEF ClockTypes
<1>4. ListTypes'
  BY <1>2
<1>5. FlagTypes'
  <2>1. UNCHANGED <<mShutdown, mSleeping, callback, mCanceled, mFiring, mCallback>>
    BY DEF ReleaseRemove, listVars, runVars, userVars, fireVars, exitVars, boundVars, Returns, Idle
  <2> QED BY <2>1 DEF FlagTypes
<1>6. CountTypes'
  <2>1. UNCHANGED <<generation, gGenerator, mGeneration, events, nCalls, nSleeps>>
    BY DEF ReleaseRemove, listVars, runVars, userVars, fireVars, exitVars, boundVars, Returns, Idle
  <2> QED BY <2>1 DEF CountTypes
<1>7. PlaceTypes'
  BY <1>1, <1>11 DEF PlaceTypes, ListStep, ReleaseRemove, listVars, runVars, userVars, fireVars,
     exitVars, boundVars, Returns, Idle
<1>8. CallTypes'
  BY DEF CallTypes, Places, ReleaseRemove, listVars, runVars, userVars, fireVars, exitVars, boundVars,
     Returns, Idle
<1>9. Generated'
  <2>1. UNCHANGED <<gGenerator, nCalls>> /\ (op' = op \/ op' \notin {"init_remove", "init_generation"})
    BY DEF ReleaseRemove, listVars, runVars, userVars, fireVars, exitVars, boundVars, Returns, Idle
  <2> QED BY <2>1, GeneratedKept
<1>10. Places'
  BY <1>1, <1>2, <1>11 DEF ListStep, Places, Handling, Initialising, CallTypes, PlaceTypes, FlagTypes,
     ReleaseRemove, listVars, runVars, userVars, fireVars, exitVars, boundVars, Returns, Idle
<1>20. FilterTypes'
  BY DEF FilterTypes, ReleaseRemove, filterVars
<1> QED BY <1>2, <1>3, <1>4, <1>5, <1>6, <1>7, <1>8, <1>9, <1>10, <1>20, TypePartsThen

LEMMA FireAddTiming ==
  ASSUME Timing, FireAdd
  PROVE  Timing'
<1> USE TypeParts, NoTimerOut DEF Timing
<1>1. fired \in Timer /\ UNCHANGED <<timers, events, timer, fired, held>>
  BY DEF Places, CallTypes, PlaceTypes, FireAdd, exitVars, fireVars
<1>11. ListStep(fired)
  BY <1>1, AddTimerLists DEF FireAdd
<1>2. RefsExact' /\ Posted' = Posted /\ ListTypes'
  BY <1>1, <1>11, ListStepRefs DEF ListStep
<1>3. ClockTypes'
  <2>1. UNCHANGED <<now, wakeAt, mDelay, mTimeout>>
    BY DEF FireAdd, listVars, runVars, userVars, fireVars, exitVars, boundVars
  <2> QED BY <2>1 DEF ClockTypes
<1>4. ListTypes'
  BY <1>2
<1>5. FlagTypes'
  <2>1. UNCHANGED <<mShutdown, mSleeping, callback, mCanceled, mFiring, mCallback>>
    BY DEF FireAdd, listVars, runVars, userVars, fireVars, exitVars, boundVars
  <2> QED BY <2>1 DEF FlagTypes
<1>6. CountTypes'
  <2>1. UNCHANGED <<generation, gGenerator, mGeneration, events, nCalls, nSleeps>>
    BY DEF FireAdd, listVars, runVars, userVars, fireVars, exitVars, boundVars
  <2> QED BY <2>1 DEF CountTypes
<1>7. PlaceTypes'
  BY <1>1, <1>11 DEF PlaceTypes, ListStep, FireAdd, listVars, runVars, userVars, fireVars, exitVars,
     boundVars
<1>8. CallTypes'
  <2>1. UNCHANGED <<op, opTimer, opDelay, opIndex, opType, mType>>
    BY DEF FireAdd, listVars, runVars, userVars, fireVars, exitVars, boundVars
  <2> QED BY <2>1 DEF CallTypes
<1>9. Generated'
  <2>1. UNCHANGED <<gGenerator, nCalls>> /\ (op' = op \/ op' \notin {"init_remove", "init_generation"})
    BY DEF FireAdd, listVars, runVars, userVars, fireVars, exitVars, boundVars
  <2> QED BY <2>1, GeneratedKept
<1>10. Places'
  BY <1>1, <1>2, <1>11 DEF ListStep, Places, Handling, Initialising, CallTypes, PlaceTypes, FlagTypes,
     FireAdd, listVars, runVars, userVars, fireVars, exitVars, boundVars
<1>20. FilterTypes'
  BY DEF FilterTypes, FireAdd, filterVars
<1> QED BY <1>2, <1>3, <1>4, <1>5, <1>6, <1>7, <1>8, <1>9, <1>10, <1>20, TypePartsThen

LEMMA AfterSleepChangedTiming ==
  ASSUME Timing, AfterSleepChanged
  PROVE  Timing'
<1> USE TypeParts, NoTimerOut DEF Timing
<1>1. opTimer \in Timer /\ UNCHANGED <<timers, events, timer, fired, held>>
  BY DEF Places, CallTypes, PlaceTypes, AfterSleepChanged, exitVars, fireVars
<1>11. ListStep(opTimer)
  BY <1>1, TimerDelayChangedLists DEF AfterSleepChanged
<1>2. RefsExact' /\ Posted' = Posted /\ ListTypes'
  BY <1>1, <1>11, ListStepRefs DEF ListStep
<1>3. ClockTypes'
  <2>1. UNCHANGED <<now, wakeAt, mDelay, mTimeout>>
    BY DEF AfterSleepChanged, listVars, runVars, userVars, fireVars, exitVars, boundVars
  <2> QED BY <2>1 DEF ClockTypes
<1>4. ListTypes'
  BY <1>2
<1>5. FlagTypes'
  <2>1. UNCHANGED <<mShutdown, mSleeping, callback, mCanceled, mFiring, mCallback>>
    BY DEF AfterSleepChanged, listVars, runVars, userVars, fireVars, exitVars, boundVars
  <2> QED BY <2>1 DEF FlagTypes
<1>6. CountTypes'
  <2>1. UNCHANGED <<generation, gGenerator, mGeneration, events, nCalls, nSleeps>>
    BY DEF AfterSleepChanged, listVars, runVars, userVars, fireVars, exitVars, boundVars
  <2> QED BY <2>1 DEF CountTypes
<1>7. PlaceTypes'
  BY <1>1, <1>11 DEF PlaceTypes, ListStep, AfterSleepChanged, listVars, runVars, userVars, fireVars,
     exitVars, boundVars
<1>8. CallTypes'
  BY DEF CallTypes, Places, AfterSleepChanged, listVars, runVars, userVars, fireVars, exitVars, boundVars
<1>9. Generated'
  <2>1. UNCHANGED <<gGenerator, nCalls>> /\ (op' = op \/ op' \notin {"init_remove", "init_generation"})
    BY DEF AfterSleepChanged, listVars, runVars, userVars, fireVars, exitVars, boundVars
  <2> QED BY <2>1, GeneratedKept
<1>10. Places'
  BY <1>1, <1>2, <1>11 DEF ListStep, Places, Handling, Initialising, CallTypes, PlaceTypes, FlagTypes,
     AfterSleepChanged, listVars, runVars, userVars, fireVars, exitVars, boundVars
<1>20. FilterTypes'
  BY DEF FilterTypes, AfterSleepChanged, filterVars
<1> QED BY <1>2, <1>3, <1>4, <1>5, <1>6, <1>7, <1>8, <1>9, <1>10, <1>20, TypePartsThen

--------------------------------------------------------------------------------
(* ... and those that hand references on. *)
LEMMA RefParts ==
  ASSUME Timing, NEW t \in Timer
  PROVE  /\ Occ(mTimers, t) \in Nat /\ Occ(timers, t) \in Nat /\ Occ(Posted, t) \in Nat
         /\ mRefCnt[t] \in Nat
         /\ mRefCnt[t] = Occ(mTimers, t) + Occ(timers, t) + Occ(Posted, t)
                           + One(timer = t) + One(fired = t) + One(t \in held)
<1>1. mTimers \in Seq(Timer) /\ timers \in Seq(Timer) /\ Posted \in Seq(Timer) /\ mRefCnt \in [Timer -> Nat]
  BY PostedType DEF Timing, TypeOK
<1> QED BY <1>1, OccType DEF Timing, RefsExact, Refs

(* An event is posted, and an event is taken out of the queue. *)
LEMMA PostedThen ==
  ASSUME Timing, NEW e \in [t: Timer, gen: 0 .. MaxCalls], events' = Append(events, e)
  PROVE  \A t : /\ Occ(Posted', t) = Occ(Posted, t) + One(e.t = t)
                /\ Contains(Posted, t) => Contains(Posted', t)
                /\ Contains(Posted', e.t)
<1> DEFINE n == Len(events)
<1>1. /\ events \in Seq([t: Timer, gen: 0 .. MaxCalls]) /\ n \in Nat
      /\ Posted \in Seq(Timer) /\ Len(Posted) = n /\ \A i \in 1 .. n : Posted[i] = events[i].t
  <2>1. events \in Seq([t: Timer, gen: 0 .. MaxCalls]) /\ TypeOK
    BY DEF Timing, TypeOK
  <2>2. n \in Nat
    BY <2>1, LenProperties
  <2> QED BY <2>1, <2>2, PostedType
<1>2. Len(events') = n + 1 /\ events'[n + 1] = e /\ \A i \in 1 .. n : events'[i] = events[i]
  BY <1>1, AppendProperties
<1>3. e.t \in Timer
  OBVIOUS
<1>4. Posted' = [i \in 1 .. n + 1 |-> events'[i].t]
  BY <1>2 DEF Posted
<1> HIDE DEF n
<1>5. Posted' \in Seq(Timer) /\ Len(Posted') = n + 1 /\ Posted'[n + 1] = e.t /\ \A i \in 1 .. n : Posted'[i] = Posted[i]
  <2>1. \A i \in 1 .. n + 1 : Posted'[i] = IF i = n + 1 THEN e.t ELSE Posted[i]
    BY <1>1, <1>2, <1>4
  <2>2. \A i \in 1 .. n : Posted[i] \in Timer
    BY <1>1
  <2>3. \A i \in 1 .. n + 1 : Posted'[i] \in Timer
    BY <1>1, <1>3, <2>1, <2>2
  <2>4. n + 1 \in Nat /\ Posted' \in [1 .. n + 1 -> Timer]
    <3>1. n + 1 \in Nat
      BY <1>1
    <3>2. Posted' = [i \in 1 .. n + 1 |-> Posted'[i]]
      BY <1>4, Zenon
    <3> QED BY <2>3, <3>1, <3>2, Zenon
  <2>5. Posted' \in Seq(Timer) /\ Len(Posted') = n + 1
    BY <2>4
  <2> QED BY <1>1, <2>1, <2>5
<1>6. Widened(Posted', Posted, n + 1, e.t)
  BY <1>1, <1>5 DEF Widened
<1>7. \A t : Contains(Posted, t) => Contains(Posted', t)
  BY <1>1, <1>5 DEF Contains
<1>8. Contains(Posted', e.t)
  BY <1>1, <1>5 DEF Contains
<1> QED BY <1>1, <1>5, <1>6, <1>7, <1>8, WidenedOcc

LEMMA UnpostedThen ==
  ASSUME Timing, events # <<>>, events' = Tail(events)
  PROVE  /\ Head(events).t \in Timer
         /\ \A t : /\ Occ(Posted, t) = Occ(Posted', t) + One(Head(events).t = t)
                   /\ Contains(Posted, t) => t = Head(events).t \/ Contains(Posted', t)
<1> DEFINE n == Len(events)
           e == Head(events)
<1>1. /\ events \in Seq([t: Timer, gen: 0 .. MaxCalls]) /\ n \in Nat
      /\ Posted \in Seq(Timer) /\ Len(Posted) = n /\ \A i \in 1 .. n : Posted[i] = events[i].t
  <2>1. events \in Seq([t: Timer, gen: 0 .. MaxCalls]) /\ TypeOK
    BY DEF Timing, TypeOK
  <2>2. n \in Nat
    BY <2>1, LenProperties
  <2> QED BY <2>1, <2>2, PostedType
<1>2. /\ n >= 1 /\ Len(events') = n - 1 /\ e = events[1]
      /\ \A i \in 1 .. n - 1 : events'[i] = events[i + 1]
  BY <1>1, HeadTailProperties, EmptySeq
<1>3. Posted' = [i \in 1 .. n - 1 |-> events'[i].t]
  BY <1>2 DEF Posted
<1>4. e.t = Posted[1] /\ e.t \in Timer
  BY <1>1, <1>2
<1> HIDE DEF n, e
<1>5. Posted' \in Seq(Timer) /\ Len(Posted') = n - 1 /\ \A i \in 1 .. n - 1 : Posted'[i] = Posted[i + 1]
  <2>1. \A i \in 1 .. n - 1 : Posted'[i] = Posted[i + 1] /\ Posted[i + 1] \in Timer
    BY <1>1, <1>2, <1>3
  <2> QED BY <1>1, <1>2, <1>3, <2>1
<1>6. Widened(Posted, Posted', 1, e.t)
  BY <1>1, <1>2, <1>4, <1>5 DEF Widened
<1>7. ASSUME NEW t, Contains(Posted, t) PROVE t = e.t \/ Contains(Posted', t)
  <2>1. PICK i \in 1 .. n : Posted[i] = t
    BY <1>1, <1>7 DEF Contains
  <2>2. CASE i = 1
    BY <1>4, <2>1, <2>2
  <2>3. CASE i # 1
    <3>1. i - 1 \in 1 .. n - 1 /\ (i - 1) + 1 = i
      BY <1>1, <2>3
    <3> QED BY <1>5, <2>1, <3>1 DEF Contains
  <2> QED BY <2>2, <2>3
<1> QED BY <1>1, <1>4, <1>5, <1>6, <1>7, WidenedOcc DEF e

LEMMA PostDispatchTiming ==
  ASSUME Timing, PostDispatch
  PROVE  Timing'
<1> USE TypeParts, NoTimerOut DEF Timing
<1>11. /\ timer \in Timer /\ generation \in 0 .. MaxCalls /\ thread = "dispatch"
       /\ [t |-> timer, gen |-> generation] \in [t: Timer, gen: 0 .. MaxCalls]
  BY DEF PostDispatch, Places, Handling, PlaceTypes, CountTypes
<1>1. /\ UNCHANGED <<mTimers, mRefCnt, timers, fired, held>> /\ timer' = NoTimer
      /\ events' = Append(events, [t |-> timer, gen |-> generation])
  BY DEF PostDispatch, listVars, fireVars, exitVars
<1>12. \A t : /\ Occ(Posted', t) = Occ(Posted, t) + One(timer = t)
              /\ Contains(Posted, t) => Contains(Posted', t)
              /\ Contains(Posted', timer)
  BY <1>1, <1>11, PostedThen
<1>2. RefsExact'
  <2> SUFFICES ASSUME NEW t \in Timer PROVE mRefCnt'[t] = Refs(t)'
    BY DEF RefsExact
  <2>1. timer' # t
    BY <1>1
  <2>2. Refs(t)' = Occ(mTimers, t) + Occ(timers, t) + Occ(Posted', t) + 0 + One(fired = t) + One(t \in held)
    BY <1>1, <2>1 DEF Refs, One
  <2>3. Occ(Posted', t) = Occ(Posted, t) + One(timer = t)
    BY <1>12
  <2> QED BY <1>1, <2>2, <2>3, RefParts DEF One
<1>3. ClockTypes'
  <2>1. UNCHANGED <<now, wakeAt, mDelay, mTimeout>>
    BY DEF PostDispatch, listVars, runVars, userVars, fireVars, exitVars, boundVars
  <2> QED BY <2>1 DEF ClockTypes
<1>4. ListTypes'
  <2>1. UNCHANGED <<mTimers, timers, held, mArmed, mRefCnt>>
    BY DEF PostDispatch, listVars, runVars, userVars, fireVars, exitVars, boundVars
  <2> QED BY <2>1 DEF ListTypes
<1>5. FlagTypes'
  <2>1. UNCHANGED <<mShutdown, mSleeping, callback, mCanceled, mFiring, mCallback>>
    BY DEF PostDispatch, listVars, runVars, userVars, fireVars, exitVars, boundVars
  <2> QED BY <2>1 DEF FlagTypes
<1>6. CountTypes'
  <2>1. events' \in Seq([t: Timer, gen: 0 .. MaxCalls])
    BY <1>1, <1>11, AppendProperties DEF CountTypes
  <2>2. UNCHANGED <<gGenerator, mGeneration, nCalls, nSleeps>> /\ generation' = 0
    BY DEF PostDispatch, boundVars
  <2> QED BY <2>1, <2>2, Bounds DEF CountTypes
<1>7. PlaceTypes'
  BY DEF PlaceTypes, Places, PostDispatch, listVars, runVars, userVars, fireVars, exitVars, boundVars
<1>8. CallTypes'
  <2>1. UNCHANGED <<op, opTimer, opDelay, opIndex, opType, mType>>
    BY DEF PostDispatch, listVars, runVars, userVars, fireVars, exitVars, boundVars
  <2> QED BY <2>1 DEF CallTypes
<1>9. Generated'
  <2>1. UNCHANGED <<gGenerator, nCalls>> /\ (op' = op \/ op' \notin {"init_remove", "init_generation"})
    BY DEF PostDispatch, listVars, runVars, userVars, fireVars, exitVars, boundVars
  <2> QED BY <2>1, GeneratedKept
<1>10. Places'
  <2>1. /\ thread' = "next" /\ UNCHANGED <<op, opTimer, opIndex, mShutdown, firing, exit, mTimers, timers, fired, held>>
    BY DEF PostDispatch, userVars, fireVars, exitVars, listVars
  <2>2. \A t : Listed(t)' = Listed(t)
    BY <2>1 DEF Listed
  <2>3. /\ op = "wake_changed" => ~mShutdown /\ (Listed(opTimer) \/ timer = opTimer \/ Contains(Posted, opTimer))
    BY DEF Places
  <2>4. op = "wake_changed" => ~mShutdown /\ (Listed(opTimer)' \/ Contains(Posted', opTimer))
    BY <1>12, <2>1, <2>2, <2>3
  <2> QED BY <1>1, <2>1, <2>2, <2>4 DEF Places, Handling, Initialising
<1>20. FilterTypes'
  BY DEF FilterTypes, PostDispatch, filterVars
<1> QED BY <1>2, <1>3, <1>4, <1>5, <1>6, <1>7, <1>8, <1>9, <1>10, <1>20, TypePartsThen

LEMMA PostFailedTiming ==
  ASSUME Timing, PostFailed
  PROVE  Timing'
<1> USE TypeParts, NoTimerOut DEF Timing
<1>1. /\ UNCHANGED <<mTimers, timers, events, fired, held, mArmed>> /\ timer' = NoTimer
      /\ mRefCnt' = [mRefCnt EXCEPT ![timer] = @ - 1] /\ timer \in Timer
  BY DEF PostFailed, fireVars, exitVars, Places, Handling, PlaceTypes
<1>11. Posted' = Posted /\ \A t : Listed(t)' = Listed(t)
  BY <1>1 DEF Posted, Listed
<1>12. ASSUME NEW t \in Timer PROVE mRefCnt'[t] = Refs(t)' /\ mRefCnt'[t] \in Nat
  <2>1. timer' # t
    BY <1>1
  <2>2. Refs(t)' = Occ(mTimers, t) + Occ(timers, t) + Occ(Posted, t) + 0 + One(fired = t) + One(t \in held)
    BY <1>1, <1>11, <2>1 DEF Refs, One
  <2>3. mRefCnt'[t] = mRefCnt[t] - One(timer = t)
    BY <1>1, RefParts DEF One, ListTypes
  <2> QED BY <2>2, <2>3, RefParts DEF One
<1>2. RefsExact'
  BY <1>12 DEF RefsExact
<1>3. ClockTypes'
  <2>1. UNCHANGED <<now, wakeAt, mDelay, mTimeout>>
    BY DEF PostFailed, listVars, runVars, userVars, fireVars, exitVars, boundVars
  <2> QED BY <2>1 DEF ClockTypes
<1>4. ListTypes'
  BY <1>1, <1>12 DEF ListTypes
<1>5. FlagTypes'
  BY DEF FlagTypes, Places, PostFailed, listVars, runVars, userVars, fireVars, exitVars, boundVars
<1>6. CountTypes'
  <2>1. UNCHANGED <<events, gGenerator, mGeneration, nCalls, nSleeps>> /\ generation' = 0
    BY DEF PostFailed, boundVars
  <2> QED BY <2>1, Bounds DEF CountTypes
<1>7. PlaceTypes'
  BY DEF PlaceTypes, Places, PostFailed, listVars, runVars, userVars, fireVars, exitVars, boundVars
<1>8. CallTypes'
  <2>1. UNCHANGED <<op, opTimer, opDelay, opIndex, opType, mType>>
    BY DEF PostFailed, listVars, runVars, userVars, fireVars, exitVars, boundVars
  <2> QED BY <2>1 DEF CallTypes
<1>9. Generated'
  <2>1. UNCHANGED <<gGenerator, nCalls>> /\ (op' = op \/ op' \notin {"init_remove", "init_generation"})
    BY DEF PostFailed, listVars, runVars, userVars, fireVars, exitVars, boundVars
  <2> QED BY <2>1, GeneratedKept
<1>10. Places'
  BY <1>1, <1>11 DEF Places, Handling, Initialising, CallTypes, PlaceTypes, FlagTypes, PostFailed,
     listVars, runVars, userVars, fireVars, exitVars, boundVars
<1>20. FilterTypes'
  BY DEF FilterTypes, PostFailed, filterVars
<1> QED BY <1>2, <1>3, <1>4, <1>5, <1>6, <1>7, <1>8, <1>9, <1>10, <1>20, TypePartsThen

LEMMA ReleaseTiming ==
  ASSUME Timing, NEW t \in Timer, Release(t)
  PROVE  Timing'
<1> USE TypeParts, NoTimerOut DEF Timing
<1>1. /\ UNCHANGED <<mTimers, timers, events, timer, mArmed>>
      /\ mRefCnt' = [mRefCnt EXCEPT ![t] = @ - 1] /\ t \in Timer
      /\ held' = held \ {t} /\ t \in held /\ UNCHANGED fired
  BY DEF Release, Drop, exitVars, fireVars, runVars, MayCall, Calling, UserFree
<1>11. Posted' = Posted /\ \A u : Listed(u)' = Listed(u)
  BY <1>1 DEF Posted, Listed
<1>12. ASSUME NEW u \in Timer PROVE mRefCnt'[u] = Refs(u)' /\ mRefCnt'[u] \in Nat
  <2>1. u \in held' <=> u \in held /\ u # t
    BY <1>1
  <2>2. Refs(u)' = Occ(mTimers, u) + Occ(timers, u) + Occ(Posted, u) + One(timer = u) + One(fired = u) + (IF u = t THEN 0 ELSE One(u \in held))
    BY <1>1, <1>11, <2>1 DEF Refs, One
  <2>3. mRefCnt'[u] = mRefCnt[u] - One(t = u)
    BY <1>1, RefParts DEF One, ListTypes
  <2> QED BY <1>1, <2>2, <2>3, RefParts DEF One
<1>2. RefsExact'
  BY <1>12 DEF RefsExact
<1>3. ClockTypes'
  <2>1. UNCHANGED <<now, wakeAt, mDelay, mTimeout>>
    BY DEF Release, listVars, runVars, userVars, fireVars, exitVars, boundVars, Drop, MayCall, Calling,
       UserFree
  <2> QED BY <2>1 DEF ClockTypes
<1>4. ListTypes'
  BY <1>1, <1>12 DEF ListTypes
<1>5. FlagTypes'
  <2>1. UNCHANGED <<mShutdown, mSleeping, callback, mCanceled, mFiring, mCallback>>
    BY DEF Release, listVars, runVars, userVars, fireVars, exitVars, boundVars, Drop, MayCall, Calling,
       UserFree
  <2> QED BY <2>1 DEF FlagTypes
<1>6. CountTypes'
  <2>1. UNCHANGED <<generation, gGenerator, mGeneration, events, nSleeps>> /\ nCalls < MaxCalls /\ nCalls' = nCalls + 1
    BY DEF Release, MayCall, runVars
  <2> QED BY <2>1, Bounds DEF CountTypes
<1>7. PlaceTypes'
  <2>1. UNCHANGED <<thread, timer, fired, firing, exit>>
    BY DEF Release, listVars, runVars, userVars, fireVars, exitVars, boundVars, Drop, MayCall, Calling,
       UserFree
  <2> QED BY <2>1 DEF PlaceTypes
<1>8. CallTypes'
  <2>1. mType' = mType /\ UNCHANGED <<opIndex, opDelay, opType>> /\ (UNCHANGED <<op, opTimer>> \/ (op' = "release" /\ opTimer' = t))
    BY DEF Release, Drop, Calling, userVars
  <2> QED BY <2>1 DEF CallTypes
<1>9. Generated'
  <2>1. gGenerator' = gGenerator /\ nCalls' = nCalls + 1 /\ op = "none"
    BY DEF Release, MayCall, UserFree
  <2> QED BY <2>1, GeneratedCall
<1>10. Places'
  <2>1. UNCHANGED <<op, opTimer>> \/ (op' = "release" /\ opTimer' = t)
    BY DEF Release, Drop, Calling, userVars
  <2>2. op = "none" /\ timers = <<>> /\ firing \in {"no", "callback"} /\ UNCHANGED <<opIndex, firing, thread, mShutdown, exit>>
    BY DEF Release, MayCall, UserFree, Drop, Calling, userVars, fireVars, runVars, exitVars
  <2> QED BY <1>1, <2>1, <2>2 DEF Places, Initialising
<1>20. FilterTypes'
  BY DEF FilterTypes, Release, filterVars
<1> QED BY <1>2, <1>3, <1>4, <1>5, <1>6, <1>7, <1>8, <1>9, <1>10, <1>20, TypePartsThen

LEMMA EventDoneTiming ==
  ASSUME Timing, EventDone
  PROVE  Timing'
<1> USE TypeParts, NoTimerOut DEF Timing
<1>1. /\ UNCHANGED <<mTimers, timers, events, timer, mArmed>>
      /\ mRefCnt' = [mRefCnt EXCEPT ![fired] = @ - 1] /\ fired \in Timer
      /\ fired' = NoTimer /\ held' = held
  BY DEF EventDone, Drop, exitVars, fireVars, runVars, Places, PlaceTypes
<1>11. Posted' = Posted /\ \A u : Listed(u)' = Listed(u)
  BY <1>1 DEF Posted, Listed
<1>12. ASSUME NEW u \in Timer PROVE mRefCnt'[u] = Refs(u)' /\ mRefCnt'[u] \in Nat
  <2>1. fired' # u
    BY <1>1
  <2>2. Refs(u)' = Occ(mTimers, u) + Occ(timers, u) + Occ(Posted, u) + One(timer = u) + 0 + One(u \in held)
    BY <1>1, <1>11, <2>1 DEF Refs, One
  <2>3. mRefCnt'[u] = mRefCnt[u] - One(fired = u)
    BY <1>1, RefParts DEF One, ListTypes
  <2> QED BY <1>1, <2>2, <2>3, RefParts DEF One
<1>2. RefsExact'
  BY <1>12 DEF RefsExact
<1>3. ClockTypes'
  <2>1. UNCHANGED <<now, wakeAt, mDelay, mTimeout>>
    BY DEF EventDone, listVars, runVars, userVars, fireVars, exitVars, boundVars, Drop, Calling
  <2> QED BY <2>1 DEF ClockTypes
<1>4. ListTypes'
  BY <1>1, <1>12 DEF ListTypes
<1>5. FlagTypes'
  <2>1. UNCHANGED <<mShutdown, mSleeping, callback, mCanceled, mFiring, mCallback>>
    BY DEF EventDone, listVars, runVars, userVars, fireVars, exitVars, boundVars, Drop, Calling
  <2> QED BY <2>1 DEF FlagTypes
<1>6. CountTypes'
  <2>1. UNCHANGED <<generation, gGenerator, mGeneration, events, nCalls, nSleeps>>
    BY DEF EventDone, listVars, runVars, userVars, fireVars, exitVars, boundVars, Drop, Calling
  <2> QED BY <2>1 DEF CountTypes
<1>7. PlaceTypes'
  <2>1. firing' = "no" /\ fired' = NoTimer /\ UNCHANGED <<thread, timer, exit>>
    BY DEF EventDone, runVars, exitVars
  <2> QED BY <2>1 DEF PlaceTypes
<1>8. CallTypes'
  <2>1. mType' = mType /\ UNCHANGED <<opIndex, opDelay, opType>> /\ (UNCHANGED <<op, opTimer>> \/ (op' = "release" /\ opTimer' = fired))
    BY DEF EventDone, Drop, Calling, userVars
  <2> QED BY <1>1, <2>1 DEF CallTypes
<1>9. Generated'
  <2>1. UNCHANGED <<gGenerator, nCalls>> /\ (op' = op \/ op' \notin {"init_remove", "init_generation"})
    BY DEF EventDone, listVars, runVars, userVars, fireVars, exitVars, boundVars, Drop, Calling
  <2> QED BY <2>1, GeneratedKept
<1>10. Places'
  <2>1. UNCHANGED <<op, opTimer>> \/ (op' = "release" /\ opTimer' = fired)
    BY DEF EventDone, Drop, Calling, userVars
  <2>2. op = "none" /\ timers = <<>> /\ firing = "end" /\ firing' = "no" /\ UNCHANGED <<opIndex, thread, mShutdown, exit>>
    BY DEF EventDone, Drop, Calling, userVars, runVars, exitVars, Places
  <2> QED BY <1>1, <2>1, <2>2 DEF Places, Initialising
<1>20. FilterTypes'
  BY DEF FilterTypes, EventDone, filterVars
<1> QED BY <1>2, <1>3, <1>4, <1>5, <1>6, <1>7, <1>8, <1>9, <1>10, <1>20, TypePartsThen

LEMMA FireTiming ==
  ASSUME Timing, Fire
  PROVE  Timing'
<1> USE TypeParts, NoTimerOut DEF Timing
<1>1. /\ UNCHANGED <<mTimers, timers, mRefCnt, timer, held, thread, op, opTimer, opIndex, mShutdown, exit>>
      /\ events # <<>> /\ events' = Tail(events) /\ fired' = Head(events).t
      /\ op = "none" /\ timers = <<>> /\ firing = "no"
  BY DEF Fire, UserFree, listVars, runVars, exitVars, userVars
<1>11. fired = NoTimer
  BY <1>1 DEF Places
<1>12. /\ Head(events).t \in Timer
       /\ \A u : Occ(Posted, u) = Occ(Posted', u) + One(Head(events).t = u)
  <2>1. Timing
    BY DEF Timing
  <2> HIDE DEF Timing
  <2>2. \A u : /\ Occ(Posted, u) = Occ(Posted', u) + One(Head(events).t = u)
               /\ Contains(Posted, u) => u = Head(events).t \/ Contains(Posted', u)
    BY <1>1, <2>1, UnpostedThen, Zenon
  <2>3. Head(events).t \in Timer
    BY <1>1, <2>1, UnpostedThen, Zenon
  <2> QED BY <2>2, <2>3, Zenon
<1>13. events' \in Seq([t: Timer, gen: 0 .. MaxCalls])
  BY <1>1, HeadTailProperties DEF CountTypes
<1>2. RefsExact'
  <2> SUFFICES ASSUME NEW u \in Timer PROVE mRefCnt'[u] = Refs(u)'
    BY DEF RefsExact
  <2>1. fired # u
    BY <1>11
  <2>2. Refs(u)' = Occ(mTimers, u) + Occ(timers, u) + Occ(Posted', u) + One(timer = u) + One(Head(events).t = u) + One(u \in held)
    BY <1>1 DEF Refs
  <2>3. Occ(Posted', u) \in Nat
    <3>1. Posted' \in Seq(Timer)
      <4>1. Len(events') \in Nat /\ \A i \in 1 .. Len(events') : events'[i] \in [t: Timer, gen: 0 .. MaxCalls]
        BY <1>13, LenProperties
      <4>2. \A i \in 1 .. Len(events') : events'[i].t \in Timer
        BY <4>1
      <4> QED BY <4>1, <4>2 DEF Posted
    <3> QED BY <3>1, OccType
  <2>4. Occ(Posted, u) = Occ(Posted', u) + One(Head(events).t = u)
    BY <1>12
  <2> QED BY <1>1, <2>1, <2>2, <2>3, <2>4, RefParts DEF One
<1>3. ClockTypes'
  <2>1. UNCHANGED <<now, wakeAt, mDelay, mTimeout>>
    BY DEF Fire, listVars, runVars, userVars, fireVars, exitVars, boundVars, UserFree
  <2> QED BY <2>1 DEF ClockTypes
<1>4. ListTypes'
  <2>1. UNCHANGED <<mTimers, timers, held, mArmed, mRefCnt>>
    BY DEF Fire, listVars, runVars, userVars, fireVars, exitVars, boundVars, UserFree
  <2> QED BY <2>1 DEF ListTypes
<1>5. FlagTypes'
  <2>1. UNCHANGED <<mShutdown, mSleeping, mCanceled>>
    BY DEF Fire
  <2>2. CASE Stale(Head(events)) \/ mCanceled[Head(events).t]
    BY <2>1, <2>2 DEF Fire, FlagTypes
  <2>3. CASE ~(Stale(Head(events)) \/ mCanceled[Head(events).t])
    <3>1. /\ callback' = mCallback[Head(events).t]
          /\ mCallback' = [mCallback EXCEPT ![Head(events).t] = FALSE]
          /\ mFiring' = [mFiring EXCEPT ![Head(events).t] = TRUE]
      BY <2>3 DEF Fire
    <3> QED BY <1>12, <2>1, <3>1 DEF FlagTypes
  <2> QED BY <2>2, <2>3
<1>6. CountTypes'
  <2>1. UNCHANGED <<generation, gGenerator, mGeneration, nCalls, nSleeps>>
    BY DEF Fire, runVars, boundVars
  <2> QED BY <1>13, <2>1 DEF CountTypes
<1>7. PlaceTypes'
  <2>1. firing' \in {"end", "callback", "nothing"}
    BY DEF Fire
  <2> QED BY <1>1, <1>12, <2>1 DEF PlaceTypes
<1>8. CallTypes'
  <2>1. UNCHANGED <<op, opTimer, opDelay, opIndex, opType, mType>>
    BY DEF Fire, listVars, runVars, userVars, fireVars, exitVars, boundVars, UserFree
  <2> QED BY <2>1 DEF CallTypes
<1>9. Generated'
  <2>1. UNCHANGED <<gGenerator, nCalls>> /\ (op' = op \/ op' \notin {"init_remove", "init_generation"})
    BY DEF Fire, listVars, runVars, userVars, fireVars, exitVars, boundVars, UserFree
  <2> QED BY <2>1, GeneratedKept
<1>10. Places'
  <2>1. firing' \in {"end", "callback", "nothing"}
    BY DEF Fire
  <2> QED BY <1>1, <1>12, <2>1 DEF Places, Initialising
<1>20. FilterTypes'
  <2>1. UNCHANGED filterVars \/ UpdateFilter
    BY DEF Fire
  <2> QED BY <2>1, Limits DEF FilterTypes, UpdateFilter, filterVars
<1> QED BY <1>2, <1>3, <1>4, <1>5, <1>6, <1>7, <1>8, <1>9, <1>10, <1>20, TypePartsThen

LEMMA ShutdownTiming ==
  ASSUME Timing, Shutdown
  PROVE  Timing'
<1> USE TypeParts, NoTimerOut DEF Timing
<1>1. /\ UNCHANGED <<mRefCnt, mArmed, events, timer, fired, held, op, opTimer, opIndex, firing>>
      /\ timers = <<>> /\ timers' = mTimers /\ mTimers' = <<>> /\ op = "none" /\ firing = "no"
      /\ mShutdown' = TRUE /\ exit' = "joining"
      /\ thread' = thread \/ (thread = "waiting" /\ thread' = "notified")
  BY DEF Shutdown, UserFree, Wakes, userVars, fireVars
<1>2. RefsExact'
  <2> SUFFICES ASSUME NEW t \in Timer PROVE mRefCnt'[t] = Refs(t)'
    BY DEF RefsExact
  <2>1. Posted' = Posted
    BY <1>1 DEF Posted
  <2>2. Refs(t)' = 0 + Occ(mTimers, t) + Occ(Posted, t) + One(timer = t) + One(fired = t) + One(t \in held)
    BY <1>1, <2>1, OccEmpty DEF Refs
  <2>3. Occ(timers, t) = 0
    BY <1>1, OccEmpty
  <2> QED BY <1>1, <2>2, <2>3, RefParts DEF One
<1>3. ClockTypes'
  <2>1. UNCHANGED <<now, wakeAt, mDelay, mTimeout>>
    BY DEF Shutdown, listVars, runVars, userVars, fireVars, exitVars, boundVars, UserFree, Wakes
  <2> QED BY <2>1 DEF ClockTypes
<1>4. ListTypes'
  <2>1. mTimers' \in Seq(Timer)
    BY <1>1
  <2> QED BY <1>1, <2>1 DEF ListTypes
<1>5. FlagTypes'
  BY <1>1 DEF FlagTypes, Shutdown, fireVars
<1>6. CountTypes'
  <2>1. UNCHANGED <<generation, gGenerator, mGeneration, events, nCalls, nSleeps>>
    BY DEF Shutdown, listVars, runVars, userVars, fireVars, exitVars, boundVars, UserFree, Wakes
  <2> QED BY <2>1 DEF CountTypes
<1>7. PlaceTypes'
  BY <1>1 DEF PlaceTypes
<1>8. CallTypes'
  <2>1. UNCHANGED <<op, opTimer, opDelay, opIndex, opType, mType>>
    BY DEF Shutdown, listVars, runVars, userVars, fireVars, exitVars, boundVars, UserFree, Wakes
  <2> QED BY <2>1 DEF CallTypes
<1>9. Generated'
  <2>1. UNCHANGED <<gGenerator, nCalls>> /\ (op' = op \/ op' \notin {"init_remove", "init_generation"})
    BY DEF Shutdown, listVars, runVars, userVars, fireVars, exitVars, boundVars, UserFree, Wakes
  <2> QED BY <2>1, GeneratedKept
<1>10. Places'
  BY <1>1 DEF Places, Handling, Initialising
<1>20. FilterTypes'
  BY DEF FilterTypes, Shutdown, filterVars
<1> QED BY <1>2, <1>3, <1>4, <1>5, <1>6, <1>7, <1>8, <1>9, <1>10, <1>20, TypePartsThen

LEMMA ShutdownReleaseTiming ==
  ASSUME Timing, ShutdownRelease
  PROVE  Timing'
<1> USE TypeParts, NoTimerOut DEF Timing
<1>1. /\ UNCHANGED <<mTimers, events, timer, fired, held, thread, op, opTimer, opIndex, firing, exit, mShutdown>>
      /\ timers # <<>> /\ timers' = Tail(timers)
      /\ mArmed' = [mArmed EXCEPT ![Head(timers)] = FALSE]
      /\ mRefCnt' = [mRefCnt EXCEPT ![Head(timers)] = @ - 1]
  BY DEF ShutdownRelease, runVars, userVars, fireVars
<1>11. /\ Tail(timers) \in Seq(Timer) /\ Head(timers) \in Timer
       /\ Widened(timers, Tail(timers), 1, Head(timers))
  BY <1>1, TailWidens DEF ListTypes
<1>12. Posted' = Posted
  BY <1>1 DEF Posted
<1>13. ASSUME NEW t \in Timer PROVE mRefCnt'[t] = Refs(t)' /\ mRefCnt'[t] \in Nat
  <2>1. Occ(timers, t) = Occ(timers', t) + One(Head(timers) = t)
    <3>1. timers \in Seq(Timer) /\ timers' \in Seq(Timer) /\ Widened(timers, timers', 1, Head(timers))
      BY <1>1, <1>11 DEF ListTypes
    <3> QED BY <3>1, WidenedOcc
  <2>2. Occ(timers', t) \in Nat
    BY <1>1, <1>11, OccType
  <2>3. Refs(t)' = Occ(mTimers, t) + Occ(timers', t) + Occ(Posted, t) + One(timer = t) + One(fired = t) + One(t \in held)
    BY <1>1, <1>12 DEF Refs
  <2>4. mRefCnt'[t] = mRefCnt[t] - One(Head(timers) = t)
    <3>1. mRefCnt \in [Timer -> Nat]
      BY DEF ListTypes
    <3>2. mRefCnt[t] \in Nat
      BY <3>1
    <3> QED BY <1>1, <1>11, <3>1, <3>2 DEF One
  <2> QED BY <2>1, <2>2, <2>3, <2>4, RefParts DEF One
<1>2. RefsExact'
  BY <1>13 DEF RefsExact
<1>3. ClockTypes'
  <2>1. UNCHANGED <<now, wakeAt, mDelay, mTimeout>>
    BY DEF ShutdownRelease, listVars, runVars, userVars, fireVars, exitVars, boundVars
  <2> QED BY <2>1 DEF ClockTypes
<1>4. ListTypes'
  BY <1>1, <1>11, <1>13 DEF ListTypes
<1>5. FlagTypes'
  BY <1>11 DEF FlagTypes, ShutdownRelease, fireVars
<1>6. CountTypes'
  <2>1. UNCHANGED <<generation, gGenerator, mGeneration, events, nCalls, nSleeps>>
    BY DEF ShutdownRelease, listVars, runVars, userVars, fireVars, exitVars, boundVars
  <2> QED BY <2>1 DEF CountTypes
<1>7. PlaceTypes'
  <2>1. UNCHANGED <<thread, timer, fired, firing, exit>>
    BY DEF ShutdownRelease, listVars, runVars, userVars, fireVars, exitVars, boundVars
  <2> QED BY <2>1 DEF PlaceTypes
<1>8. CallTypes'
  <2>1. UNCHANGED <<op, opTimer, opDelay, opIndex, opType, mType>>
    BY DEF ShutdownRelease, listVars, runVars, userVars, fireVars, exitVars, boundVars
  <2> QED BY <2>1 DEF CallTypes
<1>9. Generated'
  <2>1. UNCHANGED <<gGenerator, nCalls>> /\ (op' = op \/ op' \notin {"init_remove", "init_generation"})
    BY DEF ShutdownRelease, listVars, runVars, userVars, fireVars, exitVars, boundVars
  <2> QED BY <2>1, GeneratedKept
<1>10. Places'
  <2>1. op = "none"
    BY <1>1 DEF Places
  <2> QED BY <1>1, <2>1 DEF Places, Initialising
<1>20. FilterTypes'
  BY DEF FilterTypes, ShutdownRelease, filterVars
<1> QED BY <1>2, <1>3, <1>4, <1>5, <1>6, <1>7, <1>8, <1>9, <1>10, <1>20, TypePartsThen

LEMMA PostAddTiming ==
  ASSUME Timing, PostAdd
  PROVE  Timing'
<1> USE TypeParts, NoTimerOut DEF Timing
<1>1. /\ UNCHANGED <<timers, events, timer, fired, held, op, opTimer, opIndex, firing, exit, mShutdown>>
      /\ thread = "add" /\ timer \in Timer
      /\ \/ mShutdown /\ thread' = "drop" /\ UNCHANGED <<mTimers, mArmed, mRefCnt>>
         \/ ~mShutdown /\ thread' = "dispatch"
  BY DEF PostAdd, listVars, userVars, fireVars, exitVars, Places, PlaceTypes, Handling
<1>12. ListChange(timer) /\ \A t : Contains(mTimers, t) => Contains(mTimers', t)
  <2>1. mTimers \in Seq(Timer) /\ mArmed \in [Timer -> BOOLEAN] /\ mRefCnt \in [Timer -> Nat]
    BY DEF ListTypes
  <2>2. CASE mShutdown
    <3>1. mTimers' = mTimers /\ mArmed' = mArmed /\ mRefCnt' = mRefCnt
      BY <2>2 DEF PostAdd, listVars
    <3>2. mRefCnt = [mRefCnt EXCEPT ![timer] = @ + 0]
      BY <1>1, <2>1
    <3>3. \A t \in Timer : Occ(mTimers, t) = Occ(mTimers, t) + IF t = timer THEN 0 ELSE 0
      BY RefParts
    <3> QED BY <2>1, <3>1, <3>2, <3>3 DEF ListChange
  <2>3. CASE ~mShutdown
    <3>1. /\ mTimers' = Added(mTimers, timer)
          /\ mArmed' = [mArmed EXCEPT ![timer] = TRUE]
          /\ mRefCnt' = [mRefCnt EXCEPT ![timer] = @ + 1]
      BY <2>3 DEF PostAdd
    <3>2. mTimers' \in Seq(Timer) /\ \A t : Occ(mTimers', t) = Occ(mTimers, t) + One(timer = t)
      BY <1>1, <2>1, <3>1, AddedIs
    <3>3. \A t \in Timer : Occ(mTimers', t) = Occ(mTimers, t) + IF t = timer THEN 1 ELSE 0
      BY <3>2 DEF One
    <3>4. ASSUME NEW t, Contains(mTimers, t) PROVE Contains(mTimers', t)
      <4>1. Occ(mTimers, t) \in Nat /\ Occ(mTimers, t) # 0 /\ Occ(mTimers', t) = Occ(mTimers, t) + One(timer = t)
        BY <2>1, <3>2, <3>4, OccType
      <4>2. Occ(mTimers', t) # 0
        BY <4>1 DEF One
      <4> QED BY <3>2, <4>2, OccType
    <3>5. mArmed' \in [Timer -> BOOLEAN]
      BY <2>1, <3>1
    <3>6. 1 \in -1 .. 1
      OBVIOUS
    <3> QED BY <3>1, <3>2, <3>3, <3>4, <3>5, <3>6 DEF ListChange
  <2> QED BY <2>2, <2>3
<1>2. RefsExact' /\ Posted' = Posted /\ ListTypes'
  BY <1>1, <1>12, ListStepRefs
<1>3. ClockTypes'
  <2>1. UNCHANGED <<now, wakeAt, mDelay, mTimeout>>
    BY DEF PostAdd, listVars, runVars, userVars, fireVars, exitVars, boundVars
  <2> QED BY <2>1 DEF ClockTypes
<1>4. ListTypes'
  BY <1>2
<1>5. FlagTypes'
  <2>1. UNCHANGED <<mShutdown, mSleeping, callback, mCanceled, mFiring, mCallback>>
    BY DEF PostAdd, listVars, runVars, userVars, fireVars, exitVars, boundVars
  <2> QED BY <2>1 DEF FlagTypes
<1>6. CountTypes'
  <2>1. UNCHANGED <<generation, gGenerator, mGeneration, events, nCalls, nSleeps>>
    BY DEF PostAdd, listVars, runVars, userVars, fireVars, exitVars, boundVars
  <2> QED BY <2>1 DEF CountTypes
<1>7. PlaceTypes'
  BY <1>1 DEF PlaceTypes
<1>8. CallTypes'
  <2>1. UNCHANGED <<op, opTimer, opDelay, opIndex, opType, mType>>
    BY DEF PostAdd, listVars, runVars, userVars, fireVars, exitVars, boundVars
  <2> QED BY <2>1 DEF CallTypes
<1>9. Generated'
  <2>1. UNCHANGED <<gGenerator, nCalls>> /\ (op' = op \/ op' \notin {"init_remove", "init_generation"})
    BY DEF PostAdd, listVars, runVars, userVars, fireVars, exitVars, boundVars
  <2> QED BY <2>1, GeneratedKept
<1>10. Places'
  <2>1. \A t : Listed(t) => Listed(t)'
    BY <1>12 DEF Listed
  <2>2. op = "wake_changed" => ~mShutdown /\ (Listed(opTimer)' \/ timer = opTimer \/ Contains(Posted, opTimer))
    BY <1>1, <2>1 DEF Places
  <2> QED BY <1>1, <1>2, <2>2 DEF Places, Handling, Initialising
<1>20. FilterTypes'
  BY DEF FilterTypes, PostAdd, filterVars
<1> QED BY <1>2, <1>3, <1>4, <1>5, <1>6, <1>7, <1>8, <1>9, <1>10, <1>20, TypePartsThen

(* TimerThread::Run either hands a timer on from the list or leaves every  *)
(* reference where it is.                                                  *)
Takes == /\ thread \in {"run", "next"} /\ thread' = "post" /\ ~mShutdown /\ wakeAt' = wakeAt
         /\ TakeTimer
Rests == /\ thread \in {"run", "next"} /\ UNCHANGED <<listVars, timer>>
         /\ \/ thread' = "waiting" /\ mSleeping /\ wakeAt' = now + 1
            \/ thread' = "waiting" /\ mTimers = <<>> /\ wakeAt' = Never
            \/ /\ thread' = "waiting" /\ mTimers # <<>> /\ ~Due(Head(mTimers))
               /\ wakeAt' = Adjusted(Head(mTimers))
            \/ thread' = "exit" /\ mShutdown /\ wakeAt' = wakeAt

(* Run takes the first timer, or goes to rest. *)
LEMMA RunIs ==
  ASSUME Run
  PROVE  /\ Takes \/ Rests
         /\ UNCHANGED <<now, mShutdown, mSleeping, generation, mCanceled, mGeneration, mType, mDelay,
                       mTimeout, mCallback, gGenerator, events, held, userVars, fireVars, exitVars, boundVars>>
<1>1. UNCHANGED <<now, mShutdown, mSleeping, generation, mCanceled, mGeneration, mType, mDelay,
                       mTimeout, mCallback, gGenerator, events, held, userVars, fireVars, exitVars, boundVars>>
  BY DEF Run
<1>2. Takes \/ Rests
  <2>1. CASE thread = "run" /\ ~mShutdown /\ mSleeping /\ Sleep(now + 1)
    BY <2>1 DEF Sleep, Rests
  <2>2. CASE thread \in {"run", "next"} /\ ~mShutdown /\ TakeTimer
    BY <2>2 DEF TakeTimer, Takes
  <2>3. CASE thread \in {"run", "next"} /\ ~mShutdown /\ mTimers = <<>> /\ Sleep(Never)
    BY <2>3 DEF Sleep, Rests
  <2>4. CASE thread \in {"run", "next"} /\ ~mShutdown /\ mTimers # <<>> /\ ~Due(Head(mTimers))
             /\ Sleep(Adjusted(Head(mTimers)))
    BY <2>4 DEF Sleep, Rests
  <2>5. CASE thread \in {"run", "next"} /\ mShutdown /\ thread' = "exit" /\ UNCHANGED <<listVars, timer, wakeAt>>
    BY <2>5 DEF Rests
  <2> QED BY <2>1, <2>2, <2>3, <2>4, <2>5 DEF Run
<1> QED BY <1>1, <1>2

LEMMA RunTiming ==
  ASSUME Timing, Run
  PROVE  Timing'
<1> USE TypeParts, NoTimerOut DEF Timing
<1>1. UNCHANGED <<events, held, op, opTimer, opIndex, firing, fired, exit, timers, mShutdown>>
  BY RunIs DEF userVars, fireVars, exitVars
<1>11. timer = NoTimer /\ Posted' = Posted
  <2>1. thread \in {"run", "next"}
    BY RunIs DEF Takes, Rests
  <2> QED BY <1>1, <2>1 DEF Places, Handling, Posted
<1>2. RefsExact'
  <2>1. CASE Rests
    BY <1>1, <2>1, SameRefs DEF Rests, listVars
  <2>2. CASE Takes
    <3> SUFFICES ASSUME NEW t \in Timer PROVE mRefCnt'[t] = Refs(t)'
      BY DEF RefsExact
    <3>1. mTimers # <<>> /\ timer' = Head(mTimers) /\ mTimers' = Tail(mTimers) /\ mRefCnt' = mRefCnt
      BY <2>2 DEF Takes, TakeTimer
    <3>2. /\ mTimers \in Seq(Timer) /\ mTimers' \in Seq(Timer)
          /\ Widened(mTimers, mTimers', 1, Head(mTimers))
      BY <3>1, TailWidens DEF ListTypes
    <3>3. Occ(mTimers, t) = Occ(mTimers', t) + One(Head(mTimers) = t) /\ Occ(mTimers', t) \in Nat
      <4>1. Occ(mTimers, t) = Occ(mTimers', t) + One(Head(mTimers) = t)
        BY <3>2, WidenedOcc
      <4>2. Occ(mTimers', t) \in Nat
        BY <3>2, OccType
      <4> QED BY <4>1, <4>2
    <3>4. Refs(t)' = Occ(mTimers', t) + Occ(timers, t) + Occ(Posted, t) + One(Head(mTimers) = t) + One(fired = t) + One(t \in held)
      BY <1>1, <1>11, <3>1 DEF Refs
    <3>5. timer # t
      BY <1>11
    <3> QED BY <3>1, <3>3, <3>4, <3>5, RefParts DEF One
  <2> QED BY <2>1, <2>2, RunIs
<1>3. ClockTypes'
  <2>1. now \in Nat /\ mTimeout \in [Timer -> Nat] /\ UNCHANGED <<now, mDelay, mTimeout>>
    BY RunIs, Limits DEF ClockTypes
  <2>2. wakeAt' \in Int
    <3>1. mTimers # <<>> => mTimeout[Head(mTimers)] \in Nat
      BY <2>1, TailWidens DEF ListTypes
    <3>2. mTimers # <<>> => Adjusted(Head(mTimers)) \in Int
      BY <3>1, Limits DEF Adjusted, FilterTypes
    <3> QED BY <3>2, RunIs, <2>1, <3>1, Limits DEF Takes, Rests, ClockTypes
  <2> QED BY <2>1, <2>2 DEF ClockTypes
<1>4. ListTypes'
  <2>1. CASE Takes
    BY <1>11, <2>1, RunIs, TailWidens DEF ListTypes, Takes, TakeTimer, exitVars
  <2>2. CASE Rests
    BY <2>2, RunIs DEF ListTypes, Rests, listVars, exitVars
  <2> QED BY <2>1, <2>2, RunIs
<1>5. FlagTypes'
  <2>1. UNCHANGED <<mShutdown, mSleeping, callback, mCanceled, mFiring, mCallback>>
    BY RunIs DEF listVars, runVars, userVars, fireVars, exitVars, boundVars
  <2> QED BY <2>1 DEF FlagTypes
<1>6. CountTypes'
  <2>1. UNCHANGED <<generation, gGenerator, mGeneration, events, nCalls, nSleeps>>
    BY RunIs DEF listVars, runVars, userVars, fireVars, exitVars, boundVars
  <2> QED BY <2>1 DEF CountTypes
<1>7. PlaceTypes'
  <2>1. UNCHANGED <<fired, firing, exit>>
    BY RunIs DEF fireVars, exitVars
  <2> QED BY <1>11, <2>1, RunIs, TailWidens DEF PlaceTypes, Takes, Rests, TakeTimer, ListTypes
<1>8. CallTypes'
  <2>1. UNCHANGED <<op, opTimer, opDelay, opIndex, opType, mType>>
    BY RunIs DEF listVars, runVars, userVars, fireVars, exitVars, boundVars
  <2> QED BY <2>1 DEF CallTypes
<1>9. Generated'
  <2>1. UNCHANGED <<gGenerator, nCalls, op>>
    BY RunIs DEF runVars, userVars, fireVars, exitVars, boundVars
  <2> QED BY <2>1, GeneratedKept
<1>10. Places'
  <2>1. CASE Rests
    <3>1. UNCHANGED <<mTimers, timer>>
      BY <2>1 DEF Rests, listVars
    <3>2. \A t : Listed(t)' = Listed(t)
      BY <3>1 DEF Listed
    <3> QED BY <1>1, <1>11, <2>1, <3>1, <3>2 DEF Places, Handling, Initialising, Rests
  <2>2. CASE Takes
    <3>1. mTimers # <<>> /\ timer' = Head(mTimers) /\ mTimers' = Tail(mTimers) /\ timer' \in Timer
      BY <2>2, TailWidens DEF Takes, TakeTimer, ListTypes
    <3>2. ASSUME NEW t \in Timer, Listed(t) PROVE timer' = t \/ Listed(t)'
      <4>1. /\ mTimers \in Seq(Timer) /\ mTimers' \in Seq(Timer)
            /\ Widened(mTimers, mTimers', 1, Head(mTimers))
        BY <3>1, TailWidens DEF ListTypes
      <4>2. Occ(mTimers, t) = Occ(mTimers', t) + One(Head(mTimers) = t)
        BY <4>1, WidenedOcc
      <4>3. Occ(mTimers, t) # 0
        BY <3>2, <4>1, OccType DEF Listed
      <4>4. Occ(mTimers', t) = 0 => timer' = t
        BY <3>1, <4>2, <4>3 DEF One
      <4> QED BY <4>1, <4>4, OccType DEF Listed
    <3>3. op = "wake_changed" => ~mShutdown /\ (Listed(opTimer)' \/ timer' = opTimer \/ Contains(Posted, opTimer))
      <4>1. op = "wake_changed" => opTimer \in Timer
        BY DEF Places, CallTypes
      <4> QED BY <1>1, <1>11, <3>2, <4>1 DEF Places
    <3> QED BY <1>1, <1>11, <2>2, <3>1, <3>3 DEF Places, Handling, Initialising, Takes
  <2> QED BY <2>1, <2>2, RunIs
<1>20. FilterTypes'
  BY DEF FilterTypes, Run, filterVars
<1> QED BY <1>2, <1>3, <1>4, <1>5, <1>6, <1>7, <1>8, <1>9, <1>10, <1>20, TypePartsThen

LEMMA InitTiming == Init => Timing
<1> SUFFICES ASSUME Init PROVE Timing
  OBVIOUS
<1>1. TypeOK
  <2>1. ClockTypes
    BY Limits DEF Init, ClockTypes
  <2>2. ListTypes
    BY DEF Init, ListTypes
  <2>3. FlagTypes
    BY DEF Init, FlagTypes
  <2>4. CountTypes
    BY Bounds DEF Init, CountTypes
  <2>5. PlaceTypes
    BY DEF Init, PlaceTypes
  <2>6. CallTypes
    BY DEF Init, CallTypes
  <2>7. FilterTypes
    BY Limits DEF Init, FilterTypes
  <2> QED BY <2>1, <2>2, <2>3, <2>4, <2>5, <2>6, <2>7, TypeParts
<1>2. Places
  BY DEF Init, Places, Handling, Initialising
<1>3. Generated
  BY DEF Init, Generated
<1>4. ASSUME NEW t \in Timer PROVE mRefCnt[t] = Refs(t)
  <2>1. Posted = <<>>
    BY DEF Init, Posted
  <2>2. timer # t /\ fired # t /\ t \in held /\ mTimers = <<>> /\ timers = <<>> /\ mRefCnt[t] = 1
    BY NoTimerOut DEF Init
  <2>3. Occ(<<>>, t) = 0
    BY OccEmpty
  <2> QED BY <2>1, <2>2, <2>3 DEF Refs, One
<1> QED BY <1>1, <1>2, <1>3, <1>4 DEF Timing, RefsExact

LEMMA NextTiming == Timing /\ [Next]_vars => Timing'
<1> SUFFICES ASSUME Timing, [Next]_vars PROVE Timing'
  OBVIOUS
<1>1. CASE Tick
  BY <1>1, TickTiming
<1>2. CASE ThreadStep
  BY <1>2, RunTiming, WakeUpTiming, PostTimerEventTiming, PostPreciseTiming, PostAddTiming,
     PostDispatchTiming, PostFailedTiming DEF ThreadStep
<1>3. CASE CallStep
  BY <1>3, InitRemoveTiming, InitGenerationTiming, InitDelayTiming, InitAddTiming, CancelRemoveTiming,
     SetDelayChangedTiming, ReleaseTestTiming, ReleaseRemoveTiming, AfterSleepNextTiming,
     AfterSleepChangedTiming, ShutdownReleaseTiming, ShutdownJoinedTiming DEF CallStep
<1>4. CASE FireStep
  BY <1>4, FireTiming, FireReturnsTiming, FireAddTiming, EventDoneTiming DEF FireStep
<1>5. CASE UserCall
  BY <1>5, InitTimerTiming, SetDelayTiming, CancelTiming, ReleaseTiming, DoBeforeSleepTiming,
     DoAfterSleepTiming, ShutdownTiming DEF UserCall
<1>6. CASE UNCHANGED vars
  <2>1. UNCHANGED <<mTimers, mRefCnt, timers, events, timer, fired, held>>
    BY <1>6 DEF vars, listVars, runVars, fireVars, exitVars
  <2>2. RefsExact' /\ Posted' = Posted /\ \A t : Listed(t)' = Listed(t)
    BY <2>1, SameRefs
  <2> USE <1>6, TypeParts DEF Timing, vars, filterVars, listVars, runVars, userVars, fireVars, exitVars, boundVars
  <2>3. FilterTypes' /\ ClockTypes' /\ ListTypes' /\ FlagTypes'
    BY DEF FilterTypes, ClockTypes, ListTypes, FlagTypes
  <2>4. CountTypes' /\ PlaceTypes' /\ CallTypes'
    BY DEF CountTypes, PlaceTypes, CallTypes
  <2>5. Places' /\ Generated'
    BY <2>2 DEF Places, Generated
  <2> QED BY <2>2, <2>3, <2>4, <2>5, TypePartsThen
<1> QED BY <1>1, <1>2, <1>3, <1>4, <1>5, <1>6 DEF Next

(* The types, the places and the exact reference counts of the timers, in  *)
(* every state.                                                            *)
THEOREM AlwaysTiming == Spec => []Timing
BY InitTiming, NextTiming, PTL DEF Spec

(* Only a precise timer is added again by the timer thread, which then may *)
(* fail to; and but for that, the timer is alive when Release looks at it. *)
Alive ==
  /\ "precise" \notin Types => NonePrecise
  /\ op = "release" => mRefCnt[opTimer] # 0 \/ DestroyedByTimerThread

LEMMA NextNonePrecise ==
  ASSUME "precise" \notin Types, Timing, NonePrecise, [Next]_vars
  PROVE  NonePrecise'
<1> USE DEF NonePrecise
<1>1. mType \in [Timer -> {"one_shot", "slack", "precise"}]
  BY DEF Timing, TypeOK
<1>2. CASE Tick \/ UNCHANGED vars
  BY <1>2 DEF Tick, vars, runVars, userVars
<1>3. CASE ThreadStep
  <2>1. UNCHANGED <<mType, opType>>
    BY <1>3 DEF ThreadStep, Run, WakeUp, PostTimerEvent, PostPrecise, PostAdd, PostDispatch,
       PostFailed, userVars
  <2>2. thread' \notin {"add", "drop"}
    <3>1. CASE Run
      BY <3>1, RunIs DEF Takes, Rests
    <3>2. CASE PostPrecise
      <4>1. timer \in Timer
        BY <3>2 DEF PostPrecise, Timing, TypeOK, Places, Handling
      <4> QED BY <3>2, <4>1 DEF PostPrecise
    <3> QED BY <1>3, <3>1, <3>2 DEF ThreadStep, WakeUp, PostTimerEvent, PostAdd, PostDispatch, PostFailed
  <2> QED BY <2>1, <2>2
<1>4. CASE CallStep
  <2>1. CASE InitDelay
    <3>1. opTimer \in Timer
      BY <2>1, NoTimerOut DEF InitDelay, Goes, Timing, TypeOK, Places
    <3> QED BY <1>1, <2>1, <3>1 DEF InitDelay, Goes, runVars
  <2>2. thread' \in {thread, "notified"} \/ InitDelay
    BY <1>4 DEF CallStep, InitRemove, InitGeneration, InitAdd, CancelRemove, SetDelayChanged,
       ReleaseTest, ReleaseRemove, AfterSleepNext, AfterSleepChanged, ShutdownRelease, ShutdownJoined,
       AddTimer, RemoveTimer, TimerDelayChanged, Wakes, runVars
  <2>3. (mType' = mType /\ opType' \in {opType, "one_shot"}) \/ InitDelay
    BY <1>4 DEF CallStep, InitRemove, InitGeneration, InitAdd, CancelRemove, SetDelayChanged,
       ReleaseTest, ReleaseRemove, AfterSleepNext, AfterSleepChanged, ShutdownRelease, ShutdownJoined,
       Goes, Returns, Idle, Calling, userVars
  <2> QED BY <2>1, <2>2, <2>3
<1>5. CASE FireStep
  <2>1. thread' \in {thread, "notified"} /\ UNCHANGED mType
    BY <1>5 DEF FireStep, Fire, FireReturns, FireAdd, EventDone, AddTimer, Wakes, runVars
  <2>2. opType' = opType
    BY <1>5 DEF FireStep, Fire, FireReturns, FireAdd, EventDone, Drop, userVars
  <2> QED BY <2>1, <2>2
<1>6. CASE UserCall
  <2>1. ASSUME NEW t \in Timer, NEW type \in Types, NEW d \in Delays, InitTimer(t, type, d)
        PROVE  NonePrecise'
    BY <2>1 DEF InitTimer, runVars
  <2>2. ASSUME NEW t \in Timer, NEW d \in Delays, SetDelay(t, d)
        PROVE  NonePrecise'
    BY <2>2 DEF SetDelay, runVars, userVars
  <2>3. ASSUME NEW t \in Timer, Cancel(t) \/ Release(t)
        PROVE  NonePrecise'
    BY <2>3 DEF Cancel, Release, Drop, runVars, userVars
  <2>4. CASE DoBeforeSleep \/ DoAfterSleep \/ Shutdown
    BY <2>4 DEF DoBeforeSleep, DoAfterSleep, Shutdown, Wakes, runVars, userVars
  <2> QED BY <1>6, <2>1, <2>2, <2>3, <2>4 DEF UserCall
<1> QED BY <1>2, <1>3, <1>4, <1>5, <1>6 DEF Next

LEMMA NextReleaseAlive ==
  ASSUME Timing, Alive, [Next]_vars, op' = "release"
  PROVE  mRefCnt'[opTimer'] # 0 \/ DestroyedByTimerThread'
<1>1. mRefCnt \in [Timer -> Nat]
  BY DEF Timing, TypeOK
<1>2. ASSUME op # "release" PROVE mRefCnt'[opTimer'] # 0
  <2>1. ASSUME NEW t \in Timer, Drop(t) PROVE mRefCnt'[opTimer'] # 0
    BY <1>1, <1>2, <2>1 DEF Drop, Calling, userVars
  <2>2. CASE EventDone
    <3>1. fired \in Timer
      BY <2>2 DEF EventDone, Timing, TypeOK, Places
    <3> QED BY <2>1, <2>2, <3>1 DEF EventDone
  <2>3. ASSUME NEW t \in Timer, Release(t) PROVE mRefCnt'[opTimer'] # 0
    BY <2>1, <2>3 DEF Release
  <2>4. ~(UNCHANGED vars \/ Tick \/ ThreadStep)
    BY <1>2 DEF vars, Tick, ThreadStep, Run, WakeUp, PostTimerEvent, PostPrecise, PostAdd,
       PostDispatch, PostFailed, userVars
  <2>5. ~CallStep
    BY <1>2 DEF CallStep, InitRemove, InitGeneration, InitDelay, InitAdd, CancelRemove, SetDelayChanged,
       ReleaseTest, ReleaseRemove, AfterSleepNext, AfterSleepChanged, ShutdownRelease, ShutdownJoined,
       Goes, Returns, Idle, Calling, userVars
  <2>6. FireStep => EventDone
    BY <1>2 DEF FireStep, Fire, FireReturns, FireAdd, userVars
  <2>7. UserCall => \E t \in Timer : Release(t)
    BY <1>2 DEF UserCall, InitTimer, SetDelay, Cancel, DoBeforeSleep, DoAfterSleep, Shutdown, Calling,
       userVars
  <2> QED BY <2>2, <2>3, <2>4, <2>5, <2>6, <2>7 DEF Next
<1>3. ASSUME op = "release" PROVE mRefCnt'[opTimer'] # 0 \/ DestroyedByTimerThread'
  <2>1. opTimer \in Timer /\ timers = <<>> /\ firing \in {"no", "callback"}
    BY <1>3 DEF Timing, TypeOK, Places
  <2>2. mRefCnt[opTimer] # 0 \/ DestroyedByTimerThread
    BY <1>3 DEF Alive
  <2>3. CASE UNCHANGED <<mRefCnt, opTimer, mShutdown>>
    BY <2>2, <2>3 DEF DestroyedByTimerThread
  <2>4. CASE UNCHANGED vars \/ Tick
    BY <2>3, <2>4 DEF vars, Tick, listVars, userVars
  <2>5. CASE ThreadStep
    <3>1. CASE Run
      <4>1. UNCHANGED <<mRefCnt, mShutdown, opTimer>>
        BY <3>1, RunIs DEF Takes, Rests, TakeTimer, listVars, userVars
      <4> QED BY <2>3, <4>1
    <3>2. CASE WakeUp \/ PostTimerEvent \/ PostPrecise \/ PostDispatch
      BY <2>3, <3>2 DEF WakeUp, PostTimerEvent, PostPrecise, PostDispatch, listVars, userVars
    <3>3. CASE PostAdd
      <4>1. UNCHANGED <<mShutdown, opTimer>> /\ timer \in Timer
            /\ (mRefCnt' = mRefCnt \/ mRefCnt' = [mRefCnt EXCEPT ![timer] = @ + 1])
        BY <3>3 DEF PostAdd, Timing, TypeOK, Places, Handling, listVars, userVars
      <4>2. mRefCnt[opTimer] # 0 => mRefCnt'[opTimer] # 0
        BY <1>1, <2>1, <4>1
      <4> QED BY <2>2, <4>1, <4>2 DEF DestroyedByTimerThread
    <3>4. CASE PostFailed
      <4>1. mShutdown /\ thread = "drop" /\ UNCHANGED mShutdown
        BY <3>4 DEF PostFailed, Timing, Places
      <4>2. "precise" \in Types
        BY <4>1 DEF Alive, NonePrecise
      <4> QED BY <4>1, <4>2 DEF DestroyedByTimerThread
    <3> QED BY <2>5, <3>1, <3>2, <3>3, <3>4 DEF ThreadStep
  <2>6. ~FireStep
    BY <1>3, <2>1 DEF FireStep, Fire, FireReturns, FireAdd, EventDone, UserFree
  <2>7. ~CallStep
    BY <1>3, <2>1 DEF CallStep, InitRemove, InitGeneration, InitDelay, InitAdd, CancelRemove,
       SetDelayChanged, ReleaseTest, ReleaseRemove, AfterSleepNext, AfterSleepChanged, ShutdownRelease,
       ShutdownJoined, Goes, Returns, Idle, UserFree
  <2>8. ~UserCall
    BY <1>3 DEF UserCall, InitTimer, SetDelay, Cancel, Release, DoBeforeSleep, DoAfterSleep, Shutdown,
       MayCall, UserFree
  <2> QED BY <2>4, <2>5, <2>6, <2>7, <2>8 DEF Next
<1> QED BY <1>2, <1>3

LEMMA NextAlive == Timing /\ Alive /\ [Next]_vars => Alive'
<1> SUFFICES ASSUME Timing, Alive, [Next]_vars PROVE Alive'
  OBVIOUS
<1>1. "precise" \notin Types => NonePrecise'
  BY NextNonePrecise DEF Alive
<1>2. op' = "release" => mRefCnt'[opTimer'] # 0 \/ DestroyedByTimerThread'
  BY NextReleaseAlive
<1> QED BY <1>1, <1>2 DEF Alive

LEMMA InitAlive == Init => Alive
BY DEF Init, Alive, NonePrecise

(* A count of zero leaves no owner. *)
LEMMA TimingSafe == Timing /\ Alive => NoDanglingTimer
<1> SUFFICES ASSUME Timing, Alive PROVE NoDanglingTimer
  OBVIOUS
<1>1. TypeOK /\ (mShutdown => mTimers = <<>>)
  BY DEF Timing, Places
<1>2. ASSUME NEW t \in Timer, mRefCnt[t] = 0
      PROVE  /\ ~Listed(t) /\ ~Contains(timers, t)
             /\ t \notin held \cup {timer, fired}
             /\ \A i \in DOMAIN events : events[i].t # t
             /\ opTimer = t => op = "release_remove" \/ DestroyedByTimerThread
  <2>1. mTimers \in Seq(Timer) /\ timers \in Seq(Timer) /\ Posted \in Seq(Timer)
    BY <1>1, PostedType DEF TypeOK
  <2>2. /\ Occ(mTimers, t) = 0 /\ Occ(timers, t) = 0 /\ Occ(Posted, t) = 0
        /\ timer # t /\ fired # t /\ t \notin held
    BY <1>2, RefParts DEF One
  <2>3. ~Contains(mTimers, t) /\ ~Contains(timers, t) /\ ~Contains(Posted, t)
    BY <2>1, <2>2, OccType
  <2>4. ASSUME NEW i \in DOMAIN events PROVE events[i].t # t
    <3>1. events \in Seq([t: Timer, gen: 0 .. MaxCalls])
      BY <1>1 DEF TypeOK
    <3>2. i \in 1 .. Len(events)
      BY <3>1, LenProperties
    <3>3. Posted[i] = events[i].t /\ i \in 1 .. Len(Posted)
      BY <1>1, <3>2, PostedType
    <3> QED BY <2>3, <3>3 DEF Contains
  <2>5. opTimer = t => op = "release_remove" \/ DestroyedByTimerThread
    <3>1. op \in {"none", "init_remove", "init_generation", "init_delay", "init_add", "cancel",
                  "delay", "release", "release_remove", "wake", "wake_changed"}
      BY <1>1 DEF TypeOK
    <3>2. t # NoTimer
      BY NoTimerOut
    <3>3. opTimer = t => op \in {"release", "release_remove"}
      BY <2>2, <2>3, <3>1, <3>2 DEF Timing, Places, Initialising, Listed
    <3> QED BY <1>2, <3>3 DEF Alive
  <2> QED BY <2>2, <2>3, <2>4, <2>5 DEF Listed
<1> QED BY <1>1, <1>2 DEF NoDanglingTimer

(* Nobody is left with a timer that was freed, and after Shutdown the list *)
(* stays empty: nsTimerImpl's AddRef and Release, TimerThread's AddTimer,  *)
(* RemoveTimer, Run and Shutdown, with timers of every type and all the    *)
(* user's calls.  The one exception that NoDanglingTimer names, Release's  *)
(* read of mArmed after the timer thread has destroyed the timer, needs a  *)
(* precise timer and a Shutdown: without precise timers there is none.     *)
THEOREM TimersOutliveUse == Spec => []NoDanglingTimer
<1>1. Init => Timing /\ Alive
  BY InitTiming, InitAlive
<1>2. Timing /\ Alive /\ [Next]_vars => (Timing /\ Alive)'
  BY NextTiming, NextAlive
<1> QED BY <1>1, <1>2, TimingSafe, PTL DEF Spec

--------------------------------------------------------------------------------
LEMMA ListedOcc ==
  ASSUME NEW s \in Seq(Timer), NEW t
  PROVE  Occ(s, t) \in Nat /\ (Contains(s, t) <=> Occ(s, t) # 0)
BY OccType

(* Whoever finds mArmed false knows that the timer is not in the list,     *)
(* after Shutdown too.                                                     *)
LEMMA ArmedTest ==
  ASSUME Timing, Neat, NEW t \in Timer, ~mArmed[t]
  PROVE  ~Listed(t)
<1>1. CASE mShutdown
  BY <1>1, OccEmpty DEF Timing, Places, Listed
<1>2. CASE ~mShutdown
  BY <1>2 DEF Neat, ArmedMeansListed
<1> QED BY <1>1, <1>2

(* The operations on the list keep it neat if nobody adds a timer twice. *)
LEMMA AddNeat ==
  ASSUME Timing, Neat, NEW x \in Timer, ~Listed(x), AddTimer(x), mShutdown' = mShutdown
  PROVE  Neat' /\ \A t \in Timer : Listed(t)' => Listed(t) \/ t = x
<1>1. mTimers \in Seq(Timer) /\ mArmed \in [Timer -> BOOLEAN]
  BY DEF Timing, TypeOK
<1>2. CASE mShutdown
  <2>1. mTimers' = mTimers /\ mArmed' = mArmed
    BY <1>2 DEF AddTimer, listVars
  <2> QED BY <2>1 DEF Neat, ArmedMeansListed, Listed
<1>3. CASE ~mShutdown
  <2>1. mTimers' = Added(mTimers, x) /\ mArmed' = [mArmed EXCEPT ![x] = TRUE]
    BY <1>3 DEF AddTimer
  <2>2. mTimers' \in Seq(Timer) /\ \A t : Occ(mTimers', t) = Occ(mTimers, t) + One(x = t)
    BY <1>1, <2>1, AddedIs
  <2>3. ASSUME NEW t \in Timer
        PROVE  /\ Occ(mTimers', t) <= 1 /\ (mArmed'[t] <=> Contains(mTimers', t))
               /\ Contains(mTimers', t) => Contains(mTimers, t) \/ t = x
    <3>1. Occ(mTimers, t) \in Nat /\ (Contains(mTimers, t) <=> Occ(mTimers, t) # 0) /\ Occ(mTimers, t) <= 1
      BY <1>1, ListedOcc DEF Neat
    <3>2. Contains(mTimers', t) <=> Occ(mTimers', t) # 0
      BY <2>2, ListedOcc
    <3>3. Occ(mTimers', t) = Occ(mTimers, t) + One(x = t)
      BY <2>2
    <3>4. ~Contains(mTimers, x)
      BY DEF Listed
    <3>5. mArmed[t] <=> Contains(mTimers, t)
      BY <1>3 DEF Neat, ArmedMeansListed, Listed
    <3>6. CASE t = x
      BY <1>1, <2>1, <3>1, <3>2, <3>3, <3>4, <3>6 DEF One
    <3>7. CASE t # x
      BY <1>1, <2>1, <3>1, <3>2, <3>3, <3>5, <3>7 DEF One
    <3> QED BY <3>6, <3>7
  <2> QED BY <2>3 DEF Neat, ArmedMeansListed, Listed
<1> QED BY <1>2, <1>3

LEMMA RemoveNeat ==
  ASSUME Timing, Neat, NEW x \in Timer, RemoveTimer(x), mShutdown' = mShutdown
  PROVE  Neat' /\ ~Listed(x)' /\ \A t \in Timer : Listed(t)' => Listed(t)
<1>1. mTimers \in Seq(Timer) /\ mArmed \in [Timer -> BOOLEAN]
  BY DEF Timing, TypeOK
<1>2. CASE ~Contains(mTimers, x)
  <2>1. mTimers' = mTimers /\ mArmed' = mArmed
    BY <1>2 DEF RemoveTimer, listVars
  <2> QED BY <1>2, <2>1 DEF Neat, ArmedMeansListed, Listed
<1>3. CASE Contains(mTimers, x)
  <2>1. mTimers' = RemoveFirst(mTimers, x) /\ mArmed' = [mArmed EXCEPT ![x] = FALSE]
    BY <1>3 DEF RemoveTimer
  <2>2. mTimers' \in Seq(Timer) /\ \A t : Occ(mTimers', t) = Occ(mTimers, t) - One(t = x /\ Contains(mTimers, x))
    BY <1>1, <2>1, RemovedIs
  <2>3. ASSUME NEW t \in Timer
        PROVE  /\ Occ(mTimers', t) <= 1 /\ (Contains(mTimers', t) <=> t # x /\ Contains(mTimers, t))
               /\ ~mShutdown => (mArmed'[t] <=> Contains(mTimers', t))
    <3>1. Occ(mTimers, t) \in Nat /\ (Contains(mTimers, t) <=> Occ(mTimers, t) # 0) /\ Occ(mTimers, t) <= 1
      BY <1>1, ListedOcc DEF Neat
    <3>2. Contains(mTimers', t) <=> Occ(mTimers', t) # 0
      BY <2>2, ListedOcc
    <3>3. Occ(mTimers', t) = Occ(mTimers, t) - One(t = x /\ Contains(mTimers, x))
      BY <2>2
    <3>5. ~mShutdown => (mArmed[t] <=> Contains(mTimers, t))
      BY DEF Neat, ArmedMeansListed, Listed
    <3>6. CASE t = x
      BY <1>1, <1>3, <2>1, <3>1, <3>2, <3>3, <3>6 DEF One
    <3>7. CASE t # x
      BY <1>1, <2>1, <3>1, <3>2, <3>3, <3>5, <3>7 DEF One
    <3> QED BY <3>6, <3>7
  <2> QED BY <2>3 DEF Neat, ArmedMeansListed, Listed
<1> QED BY <1>2, <1>3

LEMMA ChangeNeat ==
  ASSUME Timing, Neat, NEW x \in Timer, TimerDelayChanged(x), mShutdown' = mShutdown
  PROVE  Neat' /\ \A t \in Timer : Listed(t)' => Listed(t) \/ t = x
<1> DEFINE rest == RemoveFirst(mTimers, x)
<1>1. mTimers \in Seq(Timer) /\ mArmed \in [Timer -> BOOLEAN]
  BY DEF Timing, TypeOK
<1>2. rest \in Seq(Timer) /\ \A t : Occ(rest, t) = Occ(mTimers, t) - One(t = x /\ Contains(mTimers, x))
  BY <1>1, RemovedIs
<1>3. CASE mShutdown
  <2>1. mTimers = <<>> /\ mTimers' = rest
    BY <1>3 DEF Timing, Places, TimerDelayChanged
  <2>2. rest = <<>>
    BY <1>1, <2>1, OccEmpty, RemoveWidens
  <2>3. \A t : ~Contains(mTimers', t) /\ Occ(mTimers', t) = 0
    BY <2>1, <2>2, OccEmpty
  <2> QED BY <1>3, <2>3 DEF Neat, ArmedMeansListed, Listed
<1>4. CASE ~mShutdown
  <2>1. mTimers' = Added(rest, x) /\ mArmed' = [mArmed EXCEPT ![x] = TRUE]
    BY <1>4 DEF TimerDelayChanged
  <2> HIDE DEF rest
  <2>2. mTimers' \in Seq(Timer) /\ \A t : Occ(mTimers', t) = Occ(rest, t) + One(x = t)
    BY <1>2, <2>1, AddedIs
  <2>3. ASSUME NEW t \in Timer
        PROVE  /\ Occ(mTimers', t) <= 1 /\ (mArmed'[t] <=> Contains(mTimers', t))
               /\ Contains(mTimers', t) => Contains(mTimers, t) \/ t = x
    <3>1. Occ(mTimers, t) \in Nat /\ (Contains(mTimers, t) <=> Occ(mTimers, t) # 0) /\ Occ(mTimers, t) <= 1
      BY <1>1, ListedOcc DEF Neat
    <3>2. Contains(mTimers', t) <=> Occ(mTimers', t) # 0
      BY <2>2, ListedOcc
    <3>3. /\ Occ(mTimers', t) = Occ(rest, t) + One(x = t)
          /\ Occ(rest, t) = Occ(mTimers, t) - One(t = x /\ Contains(mTimers, x))
      BY <1>2, <2>2
    <3>5. mArmed[t] <=> Contains(mTimers, t)
      BY <1>4 DEF Neat, ArmedMeansListed, Listed
    <3>6. CASE t = x
      BY <1>1, <2>1, <3>1, <3>2, <3>3, <3>6 DEF One
    <3>7. CASE t # x
      BY <1>1, <2>1, <3>1, <3>2, <3>3, <3>5, <3>7 DEF One
    <3> QED BY <3>6, <3>7
  <2> QED BY <2>3 DEF Neat, ArmedMeansListed, Listed
<1> QED BY <1>3, <1>4

LEMMA TakeNeat ==
  ASSUME Timing, Neat, ~mShutdown, TakeTimer, mShutdown' = mShutdown
  PROVE  /\ Neat' /\ Head(mTimers) \in Timer
         /\ \A t \in Timer : (Listed(t)' => Listed(t)) /\ (Listed(t) => Listed(t)' \/ t = Head(mTimers))
<1>1. mTimers \in Seq(Timer) /\ mArmed \in [Timer -> BOOLEAN] /\ mTimers # <<>>
  BY DEF Timing, TypeOK, TakeTimer
<1> DEFINE x == Head(mTimers)
<1>2. mTimers' = Tail(mTimers) /\ mArmed' = [mArmed EXCEPT ![x] = FALSE]
  BY DEF TakeTimer
<1>3. x \in Timer /\ mTimers' \in Seq(Timer) /\ Widened(mTimers, mTimers', 1, x)
  BY <1>1, <1>2, TailWidens
<1> HIDE DEF x
<1>4. ASSUME NEW t \in Timer
      PROVE  /\ Occ(mTimers', t) <= 1 /\ (mArmed'[t] <=> Contains(mTimers', t))
             /\ Contains(mTimers', t) => Contains(mTimers, t)
             /\ Contains(mTimers, t) => Contains(mTimers', t) \/ t = x
  <2>1. Occ(mTimers, t) \in Nat /\ (Contains(mTimers, t) <=> Occ(mTimers, t) # 0) /\ Occ(mTimers, t) <= 1
    BY <1>1, ListedOcc DEF Neat
  <2>2. Occ(mTimers', t) \in Nat /\ (Contains(mTimers', t) <=> Occ(mTimers', t) # 0)
    BY <1>3, ListedOcc
  <2>3. Occ(mTimers, t) = Occ(mTimers', t) + One(x = t)
    BY <1>1, <1>3, WidenedOcc
  <2>4. mArmed[t] <=> Contains(mTimers, t)
    BY DEF Neat, ArmedMeansListed, Listed
  <2>5. CASE t = x
    BY <1>1, <1>2, <2>1, <2>2, <2>3, <2>5 DEF One
  <2>6. CASE t # x
    BY <1>1, <1>2, <2>1, <2>2, <2>3, <2>4, <2>6 DEF One
  <2> QED BY <2>5, <2>6
<1> QED BY <1>3, <1>4 DEF Neat, ArmedMeansListed, Listed, x

LEMMA SameNeat ==
  ASSUME Neat, UNCHANGED <<mTimers, mArmed, mShutdown>>
  PROVE  Neat' /\ \A t : Listed(t)' = Listed(t)
BY DEF Neat, ArmedMeansListed, Listed

(* A reference is given up by the user or by an event: if the list is left *)
(* as the only owner, the count was 2 and Release goes on.                 *)
LEMMA OnlyTheListLeft ==
  ASSUME Timing, Neat, NEW t \in Timer, Listed(t), timer # t, ~Contains(Posted, t),
         (t \in held /\ fired # t) \/ (t \notin held /\ fired = t)
  PROVE  mRefCnt[t] = 2
<1>1. mTimers \in Seq(Timer) /\ Posted \in Seq(Timer)
  BY PostedType DEF Timing, TypeOK
<1>2. Occ(mTimers, t) = 1 /\ Occ(Posted, t) = 0
  <2>1. Occ(mTimers, t) \in Nat /\ Occ(mTimers, t) # 0 /\ Occ(mTimers, t) <= 1
    BY <1>1, ListedOcc DEF Neat, Listed
  <2>2. Occ(Posted, t) = 0
    BY <1>1, ListedOcc
  <2> QED BY <2>1, <2>2
<1>3. Occ(timers, t) = 0
  <2>1. ~mShutdown
    BY OccEmpty DEF Timing, Places, Listed
  <2> QED BY <2>1, OccEmpty DEF Timing, Places
<1> QED BY <1>2, <1>3, RefParts DEF One

LEMMA SameOwners ==
  ASSUME UNCHANGED <<events, timer, fired, held>>
  PROVE  \A t : Owned(t)' = Owned(t)
BY DEF Owned, Posted

(* One lemma for each action again. *)
LEMMA TickRepeating ==
  ASSUME Timing, Repeating, Tick
  PROVE  Repeating'
<1> USE DEF Repeating
<1>1. UNCHANGED <<mTimers, mArmed, mShutdown, events, timer, fired, held>>
  BY DEF Tick, listVars, runVars, userVars, fireVars, exitVars, boundVars
<1>2. Neat' /\ \A u : Listed(u)' = Listed(u)
  BY <1>1, SameNeat
<1>3. \A u : Owned(u)' = Owned(u)
  BY <1>1, SameOwners
<1>4. NonePrecise'
  <2>1. mType' = mType /\ opType' = opType /\ thread' = thread
    BY DEF Tick, listVars, runVars, userVars, fireVars, exitVars, boundVars
  <2> QED BY <2>1 DEF NonePrecise
<1>5. Unlisted'
  <2>1. UNCHANGED <<op, opTimer, firing, fired>>
    BY DEF Tick, listVars, runVars, userVars, fireVars, exitVars, boundVars
  <2> QED BY <1>2, <2>1 DEF Unlisted
<1>6. LastOwner'
  <2>1. UNCHANGED <<op, opTimer>>
    BY DEF Tick, listVars, runVars, userVars, fireVars, exitVars, boundVars
  <2> QED BY <1>2, <1>3, <2>1 DEF LastOwner
<1> QED BY <1>2, <1>4, <1>5, <1>6

LEMMA DoBeforeSleepRepeating ==
  ASSUME Timing, Repeating, DoBeforeSleep
  PROVE  Repeating'
<1> USE DEF Repeating
<1>1. UNCHANGED <<mTimers, mArmed, mShutdown, events, timer, fired, held>>
  BY DEF DoBeforeSleep, listVars, runVars, userVars, fireVars, exitVars, boundVars
<1>2. Neat' /\ \A u : Listed(u)' = Listed(u)
  BY <1>1, SameNeat
<1>3. \A u : Owned(u)' = Owned(u)
  BY <1>1, SameOwners
<1>4. NonePrecise'
  <2>1. mType' = mType /\ opType' = opType /\ thread' = thread
    BY DEF DoBeforeSleep, listVars, runVars, userVars, fireVars, exitVars, boundVars, UserFree
  <2> QED BY <2>1 DEF NonePrecise
<1>5. Unlisted'
  <2>1. UNCHANGED <<op, opTimer, firing, fired>>
    BY DEF DoBeforeSleep, listVars, runVars, userVars, fireVars, exitVars, boundVars, UserFree
  <2> QED BY <1>2, <2>1 DEF Unlisted
<1>6. LastOwner'
  <2>1. UNCHANGED <<op, opTimer>>
    BY DEF DoBeforeSleep, listVars, runVars, userVars, fireVars, exitVars, boundVars, UserFree
  <2> QED BY <1>2, <1>3, <2>1 DEF LastOwner
<1> QED BY <1>2, <1>4, <1>5, <1>6

LEMMA ShutdownJoinedRepeating ==
  ASSUME Timing, Repeating, ShutdownJoined
  PROVE  Repeating'
<1> USE DEF Repeating
<1>1. UNCHANGED <<mTimers, mArmed, mShutdown, events, timer, fired, held>>
  BY DEF ShutdownJoined, listVars, runVars, userVars, fireVars, exitVars, boundVars
<1>2. Neat' /\ \A u : Listed(u)' = Listed(u)
  BY <1>1, SameNeat
<1>3. \A u : Owned(u)' = Owned(u)
  BY <1>1, SameOwners
<1>4. NonePrecise'
  <2>1. mType' = mType /\ opType' = opType /\ thread' = thread
    BY DEF ShutdownJoined, listVars, runVars, userVars, fireVars, exitVars, boundVars, UserFree
  <2> QED BY <2>1 DEF NonePrecise
<1>5. Unlisted'
  <2>1. UNCHANGED <<op, opTimer, firing, fired>>
    BY DEF ShutdownJoined, listVars, runVars, userVars, fireVars, exitVars, boundVars, UserFree
  <2> QED BY <1>2, <2>1 DEF Unlisted
<1>6. LastOwner'
  <2>1. UNCHANGED <<op, opTimer>>
    BY DEF ShutdownJoined, listVars, runVars, userVars, fireVars, exitVars, boundVars, UserFree
  <2> QED BY <1>2, <1>3, <2>1 DEF LastOwner
<1> QED BY <1>2, <1>4, <1>5, <1>6

LEMMA WakeUpRepeating ==
  ASSUME Timing, Repeating, WakeUp
  PROVE  Repeating'
<1> USE DEF Repeating
<1>1. UNCHANGED <<mTimers, mArmed, mShutdown, events, timer, fired, held>>
  BY DEF WakeUp, listVars, runVars, userVars, fireVars, exitVars, boundVars
<1>2. Neat' /\ \A u : Listed(u)' = Listed(u)
  BY <1>1, SameNeat
<1>3. \A u : Owned(u)' = Owned(u)
  BY <1>1, SameOwners
<1>4. NonePrecise'
  <2>1. mType' = mType /\ opType' \in {opType, "one_shot"}
    BY DEF WakeUp, listVars, runVars, userVars, fireVars, exitVars, boundVars
  <2>2. thread' \notin {"add", "drop"}
    BY DEF WakeUp, NonePrecise, listVars, runVars, userVars, fireVars, exitVars, boundVars
  <2> QED BY <2>1, <2>2 DEF NonePrecise
<1>5. Unlisted'
  <2>1. UNCHANGED <<op, opTimer, firing, fired>>
    BY DEF WakeUp, listVars, runVars, userVars, fireVars, exitVars, boundVars
  <2> QED BY <1>2, <2>1 DEF Unlisted
<1>6. LastOwner'
  <2>1. UNCHANGED <<op, opTimer>>
    BY DEF WakeUp, listVars, runVars, userVars, fireVars, exitVars, boundVars
  <2> QED BY <1>2, <1>3, <2>1 DEF LastOwner
<1> QED BY <1>2, <1>4, <1>5, <1>6

LEMMA PostTimerEventRepeating ==
  ASSUME Timing, Repeating, PostTimerEvent
  PROVE  Repeating'
<1> USE DEF Repeating
<1>1. UNCHANGED <<mTimers, mArmed, mShutdown, events, timer, fired, held>>
  BY DEF PostTimerEvent, listVars, runVars, userVars, fireVars, exitVars, boundVars
<1>2. Neat' /\ \A u : Listed(u)' = Listed(u)
  BY <1>1, SameNeat
<1>3. \A u : Owned(u)' = Owned(u)
  BY <1>1, SameOwners
<1>4. NonePrecise'
  <2>1. mType' = mType /\ opType' \in {opType, "one_shot"}
    BY DEF PostTimerEvent, listVars, runVars, userVars, fireVars, exitVars, boundVars
  <2>2. thread' \notin {"add", "drop"}
    BY DEF PostTimerEvent, NonePrecise, listVars, runVars, userVars, fireVars, exitVars, boundVars
  <2> QED BY <2>1, <2>2 DEF NonePrecise
<1>5. Unlisted'
  <2>1. UNCHANGED <<op, opTimer, firing, fired>>
    BY DEF PostTimerEvent, listVars, runVars, userVars, fireVars, exitVars, boundVars
  <2> QED BY <1>2, <2>1 DEF Unlisted
<1>6. LastOwner'
  <2>1. UNCHANGED <<op, opTimer>>
    BY DEF PostTimerEvent, listVars, runVars, userVars, fireVars, exitVars, boundVars
  <2> QED BY <1>2, <1>3, <2>1 DEF LastOwner
<1> QED BY <1>2, <1>4, <1>5, <1>6

LEMMA PostPreciseRepeating ==
  ASSUME Timing, Repeating, PostPrecise
  PROVE  Repeating'
<1> USE DEF Repeating
<1>1. UNCHANGED <<mTimers, mArmed, mShutdown, events, timer, fired, held>>
  BY DEF PostPrecise, listVars, runVars, userVars, fireVars, exitVars, boundVars
<1>2. Neat' /\ \A u : Listed(u)' = Listed(u)
  BY <1>1, SameNeat
<1>3. \A u : Owned(u)' = Owned(u)
  BY <1>1, SameOwners
<1>4. NonePrecise'
  <2>1. timer \in Timer /\ mType' = mType /\ opType' = opType
    BY DEF PostPrecise, userVars, Timing, TypeOK, Places, Handling
  <2>2. thread' = "dispatch"
    BY <2>1 DEF PostPrecise, NonePrecise
  <2> QED BY <2>1, <2>2 DEF NonePrecise
<1>5. Unlisted'
  <2>1. UNCHANGED <<op, opTimer, firing, fired>>
    BY DEF PostPrecise, listVars, runVars, userVars, fireVars, exitVars, boundVars
  <2> QED BY <1>2, <2>1 DEF Unlisted
<1>6. LastOwner'
  <2>1. UNCHANGED <<op, opTimer>>
    BY DEF PostPrecise, listVars, runVars, userVars, fireVars, exitVars, boundVars
  <2> QED BY <1>2, <1>3, <2>1 DEF LastOwner
<1> QED BY <1>2, <1>4, <1>5, <1>6

LEMMA InitTimerRepeating ==
  ASSUME "precise" \notin Types, Timing, Repeating, NEW t \in Timer, NEW type \in Types, NEW d \in Delays, InitTimer(t, type, d)
  PROVE  Repeating'
<1> USE DEF Repeating
<1>1. UNCHANGED <<mTimers, mArmed, mShutdown, events, timer, fired, held>>
  BY DEF InitTimer, listVars, runVars, userVars, fireVars, exitVars, boundVars, MayCall, Calling, UserFree
<1>2. Neat' /\ \A u : Listed(u)' = Listed(u)
  BY <1>1, SameNeat
<1>3. \A u : Owned(u)' = Owned(u)
  BY <1>1, SameOwners
<1>4. NonePrecise'
  <2>1. mType' = mType /\ opType' = type /\ thread' = thread
    BY DEF InitTimer, runVars
  <2> QED BY <2>1 DEF NonePrecise
<1>5. Unlisted'
  <2>1. opTimer' = t /\ UNCHANGED <<firing, fired>> /\ (op' = "init_remove" \/ (op' = "init_generation" /\ ~mArmed[t]))
    BY DEF InitTimer, Calling, fireVars
  <2>2. ~mArmed[t] => ~Listed(t)
    BY ArmedTest
  <2> QED BY <1>2, <2>1, <2>2 DEF Unlisted
<1>6. LastOwner'
  <2>1. op \notin {"release", "release_remove"}
    BY DEF InitTimer, MayCall, Calling, UserFree
  <2> QED BY <1>2, <1>3, <2>1 DEF LastOwner
<1> QED BY <1>2, <1>4, <1>5, <1>6

LEMMA InitGenerationRepeating ==
  ASSUME Timing, Repeating, InitGeneration
  PROVE  Repeating'
<1> USE DEF Repeating
<1>1. UNCHANGED <<mTimers, mArmed, mShutdown, events, timer, fired, held>>
  BY DEF InitGeneration, listVars, runVars, userVars, fireVars, exitVars, boundVars, Goes
<1>2. Neat' /\ \A u : Listed(u)' = Listed(u)
  BY <1>1, SameNeat
<1>3. \A u : Owned(u)' = Owned(u)
  BY <1>1, SameOwners
<1>4. NonePrecise'
  <2>1. mType' = mType /\ opType' = opType /\ thread' = thread
    BY DEF InitGeneration, listVars, runVars, userVars, fireVars, exitVars, boundVars, Goes
  <2> QED BY <2>1 DEF NonePrecise
<1>5. Unlisted'
  <2>1. /\ op \in {"init_generation", "init_delay"} /\ UNCHANGED <<opTimer, firing, fired>>
    BY DEF InitGeneration, Goes, fireVars
  <2> QED BY <1>2, <2>1 DEF Unlisted
<1>6. LastOwner'
  <2>1. op \notin {"release", "release_remove"}
    BY DEF InitGeneration, Goes
  <2> QED BY <1>2, <1>3, <2>1 DEF LastOwner
<1> QED BY <1>2, <1>4, <1>5, <1>6

LEMMA InitDelayRepeating ==
  ASSUME Timing, Repeating, InitDelay
  PROVE  Repeating'
<1> USE DEF Repeating
<1>1. UNCHANGED <<mTimers, mArmed, mShutdown, events, timer, fired, held>>
  BY DEF InitDelay, listVars, runVars, userVars, fireVars, exitVars, boundVars, Goes
<1>2. Neat' /\ \A u : Listed(u)' = Listed(u)
  BY <1>1, SameNeat
<1>3. \A u : Owned(u)' = Owned(u)
  BY <1>1, SameOwners
<1>4. NonePrecise'
  <2>1. mType' = [mType EXCEPT ![opTimer] = opType] /\ opType' = opType /\ thread' = thread
    BY DEF InitDelay, Goes, runVars
  <2>2. mType \in [Timer -> {"one_shot", "slack", "precise"}]
    BY DEF Timing, TypeOK
  <2> QED BY <2>1, <2>2 DEF NonePrecise
<1>5. Unlisted'
  <2>1. /\ op \in {"init_generation", "init_delay"} /\ UNCHANGED <<opTimer, firing, fired>>
    BY DEF InitDelay, Goes, fireVars
  <2> QED BY <1>2, <2>1 DEF Unlisted
<1>6. LastOwner'
  <2>1. op \notin {"release", "release_remove"}
    BY DEF InitDelay, Goes
  <2> QED BY <1>2, <1>3, <2>1 DEF LastOwner
<1> QED BY <1>2, <1>4, <1>5, <1>6

LEMMA CancelRepeating ==
  ASSUME Timing, Repeating, NEW t \in Timer, Cancel(t)
  PROVE  Repeating'
<1> USE DEF Repeating
<1>1. UNCHANGED <<mTimers, mArmed, mShutdown, events, timer, fired, held>>
  BY DEF Cancel, listVars, runVars, userVars, fireVars, exitVars, boundVars, MayCall, Calling, UserFree
<1>2. Neat' /\ \A u : Listed(u)' = Listed(u)
  BY <1>1, SameNeat
<1>3. \A u : Owned(u)' = Owned(u)
  BY <1>1, SameOwners
<1>4. NonePrecise'
  <2>1. mType' = mType /\ opType' = opType /\ thread' = thread
    BY DEF Cancel, listVars, runVars, userVars, fireVars, exitVars, boundVars, MayCall, Calling, UserFree
  <2> QED BY <2>1 DEF NonePrecise
<1>5. Unlisted'
  <2>1. op' \notin {"init_generation", "init_delay", "init_add"} /\ UNCHANGED <<firing, fired>>
    BY DEF Cancel, listVars, runVars, userVars, fireVars, exitVars, boundVars, MayCall, Calling, UserFree
  <2> QED BY <1>2, <2>1 DEF Unlisted
<1>6. LastOwner'
  <2>1. op \notin {"release", "release_remove"}
    BY DEF Cancel, MayCall, Calling, UserFree
  <2> QED BY <1>2, <1>3, <2>1 DEF LastOwner
<1> QED BY <1>2, <1>4, <1>5, <1>6

LEMMA SetDelayRepeating ==
  ASSUME Timing, Repeating, NEW t \in Timer, NEW d \in Delays, SetDelay(t, d)
  PROVE  Repeating'
<1> USE DEF Repeating
<1>1. UNCHANGED <<mTimers, mArmed, mShutdown, events, timer, fired, held>>
  BY DEF SetDelay, listVars, runVars, userVars, fireVars, exitVars, boundVars, MayCall, Calling, UserFree
<1>2. Neat' /\ \A u : Listed(u)' = Listed(u)
  BY <1>1, SameNeat
<1>3. \A u : Owned(u)' = Owned(u)
  BY <1>1, SameOwners
<1>4. NonePrecise'
  <2>1. mType' = mType /\ opType' \in {opType, "one_shot"}
    BY DEF SetDelay, listVars, runVars, userVars, fireVars, exitVars, boundVars, MayCall, Calling, UserFree
  <2>2. thread' \notin {"add", "drop"}
    BY DEF SetDelay, NonePrecise, listVars, runVars, userVars, fireVars, exitVars, boundVars, MayCall,
       Calling, UserFree
  <2> QED BY <2>1, <2>2 DEF NonePrecise
<1>5. Unlisted'
  <2>1. op' \in {"none", "delay"} /\ UNCHANGED <<firing, fired>>
    BY DEF SetDelay, listVars, runVars, userVars, fireVars, exitVars, boundVars, MayCall, Calling, UserFree
  <2> QED BY <1>2, <2>1 DEF Unlisted
<1>6. LastOwner'
  <2>1. op \notin {"release", "release_remove"}
    BY DEF SetDelay, MayCall, Calling, UserFree
  <2> QED BY <1>2, <1>3, <2>1 DEF LastOwner
<1> QED BY <1>2, <1>4, <1>5, <1>6

LEMMA DoAfterSleepRepeating ==
  ASSUME Timing, Repeating, DoAfterSleep
  PROVE  Repeating'
<1> USE DEF Repeating
<1>1. UNCHANGED <<mTimers, mArmed, mShutdown, events, timer, fired, held>>
  BY DEF DoAfterSleep, listVars, runVars, userVars, fireVars, exitVars, boundVars, UserFree
<1>2. Neat' /\ \A u : Listed(u)' = Listed(u)
  BY <1>1, SameNeat
<1>3. \A u : Owned(u)' = Owned(u)
  BY <1>1, SameOwners
<1>4. NonePrecise'
  <2>1. mType' = mType /\ opType' = opType /\ thread' = thread
    BY DEF DoAfterSleep, listVars, runVars, userVars, fireVars, exitVars, boundVars, UserFree
  <2> QED BY <2>1 DEF NonePrecise
<1>5. Unlisted'
  <2>1. op' \notin {"init_generation", "init_delay", "init_add"} /\ UNCHANGED <<firing, fired>>
    BY DEF DoAfterSleep, listVars, runVars, userVars, fireVars, exitVars, boundVars, UserFree
  <2> QED BY <1>2, <2>1 DEF Unlisted
<1>6. LastOwner'
  <2>1. op \notin {"release", "release_remove"}
    BY DEF DoAfterSleep, UserFree
  <2> QED BY <1>2, <1>3, <2>1 DEF LastOwner
<1> QED BY <1>2, <1>4, <1>5, <1>6

LEMMA AfterSleepNextRepeating ==
  ASSUME Timing, Repeating, AfterSleepNext
  PROVE  Repeating'
<1> USE DEF Repeating
<1>1. UNCHANGED <<mTimers, mArmed, mShutdown, events, timer, fired, held>>
  BY DEF AfterSleepNext, listVars, runVars, userVars, fireVars, exitVars, boundVars, Idle, Calling
<1>2. Neat' /\ \A u : Listed(u)' = Listed(u)
  BY <1>1, SameNeat
<1>3. \A u : Owned(u)' = Owned(u)
  BY <1>1, SameOwners
<1>4. NonePrecise'
  <2>1. mType' = mType /\ opType' \in {opType, "one_shot"}
    BY DEF AfterSleepNext, listVars, runVars, userVars, fireVars, exitVars, boundVars, Idle, Calling
  <2>2. thread' \notin {"add", "drop"}
    BY DEF AfterSleepNext, NonePrecise, listVars, runVars, userVars, fireVars, exitVars, boundVars,
       Idle, Calling
  <2> QED BY <2>1, <2>2 DEF NonePrecise
<1>5. Unlisted'
  <2>1. op' \in {"none", "wake", "wake_changed"} /\ UNCHANGED <<firing, fired>>
    BY DEF AfterSleepNext, listVars, runVars, userVars, fireVars, exitVars, boundVars, Idle, Calling
  <2> QED BY <1>2, <2>1 DEF Unlisted
<1>6. LastOwner'
  <2>1. op \notin {"release", "release_remove"}
    BY DEF AfterSleepNext
  <2> QED BY <1>2, <1>3, <2>1 DEF LastOwner
<1> QED BY <1>2, <1>4, <1>5, <1>6

LEMMA ReleaseTestRepeating ==
  ASSUME Timing, Repeating, ReleaseTest
  PROVE  Repeating'
<1> USE DEF Repeating
<1>1. UNCHANGED <<mTimers, mArmed, mShutdown, events, timer, fired, held>>
  BY DEF ReleaseTest, listVars, runVars, userVars, fireVars, exitVars, boundVars, Goes, Returns, Idle
<1>2. Neat' /\ \A u : Listed(u)' = Listed(u)
  BY <1>1, SameNeat
<1>3. \A u : Owned(u)' = Owned(u)
  BY <1>1, SameOwners
<1>4. NonePrecise'
  <2>1. mType' = mType /\ opType' \in {opType, "one_shot"}
    BY DEF ReleaseTest, listVars, runVars, userVars, fireVars, exitVars, boundVars, Goes, Returns, Idle
  <2>2. thread' \notin {"add", "drop"}
    BY DEF ReleaseTest, NonePrecise, listVars, runVars, userVars, fireVars, exitVars, boundVars, Goes,
       Returns, Idle
  <2> QED BY <2>1, <2>2 DEF NonePrecise
<1>5. Unlisted'
  <2>1. op' \in {"none", "release_remove"} /\ UNCHANGED <<firing, fired>>
    BY DEF ReleaseTest, listVars, runVars, userVars, fireVars, exitVars, boundVars, Goes, Returns, Idle
  <2> QED BY <1>2, <2>1 DEF Unlisted
<1>6. LastOwner'
  <2>1. op = "release" /\ opTimer \in Timer
    BY DEF ReleaseTest, Timing, Places, TypeOK
  <2>2. CASE mArmed[opTimer]
    <3>1. op' = "release_remove" /\ opTimer' = opTimer
      BY <2>2 DEF ReleaseTest, Goes
    <3> QED BY <1>2, <1>3, <2>1, <3>1 DEF LastOwner
  <2>3. CASE ~mArmed[opTimer]
    <3>1. ~Listed(opTimer)
      BY <2>1, <2>3, ArmedTest
    <3> QED BY <1>2, <1>3, <3>1 DEF LastOwner
  <2> QED BY <2>2, <2>3
<1> QED BY <1>2, <1>4, <1>5, <1>6

LEMMA FireReturnsRepeating ==
  ASSUME Timing, Repeating, FireReturns
  PROVE  Repeating'
<1> USE DEF Repeating
<1>1. UNCHANGED <<mTimers, mArmed, mShutdown, events, timer, fired, held>>
  BY DEF FireReturns, listVars, runVars, userVars, fireVars, exitVars, boundVars, UserFree
<1>2. Neat' /\ \A u : Listed(u)' = Listed(u)
  BY <1>1, SameNeat
<1>3. \A u : Owned(u)' = Owned(u)
  BY <1>1, SameOwners
<1>4. NonePrecise'
  <2>1. mType' = mType /\ opType' = opType /\ thread' = thread
    BY DEF FireReturns, listVars, runVars, userVars, fireVars, exitVars, boundVars, UserFree
  <2> QED BY <2>1 DEF NonePrecise
<1>5. Unlisted'
  <2>1. op = "none" /\ op' = op /\ (firing' = "end" \/ (firing' = "add" /\ ~mArmed[fired])) /\ fired' = fired
    BY DEF FireReturns, UserFree, userVars
  <2>2. fired \in Timer
    BY DEF FireReturns, Timing, TypeOK, Places
  <2>3. ~mArmed[fired] => ~Listed(fired)
    BY <2>2, ArmedTest
  <2> QED BY <1>2, <2>1, <2>3 DEF Unlisted
<1>6. LastOwner'
  <2>1. UNCHANGED <<op, opTimer>>
    BY DEF FireReturns, listVars, runVars, userVars, fireVars, exitVars, boundVars, UserFree
  <2> QED BY <1>2, <1>3, <2>1 DEF LastOwner
<1> QED BY <1>2, <1>4, <1>5, <1>6

LEMMA InitRemoveRepeating ==
  ASSUME Timing, Repeating, InitRemove
  PROVE  Repeating'
<1> USE DEF Repeating
<1>1. opTimer \in Timer /\ UNCHANGED <<mShutdown, events, timer, fired, held>> /\ RemoveTimer(opTimer)
  BY DEF InitRemove, Timing, Places, TypeOK, exitVars, fireVars, Goes
<1>2. Neat' /\ (\A u \in Timer : Listed(u)' => Listed(u)) /\ \A u : u = opTimer => ~Listed(u)'
  BY <1>1, RemoveNeat
<1>3. \A u : Owned(u)' = Owned(u)
  BY <1>1, SameOwners
<1>4. NonePrecise'
  <2>1. mType' = mType /\ opType' \in {opType, "one_shot"}
    BY DEF InitRemove, listVars, runVars, userVars, fireVars, exitVars, boundVars, Goes
  <2>2. thread' \in {thread, "notified"}
    BY <1>1 DEF AddTimer, RemoveTimer, TimerDelayChanged, Wakes
  <2> QED BY <2>1, <2>2 DEF NonePrecise
<1>5. Unlisted'
  <2>1. opTimer' = opTimer /\ firing' \in {"no", "callback"}
    BY DEF InitRemove, Goes, Timing, Places, fireVars
  <2>2. ~Listed(opTimer)'
    BY <1>2, <2>1 DEF Listed
  <2> QED BY <2>1, <2>2 DEF Unlisted
<1>6. LastOwner'
  <2>1. op = "init_remove"
    BY DEF InitRemove, Goes
  <2> QED BY <1>2, <1>3, <2>1 DEF LastOwner
<1> QED BY <1>2, <1>4, <1>5, <1>6

LEMMA InitAddRepeating ==
  ASSUME Timing, Repeating, InitAdd
  PROVE  Repeating'
<1> USE DEF Repeating
<1>1. opTimer \in Timer /\ UNCHANGED <<mShutdown, events, timer, fired, held>> /\ AddTimer(opTimer)
  BY DEF InitAdd, Timing, Places, TypeOK, exitVars, fireVars, Returns, Idle
<1>7. ~Listed(opTimer)
  BY DEF InitAdd, Unlisted, Returns, Idle
<1>2. Neat' /\ \A u \in Timer : Listed(u)' => Listed(u) \/ u = opTimer
  BY <1>1, <1>7, AddNeat
<1>3. \A u : Owned(u)' = Owned(u)
  BY <1>1, SameOwners
<1>4. NonePrecise'
  <2>1. mType' = mType /\ opType' \in {opType, "one_shot"}
    BY DEF InitAdd, listVars, runVars, userVars, fireVars, exitVars, boundVars, Returns, Idle
  <2>2. thread' \in {thread, "notified"}
    BY <1>1 DEF AddTimer, RemoveTimer, TimerDelayChanged, Wakes
  <2> QED BY <2>1, <2>2 DEF NonePrecise
<1>5. Unlisted'
  <2>1. op' \in {"none", "wake"} /\ firing' \in {"no", "callback", "end"}
    BY DEF InitAdd, Timing, Places, listVars, runVars, userVars, fireVars, exitVars, boundVars,
       Returns, Idle
  <2> QED BY <2>1 DEF Unlisted
<1>6. LastOwner'
  <2>1. op \notin {"release", "release_remove"} /\ opTimer \in held
    BY DEF InitAdd, Timing, Places, Initialising, Returns, Idle
  <2>2. Owned(opTimer)
    BY <2>1 DEF Owned
  <2> QED BY <1>2, <1>3, <2>1, <2>2 DEF LastOwner
<1> QED BY <1>2, <1>4, <1>5, <1>6

LEMMA CancelRemoveRepeating ==
  ASSUME Timing, Repeating, CancelRemove
  PROVE  Repeating'
<1> USE DEF Repeating
<1>1. opTimer \in Timer /\ UNCHANGED <<mShutdown, events, timer, fired, held>> /\ RemoveTimer(opTimer)
  BY DEF CancelRemove, Timing, Places, TypeOK, exitVars, fireVars, Returns, Idle
<1>2. Neat' /\ (\A u \in Timer : Listed(u)' => Listed(u)) /\ \A u : u = opTimer => ~Listed(u)'
  BY <1>1, RemoveNeat
<1>3. \A u : Owned(u)' = Owned(u)
  BY <1>1, SameOwners
<1>4. NonePrecise'
  <2>1. mType' = mType /\ opType' \in {opType, "one_shot"}
    BY DEF CancelRemove, listVars, runVars, userVars, fireVars, exitVars, boundVars, Returns, Idle
  <2>2. thread' \in {thread, "notified"}
    BY <1>1 DEF AddTimer, RemoveTimer, TimerDelayChanged, Wakes
  <2> QED BY <2>1, <2>2 DEF NonePrecise
<1>5. Unlisted'
  <2>1. op' \in {"none", "wake"} /\ firing' \in {"no", "callback", "end"}
    BY DEF CancelRemove, Timing, Places, listVars, runVars, userVars, fireVars, exitVars, boundVars,
       Returns, Idle
  <2> QED BY <2>1 DEF Unlisted
<1>6. LastOwner'
  <2>1. op \notin {"release", "release_remove"} /\ opTimer \in held
    BY DEF CancelRemove, Timing, Places, Initialising, Returns, Idle
  <2>2. Owned(opTimer)
    BY <2>1 DEF Owned
  <2> QED BY <1>2, <1>3, <2>1, <2>2 DEF LastOwner
<1> QED BY <1>2, <1>4, <1>5, <1>6

LEMMA SetDelayChangedRepeating ==
  ASSUME Timing, Repeating, SetDelayChanged
  PROVE  Repeating'
<1> USE DEF Repeating
<1>1. opTimer \in Timer /\ UNCHANGED <<mShutdown, events, timer, fired, held>> /\ TimerDelayChanged(opTimer)
  BY DEF SetDelayChanged, Timing, Places, TypeOK, exitVars, fireVars, Returns, Idle
<1>2. Neat' /\ \A u \in Timer : Listed(u)' => Listed(u) \/ u = opTimer
  BY <1>1, ChangeNeat
<1>3. \A u : Owned(u)' = Owned(u)
  BY <1>1, SameOwners
<1>4. NonePrecise'
  <2>1. mType' = mType /\ opType' \in {opType, "one_shot"}
    BY DEF SetDelayChanged, listVars, runVars, userVars, fireVars, exitVars, boundVars, Returns, Idle
  <2>2. thread' \in {thread, "notified"}
    BY <1>1 DEF AddTimer, RemoveTimer, TimerDelayChanged, Wakes
  <2> QED BY <2>1, <2>2 DEF NonePrecise
<1>5. Unlisted'
  <2>1. op' \in {"none", "wake"} /\ firing' \in {"no", "callback", "end"}
    BY DEF SetDelayChanged, Timing, Places, listVars, runVars, userVars, fireVars, exitVars, boundVars,
       Returns, Idle
  <2> QED BY <2>1 DEF Unlisted
<1>6. LastOwner'
  <2>1. op \notin {"release", "release_remove"} /\ opTimer \in held
    BY DEF SetDelayChanged, Timing, Places, Initialising, Returns, Idle
  <2>2. Owned(opTimer)
    BY <2>1 DEF Owned
  <2> QED BY <1>2, <1>3, <2>1, <2>2 DEF LastOwner
<1> QED BY <1>2, <1>4, <1>5, <1>6

LEMMA ReleaseRemoveRepeating ==
  ASSUME Timing, Repeating, ReleaseRemove
  PROVE  Repeating'
<1> USE DEF Repeating
<1>1. opTimer \in Timer /\ UNCHANGED <<mShutdown, events, timer, fired, held>> /\ RemoveTimer(opTimer)
  BY DEF ReleaseRemove, Timing, Places, TypeOK, exitVars, fireVars, Returns, Idle
<1>2. Neat' /\ (\A u \in Timer : Listed(u)' => Listed(u)) /\ \A u : u = opTimer => ~Listed(u)'
  BY <1>1, RemoveNeat
<1>3. \A u : Owned(u)' = Owned(u)
  BY <1>1, SameOwners
<1>4. NonePrecise'
  <2>1. mType' = mType /\ opType' \in {opType, "one_shot"}
    BY DEF ReleaseRemove, listVars, runVars, userVars, fireVars, exitVars, boundVars, Returns, Idle
  <2>2. thread' \in {thread, "notified"}
    BY <1>1 DEF AddTimer, RemoveTimer, TimerDelayChanged, Wakes
  <2> QED BY <2>1, <2>2 DEF NonePrecise
<1>5. Unlisted'
  <2>1. op' \in {"none", "wake"} /\ firing' \in {"no", "callback", "end"}
    BY DEF ReleaseRemove, Timing, Places, listVars, runVars, userVars, fireVars, exitVars, boundVars,
       Returns, Idle
  <2> QED BY <2>1 DEF Unlisted
<1>6. LastOwner'
  <2>1. op = "release_remove"
    BY DEF ReleaseRemove, Returns
  <2> QED BY <1>2, <1>3, <2>1 DEF LastOwner
<1> QED BY <1>2, <1>4, <1>5, <1>6

LEMMA AfterSleepChangedRepeating ==
  ASSUME Timing, Repeating, AfterSleepChanged
  PROVE  Repeating'
<1> USE DEF Repeating
<1>1. opTimer \in Timer /\ UNCHANGED <<mShutdown, events, timer, fired, held>> /\ TimerDelayChanged(opTimer)
  BY DEF AfterSleepChanged, Timing, Places, TypeOK, exitVars, fireVars
<1>2. Neat' /\ \A u \in Timer : Listed(u)' => Listed(u) \/ u = opTimer
  BY <1>1, ChangeNeat
<1>3. \A u : Owned(u)' = Owned(u)
  BY <1>1, SameOwners
<1>4. NonePrecise'
  <2>1. mType' = mType /\ opType' \in {opType, "one_shot"}
    BY DEF AfterSleepChanged, listVars, runVars, userVars, fireVars, exitVars, boundVars
  <2>2. thread' \in {thread, "notified"}
    BY <1>1 DEF AddTimer, RemoveTimer, TimerDelayChanged, Wakes
  <2> QED BY <2>1, <2>2 DEF NonePrecise
<1>5. Unlisted'
  <2>1. op' \in {"none", "wake"} /\ firing' \in {"no", "callback", "end"}
    BY DEF AfterSleepChanged, Timing, Places, listVars, runVars, userVars, fireVars, exitVars, boundVars
  <2> QED BY <2>1 DEF Unlisted
<1>6. LastOwner'
  <2>1. op = "wake_changed"
    BY DEF AfterSleepChanged
  <2>2. Owned(opTimer)
    BY <1>1, <2>1 DEF Timing, Places, LastOwner, Owned
  <2> QED BY <1>2, <1>3, <2>1, <2>2 DEF LastOwner
<1> QED BY <1>2, <1>4, <1>5, <1>6

LEMMA FireAddRepeating ==
  ASSUME Timing, Repeating, FireAdd
  PROVE  Repeating'
<1> USE DEF Repeating
<1>1. fired \in Timer /\ UNCHANGED <<mShutdown, events, timer, fired, held>> /\ AddTimer(fired)
  BY DEF FireAdd, Timing, Places, TypeOK, exitVars, fireVars
<1>7. ~Listed(fired)
  BY DEF FireAdd, Unlisted
<1>2. Neat' /\ \A u \in Timer : Listed(u)' => Listed(u) \/ u = fired
  BY <1>1, <1>7, AddNeat
<1>3. \A u : Owned(u)' = Owned(u)
  BY <1>1, SameOwners
<1>4. NonePrecise'
  <2>1. mType' = mType /\ opType' \in {opType, "one_shot"}
    BY DEF FireAdd, listVars, runVars, userVars, fireVars, exitVars, boundVars
  <2>2. thread' \in {thread, "notified"}
    BY <1>1 DEF AddTimer, RemoveTimer, TimerDelayChanged, Wakes
  <2> QED BY <2>1, <2>2 DEF NonePrecise
<1>5. Unlisted'
  <2>1. op' \in {"none", "wake"} /\ firing' \in {"no", "callback", "end"}
    BY DEF FireAdd, Timing, Places, listVars, runVars, userVars, fireVars, exitVars, boundVars
  <2> QED BY <2>1 DEF Unlisted
<1>6. LastOwner'
  <2>1. op = "none"
    BY DEF FireAdd, Timing, Places
  <2>2. Owned(fired)
    BY DEF Owned
  <2> QED BY <1>2, <1>3, <2>1, <2>2 DEF LastOwner
<1> QED BY <1>2, <1>4, <1>5, <1>6

LEMMA RunRepeating ==
  ASSUME Timing, Repeating, Run
  PROVE  Repeating'
<1> USE DEF Repeating
<1>1. /\ UNCHANGED <<mShutdown, events, fired, held, firing, op, opTimer, opType, mType>>
      /\ Takes \/ Rests
  BY RunIs DEF userVars, fireVars
<1>2. NonePrecise'
  <2>1. thread' \in {"post", "waiting", "exit"}
    BY <1>1 DEF Takes, Rests
  <2> QED BY <1>1, <2>1 DEF NonePrecise
<1>3. CASE Takes
  <2>1. /\ Neat' /\ Head(mTimers) \in Timer
        /\ \A u \in Timer : (Listed(u)' => Listed(u)) /\ (Listed(u) => Listed(u)' \/ u = Head(mTimers))
    BY <1>1, <1>3, TakeNeat DEF Takes
  <2>2. timer = NoTimer
    BY <1>3 DEF Takes, Timing, Places, Handling
  <2>3. \A u \in Timer : Owned(u) => Owned(u)'
    BY <1>1, <2>2, NoTimerOut DEF Owned, Posted
  <2>4. Unlisted'
    <3>1. /\ op \in Initialising => opTimer \in Timer
          /\ firing = "add" => fired \in Timer
      BY DEF Timing, TypeOK, Places, Initialising
    <3> QED BY <1>1, <2>1, <3>1 DEF Unlisted, Initialising
  <2>5. LastOwner'
    BY <1>1, <2>1, <2>3 DEF LastOwner
  <2> QED BY <1>2, <2>1, <2>4, <2>5
<1>4. CASE Rests
  <2>1. UNCHANGED <<mTimers, mArmed, timer>>
    BY <1>4 DEF Rests, listVars
  <2>2. Neat' /\ \A u : Listed(u)' = Listed(u)
    BY <1>1, <2>1, SameNeat
  <2>3. \A u : Owned(u)' = Owned(u)
    BY <1>1, <2>1, SameOwners
  <2>4. Unlisted'
    BY <1>1, <2>2 DEF Unlisted
  <2>5. LastOwner'
    BY <1>1, <2>2, <2>3 DEF LastOwner
  <2> QED BY <1>2, <2>2, <2>4, <2>5
<1> QED BY <1>1, <1>3, <1>4

(* These steps are only for precise timers. *)
LEMMA NoPreciseStep ==
  ASSUME Repeating
  PROVE  ~PostAdd /\ ~PostFailed
BY DEF Repeating, NonePrecise, PostAdd, PostFailed

LEMMA PostDispatchRepeating ==
  ASSUME Timing, Repeating, PostDispatch
  PROVE  Repeating'
<1> USE DEF Repeating
<1>1. /\ UNCHANGED <<mTimers, mArmed, mShutdown, fired, held, firing, op, opTimer, opType, mType>>
      /\ thread' = "next" /\ timer' = NoTimer
      /\ events' = Append(events, [t |-> timer, gen |-> generation])
  BY DEF PostDispatch, listVars, userVars, fireVars
<1>2. Neat' /\ \A u : Listed(u)' = Listed(u)
  BY <1>1, SameNeat
<1>3. \A u : Contains(Posted, u) \/ u = timer => Contains(Posted', u)
  <2>1. /\ timer \in Timer /\ generation \in 0 .. MaxCalls
        /\ [t |-> timer, gen |-> generation] \in [t: Timer, gen: 0 .. MaxCalls]
    BY DEF PostDispatch, Timing, TypeOK, Places, Handling
  <2> QED BY <1>1, <2>1, PostedThen
<1>4. \A u : Owned(u) => Owned(u)'
  BY <1>1, <1>3 DEF Owned
<1>5. NonePrecise'
  BY <1>1 DEF NonePrecise
<1>6. Unlisted'
  BY <1>1, <1>2 DEF Unlisted
<1>7. LastOwner'
  BY <1>1, <1>2, <1>4 DEF LastOwner
<1> QED BY <1>2, <1>5, <1>6, <1>7

LEMMA ReleaseRepeating ==
  ASSUME Timing, Repeating, NEW t \in Timer, Release(t)
  PROVE  Repeating'
<1> USE DEF Repeating
<1>1. /\ UNCHANGED <<mTimers, mArmed, mShutdown, events, timer, fired, firing, thread, mType, opType>>
      /\ op = "none" /\ t \in held /\ held' = held \ {t} /\ Drop(t)
  BY DEF Release, MayCall, UserFree, Drop, Calling, runVars, fireVars, userVars
<1>2. Neat' /\ \A u : Listed(u)' = Listed(u)
  BY <1>1, SameNeat
<1>3. Posted' = Posted
  BY <1>1 DEF Posted
<1>4. op' \in {"none", "release"} /\ (mRefCnt[t] = 2 => op' = "release" /\ opTimer' = t)
  BY <1>1 DEF Drop, Calling, userVars
<1>5. NonePrecise'
  BY <1>1 DEF NonePrecise
<1>6. Unlisted'
  BY <1>1, <1>2, <1>4 DEF Unlisted
<1>7. LastOwner'
  <2> SUFFICES ASSUME NEW u \in Timer, Listed(u)
               PROVE  Owned(u)' \/ (op' \in {"release", "release_remove"} /\ opTimer' = u)
    BY <1>2 DEF LastOwner
  <2>1. Owned(u)
    BY <1>1 DEF LastOwner
  <2>2. CASE u # t \/ timer = u \/ fired = u \/ Contains(Posted, u)
    BY <1>1, <1>3, <2>1, <2>2 DEF Owned
  <2>3. CASE u = t /\ timer # u /\ fired # u /\ ~Contains(Posted, u)
    <3>1. mRefCnt[t] = 2
      BY <1>1, <2>3, OnlyTheListLeft
    <3> QED BY <1>4, <2>3, <3>1
  <2> QED BY <2>2, <2>3
<1> QED BY <1>2, <1>5, <1>6, <1>7

LEMMA EventDoneRepeating ==
  ASSUME Timing, Repeating, EventDone
  PROVE  Repeating'
<1> USE DEF Repeating
<1>1. /\ UNCHANGED <<mTimers, mArmed, mShutdown, events, timer, held, thread, mType, opType>>
      /\ firing = "end" /\ firing' = "no" /\ fired' = NoTimer /\ Drop(fired)
  BY DEF EventDone, Drop, Calling, runVars, userVars
<1>2. Neat' /\ \A u : Listed(u)' = Listed(u)
  BY <1>1, SameNeat
<1>3. Posted' = Posted
  BY <1>1 DEF Posted
<1>8. op = "none"
  BY <1>1 DEF Timing, Places
<1>4. op' \in {"none", "release"} /\ (mRefCnt[fired] = 2 => op' = "release" /\ opTimer' = fired)
  BY <1>1, <1>8 DEF Drop, Calling, userVars
<1>5. NonePrecise'
  BY <1>1 DEF NonePrecise
<1>6. Unlisted'
  BY <1>1, <1>2, <1>4 DEF Unlisted
<1>7. LastOwner'
  <2> SUFFICES ASSUME NEW u \in Timer, Listed(u)
               PROVE  Owned(u)' \/ (op' \in {"release", "release_remove"} /\ opTimer' = u)
    BY <1>2 DEF LastOwner
  <2>1. Owned(u)
    BY <1>8 DEF LastOwner
  <2>2. CASE u # fired \/ timer = u \/ u \in held \/ Contains(Posted, u)
    BY <1>1, <1>3, <2>1, <2>2 DEF Owned
  <2>3. CASE u = fired /\ timer # u /\ u \notin held /\ ~Contains(Posted, u)
    <3>1. mRefCnt[fired] = 2
      BY <2>3, OnlyTheListLeft
    <3> QED BY <1>4, <2>3, <3>1
  <2> QED BY <2>2, <2>3
<1> QED BY <1>2, <1>5, <1>6, <1>7

LEMMA FireRepeating ==
  ASSUME Timing, Repeating, Fire
  PROVE  Repeating'
<1> USE DEF Repeating
<1>1. /\ UNCHANGED <<mTimers, mArmed, mShutdown, timer, held, thread, mType, op, opTimer, opType>>
      /\ events # <<>> /\ events' = Tail(events) /\ fired' = Head(events).t
      /\ firing = "no" /\ firing' # "add" /\ op = "none"
  BY DEF Fire, UserFree, listVars, runVars, userVars
<1>2. Neat' /\ \A u : Listed(u)' = Listed(u)
  BY <1>1, SameNeat
<1>3. \A u : Contains(Posted, u) => u = fired' \/ Contains(Posted', u)
  BY <1>1, UnpostedThen
<1>4. fired = NoTimer
  BY <1>1 DEF Timing, Places
<1>5. NonePrecise'
  BY <1>1 DEF NonePrecise
<1>6. Unlisted'
  BY <1>1, <1>2 DEF Unlisted
<1>7. LastOwner'
  <2>1. \A u \in Timer : Owned(u) => Owned(u)'
    BY <1>1, <1>3, <1>4, NoTimerOut DEF Owned
  <2> QED BY <1>1, <1>2, <2>1 DEF LastOwner
<1> QED BY <1>2, <1>5, <1>6, <1>7

LEMMA ShutdownRepeating ==
  ASSUME Timing, Repeating, Shutdown
  PROVE  Repeating'
<1> USE DEF Repeating
<1>1. /\ mTimers' = <<>> /\ mShutdown' /\ thread' \in {thread, "notified"} /\ mType' = mType /\ opType' = opType
  BY DEF Shutdown, Wakes, userVars
<1>2. \A u : ~Listed(u)' /\ Occ(mTimers', u) = 0
  BY <1>1, OccEmpty DEF Listed
<1>3. Neat'
  BY <1>1, <1>2 DEF Neat, ArmedMeansListed
<1>4. NonePrecise'
  BY <1>1 DEF NonePrecise
<1> QED BY <1>2, <1>3, <1>4 DEF Unlisted, LastOwner

LEMMA ShutdownReleaseRepeating ==
  ASSUME Timing, Repeating, ShutdownRelease
  PROVE  Repeating'
<1> USE DEF Repeating
<1>1. /\ mTimers' = <<>> /\ mShutdown' /\ thread' = thread /\ mType' = mType /\ opType' = opType
  BY DEF ShutdownRelease, Timing, Places, runVars, userVars
<1>2. \A u : ~Listed(u)' /\ Occ(mTimers', u) = 0
  BY <1>1, OccEmpty DEF Listed
<1>3. Neat'
  BY <1>1, <1>2 DEF Neat, ArmedMeansListed
<1>4. NonePrecise'
  BY <1>1 DEF NonePrecise
<1> QED BY <1>2, <1>3, <1>4 DEF Unlisted, LastOwner

LEMMA InitRepeating == Init => Repeating
<1> SUFFICES ASSUME Init PROVE Repeating
  OBVIOUS
<1>1. \A u : ~Listed(u) /\ Occ(mTimers, u) = 0
  BY OccEmpty DEF Init, Listed
<1>2. NonePrecise
  BY DEF Init, NonePrecise
<1>3. Neat
  BY <1>1 DEF Init, Neat, ArmedMeansListed
<1> QED BY <1>1, <1>2, <1>3 DEF Repeating, Unlisted, LastOwner

LEMMA NextRepeating ==
  ASSUME "precise" \notin Types
  PROVE  Timing /\ Repeating /\ [Next]_vars => Repeating'
<1> SUFFICES ASSUME Timing, Repeating, [Next]_vars PROVE Repeating'
  OBVIOUS
<1>1. CASE Tick
  BY <1>1, TickRepeating
<1>2. CASE ThreadStep
  BY <1>2, RunRepeating, WakeUpRepeating, PostTimerEventRepeating, PostPreciseRepeating, NoPreciseStep,
     PostDispatchRepeating DEF ThreadStep
<1>3. CASE CallStep
  BY <1>3, InitRemoveRepeating, InitGenerationRepeating, InitDelayRepeating, InitAddRepeating,
     CancelRemoveRepeating, SetDelayChangedRepeating, ReleaseTestRepeating, ReleaseRemoveRepeating,
     AfterSleepNextRepeating, AfterSleepChangedRepeating, ShutdownReleaseRepeating,
     ShutdownJoinedRepeating DEF CallStep
<1>4. CASE FireStep
  BY <1>4, FireRepeating, FireReturnsRepeating, FireAddRepeating, EventDoneRepeating DEF FireStep
<1>5. CASE UserCall
  BY <1>5, InitTimerRepeating, SetDelayRepeating, CancelRepeating, ReleaseRepeating,
     DoBeforeSleepRepeating, DoAfterSleepRepeating, ShutdownRepeating DEF UserCall
<1>6. CASE UNCHANGED vars
  <2>1. UNCHANGED <<mTimers, mArmed, mShutdown, events, timer, fired, held, op, opTimer, opType, mType,
                    thread, firing>>
    BY <1>6 DEF vars, listVars, runVars, fireVars, userVars
  <2>2. Neat' /\ \A u : Listed(u)' = Listed(u)
    BY <2>1, SameNeat DEF Repeating
  <2>3. \A u : Owned(u)' = Owned(u)
    BY <2>1, SameOwners
  <2> QED BY <2>1, <2>2, <2>3 DEF Repeating, NonePrecise, Unlisted, LastOwner
<1> QED BY <1>1, <1>2, <1>3, <1>4, <1>5, <1>6 DEF Next

(* mArmed, which InitCommon, Release and Fire test outside                 *)
(* TimerThread::mLock, says whether the timer is in the list, for one-shot *)
(* timers and repeating ones with slack, with all calls and with sleep     *)
(* notifications.                                                          *)
THEOREM ArmedTimersListed ==
  ASSUME "precise" \notin Types
  PROVE  Spec => []ArmedMeansListed
<1>1. Timing /\ Repeating /\ [Next]_vars => Repeating'
  BY NextRepeating
<1>2. Repeating => ArmedMeansListed
  BY DEF Repeating, Neat
<1> QED BY <1>1, <1>2, InitRepeating, AlwaysTiming, PTL DEF Spec

LEMMA RepeatingSafe ==
  ASSUME Timing, Repeating
  PROVE  ReleasedTimersGo
<1> SUFFICES ASSUME NEW t \in Timer, op = "none", t \notin held \cup {timer, fired},
                    \A i \in DOMAIN events : events[i].t # t
             PROVE  ~Listed(t)
  BY DEF ReleasedTimersGo
<1>1. ~Contains(Posted, t)
  <2>1. events \in Seq([t: Timer, gen: 0 .. MaxCalls]) /\ TypeOK
    BY DEF Timing, TypeOK
  <2>2. Posted \in Seq(Timer) /\ Len(Posted) = Len(events) /\ \A i \in 1 .. Len(events) : Posted[i] = events[i].t
    BY <2>1, PostedType
  <2> QED BY <2>1, <2>2 DEF Contains
<1> QED BY <1>1 DEF Repeating, LastOwner, Owned

(* nsTimerImpl::Release takes the timer out of the list when nobody but    *)
(* the list has a reference: such a timer never stays there.  (For timers  *)
(* that are not precise, as above: Release looks for a count of 1, and a   *)
(* timer that is in the list twice has 2.)                                 *)
THEOREM ReleasedLeaveTheList ==
  ASSUME "precise" \notin Types
  PROVE  Spec => []ReleasedTimersGo
<1>1. Timing /\ Repeating /\ [Next]_vars => Repeating'
  BY NextRepeating
<1>2. Timing /\ Repeating => ReleasedTimersGo
  BY RepeatingSafe
<1> QED BY <1>1, <1>2, InitRepeating, AlwaysTiming, PTL DEF Spec
--------------------------------------------------------------------------------
(* Adding multiples of n does not change the remainder. *)
LEMMA Remainder ==
  ASSUME NEW n \in Nat, n > 0, NEW q \in Int, NEW r \in 0 .. n - 1
  PROVE  (q * n + r) % n = r
<1> DEFINE a == q * n + r
           d == a \div n
           m == a % n
<1>1. d \in Int /\ m \in 0 .. n - 1 /\ a = n * d + m /\ a \in Int
  OBVIOUS
<1>2. n * (q - d) = m - r
  BY <1>1
<1> HIDE DEF a, d, m
<1>3. CASE q - d >= 1
  <2>1. \E k \in Nat : q - d = k + 1
    <3>1. q - d - 1 \in Nat /\ q - d = (q - d - 1) + 1
      BY <1>1, <1>3
    <3> QED BY <3>1
  <2>2. PICK k \in Nat : q - d = k + 1
    BY <2>1
  <2>4. n * (k + 1) = n * k + n /\ n * k >= 0
    OBVIOUS
  <2> QED BY <1>1, <1>2, <2>2, <2>4
<1>4. CASE q - d <= -1
  <2>1. \E k \in Nat : q - d = - k - 1
    <3>1. d - q - 1 \in Nat /\ q - d = - (d - q - 1) - 1
      BY <1>1, <1>4
    <3> QED BY <3>1
  <2>2. PICK k \in Nat : q - d = -k - 1
    BY <2>1
  <2>4. n * (-k - 1) = -(n * k) - n /\ n * k >= 0
    OBVIOUS
  <2> QED BY <1>1, <1>2, <2>2, <2>4
<1>5. CASE q - d = 0
  <2>1. m = r
    BY <1>1, <1>2, <1>5
  <2> QED BY <2>1 DEF a, m
<1> QED BY <1>1, <1>3, <1>4, <1>5

(* TIMER_LESS_THAN of two times that are less than half the domain of      *)
(* PRIntervalTime apart is their order, wherever the clock wraps.          *)
LEMMA LessThanIs ==
  ASSUME NEW a \in Nat, NEW b \in Nat, b <= a + MaxDelay, a <= b + Limit
  PROVE  LessThan(a, b) <=> a < b
<1>1. /\ Interval \in Nat /\ Interval > 0 /\ Limit \in Nat \ {0} /\ 2 * Limit <= Interval
      /\ MaxDelay + 1 = Limit /\ Never \in Nat /\ MaxDelay \in Nat
  BY Limits
<1>2. CASE a < b
  <2> DEFINE r == Interval - (b - a)
  <2>1. r \in 0 .. Interval - 1 /\ r > Limit
    BY <1>1, <1>2
  <2>2. Never - 1 \in Int /\ a + Interval * Never - b = (Never - 1) * Interval + r
    BY <1>1
  <2> HIDE DEF r
  <2>3. ((Never - 1) * Interval + r) % Interval = r
    BY <1>1, <2>1, <2>2, Remainder
  <2> QED BY <1>2, <2>1, <2>2, <2>3 DEF LessThan
<1>3. CASE ~(a < b)
  <2> DEFINE r == a - b
  <2>1. r \in 0 .. Interval - 1 /\ ~(r > Limit)
    BY <1>1, <1>3
  <2>2. Never \in Int /\ a + Interval * Never - b = Never * Interval + r
    BY <1>1
  <2> HIDE DEF r
  <2>3. (Never * Interval + r) % Interval = r
    BY <1>1, <2>1, <2>2, Remainder
  <2> QED BY <1>3, <2>1, <2>2, <2>3 DEF LessThan
<1> QED BY <1>2, <1>3

LEMMA DeadlineOf ==
  ASSUME TypeOK, Deadlines, NEW u \in Timer
  PROVE  /\ now \in Nat /\ Start <= now /\ now <= MaxTime /\ mTimeout[u] \in Nat
         /\ mTimeout[u] <= now + MaxDelay
         /\ Listed(u) \/ Pending(u) => mTimeout[u] >= Start
BY Limits DEF TypeOK, Deadlines

(* The two comparisons of AddTimerInternal are right even when the clock   *)
(* has wrapped.                                                            *)
LEMMA DueIs ==
  ASSUME TypeOK, Deadlines, NEW u \in Timer, Listed(u)
  PROVE  LessThan(now, mTimeout[u]) <=> now < mTimeout[u]
<1>1. /\ now \in Nat /\ Start <= now /\ now <= MaxTime /\ mTimeout[u] \in Nat
      /\ mTimeout[u] <= now + MaxDelay /\ mTimeout[u] >= Start
  BY DeadlineOf
<1>2. now <= mTimeout[u] + Limit
  BY <1>1, Limits
<1> QED BY <1>1, <1>2, LessThanIs

LEMMA LaterIs ==
  ASSUME TypeOK, Deadlines, NEW t \in Timer, NEW u \in Timer, Pending(t), Listed(u)
  PROVE  Later(t, u) <=> now < mTimeout[u] /\ mTimeout[t] < mTimeout[u]
<1>1. LessThan(now, mTimeout[u]) <=> now < mTimeout[u]
  BY DueIs
<1>2. ASSUME now < mTimeout[u] PROVE LessThan(mTimeout[t], mTimeout[u]) <=> mTimeout[t] < mTimeout[u]
  <2>1. /\ now \in Nat /\ mTimeout[u] \in Nat /\ mTimeout[t] \in Nat /\ mTimeout[t] <= now + MaxDelay
    BY DeadlineOf
  <2>2. mTimeout[u] <= mTimeout[t] + MaxDelay
    BY DEF Deadlines
  <2>3. mTimeout[t] <= mTimeout[u] + Limit
    BY <1>2, <2>1, Limits
  <2> QED BY <2>1, <2>2, <2>3, LessThanIs
<1> QED BY <1>1, <1>2 DEF Later

(* A list stays in order when a timer is taken out, and when one is put in *)
(* where AddTimerInternal puts it.                                         *)
LEMMA NarrowedInOrder ==
  ASSUME NEW s \in Seq(Timer), NEW r \in Seq(Timer), NEW p, NEW e, NEW C,
         Widened(r, s, p, e), InOrder(r, C)
  PROVE  InOrder(s, C)
<1> DEFINE f(i) == IF i < p THEN i ELSE i + 1
<1>1. Len(s) \in Nat /\ Len(r) = Len(s) + 1 /\ p \in 1 .. Len(s) + 1
  BY DEF Widened
<1>2. \A i \in 1 .. Len(s) : f(i) \in 1 .. Len(r) /\ s[i] = r[f(i)]
  BY <1>1 DEF Widened
<1>3. \A i, j \in 1 .. Len(s) : i < j => f(i) < f(j)
  BY <1>1
<1> HIDE DEF f
<1> QED BY <1>2, <1>3 DEF InOrder

LEMMA AddedInOrder ==
  ASSUME TypeOK, Deadlines, NEW t \in Timer, Pending(t), NEW s \in Seq(Timer), InOrder(s, {}),
         \A i \in 1 .. Len(s) : Listed(s[i])
  PROVE  InOrder(Added(s, t), {})
<1> DEFINE p == Position(s, t)
           r == Added(s, t)
<1>1. Len(s) \in Nat /\ r \in Seq(Timer) /\ Widened(r, s, p, t) /\ \A i \in 1 .. Len(s) : s[i] \in Timer
  BY AddedIs
<1>2. /\ p \in 1 .. Len(s) + 1
      /\ \A i \in 1 .. Len(s) : i < p => ~(now < mTimeout[s[i]] /\ mTimeout[t] < mTimeout[s[i]])
      /\ p <= Len(s) => now < mTimeout[s[p]] /\ mTimeout[t] < mTimeout[s[p]]
  <2>1. \A i \in 1 .. Len(s) : Later(t, s[i]) <=> now < mTimeout[s[i]] /\ mTimeout[t] < mTimeout[s[i]]
    BY <1>1, LaterIs
  <2>2. /\ p \in 1 .. Len(s) + 1
        /\ \A i \in 1 .. Len(s) : i < p => ~Later(t, s[i])
        /\ p <= Len(s) => Later(t, s[p])
    BY PositionIs
  <2> QED BY <1>1, <2>1, <2>2
<1>3. mTimeout \in [Timer -> Nat] /\ now \in Nat
  BY DeadlineOf DEF TypeOK
<1> HIDE DEF p, r
<1>4. Len(r) = Len(s) + 1 /\ r[p] = t /\ \A i \in 1 .. Len(s) : s[i] = IF i < p THEN r[i] ELSE r[i + 1]
  BY <1>1 DEF Widened
<1>5. ASSUME NEW i \in 1 .. Len(r), NEW j \in 1 .. Len(r), i < j, now < mTimeout[r[i]]
      PROVE  mTimeout[r[i]] <= mTimeout[r[j]]
  <2>1. \A k \in 1 .. Len(r) : /\ k < p => k \in 1 .. Len(s) /\ r[k] = s[k]
                               /\ k > p => k - 1 \in 1 .. Len(s) /\ k - 1 >= p /\ r[k] = s[k - 1]
    BY <1>1, <1>2, <1>4
  <2>2. CASE i = p
    <3>1. j - 1 \in 1 .. Len(s) /\ p <= j - 1 /\ r[j] = s[j - 1] /\ p \in 1 .. Len(s)
      BY <1>1, <1>2, <1>4, <1>5, <2>1, <2>2
    <3>2. mTimeout[s[p]] <= mTimeout[s[j - 1]]
      <4>1. CASE p = j - 1
        BY <1>1, <1>3, <3>1, <4>1
      <4>2. CASE p # j - 1
        BY <1>1, <1>2, <3>1, <4>2 DEF InOrder
      <4> QED BY <4>1, <4>2
    <3>3. mTimeout[t] \in Nat /\ mTimeout[s[p]] \in Nat /\ mTimeout[s[j - 1]] \in Nat
      BY <1>1, <1>3, <3>1
    <3> QED BY <1>2, <1>4, <2>2, <3>1, <3>2, <3>3
  <2>3. CASE j = p
    <3>1. i \in 1 .. Len(s) /\ r[i] = s[i] /\ i < p
      BY <1>1, <1>2, <1>4, <1>5, <2>1, <2>3
    <3>2. mTimeout[t] \in Nat /\ mTimeout[s[i]] \in Nat
      BY <1>1, <1>3, <3>1
    <3> QED BY <1>2, <1>4, <1>5, <2>3, <3>1, <3>2
  <2>4. CASE i # p /\ j # p
    <3>1. PICK k \in 1 .. Len(s), l \in 1 .. Len(s) : r[i] = s[k] /\ r[j] = s[l] /\ k < l
      <4>1. CASE i < p /\ j < p
        BY <1>1, <1>2, <1>4, <1>5, <2>1, <4>1
      <4>2. CASE i < p /\ j > p
        <5>1. i < j - 1
          BY <1>1, <1>2, <4>2
        <5>2. i \in 1 .. Len(s) /\ r[i] = s[i]
          BY <1>1, <1>2, <1>4, <2>1, <4>2
        <5>3. j - 1 \in 1 .. Len(s) /\ r[j] = s[j - 1]
          BY <1>1, <1>2, <1>4, <2>1, <4>2
        <5> QED BY <5>1, <5>2, <5>3
      <4>3. CASE i > p /\ j > p
        <5>1. i - 1 < j - 1
          BY <1>5
        <5> QED BY <1>1, <1>2, <1>4, <2>1, <4>3, <5>1
      <4> QED BY <1>1, <1>2, <1>4, <1>5, <2>4, <4>1, <4>2, <4>3
    <3> QED BY <1>5, <3>1 DEF InOrder
  <2> QED BY <2>2, <2>3, <2>4
<1> QED BY <1>5 DEF InOrder, r

(* What the steps do to the order: nothing, one timer fewer, one more, a   *)
(* new deadline for a timer that is not in the list or will be moved.      *)
LEMMA SameSorted ==
  ASSUME TypeOK, Sorted, mTimers' = mTimers, mTimeout' = mTimeout, now' \in Nat, now <= now',
         Changing' = Changing, \A u : Pending(u)' => Pending(u), op' # "delay"
  PROVE  Sorted'
<1>1. mTimeout \in [Timer -> Nat] /\ mTimers \in Seq(Timer) /\ now \in Nat /\ MaxDelay \in Nat
  BY Limits DEF TypeOK
<1>2. \A u : Listed(u)' = Listed(u)
  BY DEF Listed
<1>3. Deadlines'
  BY <1>1, <1>2 DEF Sorted, Deadlines
<1>4. InOrder(mTimers, Changing)'
  <2>1. \A i \in 1 .. Len(mTimers) : mTimeout[mTimers[i]] \in Nat
    BY <1>1
  <2> QED BY <1>1, <2>1 DEF Sorted, InOrder
<1> QED BY <1>3, <1>4 DEF Sorted

LEMMA FewerSorted ==
  ASSUME TypeOK, Sorted, mTimers' \in Seq(Timer),
         \E p, e : Widened(mTimers, mTimers', p, e), \A u \in Timer : Listed(u)' => Listed(u),
         mTimeout' = mTimeout, now' = now,
         Changing' = Changing, \A u : Pending(u)' => Pending(u), op' # "delay"
  PROVE  Sorted'
<1>1. mTimers \in Seq(Timer)
  BY DEF TypeOK
<1>2. Deadlines'
  BY DEF Sorted, Deadlines
<1>3. InOrder(mTimers', Changing)
  BY <1>1, NarrowedInOrder DEF Sorted
<1>4. InOrder(mTimers, Changing)'
  BY <1>3 DEF InOrder
<1> QED BY <1>2, <1>4 DEF Sorted

LEMMA AddSorted ==
  ASSUME TypeOK, Sorted, NEW t \in Timer, Pending(t), AddTimer(t),
         mTimeout' = mTimeout, now' = now,
         Changing = {}, Changing' = {}, \A u : Pending(u)' => Pending(u), op' # "delay"
  PROVE  Sorted'
<1>1. mTimers \in Seq(Timer) /\ \A i \in 1 .. Len(mTimers) : Listed(mTimers[i])
  BY DEF TypeOK, Listed, Contains
<1>2. CASE mShutdown
  <2>1. mTimers' = mTimers
    BY <1>2 DEF AddTimer, listVars
  <2>2. now \in Nat /\ now <= now /\ Changing' = Changing
    BY Limits DEF TypeOK
  <2> QED BY <2>1, <2>2, SameSorted
<1>3. CASE ~mShutdown
  <2>1. mTimers' = Added(mTimers, t)
    BY <1>3 DEF AddTimer
  <2>2. InOrder(mTimers', {})
    BY <1>1, <2>1, AddedInOrder DEF Sorted
  <2>3. InOrder(mTimers, Changing)'
    BY <2>2 DEF InOrder
  <2>4. \A u \in Timer : Listed(u)' => Listed(u) \/ u = t
    <3> TAKE u \in Timer
    <3>1. Occ(mTimers', u) = Occ(mTimers, u) + One(t = u) /\ mTimers' \in Seq(Timer)
      BY <1>1, <2>1, AddedIs
    <3>2. /\ Occ(mTimers, u) \in Nat /\ (Contains(mTimers, u) <=> Occ(mTimers, u) # 0)
          /\ Contains(mTimers', u) <=> Occ(mTimers', u) # 0
      BY <1>1, <3>1, ListedOcc
    <3> QED BY <3>1, <3>2 DEF One, Listed
  <2>5. Deadlines'
    BY <2>4 DEF Sorted, Deadlines
  <2> QED BY <2>3, <2>5 DEF Sorted
<1> QED BY <1>2, <1>3

LEMMA SetSorted ==
  ASSUME TypeOK, TypeOK', Sorted, NEW t \in Timer, mTimers' = mTimers, now' = now,
         \A u \in Timer : u # t => mTimeout'[u] = mTimeout[u],
         mTimeout'[t] \in now .. now + MaxDelay,
         Changing = {}, ~Listed(t) \/ Changing' = {t}, Changing' \subseteq {t},
         \A u : Pending(u)' => u = t, op' # "delay"
  PROVE  Sorted'
<1>1. /\ mTimeout \in [Timer -> Nat] /\ mTimeout' \in [Timer -> Nat] /\ mTimers \in Seq(Timer)
      /\ now \in Nat /\ MaxDelay \in Nat /\ Start <= now /\ Start \in Nat
  <2>1. mTimeout \in [Timer -> Nat] /\ mTimers \in Seq(Timer) /\ now \in Start .. MaxTime
    BY DEF TypeOK
  <2>2. mTimeout' \in [Timer -> Nat]
    BY DEF TypeOK
  <2> QED BY <2>1, <2>2, Limits
<1>2. \A u : Listed(u)' = Listed(u)
  BY DEF Listed
<1>3. \A u \in Timer : mTimeout'[u] <= now + MaxDelay /\ (Listed(u) \/ u = t => mTimeout'[u] >= Start)
  BY <1>1 DEF Sorted, Deadlines
<1>4. Deadlines'
  <2>1. \A u \in Timer : mTimeout'[u] <= mTimeout'[t] + MaxDelay
    <3> TAKE u \in Timer
    <3>1. mTimeout'[u] <= now + MaxDelay /\ mTimeout'[u] \in Nat /\ mTimeout'[t] \in Nat /\ now <= mTimeout'[t]
      BY <1>1, <1>3
    <3> QED BY <1>1, <3>1
  <2> QED BY <1>2, <1>3, <2>1 DEF Deadlines
<1>5. InOrder(mTimers, Changing)'
  <2>1. \A i \in 1 .. Len(mTimers) : /\ mTimers[i] \in Timer
                                     /\ mTimers[i] \notin Changing' => mTimers[i] # t
    BY <1>1 DEF Listed, Contains
  <2>2. InOrder(mTimers, {})
    BY DEF Sorted
  <2> SUFFICES ASSUME NEW i \in 1 .. Len(mTimers), NEW j \in 1 .. Len(mTimers), i < j,
                      mTimers[i] \notin Changing', mTimers[j] \notin Changing',
                      now < mTimeout'[mTimers[i]]
               PROVE  mTimeout'[mTimers[i]] <= mTimeout'[mTimers[j]]
    BY DEF InOrder
  <2>3. mTimeout'[mTimers[i]] = mTimeout[mTimers[i]] /\ mTimeout'[mTimers[j]] = mTimeout[mTimers[j]]
    <3>1. /\ mTimers[i] \in Timer /\ mTimers[i] # t
          /\ mTimers[j] \in Timer /\ mTimers[j] # t
      BY <2>1
    <3> QED BY <3>1
  <2> QED BY <2>2, <2>3 DEF InOrder
<1> QED BY <1>4, <1>5 DEF Sorted

LEMMA QuietSorted ==
  ASSUME Timing, Sorted, UNCHANGED <<mTimers, mTimeout>>, now' \in {now, now + 1},
         UNCHANGED <<op, opTimer>> \/ (op # "wake_changed" /\ op' \notin {"init_add", "delay", "wake_changed"}),
         UNCHANGED <<firing, fired>> \/ firing' # "add"
  PROVE  Sorted'
<1>1. TypeOK /\ mTimers' = mTimers /\ mTimeout' = mTimeout
  BY DEF Timing
<1>2. now \in Nat
  BY Limits DEF Timing, TypeOK
<1>3. now' \in Nat /\ now <= now'
  BY <1>2
<1>4. op' # "delay" /\ Changing' = Changing /\ \A u : Pending(u)' => Pending(u)
  BY DEF Sorted, Changing, Pending
<1> QED BY <1>1, <1>3, <1>4, SameSorted

(* The deadline of a timer that is not precise counts from now. *)
LEMMA DelayOf ==
  ASSUME Timing, NEW t \in Timer, NEW type, type # "precise", NEW base, NEW d \in Nat,
         SetDelayInternal(t, type, base, d)
  PROVE  /\ \A u \in Timer : u # t => mTimeout'[u] = mTimeout[u]
         /\ mTimeout'[t] \in now .. now + MaxDelay
<1>1. mTimeout \in [Timer -> Nat] /\ now \in Nat
  BY Limits DEF Timing, TypeOK
<1>2. mTimeout' = [mTimeout EXCEPT ![t] = Capped(d) + now]
  BY DEF SetDelayInternal
<1>3. Capped(d) \in 0 .. MaxDelay /\ MaxDelay \in Nat
  BY Limits DEF Capped
<1> QED BY <1>1, <1>2, <1>3

(* The actions that set deadlines, ... *)
LEMMA InitDelaySorted ==
  ASSUME Timing, Timing', Repeating, Sorted, InitDelay
  PROVE  Sorted'
<1>1. /\ op = "init_delay" /\ op' = "init_add" /\ opTimer' = opTimer
      /\ UNCHANGED <<mTimers, now, firing, fired>>
      /\ SetDelayInternal(opTimer, opType, mTimeout[opTimer], opDelay)
  BY DEF InitDelay, Goes, listVars, fireVars
<1>2. opTimer \in Timer /\ opDelay \in Nat /\ firing # "add"
  BY <1>1 DEF Timing, TypeOK, Places, Initialising
<1>3. ~Listed(opTimer) /\ opType # "precise"
  BY <1>1 DEF Repeating, Unlisted, NonePrecise
<1>4. /\ \A u \in Timer : u # opTimer => mTimeout'[u] = mTimeout[u]
      /\ mTimeout'[opTimer] \in now .. now + MaxDelay
  BY <1>1, <1>2, <1>3, DelayOf
<1>5. Changing = {} /\ Changing' = {} /\ \A u : Pending(u)' => u = opTimer
  BY <1>1, <1>2 DEF Changing, Pending
<1>6. TypeOK /\ TypeOK' /\ op' # "delay"
  BY <1>1 DEF Timing
<1> QED BY <1>1, <1>2, <1>3, <1>4, <1>5, <1>6, SetSorted

LEMMA FireReturnsSorted ==
  ASSUME Timing, Timing', Repeating, Sorted, FireReturns
  PROVE  Sorted'
<1>1. /\ op = "none" /\ op' = op /\ opTimer' = opTimer /\ fired' = fired
      /\ UNCHANGED <<mTimers, now>> /\ firing \in {"callback", "nothing"}
      /\ \/ firing' = "end" /\ mTimeout' = mTimeout
         \/ /\ firing' = "add" /\ ~mArmed[fired]
            /\ SetDelayInternal(fired, "slack", mTimeout[fired], mDelay[fired])
  BY DEF FireReturns, UserFree, userVars, listVars
<1>2. CASE firing' = "end" /\ mTimeout' = mTimeout
  BY <1>1, <1>2, QuietSorted
<1>3. CASE firing' = "add" /\ ~mArmed[fired] /\ SetDelayInternal(fired, "slack", mTimeout[fired], mDelay[fired])
  <2>1. fired \in Timer /\ mDelay \in [Timer -> 0 .. MaxDelay]
    BY <1>1 DEF Timing, TypeOK, Places
  <2>2. mDelay[fired] \in Nat
    BY <2>1, Limits
  <2>3. ~Listed(fired)
    BY <1>3, <2>1, ArmedTest DEF Repeating
  <2>4. /\ \A u \in Timer : u # fired => mTimeout'[u] = mTimeout[u]
        /\ mTimeout'[fired] \in now .. now + MaxDelay
    BY <1>3, <2>1, <2>2, DelayOf
  <2>5. Changing = {} /\ Changing' = {} /\ \A u : Pending(u)' => u = fired
    BY <1>1 DEF Changing, Pending
  <2>6. TypeOK /\ TypeOK' /\ op' # "delay"
    BY <1>1 DEF Timing
  <2> QED BY <1>1, <2>1, <2>3, <2>4, <2>5, <2>6, SetSorted
<1> QED BY <1>1, <1>2, <1>3

LEMMA AfterSleepNextSorted ==
  ASSUME Timing, Timing', Repeating, Sorted, AfterSleepNext
  PROVE  Sorted'
<1> DEFINE x == mTimers[opIndex]
<1>1. /\ op = "wake" /\ UNCHANGED <<mTimers, now, firing, fired>>
  BY DEF AfterSleepNext, listVars, fireVars
<1>2. CASE opIndex > Len(mTimers)
  <2>1. op' = "none" /\ mTimeout' = mTimeout
    BY <1>2 DEF AfterSleepNext, Idle
  <2> QED BY <1>1, <2>1, QuietSorted
<1>3. CASE ~(opIndex > Len(mTimers)) /\ Unset(x)
  <2>1. op' = op /\ opTimer' = opTimer /\ mTimeout' = mTimeout
    BY <1>3 DEF AfterSleepNext
  <2> QED BY <1>1, <2>1, QuietSorted
<1>4. CASE ~(opIndex > Len(mTimers)) /\ ~Unset(x)
  <2>1. op' = "wake_changed" /\ opTimer' = x /\ SetDelayFields(x, mDelay[x])
    BY <1>4 DEF AfterSleepNext, Calling
  <2>2. x \in Timer /\ mDelay[x] \in 0 .. MaxDelay /\ firing # "add"
    <3>1. opIndex \in Nat /\ opIndex # 0 /\ mTimers \in Seq(Timer)
      BY <1>1 DEF Timing, TypeOK, Places
    <3>2. opIndex \in 1 .. Len(mTimers)
      BY <1>4, <3>1, LenProperties
    <3>3. x \in Timer
      BY <3>1, <3>2
    <3>4. mDelay \in [Timer -> 0 .. MaxDelay] /\ firing # "add"
      BY <1>1 DEF Timing, TypeOK, Places
    <3> QED BY <3>3, <3>4
  <2>3. mDelay[x] \in Nat /\ mType[x] # "precise"
    BY <2>2, Limits DEF Repeating, NonePrecise
  <2> HIDE DEF x
  <2>4. /\ \A u \in Timer : u # x => mTimeout'[u] = mTimeout[u]
        /\ mTimeout'[x] \in now .. now + MaxDelay
    BY <2>1, <2>2, <2>3, DelayOf DEF SetDelayFields
  <2>5. Changing = {} /\ Changing' = {x} /\ \A u : Pending(u)' => u = x
    BY <1>1, <2>1, <2>2 DEF Changing, Pending
  <2>6. TypeOK /\ TypeOK' /\ op' # "delay"
    BY <2>1 DEF Timing
  <2> QED BY <1>1, <2>2, <2>4, <2>5, <2>6, SetSorted
<1> QED BY <1>2, <1>3, <1>4

(* ... and those that change the list. *)
LEMMA RemoveSorted ==
  ASSUME Timing, Repeating, Sorted, NEW t \in Timer, RemoveTimer(t), UNCHANGED <<now, mTimeout, mShutdown, firing, fired>>,
         op # "wake_changed", op' \notin {"init_add", "delay", "wake_changed"}
  PROVE  Sorted'
<1>1. mTimers \in Seq(Timer) /\ TypeOK
  BY DEF Timing, TypeOK
<1>2. CASE ~Contains(mTimers, t)
  <2>1. mTimers' = mTimers
    BY <1>2 DEF RemoveTimer, listVars
  <2> QED BY <2>1, QuietSorted
<1>3. CASE Contains(mTimers, t)
  <2>1. mTimers' = RemoveFirst(mTimers, t)
    BY <1>3 DEF RemoveTimer
  <2>2. mTimers' \in Seq(Timer) /\ \E p, e : Widened(mTimers, mTimers', p, e)
    BY <1>1, <1>3, <2>1, RemoveWidens
  <2>3. \A u \in Timer : Listed(u)' => Listed(u)
    BY RemoveNeat DEF Repeating
  <2>4. Changing' = Changing /\ \A u : Pending(u)' => Pending(u)
    BY DEF Changing, Pending, Sorted
  <2> QED BY <1>1, <2>2, <2>3, <2>4, FewerSorted
<1> QED BY <1>2, <1>3

LEMMA InitAddSorted ==
  ASSUME Timing, Sorted, InitAdd
  PROVE  Sorted'
<1>1. op = "init_add" /\ op' = "none" /\ UNCHANGED <<mTimeout, now, firing, fired>> /\ AddTimer(opTimer)
  BY DEF InitAdd, Returns, Idle, fireVars
<1>2. opTimer \in Timer /\ TypeOK
  BY <1>1 DEF Timing, TypeOK, Places
<1>3. Pending(opTimer) /\ Changing = {} /\ Changing' = {} /\ \A u : Pending(u)' => Pending(u)
  BY <1>1 DEF Pending, Changing
<1> QED BY <1>1, <1>2, <1>3, AddSorted

LEMMA FireAddSorted ==
  ASSUME Timing, Sorted, FireAdd
  PROVE  Sorted'
<1>1. firing = "add" /\ firing' = "end" /\ UNCHANGED <<mTimeout, now, fired, op, opTimer>> /\ AddTimer(fired)
  BY DEF FireAdd, userVars
<1>2. fired \in Timer /\ TypeOK /\ op = "none"
  BY <1>1 DEF Timing, TypeOK, Places
<1>3. Pending(fired) /\ Changing = {} /\ Changing' = {} /\ \A u : Pending(u)' => Pending(u)
  BY <1>1, <1>2 DEF Pending, Changing
<1> QED BY <1>1, <1>2, <1>3, AddSorted

LEMMA AfterSleepChangedSorted ==
  ASSUME Timing, Repeating, Sorted, AfterSleepChanged
  PROVE  Sorted'
<1> DEFINE x == opTimer
           rest == RemoveFirst(mTimers, x)
<1>1. op = "wake_changed" /\ op' = "wake" /\ UNCHANGED <<mTimeout, now, firing, fired, mShutdown>> /\ TimerDelayChanged(x)
  BY DEF AfterSleepChanged, fireVars
<1>2. x \in Timer /\ TypeOK /\ ~mShutdown /\ firing # "add" /\ mTimers \in Seq(Timer)
  BY <1>1 DEF Timing, TypeOK, Places
<1>3. Pending(x) /\ Changing = {x} /\ Changing' = {} /\ \A u : Pending(u)' => Pending(u)
  BY <1>1, <1>2 DEF Pending, Changing
<1>4. mTimers' = Added(rest, x)
  BY <1>1, <1>2 DEF TimerDelayChanged
<1>5. rest \in Seq(Timer) /\ \A u : Occ(rest, u) = Occ(mTimers, u) - One(u = x /\ Contains(mTimers, x))
  BY <1>2, RemovedIs
<1>6. \A u \in Timer : Contains(rest, u) => Contains(mTimers, u) /\ u # x
  <2> TAKE u \in Timer
  <2>1. /\ Occ(mTimers, u) \in Nat /\ (Contains(mTimers, u) <=> Occ(mTimers, u) # 0)
        /\ Occ(mTimers, u) <= 1 /\ (Contains(rest, u) <=> Occ(rest, u) # 0)
    BY <1>2, <1>5, ListedOcc DEF Repeating, Neat
  <2>2. Occ(rest, u) = Occ(mTimers, u) - One(u = x /\ Contains(mTimers, x))
    BY <1>5
  <2> QED BY <2>1, <2>2 DEF One
<1>7. InOrder(rest, {x})
  <2>1. InOrder(mTimers, {x})
    BY <1>3 DEF Sorted
  <2>2. CASE ~Contains(mTimers, x)
    BY <1>2, <2>1, <2>2, RemoveWidens
  <2>3. CASE Contains(mTimers, x)
    <3>1. PICK p \in 1 .. Len(mTimers) : Widened(mTimers, rest, p, x)
      BY <1>2, <2>3, RemoveWidens
    <3> QED BY <1>2, <1>5, <2>1, <3>1, NarrowedInOrder
  <2> QED BY <2>2, <2>3
<1> HIDE DEF x, rest
<1>8. \A i \in 1 .. Len(rest) : rest[i] \in Timer /\ rest[i] # x /\ Listed(rest[i])
  <2>1. \A i \in 1 .. Len(rest) : rest[i] \in Timer /\ Contains(rest, rest[i])
    BY <1>5 DEF Contains
  <2> QED BY <1>6, <2>1 DEF Listed
<1>9. InOrder(rest, {})
  BY <1>7, <1>8 DEF InOrder
<1>10. InOrder(mTimers', {})
  BY <1>2, <1>3, <1>4, <1>5, <1>8, <1>9, AddedInOrder DEF Sorted
<1>11. InOrder(mTimers, Changing)'
  BY <1>1, <1>3, <1>10 DEF InOrder
<1>12. \A u \in Timer : Listed(u)' => Listed(u) \/ u = x
  BY <1>1, <1>2, ChangeNeat DEF Repeating
<1>13. Deadlines'
  BY <1>1, <1>3, <1>12 DEF Sorted, Deadlines
<1> QED BY <1>1, <1>11, <1>13 DEF Sorted

LEMMA RunSorted ==
  ASSUME Timing, Repeating, Sorted, Run
  PROVE  Sorted'
<1>1. /\ UNCHANGED <<mShutdown, now, mTimeout, fired, firing, op, opTimer>>
      /\ Takes \/ Rests
  BY RunIs DEF userVars, fireVars
<1>2. CASE Rests
  <2>1. mTimers' = mTimers
    BY <1>2 DEF Rests, listVars
  <2> QED BY <1>1, <2>1, QuietSorted
<1>3. CASE Takes
  <2>1. mTimers \in Seq(Timer) /\ mTimers # <<>> /\ mTimers' = Tail(mTimers) /\ TypeOK
    BY <1>3 DEF Takes, TakeTimer, Timing, TypeOK
  <2>2. mTimers' \in Seq(Timer) /\ \E p, e : Widened(mTimers, mTimers', p, e)
    BY <2>1, TailWidens
  <2>3. \A u \in Timer : Listed(u)' => Listed(u)
    BY <1>1, <1>3, TakeNeat DEF Repeating, Takes
  <2>4. Changing' = Changing /\ (\A u : Pending(u)' => Pending(u)) /\ op' # "delay"
    BY <1>1 DEF Changing, Pending, Sorted
  <2> QED BY <1>1, <2>1, <2>2, <2>3, <2>4, FewerSorted
<1> QED BY <1>1, <1>2, <1>3

LEMMA ShutdownSorted ==
  ASSUME Timing, Sorted, Shutdown
  PROVE  Sorted'
<1>1. mTimers' = <<>> /\ UNCHANGED <<op, opTimer, firing, fired, now, mTimeout>>
  BY DEF Shutdown, userVars, fireVars
<1>2. \A u : ~Listed(u)'
  BY <1>1, OccEmpty DEF Listed
<1>3. (\A u : Pending(u)' = Pending(u)) /\ op' # "delay"
  BY <1>1 DEF Pending, Sorted
<1>4. Deadlines'
  BY <1>1, <1>2, <1>3 DEF Deadlines, Sorted
<1>5. InOrder(mTimers, Changing)'
  BY <1>1 DEF InOrder
<1> QED BY <1>3, <1>4, <1>5 DEF Sorted

LEMMA ThreadStepSorted ==
  ASSUME Timing, Repeating, Sorted, ThreadStep
  PROVE  Sorted'
<1>1. CASE WakeUp \/ PostTimerEvent \/ PostDispatch
  <2>1. UNCHANGED <<mTimers, mTimeout, now, op, opTimer, firing, fired>>
    BY <1>1 DEF WakeUp, PostTimerEvent, PostDispatch, listVars, userVars, fireVars
  <2> QED BY <2>1, QuietSorted
<1>2. CASE PostPrecise
  <2>1. timer \in Timer
    BY <1>2 DEF PostPrecise, Timing, TypeOK, Places, Handling
  <2>2. mType[timer] # "precise"
    BY <2>1 DEF Repeating, NonePrecise
  <2>3. UNCHANGED <<mTimers, mTimeout, now, op, opTimer, firing, fired>>
    BY <1>2, <2>2 DEF PostPrecise, listVars, userVars, fireVars
  <2> QED BY <2>3, QuietSorted
<1> QED BY <1>1, <1>2, RunSorted, NoPreciseStep DEF ThreadStep

LEMMA CallStepSorted ==
  ASSUME Timing, Timing', Repeating, Sorted, CallStep
  PROVE  Sorted'
<1>1. CASE InitGeneration \/ ReleaseTest
  <2>1. UNCHANGED <<mTimers, mTimeout, now, firing, fired>>
    BY <1>1 DEF InitGeneration, ReleaseTest, listVars, fireVars
  <2>2. op \in {"init_generation", "release"} /\ op' \in {"init_delay", "release_remove", "none"}
    BY <1>1 DEF InitGeneration, ReleaseTest, Goes, Returns, Idle
  <2> QED BY <2>1, <2>2, QuietSorted
<1>2. CASE ShutdownRelease \/ ShutdownJoined
  <2>1. UNCHANGED <<mTimers, mTimeout, now, op, opTimer, firing, fired>>
    BY <1>2 DEF ShutdownRelease, ShutdownJoined, listVars, userVars, fireVars
  <2> QED BY <2>1, QuietSorted
<1>3. CASE InitRemove \/ CancelRemove \/ ReleaseRemove
  <2>1. UNCHANGED <<mTimeout, now, mShutdown, firing, fired>> /\ RemoveTimer(opTimer)
    BY <1>3 DEF InitRemove, CancelRemove, ReleaseRemove, fireVars
  <2>2. op \in {"init_remove", "cancel", "release_remove"} /\ op' \in {"init_generation", "none"}
    BY <1>3 DEF InitRemove, CancelRemove, ReleaseRemove, Goes, Returns, Idle
  <2>3. opTimer \in Timer
    BY <2>2 DEF Timing, TypeOK, Places
  <2> QED BY <2>1, <2>2, <2>3, RemoveSorted
<1>4. ~SetDelayChanged
  BY DEF SetDelayChanged, Returns, Sorted
<1> QED BY <1>1, <1>2, <1>3, <1>4, InitDelaySorted, InitAddSorted, AfterSleepNextSorted,
           AfterSleepChangedSorted DEF CallStep

LEMMA FireStepSorted ==
  ASSUME Timing, Timing', Repeating, Sorted, FireStep
  PROVE  Sorted'
<1>1. CASE Fire
  <2>1. UNCHANGED <<mTimers, mTimeout, now, op, opTimer>> /\ firing' # "add"
    BY <1>1 DEF Fire, listVars, userVars
  <2> QED BY <2>1, QuietSorted
<1>2. CASE EventDone
  <2>1. UNCHANGED <<mTimers, mTimeout, now>> /\ firing = "end" /\ firing' = "no" /\ Drop(fired)
    BY <1>2 DEF EventDone
  <2>2. op = "none"
    BY <2>1 DEF Timing, Places
  <2>3. op' \in {"none", "release"}
    BY <2>1, <2>2 DEF Drop, Calling, userVars
  <2> QED BY <2>1, <2>2, <2>3, QuietSorted
<1> QED BY <1>1, <1>2, FireReturnsSorted, FireAddSorted DEF FireStep

LEMMA UserCallSorted ==
  ASSUME "delay" \notin Calls, Timing, Repeating, Sorted, UserCall
  PROVE  Sorted'
<1>1. ASSUME NEW t \in Timer, NEW type \in Types, NEW d \in Delays, InitTimer(t, type, d)
      PROVE  Sorted'
  <2>1. UNCHANGED <<mTimers, mTimeout, now, firing, fired>>
    BY <1>1 DEF InitTimer, listVars, fireVars
  <2>2. op = "none" /\ op' \in {"init_remove", "init_generation"}
    BY <1>1 DEF InitTimer, MayCall, UserFree, Calling
  <2> QED BY <2>1, <2>2, QuietSorted
<1>2. ASSUME NEW t \in Timer, Cancel(t) \/ Release(t)
      PROVE  Sorted'
  <2>1. UNCHANGED <<mTimers, mTimeout, now, firing, fired>>
    BY <1>2 DEF Cancel, Release, listVars, fireVars
  <2>2. op = "none" /\ op' \in {"none", "cancel", "release"}
    BY <1>2 DEF Cancel, Release, MayCall, UserFree, Calling, Drop, userVars
  <2> QED BY <2>1, <2>2, QuietSorted
<1>3. CASE DoBeforeSleep \/ DoAfterSleep
  <2>1. UNCHANGED <<mTimers, mTimeout, now, firing, fired>>
    BY <1>3 DEF DoBeforeSleep, DoAfterSleep, listVars, fireVars
  <2>2. op = "none" /\ op' \in {"none", "wake"}
    BY <1>3 DEF DoBeforeSleep, DoAfterSleep, UserFree, userVars
  <2> QED BY <2>1, <2>2, QuietSorted
<1>4. \A t, d : ~SetDelay(t, d)
  BY DEF SetDelay, MayCall
<1> QED BY <1>1, <1>2, <1>3, <1>4, ShutdownSorted DEF UserCall

LEMMA InitSorted == Init => Sorted
<1> SUFFICES ASSUME Init PROVE Sorted
  OBVIOUS
<1>1. \A u : ~Listed(u) /\ ~Pending(u)
  BY OccEmpty DEF Init, Listed, Pending
<1>2. \A t \in Timer : mTimeout[t] <= now + MaxDelay
  BY Limits DEF Init
<1>3. Deadlines
  BY <1>1, <1>2 DEF Deadlines
<1>4. InOrder(mTimers, Changing) /\ op # "delay"
  BY DEF Init, InOrder
<1> QED BY <1>3, <1>4 DEF Sorted

LEMMA NextSorted ==
  ASSUME "delay" \notin Calls
  PROVE  Timing /\ Timing' /\ Repeating /\ Sorted /\ [Next]_vars => Sorted'
<1> SUFFICES ASSUME Timing, Timing', Repeating, Sorted, [Next]_vars PROVE Sorted'
  OBVIOUS
<1>1. CASE Tick
  <2>1. UNCHANGED <<mTimers, mTimeout, op, opTimer, firing, fired>> /\ now' = now + 1
    BY <1>1 DEF Tick, listVars, userVars, fireVars
  <2> QED BY <2>1, QuietSorted
<1>2. CASE UNCHANGED vars
  <2>1. UNCHANGED <<mTimers, mTimeout, now, op, opTimer, firing, fired>>
    BY <1>2 DEF vars, listVars, userVars, fireVars
  <2> QED BY <2>1, QuietSorted
<1> QED BY <1>1, <1>2, ThreadStepSorted, CallStepSorted, FireStepSorted, UserCallSorted DEF Next

LEMMA SortedSafe ==
  ASSUME Timing, Sorted
  PROVE  ListOrdered
<1> SUFFICES ASSUME op \notin {"delay", "wake_changed"}, NEW i \in DOMAIN mTimers, NEW j \in DOMAIN mTimers,
                    i < j, now < mTimeout[mTimers[i]]
             PROVE  mTimeout[mTimers[i]] <= mTimeout[mTimers[j]]
  BY DEF ListOrdered
<1>1. DOMAIN mTimers = 1 .. Len(mTimers)
  BY DEF Timing, TypeOK
<1>2. Changing = {}
  BY DEF Changing
<1> QED BY <1>1, <1>2 DEF Sorted, InOrder

(* TimerThread::AddTimerInternal keeps the list in the order of the        *)
(* deadlines, whatever the clock's wrapping and overdue timers do to the   *)
(* comparisons; also while DoAfterSleep goes through the list and moves    *)
(* every timer.                                                            *)
THEOREM ListStaysOrdered ==
  ASSUME "precise" \notin Types, "delay" \notin Calls
  PROVE  Spec => []ListOrdered
<1>1. Timing /\ Repeating /\ [Next]_vars => Repeating'
  BY NextRepeating
<1>2. Timing /\ Timing' /\ Repeating /\ Sorted /\ [Next]_vars => Sorted'
  BY NextSorted
<1>3. Timing /\ Sorted => ListOrdered
  BY SortedSafe
<1> QED BY <1>1, <1>2, <1>3, InitRepeating, InitSorted, AlwaysTiming, PTL DEF Spec
--------------------------------------------------------------------------------
(* No sleep notification has come, and nobody called SetDelay. *)
Awake == ~mSleeping /\ op \notin {"wake", "wake_changed", "delay"}

LEMMA InitAwake == Init => Awake
BY DEF Init, Awake

LEMMA NextAwake ==
  ASSUME MaxSleeps = 0, "delay" \notin Calls
  PROVE  Timing /\ Awake /\ [Next]_vars => Awake'
<1> SUFFICES ASSUME Timing, Awake, [Next]_vars PROVE Awake'
  OBVIOUS
<1> USE DEF Awake
<1>1. CASE Tick \/ UNCHANGED vars
  BY <1>1 DEF Tick, vars, userVars
<1>2. CASE ThreadStep
  BY <1>2 DEF ThreadStep, Run, WakeUp, PostTimerEvent, PostPrecise, PostAdd, PostDispatch, PostFailed,
     userVars
<1>3. CASE CallStep
  <2>1. CASE InitRemove \/ InitGeneration \/ InitDelay \/ InitAdd \/ CancelRemove
    BY <2>1 DEF InitRemove, InitGeneration, InitDelay, InitAdd, CancelRemove, Goes, Returns, Idle
  <2>2. CASE ReleaseTest \/ ReleaseRemove \/ ShutdownRelease \/ ShutdownJoined
    BY <2>2 DEF ReleaseTest, ReleaseRemove, ShutdownRelease, ShutdownJoined, Goes, Returns, Idle, userVars
  <2>3. ~SetDelayChanged /\ ~AfterSleepNext /\ ~AfterSleepChanged
    BY DEF SetDelayChanged, Returns, AfterSleepNext, AfterSleepChanged
  <2> QED BY <1>3, <2>1, <2>2, <2>3 DEF CallStep
<1>4. CASE FireStep
  <2>1. CASE Fire \/ FireReturns \/ FireAdd
    BY <2>1 DEF Fire, FireReturns, FireAdd, userVars
  <2>2. CASE EventDone
    BY <2>2 DEF EventDone, Drop, Calling, userVars
  <2> QED BY <1>4, <2>1, <2>2 DEF FireStep
<1>5. CASE UserCall
  <2>1. ASSUME NEW t \in Timer, NEW type \in Types, NEW d \in Delays, InitTimer(t, type, d) PROVE Awake'
    BY <2>1 DEF InitTimer, Calling
  <2>2. ASSUME NEW t \in Timer, Cancel(t) \/ Release(t) PROVE Awake'
    BY <2>2 DEF Cancel, Release, Calling, Drop, userVars
  <2>3. CASE Shutdown
    BY <2>3 DEF Shutdown, userVars
  <2>4. \A t, d : ~SetDelay(t, d)
    BY DEF SetDelay, MayCall
  <2>5. ~DoBeforeSleep /\ ~DoAfterSleep
    <3>1. nSleeps \in 0 .. MaxSleeps
      BY DEF Timing, TypeOK
    <3>2. ~(nSleeps < MaxSleeps)
      BY <3>1
    <3> QED BY <3>2 DEF DoBeforeSleep, DoAfterSleep
  <2> QED BY <1>5, <2>1, <2>2, <2>3, <2>4, <2>5 DEF UserCall
<1> QED BY <1>1, <1>2, <1>3, <1>4, <1>5 DEF Next

(* The latest time to wake up for the deadline d when the time is n. *)
Wake(n, d) == (IF n < d THEN d ELSE n) + MaxAdjustment

LEMMA RestsNow ==
  ASSUME NeverOversleeps, Awake, thread = "waiting", now < wakeAt, NEW i \in DOMAIN mTimers
  PROVE  wakeAt <= Wake(now, mTimeout[mTimers[i]])
BY DEF NeverOversleeps, Awake, LatestWake, Wake

LEMMA RestsThen ==
  ASSUME (thread' = "waiting" /\ now' < wakeAt') =>
           \A i \in DOMAIN mTimers' : wakeAt' <= Wake(now', mTimeout'[mTimers'[i]])
  PROVE  NeverOversleeps'
BY DEF NeverOversleeps, LatestWake, Wake

LEMMA WakeGrows ==
  ASSUME NEW n \in Nat, NEW m \in Nat, NEW d \in Nat, n <= m
  PROVE  Wake(n, d) \in Nat /\ Wake(m, d) \in Nat /\ Wake(n, d) <= Wake(m, d)
BY Limits DEF Wake

(* A step that leaves the list and its deadlines alone, and one that wakes *)
(* the timer thread.                                                       *)
LEMMA StillAsleep ==
  ASSUME Timing, Awake, NeverOversleeps, mTimers' = mTimers, now' \in {now, now + 1},
         thread' = "waiting" => thread = "waiting" /\ wakeAt' = wakeAt,
         \A u \in Timer : Listed(u) => mTimeout'[u] = mTimeout[u]
  PROVE  NeverOversleeps'
<1>1. /\ now \in Nat /\ wakeAt \in Int /\ mTimers \in Seq(Timer) /\ mTimeout \in [Timer -> Nat]
      /\ DOMAIN mTimers = 1 .. Len(mTimers)
  BY Limits DEF Timing, TypeOK
<1>2. \A i \in DOMAIN mTimers : mTimers[i] \in Timer /\ Listed(mTimers[i])
  BY <1>1 DEF Listed, Contains
<1>3. now' < wakeAt => now < wakeAt
  BY <1>1
<1> SUFFICES ASSUME thread' = "waiting", now' < wakeAt', NEW i \in DOMAIN mTimers
             PROVE  wakeAt' <= Wake(now', mTimeout'[mTimers'[i]])
  BY RestsThen
<1>4. wakeAt <= Wake(now, mTimeout[mTimers[i]])
  BY <1>3, RestsNow
<1>5. mTimeout[mTimers[i]] \in Nat /\ mTimeout'[mTimers'[i]] = mTimeout[mTimers[i]]
  BY <1>1, <1>2
<1>6. now' \in Nat /\ now <= now'
  BY <1>1
<1>7. Wake(now, mTimeout[mTimers[i]]) <= Wake(now', mTimeout[mTimers[i]])
      /\ Wake(now, mTimeout[mTimers[i]]) \in Nat /\ Wake(now', mTimeout[mTimers[i]]) \in Nat
  BY <1>1, <1>5, <1>6, WakeGrows
<1> QED BY <1>1, <1>4, <1>5, <1>7

LEMMA WokenUp ==
  ASSUME thread' # "waiting"
  PROVE  NeverOversleeps'
BY DEF NeverOversleeps

LEMMA WakesUp == Wakes # "waiting"
BY DEF Wakes

LEMMA RunRested ==
  ASSUME Timing, Repeating, Sorted, Awake, Run
  PROVE  NeverOversleeps'
<1>1. /\ UNCHANGED <<now, mTimeout>>
      /\ Takes \/ Rests
  BY RunIs
<1>2. CASE Takes \/ thread' = "exit"
  BY <1>2, WokenUp DEF Takes
<1>3. CASE Rests /\ thread' # "exit"
  <2>1. /\ mTimers' = mTimers
        /\ \/ mTimers = <<>>
           \/ mTimers # <<>> /\ wakeAt' = Adjusted(Head(mTimers))
    BY <1>3 DEF Rests, listVars, Awake
  <2>2. CASE mTimers = <<>>
    <3>1. DOMAIN mTimers' = {}
      BY <2>1, <2>2
    <3> QED BY <3>1 DEF NeverOversleeps
  <2>3. CASE mTimers # <<>> /\ wakeAt' = Adjusted(Head(mTimers))
    <3>1. /\ mTimers \in Seq(Timer) /\ Len(mTimers) \in Nat /\ DOMAIN mTimers = 1 .. Len(mTimers)
          /\ mTimeout \in [Timer -> Nat] /\ TypeOK
      <4>1. mTimers \in Seq(Timer) /\ mTimeout \in [Timer -> Nat]
        BY DEF Timing, TypeOK
      <4> QED BY <4>1 DEF Timing
    <3>2. Head(mTimers) = mTimers[1] /\ mTimers[1] \in Timer /\ 1 \in 1 .. Len(mTimers)
      BY <2>3, <3>1, HeadTailProperties, EmptySeq
    <3>3. InOrder(mTimers, {})
      BY DEF Sorted, Awake, Changing
    <3>4. /\ now \in Nat /\ MaxAdjustment \in Nat
          /\ mTimeoutAdjustment \in Int /\ mTimeoutAdjustment <= MaxAdjustment
      BY Limits DEF Timing, TypeOK
    <3>5. ASSUME NEW i \in 1 .. Len(mTimers) PROVE wakeAt' <= Wake(now, mTimeout[mTimers[i]])
      <4>1. mTimeout[mTimers[1]] \in Nat /\ mTimeout[mTimers[i]] \in Nat
        BY <3>1, <3>2
      <4>2. now < mTimeout[mTimers[1]] => mTimeout[mTimers[1]] <= mTimeout[mTimers[i]]
        <5>1. CASE i = 1
          BY <4>1, <5>1
        <5>2. CASE i # 1
          <6>1. 1 < i
            BY <3>1, <5>2
          <6> QED BY <3>2, <3>3, <6>1 DEF InOrder
        <5> QED BY <5>1, <5>2
      <4>3. wakeAt' = mTimeout[mTimers[1]] + mTimeoutAdjustment
        BY <2>3, <3>2 DEF Adjusted
      <4> QED BY <3>4, <4>1, <4>2, <4>3 DEF Wake
    <3> QED BY <1>1, <2>1, <3>1, <3>5, RestsThen
  <2> QED BY <2>1, <2>2, <2>3
<1> QED BY <1>1, <1>2, <1>3

LEMMA RemoveRested ==
  ASSUME Timing, Awake, NeverOversleeps, NEW t \in Timer, RemoveTimer(t), UNCHANGED <<now, mTimeout, wakeAt>>
  PROVE  NeverOversleeps'
<1>1. CASE ~Contains(mTimers, t)
  <2>1. mTimers' = mTimers /\ thread' = thread
    BY <1>1 DEF RemoveTimer, listVars
  <2> QED BY <2>1, StillAsleep
<1>2. CASE Contains(mTimers, t)
  BY <1>2, WakesUp, WokenUp DEF RemoveTimer
<1> QED BY <1>1, <1>2

(* AddTimer notifies only when the new timer is the first: otherwise it is *)
(* due after the one that the timer thread sleeps for.                     *)
LEMMA AddRested ==
  ASSUME Timing, Sorted, Awake, NeverOversleeps, NEW t \in Timer, Pending(t), AddTimer(t),
         UNCHANGED <<now, mTimeout, wakeAt>>
  PROVE  NeverOversleeps'
<1> DEFINE p == Position(mTimers, t)
<1>1. CASE mShutdown
  <2>1. mTimers' = mTimers /\ thread' = thread
    BY <1>1 DEF AddTimer, listVars
  <2> QED BY <2>1, StillAsleep
<1>2. CASE ~mShutdown /\ p = 1
  BY <1>2, WakesUp, WokenUp DEF AddTimer
<1>3. CASE ~mShutdown /\ p # 1
  <2>1. thread' = thread /\ mTimers' = Added(mTimers, t)
    BY <1>3 DEF AddTimer
  <2>2. /\ mTimers \in Seq(Timer) /\ Len(mTimers) \in Nat /\ DOMAIN mTimers = 1 .. Len(mTimers)
        /\ mTimeout \in [Timer -> Nat] /\ TypeOK /\ now \in Nat /\ wakeAt \in Int /\ MaxAdjustment \in Nat
    <3>1. mTimers \in Seq(Timer) /\ mTimeout \in [Timer -> Nat] /\ now \in Start .. MaxTime /\ wakeAt \in Int
      BY DEF Timing, TypeOK
    <3> QED BY <3>1, Limits DEF Timing
  <2>3. /\ p \in 1 .. Len(mTimers) + 1
        /\ \A i \in 1 .. Len(mTimers) : i < p => ~Later(t, mTimers[i])
    BY <2>2, PositionIs
  <2>4. mTimers' \in Seq(Timer) /\ Widened(mTimers', mTimers, p, t)
    BY <2>1, <2>2, AddedIs
  <2> HIDE DEF p
  <2>5. 1 \in 1 .. Len(mTimers) /\ 1 < p
    BY <1>3, <2>2, <2>3
  <2>6. mTimers[1] \in Timer /\ Listed(mTimers[1])
    BY <2>2, <2>5 DEF Listed, Contains
  <2>7. ~(now < mTimeout[mTimers[1]] /\ mTimeout[t] < mTimeout[mTimers[1]])
    BY <2>2, <2>3, <2>5, <2>6, LaterIs DEF Sorted
  <2> SUFFICES ASSUME thread = "waiting", now < wakeAt
               PROVE  \A i \in DOMAIN mTimers' : wakeAt <= Wake(now, mTimeout[mTimers'[i]])
    BY <2>1, RestsThen
  <2>8. \A i \in 1 .. Len(mTimers) : wakeAt <= Wake(now, mTimeout[mTimers[i]])
    BY <2>2, RestsNow
  <2>9. wakeAt <= Wake(now, mTimeout[t])
    <3>1. wakeAt <= Wake(now, mTimeout[mTimers[1]]) /\ mTimeout[mTimers[1]] \in Nat /\ mTimeout[t] \in Nat
      BY <2>2, <2>5, <2>6, <2>8
    <3> QED BY <2>2, <2>7, <3>1 DEF Wake
  <2>10. ASSUME NEW i \in 1 .. Len(mTimers) + 1 PROVE wakeAt <= Wake(now, mTimeout[mTimers'[i]])
    <3>1. /\ mTimers'[p] = t
          /\ \A k \in 1 .. Len(mTimers) : mTimers[k] = IF k < p THEN mTimers'[k] ELSE mTimers'[k + 1]
      BY <2>4 DEF Widened
    <3>2. CASE i = p
      BY <2>9, <3>1, <3>2
    <3>3. CASE i < p
      <4>1. i \in 1 .. Len(mTimers) /\ mTimers[i] = mTimers'[i]
        BY <2>2, <2>3, <3>1, <3>3
      <4> QED BY <2>8, <4>1
    <3>4. CASE i > p
      <4>1. i - 1 \in 1 .. Len(mTimers) /\ ~(i - 1 < p) /\ (i - 1) + 1 = i
        BY <2>2, <2>3, <3>4
      <4>2. mTimers[i - 1] = mTimers'[i]
        BY <3>1, <4>1
      <4> QED BY <2>8, <4>1, <4>2
    <3> QED BY <2>2, <2>3, <3>2, <3>3, <3>4
  <2>11. DOMAIN mTimers' = 1 .. Len(mTimers) + 1
    BY <2>4 DEF Widened
  <2> QED BY <2>10, <2>11
<1> QED BY <1>1, <1>2, <1>3

LEMMA CallStepRested ==
  ASSUME Timing, Repeating, Sorted, Awake, NeverOversleeps, CallStep
  PROVE  NeverOversleeps'
<1>1. CASE InitGeneration \/ ReleaseTest \/ ShutdownRelease \/ ShutdownJoined
  <2>1. UNCHANGED <<mTimers, mTimeout, now, thread, wakeAt>>
    BY <1>1 DEF InitGeneration, ReleaseTest, ShutdownRelease, ShutdownJoined, listVars, runVars
  <2> QED BY <2>1, StillAsleep
<1>2. CASE InitDelay
  <2>1. /\ op = "init_delay" /\ UNCHANGED <<mTimers, now, thread, wakeAt>>
        /\ SetDelayInternal(opTimer, opType, mTimeout[opTimer], opDelay)
    BY <1>2 DEF InitDelay, Goes, listVars, runVars
  <2>2. ~Listed(opTimer) /\ mTimeout \in [Timer -> Nat]
    BY <2>1 DEF Repeating, Unlisted, Timing, TypeOK
  <2>3. \A u \in Timer : Listed(u) => mTimeout'[u] = mTimeout[u]
    BY <2>1, <2>2 DEF SetDelayInternal
  <2> QED BY <2>1, <2>3, StillAsleep
<1>3. CASE InitRemove \/ CancelRemove \/ ReleaseRemove
  <2>1. UNCHANGED <<mTimeout, now, wakeAt>> /\ RemoveTimer(opTimer)
    BY <1>3 DEF InitRemove, CancelRemove, ReleaseRemove
  <2>2. op \in {"init_remove", "cancel", "release_remove"}
    BY <1>3 DEF InitRemove, CancelRemove, ReleaseRemove, Goes, Returns
  <2>3. opTimer \in Timer
    BY <2>2 DEF Timing, TypeOK, Places
  <2> QED BY <2>1, <2>3, RemoveRested
<1>4. CASE InitAdd
  <2>1. UNCHANGED <<mTimeout, now, wakeAt>> /\ AddTimer(opTimer) /\ op = "init_add"
    BY <1>4 DEF InitAdd, Returns
  <2>2. opTimer \in Timer /\ Pending(opTimer)
    BY <2>1 DEF Timing, TypeOK, Places, Pending
  <2> QED BY <2>1, <2>2, AddRested
<1>5. ~SetDelayChanged /\ ~AfterSleepNext /\ ~AfterSleepChanged
  BY DEF SetDelayChanged, Returns, AfterSleepNext, AfterSleepChanged, Awake
<1> QED BY <1>1, <1>2, <1>3, <1>4, <1>5 DEF CallStep

LEMMA FireStepRested ==
  ASSUME Timing, Repeating, Sorted, Awake, NeverOversleeps, FireStep
  PROVE  NeverOversleeps'
<1>1. CASE Fire \/ EventDone
  <2>1. UNCHANGED <<mTimers, mTimeout, now, thread, wakeAt>>
    BY <1>1 DEF Fire, EventDone, listVars, runVars
  <2> QED BY <2>1, StillAsleep
<1>2. CASE FireReturns
  <2>1. /\ firing \in {"callback", "nothing"} /\ UNCHANGED <<mTimers, now, thread, wakeAt>>
        /\ \/ mTimeout' = mTimeout
           \/ /\ ~mArmed[fired]
              /\ SetDelayInternal(fired, "slack", mTimeout[fired], mDelay[fired])
    BY <1>2 DEF FireReturns, listVars, runVars
  <2>2. fired \in Timer /\ mTimeout \in [Timer -> Nat]
    BY <2>1 DEF Timing, TypeOK, Places
  <2>3. ~mArmed[fired] => ~Listed(fired)
    BY <2>2, ArmedTest DEF Repeating
  <2>4. \A u \in Timer : Listed(u) => mTimeout'[u] = mTimeout[u]
    BY <2>1, <2>2, <2>3 DEF SetDelayInternal
  <2> QED BY <2>1, <2>4, StillAsleep
<1>3. CASE FireAdd
  <2>1. UNCHANGED <<mTimeout, now, wakeAt>> /\ AddTimer(fired) /\ firing = "add"
    BY <1>3 DEF FireAdd
  <2>2. fired \in Timer /\ Pending(fired)
    BY <2>1 DEF Timing, TypeOK, Places, Pending
  <2> QED BY <2>1, <2>2, AddRested
<1> QED BY <1>1, <1>2, <1>3 DEF FireStep

LEMMA NextRested ==
  ASSUME "delay" \notin Calls, MaxSleeps = 0
  PROVE  Timing /\ Repeating /\ Sorted /\ Awake /\ NeverOversleeps /\ [Next]_vars => NeverOversleeps'
<1> SUFFICES ASSUME Timing, Repeating, Sorted, Awake, NeverOversleeps, [Next]_vars PROVE NeverOversleeps'
  OBVIOUS
<1>1. CASE Tick \/ UNCHANGED vars
  <2>1. UNCHANGED <<mTimers, mTimeout, thread, wakeAt>> /\ now' \in {now, now + 1}
    BY <1>1 DEF Tick, vars, listVars, runVars
  <2> QED BY <2>1, StillAsleep
<1>2. CASE ThreadStep
  <2>1. CASE WakeUp \/ PostTimerEvent \/ PostPrecise \/ PostDispatch
    <3>1. thread' # "waiting"
      BY <2>1 DEF WakeUp, PostTimerEvent, PostPrecise, PostDispatch
    <3> QED BY <3>1, WokenUp
  <2> QED BY <1>2, <2>1, RunRested, NoPreciseStep DEF ThreadStep
<1>3. CASE UserCall
  <2>1. ASSUME NEW t \in Timer, NEW type \in Types, NEW d \in Delays, InitTimer(t, type, d)
        PROVE  NeverOversleeps'
    <3>1. UNCHANGED <<mTimers, mTimeout, now, thread, wakeAt>>
      BY <2>1 DEF InitTimer, listVars, runVars
    <3> QED BY <3>1, StillAsleep
  <2>2. ASSUME NEW t \in Timer, Cancel(t) \/ Release(t)
        PROVE  NeverOversleeps'
    <3>1. UNCHANGED <<mTimers, mTimeout, now, thread, wakeAt>>
      BY <2>2 DEF Cancel, Release, listVars, runVars
    <3> QED BY <3>1, StillAsleep
  <2>3. CASE Shutdown
    BY <2>3, WakesUp, WokenUp DEF Shutdown
  <2>4. \A t, d : ~SetDelay(t, d)
    BY DEF SetDelay, MayCall
  <2>5. ~DoBeforeSleep /\ ~DoAfterSleep
    <3>1. nSleeps \in 0 .. MaxSleeps
      BY DEF Timing, TypeOK
    <3>2. ~(nSleeps < MaxSleeps)
      BY <3>1
    <3> QED BY <3>2 DEF DoBeforeSleep, DoAfterSleep
  <2> QED BY <1>3, <2>1, <2>2, <2>3, <2>4, <2>5 DEF UserCall
<1> QED BY <1>1, <1>2, <1>3, CallStepRested, FireStepRested DEF Next

(* TimerThread::Run does not sleep past the deadline of any timer by more  *)
(* than the greatest adjustment that UpdateFilter can make, although       *)
(* AddTimer notifies it only of a new first one.                           *)
THEOREM ThreadNeverOversleeps ==
  ASSUME "precise" \notin Types, "delay" \notin Calls, MaxSleeps = 0
  PROVE  Spec => []NeverOversleeps
<1>1. Timing /\ Repeating /\ [Next]_vars => Repeating'
  BY NextRepeating
<1>2. Timing /\ Timing' /\ Repeating /\ Sorted /\ [Next]_vars => Sorted'
  BY NextSorted
<1>3. Timing /\ Awake /\ [Next]_vars => Awake'
  BY NextAwake
<1>4. Timing /\ Repeating /\ Sorted /\ Awake /\ NeverOversleeps /\ [Next]_vars => NeverOversleeps'
  BY NextRested
<1>5. Init => NeverOversleeps
  BY DEF Init, NeverOversleeps
<1> QED BY <1>1, <1>2, <1>3, <1>4, <1>5, InitRepeating, InitSorted, InitAwake, AlwaysTiming, PTL DEF Spec

================================================================================
