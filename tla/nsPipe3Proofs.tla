----------------------------- MODULE nsPipe3Proofs -----------------------------
(***************************************************************************)
(* Proofs about the pipe of nsPipe3: the circular array of segments is a   *)
(* queue, the cursors lie where the code takes them to lie, the bytes      *)
(* between them are the ones that were written and not read, and nobody    *)
(* sleeps or waits for a callback that is due.                             *)
(***************************************************************************)
EXTENDS nsPipe3, FiniteSetTheorems, SequenceTheorems, TLAPS

(* A buffer: the two indices are in the array. *)
IsBuffer(b) ==
  /\ b = [array |-> b.array, count |-> b.count, first |-> b.first, last |-> b.last]
  /\ b.count \in Nat \ {0} /\ b.array \in [0 .. b.count - 1 -> Int]
  /\ b.first \in 0 .. b.count - 1 /\ b.last \in 0 .. b.count - 1

N == GetSegmentCount(mBuffer)
Seg(i) == GetSegment(mBuffer, i)
Last == Seg(N - 1)

(* The segments of the pipe are different blocks of the arena. *)
Segments ==
  /\ IsBuffer(mBuffer)
  /\ mWriteSegment = N - 1 /\ N <= SegmentCount
  /\ \A i \in 0 .. N - 1 : \E s \in Slot : Seg(i) = Base(s)
  /\ \A i, j \in 0 .. N - 1 : i # j => Seg(i) # Seg(j)

(* The reader is in the first segment, short of its end; the writer in the *)
(* last, perhaps at its end.  When these are the same, the reader may go   *)
(* as far as the writer, and else to the end of the segment.               *)
Cursors ==
  IF N = 0
    THEN mReadCursor = Null /\ mReadLimit = Null /\ mWriteCursor = Null /\ mWriteLimit = Null
    ELSE /\ mReadCursor \in Seg(0) .. Seg(0) + SegmentSize - 1
         /\ mReadCursor <= mReadLimit
         /\ mReadLimit = IF N = 1 THEN mWriteCursor ELSE Seg(0) + SegmentSize
         /\ mWriteLimit = Last + SegmentSize
         /\ mWriteCursor \in Last .. mWriteLimit

Call == [count : Nat, done : Nat, segment : Int, len : Nat, orig : Nat]

(* What a call holds is a part of what lies between its cursor and limit;  *)
(* it is asked for more until it leaves the loop.                          *)
Holds(p, c, cursor, limit) ==
  /\ p \in {"copy", "advance"} =>
       /\ c.orig \in 1 .. limit - cursor /\ c.len \in 0 .. c.orig
       /\ c.segment = cursor + (c.orig - c.len)
  /\ p = "copy" => c.len > 0 /\ c.len <= c.count
  /\ p = "advance" => c.len < c.orig
  /\ p \in {"loop", "wait", "asleep", "notified"} => c.count > 0

(* What went through the client's function but has not been reported. *)
Moved(p, c) == IF p \in {"copy", "advance"} THEN c.orig - c.len ELSE 0
Written == Moved(pc["out"], call["out"])

Bounded ==
  /\ sent \in 0 .. MaxBytes
  /\ pc["out"] # "idle" => sent + Written + call["out"].count <= MaxBytes

(* How many bytes there are from the start of segment i to the writer. *)
Ahead(i) == (N - 1 - i) * SegmentSize + (mWriteCursor - Last)

(* Every byte that was copied and not reported read is where it belongs. *)
Contents ==
  \A i \in 0 .. N - 1, o \in 0 .. SegmentSize - 1 :
    (i = 0 => mReadCursor <= Seg(0) + o) /\ (i = N - 1 => Seg(i) + o < mWriteCursor + Written)
      => mem[Seg(i) + o] = sent - Ahead(i) + o + 1

(* The bytes between the cursors are the ones that were sent and have not   *)
(* been received, and those that the reader holds and has not reported.     *)
Counted ==
  /\ received \in Seq(Int)
  /\ Taken <= Len(received)
  /\ InFirst + InRest = sent - Len(received) + Taken

(* The variables beside the buffer and the calls have their types. *)
Plain ==
  /\ mStatus \in {"ok"} \cup Reasons
  /\ mAvailable \in 0..(UintRange - 1)
  /\ mWritable \in BOOLEAN
  /\ mBlocking \in [End -> BOOLEAN] /\ mBlocked \in [End -> BOOLEAN]
  /\ owner \in [End -> {"may_call", "told", "waits"}]
  /\ mCallback \in [End -> {"none", "ready", "closure"}]
  /\ PcOK
  /\ closedBy \in End \cup {"nobody"}

Calls == /\ call \in [End -> Call]
         /\ Holds(pc["in"], call["in"], mReadCursor, mReadLimit)
         /\ Holds(pc["out"], call["out"], mWriteCursor, mWriteLimit)

Memory == mem \in [0..(MaxSize - 1) -> 0..MaxBytes]

Structure == Plain /\ Calls /\ Memory /\ Segments /\ Cursors /\ Bounded

(* What is remembered beside the cursors. *)
Kept ==
  /\ mStatus = "ok" <=> closedBy = "nobody"
  /\ closedBy # "in" => mAvailable = InFirst + InRest
  /\ mStatus = "ok" => (mWritable <=> ~(mWriteCursor = mWriteLimit /\ N = SegmentCount))

(* Whoever waits, by sleeping or with a callback, waits for something that  *)
(* has not happened; only blocking ends sleep, only others have callbacks.  *)
(* The exception is a callback on the input end that waits for closure      *)
(* only, when the writer has closed the pipe: ClosureOut excludes it.       *)
Awake ==
  \A e \in End :
    /\ pc[e] \in {"wait", "asleep", "notified"} => mBlocking[e]
    /\ mCallback[e] # "none" => ~mBlocking[e]
    /\ pc[e] = "asleep" => mBlocked[e] /\ mStatus = "ok" /\ ~ReadyNow(e)
    /\ mCallback[e] = "ready" => mStatus = "ok" /\ ~ReadyNow(e)
    /\ mCallback[e] = "closure" => mStatus = "ok" \/ (e = "in" /\ closedBy = "out")

--------------------------------------------------------------------------------
(* Arithmetic *)

LEMMA Remainder ==
  ASSUME NEW n \in Nat, n > 0, NEW q \in Int, NEW r \in 0 .. n - 1
  PROVE  (q * n + r) % n = r
<1> DEFINE a == q * n + r
           d == a \div n
           m == a % n
<1>1. d \in Int /\ m \in 0 .. n - 1 /\ a = n * d + m /\ a \in Int
  OBVIOUS
<1>2. n * (q - d) = m - r
  BY <1>1
<1> HIDE DEF a, d, m
<1>3. CASE q - d >= 1
  <2>1. \E k \in Nat : q - d = k + 1
    <3>1. q - d - 1 \in Nat /\ q - d = (q - d - 1) + 1
      BY <1>1, <1>3
    <3> QED BY <3>1
  <2>2. PICK k \in Nat : q - d = k + 1
    BY <2>1
  <2>4. n * (k + 1) = n * k + n /\ n * k >= 0
    OBVIOUS
  <2> QED BY <1>1, <1>2, <2>2, <2>4
<1>4. CASE q - d <= -1
  <2>1. \E k \in Nat : q - d = - k - 1
    <3>1. d - q - 1 \in Nat /\ q - d = - (d - q - 1) - 1
      BY <1>1, <1>4
    <3> QED BY <3>1
  <2>2. PICK k \in Nat : q - d = - k - 1
    BY <2>1
  <2>4. n * (- k - 1) = - (n * k) - n /\ n * k >= 0
    OBVIOUS
  <2> QED BY <1>1, <1>2, <2>2, <2>4
<1>5. CASE q - d = 0
  BY <1>1, <1>2, <1>5 DEF a, m
<1> QED BY <1>1, <1>3, <1>4, <1>5

(* The remainders ModSegArraySize takes: an index in the array, one just   *)
(* past its end or before its start.                                       *)
LEMMA Wraps ==
  ASSUME NEW n \in Nat \ {0}
  PROVE  /\ \A x \in 0 .. n - 1 : x % n = x
         /\ \A x \in n .. 2 * n - 1 : x % n = x - n
         /\ (0 - 1) % n = n - 1
<1>1. ASSUME NEW x \in 0 .. n - 1 PROVE x % n = x
  <2>1. (0 * n + x) % n = x
    BY Remainder
  <2> QED BY <2>1
<1>2. ASSUME NEW x \in n .. 2 * n - 1 PROVE x % n = x - n
  <2>1. x - n \in 0 .. n - 1
    OBVIOUS
  <2>2. (1 * n + (x - n)) % n = x - n
    BY <2>1, Remainder
  <2> QED BY <2>2
<1>3. (0 - 1) % n = n - 1
  <2>1. ((0 - 1) * n + (n - 1)) % n = n - 1
    BY Remainder
  <2>2. (0 - 1) * n + (n - 1) = 0 - 1
    OBVIOUS
  <2> QED BY <2>1, <2>2
<1> QED BY <1>1, <1>2, <1>3

LEMMA WrapsOnce ==
  ASSUME NEW n \in Nat \ {0}, NEW x \in 0 .. 2 * n - 1
  PROVE  x % n = IF x < n THEN x ELSE x - n
<1>1. CASE x < n
  <2>1. x \in 0 .. n - 1
    BY <1>1
  <2> QED BY <1>1, <2>1, Wraps
<1>2. CASE ~(x < n)
  <2>1. x \in n .. 2 * n - 1
    BY <1>2
  <2> QED BY <1>2, <2>1, Wraps
<1> QED BY <1>1, <1>2

(* How many places of a circular array of size n lie between two. *)
Between(f, l, n) == IF f <= l THEN l - f ELSE n + l - f

(* The place that lies i behind place f. *)
Around(f, i, n) == IF f + i < n THEN f + i ELSE f + i - n

LEMMA AroundBetween ==
  ASSUME NEW n \in Nat, NEW f \in 0 .. n - 1, NEW l \in 0 .. n - 1
  PROVE  /\ Between(f, l, n) \in 0 .. n - 1 /\ Around(f, Between(f, l, n), n) = l
         /\ \A i \in 0 .. n - 1 : Around(f, i, n) = l => i = Between(f, l, n)
BY DEF Between, Around

LEMMA AroundOne ==
  ASSUME NEW n \in Nat, NEW f \in 0 .. n - 1, NEW i \in 0 .. n - 1, NEW j \in 0 .. n - 1,
         Around(f, i, n) = Around(f, j, n)
  PROVE  i = j
BY DEF Around

LEMMA OneMore ==
  ASSUME NEW n \in Nat, NEW f \in 0 .. n - 1, NEW l \in 0 .. n - 1, Between(f, l, n) < n - 1
  PROVE  Between(f, IF l + 1 < n THEN l + 1 ELSE 0, n) = Between(f, l, n) + 1
BY DEF Between

LEMMA OneFewer ==
  ASSUME NEW n \in Nat, NEW f \in 0 .. n - 1, NEW l \in 0 .. n - 1, Between(f, l, n) > 0
  PROVE  Between(IF f + 1 < n THEN f + 1 ELSE 0, l, n) = Between(f, l, n) - 1
BY DEF Between
--------------------------------------------------------------------------------
(* The buffer is a queue of segments *)

Index(b, i) == Around(b.first, i, b.count)

LEMMA GetSegmentIs ==
  ASSUME NEW b, IsBuffer(b), NEW i \in 0 .. b.count
  PROVE  /\ Index(b, i) \in 0 .. b.count - 1
         /\ ModSegArraySize(b, b.first + i) = Index(b, i)
         /\ GetSegment(b, i) = b.array[Index(b, i)] /\ GetSegment(b, i) \in Int
<1>1. Index(b, i) \in 0 .. b.count - 1
  BY DEF IsBuffer, Index, Around
<1>2. (b.first + i) % b.count = Index(b, i)
  <2> DEFINE x == b.first + i
             n == b.count
  <2>0. b.first \in Int /\ b.count \in Int /\ i \in Int
    BY DEF IsBuffer
  <2>1. n \in Nat \ {0} /\ x \in 0 .. 2 * n - 1
    BY DEF IsBuffer
  <2> HIDE DEF x, n
  <2>2. x % n = IF x < n THEN x ELSE x - n
    BY <2>1, WrapsOnce
  <2>3. Index(b, i) = IF x < n THEN x ELSE x - n
    BY <2>0 DEF x, n, Index, Around
  <2>4. x % n = Index(b, i)
    BY <2>2, <2>3
  <2> QED BY <2>4, Zenon DEF x, n
<1> QED BY <1>1, <1>2 DEF GetSegment, ModSegArraySize, IsBuffer

LEMMA CountIs ==
  ASSUME NEW b, IsBuffer(b)
  PROVE  /\ GetSegmentCount(b) \in 0 .. b.count - 1
         /\ Index(b, GetSegmentCount(b)) = b.last
         /\ \A i \in 0 .. b.count - 1 : Index(b, i) = b.last => i = GetSegmentCount(b)
<1>1. b.count \in Nat /\ b.first \in 0 .. b.count - 1 /\ b.last \in 0 .. b.count - 1
  BY DEF IsBuffer
<1>2. GetSegmentCount(b) = Between(b.first, b.last, b.count)
  BY DEF GetSegmentCount, Between
<1> QED BY <1>1, <1>2, AroundBetween DEF Index

LEMMA IndexOne ==
  ASSUME NEW b, IsBuffer(b), NEW i \in 0 .. b.count - 1, NEW j \in 0 .. b.count - 1, Index(b, i) = Index(b, j)
  PROVE  i = j
<1>1. b.count \in Nat /\ b.first \in 0 .. b.count - 1
  BY DEF IsBuffer
<1> QED BY <1>1, AroundOne DEF Index

LEMMA FullIs ==
  ASSUME NEW b, IsBuffer(b)
  PROVE  IsFull(b) <=> GetSegmentCount(b) = b.count - 1
<1>1. (b.last + 1) % b.count = IF b.last + 1 < b.count THEN b.last + 1 ELSE 0
  <2>1. CASE b.last + 1 < b.count
    <3>1. b.last + 1 \in 0 .. b.count - 1 /\ b.count \in Nat \ {0}
      BY <2>1 DEF IsBuffer
    <3> QED BY <2>1, <3>1, Wraps
  <2>2. CASE b.last + 1 >= b.count
    <3>1. b.last + 1 = b.count /\ b.count \in b.count .. 2 * b.count - 1
      BY <2>2 DEF IsBuffer
    <3>2. b.count % b.count = b.count - b.count
      BY <3>1, Wraps DEF IsBuffer
    <3> QED BY <3>1, <3>2 DEF IsBuffer
  <2> QED BY <2>1, <2>2 DEF IsBuffer
<1> QED BY <1>1 DEF IsBuffer, IsFull, ModSegArraySize, GetSegmentCount

LEMMA GrownHolds ==
  ASSUME NEW b, IsBuffer(b), IsFull(b)
  PROVE  /\ IsBuffer(Grown(b)) /\ Grown(b).count = 2 * b.count
         /\ GetSegmentCount(Grown(b)) = GetSegmentCount(b)
         /\ \A i \in 0 .. GetSegmentCount(b) - 1 : GetSegment(Grown(b), i) = GetSegment(b, i)
<1> DEFINE g == Grown(b)
           wrapped == b.first > b.last
           last == IF wrapped THEN b.last + b.count ELSE b.last
           entry(i) == CASE i >= last                 -> Null
                         [] i < last /\ i >= b.count  -> b.array[i - b.count]
                         [] wrapped /\ i < b.last     -> Null
                         [] OTHER                     -> b.array[i]
<1>1. g = [array |-> [i \in 0..(2 * b.count - 1) |-> entry(i)],
           count |-> 2 * b.count, first |-> b.first, last |-> last]
  BY DEF Grown
<1>2. b.count \in Nat \ {0} /\ b.first \in 0 .. b.count - 1 /\ b.last \in 0 .. b.count - 1 /\ b.array \in [0 .. b.count - 1 -> Int]
  BY DEF IsBuffer
<1>3. last \in 0 .. 2 * b.count - 1
  BY <1>2
<1>4. \A i \in 0 .. 2 * b.count - 1 : entry(i) \in Int
  <2> SUFFICES ASSUME NEW i \in 0 .. 2 * b.count - 1 PROVE entry(i) \in Int
    OBVIOUS
  <2>1. i >= last \/ (i < last /\ i >= b.count) \/ (i < last /\ i < b.count)
    BY <1>2, <1>3
  <2>2. CASE i >= last
    BY <1>2, <2>2 DEF Null
  <2>3. CASE i < last /\ i >= b.count
    <3>1. i - b.count \in 0 .. b.count - 1
      BY <1>2, <2>3
    <3>2. ~(i >= last) /\ ~(i < b.last)
      BY <1>2, <1>3, <2>3
    <3> HIDE DEF last
    <3>3. entry(i) = b.array[i - b.count]
      <4>1. i \in Int /\ last \in Int /\ b.count \in Int
        BY <1>2, <1>3 DEF last
      <4> QED BY <2>3, <3>2, <4>1
    <3> HIDE DEF entry
    <3> QED BY <1>2, <3>1, <3>3
  <2>4. CASE i < last /\ i < b.count
    BY <1>2, <2>4 DEF Null
  <2> QED BY <2>1, <2>2, <2>3, <2>4
<1>5. \A i \in b.first .. last - 1 : entry(i) = b.array[IF i < b.count THEN i ELSE i - b.count]
  BY <1>2
<1> HIDE DEF g, last, entry
<1>6. IsBuffer(g)
  <2>1. g.array = [i \in 0..(2 * b.count - 1) |-> entry(i)] /\ g.count = 2 * b.count /\ g.first = b.first /\ g.last = last
    BY <1>1
  <2>2. g.array \in [0 .. g.count - 1 -> Int]
    BY <1>4, <2>1
  <2>3. g = [array |-> g.array, count |-> g.count, first |-> g.first, last |-> g.last]
    BY <1>1, <2>1
  <2> QED BY <1>2, <1>3, <2>1, <2>2, <2>3 DEF IsBuffer
<1>7. GetSegmentCount(g) = GetSegmentCount(b)
  BY <1>1, <1>2 DEF GetSegmentCount, last
<1>8. ASSUME NEW i \in 0 .. GetSegmentCount(b) - 1 PROVE GetSegment(g, i) = GetSegment(b, i)
  <2>1. i \in 0 .. b.count /\ i \in 0 .. g.count /\ b.first + i \in b.first .. last - 1
    <3>1. GetSegmentCount(b) = last - b.first
      BY <1>2 DEF GetSegmentCount, last
    <3>2. g.count = 2 * b.count /\ GetSegmentCount(b) \in 0 .. b.count - 1
      BY <1>1, CountIs
    <3>3. b.count \in Nat /\ b.first \in Nat /\ last \in Nat
      BY <1>2, <1>3
    <3>4. i \in Nat /\ i < GetSegmentCount(b) /\ GetSegmentCount(b) < b.count
      BY <3>2, <3>3
    <3>5. i \in 0 .. b.count /\ i \in 0 .. g.count
      BY <3>2, <3>3, <3>4
    <3>6. b.first + i \in b.first .. last - 1
      BY <3>1, <3>3, <3>4
    <3> QED BY <3>5, <3>6
  <2>2. GetSegment(g, i) = g.array[Index(g, i)] /\ GetSegment(b, i) = b.array[Index(b, i)]
    BY <1>6, <2>1, GetSegmentIs
  <2>3. Index(g, i) = b.first + i
    BY <1>1, <1>2, <1>3, <2>1 DEF Index, Around
  <2>4. g.array[b.first + i] = entry(b.first + i)
    BY <1>1, <1>2, <1>3, <2>1
  <2>5. entry(b.first + i) = b.array[IF b.first + i < b.count THEN b.first + i ELSE b.first + i - b.count]
    <3> DEFINE x == b.first + i
    <3>1. x \in b.first .. last - 1
      BY <2>1
    <3> HIDE DEF x
    <3>2. entry(x) = b.array[IF x < b.count THEN x ELSE x - b.count]
      BY <1>5, <3>1
    <3> QED BY <1>2, <2>1, <3>2 DEF x
  <2> QED BY <2>2, <2>3, <2>4, <2>5 DEF Index, Around
<1> QED BY <1>1, <1>6, <1>7, <1>8 DEF g

(* Making room keeps the segments and their order, wherever in the array   *)
(* they wrap round.                                                        *)
LEMMA RoomyHolds ==
  ASSUME NEW b, IsBuffer(b)
  PROVE  /\ IsBuffer(Roomy(b)) /\ GetSegmentCount(b) < Roomy(b).count - 1
         /\ GetSegmentCount(Roomy(b)) = GetSegmentCount(b)
         /\ \A i \in 0 .. GetSegmentCount(b) - 1 : GetSegment(Roomy(b), i) = GetSegment(b, i)
<1>0. b.count \in Nat \ {0} /\ GetSegmentCount(b) \in 0 .. b.count - 1
  BY CountIs DEF IsBuffer
<1>1. CASE IsFull(b)
  <2>1. Roomy(b) = Grown(b)
    BY <1>1 DEF Roomy
  <2>2. Grown(b).count = 2 * b.count
    BY <1>1, GrownHolds
  <2>3. GetSegmentCount(b) < Grown(b).count - 1
    BY <1>0, <1>1, <2>2, FullIs
  <2> QED BY <1>1, <2>1, <2>3, GrownHolds
<1>2. CASE ~IsFull(b)
  <2>1. Roomy(b) = b
    BY <1>2 DEF Roomy
  <2>2. GetSegmentCount(b) # b.count - 1
    BY <1>2, FullIs
  <2> QED BY <1>0, <2>1, <2>2
<1> QED BY <1>1, <1>2

LEMMA NextIndex ==
  ASSUME NEW b, IsBuffer(b), NEW x \in 0 .. b.count - 1
  PROVE  ModSegArraySize(b, x + 1) = IF x + 1 < b.count THEN x + 1 ELSE 0
<1>0. b.count \in Nat \ {0}
  BY DEF IsBuffer
<1>1. CASE x + 1 < b.count
  <2>1. x + 1 \in 0 .. b.count - 1
    BY <1>0, <1>1
  <2> QED BY <1>0, <1>1, <2>1, Wraps DEF ModSegArraySize
<1>2. CASE x + 1 >= b.count
  <2>1. x + 1 = b.count /\ b.count \in b.count .. 2 * b.count - 1
    BY <1>0, <1>2
  <2>2. b.count % b.count = b.count - b.count
    BY <1>0, <2>1, Wraps
  <2> QED BY <1>0, <2>1, <2>2 DEF ModSegArraySize
<1> QED BY <1>0, <1>1, <1>2

(* AppendNewSegment adds a segment behind the others. *)
LEMMA AppendHolds ==
  ASSUME NEW b, IsBuffer(b), NEW seg \in Int
  PROVE  /\ IsBuffer(AppendNewSegment(b, seg))
         /\ GetSegmentCount(AppendNewSegment(b, seg)) = GetSegmentCount(b) + 1
         /\ \A i \in 0 .. GetSegmentCount(b) - 1 : GetSegment(AppendNewSegment(b, seg), i) = GetSegment(b, i)
         /\ GetSegment(AppendNewSegment(b, seg), GetSegmentCount(b)) = seg
<1> DEFINE r == Roomy(b)
           c == AppendNewSegment(b, seg)
           n == GetSegmentCount(b)
<1>1. /\ IsBuffer(r) /\ n < r.count - 1 /\ GetSegmentCount(r) = n
      /\ \A i \in 0 .. n - 1 : GetSegment(r, i) = GetSegment(b, i)
  BY RoomyHolds
<1>2. c = [r EXCEPT !.array[r.last] = seg, !.last = ModSegArraySize(r, r.last + 1)]
  BY DEF AppendNewSegment
<1>3. n \in Nat
  BY CountIs DEF IsBuffer
<1> HIDE DEF r, c, n
<1>4. /\ r.count \in Nat \ {0} /\ r.array \in [0 .. r.count - 1 -> Int]
      /\ r.first \in 0 .. r.count - 1 /\ r.last \in 0 .. r.count - 1
      /\ r = [array |-> r.array, count |-> r.count, first |-> r.first, last |-> r.last]
  BY <1>1 DEF IsBuffer
<1>5. ModSegArraySize(r, r.last + 1) = IF r.last + 1 < r.count THEN r.last + 1 ELSE 0
  BY <1>1, <1>4, NextIndex
<1>6. c = [array |-> [r.array EXCEPT ![r.last] = seg], count |-> r.count, first |-> r.first,
           last |-> IF r.last + 1 < r.count THEN r.last + 1 ELSE 0]
  <2> DEFINE a == [r.array EXCEPT ![r.last] = seg]
             l == IF r.last + 1 < r.count THEN r.last + 1 ELSE 0
  <2>1. c = [r EXCEPT !.array = a, !.last = l]
    BY <1>2, <1>5
  <2> HIDE DEF a, l
  <2>2. c = [array |-> a, count |-> r.count, first |-> r.first, last |-> l]
    BY <1>4, <2>1
  <2> QED BY <2>2 DEF a, l
<1>7. IsBuffer(c)
  BY <1>4, <1>6 DEF IsBuffer
<1>8. GetSegmentCount(c) = n + 1
  <2>1. n = Between(r.first, r.last, r.count)
    BY <1>1 DEF GetSegmentCount, Between
  <2>2. Between(r.first, IF r.last + 1 < r.count THEN r.last + 1 ELSE 0, r.count) = n + 1
    BY <1>1, <1>4, <2>1, OneMore
  <2>3. c.first = r.first /\ c.count = r.count /\ c.last = IF r.last + 1 < r.count THEN r.last + 1 ELSE 0
    BY <1>6
  <2>4. GetSegmentCount(c) = Between(c.first, c.last, c.count)
    BY DEF GetSegmentCount, Between
  <2> QED BY <2>2, <2>3, <2>4
<1>9. \A i \in 0 .. n : Index(c, i) = Index(r, i) /\ GetSegment(c, i) = c.array[Index(r, i)]
                        /\ GetSegment(r, i) = r.array[Index(r, i)] /\ Index(r, i) \in 0 .. r.count - 1
  <2>1. \A i \in 0 .. n : i \in 0 .. c.count /\ i \in 0 .. r.count /\ Index(c, i) = Index(r, i)
    BY <1>1, <1>3, <1>4, <1>6 DEF Index, Around
  <2> QED BY <1>1, <1>7, <2>1, GetSegmentIs
<1>10. ASSUME NEW i \in 0 .. n - 1 PROVE GetSegment(c, i) = GetSegment(b, i)
  <2>1. i \in 0 .. n /\ i # n /\ i \in 0 .. r.count - 1
    BY <1>1, <1>3, <1>4
  <2>2. Index(r, i) # r.last
    BY <1>1, <2>1, CountIs
  <2>3. c.array[Index(r, i)] = r.array[Index(r, i)]
    BY <1>4, <1>6, <1>9, <2>1, <2>2
  <2> QED BY <1>1, <1>9, <2>1, <2>3
<1>11. GetSegment(c, n) = seg
  <2>1. Index(r, n) = r.last
    BY <1>1, CountIs
  <2>2. n \in 0 .. n
    BY <1>3
  <2> QED BY <1>4, <1>6, <1>9, <2>1, <2>2
<1> QED BY <1>7, <1>8, <1>10, <1>11 DEF c, n

(* DeleteFirstSegment takes the first segment away. *)
LEMMA DeleteHolds ==
  ASSUME NEW b, IsBuffer(b), GetSegmentCount(b) > 0
  PROVE  /\ IsBuffer(DeleteFirstSegment(b))
         /\ GetSegmentCount(DeleteFirstSegment(b)) = GetSegmentCount(b) - 1
         /\ \A i \in 0 .. GetSegmentCount(b) - 2 : GetSegment(DeleteFirstSegment(b), i) = GetSegment(b, i + 1)
<1> DEFINE c == DeleteFirstSegment(b)
           n == GetSegmentCount(b)
           last == ModSegArraySize(b, b.last - 1)
           a == [b.array EXCEPT ![b.first] = Null]
<1>1. /\ b.count \in Nat \ {0} /\ b.array \in [0 .. b.count - 1 -> Int]
      /\ b.first \in 0 .. b.count - 1 /\ b.last \in 0 .. b.count - 1
      /\ b = [array |-> b.array, count |-> b.count, first |-> b.first, last |-> b.last]
  BY DEF IsBuffer
<1>2. n \in 1 .. b.count - 1 /\ n = IF b.first <= b.last THEN b.last - b.first ELSE b.count + b.last - b.first
  <2>1. n \in 0 .. b.count - 1 /\ n > 0
    BY CountIs
  <2> QED BY <1>1, <2>1 DEF GetSegmentCount
<1>3. last = IF b.last > 0 THEN b.last - 1 ELSE b.count - 1
  <2>1. CASE b.last > 0
    <3>1. b.last - 1 \in 0 .. b.count - 1
      BY <1>1, <2>1
    <3> QED BY <1>1, <2>1, <3>1, Wraps DEF ModSegArraySize
  <2>2. CASE b.last = 0
    BY <1>1, <2>2, Wraps DEF ModSegArraySize
  <2> QED BY <1>1, <2>1, <2>2
<1>4. a \in [0 .. b.count - 1 -> Int] /\ \A k \in 0 .. b.count - 1 : k # b.first => a[k] = b.array[k]
  BY <1>1 DEF Null
<1>5. c = IF b.first = last THEN [[b EXCEPT !.array = a] EXCEPT !.last = last]
          ELSE [[b EXCEPT !.array = a] EXCEPT !.first = ModSegArraySize(b, b.first + 1)]
  BY DEF DeleteFirstSegment
<1> HIDE DEF c, n, last, a
<1>6. ModSegArraySize(b, b.first + 1) = IF b.first + 1 < b.count THEN b.first + 1 ELSE 0
  BY <1>1, NextIndex
<1>7. CASE b.first = last
  <2>1. c = [array |-> a, count |-> b.count, first |-> b.first, last |-> last]
    BY <1>1, <1>5, <1>7
  <2>2. IsBuffer(c)
    BY <1>1, <1>4, <1>7, <2>1 DEF IsBuffer
  <2>3. n = 1 /\ GetSegmentCount(c) = 0
    BY <1>1, <1>2, <1>3, <1>7, <2>1 DEF GetSegmentCount
  <2>4. 0 .. n - 2 = {}
    BY <2>3
  <2> QED BY <2>2, <2>3, <2>4 DEF c, n
<1>8. CASE b.first # last
  <2> DEFINE f == IF b.first + 1 < b.count THEN b.first + 1 ELSE 0
  <2>1. c = [array |-> a, count |-> b.count, first |-> f, last |-> b.last]
    BY <1>1, <1>5, <1>6, <1>8
  <2>2. IsBuffer(c)
    BY <1>1, <1>4, <2>1 DEF IsBuffer
  <2>3. GetSegmentCount(c) = n - 1
    <3>1. n = Between(b.first, b.last, b.count) /\ n > 0
      BY <1>1, <1>2 DEF Between
    <3>2. Between(f, b.last, b.count) = n - 1
      BY <1>1, <3>1, OneFewer
    <3>3. c.first = f /\ c.count = b.count /\ c.last = b.last
      BY <2>1
    <3>4. GetSegmentCount(c) = Between(c.first, c.last, c.count)
      BY DEF GetSegmentCount, Between
    <3> HIDE DEF f
    <3> QED BY <3>2, <3>3, <3>4
  <2>4. ASSUME NEW i \in 0 .. n - 2 PROVE GetSegment(c, i) = GetSegment(b, i + 1)
    <3>1. i \in 0 .. c.count /\ i + 1 \in 0 .. b.count /\ i + 1 \in 1 .. b.count - 1
      <4>1. c.count = b.count /\ b.count \in Nat /\ n \in Nat /\ n <= b.count - 1
        BY <1>1, <1>2, <2>1
      <4> QED BY <4>1
    <3>2. GetSegment(c, i) = c.array[Index(c, i)] /\ GetSegment(b, i + 1) = b.array[Index(b, i + 1)]
          /\ Index(b, i + 1) \in 0 .. b.count - 1
      BY <2>2, <3>1, GetSegmentIs
    <3>3. Index(c, i) = Index(b, i + 1) /\ Index(b, i + 1) # b.first
      <4>1. c.first = f /\ c.count = b.count /\ i \in 0 .. b.count - 2
        BY <1>1, <1>2, <2>1
      <4>2. CASE b.first + 1 < b.count
        BY <1>1, <4>1, <4>2 DEF Index, Around
      <4>3. CASE b.first + 1 >= b.count
        BY <1>1, <4>1, <4>3 DEF Index, Around
      <4> QED BY <1>1, <4>2, <4>3
    <3> QED BY <1>4, <2>1, <3>2, <3>3
  <2> QED BY <2>2, <2>3, <2>4 DEF c, n
<1> QED BY <1>7, <1>8

LEMMA EmptyHolds == IsBuffer(EmptyBuffer) /\ GetSegmentCount(EmptyBuffer) = 0
BY InitialCountAssumption DEF EmptyBuffer, IsBuffer, GetSegmentCount, Null
--------------------------------------------------------------------------------
(* Plain types, calls and wake-ups *)

Place == {"idle", "loop", "copy", "advance", "wait", "asleep", "notified"}

LEMMA Limits ==
  /\ SegmentSize \in Nat /\ SegmentSize > 0 /\ SegmentCount \in Nat /\ SegmentCount > 0
  /\ MaxBytes \in Nat /\ UintRange \in Nat /\ UintRange > MaxBytes /\ UintRange > 0
  /\ \A n \in Counts : n \in Nat /\ n > 0
BY PipeAssumption

(* Notify changes nothing but that sleepers wake up. *)
LEMMA NotifiedIs ==
  ASSUME NEW p \in [End -> Place], NEW n \in Nat, NEW q \in Notified(p, n)
  PROVE  /\ q \in [End -> Place]
         /\ \A e \in End : q[e] = p[e] \/ (p[e] = "asleep" /\ q[e] = "notified")
<1> DEFINE asleep == {e \in End : p[e] = "asleep"}
<1>1. PICK w \in SUBSET asleep : q = [e \in End |-> IF e \in w THEN "notified" ELSE p[e]]
  BY DEF Notified
<1> QED BY <1>1 DEF Place

(* An action of one end, on the places and the locals of both. *)
LEMMA Ends == "in" \in End /\ "out" \in End /\ End = {"in", "out"} /\ "in" # "out"
BY DEF End

LEMMA CallsTyped ==
  ASSUME Calls, NEW e \in End
  PROVE  /\ call \in [End -> Call] /\ call[e] \in Call
         /\ call[e].count \in Nat /\ call[e].done \in Nat /\ call[e].segment \in Int
         /\ call[e].len \in Nat /\ call[e].orig \in Nat
<1>1. call \in [End -> Call]
  BY DEF Calls
<1>2. call[e] \in Call
  BY <1>1
<1> QED BY <1>1, <1>2 DEF Call

LEMMA NoCallIs == NoCall \in Call /\ NoCall.count = 0 /\ NoCall.len = 0 /\ NoCall.orig = 0
BY DEF NoCall, Call, Null

LEMMA InitPlain == Init => Plain
BY Ends, Limits, PipeAssumption DEF Init, Plain, PcOK, End

LEMMA PlacesTyped == Plain => pc \in [End -> Place]
BY DEF Plain, PcOK, Place

LEMMA Modulo ==
  ASSUME NEW x \in Int
  PROVE  x % UintRange \in 0 .. UintRange - 1
BY Limits

LEMMA ReaderPlain ==
  ASSUME Plain, Calls,
         \/ GetReadSegment \/ GetReadSegmentEmpty \/ InputWait \/ CopyOutRefused
         \/ (\E k \in 1..SegmentSize : CopyOut(k)) \/ \E n \in Counts : ReadSegments(n)
  PROVE  Plain'
<1>0. UNCHANGED <<mStatus, mAvailable, mWritable, mBlocking, mCallback, closedBy>>
  BY DEF GetReadSegment, GetReadSegmentEmpty, InputWait, CopyOutRefused, CopyOut, ReadSegments, streams, history
<1>1. pc' \in [End -> Place]
  BY PlacesTyped DEF GetReadSegment, GetReadSegmentEmpty, InputWait, CopyOutRefused, CopyOut, ReadSegments, Place
<1>2. owner' \in [End -> {"may_call", "told", "waits"}]
  BY DEF Plain, GetReadSegment, GetReadSegmentEmpty, InputWait, CopyOutRefused, CopyOut, ReadSegments
<1>3. mBlocked' \in [End -> BOOLEAN]
  <2>1. CASE InputWait
    <3>1. InputMustWait \in BOOLEAN
      BY DEF InputMustWait
    <3> QED BY <2>1, <3>1 DEF Plain, InputWait
  <2>2. CASE ~InputWait
    <3>1. mBlocked' = mBlocked
      BY <2>2 DEF GetReadSegment, GetReadSegmentEmpty, CopyOutRefused, CopyOut, ReadSegments, streams
    <3> QED BY <3>1 DEF Plain
  <2> QED BY <2>1, <2>2
<1> QED BY <1>0, <1>1, <1>2, <1>3 DEF Plain, PcOK, Place

LEMMA WriterPlain ==
  ASSUME Plain, Calls,
         \/ GetWriteSegment \/ GetWriteSegmentFull \/ GetWriteSegmentFailed \/ OutputWait \/ CopyInRefused
         \/ (\E k \in 1..SegmentSize : CopyIn(k)) \/ \E n \in Counts : WriteSegments(n)
  PROVE  Plain'
<1>0. UNCHANGED <<mStatus, mAvailable, mWritable, mBlocking, mCallback, closedBy>>
  BY DEF GetWriteSegment, GetWriteSegmentFull, GetWriteSegmentFailed, OutputWait, CopyInRefused, CopyIn, WriteSegments, streams, history
<1>1. pc' \in [End -> Place]
  BY PlacesTyped DEF GetWriteSegment, GetWriteSegmentFull, GetWriteSegmentFailed, OutputWait, CopyInRefused, CopyIn, WriteSegments, Returned, Place
<1>2. owner' \in [End -> {"may_call", "told", "waits"}]
  BY DEF Plain, GetWriteSegment, GetWriteSegmentFull, GetWriteSegmentFailed, OutputWait, CopyInRefused, CopyIn, WriteSegments
<1>3. mBlocked' \in [End -> BOOLEAN]
  <2>1. CASE OutputWait
    <3> DEFINE sleeps == pc["out"] = "wait" /\ OutputMustWait
    <3>1. sleeps \in BOOLEAN
      OBVIOUS
    <3> QED BY <2>1, <3>1 DEF Plain, OutputWait
  <2>2. CASE ~OutputWait
    <3>1. mBlocked' = mBlocked
      BY <2>2 DEF GetWriteSegment, GetWriteSegmentFull, GetWriteSegmentFailed, CopyInRefused, CopyIn, WriteSegments, streams
    <3> QED BY <3>1 DEF Plain
  <2> QED BY <2>1, <2>2
<1> QED BY <1>0, <1>1, <1>2, <1>3 DEF Plain, PcOK, Place

LEMMA ContinuedTyped ==
  ASSUME Plain, NEW e \in End
  PROVE  Continued(e, pc) \in [End -> Place]
BY PlacesTyped DEF Continued, Place

LEMMA AdvanceReadPlain ==
  ASSUME Plain, Calls, AdvanceReadCursor
  PROVE  Plain'
<1>1. mAvailable' \in 0 .. UintRange - 1
  <2>1. call["in"].orig - call["in"].len \in Int /\ mAvailable \in Int
    BY CallsTyped, Ends, Limits DEF Plain
  <2>2. mAvailable - (call["in"].orig - call["in"].len) \in Int
    BY <2>1
  <2> QED BY <2>2, Modulo DEF AdvanceReadCursor, Reduced
<1>2. mWritable' \in BOOLEAN
  BY DEF AdvanceReadCursor, Plain
<1>3. mCallback' \in [End -> {"none", "ready", "closure"}]
  BY DEF AdvanceReadCursor, Plain, Fired
<1>4. owner' \in [End -> {"may_call", "told", "waits"}]
  BY DEF AdvanceReadCursor, Plain, Called
<1>5. pc' \in [End -> Place]
  <2>1. \E n \in Nat : pc' \in Notified(Continued("in", pc), n)
    BY DEF AdvanceReadCursor, Notifies
  <2> QED BY <2>1, NotifiedIs, ContinuedTyped, Ends
<1>6. UNCHANGED <<mStatus, mBlocking, mBlocked, closedBy>>
  BY DEF AdvanceReadCursor, history
<1> QED BY <1>1, <1>2, <1>3, <1>4, <1>5, <1>6 DEF Plain, PcOK, Place

LEMMA AdvanceWritePlain ==
  ASSUME Plain, Calls, AdvanceWriteCursor
  PROVE  Plain'
<1>1. mAvailable' \in 0 .. UintRange - 1
  <2>1. call["out"].orig - call["out"].len \in Int /\ mAvailable \in Int
    BY CallsTyped, Ends, Limits DEF Plain
  <2>2. mAvailable + (call["out"].orig - call["out"].len) \in Int
    BY <2>1
  <2> QED BY <2>2, Modulo DEF AdvanceWriteCursor
<1>2. mWritable' \in BOOLEAN
  BY DEF AdvanceWriteCursor, Plain
<1>3. mCallback' \in [End -> {"none", "ready", "closure"}]
  BY DEF AdvanceWriteCursor, Plain, Fired
<1>4. owner' \in [End -> {"may_call", "told", "waits"}]
  BY DEF AdvanceWriteCursor, Plain, Called
<1>5. pc' \in [End -> Place]
  <2>1. \E n \in Nat : pc' \in Notified(Continued("out", pc), n)
    BY DEF AdvanceWriteCursor, Notifies
  <2> QED BY <2>1, NotifiedIs, ContinuedTyped, Ends
<1>6. UNCHANGED <<mStatus, mBlocking, mBlocked, closedBy>>
  BY DEF AdvanceWriteCursor
<1> QED BY <1>1, <1>2, <1>3, <1>4, <1>5, <1>6 DEF Plain, PcOK, Place

(* Closing wakes at most both ends. *)
LEMMA Closing ==
  ASSUME Plain, NEW e \in End, NEW r \in Reasons, OnPipeException(e, r)
  PROVE  \E W \in SUBSET End : /\ IsFiniteSet(W) /\ Cardinality(W) \in Nat
                               /\ W = {x \in IF AffectsInput(e) THEN End ELSE {"out"} : WakesOnException(x)}
                               /\ pc' \in Notified(pc, Cardinality(W))
<1> DEFINE W == {x \in IF AffectsInput(e) THEN End ELSE {"out"} : WakesOnException(x)}
<1>1. W \in SUBSET End
  BY DEF End
<1>2. IsFiniteSet(End)
  <2>1. End = {"in"} \cup {"out"}
    BY DEF End
  <2> QED BY <2>1, FS_Singleton, FS_Union
<1>3. IsFiniteSet(W) /\ Cardinality(W) \in Nat
  BY <1>1, <1>2, FS_Subset, FS_CardinalityType
<1>4. pc' \in Notified(pc, Cardinality(W))
  BY DEF OnPipeException
<1> QED BY <1>1, <1>3, <1>4

LEMMA ClosePlain ==
  ASSUME Plain, NEW e \in End, NEW r \in Reasons, CloseWithStatus(e, r)
  PROVE  Plain'
<1>0. OnPipeException(e, r)
  BY DEF CloseWithStatus
<1>1. mStatus' \in {"ok"} \cup Reasons /\ mAvailable' \in 0 .. UintRange - 1 /\ mWritable' \in BOOLEAN
  <2>1. mStatus' = r /\ mAvailable' \in {0, mAvailable} /\ mWritable' = FALSE
    BY <1>0 DEF OnPipeException
  <2>2. mAvailable' \in 0 .. UintRange - 1
    <3>1. mAvailable \in 0 .. UintRange - 1 /\ 0 \in 0 .. UintRange - 1
      BY Limits DEF Plain
    <3> QED BY <2>1, <3>1
  <2> QED BY <2>1, <2>2
<1>2. mCallback' \in [End -> {"none", "ready", "closure"}]
  BY <1>0 DEF OnPipeException, Plain
<1>3. owner' \in [End -> {"may_call", "told", "waits"}]
  BY <1>0 DEF OnPipeException, Plain
<1>4. pc' \in [End -> Place]
  BY <1>0, Closing, PlacesTyped, NotifiedIs
<1>5. closedBy' \in End \cup {"nobody"} /\ UNCHANGED <<mBlocking, mBlocked>>
  BY <1>0 DEF OnPipeException
<1> QED BY <1>1, <1>2, <1>3, <1>4, <1>5 DEF Plain, PcOK, Place

LEMMA AsyncWaitPlain ==
  ASSUME Plain, NEW e \in End, NEW f \in Flags(e), AsyncWait(e, f)
  PROVE  Plain'
<1>1. f \in {"none", "ready", "closure"}
  BY PipeAssumption DEF Flags
<1>2. mCallback' \in [End -> {"none", "ready", "closure"}]
  BY <1>1 DEF AsyncWait, Plain
<1>3. owner' \in [End -> {"may_call", "told", "waits"}]
  BY DEF AsyncWait, Plain
<1>4. UNCHANGED <<mStatus, mAvailable, mWritable, mBlocking, mBlocked, pc, closedBy>>
  BY DEF AsyncWait, history
<1> QED BY <1>2, <1>3, <1>4 DEF Plain, PcOK
--------------------------------------------------------------------------------
(* Where the segments are *)

Apart(a, b) == a + SegmentSize <= b \/ b + SegmentSize <= a

LEMMA Product ==
  ASSUME NEW a \in Nat, NEW b \in Nat, a <= b
  PROVE  a * SegmentSize <= b * SegmentSize /\ a * SegmentSize \in Nat /\ b * SegmentSize \in Nat
<1>1. b - a \in Nat /\ SegmentSize \in Nat
  BY Limits
<1>2. (b - a) * SegmentSize >= 0
  BY <1>1
<1>3. (b - a) * SegmentSize = b * SegmentSize - a * SegmentSize /\ a * SegmentSize \in Nat /\ b * SegmentSize \in Nat
  BY <1>1
<1> QED BY <1>2, <1>3

LEMMA Bases ==
  /\ MaxSize \in Nat /\ MaxSize = SegmentCount * SegmentSize
  /\ \A s \in Slot : Base(s) \in 0 .. MaxSize - SegmentSize
  /\ \A s, t \in Slot : s # t => Apart(Base(s), Base(t))
<1>1. MaxSize \in Nat /\ MaxSize = SegmentCount * SegmentSize
  BY Limits DEF MaxSize
<1>2. ASSUME NEW s \in Nat, NEW t \in Nat, s < t PROVE s * SegmentSize + SegmentSize <= t * SegmentSize
  <2>1. s + 1 \in Nat /\ s + 1 <= t
    BY <1>2
  <2>2. (s + 1) * SegmentSize <= t * SegmentSize
    BY <2>1, Product
  <2>3. (s + 1) * SegmentSize = s * SegmentSize + SegmentSize
    BY Limits
  <2> QED BY <2>2, <2>3
<1>3. ASSUME NEW s \in Slot PROVE Base(s) \in 0 .. MaxSize - SegmentSize
  <2>1. s \in Nat /\ s < SegmentCount /\ SegmentCount \in Nat
    BY Limits DEF Slot
  <2>2. s * SegmentSize + SegmentSize <= SegmentCount * SegmentSize
    BY <1>2, <2>1
  <2>3. s * SegmentSize \in Nat
    BY <2>1, Limits
  <2> QED BY <1>1, <2>2, <2>3, Limits DEF Base
<1>4. ASSUME NEW s \in Slot, NEW t \in Slot, s # t PROVE Apart(Base(s), Base(t))
  <2>1. s \in Nat /\ t \in Nat /\ (s < t \/ t < s)
    BY <1>4, Limits DEF Slot
  <2> QED BY <1>2, <2>1 DEF Apart, Base
<1> QED BY <1>1, <1>3, <1>4

LEMMA SizeIs ==
  ASSUME NEW n \in Nat
  PROVE  n * SegmentSize >= MaxSize <=> n >= SegmentCount
<1>1. CASE n >= SegmentCount
  <2>1. SegmentCount \in Nat /\ SegmentCount <= n
    BY <1>1, Limits
  <2>2. SegmentCount * SegmentSize <= n * SegmentSize
    BY <2>1, Product
  <2> QED BY <1>1, <2>2, Bases, Limits
<1>2. CASE n < SegmentCount
  <2>1. n \in Slot
    BY <1>2, Limits DEF Slot
  <2>2. Base(n) <= MaxSize - SegmentSize /\ Base(n) = n * SegmentSize /\ n * SegmentSize \in Nat
    BY <2>1, Bases, Limits DEF Base
  <2> QED BY <1>2, <2>2, Bases, Limits
<1> QED BY <1>1, <1>2, Limits

LEMMA SegmentsAre ==
  ASSUME Segments
  PROVE  /\ N \in 0 .. SegmentCount /\ mWriteSegment = N - 1 /\ mWriteSegment \in Int
         /\ \A i \in 0 .. N - 1 : Seg(i) \in 0 .. MaxSize - SegmentSize
         /\ \A i, j \in 0 .. N - 1 : i # j => Apart(Seg(i), Seg(j))
<1>1. N \in 0 .. SegmentCount /\ mWriteSegment = N - 1
  <2>1. N \in Nat
    BY CountIs DEF Segments, N, IsBuffer
  <2> QED BY <2>1, Limits DEF Segments
<1>2. \A i \in 0 .. N - 1 : Seg(i) \in 0 .. MaxSize - SegmentSize
  BY Bases DEF Segments
<1>3. ASSUME NEW i \in 0 .. N - 1, NEW j \in 0 .. N - 1, i # j PROVE Apart(Seg(i), Seg(j))
  <2>1. PICK s \in Slot : Seg(i) = Base(s)
    BY DEF Segments
  <2>2. PICK t \in Slot : Seg(j) = Base(t)
    BY DEF Segments
  <2>3. Seg(i) # Seg(j)
    BY <1>3 DEF Segments
  <2> QED BY <2>1, <2>2, <2>3, Bases
<1> QED BY <1>1, <1>2, <1>3

LEMMA CursorsTyped ==
  ASSUME Segments, Cursors
  PROVE  /\ mReadCursor \in -1 .. MaxSize /\ mReadLimit \in -1 .. MaxSize
         /\ mWriteCursor \in -1 .. MaxSize /\ mWriteLimit \in -1 .. MaxSize
<1>1. CASE N = 0
  BY <1>1, Bases DEF Cursors, Null
<1>2. CASE N # 0
  <2>1. 0 \in 0 .. N - 1 /\ N - 1 \in 0 .. N - 1
    BY <1>2, SegmentsAre
  <2>2. Seg(0) \in 0 .. MaxSize - SegmentSize /\ Seg(N - 1) \in 0 .. MaxSize - SegmentSize
    BY <2>1, SegmentsAre
  <2>3. /\ mReadCursor \in Seg(0) .. Seg(0) + SegmentSize - 1
        /\ mReadLimit = IF N = 1 THEN mWriteCursor ELSE Seg(0) + SegmentSize
        /\ mWriteLimit = Seg(N - 1) + SegmentSize
        /\ mWriteCursor \in Seg(N - 1) .. mWriteLimit
    BY <1>2 DEF Cursors, Last
  <2>4. mReadCursor \in -1 .. MaxSize /\ mWriteLimit \in -1 .. MaxSize /\ Seg(0) + SegmentSize \in -1 .. MaxSize
    BY <2>2, <2>3, Bases, Limits
  <2>5. mWriteCursor \in -1 .. MaxSize
    BY <2>2, <2>3, Bases, Limits
  <2> QED BY <2>3, <2>4, <2>5
<1> QED BY <1>1, <1>2

LEMMA TypedAll ==
  ASSUME Plain, Memory, Segments, Cursors
  PROVE  TypeOK
<1>1. {mReadCursor, mReadLimit, mWriteCursor, mWriteLimit} \subseteq -1..MaxSize
  BY CursorsTyped
<1>2. mWriteSegment \in -1..(SegmentCount - 1)
  BY SegmentsAre, Limits
<1>3. mem \in [0..(MaxSize - 1) -> 0..MaxBytes]
  BY DEF Memory
<1>4. /\ mStatus \in {"ok"} \cup Reasons
      /\ mAvailable \in 0..(UintRange - 1)
      /\ mWritable \in BOOLEAN
      /\ {mBlocking, mBlocked} \subseteq [End -> BOOLEAN]
      /\ owner \in [End -> {"may_call", "told", "waits"}]
      /\ mCallback \in [End -> {"none", "ready", "closure"}]
      /\ PcOK
      /\ closedBy \in End \cup {"nobody"}
  BY DEF Plain
<1> HIDE DEF PcOK
<1> QED BY <1>1, <1>2, <1>3, <1>4 DEF TypeOK
--------------------------------------------------------------------------------
(* What the actions that change the buffer do to the segments and cursors *)

(* GetWriteSegment with a new segment: the first one, or one behind the    *)
(* others.                                                                 *)
Appends ==
  /\ IsBuffer(mBuffer') /\ N' = N + 1 /\ N < SegmentCount /\ mWriteCursor = mWriteLimit
  /\ \A i \in 0 .. N - 1 : Seg(i)' = Seg(i) /\ Seg(i) # Last'
  /\ \E s \in Slot : Last' = Base(s)
  /\ mWriteSegment' = mWriteSegment + 1
  /\ mWriteCursor' = Last' /\ mWriteLimit' = Last' + SegmentSize
  /\ IF N = 0 THEN mReadCursor' = Last' /\ mReadLimit' = Last'
     ELSE mReadCursor' = mReadCursor /\ mReadLimit' = mReadLimit

(* GetWriteSegment in the segment that is there; it rolls back. *)
RollsBackTo ==
  /\ mBuffer' = mBuffer /\ N = 1 /\ mReadCursor = mWriteCursor /\ mWriteCursor # mWriteLimit
  /\ mWriteSegment' = mWriteSegment /\ mWriteLimit' = mWriteLimit
  /\ mReadCursor' = Seg(0) /\ mReadLimit' = Seg(0) /\ mWriteCursor' = Seg(0)

Stays ==
  /\ mBuffer' = mBuffer /\ mWriteSegment' = mWriteSegment
  /\ mReadCursor' = mReadCursor /\ mReadLimit' = mReadLimit
  /\ mWriteCursor' = mWriteCursor /\ mWriteLimit' = mWriteLimit

LEMMA GetWriteSegmentIs ==
  ASSUME Segments, Cursors, Calls, GetWriteSegment
  PROVE  /\ Appends \/ RollsBackTo \/ (Stays /\ mWriteCursor # mWriteLimit)
         /\ LET len == Smaller(mWriteLimit' - mWriteCursor', call["out"].count)
            IN call' = [call EXCEPT !["out"] = [call["out"] EXCEPT !.segment = mWriteCursor', !.len = len, !.orig = len]]
         /\ pc["out"] = "loop" /\ mStatus = "ok" /\ pc' = [pc EXCEPT !["out"] = "copy"]
         /\ UNCHANGED <<mem, streams, owner, history>>
<1>1. PICK seg \in IF NeedsSegment THEN FreeSegment ELSE {Null} :
        LET c == call["out"]
            b == IF NeedsSegment THEN AppendNewSegment(mBuffer, seg) ELSE mBuffer
            index == IF NeedsSegment THEN mWriteSegment + 1 ELSE mWriteSegment
            cursor == IF NeedsSegment THEN seg ELSE mWriteCursor
            limit == IF NeedsSegment THEN seg + SegmentSize ELSE mWriteLimit
            fresh == mReadCursor = Null
            back == RollsBack(IF fresh THEN cursor ELSE mReadCursor, cursor, index)
            start == IF back THEN GetSegment(b, 0) ELSE cursor
            len == Smaller(limit - start, c.count)
        IN /\ pc["out"] = "loop" /\ mStatus = "ok"
           /\ NeedsSegment => GetSize(mBuffer) < MaxSize
           /\ mBuffer' = b
           /\ mWriteSegment' = index /\ mWriteCursor' = start /\ mWriteLimit' = limit
           /\ mReadCursor' = IF fresh \/ back THEN start ELSE mReadCursor
           /\ mReadLimit' = IF fresh \/ back THEN start ELSE mReadLimit
           /\ call' = [call EXCEPT !["out"] = [c EXCEPT !.segment = start, !.len = len, !.orig = len]]
           /\ pc' = [pc EXCEPT !["out"] = "copy"]
           /\ UNCHANGED <<mem, streams, owner, history>>
  BY DEF GetWriteSegment
<1>2. N \in 0 .. SegmentCount /\ mWriteSegment = N - 1 /\ mWriteSegment \in Int
  BY SegmentsAre
<1>3. CASE NeedsSegment
  <2>0. seg \in FreeSegment
    BY <1>1, <1>3
  <2>1. PICK s \in Slot : seg = Base(s)
    BY <2>0 DEF FreeSegment
  <2>2. seg \in Int
    BY <2>1, Bases
  <2>3. mBuffer' = AppendNewSegment(mBuffer, seg) /\ IsBuffer(mBuffer)
    BY <1>1, <1>3 DEF Segments
  <2>4. /\ IsBuffer(mBuffer') /\ N' = N + 1 /\ Last' = seg
        /\ \A i \in 0 .. N - 1 : Seg(i)' = Seg(i)
    <3>1. /\ IsBuffer(mBuffer') /\ GetSegmentCount(mBuffer') = GetSegmentCount(mBuffer) + 1
          /\ \A i \in 0 .. GetSegmentCount(mBuffer) - 1 : GetSegment(mBuffer', i) = GetSegment(mBuffer, i)
          /\ GetSegment(mBuffer', GetSegmentCount(mBuffer)) = seg
      BY <2>2, <2>3, AppendHolds
    <3>2. GetSegmentCount(mBuffer') - 1 = GetSegmentCount(mBuffer)
      BY <1>2, <3>1 DEF N
    <3> QED BY <3>1, <3>2 DEF N, Seg, Last
  <2>5. \A i \in 0 .. N - 1 : Seg(i) # seg
    BY <2>0 DEF FreeSegment, Seg, N
  <2>6. N < SegmentCount
    <3>1. N * SegmentSize < MaxSize /\ N \in Nat /\ N * SegmentSize \in Nat
      BY <1>1, <1>2, <1>3, Limits DEF GetSize, N
    <3> QED BY <1>2, <3>1, SizeIs, Limits, Bases
  <2>7. CASE N = 0
    <3>1. mReadCursor = Null
      BY <2>7 DEF Cursors
    <3>2. mWriteSegment + 1 = 0 /\ GetSegment(mBuffer', 0) = seg
      <4>1. GetSegmentCount(mBuffer') - 1 = 0
        BY <1>2, <2>4, <2>7 DEF N
      <4> QED BY <1>2, <2>4, <2>7, <4>1 DEF Seg, Last, N
    <3>3. RollsBack(seg, seg, mWriteSegment + 1)
      BY <3>2 DEF RollsBack
    <3>4. /\ mWriteSegment' = mWriteSegment + 1 /\ mWriteCursor' = seg /\ mWriteLimit' = seg + SegmentSize
          /\ mReadCursor' = seg /\ mReadLimit' = seg
      BY <1>1, <1>3, <2>3, <3>1, <3>2, <3>3
    <3>5. Appends
      BY <1>3, <2>1, <2>4, <2>5, <2>6, <2>7, <3>4 DEF Appends, NeedsSegment
    <3> QED BY <1>1, <1>3, <3>3, <3>4, <3>5, <3>1, <3>2, <2>3
  <2>8. CASE N # 0
    <3>1. mReadCursor # Null
      <4>1. Seg(0) \in 0 .. MaxSize - SegmentSize /\ mReadCursor \in Seg(0) .. Seg(0) + SegmentSize - 1
        BY <1>2, <2>8, SegmentsAre DEF Cursors
      <4> QED BY <4>1 DEF Null
    <3>2. ~RollsBack(mReadCursor, seg, mWriteSegment + 1)
      BY <1>2, <2>8 DEF RollsBack
    <3>4. /\ mWriteSegment' = mWriteSegment + 1 /\ mWriteCursor' = seg /\ mWriteLimit' = seg + SegmentSize
          /\ mReadCursor' = mReadCursor /\ mReadLimit' = mReadLimit
      BY <1>1, <1>3, <2>3, <3>1, <3>2
    <3>5. Appends
      BY <1>3, <2>1, <2>4, <2>5, <2>6, <2>8, <3>4 DEF Appends, NeedsSegment
    <3> QED BY <1>1, <1>3, <3>1, <3>2, <3>4, <3>5
  <2> QED BY <2>7, <2>8
<1>4. CASE ~NeedsSegment
  <2>1. mBuffer' = mBuffer /\ mWriteSegment' = mWriteSegment /\ mWriteLimit' = mWriteLimit /\ mWriteCursor # mWriteLimit
    BY <1>1, <1>4 DEF NeedsSegment
  <2>2. N # 0
    BY <2>1 DEF Cursors
  <2>3. mReadCursor # Null
    <3>1. Seg(0) \in 0 .. MaxSize - SegmentSize /\ mReadCursor \in Seg(0) .. Seg(0) + SegmentSize - 1
      BY <1>2, <2>2, SegmentsAre DEF Cursors
    <3> QED BY <3>1 DEF Null
  <2>4. CASE RollsBack(mReadCursor, mWriteCursor, mWriteSegment)
    <3>1. N = 1 /\ mReadCursor = mWriteCursor
      BY <1>2, <2>4 DEF RollsBack
    <3>2. mWriteCursor' = Seg(0) /\ mReadCursor' = Seg(0) /\ mReadLimit' = Seg(0)
      BY <1>1, <1>4, <2>3, <2>4 DEF Seg
    <3>3. RollsBackTo
      BY <2>1, <3>1, <3>2 DEF RollsBackTo
    <3> QED BY <1>1, <1>4, <2>1, <2>3, <2>4, <3>2, <3>3
  <2>5. CASE ~RollsBack(mReadCursor, mWriteCursor, mWriteSegment)
    <3>1. mWriteCursor' = mWriteCursor /\ mReadCursor' = mReadCursor /\ mReadLimit' = mReadLimit
      BY <1>1, <1>4, <2>3, <2>5
    <3>2. Stays
      BY <2>1, <3>1 DEF Stays
    <3> QED BY <1>1, <1>4, <2>1, <2>3, <2>5, <3>1, <3>2
  <2> QED BY <2>4, <2>5
<1> QED BY <1>3, <1>4

(* AdvanceReadCursor, with what it reports read. *)
Reads(n) ==
  /\ mBuffer' = mBuffer /\ mem' = mem /\ mReadCursor' = mReadCursor + n
  /\ mReadCursor + n < mReadLimit \/ (mReadCursor + n = mReadLimit /\ N = 1 /\ mWriteCursor < mWriteLimit)
  /\ UNCHANGED <<mReadLimit, mWriteSegment, mWriteCursor, mWriteLimit, mWritable, mCallback>>

Drops(n) ==
  /\ mReadCursor + n = mReadLimit
  /\ N = 1 => mWriteCursor = mWriteLimit
  /\ N' = N - 1 /\ IsBuffer(mBuffer')
  /\ \A i \in 0 .. N - 2 : Seg(i)' = Seg(i + 1)
  /\ mem' = [a \in DOMAIN mem |-> IF a \in Segment(Seg(0)) THEN 0 ELSE mem[a]]
  /\ mWriteSegment' = mWriteSegment - 1
  /\ mWritable' = TRUE
  /\ mCallback' = Fired("out", FiresOnReady("out"))
  /\ IF N = 1
       THEN mReadCursor' = Null /\ mReadLimit' = Null /\ mWriteCursor' = Null /\ mWriteLimit' = Null
       ELSE /\ mReadCursor' = Seg(1) /\ mReadLimit' = IF N = 2 THEN mWriteCursor ELSE Seg(1) + SegmentSize
            /\ mWriteCursor' = mWriteCursor /\ mWriteLimit' = mWriteLimit /\ Last' = Last

LEMMA Inside ==
  ASSUME Segments, Cursors, N # 0
  PROVE  /\ N \in 1 .. SegmentCount /\ 0 \in 0 .. N - 1 /\ N - 1 \in 0 .. N - 1
         /\ Seg(0) \in 0 .. MaxSize - SegmentSize /\ Last \in 0 .. MaxSize - SegmentSize
         /\ N = 1 => Last = Seg(0)
         /\ mReadCursor \in Seg(0) .. Seg(0) + SegmentSize - 1 /\ mReadCursor <= mReadLimit
         /\ mReadLimit = IF N = 1 THEN mWriteCursor ELSE Seg(0) + SegmentSize
         /\ mWriteLimit = Last + SegmentSize
         /\ mWriteCursor \in Last .. mWriteLimit
         /\ mReadCursor \in Int /\ mReadLimit \in Int /\ mWriteCursor \in Int /\ mWriteLimit \in Int
<1>1. N \in 1 .. SegmentCount /\ 0 \in 0 .. N - 1 /\ N - 1 \in 0 .. N - 1
  BY SegmentsAre
<1>2. Seg(0) \in 0 .. MaxSize - SegmentSize /\ Last \in 0 .. MaxSize - SegmentSize
  BY <1>1, SegmentsAre DEF Last
<1>3. N = 1 => Last = Seg(0)
  BY DEF Last
<1> QED BY <1>1, <1>2, <1>3, CursorsTyped DEF Cursors

LEMMA HasCall ==
  ASSUME Segments, Cursors, Calls, NEW e \in End, pc[e] \in {"copy", "advance"}
  PROVE  /\ N # 0
         /\ call[e].orig - call[e].len \in Nat
         /\ pc[e] = "advance" => call[e].orig - call[e].len > 0
         /\ e = "in" => call[e].orig <= mReadLimit - mReadCursor
         /\ e = "out" => call[e].orig <= mWriteLimit - mWriteCursor
<1>1. call[e].len \in Nat /\ call[e].orig \in Nat
  BY CallsTyped
<1>2. CASE e = "in"
  <2>1. /\ call[e].orig \in 1 .. mReadLimit - mReadCursor /\ call[e].len \in 0 .. call[e].orig
        /\ pc[e] = "advance" => call[e].len < call[e].orig
    BY <1>2 DEF Calls, Holds
  <2>2. mReadLimit \in Int /\ mReadCursor \in Int
    BY CursorsTyped
  <2>3. N # 0
    BY <2>1, <2>2 DEF Cursors, Null
  <2> QED BY <1>1, <1>2, <2>1, <2>2, <2>3
<1>3. CASE e = "out"
  <2>1. /\ call[e].orig \in 1 .. mWriteLimit - mWriteCursor /\ call[e].len \in 0 .. call[e].orig
        /\ pc[e] = "advance" => call[e].len < call[e].orig
    BY <1>3 DEF Calls, Holds
  <2>2. mWriteLimit \in Int /\ mWriteCursor \in Int
    BY CursorsTyped
  <2>3. N # 0
    BY <2>1, <2>2 DEF Cursors, Null
  <2> QED BY <1>1, <1>3, <2>1, <2>2, <2>3
<1> QED BY <1>2, <1>3 DEF End

LEMMA AdvanceReadIs ==
  ASSUME Segments, Cursors, Calls, AdvanceReadCursor
  PROVE  LET n == call["in"].orig - call["in"].len
         IN /\ Reads(n) \/ Drops(n)
            /\ n \in Nat /\ n > 0 /\ n <= mReadLimit - mReadCursor /\ N # 0
            /\ pc["in"] = "advance"
            /\ mAvailable' = Reduced(n)
            /\ call' = Locals("in")
            /\ UNCHANGED <<mStatus, mBlocking, mBlocked, history>>
<1> DEFINE n == call["in"].orig - call["in"].len
           drops == mReadCursor + n = mReadLimit /\ ~StillWriting
           b == DeleteFirstSegment(mBuffer)
<1>1. pc["in"] = "advance" /\ mAvailable' = Reduced(n) /\ call' = Locals("in")
      /\ UNCHANGED <<mStatus, mBlocking, mBlocked, history>>
  BY DEF AdvanceReadCursor
<1>2. n \in Nat /\ n > 0 /\ n <= mReadLimit - mReadCursor /\ N # 0
  <2>1. n \in Nat /\ n > 0 /\ N # 0 /\ call["in"].orig <= mReadLimit - mReadCursor
    BY <1>1, HasCall, Ends
  <2>2. call["in"].len \in Nat /\ call["in"].orig \in Nat
    BY CallsTyped, Ends
  <2>3. mReadLimit \in Int /\ mReadCursor \in Int
    BY CursorsTyped
  <2> QED BY <2>1, <2>2, <2>3
<1>3. CASE ~drops
  <2>1. /\ mBuffer' = mBuffer /\ mem' = mem /\ mReadCursor' = mReadCursor + n
        /\ UNCHANGED <<mReadLimit, mWriteSegment, mWriteCursor, mWriteLimit, mWritable, mCallback>>
    BY <1>3 DEF AdvanceReadCursor, Fired
  <2>2. mReadCursor + n < mReadLimit \/ (mReadCursor + n = mReadLimit /\ N = 1 /\ mWriteCursor < mWriteLimit)
    <3>1. mWriteSegment = N - 1 /\ N \in Nat
      BY SegmentsAre
    <3> HIDE DEF n
    <3> QED BY <1>2, <1>3, <3>1, CursorsTyped DEF StillWriting
  <2>3. Reads(n)
    BY <2>1, <2>2 DEF Reads
  <2> QED BY <1>1, <1>2, <2>3
<1>4. CASE drops
  <2>0. N \in Nat /\ N > 0 /\ mWriteSegment = N - 1 /\ IsBuffer(mBuffer) /\ mWriteSegment \in Int
    BY <1>2, SegmentsAre DEF Segments
  <2>1. /\ mBuffer' = b /\ mWritable' = TRUE /\ mWriteSegment' = mWriteSegment - 1
        /\ mem' = [a \in DOMAIN mem |-> IF a \in Segment(Seg(0)) THEN 0 ELSE mem[a]]
        /\ mCallback' = Fired("out", FiresOnReady("out"))
    BY <1>4 DEF AdvanceReadCursor, Seg, Fired
  <2>2. /\ N' = N - 1 /\ IsBuffer(mBuffer')
        /\ \A i \in 0 .. N - 2 : Seg(i)' = Seg(i + 1)
    BY <2>0, <2>1, DeleteHolds DEF N, Seg
  <2>3. N = 1 => mWriteCursor = mWriteLimit
    <3>1. N = 1 => mWriteCursor \in Last .. mWriteLimit /\ mWriteLimit \in Int /\ Last \in Int
      BY Inside
    <3> QED BY <1>4, <2>0, <3>1 DEF StillWriting
  <2>4. IF N = 1
       THEN mReadCursor' = Null /\ mReadLimit' = Null /\ mWriteCursor' = Null /\ mWriteLimit' = Null
       ELSE /\ mReadCursor' = Seg(1) /\ mReadLimit' = IF N = 2 THEN mWriteCursor ELSE Seg(1) + SegmentSize
            /\ mWriteCursor' = mWriteCursor /\ mWriteLimit' = mWriteLimit /\ Last' = Last
    <3>1. CASE N = 1
      <4>1. mWriteSegment = 0
        BY <2>0, <3>1
      <4> QED BY <1>4, <3>1, <4>1 DEF AdvanceReadCursor
    <3>2. CASE N # 1
      <4>1. mWriteSegment # 0 /\ (mWriteSegment = 1 <=> N = 2)
        BY <2>0, <3>2
      <4>2. GetSegment(b, 0) = Seg(1)
        <5>1. 0 \in 0 .. N - 2
          BY <2>0, <3>2
        <5> QED BY <2>1, <2>2, <5>1 DEF Seg
      <4>3. /\ mReadCursor' = GetSegment(b, 0) /\ mWriteCursor' = mWriteCursor /\ mWriteLimit' = mWriteLimit
            /\ mReadLimit' = IF N = 2 THEN mWriteCursor ELSE GetSegment(b, 0) + SegmentSize
        BY <1>4, <4>1 DEF AdvanceReadCursor
      <4>4. Last' = Last
        <5>1. N - 2 \in 0 .. N - 2 /\ (N - 2) + 1 = N - 1 /\ (N - 1) - 1 = N - 2
          BY <2>0, <3>2
        <5>2. GetSegment(mBuffer', N - 2) = GetSegment(mBuffer, N - 1)
          BY <2>2, <5>1 DEF Seg
        <5> QED BY <2>2, <5>1, <5>2 DEF Last, Seg
      <4> QED BY <3>2, <4>2, <4>3, <4>4
    <3> QED BY <3>1, <3>2
  <2>5. Drops(n)
    BY <1>4, <2>1, <2>2, <2>3, <2>4 DEF Drops
  <2> QED BY <1>1, <1>2, <2>5
<1> QED BY <1>3, <1>4

SameSegments ==
  /\ N' = N /\ IsBuffer(mBuffer') /\ mWriteSegment' = mWriteSegment
  /\ \A i \in 0 .. N - 1 : Seg(i)' = Seg(i)
  /\ N # 0 => Last' = Last

LEMMA BufferSame ==
  ASSUME Segments, mBuffer' = mBuffer, mWriteSegment' = mWriteSegment
  PROVE  SameSegments
BY DEF Segments, SameSegments, N, Seg, Last

LEMMA RoomSame ==
  ASSUME Segments, GetWriteSegmentFull
  PROVE  SameSegments
<1>1. IsBuffer(mBuffer) /\ mWriteSegment' = mWriteSegment
  BY DEF Segments, GetWriteSegmentFull
<1>2. mBuffer' = mBuffer \/ mBuffer' = Roomy(mBuffer)
  BY DEF GetWriteSegmentFull
<1>3. CASE mBuffer' = mBuffer
  BY <1>1, <1>3, BufferSame
<1>4. CASE mBuffer' = Roomy(mBuffer)
  <2>1. /\ N' = N /\ IsBuffer(mBuffer') /\ \A i \in 0 .. N - 1 : Seg(i)' = Seg(i)
    BY <1>1, <1>4, RoomyHolds DEF N, Seg
  <2>2. N # 0 => Last' = Last
    <3>1. SUFFICES ASSUME N # 0 PROVE Last' = Last
      OBVIOUS
    <3>2. N - 1 \in 0 .. N - 1
      BY <3>1, SegmentsAre
    <3>3. GetSegment(mBuffer', N - 1) = GetSegment(mBuffer, N - 1)
      BY <2>1, <3>2 DEF Seg
    <3> QED BY <2>1, <3>3 DEF Last, Seg
  <2> QED BY <1>1, <2>1, <2>2 DEF SameSegments
<1> QED BY <1>2, <1>3, <1>4

LEMMA SegmentsSame ==
  ASSUME Segments, SameSegments
  PROVE  Segments'
BY DEF Segments, SameSegments

LEMMA SegmentsAppended ==
  ASSUME Segments, Appends
  PROVE  Segments'
<1>1. N \in Nat /\ N' = N + 1 /\ N < SegmentCount /\ mWriteSegment' = N' - 1
  BY SegmentsAre DEF Appends
<1>2. PICK s \in Slot : Last' = Base(s)
  BY DEF Appends
<1>3. \A i \in 0 .. N' - 1 : i \in 0 .. N - 1 \/ (i = N /\ Seg(i)' = Last')
  <2> SUFFICES ASSUME NEW i \in 0 .. N' - 1, i \notin 0 .. N - 1 PROVE i = N /\ Seg(i)' = Last'
    OBVIOUS
  <2>1. i = N /\ N' - 1 = i
    BY <1>1
  <2>2. GetSegment(mBuffer', N' - 1) = GetSegment(mBuffer', i)
    BY <2>1
  <2> QED BY <2>1, <2>2 DEF Last, Seg
<1>4. \A i \in 0 .. N - 1 : Seg(i)' = Seg(i) /\ Seg(i) # Last'
  BY DEF Appends
<1>5. \A i \in 0 .. N' - 1 : \E t \in Slot : Seg(i)' = Base(t)
  BY <1>2, <1>3, <1>4 DEF Segments
<1>6. ASSUME NEW i \in 0 .. N' - 1, NEW j \in 0 .. N' - 1, i # j PROVE Seg(i)' # Seg(j)'
  <2>1. CASE i \in 0 .. N - 1 /\ j \in 0 .. N - 1
    BY <1>4, <1>6, <2>1 DEF Segments
  <2>2. CASE i \in 0 .. N - 1 /\ j = N /\ Seg(j)' = Last'
    BY <1>4, <2>2
  <2>3. CASE j \in 0 .. N - 1 /\ i = N /\ Seg(i)' = Last'
    BY <1>4, <2>3
  <2> QED BY <1>3, <1>6, <2>1, <2>2, <2>3
<1>7. N' <= SegmentCount /\ IsBuffer(mBuffer')
  BY <1>1, Limits DEF Appends
<1> QED BY <1>1, <1>5, <1>6, <1>7 DEF Segments

LEMMA SegmentsDropped ==
  ASSUME Segments, NEW n, Drops(n), N # 0
  PROVE  Segments'
<1>1. N \in 1 .. SegmentCount /\ mWriteSegment = N - 1
  BY SegmentsAre
<1>2. N' = N - 1 /\ mWriteSegment' = N' - 1 /\ N' <= SegmentCount /\ IsBuffer(mBuffer')
  BY <1>1, Limits DEF Drops
<1>3. \A i \in 0 .. N' - 1 : i + 1 \in 0 .. N - 1 /\ Seg(i)' = Seg(i + 1)
  BY <1>1, <1>2 DEF Drops
<1>4. \A i \in 0 .. N' - 1 : \E t \in Slot : Seg(i)' = Base(t)
  BY <1>3 DEF Segments
<1>5. ASSUME NEW i \in 0 .. N' - 1, NEW j \in 0 .. N' - 1, i # j PROVE Seg(i)' # Seg(j)'
  <2>1. i + 1 # j + 1
    BY <1>5
  <2> QED BY <1>3, <2>1 DEF Segments
<1> QED BY <1>2, <1>4, <1>5 DEF Segments

LEMMA CursorsSame ==
  ASSUME Cursors, SameSegments, UNCHANGED <<mReadCursor, mReadLimit, mWriteCursor, mWriteLimit>>, Segments
  PROVE  Cursors'
<1>1. CASE N = 0
  BY <1>1 DEF Cursors, SameSegments
<1>2. CASE N # 0
  <2>1. Seg(0)' = Seg(0) /\ Last' = Last /\ N' = N
    BY <1>2, Inside DEF SameSegments
  <2> QED BY <1>2, <2>1 DEF Cursors
<1> QED BY <1>1, <1>2

LEMMA CursorsAppended ==
  ASSUME Segments, Cursors, Appends
  PROVE  Cursors'
<1>1. N \in Nat /\ N' = N + 1 /\ N' # 0
  BY SegmentsAre DEF Appends
<1>2. Last' \in Int /\ Last' + SegmentSize \in Int
  BY Bases, Limits DEF Appends
<1>3. CASE N = 0
  <2>1. Seg(0)' = Last'
    <3>1. N' - 1 = 0
      BY <1>1, <1>3
    <3> QED BY <3>1 DEF Last, Seg
  <2> QED BY <1>1, <1>2, <1>3, <2>1, Limits DEF Cursors, Appends
<1>4. CASE N # 0
  <2>1. Seg(0)' = Seg(0) /\ N' # 1
    BY <1>1, <1>4, Inside DEF Appends
  <2>2. mReadLimit = Seg(0) + SegmentSize
    <3>1. CASE N = 1
      BY <1>4, <3>1, Inside DEF Appends
    <3>2. CASE N # 1
      BY <1>4, <3>2 DEF Cursors
    <3> QED BY <3>1, <3>2
  <2> QED BY <1>1, <1>2, <1>4, <2>1, <2>2, Limits DEF Cursors, Appends
<1> QED BY <1>3, <1>4

LEMMA CursorsRolledBack ==
  ASSUME Segments, Cursors, RollsBackTo
  PROVE  Cursors'
<1>1. Seg(0)' = Seg(0) /\ Last' = Last /\ N' = N /\ N = 1 /\ Last = Seg(0)
  BY Inside DEF RollsBackTo, Seg, Last, N
<1>2. mWriteLimit = Seg(0) + SegmentSize /\ Seg(0) \in Int
  BY <1>1, Inside
<1> QED BY <1>1, <1>2, Limits DEF RollsBackTo, Cursors

LEMMA CursorsRead ==
  ASSUME Segments, Cursors, NEW n \in Nat, Reads(n), N # 0
  PROVE  Cursors'
<1>1. Seg(0)' = Seg(0) /\ Last' = Last /\ N' = N
  BY DEF Reads, Seg, Last, N
<1>2. /\ mReadCursor' = mReadCursor + n
      /\ UNCHANGED <<mReadLimit, mWriteCursor, mWriteLimit>>
      /\ mReadCursor + n < mReadLimit \/ (mReadCursor + n = mReadLimit /\ N = 1 /\ mWriteCursor < mWriteLimit)
  BY DEF Reads
<1>3. mReadCursor + n \in Seg(0) .. Seg(0) + SegmentSize - 1 /\ mReadCursor + n <= mReadLimit
  BY <1>2, Inside, Limits
<1> QED BY <1>1, <1>2, <1>3 DEF Cursors

LEMMA CursorsDropped ==
  ASSUME Segments, Cursors, NEW n \in Nat, Drops(n), N # 0
  PROVE  Cursors'
<1>0. N \in 1 .. SegmentCount /\ N' = N - 1
  BY Inside DEF Drops
<1>1. CASE N = 1
  BY <1>0, <1>1 DEF Drops, Cursors
<1>2. CASE N # 1
  <2>1. 0 \in 0 .. N - 2 /\ 1 \in 0 .. N - 1
    BY <1>0, <1>2
  <2>2. Seg(0)' = Seg(1) /\ Last' = Last /\ Seg(1) \in Int
    BY <1>2, <2>1, SegmentsAre DEF Drops
  <2>3. N = 2 => Last = Seg(1)
    BY DEF Last
  <2>4. /\ mReadCursor' = Seg(1) /\ mReadLimit' = IF N = 2 THEN mWriteCursor ELSE Seg(1) + SegmentSize
        /\ mWriteCursor' = mWriteCursor /\ mWriteLimit' = mWriteLimit
    BY <1>2 DEF Drops
  <2>5. mWriteLimit = Last + SegmentSize /\ mWriteCursor \in Last .. mWriteLimit /\ Last \in Int
    BY Inside
  <2>6. N' # 0 /\ (N' = 1 <=> N = 2)
    BY <1>0, <1>2
  <2> QED BY <2>2, <2>3, <2>4, <2>5, <2>6, Limits DEF Cursors
<1> QED BY <1>1, <1>2

LEMMA AdvanceWriteIs ==
  ASSUME Segments, Cursors, Calls, AdvanceWriteCursor
  PROVE  LET n == call["out"].orig - call["out"].len
         IN /\ n \in Nat /\ n > 0 /\ n <= mWriteLimit - mWriteCursor /\ N # 0 /\ pc["out"] = "advance"
            /\ mWriteCursor' = mWriteCursor + n
            /\ mReadLimit' = IF N = 1 THEN mWriteCursor + n ELSE mReadLimit
            /\ SameSegments /\ UNCHANGED <<mem, mBuffer, mReadCursor, mWriteLimit>>
            /\ mWritable' = (mWritable /\ ~(mWriteCursor + n = mWriteLimit /\ N = SegmentCount))
            /\ mAvailable' = (mAvailable + n) % UintRange
            /\ mCallback' = Fired("in", FiresOnReady("in"))
            /\ call' = Locals("out")
            /\ sent' = sent + n
            /\ UNCHANGED <<mStatus, mBlocking, mBlocked, received, closedBy>>
<1> DEFINE n == call["out"].orig - call["out"].len
<1>1. pc["out"] = "advance"
  BY DEF AdvanceWriteCursor
<1>2. n \in Nat /\ n > 0 /\ n <= mWriteLimit - mWriteCursor /\ N # 0
  <2>1. n \in Nat /\ n > 0 /\ N # 0 /\ call["out"].orig <= mWriteLimit - mWriteCursor
    BY <1>1, HasCall, Ends
  <2>2. call["out"].len \in Nat /\ call["out"].orig \in Nat
    BY CallsTyped, Ends
  <2>3. mWriteLimit \in Int /\ mWriteCursor \in Int
    BY CursorsTyped
  <2> QED BY <2>1, <2>2, <2>3
<1>3. ReadingInWriteSegment <=> N = 1
  BY <1>2, Inside, SegmentsAre DEF ReadingInWriteSegment
<1>4. SameSegments
  BY BufferSame DEF AdvanceWriteCursor
<1>5. GetSize(mBuffer) >= MaxSize <=> N = SegmentCount
  <2>1. N \in 0 .. SegmentCount /\ N \in Nat
    BY SegmentsAre
  <2>2. N * SegmentSize >= MaxSize <=> N >= SegmentCount
    BY <2>1, SizeIs
  <2> QED BY <2>1, <2>2, Limits DEF GetSize, N
<1> HIDE DEF n
<1> QED BY <1>1, <1>2, <1>3, <1>4, <1>5 DEF AdvanceWriteCursor, NowFull, n

LEMMA CursorsWritten ==
  ASSUME Segments, Cursors, Calls, AdvanceWriteCursor
  PROVE  Cursors'
<1> DEFINE n == call["out"].orig - call["out"].len
<1>1. /\ n \in Nat /\ n > 0 /\ n <= mWriteLimit - mWriteCursor /\ N # 0
      /\ mWriteCursor' = mWriteCursor + n
      /\ mReadLimit' = IF N = 1 THEN mWriteCursor + n ELSE mReadLimit
      /\ SameSegments /\ UNCHANGED <<mReadCursor, mWriteLimit>>
  BY AdvanceWriteIs
<1> HIDE DEF n
<1>2. Seg(0)' = Seg(0) /\ Last' = Last /\ N' = N
  BY <1>1, Inside DEF SameSegments
<1>3. mWriteCursor + n \in Last .. mWriteLimit /\ mReadCursor <= mReadLimit'
  BY <1>1, Inside
<1> QED BY <1>1, <1>2, <1>3 DEF Cursors
--------------------------------------------------------------------------------
(* What a call holds, from its first line to its last *)

LEMMA CallFields ==
  ASSUME NEW c \in Call
  PROVE  /\ c.count \in Nat /\ c.done \in Nat /\ c.segment \in Int /\ c.len \in Nat /\ c.orig \in Nat
         /\ c = [count |-> c.count, done |-> c.done, segment |-> c.segment, len |-> c.len, orig |-> c.orig]
BY DEF Call

LEMMA HeldOn ==
  ASSUME NEW p, NEW q, NEW c \in Call, NEW u \in Int, NEW v \in Int, NEW x \in Int, NEW y \in Int,
         Holds(p, c, u, v), q = p \/ (p = "asleep" /\ q = "notified"),
         p \in {"copy", "advance"} => x = u /\ y >= v
  PROVE  Holds(q, c, x, y)
<1>1. c.len \in Nat /\ c.orig \in Nat
  BY CallFields
<1>2. CASE p \in {"copy", "advance"}
  <2>1. q = p /\ x = u /\ y >= v
    BY <1>2
  <2> QED BY <1>1, <1>2, <2>1 DEF Holds
<1>3. CASE p \notin {"copy", "advance"}
  BY <1>3 DEF Holds
<1> QED BY <1>2, <1>3

LEMMA HeldIdle ==
  ASSUME NEW c, NEW u, NEW v
  PROVE  Holds("idle", c, u, v)
BY DEF Holds

LEMMA HeldWaiting ==
  ASSUME NEW c, NEW u, NEW v, c.count > 0, NEW p \in {"idle", "loop", "wait", "asleep", "notified"}
  PROVE  Holds(p, c, u, v)
BY DEF Holds

LEMMA Begun ==
  ASSUME NEW n \in Counts
  PROVE  /\ [NoCall EXCEPT !.count = n] \in Call
         /\ [NoCall EXCEPT !.count = n].count = n /\ n > 0 /\ n \in Nat
         /\ [NoCall EXCEPT !.count = n].len = 0 /\ [NoCall EXCEPT !.count = n].orig = 0
BY Limits DEF NoCall, Call, Null

LEMMA HandedOut ==
  ASSUME NEW c \in Call, NEW u \in Int, NEW v \in Int, v > u, c.count > 0
  PROVE  LET len == Smaller(v - u, c.count)
             d == [c EXCEPT !.segment = u, !.len = len, !.orig = len]
         IN /\ d \in Call /\ Holds("copy", d, u, v) /\ d.orig = d.len /\ d.count = c.count
            /\ d.len > 0 /\ d.segment = u
<1> DEFINE len == Smaller(v - u, c.count)
           d == [c EXCEPT !.segment = u, !.len = len, !.orig = len]
<1>1. len \in Nat /\ len > 0 /\ len <= c.count /\ len <= v - u
  BY CallFields DEF Smaller
<1> HIDE DEF len
<1>2. d \in Call
  BY <1>1 DEF Call
<1>3. d.count = c.count /\ d.segment = u /\ d.len = len /\ d.orig = len
  BY DEF Call
<1> HIDE DEF d
<1>4. Holds("copy", d, u, v)
  BY <1>1, <1>3 DEF Holds
<1> QED BY <1>1, <1>2, <1>3, <1>4 DEF len, d

LEMMA CopiedIs ==
  ASSUME NEW c \in Call, NEW u \in Int, NEW v \in Int, Holds("copy", c, u, v), NEW k \in Nat, k > 0, k <= c.len
  PROVE  /\ Copied(c, k) \in Call
         /\ Holds(IF k = c.len THEN "advance" ELSE "copy", Copied(c, k), u, v)
         /\ Copied(c, k).orig - Copied(c, k).len = (c.orig - c.len) + k
         /\ Copied(c, k).count = c.count - k /\ Copied(c, k).orig = c.orig
<1> DEFINE d == Copied(c, k)
<1>1. /\ c.orig \in 1 .. v - u /\ c.len \in 0 .. c.orig /\ c.segment = u + (c.orig - c.len)
      /\ c.len > 0 /\ c.len <= c.count
  BY DEF Holds
<1>2. c.count - k \in Nat /\ c.done + k \in Nat /\ c.segment + k \in Int /\ c.len - k \in Nat
  BY <1>1, CallFields
<1>3. d \in Call /\ d.count = c.count - k /\ d.len = c.len - k /\ d.orig = c.orig /\ d.segment = c.segment + k
  <2> DEFINE a == c.len - k
             b == c.count - k
             f == c.done + k
             g == c.segment + k
  <2>1. d = [c EXCEPT !.segment = g, !.len = a, !.count = b, !.done = f]
    BY DEF Copied
  <2>2. a \in Nat /\ b \in Nat /\ f \in Nat /\ g \in Int
    BY <1>2
  <2> HIDE DEF d, a, b, f, g
  <2>3. d \in Call
    BY <2>1, <2>2 DEF Call
  <2>4. d.count = b /\ d.len = a /\ d.orig = c.orig /\ d.segment = g
    BY <2>1 DEF Call
  <2> QED BY <2>3, <2>4 DEF a, b, g
<1> HIDE DEF d
<1>4. CASE k = c.len
  <2>1. Holds("advance", d, u, v)
    BY <1>1, <1>3, <1>4, CallFields DEF Holds
  <2> QED BY <1>1, <1>3, <1>4, <2>1, CallFields DEF d
<1>5. CASE k # c.len
  <2>1. Holds("copy", d, u, v)
    BY <1>1, <1>3, <1>5, CallFields DEF Holds
  <2> QED BY <1>1, <1>3, <1>5, <2>1, CallFields DEF d
<1> QED BY <1>4, <1>5

LEMMA RefusedIs ==
  ASSUME NEW c \in Call, NEW u \in Int, NEW v \in Int, Holds("copy", c, u, v), c.len < c.orig
  PROVE  LET d == [c EXCEPT !.count = 0]
         IN d \in Call /\ Holds("advance", d, u, v) /\ d.orig = c.orig /\ d.len = c.len /\ d.count = 0
<1> DEFINE d == [c EXCEPT !.count = 0]
<1>1. d = [count |-> 0, done |-> c.done, segment |-> c.segment, len |-> c.len, orig |-> c.orig]
  BY CallFields
<1> HIDE DEF d
<1>2. d \in Call /\ d.count = 0 /\ d.len = c.len /\ d.orig = c.orig /\ d.segment = c.segment
  BY <1>1, CallFields DEF Call
<1>3. Holds("advance", d, u, v)
  BY <1>2 DEF Holds
<1> QED BY <1>2, <1>3 DEF d

LEMMA ContinuedIs ==
  ASSUME NEW c \in Call
  PROVE  LET d == [c EXCEPT !.segment = Null, !.len = 0, !.orig = 0]
         IN d \in Call /\ d.count = c.count /\ d.len = 0 /\ d.orig = 0
<1> DEFINE d == [c EXCEPT !.segment = Null, !.len = 0, !.orig = 0]
<1>0. Null \in Int /\ 0 \in Nat
  BY DEF Null
<1>1. d \in Call
  BY <1>0 DEF Call
<1>2. d.count = c.count /\ d.len = 0 /\ d.orig = 0
  BY DEF Call
<1> QED BY <1>1, <1>2

(* A step of one end, with the buffer as it was. *)
OneEnd(e, p, c) == pc' = [pc EXCEPT ![e] = p] /\ call' = [call EXCEPT ![e] = c]

LEMMA TakenIs == Taken = Moved(pc["in"], call["in"])
BY DEF Taken, Moved

LEMMA OneEndIs ==
  ASSUME Plain, Calls, NEW e \in End, NEW p \in Place, NEW c \in Call, OneEnd(e, p, c)
  PROVE  /\ pc'[e] = p /\ call'[e] = c
         /\ \A x \in End \ {e} : pc'[x] = pc[x] /\ call'[x] = call[x]
         /\ call' \in [End -> Call]
BY PlacesTyped, CallsTyped DEF OneEnd

Positions == UNCHANGED <<mReadCursor, mReadLimit, mWriteCursor, mWriteLimit>>

LEMMA CallsIn ==
  ASSUME Plain, Calls, Segments, Cursors, Positions, NEW p \in Place, NEW c \in Call, OneEnd("in", p, c),
         Holds(p, c, mReadCursor, mReadLimit)
  PROVE  Calls'
<1>1. pc'["in"] = p /\ call'["in"] = c /\ pc'["out"] = pc["out"] /\ call'["out"] = call["out"] /\ call' \in [End -> Call]
  BY OneEndIs, Ends
<1> QED BY <1>1 DEF Calls, Positions

LEMMA CallsOut ==
  ASSUME Plain, Calls, Segments, Cursors, Positions, NEW p \in Place, NEW c \in Call, OneEnd("out", p, c),
         Holds(p, c, mWriteCursor, mWriteLimit)
  PROVE  Calls'
<1>1. pc'["out"] = p /\ call'["out"] = c /\ pc'["in"] = pc["in"] /\ call'["in"] = call["in"] /\ call' \in [End -> Call]
  BY OneEndIs, Ends
<1> QED BY <1>1 DEF Calls, Positions

LEMMA SameCall == ASSUME Calls, NEW e \in End PROVE [call EXCEPT ![e] = call[e]] = call
BY CallsTyped

(* The reader's steps that take no byte. *)
LEMMA ReaderCall ==
  ASSUME Plain, Calls, Segments, Cursors,
         \/ GetReadSegment \/ GetReadSegmentEmpty \/ InputWait \/ CopyOutRefused
         \/ \E n \in Counts : ReadSegments(n)
  PROVE  \E p \in Place, c \in Call :
           OneEnd("in", p, c) /\ Holds(p, c, mReadCursor, mReadLimit) /\ Moved(p, c) = Taken
<1>0. /\ call["in"] \in Call /\ Holds(pc["in"], call["in"], mReadCursor, mReadLimit)
      /\ [call EXCEPT !["in"] = call["in"]] = call
      /\ mReadCursor \in Int /\ mReadLimit \in Int
  BY CallsTyped, Ends, SameCall, CursorsTyped DEF Calls
<1>1. CASE GetReadSegment
  <2> DEFINE len == Smaller(mReadLimit - mReadCursor, call["in"].count)
             d == [call["in"] EXCEPT !.segment = mReadCursor, !.len = len, !.orig = len]
  <2>1. OneEnd("in", "copy", d) /\ pc["in"] = "loop" /\ mReadCursor # mReadLimit
    BY <1>1 DEF GetReadSegment, OneEnd, NothingToRead
  <2>2. mReadLimit > mReadCursor
    BY <1>0, <2>1, Inside DEF Cursors
  <2>3. call["in"].count > 0
    BY <1>0, <2>1 DEF Holds
  <2>4. d \in Call /\ Holds("copy", d, mReadCursor, mReadLimit) /\ d.orig = d.len /\ d.len \in Nat
    <3>1. /\ d \in Call /\ Holds("copy", d, mReadCursor, mReadLimit) /\ d.orig = d.len
      BY <1>0, <2>2, <2>3, HandedOut, ZenonT(60)
    <3> HIDE DEF d, len
    <3> QED BY <3>1, CallFields
  <2> HIDE DEF d, len
  <2>5. Moved("copy", d) = 0 /\ Taken = 0 /\ "copy" \in Place
    BY <2>1, <2>4 DEF Moved, Taken, Place
  <2> QED BY <2>1, <2>4, <2>5
<1>2. CASE GetReadSegmentEmpty
  <2>1. pc["in"] = "loop" /\ Taken = 0
    BY <1>2 DEF GetReadSegmentEmpty, Taken
  <2>2. OneEnd("in", "wait", call["in"]) \/ OneEnd("in", "idle", NoCall)
    BY <1>0, <1>2 DEF GetReadSegmentEmpty, OneEnd, Finished
  <2>3. Holds("wait", call["in"], mReadCursor, mReadLimit) /\ Holds("idle", NoCall, mReadCursor, mReadLimit)
    BY <1>0, <2>1 DEF Holds
  <2>4. Moved("wait", call["in"]) = 0 /\ Moved("idle", NoCall) = 0 /\ "wait" \in Place /\ "idle" \in Place
    BY DEF Moved, Place
  <2> QED BY <1>0, <2>1, <2>2, <2>3, <2>4, NoCallIs
<1>3. CASE InputWait
  <2>1. pc["in"] \in {"wait", "notified"} /\ Taken = 0
    BY <1>3 DEF InputWait, Taken
  <2>2. OneEnd("in", "asleep", call["in"]) \/ OneEnd("in", "loop", call["in"]) \/ OneEnd("in", "idle", NoCall)
    BY <1>0, <1>3 DEF InputWait, OneEnd, Finished
  <2>3. /\ Holds("asleep", call["in"], mReadCursor, mReadLimit) /\ Holds("loop", call["in"], mReadCursor, mReadLimit)
        /\ Holds("idle", NoCall, mReadCursor, mReadLimit)
    BY <1>0, <2>1 DEF Holds
  <2>4. /\ Moved("asleep", call["in"]) = 0 /\ Moved("loop", call["in"]) = 0 /\ Moved("idle", NoCall) = 0
        /\ "asleep" \in Place /\ "loop" \in Place /\ "idle" \in Place
    BY DEF Moved, Place
  <2> QED BY <1>0, <2>1, <2>2, <2>3, <2>4, NoCallIs
<1>4. CASE CopyOutRefused
  <2> DEFINE d == [call["in"] EXCEPT !.count = 0]
  <2>1. pc["in"] = "copy" /\ Holds("copy", call["in"], mReadCursor, mReadLimit)
        /\ Taken = call["in"].orig - call["in"].len
    BY <1>0, <1>4 DEF CopyOutRefused, Taken
  <2>2. CASE call["in"].len < call["in"].orig
    <3>1. OneEnd("in", "advance", d)
      BY <1>4, <2>2 DEF CopyOutRefused, OneEnd
    <3>2. d \in Call /\ Holds("advance", d, mReadCursor, mReadLimit) /\ d.orig = call["in"].orig /\ d.len = call["in"].len
      BY <1>0, <2>1, <2>2, RefusedIs
    <3> HIDE DEF d
    <3>3. Moved("advance", d) = Taken /\ "advance" \in Place
      BY <2>1, <3>2 DEF Moved, Place
    <3> QED BY <3>1, <3>2, <3>3
  <2>3. CASE ~(call["in"].len < call["in"].orig)
    <3>1. OneEnd("in", "idle", NoCall)
      BY <1>4, <2>3 DEF CopyOutRefused, OneEnd, Finished
    <3>2. Moved("idle", NoCall) = 0 /\ "idle" \in Place
      BY DEF Moved, Place
    <3>3. Taken = 0
      BY <2>1, <2>3, <1>0, CallFields DEF Holds
    <3> QED BY <3>1, <3>2, <3>3, HeldIdle, NoCallIs
  <2> QED BY <2>2, <2>3
<1>5. ASSUME NEW n \in Counts, ReadSegments(n)
      PROVE  \E p \in Place, c \in Call :
               OneEnd("in", p, c) /\ Holds(p, c, mReadCursor, mReadLimit) /\ Moved(p, c) = Taken
  <2> DEFINE d == [NoCall EXCEPT !.count = n]
  <2>1. OneEnd("in", "loop", d) /\ Taken = 0
    BY <1>5 DEF ReadSegments, OneEnd, Taken
  <2>2. d \in Call /\ d.count > 0
    BY Begun
  <2> HIDE DEF d
  <2>3. Holds("loop", d, mReadCursor, mReadLimit) /\ Moved("loop", d) = 0 /\ "loop" \in Place
    BY <2>2 DEF Holds, Moved, Place
  <2> QED BY <2>1, <2>2, <2>3
<1> QED BY <1>1, <1>2, <1>3, <1>4, <1>5

LEMMA CopyOutCall ==
  ASSUME Plain, Calls, Segments, Cursors, NEW k \in 1..SegmentSize, CopyOut(k)
  PROVE  /\ pc["in"] = "copy" /\ k <= call["in"].len
         /\ \E p \in Place, c \in Call :
              OneEnd("in", p, c) /\ Holds(p, c, mReadCursor, mReadLimit) /\ Moved(p, c) = Taken + k
<1>0. /\ call["in"] \in Call /\ Holds(pc["in"], call["in"], mReadCursor, mReadLimit)
      /\ mReadCursor \in Int /\ mReadLimit \in Int /\ k \in Nat /\ k > 0
  BY CallsTyped, Ends, CursorsTyped, Limits DEF Calls
<1> DEFINE d == Copied(call["in"], k)
           p == IF k = call["in"].len THEN "advance" ELSE "copy"
<1>1. pc["in"] = "copy" /\ k <= call["in"].len /\ OneEnd("in", p, d)
  BY DEF CopyOut, OneEnd
<1>2. /\ d \in Call /\ Holds(p, d, mReadCursor, mReadLimit)
      /\ d.orig - d.len = (call["in"].orig - call["in"].len) + k
  BY <1>0, <1>1, CopiedIs
<1> HIDE DEF d
<1>3. Moved(p, d) = Taken + k /\ p \in Place
  BY <1>1, <1>2 DEF Moved, Taken, Place
<1> QED BY <1>1, <1>2, <1>3

(* The number of bytes a write in progress may still bring is bounded. *)
Within(p, c) == p # "idle" => sent + Moved(p, c) + c.count <= MaxBytes

LEMMA WithinNow ==
  ASSUME Bounded, Calls
  PROVE  /\ Within(pc["out"], call["out"]) /\ sent \in Nat /\ sent <= MaxBytes
         /\ \A p \in {"loop", "wait", "asleep", "notified"} :
              pc["out"] \in {"loop", "wait", "asleep", "notified"} => Within(p, call["out"])
<1>1. sent \in Nat /\ sent <= MaxBytes /\ Within(pc["out"], call["out"])
  BY Limits DEF Bounded, Within, Written
<1> QED BY <1>1 DEF Within, Moved

LEMMA WriterCall ==
  ASSUME Plain, Calls, Segments, Cursors, Bounded,
         \/ GetWriteSegmentFull \/ GetWriteSegmentFailed \/ OutputWait \/ CopyInRefused
         \/ \E n \in Counts : WriteSegments(n)
  PROVE  \E p \in Place, c \in Call :
           /\ OneEnd("out", p, c) /\ Holds(p, c, mWriteCursor, mWriteLimit)
           /\ Moved(p, c) = Written /\ Within(p, c)
<1>0. /\ call["out"] \in Call /\ Holds(pc["out"], call["out"], mWriteCursor, mWriteLimit)
      /\ [call EXCEPT !["out"] = call["out"]] = call
      /\ mWriteCursor \in Int /\ mWriteLimit \in Int
  BY CallsTyped, Ends, SameCall, CursorsTyped DEF Calls
<1>1. /\ Within(pc["out"], call["out"]) /\ sent \in Nat
      /\ \A p \in {"loop", "wait", "asleep", "notified"} :
           pc["out"] \in {"loop", "wait", "asleep", "notified"} => Within(p, call["out"])
  BY WithinNow
<1>2. /\ Moved("idle", NoCall) = 0 /\ Within("idle", NoCall) /\ Holds("idle", NoCall, mWriteCursor, mWriteLimit)
      /\ NoCall \in Call /\ "idle" \in Place
  BY NoCallIs, HeldIdle DEF Moved, Within, Place
<1>3. CASE GetWriteSegmentFull \/ GetWriteSegmentFailed
  <2>1. pc["out"] = "loop" /\ Written = 0
    BY <1>3 DEF GetWriteSegmentFull, GetWriteSegmentFailed, Written, Moved
  <2>2. OneEnd("out", "wait", call["out"]) \/ OneEnd("out", "idle", NoCall)
    BY <1>0, <1>3 DEF GetWriteSegmentFull, GetWriteSegmentFailed, OneEnd, Finished, Returned
  <2>3. Holds("wait", call["out"], mWriteCursor, mWriteLimit)
    BY <1>0, <2>1 DEF Holds
  <2>4. Moved("wait", call["out"]) = 0 /\ "wait" \in Place /\ Within("wait", call["out"])
    BY <1>1, <2>1 DEF Moved, Place
  <2> QED BY <1>0, <1>2, <2>1, <2>2, <2>3, <2>4
<1>4. CASE OutputWait
  <2>1. pc["out"] \in {"wait", "notified"} /\ Written = 0
    BY <1>4 DEF OutputWait, Written, Moved
  <2>2. OneEnd("out", "asleep", call["out"]) \/ OneEnd("out", "loop", call["out"]) \/ OneEnd("out", "idle", NoCall)
    BY <1>0, <1>4 DEF OutputWait, OneEnd, Finished
  <2>3. Holds("asleep", call["out"], mWriteCursor, mWriteLimit) /\ Holds("loop", call["out"], mWriteCursor, mWriteLimit)
    BY <1>0, <2>1 DEF Holds
  <2>4. /\ Moved("asleep", call["out"]) = 0 /\ Moved("loop", call["out"]) = 0
        /\ "asleep" \in Place /\ "loop" \in Place
    BY DEF Moved, Place
  <2>5. Within("asleep", call["out"]) /\ Within("loop", call["out"])
    BY <1>1, <2>1
  <2> QED BY <1>0, <1>2, <2>1, <2>2, <2>3, <2>4, <2>5
<1>5. CASE CopyInRefused
  <2> DEFINE d == [call["out"] EXCEPT !.count = 0]
  <2>1. pc["out"] = "copy" /\ Holds("copy", call["out"], mWriteCursor, mWriteLimit)
        /\ Written = call["out"].orig - call["out"].len
    BY <1>0, <1>5 DEF CopyInRefused, Written, Moved
  <2>2. CASE call["out"].len < call["out"].orig
    <3>1. OneEnd("out", "advance", d)
      BY <1>5, <2>2 DEF CopyInRefused, OneEnd
    <3>2. /\ d \in Call /\ Holds("advance", d, mWriteCursor, mWriteLimit) /\ d.orig = call["out"].orig
          /\ d.len = call["out"].len /\ d.count = 0
      BY <1>0, <2>1, <2>2, RefusedIs
    <3> HIDE DEF d
    <3>3. Moved("advance", d) = Written /\ "advance" \in Place
      BY <2>1, <3>2 DEF Moved, Place
    <3>4. sent + Written + call["out"].count <= MaxBytes
      BY <1>1, <2>1 DEF Within, Written
    <3>5. Within("advance", d)
      <4>1. call["out"].count \in Nat /\ Written \in Int
        BY <1>0, <2>1, CallFields
      <4> QED BY <1>1, <3>2, <3>3, <3>4, <4>1, Limits DEF Within
    <3> QED BY <3>1, <3>2, <3>3, <3>5
  <2>3. CASE ~(call["out"].len < call["out"].orig)
    <3>1. OneEnd("out", "idle", NoCall)
      BY <1>5, <2>3 DEF CopyInRefused, OneEnd, Finished
    <3>3. Written = 0
      BY <2>1, <2>3, <1>0, CallFields DEF Holds
    <3> QED BY <1>2, <3>1, <3>3
  <2> QED BY <2>2, <2>3
<1>6. ASSUME NEW n \in Counts, WriteSegments(n)
      PROVE  \E p \in Place, c \in Call :
               /\ OneEnd("out", p, c) /\ Holds(p, c, mWriteCursor, mWriteLimit)
               /\ Moved(p, c) = Written /\ Within(p, c)
  <2> DEFINE d == [NoCall EXCEPT !.count = n]
  <2>1. OneEnd("out", "loop", d) /\ Written = 0 /\ sent + n <= MaxBytes
    BY <1>6 DEF WriteSegments, OneEnd, Written, Moved
  <2>2. d \in Call /\ d.count = n /\ n > 0 /\ n \in Nat
    BY Begun
  <2> HIDE DEF d
  <2>3. Holds("loop", d, mWriteCursor, mWriteLimit) /\ Moved("loop", d) = 0 /\ "loop" \in Place
    BY <2>2 DEF Holds, Moved, Place
  <2>4. Within("loop", d)
    BY <1>1, <2>1, <2>2, <2>3 DEF Within
  <2> QED BY <2>1, <2>2, <2>3, <2>4
<1> QED BY <1>3, <1>4, <1>5, <1>6

LEMMA CopyInCall ==
  ASSUME Plain, Calls, Segments, Cursors, Bounded, NEW k \in 1..SegmentSize, CopyIn(k)
  PROVE  /\ pc["out"] = "copy" /\ k <= call["out"].len
         /\ \E p \in Place, c \in Call :
              /\ OneEnd("out", p, c) /\ Holds(p, c, mWriteCursor, mWriteLimit)
              /\ Moved(p, c) = Written + k /\ Within(p, c)
<1>0. /\ call["out"] \in Call /\ Holds(pc["out"], call["out"], mWriteCursor, mWriteLimit)
      /\ mWriteCursor \in Int /\ mWriteLimit \in Int /\ k \in Nat /\ k > 0
  BY CallsTyped, Ends, CursorsTyped, Limits DEF Calls
<1> DEFINE d == Copied(call["out"], k)
           p == IF k = call["out"].len THEN "advance" ELSE "copy"
<1>1. pc["out"] = "copy" /\ k <= call["out"].len /\ OneEnd("out", p, d)
  BY DEF CopyIn, OneEnd
<1>2. /\ d \in Call /\ Holds(p, d, mWriteCursor, mWriteLimit)
      /\ d.orig - d.len = (call["out"].orig - call["out"].len) + k /\ d.count = call["out"].count - k
  BY <1>0, <1>1, CopiedIs
<1> HIDE DEF d
<1>3. Moved(p, d) = Written + k /\ p \in Place
  BY <1>1, <1>2 DEF Moved, Written, Place
<1>4. sent + Written + call["out"].count <= MaxBytes /\ sent \in Nat
  BY <1>1, WithinNow DEF Within, Written
<1>5. Written \in Int /\ call["out"].count \in Nat
  BY <1>0, <1>1, CallFields DEF Written, Moved
<1>6. Within(p, d)
  <2> HIDE DEF p
  <2> QED BY <1>0, <1>2, <1>3, <1>4, <1>5 DEF Within
<1> QED BY <1>1, <1>2, <1>3, <1>6

(* An end that reported what it moved, and perhaps woke the other. *)
LEMMA AdvancedEnd ==
  ASSUME Plain, Calls, NEW e \in End, call' = Locals(e),
         NEW n \in Nat, pc' \in Notified(Continued(e, pc), n)
  PROVE  /\ call' \in [End -> Call] /\ call'[e].count = call[e].count
         /\ pc'[e] = (IF call[e].count = 0 THEN "idle" ELSE "loop")
         /\ \A u, v \in Int : Holds(pc'[e], call'[e], u, v)
         /\ Moved(pc'[e], call'[e]) = 0
         /\ \A x \in End \ {e} : call'[x] = call[x] /\ (pc'[x] = pc[x] \/ (pc[x] = "asleep" /\ pc'[x] = "notified"))
<1> DEFINE q == Continued(e, pc)
           d == [call[e] EXCEPT !.segment = Null, !.len = 0, !.orig = 0]
<1>1. q \in [End -> Place]
  BY ContinuedTyped
<1>2. q[e] = (IF call[e].count = 0 THEN "idle" ELSE "loop") /\ \A x \in End \ {e} : q[x] = pc[x]
  BY PlacesTyped DEF Continued
<1> HIDE DEF q
<1>3. \A x \in End : pc'[x] = q[x] \/ (q[x] = "asleep" /\ pc'[x] = "notified")
  BY <1>1, NotifiedIs DEF q
<1>4. call \in [End -> Call] /\ call[e] \in Call /\ call[e].count \in Nat
  BY CallsTyped
<1>5. d \in Call /\ d.count = call[e].count /\ d.len = 0 /\ d.orig = 0
  BY <1>4, ContinuedIs
<1>6. pc'[e] = (IF call[e].count = 0 THEN "idle" ELSE "loop")
  BY <1>2, <1>3
<1>7. Moved(pc'[e], call'[e]) = 0
  BY <1>6 DEF Moved
<1>8. \A x \in End \ {e} : pc'[x] = pc[x] \/ (pc[x] = "asleep" /\ pc'[x] = "notified")
  BY <1>2, <1>3
<1>9. call' = IF call[e].count = 0 THEN [call EXCEPT ![e] = NoCall] ELSE [call EXCEPT ![e] = d]
  BY DEF Locals, Finished
<1> HIDE DEF d
<1>10. call' \in [End -> Call] /\ call'[e].count = call[e].count /\ \A x \in End \ {e} : call'[x] = call[x]
  BY <1>4, <1>5, <1>9, NoCallIs
<1>11. \A u, v \in Int : Holds(pc'[e], call'[e], u, v)
  <2>1. CASE call[e].count = 0
    BY <1>6, <2>1, HeldIdle
  <2>2. CASE call[e].count # 0
    <3>1. call'[e].count > 0 /\ pc'[e] = "loop"
      BY <1>4, <1>6, <1>10, <2>2
    <3> QED BY <3>1, HeldWaiting
  <2> QED BY <2>1, <2>2
<1> QED BY <1>6, <1>7, <1>8, <1>10, <1>11

LEMMA AdvanceReadWakes ==
  ASSUME AdvanceReadCursor
  PROVE  \E n \in Nat : pc' \in Notified(Continued("in", pc), n)
BY DEF AdvanceReadCursor, Notifies

LEMMA AdvanceWriteWakes ==
  ASSUME AdvanceWriteCursor
  PROVE  \E n \in Nat : pc' \in Notified(Continued("out", pc), n)
BY DEF AdvanceWriteCursor, Notifies

LEMMA AdvanceReadCalls ==
  ASSUME Plain, Calls, Segments, Cursors, AdvanceReadCursor, Segments', Cursors'
  PROVE  /\ Calls' /\ Taken' = 0 /\ Written' = Written
         /\ call'["out"] = call["out"] /\ (pc'["out"] = pc["out"] \/ (pc["out"] = "asleep" /\ pc'["out"] = "notified"))
<1> DEFINE n == call["in"].orig - call["in"].len
<1>1. Reads(n) \/ Drops(n)
  BY AdvanceReadIs
<1> HIDE DEF n
<1>2. call' = Locals("in")
  BY AdvanceReadIs
<1>3. PICK m \in Nat : pc' \in Notified(Continued("in", pc), m)
  BY AdvanceReadWakes
<1>4. /\ call' \in [End -> Call]
      /\ \A u, v \in Int : Holds(pc'["in"], call'["in"], u, v)
      /\ Moved(pc'["in"], call'["in"]) = 0
      /\ \A x \in End \ {"in"} : call'[x] = call[x] /\ (pc'[x] = pc[x] \/ (pc[x] = "asleep" /\ pc'[x] = "notified"))
  BY <1>2, <1>3, AdvancedEnd, Ends
<1>5. call'["out"] = call["out"] /\ (pc'["out"] = pc["out"] \/ (pc["out"] = "asleep" /\ pc'["out"] = "notified"))
  BY <1>4, Ends
<1>6. /\ mReadCursor \in Int /\ mReadLimit \in Int /\ mWriteCursor \in Int /\ mWriteLimit \in Int
  BY CursorsTyped
<1>7. mReadCursor' \in Int /\ mReadLimit' \in Int /\ mWriteCursor' \in Int /\ mWriteLimit' \in Int
  <2>1. CASE Reads(n)
    <3>1. n \in Nat
      BY AdvanceReadIs DEF n
    <3> QED BY <1>6, <2>1, <3>1 DEF Reads
  <2>2. CASE Drops(n) /\ N = 1
    BY <2>2 DEF Drops, Null
  <2>3. CASE Drops(n) /\ N # 1
    <3>1. 1 \in 0 .. N - 1 /\ N # 0
      BY <2>3, AdvanceReadIs, SegmentsAre
    <3>2. Seg(1) \in Int
      BY <3>1, SegmentsAre
    <3> QED BY <1>6, <2>3, <3>2, Limits DEF Drops
  <2> QED BY <1>1, <2>1, <2>2, <2>3
<1>8. Holds(pc["out"], call["out"], mWriteCursor, mWriteLimit) /\ call["out"] \in Call
  BY CallsTyped, Ends DEF Calls
<1>9. pc["out"] \in {"copy", "advance"} => mWriteCursor' = mWriteCursor /\ mWriteLimit' >= mWriteLimit
  <2>1. CASE Reads(n)
    BY <1>6, <2>1 DEF Reads
  <2>2. CASE Drops(n) /\ N = 1
    <3>1. mWriteCursor = mWriteLimit
      BY <2>2 DEF Drops
    <3> QED BY <1>6, <1>8, <3>1 DEF Holds
  <2>3. CASE Drops(n) /\ N # 1
    BY <1>6, <2>3 DEF Drops
  <2> QED BY <1>1, <2>1, <2>2, <2>3
<1>10. Holds(pc'["out"], call'["out"], mWriteCursor', mWriteLimit')
  BY <1>5, <1>6, <1>7, <1>8, <1>9, HeldOn
<1>11. Holds(pc'["in"], call'["in"], mReadCursor', mReadLimit')
  BY <1>4, <1>7
<1>12. Calls'
  BY <1>4, <1>10, <1>11 DEF Calls
<1>13. Taken' = 0
  BY <1>4 DEF Moved, Taken
<1>14. Written' = Written
  BY <1>5 DEF Written, Moved
<1> QED BY <1>5, <1>12, <1>13, <1>14

LEMMA AdvanceWriteCalls ==
  ASSUME Plain, Calls, Segments, Cursors, AdvanceWriteCursor
  PROVE  /\ Calls' /\ Written' = 0 /\ Taken' = Taken
         /\ call'["out"].count = call["out"].count
         /\ call'["in"] = call["in"] /\ (pc'["in"] = pc["in"] \/ (pc["in"] = "asleep" /\ pc'["in"] = "notified"))
<1> DEFINE n == call["out"].orig - call["out"].len
<1>1. /\ call' = Locals("out") /\ n \in Nat /\ N # 0
      /\ mWriteCursor' = mWriteCursor + n
      /\ mReadLimit' = IF N = 1 THEN mWriteCursor + n ELSE mReadLimit
      /\ UNCHANGED <<mReadCursor, mWriteLimit>>
  BY AdvanceWriteIs
<1> HIDE DEF n
<1>3. PICK m \in Nat : pc' \in Notified(Continued("out", pc), m)
  BY AdvanceWriteWakes
<1>4. /\ call' \in [End -> Call] /\ call'["out"].count = call["out"].count
      /\ \A u, v \in Int : Holds(pc'["out"], call'["out"], u, v)
      /\ Moved(pc'["out"], call'["out"]) = 0
      /\ \A x \in End \ {"out"} : call'[x] = call[x] /\ (pc'[x] = pc[x] \/ (pc[x] = "asleep" /\ pc'[x] = "notified"))
  BY <1>1, <1>3, AdvancedEnd, Ends
<1>5. call'["in"] = call["in"] /\ (pc'["in"] = pc["in"] \/ (pc["in"] = "asleep" /\ pc'["in"] = "notified"))
  BY <1>4, Ends
<1>6. /\ mReadCursor \in Int /\ mReadLimit \in Int /\ mWriteCursor \in Int /\ mWriteLimit \in Int
      /\ (N = 1 => mReadLimit = mWriteCursor)
  BY <1>1, CursorsTyped, Inside
<1>7. mWriteCursor' \in Int /\ mWriteLimit' \in Int /\ mReadCursor' \in Int /\ mReadLimit' \in Int /\ mReadLimit' >= mReadLimit
  BY <1>1, <1>6
<1>8. Holds(pc["in"], call["in"], mReadCursor, mReadLimit) /\ call["in"] \in Call
  BY CallsTyped, Ends DEF Calls
<1>10. Holds(pc'["in"], call'["in"], mReadCursor', mReadLimit')
  BY <1>1, <1>5, <1>6, <1>7, <1>8, HeldOn
<1>11. Holds(pc'["out"], call'["out"], mWriteCursor', mWriteLimit')
  BY <1>4, <1>7
<1>12. Calls'
  BY <1>4, <1>10, <1>11 DEF Calls
<1>13. Taken' = Taken
  BY <1>5 DEF Taken
<1>14. Written' = 0
  BY <1>4 DEF Written
<1> QED BY <1>4, <1>5, <1>12, <1>13, <1>14

LEMMA GetWriteCalls ==
  ASSUME Plain, Calls, Segments, Cursors, GetWriteSegment, Segments', Cursors'
  PROVE  /\ Calls' /\ Written = 0 /\ Written' = 0 /\ Taken' = Taken
         /\ call'["out"].count = call["out"].count /\ pc["out"] = "loop" /\ pc'["out"] = "copy"
         /\ call'["in"] = call["in"] /\ pc'["in"] = pc["in"]
<1> DEFINE len == Smaller(mWriteLimit' - mWriteCursor', call["out"].count)
           d == [call["out"] EXCEPT !.segment = mWriteCursor', !.len = len, !.orig = len]
<1>1. /\ Appends \/ RollsBackTo \/ (Stays /\ mWriteCursor # mWriteLimit)
      /\ OneEnd("out", "copy", d) /\ pc["out"] = "loop"
  BY GetWriteSegmentIs DEF OneEnd
<1>2. call["out"] \in Call /\ call["out"].count > 0
  BY <1>1, CallsTyped, Ends DEF Calls, Holds
<1>3. /\ mReadCursor \in Int /\ mReadLimit \in Int /\ mWriteCursor \in Int /\ mWriteLimit \in Int
  BY CursorsTyped
<1>4. mWriteCursor' \in Int /\ mWriteLimit' \in Int /\ mWriteLimit' > mWriteCursor'
  <2>1. CASE Appends
    BY <2>1, Bases, Limits DEF Appends
  <2>2. CASE RollsBackTo
    <3>1. N = 1 /\ mWriteCursor' = Seg(0) /\ mWriteLimit' = mWriteLimit
      BY <2>2 DEF RollsBackTo
    <3> QED BY <3>1, Inside, Limits
  <2>3. CASE Stays /\ mWriteCursor # mWriteLimit
    <3>1. N # 0
      BY <2>3 DEF Cursors
    <3> QED BY <2>3, <3>1, Inside DEF Stays
  <2> QED BY <1>1, <2>1, <2>2, <2>3
<1>5. d \in Call /\ Holds("copy", d, mWriteCursor', mWriteLimit') /\ d.orig = d.len /\ d.count = call["out"].count
  BY <1>2, <1>4, HandedOut, ZenonT(60)
<1> HIDE DEF d
<1>6. /\ pc'["out"] = "copy" /\ call'["out"] = d /\ pc'["in"] = pc["in"] /\ call'["in"] = call["in"]
      /\ call' \in [End -> Call]
  <2>1. "copy" \in Place
    BY DEF Place
  <2> QED BY <1>1, <1>5, <2>1, OneEndIs, Ends
<1>7. mReadCursor' \in Int /\ mReadLimit' \in Int
  <2>1. CASE Appends
    BY <1>3, <2>1, Bases, Limits DEF Appends
  <2>2. CASE RollsBackTo
    <3>1. N = 1 /\ mReadCursor' = Seg(0) /\ mReadLimit' = Seg(0)
      BY <2>2 DEF RollsBackTo
    <3> QED BY <3>1, Inside
  <2>3. CASE Stays
    BY <1>3, <2>3 DEF Stays
  <2> QED BY <1>1, <2>1, <2>2, <2>3
<1>8. Holds(pc["in"], call["in"], mReadCursor, mReadLimit) /\ call["in"] \in Call
  BY CallsTyped, Ends DEF Calls
<1>9. pc["in"] \in {"copy", "advance"} => mReadCursor' = mReadCursor /\ mReadLimit' >= mReadLimit
  <2>1. CASE Appends
    <3>1. SUFFICES ASSUME pc["in"] \in {"copy", "advance"} PROVE N # 0
      BY <1>3, <2>1 DEF Appends
    <3> QED BY <3>1, HasCall, Ends
  <2>2. CASE RollsBackTo
    <3>1. mReadCursor = mReadLimit
      BY <2>2, Inside DEF RollsBackTo
    <3> QED BY <1>3, <1>8, <3>1 DEF Holds
  <2>3. CASE Stays
    BY <1>3, <2>3 DEF Stays
  <2> QED BY <1>1, <2>1, <2>2, <2>3
<1>10. Holds(pc'["in"], call'["in"], mReadCursor', mReadLimit')
  BY <1>3, <1>6, <1>7, <1>8, <1>9, HeldOn
<1>11. Calls'
  BY <1>5, <1>6, <1>10 DEF Calls
<1>12. Written = 0 /\ Written' = 0
  <2>1. d.orig \in Nat
    BY <1>5, CallFields
  <2> QED BY <1>1, <1>5, <1>6, <2>1 DEF Written, Moved
<1>13. Taken' = Taken
  BY <1>6 DEF Taken
<1> QED BY <1>1, <1>5, <1>6, <1>11, <1>12, <1>13
--------------------------------------------------------------------------------
(* The steps that move no byte and no cursor *)

Quiet ==
  \/ GetReadSegment \/ GetReadSegmentEmpty \/ InputWait \/ CopyOutRefused
  \/ GetWriteSegmentFull \/ GetWriteSegmentFailed \/ OutputWait \/ CopyInRefused
  \/ \E n \in Counts : ReadSegments(n) \/ WriteSegments(n)
  \/ \E e \in End : \/ \E r \in Reasons : CloseWithStatus(e, r)
                    \/ \E f \in Flags(e) : AsyncWait(e, f)

Unmoved ==
  /\ SameSegments /\ Positions /\ mem' = mem /\ sent' = sent /\ received' = received
  /\ Taken' = Taken /\ Written' = Written

LEMMA BoundedOut ==
  ASSUME Bounded, Plain, Calls, NEW p \in Place, NEW c \in Call, OneEnd("out", p, c), Within(p, c), sent' = sent
  PROVE  Bounded'
<1>1. pc'["out"] = p /\ call'["out"] = c
  BY OneEndIs, Ends
<1>2. Written' = Moved(p, c)
  BY <1>1 DEF Written
<1> QED BY <1>1, <1>2 DEF Bounded, Within

LEMMA BoundedOther ==
  ASSUME Bounded, call'["out"] = call["out"], pc'["out"] = pc["out"] \/ (pc["out"] = "asleep" /\ pc'["out"] = "notified"),
         sent' = sent
  PROVE  Bounded' /\ Written' = Written
<1>1. Written' = Written
  BY DEF Written, Moved
<1>2. pc'["out"] # "idle" => pc["out"] # "idle"
  OBVIOUS
<1> QED BY <1>1, <1>2 DEF Bounded

LEMMA QuietStep ==
  ASSUME Plain, Calls, Segments, Cursors, Bounded, Quiet
  PROVE  Unmoved /\ Calls' /\ Bounded'
<1>1. CASE \/ GetReadSegment \/ GetReadSegmentEmpty \/ InputWait \/ CopyOutRefused
           \/ \E n \in Counts : ReadSegments(n)
  <2>1. PICK p \in Place, c \in Call :
          OneEnd("in", p, c) /\ Holds(p, c, mReadCursor, mReadLimit) /\ Moved(p, c) = Taken
    BY <1>1, ReaderCall
  <2>2. UNCHANGED <<mem, mBuffer, mReadCursor, mReadLimit, mWriteSegment, mWriteCursor, mWriteLimit, sent, received>>
    BY <1>1 DEF GetReadSegment, GetReadSegmentEmpty, InputWait, CopyOutRefused, ReadSegments, buffer, history
  <2>3. SameSegments /\ Positions
    BY <2>2, BufferSame DEF Positions
  <2>4. Calls'
    BY <2>1, <2>3, CallsIn
  <2>5. pc'["in"] = p /\ call'["in"] = c /\ pc'["out"] = pc["out"] /\ call'["out"] = call["out"]
    BY <2>1, OneEndIs, Ends
  <2>6. Taken' = Taken
    BY <2>1, <2>5 DEF Taken, Moved
  <2>7. Bounded' /\ Written' = Written
    BY <2>2, <2>5, BoundedOther
  <2> QED BY <2>2, <2>3, <2>4, <2>6, <2>7 DEF Unmoved
<1>2. CASE \/ GetWriteSegmentFull \/ GetWriteSegmentFailed \/ OutputWait \/ CopyInRefused
           \/ \E n \in Counts : WriteSegments(n)
  <2>1. PICK p \in Place, c \in Call :
          /\ OneEnd("out", p, c) /\ Holds(p, c, mWriteCursor, mWriteLimit)
          /\ Moved(p, c) = Written /\ Within(p, c)
    BY <1>2, WriterCall
  <2>2. UNCHANGED <<mem, mReadCursor, mReadLimit, mWriteSegment, mWriteCursor, mWriteLimit, sent, received>>
    BY <1>2 DEF GetWriteSegmentFull, GetWriteSegmentFailed, OutputWait, CopyInRefused, WriteSegments, buffer, history
  <2>3. SameSegments
    <3>1. CASE GetWriteSegmentFull
      BY <3>1, RoomSame
    <3>2. CASE ~GetWriteSegmentFull
      <4>1. mBuffer' = mBuffer
        BY <1>2, <3>2 DEF GetWriteSegmentFailed, OutputWait, CopyInRefused, WriteSegments, buffer
      <4> QED BY <2>2, <4>1, BufferSame
    <3> QED BY <3>1, <3>2
  <2>4. Positions
    BY <2>2 DEF Positions
  <2>5. Calls'
    BY <2>1, <2>4, CallsOut
  <2>6. pc'["out"] = p /\ call'["out"] = c /\ pc'["in"] = pc["in"] /\ call'["in"] = call["in"]
    BY <2>1, OneEndIs, Ends
  <2>7. Written' = Written /\ Taken' = Taken
    BY <2>1, <2>6 DEF Written, Taken
  <2>8. Bounded'
    BY <2>1, <2>2, BoundedOut
  <2> QED BY <2>2, <2>3, <2>4, <2>5, <2>7, <2>8 DEF Unmoved
<1>3. ASSUME NEW e \in End, NEW r \in Reasons, CloseWithStatus(e, r)
      PROVE  Unmoved /\ Calls' /\ Bounded'
  <2>0. OnPipeException(e, r)
    BY <1>3 DEF CloseWithStatus
  <2>1. UNCHANGED <<mem, mBuffer, mReadCursor, mReadLimit, mWriteSegment, mWriteCursor, mWriteLimit, sent, received, call>>
    BY <2>0 DEF OnPipeException, buffer
  <2>2. \A x \in End : pc'[x] = pc[x] \/ (pc[x] = "asleep" /\ pc'[x] = "notified")
    BY <2>0, Closing, PlacesTyped, NotifiedIs
  <2>3. SameSegments /\ Positions
    BY <2>1, BufferSame DEF Positions
  <2>4. /\ mReadCursor \in Int /\ mReadLimit \in Int /\ mWriteCursor \in Int /\ mWriteLimit \in Int
    BY CursorsTyped
  <2>5. call["in"] \in Call /\ call["out"] \in Call
    BY CallsTyped, Ends
  <2>6. Holds(pc'["in"], call["in"], mReadCursor, mReadLimit)
    BY <2>2, <2>4, <2>5, HeldOn, Ends DEF Calls
  <2>7. Holds(pc'["out"], call["out"], mWriteCursor, mWriteLimit)
    BY <2>2, <2>4, <2>5, HeldOn, Ends DEF Calls
  <2>8. Calls'
    BY <2>1, <2>6, <2>7 DEF Calls
  <2>9. Taken' = Taken
    BY <2>1, <2>2, Ends DEF Taken
  <2>10. Bounded' /\ Written' = Written
    BY <2>1, <2>2, BoundedOther, Ends
  <2> QED BY <2>1, <2>3, <2>8, <2>9, <2>10 DEF Unmoved
<1>4. ASSUME NEW e \in End, NEW f \in Flags(e), AsyncWait(e, f)
      PROVE  Unmoved /\ Calls' /\ Bounded'
  <2>1. UNCHANGED <<mem, mBuffer, mReadCursor, mReadLimit, mWriteSegment, mWriteCursor, mWriteLimit, sent, received, call, pc>>
    BY <1>4 DEF AsyncWait, buffer, history
  <2>2. SameSegments /\ Positions
    BY <2>1, BufferSame DEF Positions
  <2>3. Calls' /\ Taken' = Taken
    BY <2>1 DEF Calls, Taken
  <2>4. Bounded' /\ Written' = Written
    BY <2>1, BoundedOther
  <2> QED BY <2>1, <2>2, <2>3, <2>4 DEF Unmoved
<1> QED BY <1>1, <1>2, <1>3, <1>4 DEF Quiet
--------------------------------------------------------------------------------
(* The structure is kept *)

LEMMA StructureCopyOut ==
  ASSUME Structure, NEW k \in 1..SegmentSize, CopyOut(k)
  PROVE  /\ Structure' /\ SameSegments /\ Positions /\ mem' = mem /\ sent' = sent
         /\ Taken' = Taken + k /\ Written' = Written
<1>0. Plain /\ Calls /\ Memory /\ Segments /\ Cursors /\ Bounded
  BY DEF Structure
<1>1. PICK p \in Place, c \in Call :
        OneEnd("in", p, c) /\ Holds(p, c, mReadCursor, mReadLimit) /\ Moved(p, c) = Taken + k
  BY <1>0, CopyOutCall
<1>2. UNCHANGED <<mem, mBuffer, mReadCursor, mReadLimit, mWriteSegment, mWriteCursor, mWriteLimit, sent>>
  BY DEF CopyOut, buffer
<1>3. SameSegments /\ Positions
  BY <1>0, <1>2, BufferSame DEF Positions
<1>4. Calls'
  BY <1>0, <1>1, <1>3, CallsIn
<1>5. pc'["in"] = p /\ call'["in"] = c /\ pc'["out"] = pc["out"] /\ call'["out"] = call["out"]
  BY <1>0, <1>1, OneEndIs, Ends
<1>6. Taken' = Taken + k
  BY <1>1, <1>5 DEF Taken, Moved
<1>7. Bounded' /\ Written' = Written
  BY <1>0, <1>2, <1>5, BoundedOther
<1>8. Segments' /\ Cursors'
  BY <1>0, <1>3, SegmentsSame, CursorsSame DEF Positions
<1>9. Plain' /\ Memory'
  BY <1>0, <1>2, ReaderPlain DEF Memory
<1> QED BY <1>2, <1>3, <1>4, <1>6, <1>7, <1>8, <1>9 DEF Structure

(* Where the client's function fills a segment. *)
LEMMA FilledIs ==
  ASSUME Structure, NEW k \in 1..SegmentSize, CopyIn(k)
  PROVE  /\ Written \in Nat /\ k \in Nat /\ N # 0 /\ mWriteCursor + Written + k <= mWriteLimit /\ mWriteCursor >= Last
         /\ sent + Written + k <= MaxBytes /\ sent \in Nat
         /\ mem' = [a \in DOMAIN mem |-> IF a \in mWriteCursor + Written .. mWriteCursor + Written + k - 1
                                           THEN sent + (a - mWriteCursor) + 1 ELSE mem[a]]
<1>0. Plain /\ Calls /\ Memory /\ Segments /\ Cursors /\ Bounded
  BY DEF Structure
<1> DEFINE c == call["out"]
<1>1. pc["out"] = "copy" /\ k <= c.len
  BY DEF CopyIn
<1>2. /\ c.orig \in 1 .. mWriteLimit - mWriteCursor /\ c.len \in 0 .. c.orig
      /\ c.segment = mWriteCursor + (c.orig - c.len) /\ c.len <= c.count
  BY <1>0, <1>1 DEF Calls, Holds
<1>3. c.count \in Nat /\ c.orig \in Nat /\ c.len \in Nat
  BY <1>0, CallsTyped, Ends
<1>4. mem' = [a \in DOMAIN mem |-> IF a \in c.segment..(c.segment + k - 1)
                                     THEN sent + (c.orig - c.len) + (a - c.segment) + 1 ELSE mem[a]]
  BY DEF CopyIn
<1>5. Written = c.orig - c.len /\ sent + Written + c.count <= MaxBytes /\ sent \in Nat
  BY <1>0, <1>1, WithinNow DEF Written, Moved, Within
<1>6. N # 0
  BY <1>0, <1>1, HasCall, Ends
<1>7. mWriteCursor \in Int /\ mWriteLimit \in Int /\ mWriteCursor >= Last /\ k \in Nat
  BY <1>0, <1>6, Inside, Limits
<1> HIDE DEF c
<1>8. /\ Written \in Nat /\ mWriteCursor + Written + k <= mWriteLimit /\ sent + Written + k <= MaxBytes
      /\ c.segment = mWriteCursor + Written
  BY <1>1, <1>2, <1>3, <1>5, <1>7, Limits DEF c
<1>9. DOMAIN mem = 0 .. MaxSize - 1
  BY <1>0 DEF Memory
<1>10. ASSUME NEW a \in DOMAIN mem
       PROVE  (IF a \in c.segment..(c.segment + k - 1) THEN sent + (c.orig - c.len) + (a - c.segment) + 1 ELSE mem[a])
              = (IF a \in mWriteCursor + Written .. mWriteCursor + Written + k - 1
                   THEN sent + (a - mWriteCursor) + 1 ELSE mem[a])
  <2>1. a \in Int
    BY <1>9
  <2>2. sent + (c.orig - c.len) + (a - c.segment) + 1 = sent + (a - mWriteCursor) + 1
    BY <1>3, <1>5, <1>7, <1>8, <2>1
  <2> QED BY <1>8, <2>2
<1> QED BY <1>4, <1>5, <1>6, <1>7, <1>8, <1>10

LEMMA StructureCopyIn ==
  ASSUME Structure, NEW k \in 1..SegmentSize, CopyIn(k)
  PROVE  /\ Structure' /\ SameSegments /\ Positions /\ sent' = sent /\ received' = received
         /\ Taken' = Taken /\ Written' = Written + k
<1>0. Plain /\ Calls /\ Memory /\ Segments /\ Cursors /\ Bounded
  BY DEF Structure
<1>1. PICK p \in Place, c \in Call :
        /\ OneEnd("out", p, c) /\ Holds(p, c, mWriteCursor, mWriteLimit) /\ Moved(p, c) = Written + k
        /\ Within(p, c)
  BY <1>0, CopyInCall
<1>2. UNCHANGED <<mBuffer, mReadCursor, mReadLimit, mWriteSegment, mWriteCursor, mWriteLimit, sent, received>>
  BY DEF CopyIn, history
<1>3. SameSegments /\ Positions
  BY <1>0, <1>2, BufferSame DEF Positions
<1>4. Calls'
  BY <1>0, <1>1, <1>3, CallsOut
<1>5. pc'["out"] = p /\ call'["out"] = c /\ pc'["in"] = pc["in"] /\ call'["in"] = call["in"]
  BY <1>0, <1>1, OneEndIs, Ends
<1>6. Written' = Written + k /\ Taken' = Taken
  BY <1>1, <1>5 DEF Written, Taken
<1>7. Bounded'
  BY <1>0, <1>1, <1>2, BoundedOut
<1>8. Segments' /\ Cursors'
  BY <1>0, <1>3, SegmentsSame, CursorsSame DEF Positions
<1>9. Plain'
  BY <1>0, WriterPlain
<1>10. Memory'
  <2>1. mem \in [0..(MaxSize - 1) -> 0..MaxBytes]
    BY <1>0 DEF Memory
  <2>2. /\ Written \in Nat /\ k \in Nat /\ sent + Written + k <= MaxBytes /\ sent \in Nat
        /\ mem' = [a \in DOMAIN mem |-> IF a \in mWriteCursor + Written .. mWriteCursor + Written + k - 1
                                           THEN sent + (a - mWriteCursor) + 1 ELSE mem[a]]
    BY FilledIs
  <2>3. mWriteCursor \in Int
    BY <1>0, CursorsTyped
  <2>4. \A a \in 0 .. MaxSize - 1 : a \in mWriteCursor + Written .. mWriteCursor + Written + k - 1
          => sent + (a - mWriteCursor) + 1 \in 0 .. MaxBytes
    BY <2>2, <2>3, Limits, Bases
  <2> QED BY <2>1, <2>2, <2>4 DEF Memory
<1> QED BY <1>2, <1>3, <1>4, <1>6, <1>7, <1>8, <1>9, <1>10 DEF Structure

LEMMA StructureAdvanceRead ==
  ASSUME Structure, AdvanceReadCursor
  PROVE  Structure' /\ Taken' = 0 /\ Written' = Written
<1>0. Plain /\ Calls /\ Memory /\ Segments /\ Cursors /\ Bounded
  BY DEF Structure
<1> DEFINE n == call["in"].orig - call["in"].len
<1>1. (Reads(n) \/ Drops(n)) /\ n \in Nat /\ N # 0 /\ sent' = sent
  BY <1>0, AdvanceReadIs DEF history
<1> HIDE DEF n
<1>2. Segments' /\ Cursors'
  <2>1. CASE Reads(n)
    <3>1. SameSegments
      BY <1>0, <2>1, BufferSame DEF Reads
    <3> QED BY <1>0, <1>1, <2>1, <3>1, SegmentsSame, CursorsRead
  <2>2. CASE Drops(n)
    BY <1>0, <1>1, <2>2, SegmentsDropped, CursorsDropped
  <2> QED BY <1>1, <2>1, <2>2
<1>3. /\ Calls' /\ Taken' = 0 /\ Written' = Written
      /\ call'["out"] = call["out"] /\ (pc'["out"] = pc["out"] \/ (pc["out"] = "asleep" /\ pc'["out"] = "notified"))
  BY <1>0, <1>2, AdvanceReadCalls
<1>4. Bounded'
  BY <1>0, <1>1, <1>3, BoundedOther
<1>5. Memory'
  <2>1. mem \in [0..(MaxSize - 1) -> 0..MaxBytes] /\ 0 \in 0 .. MaxBytes
    BY <1>0, Limits DEF Memory
  <2>2. mem' = mem \/ mem' = [a \in DOMAIN mem |-> IF a \in Segment(Seg(0)) THEN 0 ELSE mem[a]]
    BY <1>1 DEF Reads, Drops
  <2> QED BY <2>1, <2>2 DEF Memory
<1> QED BY <1>0, <1>2, <1>3, <1>4, <1>5, AdvanceReadPlain DEF Structure

LEMMA StructureAdvanceWrite ==
  ASSUME Structure, AdvanceWriteCursor
  PROVE  Structure' /\ Taken' = Taken /\ Written' = 0
<1>0. Plain /\ Calls /\ Memory /\ Segments /\ Cursors /\ Bounded
  BY DEF Structure
<1> DEFINE n == call["out"].orig - call["out"].len
<1>1. SameSegments /\ mem' = mem /\ sent' = sent + n /\ n \in Nat /\ pc["out"] = "advance"
  BY <1>0, AdvanceWriteIs
<1>2. Segments' /\ Cursors'
  BY <1>0, <1>1, SegmentsSame, CursorsWritten
<1>3. Calls' /\ Written' = 0 /\ Taken' = Taken /\ call'["out"].count = call["out"].count
  BY <1>0, AdvanceWriteCalls
<1>4. Bounded'
  <2>1. sent + n + call["out"].count <= MaxBytes /\ sent \in Nat /\ call["out"].count \in Nat
    BY <1>0, <1>1, WithinNow, CallsTyped, Ends DEF Within, Moved
  <2> HIDE DEF n
  <2> QED BY <1>1, <1>3, <2>1, Limits DEF Bounded
<1> QED BY <1>0, <1>1, <1>2, <1>3, <1>4, AdvanceWritePlain DEF Structure, Memory

LEMMA StructureGetWrite ==
  ASSUME Structure, GetWriteSegment
  PROVE  Structure' /\ Taken' = Taken /\ Written' = 0 /\ Written = 0
<1>0. Plain /\ Calls /\ Memory /\ Segments /\ Cursors /\ Bounded
  BY DEF Structure
<1>1. (Appends \/ RollsBackTo \/ Stays) /\ mem' = mem /\ sent' = sent
  BY <1>0, GetWriteSegmentIs DEF history
<1>2. Segments' /\ Cursors'
  <2>1. CASE Appends
    BY <1>0, <2>1, SegmentsAppended, CursorsAppended
  <2>2. CASE RollsBackTo
    <3>1. SameSegments
      BY <1>0, <2>2, BufferSame DEF RollsBackTo
    <3> QED BY <1>0, <2>2, <3>1, SegmentsSame, CursorsRolledBack
  <2>3. CASE Stays
    <3>1. SameSegments
      BY <1>0, <2>3, BufferSame DEF Stays
    <3> QED BY <1>0, <2>3, <3>1, SegmentsSame, CursorsSame DEF Stays
  <2> QED BY <1>1, <2>1, <2>2, <2>3
<1>3. /\ Calls' /\ Written = 0 /\ Written' = 0 /\ Taken' = Taken
      /\ call'["out"].count = call["out"].count /\ pc["out"] = "loop"
  BY <1>0, <1>2, GetWriteCalls
<1>4. Bounded'
  BY <1>0, <1>1, <1>3 DEF Bounded
<1> QED BY <1>0, <1>1, <1>2, <1>3, <1>4, WriterPlain DEF Structure, Memory

LEMMA StructureQuiet ==
  ASSUME Structure, Quiet
  PROVE  Structure' /\ Unmoved
<1>0. Plain /\ Calls /\ Memory /\ Segments /\ Cursors /\ Bounded
  BY DEF Structure
<1>1. Unmoved /\ Calls' /\ Bounded'
  BY <1>0, QuietStep
<1>2. Segments' /\ Cursors' /\ Memory'
  BY <1>0, <1>1, SegmentsSame, CursorsSame DEF Unmoved, Positions, Memory
<1>3. Plain'
  BY <1>0, ReaderPlain, WriterPlain, ClosePlain, AsyncWaitPlain DEF Quiet
<1> QED BY <1>1, <1>2, <1>3 DEF Structure

LEMMA NextIs ==
  ASSUME Next
  PROVE  \/ Quiet \/ GetWriteSegment \/ AdvanceReadCursor \/ AdvanceWriteCursor
         \/ \E k \in 1..SegmentSize : CopyOut(k) \/ CopyIn(k)
BY DEF Next, InputStep, OutputStep, Quiet

LEMMA StructureStutters ==
  ASSUME Structure, UNCHANGED vars
  PROVE  Structure' /\ Unmoved
<1>0. Plain /\ Calls /\ Memory /\ Segments /\ Cursors /\ Bounded
  BY DEF Structure
<1>1. UNCHANGED <<mem, mBuffer, mReadCursor, mReadLimit, mWriteSegment, mWriteCursor, mWriteLimit, pc, call, sent, received>>
  BY DEF vars, buffer, callers, history
<1>2. SameSegments /\ Positions /\ Taken' = Taken /\ Written' = Written
  BY <1>0, <1>1, BufferSame DEF Positions, Taken, Written
<1>3. Segments' /\ Cursors' /\ Memory'
  BY <1>0, <1>1, <1>2, SegmentsSame, CursorsSame DEF Memory, Positions
<1>4. Calls' /\ Bounded'
  BY <1>0, <1>1, <1>2 DEF Calls, Bounded
<1>5. Plain'
  BY <1>0, <1>1 DEF Plain, PcOK, vars, streams, callers, history
<1> QED BY <1>1, <1>2, <1>3, <1>4, <1>5 DEF Structure, Unmoved

LEMMA StructureStep == Structure /\ [Next]_vars => Structure'
BY NextIs, StructureQuiet, StructureGetWrite, StructureAdvanceRead, StructureAdvanceWrite,
   StructureCopyOut, StructureCopyIn, StructureStutters

LEMMA InitStructure == Init => Structure
<1> SUFFICES ASSUME Init PROVE Structure
  OBVIOUS
<1>1. IsBuffer(mBuffer) /\ N = 0
  BY EmptyHolds DEF Init, N
<1>2. Segments
  <2>1. 0 .. N - 1 = {} /\ mWriteSegment = N - 1 /\ N <= SegmentCount
    BY <1>1, Limits DEF Init
  <2> QED BY <1>1, <2>1 DEF Segments
<1>3. Cursors
  BY <1>1 DEF Init, Cursors
<1>4. Memory
  BY Limits DEF Init, Memory
<1>5. call = [e \in End |-> NoCall] /\ pc = [e \in End |-> "idle"] /\ sent = 0
  BY DEF Init
<1>6. Calls
  BY <1>5, NoCallIs, HeldIdle, Ends DEF Calls
<1>7. Bounded
  BY <1>5, Limits, Ends DEF Bounded
<1> QED BY <1>2, <1>3, <1>4, <1>6, <1>7, InitPlain DEF Structure

LEMMA StructureAlways == Spec => []Structure
BY InitStructure, StructureStep, PTL DEF Spec

(* Every variable of the pipe has its type: mAvailable stays in the range  *)
(* of a PRUint32 and every cursor is null or in the arena (TypeOK).        *)
THEOREM PipeTyped == Spec => []TypeOK
<1>1. Structure => TypeOK
  BY TypedAll DEF Structure
<1> QED BY <1>1, StructureAlways, PTL
--------------------------------------------------------------------------------
(* The bytes in the segments *)

LEMMA SameLast ==
  ASSUME Segments, SameSegments, NEW i \in 0 .. N - 1
  PROVE  Seg(i)' = Seg(i) /\ Last' = Last /\ N' = N /\ Seg(0)' = Seg(0) /\ N # 0
BY SegmentsAre DEF SameSegments

LEMMA ContentsKept ==
  ASSUME Structure, Contents, SameSegments, Positions, mem' = mem, sent' = sent, Written' = Written
  PROVE  Contents'
<1> SUFFICES ASSUME NEW i \in 0 .. N' - 1, NEW o \in 0 .. SegmentSize - 1,
                    i = 0 => mReadCursor' <= Seg(0)' + o, i = N' - 1 => Seg(i)' + o < mWriteCursor' + Written'
             PROVE  mem'[Seg(i)' + o] = sent' - Ahead(i)' + o + 1
  BY DEF Contents
<1>1. Segments /\ N' = N
  BY DEF Structure, SameSegments
<1>2. Seg(i)' = Seg(i) /\ Last' = Last /\ Seg(0)' = Seg(0)
  BY <1>1, SameLast
<1>3. Ahead(i)' = Ahead(i)
  BY <1>1, <1>2 DEF Ahead, Positions
<1> QED BY <1>1, <1>2, <1>3 DEF Contents, Positions

LEMMA ContentsCopyIn ==
  ASSUME Structure, Contents, NEW k \in 1..SegmentSize, CopyIn(k)
  PROVE  Contents'
<1> SUFFICES ASSUME NEW i \in 0 .. N' - 1, NEW o \in 0 .. SegmentSize - 1,
                    i = 0 => mReadCursor' <= Seg(0)' + o, i = N' - 1 => Seg(i)' + o < mWriteCursor' + Written'
             PROVE  mem'[Seg(i)' + o] = sent' - Ahead(i)' + o + 1
  BY DEF Contents
<1>0. Segments /\ Cursors /\ Memory
  BY DEF Structure
<1>1. SameSegments /\ Positions /\ sent' = sent /\ Written' = Written + k
  BY StructureCopyIn
<1>2. i \in 0 .. N - 1 /\ Seg(i)' = Seg(i) /\ Last' = Last /\ Seg(0)' = Seg(0) /\ N' = N
  BY <1>0, <1>1, SameLast DEF SameSegments
<1>3. Ahead(i)' = Ahead(i)
  BY <1>1, <1>2 DEF Ahead, Positions
<1>4. /\ Written \in Nat /\ k \in Nat /\ N # 0 /\ mWriteCursor + Written + k <= mWriteLimit /\ mWriteCursor >= Last
      /\ sent \in Nat
      /\ mem' = [a \in DOMAIN mem |-> IF a \in mWriteCursor + Written .. mWriteCursor + Written + k - 1
                                        THEN sent + (a - mWriteCursor) + 1 ELSE mem[a]]
  BY FilledIs
<1>5. N \in 1 .. SegmentCount /\ mWriteLimit = Last + SegmentSize /\ mWriteCursor \in Int /\ Last \in Int
  BY <1>0, <1>4, Inside
<1>6. Seg(i) \in 0 .. MaxSize - SegmentSize
  BY <1>0, <1>2, SegmentsAre
<1>7. Seg(i) + o \in 0 .. MaxSize - 1 /\ Seg(i) + o \in DOMAIN mem /\ Seg(i) + o \in Int
  BY <1>0, <1>6, Bases, Limits DEF Memory
<1>8. CASE Seg(i) + o \in mWriteCursor + Written .. mWriteCursor + Written + k - 1
  <2>1. i = N - 1
    <3>1. SUFFICES ASSUME i # N - 1 PROVE FALSE
      OBVIOUS
    <3>2. N - 1 \in 0 .. N - 1
      BY <1>5
    <3>3. Apart(Seg(i), Last)
      BY <1>0, <1>2, <3>1, <3>2, SegmentsAre DEF Last
    <3> QED BY <1>4, <1>5, <1>6, <1>8, <3>3, Limits DEF Apart
  <2>2. Seg(i) = Last
    BY <2>1 DEF Last
  <2>3. Ahead(i) = mWriteCursor - Last
    <3>1. N - 1 - i = 0
      BY <1>5, <2>1
    <3>2. 0 * SegmentSize = 0
      BY Limits
    <3> QED BY <1>5, <3>1, <3>2 DEF Ahead
  <2>4. mem'[Seg(i) + o] = sent + ((Seg(i) + o) - mWriteCursor) + 1
    BY <1>4, <1>7, <1>8
  <2> QED BY <1>1, <1>2, <1>3, <1>4, <1>5, <2>2, <2>3, <2>4
<1>9. CASE Seg(i) + o \notin mWriteCursor + Written .. mWriteCursor + Written + k - 1
  <2>1. mem'[Seg(i) + o] = mem[Seg(i) + o]
    BY <1>4, <1>7, <1>9
  <2>2. i = N - 1 => Seg(i) + o < mWriteCursor + Written
    BY <1>1, <1>2, <1>4, <1>5, <1>7, <1>9 DEF Positions
  <2>3. mem[Seg(i) + o] = sent - Ahead(i) + o + 1
    BY <1>1, <1>2, <2>2 DEF Contents, Positions
  <2> QED BY <1>1, <1>2, <1>3, <2>1, <2>3
<1> QED BY <1>8, <1>9

LEMMA ContentsAdvanceWrite ==
  ASSUME Structure, Contents, AdvanceWriteCursor
  PROVE  Contents'
<1> SUFFICES ASSUME NEW i \in 0 .. N' - 1, NEW o \in 0 .. SegmentSize - 1,
                    i = 0 => mReadCursor' <= Seg(0)' + o, i = N' - 1 => Seg(i)' + o < mWriteCursor' + Written'
             PROVE  mem'[Seg(i)' + o] = sent' - Ahead(i)' + o + 1
  BY DEF Contents
<1>0. Plain /\ Calls /\ Segments /\ Cursors /\ Memory /\ Bounded
  BY DEF Structure
<1> DEFINE n == call["out"].orig - call["out"].len
<1>1. /\ SameSegments /\ n \in Nat /\ mWriteCursor' = mWriteCursor + n /\ sent' = sent + n
      /\ mem' = mem /\ mReadCursor' = mReadCursor /\ pc["out"] = "advance" /\ N # 0
  BY <1>0, AdvanceWriteIs
<1>2. Written' = 0 /\ Written = n
  BY <1>1, StructureAdvanceWrite DEF Written, Moved
<1> HIDE DEF n
<1>3. i \in 0 .. N - 1 /\ Seg(i)' = Seg(i) /\ Last' = Last /\ Seg(0)' = Seg(0) /\ N' = N
  BY <1>0, <1>1, SameLast DEF SameSegments
<1>4. mWriteCursor \in Int /\ Last \in Int /\ N \in Nat /\ sent \in Nat
  BY <1>0, <1>1, Inside DEF Bounded
<1>5. Ahead(i)' = Ahead(i) + n /\ Ahead(i) \in Int
  <2>1. (N - 1 - i) * SegmentSize \in Int
    BY <1>4, Limits
  <2> QED BY <1>1, <1>3, <1>4, <2>1 DEF Ahead
<1>6. mem[Seg(i) + o] = sent - Ahead(i) + o + 1
  BY <1>1, <1>2, <1>3, <1>4 DEF Contents
<1> QED BY <1>1, <1>3, <1>4, <1>5, <1>6

LEMMA ContentsGetWrite ==
  ASSUME Structure, Contents, GetWriteSegment
  PROVE  Contents'
<1> SUFFICES ASSUME NEW i \in 0 .. N' - 1, NEW o \in 0 .. SegmentSize - 1,
                    i = 0 => mReadCursor' <= Seg(0)' + o, i = N' - 1 => Seg(i)' + o < mWriteCursor' + Written'
             PROVE  mem'[Seg(i)' + o] = sent' - Ahead(i)' + o + 1
  BY DEF Contents
<1>0. Plain /\ Calls /\ Segments /\ Cursors /\ Memory /\ Bounded
  BY DEF Structure
<1>1. (Appends \/ RollsBackTo \/ Stays) /\ mem' = mem /\ sent' = sent
  BY <1>0, GetWriteSegmentIs DEF history
<1>2. Written = 0 /\ Written' = 0
  BY StructureGetWrite
<1>3. CASE Stays
  <2>1. SameSegments /\ Positions
    BY <1>0, <1>3, BufferSame DEF Stays, Positions
  <2>2. Contents'
    BY <1>1, <1>2, <2>1, ContentsKept
  <2> QED BY <2>2 DEF Contents
<1>4. CASE RollsBackTo
  <2>1. N' = N /\ N = 1 /\ Seg(0)' = Seg(0) /\ mWriteCursor' = Seg(0) /\ i = 0
    BY <1>4 DEF RollsBackTo, N, Seg
  <2>2. Seg(0) \in Int
    BY <1>0, <2>1, Inside
  <2>3. Seg(i)' = Seg(0)
    BY <2>1
  <2> QED BY <1>2, <2>1, <2>2, <2>3
<1>5. CASE Appends
  <2>1. N' = N + 1 /\ N \in Nat /\ mWriteCursor' = Last' /\ mWriteCursor = mWriteLimit
    BY <1>0, <1>5, SegmentsAre DEF Appends
  <2>2. Last' \in Int
    BY <1>5, Bases DEF Appends
  <2>3. i # N
    <3>1. SUFFICES ASSUME i = N PROVE FALSE
      OBVIOUS
    <3>2. Seg(i)' = Last'
      BY <2>1, <3>1 DEF Last, Seg
    <3>3. N' - 1 = i
      BY <2>1, <3>1
    <3>4. PICK x \in Int : Last' = x
      BY <2>2
    <3>5. x + o < x + 0
      BY <1>2, <2>1, <3>2, <3>3, <3>4
    <3> QED BY <3>5
  <2>4. i \in 0 .. N - 1 /\ N # 0
    BY <2>1, <2>3
  <2>5. Seg(i)' = Seg(i) /\ Seg(0)' = Seg(0) /\ mReadCursor' = mReadCursor
    BY <2>1, <2>4, <1>5 DEF Appends
  <2>6. mWriteCursor = Last + SegmentSize /\ Last \in Int /\ mWriteCursor \in Int
    BY <1>0, <2>1, <2>4, Inside
  <2>7. i = N - 1 => Seg(i) + o < mWriteCursor + Written
    <3>1. i = N - 1 => Seg(i) = Last
      BY DEF Last
    <3> QED BY <1>2, <2>6, <3>1, Limits
  <2>8. mem[Seg(i) + o] = sent - Ahead(i) + o + 1
    BY <2>4, <2>5, <2>7 DEF Contents
  <2>9. Ahead(i)' = Ahead(i)
    <3>1. (N' - 1 - i) * SegmentSize = (N - 1 - i) * SegmentSize + SegmentSize /\ (N - 1 - i) * SegmentSize \in Int
      <4>1. N' - 1 - i = (N - 1 - i) + 1 /\ N - 1 - i \in Int
        BY <2>1
      <4> DEFINE z == N - 1 - i
      <4>2. (z + 1) * SegmentSize = z * SegmentSize + SegmentSize
        BY <4>1, Limits
      <4> QED BY <4>1, <4>2, Limits
    <3>2. mWriteCursor' - Last' = 0 /\ mWriteCursor - Last = SegmentSize
      <4>1. PICK x \in Int : Last' = x
        BY <2>2
      <4>2. mWriteCursor' - Last' = x - x /\ x - x = 0
        BY <2>1, <4>1
      <4> QED BY <2>6, <4>2, Limits
    <3> QED BY <3>1, <3>2, Limits DEF Ahead
  <2> QED BY <1>1, <2>5, <2>8, <2>9
<1> QED BY <1>1, <1>3, <1>4, <1>5

LEMMA ContentsAdvanceRead ==
  ASSUME Structure, Contents, AdvanceReadCursor
  PROVE  Contents'
<1> SUFFICES ASSUME NEW i \in 0 .. N' - 1, NEW o \in 0 .. SegmentSize - 1,
                    i = 0 => mReadCursor' <= Seg(0)' + o, i = N' - 1 => Seg(i)' + o < mWriteCursor' + Written'
             PROVE  mem'[Seg(i)' + o] = sent' - Ahead(i)' + o + 1
  BY DEF Contents
<1>0. Plain /\ Calls /\ Segments /\ Cursors /\ Memory /\ Bounded
  BY DEF Structure
<1> DEFINE n == call["in"].orig - call["in"].len
<1>1. (Reads(n) \/ Drops(n)) /\ n \in Nat /\ N # 0 /\ sent' = sent
  BY <1>0, AdvanceReadIs DEF history
<1> HIDE DEF n
<1>2. Written' = Written /\ N \in 1 .. SegmentCount
  BY <1>0, <1>1, StructureAdvanceRead, SegmentsAre
<1>3. CASE Reads(n)
  <2>1. /\ mBuffer' = mBuffer /\ mem' = mem /\ mReadCursor' = mReadCursor + n
        /\ UNCHANGED <<mWriteSegment, mWriteCursor>>
    BY <1>3 DEF Reads
  <2>2. N' = N /\ Seg(i)' = Seg(i) /\ Seg(0)' = Seg(0) /\ Ahead(i)' = Ahead(i)
    BY <2>1 DEF N, Seg, Ahead, Last
  <2>3. mReadCursor \in Int /\ Seg(0) \in Int
    BY <1>0, <1>1, Inside
  <2>4. i = 0 => mReadCursor <= Seg(0) + o
    BY <1>1, <2>1, <2>2, <2>3
  <2>5. mem[Seg(i) + o] = sent - Ahead(i) + o + 1
    BY <1>2, <2>1, <2>2, <2>4 DEF Contents
  <2> QED BY <1>1, <2>1, <2>2, <2>5
<1>4. CASE Drops(n)
  <2>1. N' = N - 1 /\ N # 1 /\ i + 1 \in 0 .. N - 1 /\ i \in 0 .. N - 2 /\ i + 1 # 0
    <3>1. N' = N - 1
      BY <1>4 DEF Drops
    <3> QED BY <1>2, <3>1
  <2>2. /\ Seg(i)' = Seg(i + 1) /\ mWriteCursor' = mWriteCursor /\ Last' = Last
        /\ mem' = [a \in DOMAIN mem |-> IF a \in Segment(Seg(0)) THEN 0 ELSE mem[a]]
    BY <1>4, <2>1 DEF Drops
  <2>3. Seg(i + 1) \in 0 .. MaxSize - SegmentSize /\ Seg(0) \in 0 .. MaxSize - SegmentSize /\ Apart(Seg(i + 1), Seg(0))
    <3>1. 0 \in 0 .. N - 1
      BY <1>2
    <3> QED BY <1>0, <2>1, <3>1, SegmentsAre
  <2>4. Seg(i + 1) + o \in 0 .. MaxSize - 1 /\ Seg(i + 1) + o \notin Segment(Seg(0))
    BY <2>3, Bases, Limits DEF Apart, Segment
  <2>5. mem'[Seg(i + 1) + o] = mem[Seg(i + 1) + o]
    <3>1. DOMAIN mem = 0 .. MaxSize - 1
      BY <1>0 DEF Memory
    <3> QED BY <2>2, <2>4, <3>1
  <2>6. i + 1 = N - 1 => Seg(i + 1) + o < mWriteCursor + Written
    <3>1. i + 1 = N - 1 => i = N' - 1
      BY <1>2, <2>1
    <3> QED BY <1>2, <2>2, <3>1
  <2>7. mem[Seg(i + 1) + o] = sent - Ahead(i + 1) + o + 1
    BY <2>1, <2>6 DEF Contents
  <2>8. Ahead(i)' = Ahead(i + 1)
    <3>1. N' - 1 - i = N - 1 - (i + 1)
      BY <1>2, <2>1
    <3> QED BY <2>2, <3>1 DEF Ahead
  <2> QED BY <1>1, <2>2, <2>5, <2>7, <2>8
<1> QED BY <1>1, <1>3, <1>4
--------------------------------------------------------------------------------
(* How many bytes there are between the cursors *)

Held == InFirst + InRest

LEMMA RestIs == Segments => InRest = IF N < 2 THEN 0 ELSE (N - 2) * SegmentSize + (mWriteCursor - Last)
<1> SUFFICES ASSUME Segments PROVE InRest = IF N < 2 THEN 0 ELSE (N - 2) * SegmentSize + (mWriteCursor - Last)
  OBVIOUS
<1>1. mWriteSegment = N - 1 /\ mWriteSegment - 1 = N - 2
  BY SegmentsAre
<1> QED BY <1>1 DEF InRest, N, Last, Seg

LEMMA RestIsThen == Segments' => InRest' = IF N' < 2 THEN 0 ELSE (N' - 2) * SegmentSize + (mWriteCursor' - Last')
<1> SUFFICES ASSUME Segments'
             PROVE  InRest' = IF N' < 2 THEN 0 ELSE (N' - 2) * SegmentSize + (mWriteCursor' - Last')
  OBVIOUS
<1>1. IsBuffer(mBuffer') /\ mWriteSegment' = N' - 1
  BY DEF Segments
<1>2. N' \in Int
  BY <1>1, CountIs DEF N, IsBuffer
<1>3. mWriteSegment' - 1 = N' - 2
  BY <1>1, <1>2
<1> QED BY <1>1, <1>3 DEF InRest, N, Last, Seg

LEMMA HeldTyped ==
  ASSUME Segments, Cursors
  PROVE  /\ InFirst \in Nat /\ InRest \in Nat /\ Held \in Nat
         /\ InFirst = mReadLimit - mReadCursor
<1>1. InFirst \in Nat
  <2>1. CASE N = 0
    BY <2>1 DEF Cursors, InFirst, Null
  <2>2. CASE N # 0
    BY <2>2, Inside DEF InFirst
  <2> QED BY <2>1, <2>2
<1>2. InRest \in Nat
  <2>1. CASE N < 2
    BY <2>1, RestIs
  <2>2. CASE ~(N < 2)
    <3>1. N \in Nat /\ N - 2 \in Nat /\ N # 0
      BY <2>2, SegmentsAre
    <3>2. mWriteCursor - Last \in Nat
      BY <3>1, Inside
    <3>3. (N - 2) * SegmentSize \in Nat
      BY <3>1, Limits
    <3> QED BY <2>2, <3>2, <3>3, RestIs
  <2> QED BY <2>1, <2>2
<1> QED BY <1>1, <1>2 DEF Held, InFirst

LEMMA HeldKept ==
  ASSUME Segments, Segments', SameSegments, Positions
  PROVE  Held' = Held /\ InFirst' = InFirst
<1>1. InFirst' = InFirst
  BY DEF InFirst, Positions
<1>2. InRest' = InRest
  <2>1. CASE N < 2
    BY <2>1, RestIs, RestIsThen DEF SameSegments
  <2>2. CASE ~(N < 2)
    <3>1. N # 0
      BY <2>2
    <3> QED BY <2>2, <3>1, RestIs, RestIsThen DEF SameSegments, Positions
  <2> QED BY <2>1, <2>2
<1> QED BY <1>1, <1>2 DEF Held

LEMMA HeldAdvanceWrite ==
  ASSUME Structure, AdvanceWriteCursor
  PROVE  Held' = Held + (call["out"].orig - call["out"].len)
<1>0. Plain /\ Calls /\ Segments /\ Cursors /\ Segments' /\ Cursors'
  BY StructureAdvanceWrite DEF Structure
<1> DEFINE n == call["out"].orig - call["out"].len
<1>1. /\ n \in Nat /\ N # 0 /\ mWriteCursor' = mWriteCursor + n
      /\ mReadLimit' = IF N = 1 THEN mWriteCursor + n ELSE mReadLimit
      /\ SameSegments /\ mReadCursor' = mReadCursor
  BY <1>0, AdvanceWriteIs
<1> HIDE DEF n
<1>2. /\ N \in Nat /\ mReadLimit \in Int /\ mReadCursor \in Int /\ mWriteCursor \in Int /\ Last \in Int
      /\ (N = 1 => mReadLimit = mWriteCursor) /\ N' = N /\ Last' = Last
  BY <1>0, <1>1, Inside DEF SameSegments
<1>3. CASE N = 1
  <2>1. InRest = 0 /\ InRest' = 0
    BY <1>0, <1>2, <1>3, RestIs, RestIsThen
  <2>2. InFirst' = InFirst + n /\ InFirst \in Int
    BY <1>1, <1>2, <1>3 DEF InFirst
  <2> QED BY <1>1, <2>1, <2>2 DEF Held, n
<1>4. CASE N # 1
  <2>1. ~(N < 2)
    BY <1>1, <1>2, <1>4
  <2>2. (N - 2) * SegmentSize \in Int
    BY <1>2, Limits
  <2>3. InRest' = InRest + n /\ InRest \in Int
    <3>1. InRest = (N - 2) * SegmentSize + (mWriteCursor - Last)
      BY <1>0, <2>1, RestIs
    <3>2. InRest' = (N - 2) * SegmentSize + ((mWriteCursor + n) - Last)
      BY <1>0, <1>1, <1>2, <2>1, RestIsThen
    <3> QED BY <1>1, <1>2, <2>2, <3>1, <3>2
  <2>4. InFirst' = InFirst /\ InFirst \in Int
    BY <1>1, <1>2, <1>4 DEF InFirst
  <2> QED BY <1>1, <2>3, <2>4 DEF Held, n
<1> QED BY <1>3, <1>4

LEMMA HeldGetWrite ==
  ASSUME Structure, GetWriteSegment
  PROVE  Held' = Held
<1>0. Plain /\ Calls /\ Segments /\ Cursors /\ Segments' /\ Cursors'
  BY StructureGetWrite DEF Structure
<1>1. Appends \/ RollsBackTo \/ Stays
  BY <1>0, GetWriteSegmentIs
<1>2. CASE Stays
  <2>1. SameSegments /\ Positions
    BY <1>0, <1>2, BufferSame DEF Stays, Positions
  <2> QED BY <1>0, <2>1, HeldKept
<1>3. CASE RollsBackTo
  <2>1. N = 1 /\ N' = N /\ mReadCursor = mReadLimit /\ mReadCursor' = mReadLimit'
    BY <1>0, <1>3, Inside DEF RollsBackTo, N
  <2>2. InRest = 0 /\ InRest' = 0
    BY <1>0, <2>1, RestIs, RestIsThen
  <2>3. InFirst = 0
    BY <1>0, <2>1, CursorsTyped DEF InFirst
  <2>4. InFirst' = 0
    <3>1. PICK x \in Int : mReadLimit' = x
      BY <1>0, <1>3, <2>1, Inside DEF RollsBackTo
    <3> QED BY <2>1, <3>1 DEF InFirst
  <2> QED BY <2>2, <2>3, <2>4 DEF Held
<1>4. CASE Appends
  <2>1. N' = N + 1 /\ N \in Nat /\ mWriteCursor' = Last' /\ mWriteCursor = mWriteLimit
    BY <1>0, <1>4, SegmentsAre DEF Appends
  <2>2. PICK x \in Int : Last' = x
    BY <1>4, Bases DEF Appends
  <2>3. mWriteCursor' - Last' = 0
    BY <2>1, <2>2
  <2>4. CASE N = 0
    <3>1. InRest = 0 /\ InRest' = 0
      BY <1>0, <2>1, <2>4, RestIs, RestIsThen
    <3>2. InFirst = 0
      BY <1>0, <2>4 DEF Cursors, InFirst, Null
    <3>3. InFirst' = 0
      BY <1>4, <2>2, <2>4 DEF InFirst, Appends
    <3> QED BY <3>1, <3>2, <3>3 DEF Held
  <2>5. CASE N # 0
    <3>1. InFirst' = InFirst
      BY <1>4, <2>5 DEF InFirst, Appends
    <3>2. mWriteCursor - Last = SegmentSize
      BY <1>0, <2>1, <2>5, Inside, Limits
    <3>3. ~(N' < 2) /\ N' - 2 = N - 1
      BY <2>1, <2>5
    <3>4. InRest' = (N - 1) * SegmentSize
      <4>1. InRest' = (N - 1) * SegmentSize + 0
        BY <1>0, <2>3, <3>3, RestIsThen
      <4>2. (N - 1) * SegmentSize \in Int
        BY <2>1, Limits
      <4> QED BY <4>1, <4>2
    <3>5. InRest = (N - 1) * SegmentSize
      <4>1. CASE N = 1
        <5>1. (N - 1) * SegmentSize = 0
          BY <4>1, Limits
        <5> QED BY <1>0, <4>1, <5>1, RestIs
      <4>2. CASE N # 1
        <5>1. InRest = (N - 2) * SegmentSize + SegmentSize
          BY <1>0, <2>1, <2>5, <3>2, <4>2, RestIs
        <5> DEFINE z == N - 2
        <5>2. z \in Int /\ z + 1 = N - 1
          BY <2>1
        <5>3. (z + 1) * SegmentSize = z * SegmentSize + SegmentSize
          BY <5>2, Limits
        <5> QED BY <5>1, <5>2, <5>3
      <4> QED BY <4>1, <4>2
    <3> QED BY <3>1, <3>4, <3>5 DEF Held
  <2> QED BY <2>4, <2>5
<1> QED BY <1>1, <1>2, <1>3, <1>4

LEMMA HeldAdvanceRead ==
  ASSUME Structure, AdvanceReadCursor
  PROVE  Held' = Held - (call["in"].orig - call["in"].len)
<1>0. Plain /\ Calls /\ Segments /\ Cursors /\ Segments' /\ Cursors'
  BY StructureAdvanceRead DEF Structure
<1> DEFINE n == call["in"].orig - call["in"].len
<1>1. (Reads(n) \/ Drops(n)) /\ n \in Nat /\ N # 0
  BY <1>0, AdvanceReadIs
<1> HIDE DEF n
<1>2. /\ N \in Nat /\ mReadLimit \in Int /\ mReadCursor \in Int /\ mWriteCursor \in Int /\ Last \in Int
      /\ InFirst \in Int /\ InRest \in Int /\ InFirst = mReadLimit - mReadCursor
      /\ mReadLimit = IF N = 1 THEN mWriteCursor ELSE Seg(0) + SegmentSize
  BY <1>0, <1>1, Inside, HeldTyped
<1>3. CASE Reads(n)
  <2>1. InFirst' = InFirst - n
    BY <1>1, <1>2, <1>3 DEF InFirst, Reads
  <2>2. N' = N /\ Last' = Last /\ mWriteCursor' = mWriteCursor
    BY <1>3 DEF Reads, N, Last, Seg
  <2>3. InRest' = InRest
    BY <1>0, <2>2, RestIs, RestIsThen
  <2> QED BY <1>1, <1>2, <2>1, <2>3 DEF Held, n
<1>4. CASE Drops(n)
  <2>1. InFirst = n /\ N' = N - 1
    BY <1>1, <1>2, <1>4 DEF Drops
  <2>2. CASE N = 1
    <3>1. InFirst' = 0
      BY <1>4, <2>2 DEF Drops, InFirst, Null
    <3>2. InRest = 0 /\ InRest' = 0
      BY <1>0, <2>1, <2>2, RestIs, RestIsThen
    <3> QED BY <1>1, <2>1, <3>1, <3>2 DEF Held, n
  <2>3. CASE N # 1
    <3>0. Seg(1) \in Int
      <4>1. 1 \in 0 .. N - 1
        BY <1>1, <1>2, <2>3
      <4> QED BY <1>0, <4>1, SegmentsAre
    <3>1. /\ mReadCursor' = Seg(1) /\ mReadLimit' = IF N = 2 THEN mWriteCursor ELSE Seg(1) + SegmentSize
          /\ mWriteCursor' = mWriteCursor /\ Last' = Last
      BY <1>4, <2>3 DEF Drops
    <3>2. InRest = (N - 2) * SegmentSize + (mWriteCursor - Last) /\ ~(N < 2)
      BY <1>0, <1>1, <1>2, <2>3, RestIs
    <3>3. CASE N = 2
      <4>1. Last = Seg(1)
        BY <3>3 DEF Last
      <4>2. InFirst' = mWriteCursor - Last /\ InRest' = 0
        BY <1>0, <1>2, <2>1, <3>0, <3>1, <3>3, <4>1, RestIsThen DEF InFirst
      <4>3. InRest = mWriteCursor - Last
        <5>1. (N - 2) * SegmentSize = 0
          BY <3>3, Limits
        <5> QED BY <1>2, <3>2, <5>1
      <4> QED BY <1>1, <1>2, <2>1, <4>2, <4>3 DEF Held, n
    <3>4. CASE N # 2
      <4>1. InFirst' = SegmentSize
        BY <3>0, <3>1, <3>4, Limits DEF InFirst
      <4>2. ~(N' < 2) /\ N' - 2 = N - 3
        BY <1>2, <2>1, <3>2, <3>4
      <4>3. InRest' = (N - 3) * SegmentSize + (mWriteCursor - Last)
        BY <1>0, <3>1, <4>2, RestIsThen
      <4> DEFINE z == N - 3
      <4>4. z \in Int /\ z + 1 = N - 2
        BY <1>2
      <4>5. (z + 1) * SegmentSize = z * SegmentSize + SegmentSize /\ z * SegmentSize \in Int
        BY <4>4, Limits
      <4>6. InRest = InRest' + SegmentSize /\ InRest' \in Int
        BY <1>2, <3>2, <4>3, <4>4, <4>5, Limits
      <4> QED BY <1>1, <1>2, <2>1, <4>1, <4>6, Limits DEF Held, n
    <3> QED BY <3>3, <3>4
  <2> QED BY <2>2, <2>3
<1> QED BY <1>1, <1>3, <1>4
--------------------------------------------------------------------------------
(* The bytes between the cursors are the last ones that were written *)

LEMMA AheadIs ==
  ASSUME Structure, N # 0
  PROVE  /\ Ahead(0) = Held + (mReadCursor - Seg(0)) /\ Ahead(0) \in Int
         /\ N >= 2 => InRest = (N - 2) * SegmentSize + (mWriteCursor - Last)
<1>0. Segments /\ Cursors
  BY DEF Structure
<1>1. /\ N \in 1 .. SegmentCount /\ mReadCursor \in Int /\ mWriteCursor \in Int /\ Last \in Int /\ Seg(0) \in Int
      /\ mReadLimit = (IF N = 1 THEN mWriteCursor ELSE Seg(0) + SegmentSize) /\ (N = 1 => Last = Seg(0))
  BY <1>0, Inside
<1>2. Ahead(0) = (N - 1) * SegmentSize + (mWriteCursor - Last)
  <2>1. N - 1 - 0 = N - 1
    BY <1>1
  <2> QED BY <2>1 DEF Ahead
<1>3. CASE N = 1
  <2>1. (N - 1) * SegmentSize = 0
    BY <1>3, Limits
  <2>2. InRest = 0
    BY <1>0, <1>3, RestIs
  <2> QED BY <1>1, <1>2, <1>3, <2>1, <2>2 DEF Held, InFirst
<1>4. CASE N # 1
  <2>1. InRest = (N - 2) * SegmentSize + (mWriteCursor - Last)
    BY <1>0, <1>1, <1>4, RestIs
  <2> DEFINE z == N - 2
  <2>2. z \in Int /\ z + 1 = N - 1
    BY <1>1
  <2>3. (z + 1) * SegmentSize = z * SegmentSize + SegmentSize /\ z * SegmentSize \in Int
    BY <2>2, Limits
  <2>4. InFirst = (Seg(0) + SegmentSize) - mReadCursor
    BY <1>1, <1>4 DEF InFirst
  <2> HIDE DEF z
  <2>5. (N - 2) * SegmentSize = z * SegmentSize
    BY DEF z
  <2>6. (N - 1) * SegmentSize = z * SegmentSize + SegmentSize
    BY <2>2, <2>3
  <2>7. Ahead(0) = z * SegmentSize + SegmentSize + (mWriteCursor - Last)
    BY <1>2, <2>6
  <2>8. Held = ((Seg(0) + SegmentSize) - mReadCursor) + (z * SegmentSize + (mWriteCursor - Last))
    BY <2>1, <2>4, <2>5 DEF Held
  <2> QED BY <1>1, <2>1, <2>3, <2>7, <2>8, Limits
<1> QED BY <1>3, <1>4

LEMMA FirstBytes ==
  ASSUME Structure, Contents, NEW m \in 1 .. InFirst
  PROVE  mem[mReadCursor + m - 1] = sent - Held + m
<1>0. Segments /\ Cursors /\ Bounded /\ Calls
  BY DEF Structure
<1>1. N # 0
  BY <1>0 DEF InFirst, Cursors, Null
<1>2. /\ N \in 1 .. SegmentCount /\ mReadCursor \in Int /\ mWriteCursor \in Int /\ Last \in Int /\ Seg(0) \in Int
      /\ mReadLimit = (IF N = 1 THEN mWriteCursor ELSE Seg(0) + SegmentSize) /\ (N = 1 => Last = Seg(0))
      /\ mReadCursor \in Seg(0) .. Seg(0) + SegmentSize - 1 /\ mReadLimit \in Int
      /\ mWriteCursor \in Last .. mWriteLimit /\ mWriteLimit = Last + SegmentSize
      /\ 0 \in 0 .. N - 1
  BY <1>0, <1>1, Inside
<1> DEFINE o == mReadCursor + m - 1 - Seg(0)
<1>3. m \in Int /\ m >= 1 /\ m <= mReadLimit - mReadCursor
  BY <1>2 DEF InFirst
<1>4. o \in 0 .. SegmentSize - 1 /\ mReadCursor <= Seg(0) + o /\ Seg(0) + o = mReadCursor + m - 1
  <2>1. mReadLimit <= Seg(0) + SegmentSize
    BY <1>2, Limits
  <2> QED BY <1>2, <1>3, <2>1, Limits
<1>5. Written \in Nat
  BY <1>0, HasCall, Ends DEF Written, Moved
<1>6. 0 = N - 1 => Seg(0) + o < mWriteCursor + Written
  BY <1>2, <1>3, <1>4, <1>5
<1>7. mem[Seg(0) + o] = sent - Ahead(0) + o + 1
  <2> HIDE DEF o
  <2> QED BY <1>2, <1>4, <1>6 DEF Contents
<1>8. Ahead(0) = Held + (mReadCursor - Seg(0)) /\ Held \in Nat /\ sent \in Int
  BY <1>0, <1>1, AheadIs, HeldTyped DEF Bounded
<1> QED BY <1>2, <1>3, <1>4, <1>7, <1>8

LEMMA DivisionIs ==
  ASSUME NEW n \in Nat
  PROVE  /\ n \div SegmentSize \in Nat /\ n % SegmentSize \in 0 .. SegmentSize - 1
         /\ n = (n \div SegmentSize) * SegmentSize + (n % SegmentSize)
<1>1. SegmentSize \in Nat /\ SegmentSize > 0
  BY Limits
<1>2. n \div SegmentSize \in Int /\ n % SegmentSize \in 0 .. SegmentSize - 1
      /\ n = SegmentSize * (n \div SegmentSize) + (n % SegmentSize)
  BY <1>1
<1> DEFINE d == n \div SegmentSize
<1>3. d >= 0
  <2>1. SUFFICES ASSUME d <= -1 PROVE FALSE
    BY <1>2
  <2>2. - d - 1 \in Nat
    BY <1>2, <2>1
  <2>3. SegmentSize * (- d - 1) >= 0
    BY <1>1, <2>2
  <2>4. SegmentSize * (- d - 1) = - (SegmentSize * d) - SegmentSize
    BY <1>1, <1>2
  <2> HIDE DEF d
  <2> QED BY <1>1, <1>2, <2>3, <2>4 DEF d
<1>4. SegmentSize * d = d * SegmentSize
  BY <1>1, <1>2
<1> QED BY <1>2, <1>3, <1>4

LEMMA LaterBytes ==
  ASSUME Structure, Contents, NEW n \in 0 .. InRest - 1
  PROVE  mem[GetSegment(mBuffer, 1 + (n \div SegmentSize)) + (n % SegmentSize)] = sent - InRest + n + 1
<1>0. Segments /\ Cursors /\ Bounded /\ Calls
  BY DEF Structure
<1>1. N >= 2 /\ N \in Nat /\ N # 0
  BY <1>0, RestIs, SegmentsAre
<1>2. /\ mWriteCursor \in Int /\ Last \in Int /\ mWriteCursor \in Last .. Last + SegmentSize
      /\ InRest = (N - 2) * SegmentSize + (mWriteCursor - Last) /\ sent \in Int /\ n \in Nat
  BY <1>0, <1>1, Inside, AheadIs, HeldTyped DEF Bounded
<1> DEFINE q == n \div SegmentSize
           o == n % SegmentSize
           z == N - 2
<1>3. q \in Nat /\ o \in 0 .. SegmentSize - 1 /\ n = q * SegmentSize + o
  BY <1>2, DivisionIs
<1>4. z \in Nat /\ InRest = z * SegmentSize + (mWriteCursor - Last)
  BY <1>1, <1>2
<1> HIDE DEF q, o, z
<1>5. q <= z
  <2>1. SUFFICES ASSUME q > z PROVE FALSE
    BY <1>3, <1>4
  <2>2. z + 1 <= q /\ z + 1 \in Nat
    BY <1>3, <1>4, <2>1
  <2>3. (z + 1) * SegmentSize <= q * SegmentSize /\ q * SegmentSize \in Nat
    BY <1>3, <2>2, Product
  <2>4. (z + 1) * SegmentSize = z * SegmentSize + SegmentSize /\ z * SegmentSize \in Nat
    BY <1>4, Limits
  <2> QED BY <1>2, <1>3, <1>4, <2>3, <2>4, Limits
<1>6. 1 + q \in 0 .. N - 1 /\ 1 + q # 0 /\ (1 + q = N - 1 <=> q = z)
  BY <1>1, <1>3, <1>5 DEF z
<1>7. Written \in Nat
  BY <1>0, HasCall, Ends DEF Written, Moved
<1>8. 1 + q = N - 1 => Seg(1 + q) + o < mWriteCursor + Written
  <2>1. SUFFICES ASSUME 1 + q = N - 1 PROVE Seg(1 + q) + o < mWriteCursor + Written
    OBVIOUS
  <2>2. Seg(1 + q) = Last /\ q = z
    BY <1>6, <2>1 DEF Last
  <2>3. q * SegmentSize = z * SegmentSize /\ z * SegmentSize \in Int
    BY <1>4, <2>2, Limits
  <2>4. o < mWriteCursor - Last
    BY <1>2, <1>3, <1>4, <2>3
  <2> QED BY <1>2, <1>3, <1>7, <2>2, <2>4
<1>9. mem[Seg(1 + q) + o] = sent - Ahead(1 + q) + o + 1
  BY <1>3, <1>6, <1>8 DEF Contents
<1>10. Ahead(1 + q) = InRest - n + o /\ InRest \in Int
  <2>1. N - 1 - (1 + q) = z - q
    BY <1>1, <1>3 DEF z
  <2>2. (z - q) * SegmentSize = z * SegmentSize - q * SegmentSize /\ z * SegmentSize \in Int /\ q * SegmentSize \in Int
    BY <1>3, <1>4, Limits
  <2>3. Ahead(1 + q) = (z - q) * SegmentSize + (mWriteCursor - Last)
    BY <2>1 DEF Ahead
  <2> QED BY <1>2, <1>3, <1>4, <2>2, <2>3
<1>11. mem[Seg(1 + q) + o] = sent - InRest + n + 1
  BY <1>2, <1>3, <1>9, <1>10
<1> QED BY <1>11 DEF Seg, q, o

LEMMA BufferedIs ==
  ASSUME Structure, Contents
  PROVE  /\ Held \in Nat /\ sent \in Nat
         /\ Buffered = [m \in 1 .. Held |-> sent - Held + m]
         /\ Len(Buffered) = Held
<1>0. Segments /\ Cursors /\ Bounded
  BY DEF Structure
<1>1. InFirst \in Nat /\ InRest \in Nat /\ Held \in Nat /\ sent \in Nat /\ Held = InFirst + InRest
  BY <1>0, HeldTyped DEF Bounded, Held
<1>2. ASSUME NEW m \in 1 .. Held PROVE mem[AddressOf(m)] = sent - Held + m
  <2>1. CASE m <= InFirst
    <3>1. m \in 1 .. InFirst
      BY <1>1, <2>1
    <3>2. AddressOf(m) = mReadCursor + m - 1
      BY <2>1 DEF AddressOf
    <3> QED BY <3>1, <3>2, FirstBytes
  <2>2. CASE ~(m <= InFirst)
    <3> DEFINE n == m - InFirst - 1
    <3>1. n \in 0 .. InRest - 1
      BY <1>1, <2>2
    <3>2. AddressOf(m) = GetSegment(mBuffer, 1 + (n \div SegmentSize)) + (n % SegmentSize)
      BY <2>2 DEF AddressOf
    <3> HIDE DEF n
    <3>3. mem[AddressOf(m)] = sent - InRest + n + 1
      BY <3>1, <3>2, LaterBytes
    <3>4. sent - InRest + n + 1 = sent - Held + m
      BY <1>1 DEF n
    <3> QED BY <3>3, <3>4
  <2> QED BY <2>1, <2>2
<1>3. Buffered = [m \in 1 .. Held |-> sent - Held + m]
  BY <1>2 DEF Buffered, Held
<1>4. Len(Buffered) = Held
  <2>1. Buffered \in Seq(Int)
    BY <1>1, <1>3
  <2> QED BY <1>1, <1>3, <2>1
<1> QED BY <1>1, <1>3, <1>4

(* What the reader's client is given: the bytes that come next. *)
LEMMA TakenBytes ==
  ASSUME Structure, Contents, Counted, NEW k \in 1..SegmentSize, CopyOut(k)
  PROVE  /\ k \in Nat /\ k > 0 /\ Taken \in Nat /\ Taken + k <= InFirst
         /\ received' = received \o [i \in 1..k |-> Len(received) + i]
<1>0. Plain /\ Calls /\ Segments /\ Cursors /\ Bounded
  BY DEF Structure
<1> DEFINE c == call["in"]
<1>1. /\ pc["in"] = "copy" /\ k <= c.len
      /\ received' = received \o [i \in 1..k |-> mem[c.segment + i - 1]]
  BY DEF CopyOut
<1>2. /\ c.orig \in 1 .. mReadLimit - mReadCursor /\ c.len \in 0 .. c.orig
      /\ c.segment = mReadCursor + (c.orig - c.len)
  BY <1>0, <1>1 DEF Calls, Holds
<1>3. c.orig \in Nat /\ c.len \in Nat /\ mReadCursor \in Int /\ mReadLimit \in Int /\ k \in Nat /\ k > 0
  BY <1>0, CallsTyped, Ends, CursorsTyped, Limits
<1>4. Taken = c.orig - c.len
  BY <1>1 DEF Taken
<1> HIDE DEF c
<1>5. Taken \in Nat /\ Taken + k <= InFirst /\ c.segment = mReadCursor + Taken /\ InFirst \in Nat
  <2>1. InFirst = mReadLimit - mReadCursor /\ InFirst \in Nat
    BY <1>0, HeldTyped
  <2>2. k <= c.len /\ c.orig <= mReadLimit - mReadCursor /\ c.len <= c.orig
    BY <1>1, <1>2, <1>3 DEF c
  <2> QED BY <1>2, <1>3, <1>4, <2>1, <2>2 DEF c
<1>6. Held = sent - Len(received) + Taken /\ Len(received) \in Nat /\ sent \in Nat /\ Held \in Nat
  BY <1>0, HeldTyped DEF Counted, Held, Bounded
<1>7. ASSUME NEW i \in 1 .. k PROVE mem[c.segment + i - 1] = Len(received) + i
  <2> DEFINE m == Taken + i
  <2>1. m \in 1 .. InFirst
    BY <1>3, <1>5
  <2> HIDE DEF m
  <2>2. mem[mReadCursor + m - 1] = sent - Held + m
    BY <2>1, FirstBytes
  <2>3. mReadCursor + m - 1 = c.segment + i - 1 /\ sent - Held + m = Len(received) + i
    BY <1>3, <1>5, <1>6 DEF m
  <2> QED BY <2>2, <2>3
<1>8. [i \in 1..k |-> mem[c.segment + i - 1]] = [i \in 1..k |-> Len(received) + i]
  BY <1>7
<1> QED BY <1>1, <1>3, <1>5, <1>8 DEF c

LEMMA Extended ==
  ASSUME NEW s \in Seq(Int), NEW k \in Nat, NEW b \in Int
  PROVE  /\ [i \in 1..k |-> b + i] \in Seq(Int) /\ Len([i \in 1..k |-> b + i]) = k
         /\ s \o [i \in 1..k |-> b + i] \in Seq(Int)
         /\ Len(s \o [i \in 1..k |-> b + i]) = Len(s) + k
<1> DEFINE t == [i \in 1..k |-> b + i]
<1>1. t \in Seq(Int) /\ Len(t) = k
  OBVIOUS
<1> HIDE DEF t
<1>2. s \o t \in Seq(Int)
  BY <1>1
<1>3. Len(s \o t) = Len(s) + Len(t)
  BY <1>1, ConcatProperties
<1> QED BY <1>1, <1>2, <1>3 DEF t

LEMMA CountedStep ==
  ASSUME Structure, Contents, Counted, [Next]_vars
  PROVE  Counted'
<1>0. Plain /\ Calls /\ Segments /\ Cursors /\ Bounded /\ Structure' /\ Segments' /\ Cursors'
  BY StructureStep DEF Structure
<1>1. /\ Held = sent - Len(received) + Taken /\ Len(received) \in Nat /\ received \in Seq(Int)
      /\ Taken <= Len(received) /\ sent \in Nat /\ Held \in Nat
  BY <1>0, HeldTyped DEF Counted, Held, Bounded
<1>2. Taken \in Nat
  BY <1>0, HasCall, Ends DEF Taken
<1>3. SUFFICES /\ received' \in Seq(Int) /\ Taken' <= Len(received')
               /\ Held' = sent' - Len(received') + Taken'
  BY DEF Counted, Held
<1>4. CASE Quiet \/ UNCHANGED vars
  <2>1. Unmoved
    BY <1>4, StructureQuiet, StructureStutters
  <2>2. Held' = Held
    BY <1>0, <2>1, HeldKept DEF Unmoved
  <2> QED BY <1>1, <2>1, <2>2 DEF Unmoved
<1>5. CASE GetWriteSegment
  <2>1. sent' = sent /\ received' = received
    BY <1>0, <1>5, GetWriteSegmentIs DEF history
  <2> QED BY <1>1, <1>5, <2>1, HeldGetWrite, StructureGetWrite
<1>6. CASE AdvanceReadCursor
  <2> DEFINE n == call["in"].orig - call["in"].len
  <2>1. sent' = sent /\ received' = received /\ pc["in"] = "advance"
    BY <1>0, <1>6, AdvanceReadIs DEF history
  <2>2. Taken = n /\ Taken' = 0 /\ Held' = Held - n
    BY <1>6, <2>1, HeldAdvanceRead, StructureAdvanceRead DEF Taken
  <2> HIDE DEF n
  <2> QED BY <1>1, <1>2, <2>1, <2>2
<1>7. CASE AdvanceWriteCursor
  <2> DEFINE n == call["out"].orig - call["out"].len
  <2>1. sent' = sent + n /\ received' = received /\ n \in Nat /\ Held' = Held + n /\ Taken' = Taken
    BY <1>0, <1>7, AdvanceWriteIs, HeldAdvanceWrite, StructureAdvanceWrite
  <2> HIDE DEF n
  <2> QED BY <1>1, <1>2, <2>1
<1>8. ASSUME NEW k \in 1..SegmentSize, CopyOut(k)
      PROVE  received' \in Seq(Int) /\ Taken' <= Len(received') /\ Held' = sent' - Len(received') + Taken'
  <2>1. SameSegments /\ Positions /\ sent' = sent /\ Taken' = Taken + k
    BY <1>8, StructureCopyOut
  <2>2. k \in Nat /\ received' = received \o [i \in 1..k |-> Len(received) + i]
    BY <1>8, TakenBytes
  <2>3. received' \in Seq(Int) /\ Len(received') = Len(received) + k
    BY <1>1, <2>2, Extended
  <2>4. Held' = Held
    BY <1>0, <2>1, HeldKept
  <2> QED BY <1>1, <1>2, <2>1, <2>2, <2>3, <2>4
<1>9. ASSUME NEW k \in 1..SegmentSize, CopyIn(k)
      PROVE  received' \in Seq(Int) /\ Taken' <= Len(received') /\ Held' = sent' - Len(received') + Taken'
  <2>1. SameSegments /\ Positions /\ sent' = sent /\ Taken' = Taken /\ received' = received
    BY <1>9, StructureCopyIn
  <2>2. Held' = Held
    BY <1>0, <2>1, HeldKept
  <2> QED BY <1>1, <2>1, <2>2
<1> QED BY <1>4, <1>5, <1>6, <1>7, <1>8, <1>9, NextIs

LEMMA ContentsStep ==
  ASSUME Structure, Contents, [Next]_vars
  PROVE  Contents'
<1>1. CASE Quiet \/ UNCHANGED vars
  BY <1>1, StructureQuiet, StructureStutters, ContentsKept DEF Unmoved
<1>2. ASSUME NEW k \in 1..SegmentSize, CopyOut(k) PROVE Contents'
  BY <1>2, StructureCopyOut, ContentsKept
<1> QED BY <1>1, <1>2, NextIs, ContentsGetWrite, ContentsAdvanceRead, ContentsAdvanceWrite, ContentsCopyIn

(* The inductive invariant on which everything below rests. *)
PipeInv == Structure /\ Contents /\ Counted

LEMMA InitPipeInv == Init => PipeInv
<1> SUFFICES ASSUME Init PROVE PipeInv
  OBVIOUS
<1>1. Structure
  BY InitStructure
<1>2. N = 0
  BY EmptyHolds DEF Init, N
<1>3. Contents
  <2>1. 0 .. N - 1 = {}
    BY <1>2
  <2> QED BY <2>1 DEF Contents
<1>4. Counted
  <2>1. received = <<>> /\ sent = 0 /\ pc["in"] = "idle"
    BY Ends DEF Init
  <2>2. Taken = 0 /\ received \in Seq(Int)
    BY <2>1 DEF Taken
  <2>3. InFirst = 0
    BY DEF Init, InFirst, Null
  <2>4. InRest = 0
    BY <1>1, <1>2, RestIs DEF Structure
  <2>5. InFirst + InRest = sent - Len(received) + Taken /\ Len(received) = 0
    <3>1. InFirst + InRest = 0
      BY <2>3, <2>4
    <3>2. Len(received) = 0
      BY <2>1
    <3>3. PICK l \in Int : l = Len(received)
      BY <3>2
    <3>4. l = 0 /\ 0 = 0 - l + 0
      BY <3>2, <3>3
    <3> QED BY <2>1, <2>2, <3>1, <3>2, <3>3, <3>4
  <2>6. Taken <= Len(received)
    BY <2>2, <2>5
  <2> QED BY <2>2, <2>5, <2>6 DEF Counted
<1> QED BY <1>1, <1>3, <1>4 DEF PipeInv

LEMMA PipeInvStep == PipeInv /\ [Next]_vars => PipeInv'
BY StructureStep, ContentsStep, CountedStep DEF PipeInv

LEMMA PipeInvAlways == Spec => []PipeInv
BY InitPipeInv, PipeInvStep, PTL DEF Spec
--------------------------------------------------------------------------------
(* What the pipe remembers beside its cursors *)

(* The bytes between the cursors never exceed what a PRUint32 can count. *)
LEMMA HeldInRange ==
  ASSUME PipeInv
  PROVE  Held \in Nat /\ Held <= sent /\ sent <= MaxBytes /\ Held % UintRange = Held /\ Taken \in Nat
<1>0. Segments /\ Cursors /\ Calls /\ Bounded
  BY DEF PipeInv, Structure
<1>1. Held \in Nat /\ sent \in Nat /\ sent <= MaxBytes /\ Len(received) \in Nat
  BY <1>0, HeldTyped, Limits DEF Bounded, PipeInv, Counted
<1>2. Taken \in Nat
  BY <1>0, HasCall, Ends DEF Taken
<1>3. Held = sent - Len(received) + Taken /\ Taken <= Len(received)
  BY DEF PipeInv, Counted, Held
<1>4. Held <= sent
  BY <1>1, <1>2, <1>3
<1>5. Held < UintRange
  BY <1>1, <1>4, Limits
<1>6. Held % UintRange = Held
  <2>1. Held \in 0 .. UintRange - 1 /\ 0 * UintRange + Held = Held
    BY <1>1, <1>5, Limits
  <2> QED BY <2>1, Remainder, Limits
<1> QED BY <1>1, <1>2, <1>4, <1>6

InRange == Held % UintRange = Held

LEMMA NeverWraps == PipeInv => InRange
BY HeldInRange DEF InRange

Full == mWriteCursor = mWriteLimit /\ N = SegmentCount

LEMMA KeptIs ==
  Kept <=> /\ mStatus = "ok" <=> closedBy = "nobody"
           /\ closedBy # "in" => mAvailable = Held
           /\ mStatus = "ok" => (mWritable <=> ~Full)
BY DEF Kept, Full, Held

LEMMA KeptQuiet ==
  ASSUME PipeInv, PipeInv', Kept, Unmoved, UNCHANGED <<mStatus, mAvailable, mWritable, closedBy>>
  PROVE  Kept'
<1>1. Held' = Held
  BY HeldKept DEF Unmoved, PipeInv, Structure
<1>2. Full' = Full
  BY DEF Full, Unmoved, Positions, SameSegments
<1> QED BY <1>1, <1>2 DEF Kept, Full, Held

LEMMA KeptClose ==
  ASSUME PipeInv, PipeInv', Kept, NEW e \in End, NEW r \in Reasons, CloseWithStatus(e, r), Unmoved
  PROVE  Kept'
<1>0. OnPipeException(e, r)
  BY DEF CloseWithStatus
<1>1. /\ mStatus = "ok" /\ mStatus' = r /\ r # "ok" /\ closedBy' = e /\ e # "nobody" /\ closedBy = "nobody"
      /\ mAvailable = Held
  BY <1>0, PipeAssumption DEF OnPipeException, Kept, Held, End
<1>2. Held' = Held
  BY HeldKept DEF Unmoved, PipeInv, Structure
<1>3. e # "in" => mAvailable' = mAvailable
  BY <1>0, Ends DEF OnPipeException, AffectsInput
<1> QED BY <1>1, <1>2, <1>3 DEF Kept, Held

LEMMA KeptGetWrite ==
  ASSUME PipeInv, PipeInv', Kept, GetWriteSegment
  PROVE  Kept'
<1>0. Segments /\ Cursors /\ Calls /\ Structure /\ Segments' /\ Cursors'
  BY DEF PipeInv, Structure
<1>1. UNCHANGED <<mStatus, mAvailable, mWritable, closedBy>> /\ mStatus = "ok"
  BY DEF GetWriteSegment, streams, history
<1>2. Held' = Held
  BY <1>0, HeldGetWrite
<1>3. Full' <=> Full
  <2>1. CASE Appends
    <3>1. ~Full
      BY <1>0, <2>1, SegmentsAre, Limits DEF Appends, Full
    <3>2. ~Full'
      <4>1. PICK s \in Slot : Last' = Base(s)
        BY <2>1 DEF Appends
      <4>2. Base(s) \in Int
        BY Limits DEF Base, Slot
      <4>3. Base(s) # Base(s) + SegmentSize
        BY <4>2, Limits
      <4> QED BY <2>1, <4>1, <4>3 DEF Appends, Full
    <3> QED BY <3>1, <3>2
  <2>2. CASE RollsBackTo
    <3>1. ~Full
      BY <2>2 DEF RollsBackTo, Full
    <3>2. ~Full'
      <4>1. N # 0 /\ Last = Seg(0) /\ Seg(0) \in Int /\ mWriteLimit = Last + SegmentSize
        BY <1>0, <2>2, Inside, Limits DEF RollsBackTo
      <4>2. mWriteCursor' # mWriteLimit'
        BY <2>2, <4>1, Limits DEF RollsBackTo
      <4> QED BY <4>2 DEF Full
    <3> QED BY <3>1, <3>2
  <2>3. CASE Stays
    BY <2>3 DEF Stays, Full, N
  <2> QED BY <1>0, <2>1, <2>2, <2>3, GetWriteSegmentIs
<1> QED BY <1>1, <1>2, <1>3 DEF Kept, Full, Held

LEMMA KeptAdvanceRead ==
  ASSUME PipeInv, PipeInv', Kept, AdvanceReadCursor
  PROVE  Kept'
<1>0. Segments /\ Cursors /\ Calls /\ Structure
  BY DEF PipeInv, Structure
<1> DEFINE n == call["in"].orig - call["in"].len
<1>1. /\ Reads(n) \/ Drops(n)
      /\ n \in Nat /\ mAvailable' = Reduced(n) /\ mStatus' = mStatus /\ closedBy' = closedBy
  BY <1>0, AdvanceReadIs DEF history
<1>2. Held' = Held - n
  BY <1>0, HeldAdvanceRead
<1> HIDE DEF n
<1>3. (mStatus = "ok" => (mWritable <=> ~Full)) => (mStatus' = "ok" => (mWritable' <=> ~Full'))
  <2>1. CASE Reads(n)
    BY <1>1, <2>1 DEF Reads, Full, N
  <2>2. CASE Drops(n)
    <3>1. N' = N - 1 /\ N \in Nat /\ N <= SegmentCount /\ mWritable' = TRUE
      BY <1>0, <2>2, SegmentsAre DEF Drops
    <3>2. N' # SegmentCount
      BY <3>1, Limits
    <3> QED BY <3>1, <3>2 DEF Full
  <2> QED BY <1>1, <2>1, <2>2
<1>4. closedBy # "in" => mAvailable' = Held'
  <2>1. InRange'
    BY NeverWraps, PTL
  <2>2. ASSUME closedBy # "in" PROVE mAvailable = Held
    BY <2>2 DEF Kept, Held
  <2> QED BY <1>1, <1>2, <2>1, <2>2 DEF Reduced, InRange
<1> QED BY <1>1, <1>3, <1>4 DEF Kept, Full, Held

LEMMA KeptAdvanceWrite ==
  ASSUME PipeInv, PipeInv', Kept, AdvanceWriteCursor
  PROVE  Kept'
<1>0. Segments /\ Cursors /\ Calls /\ Structure
  BY DEF PipeInv, Structure
<1> DEFINE n == call["out"].orig - call["out"].len
<1>1. /\ n \in Nat /\ n > 0 /\ n <= mWriteLimit - mWriteCursor /\ N # 0
      /\ mAvailable' = (mAvailable + n) % UintRange /\ mStatus' = mStatus /\ closedBy' = closedBy
      /\ mWriteCursor' = mWriteCursor + n /\ mWriteLimit' = mWriteLimit /\ N' = N
      /\ mWritable' = (mWritable /\ ~(mWriteCursor + n = mWriteLimit /\ N = SegmentCount))
  BY <1>0, AdvanceWriteIs DEF SameSegments
<1>2. Held' = Held + n
  BY <1>0, HeldAdvanceWrite
<1> HIDE DEF n
<1>3. mWriteCursor # mWriteLimit
  BY <1>0, <1>1, CursorsTyped
<1>4. closedBy # "in" => mAvailable' = Held'
  <2>1. InRange'
    BY NeverWraps, PTL
  <2>2. ASSUME closedBy # "in" PROVE mAvailable = Held
    BY <2>2 DEF Kept, Held
  <2> QED BY <1>1, <1>2, <2>1, <2>2 DEF InRange
<1>5. mStatus = "ok" => mWritable
  BY <1>3 DEF Kept
<1>6. mStatus' = "ok" => (mWritable' <=> ~Full')
  BY <1>1, <1>5 DEF Full
<1> QED BY <1>1, <1>4, <1>6 DEF Kept, Full, Held

LEMMA KeptStep ==
  ASSUME PipeInv, PipeInv', Kept, [Next]_vars
  PROVE  Kept'
<1>0. Structure
  BY DEF PipeInv
<1>1. CASE Quiet \/ UNCHANGED vars
  <2>1. Unmoved
    BY <1>0, <1>1, StructureQuiet, StructureStutters
  <2>2. ASSUME NEW e \in End, NEW r \in Reasons, CloseWithStatus(e, r) PROVE Kept'
    BY <2>1, <2>2, KeptClose
  <2>3. ASSUME ~\E e \in End, r \in Reasons : CloseWithStatus(e, r) PROVE Kept'
    <3>1. UNCHANGED <<mStatus, mAvailable, mWritable, closedBy>>
      BY <1>1, <2>3 DEF Quiet, GetReadSegment, GetReadSegmentEmpty, InputWait, CopyOutRefused, ReadSegments,
         GetWriteSegmentFull, GetWriteSegmentFailed, OutputWait, CopyInRefused, WriteSegments, AsyncWait,
         streams, history, vars
    <3> QED BY <2>1, <3>1, KeptQuiet
  <2> QED BY <2>2, <2>3
<1>2. ASSUME NEW k \in 1..SegmentSize, CopyOut(k) \/ CopyIn(k) PROVE Kept'
  <2>1. SameSegments /\ Positions
    BY <1>0, <1>2, StructureCopyOut, StructureCopyIn
  <2>2. Held' = Held
    BY <2>1, HeldKept DEF PipeInv, Structure
  <2>3. Full' = Full
    BY <2>1 DEF Full, Positions, SameSegments
  <2>4. UNCHANGED <<mStatus, mAvailable, mWritable, closedBy>>
    BY <1>2 DEF CopyOut, CopyIn, streams, history
  <2> QED BY <2>2, <2>3, <2>4 DEF Kept, Full, Held
<1> QED BY <1>1, <1>2, NextIs, KeptGetWrite, KeptAdvanceRead, KeptAdvanceWrite

LEMMA InitKept == Init => Kept
<1> SUFFICES ASSUME Init PROVE Kept
  OBVIOUS
<1>1. N = 0 /\ Structure
  BY EmptyHolds, InitStructure DEF Init, N
<1>2. Held = 0
  <2>1. InFirst = 0
    BY DEF Init, InFirst, Null
  <2>2. InRest = 0
    BY <1>1, RestIs DEF Structure
  <2> QED BY <2>1, <2>2 DEF Held
<1> QED BY <1>1, <1>2, Limits DEF Init, Kept, Held

LEMMA KeptAlways == Spec => [](PipeInv /\ Kept)
<1>1. PipeInv /\ Kept /\ [Next]_vars => PipeInv' /\ Kept'
  BY PipeInvStep, KeptStep
<1> QED BY <1>1, InitPipeInv, InitKept, PTL DEF Spec

LEMMA FullMeans ==
  ASSUME Segments
  PROVE  Full <=> NeedsSegment /\ GetSize(mBuffer) >= MaxSize
<1>1. N \in 0 .. SegmentCount /\ N \in Nat
  BY SegmentsAre
<1>2. N * SegmentSize >= MaxSize <=> N >= SegmentCount
  BY <1>1, SizeIs
<1>3. N = SegmentCount <=> N >= SegmentCount
  BY <1>1, Limits
<1>4. GetSize(mBuffer) = N * SegmentSize
  BY DEF GetSize, N
<1> QED BY <1>2, <1>3, <1>4 DEF Full, NeedsSegment

(* What nsPipe3 keeps beside its cursors is exact, for every segment size, *)
(* number of segments, and mix of blocking and non-blocking ends: the      *)
(* unsigned additions of AdvanceWriteCursor and subtractions of            *)
(* ReduceAvailable never wrap and leave mAvailable the number of bytes     *)
(* between the cursors; mWriteSegment is the index of the last segment;    *)
(* and mWritable tells whether GetWriteSegment would find room.            *)
THEOREM PipeBookkeeping == Spec => []BookkeepingExact
<1>1. PipeInv /\ Kept => BookkeepingExact
  <2> SUFFICES ASSUME PipeInv, Kept PROVE BookkeepingExact
    OBVIOUS
  <2>1. Structure /\ Contents /\ Segments
    BY DEF PipeInv, Structure
  <2>2. TypeOK
    BY <2>1, TypedAll DEF Structure
  <2>3. Len(Buffered) = Held
    BY <2>1, BufferedIs
  <2>4. closedBy # "in" => mAvailable = Held
    BY DEF Kept, Held
  <2>5. mWriteSegment = GetSegmentCount(mBuffer) - 1
    BY <2>1 DEF Segments, N
  <2>6. mStatus = "ok" => (mWritable <=> ~(NeedsSegment /\ GetSize(mBuffer) >= MaxSize))
    <3>1. Full <=> NeedsSegment /\ GetSize(mBuffer) >= MaxSize
      BY <2>1, FullMeans
    <3>2. mStatus = "ok" => (mWritable <=> ~Full)
      BY DEF Kept, Full
    <3> QED BY <3>1, <3>2
  <2> QED BY <2>2, <2>3, <2>4, <2>5, <2>6 DEF BookkeepingExact
<1> QED BY <1>1, KeptAlways, PTL
--------------------------------------------------------------------------------
(* The pipe of segments implements the pipe of bytes *)

(* The bytes from the a-th, which is not among them, to the b-th. *)
Bytes(a, b) == [i \in 1 .. b - a |-> a + i]

LEMMA BytesAre ==
  ASSUME NEW a \in Nat, NEW b \in Nat, a <= b
  PROVE  /\ Bytes(a, b) \in Seq(Int) /\ Len(Bytes(a, b)) = b - a
         /\ \A i \in 1 .. b - a : Bytes(a, b)[i] = a + i
<1>1. b - a \in Nat
  OBVIOUS
<1>2. PICK k \in Nat : k = b - a
  BY <1>1
<1>3. Bytes(a, b) = [i \in 1 .. k |-> a + i]
  BY <1>2 DEF Bytes
<1> QED BY <1>2, <1>3

LEMMA BytesWritten ==
  ASSUME NEW a \in Nat, NEW b \in Nat, a <= b, NEW n \in Nat
  PROVE  Bytes(a, b) \o [i \in 1 .. n |-> b + i] = Bytes(a, b + n)
<1> DEFINE s == Bytes(a, b)
           t == [i \in 1 .. n |-> b + i]
           u == Bytes(a, b + n)
<1>1. s \in Seq(Int) /\ Len(s) = b - a /\ \A i \in 1 .. b - a : s[i] = a + i
  BY BytesAre
<1>2. t \in Seq(Int) /\ Len(t) = n /\ \A i \in 1 .. n : t[i] = b + i
  OBVIOUS
<1>3. u \in Seq(Int) /\ Len(u) = b + n - a /\ \A i \in 1 .. b + n - a : u[i] = a + i
  <2>1. b + n \in Nat /\ a <= b + n
    OBVIOUS
  <2> QED BY <2>1, BytesAre
<1> HIDE DEF s, t, u
<1>4. /\ s \o t \in Seq(Int) /\ Len(s \o t) = Len(s) + Len(t)
      /\ \A i \in 1 .. Len(s) + Len(t) : (s \o t)[i] = IF i <= Len(s) THEN s[i] ELSE t[i - Len(s)]
  BY <1>1, <1>2, ConcatProperties
<1>5. Len(s \o t) = Len(u)
  BY <1>1, <1>2, <1>3, <1>4
<1>6. ASSUME NEW i \in 1 .. Len(s \o t) PROVE (s \o t)[i] = u[i]
  <2>1. i \in 1 .. b + n - a /\ i \in 1 .. Len(s) + Len(t)
    BY <1>1, <1>2, <1>4
  <2>2. CASE i <= Len(s)
    BY <1>1, <1>3, <1>4, <2>1, <2>2
  <2>3. CASE ~(i <= Len(s))
    <3>1. i - Len(s) \in 1 .. n /\ b + (i - Len(s)) = a + i
      BY <1>1, <2>1, <2>3
    <3> QED BY <1>2, <1>3, <1>4, <2>1, <2>3, <3>1
  <2> QED BY <2>2, <2>3
<1>7. s \o t = u
  BY <1>3, <1>4, <1>5, <1>6, SeqEqual
<1> QED BY <1>7 DEF s, t, u

LEMMA BytesPart ==
  ASSUME NEW a \in Nat, NEW b \in Nat, NEW c \in Nat, NEW d \in Nat, a <= c, c <= d, d <= b
  PROVE  SubSeq(Bytes(a, b), c - a + 1, d - a) = Bytes(c, d)
<1> DEFINE s == Bytes(a, b)
           m == c - a + 1
           n == d - a
           u == Bytes(c, d)
<1>1. s \in Seq(Int) /\ Len(s) = b - a /\ \A i \in 1 .. b - a : s[i] = a + i
  BY BytesAre
<1>2. u \in Seq(Int) /\ Len(u) = d - c /\ \A i \in 1 .. d - c : u[i] = c + i
  BY BytesAre
<1>3. m \in Int /\ n \in Int /\ n - m + 1 = d - c /\ m >= 1 /\ n <= b - a /\ (IF m <= n THEN n - m + 1 ELSE 0) = d - c
  OBVIOUS
<1> HIDE DEF s, u
<1>4. \A i \in m .. n : s[i] \in Int
  BY <1>1
<1>5. /\ SubSeq(s, m, n) \in Seq(Int) /\ Len(SubSeq(s, m, n)) = d - c
      /\ \A i \in 1 .. d - c : SubSeq(s, m, n)[i] = s[m + i - 1]
  <2> HIDE DEF m, n
  <2> QED BY <1>3, <1>4, SubSeqProperties
<1>6. ASSUME NEW i \in 1 .. d - c PROVE SubSeq(s, m, n)[i] = u[i]
  <2>1. m + i - 1 \in 1 .. b - a /\ a + (m + i - 1) = c + i
    OBVIOUS
  <2> HIDE DEF m, n
  <2>2. SubSeq(s, m, n)[i] = s[m + i - 1] /\ u[i] = c + i
    BY <1>2, <1>5
  <2>3. s[m + i - 1] = a + (m + i - 1)
    BY <1>1, <2>1
  <2> QED BY <2>1, <2>2, <2>3
<1> HIDE DEF m, n
<1>7. SubSeq(s, m, n) = u
  BY <1>2, <1>5, <1>6, SeqEqual
<1> QED BY <1>7 DEF s, m, n, u

(* There is room for what the pipe holds. *)
LEMMA HeldFits ==
  ASSUME Segments, Cursors
  PROVE  Held <= MaxSize
<1>1. MaxSize \in Nat /\ SegmentSize <= MaxSize /\ SegmentSize \in Nat
  BY Bases, Limits, Product DEF MaxSize
<1>2. CASE N = 0
  <2>1. InFirst = 0 /\ InRest = 0
    BY <1>2, RestIs DEF Cursors, InFirst, Null
  <2> QED BY <1>1, <2>1 DEF Held
<1>3. CASE N = 1
  <2>1. /\ InRest = 0 /\ InFirst = mWriteCursor - mReadCursor /\ mReadCursor \in Int /\ mWriteCursor \in Int
        /\ Seg(0) \in Int /\ Last = Seg(0)
        /\ mReadCursor >= Seg(0) /\ mWriteCursor <= Last + SegmentSize
    BY <1>3, RestIs, Inside DEF InFirst
  <2> QED BY <1>1, <2>1 DEF Held
<1>4. CASE N # 0 /\ N # 1
  <2>1. N \in 0 .. SegmentCount /\ N - 2 \in Nat /\ N \in Nat
    BY <1>4, SegmentsAre, Limits
  <2>2. InRest = (N - 2) * SegmentSize + (mWriteCursor - Last)
    BY <1>4, <2>1, RestIs
  <2>3. InFirst <= SegmentSize /\ mWriteCursor - Last <= SegmentSize /\ InFirst \in Int /\ mWriteCursor - Last \in Int
    <3>1. /\ mReadCursor \in Int /\ mReadLimit = Seg(0) + SegmentSize /\ mReadCursor >= Seg(0) /\ Seg(0) \in Int
          /\ Last \in Int /\ mWriteCursor \in Int /\ mWriteCursor <= Last + SegmentSize
      BY <1>4, Inside
    <3> QED BY <3>1, <1>1 DEF InFirst
  <2>4. (N - 2) * SegmentSize + SegmentSize + SegmentSize = N * SegmentSize /\ (N - 2) * SegmentSize \in Int
    BY <1>1, <2>1
  <2>5. N * SegmentSize <= MaxSize
    <3>1. N * SegmentSize <= SegmentCount * SegmentSize
      BY <2>1, Product, Limits
    <3> QED BY <3>1, Limits DEF MaxSize
  <2>6. N * SegmentSize \in Int
    BY <1>1, <2>1
  <2> QED BY <1>1, <2>2, <2>3, <2>4, <2>5, <2>6 DEF Held
<1> QED BY <1>2, <1>3, <1>4

(* What is in the pipe: the bytes sent and not received. *)
ContentRight ==
  /\ sent \in Nat /\ received \in Seq(Int) /\ Len(received) \in Nat /\ Len(received) <= sent
  /\ sent - Len(received) <= MaxSize
  /\ Content = Bytes(Len(received), sent)

LEMMA ContentIs == PipeInv => ContentRight
<1> SUFFICES ASSUME PipeInv PROVE ContentRight
  OBVIOUS
<1>0. Structure /\ Contents /\ Segments /\ Cursors /\ Calls
  BY DEF PipeInv, Structure
<1>1. /\ Held \in Nat /\ sent \in Nat /\ Buffered = [m \in 1 .. Held |-> sent - Held + m] /\ Len(Buffered) = Held
  BY <1>0, BufferedIs
<1>2. Held <= sent /\ Taken \in Nat
  BY HeldInRange
<1>3. received \in Seq(Int) /\ Len(received) \in Nat /\ Held = sent - Len(received) + Taken
  BY DEF PipeInv, Counted, Held
<1>4. Taken <= Held
  <2>1. CASE pc["in"] \in {"copy", "advance"}
    <3>1. call["in"].orig <= InFirst /\ InFirst \in Nat /\ InRest \in Nat /\ call["in"].orig \in Nat /\ call["in"].len \in Nat
      BY <1>0, <2>1, HasCall, HeldTyped, CallsTyped, Ends
    <3> QED BY <2>1, <3>1 DEF Taken, Held
  <2>2. CASE pc["in"] \notin {"copy", "advance"}
    BY <1>1, <2>2 DEF Taken
  <2> QED BY <2>1, <2>2
<1>5. MaxSize \in Int /\ Held <= MaxSize
  BY <1>0, HeldFits, Limits DEF MaxSize
<1>6. Len(received) <= sent /\ sent - Len(received) <= MaxSize
  BY <1>1, <1>2, <1>3, <1>4, <1>5
<1>7. Content = Bytes(Len(received), sent)
  <2> DEFINE a == sent - Held
             r == Len(received)
  <2>1. a \in Nat /\ a <= r /\ r <= sent /\ r \in Nat
    BY <1>1, <1>2, <1>3, <1>6
  <2>2. r - a + 1 = Taken + 1 /\ sent - a = Held
    BY <1>1, <1>2, <1>3
  <2>3. Buffered = Bytes(a, sent)
    BY <1>1, <2>2 DEF Bytes
  <2> HIDE DEF a, r
  <2>4. SubSeq(Bytes(a, sent), r - a + 1, sent - a) = Bytes(r, sent)
    BY <1>1, <2>1, BytesPart
  <2>5. Content = Bytes(r, sent)
    BY <1>1, <2>2, <2>3, <2>4 DEF Content
  <2> QED BY <2>5 DEF r
<1> QED BY <1>1, <1>3, <1>6, <1>7 DEF ContentRight

LEMMA WriteImplements ==
  ASSUME PipeInv, ContentRight, ContentRight', AdvanceWriteCursor
  PROVE  Pipe!Write
<1>0. Segments /\ Cursors /\ Calls
  BY DEF PipeInv, Structure
<1> DEFINE n == call["out"].orig - call["out"].len
           r == Len(received)
<1>1. n \in Nat /\ n > 0 /\ sent' = sent + n /\ received' = received
  BY <1>0, AdvanceWriteIs
<1> HIDE DEF n
<1>2. /\ sent \in Nat /\ r \in Nat /\ r <= sent /\ Content = Bytes(r, sent)
      /\ sent' - r <= MaxSize /\ Content' = Bytes(r, sent')
  BY <1>1 DEF ContentRight
<1> HIDE DEF r
<1>3. Content' = Content \o [i \in 1 .. n |-> sent + i]
  BY <1>1, <1>2, BytesWritten
<1>4. Len(Content) = sent - r
  BY <1>2, BytesAre
<1>5. n \in 1 .. MaxSize - Len(Content)
  <2>1. MaxSize \in Int
    BY Limits DEF MaxSize
  <2> QED BY <1>1, <1>2, <1>4, <2>1
<1> QED BY <1>1, <1>3, <1>5 DEF Pipe!Write

LEMMA ReadImplements ==
  ASSUME PipeInv, ContentRight, ContentRight', NEW k \in 1..SegmentSize, CopyOut(k)
  PROVE  Pipe!Read
<1>0. Structure /\ Contents /\ Counted /\ Segments /\ Cursors
  BY DEF PipeInv, Structure
<1> DEFINE r == Len(received)
<1>1. /\ k \in Nat /\ k > 0 /\ Taken \in Nat /\ Taken + k <= InFirst
      /\ received' = received \o [i \in 1..k |-> r + i] /\ sent' = sent
  BY <1>0, TakenBytes, StructureCopyOut
<1>2. /\ sent \in Nat /\ r \in Nat /\ r <= sent /\ Content = Bytes(r, sent) /\ received \in Seq(Int)
      /\ Content' = Bytes(Len(received'), sent')
  BY DEF ContentRight
<1>3. Len(received') = r + k
  BY <1>1, <1>2, Extended
<1>4. r + k <= sent
  <2>1. InFirst + InRest = sent - r + Taken /\ InFirst \in Nat /\ InRest \in Nat
    BY <1>0, HeldTyped DEF Counted
  <2> HIDE DEF r
  <2> QED BY <1>1, <1>2, <2>1
<1> HIDE DEF r
<1>5. Len(Content) = sent - r
  BY <1>2, BytesAre
<1>6. r + k \in Nat /\ r <= r + k /\ r <= r /\ sent <= sent
  BY <1>1, <1>2
<1>7. [i \in 1..k |-> r + i] = SubSeq(Content, 1, k)
  <2>1. SubSeq(Bytes(r, sent), r - r + 1, (r + k) - r) = Bytes(r, r + k)
    BY <1>2, <1>4, <1>6, BytesPart
  <2>2. r - r + 1 = 1 /\ (r + k) - r = k
    BY <1>1, <1>2
  <2> QED BY <1>2, <2>1, <2>2 DEF Bytes
<1>8. Content' = SubSeq(Content, k + 1, Len(Content))
  <2>1. SubSeq(Bytes(r, sent), (r + k) - r + 1, sent - r) = Bytes(r + k, sent)
    BY <1>2, <1>4, <1>6, BytesPart
  <2>2. (r + k) - r + 1 = k + 1
    BY <1>1, <1>2
  <2> QED BY <1>1, <1>2, <1>3, <1>5, <2>1, <2>2
<1>9. k \in 1 .. Len(Content)
  BY <1>1, <1>2, <1>4, <1>5
<1> QED BY <1>1, <1>7, <1>8, <1>9 DEF Pipe!Read

LEMMA StepImplements ==
  ASSUME PipeInv, ContentRight, ContentRight', [Next]_vars
  PROVE  [Pipe!Next]_(Pipe!vars)
<1>0. Structure /\ Segments /\ Cursors /\ Calls
  BY DEF PipeInv, Structure
<1>1. CASE AdvanceWriteCursor
  BY <1>1, WriteImplements DEF Pipe!Next
<1>2. ASSUME NEW k \in 1..SegmentSize, CopyOut(k) PROVE Pipe!Next
  BY <1>2, ReadImplements DEF Pipe!Next
<1>3. ASSUME \/ Quiet \/ UNCHANGED vars \/ GetWriteSegment \/ AdvanceReadCursor
             \/ \E k \in 1..SegmentSize : CopyIn(k)
      PROVE  UNCHANGED Pipe!vars
  <2>1. sent' = sent /\ received' = received
    <3>1. CASE Quiet \/ UNCHANGED vars
      BY <1>0, <3>1, StructureQuiet, StructureStutters DEF Unmoved
    <3>2. CASE GetWriteSegment
      BY <3>2 DEF GetWriteSegment, history
    <3>3. CASE AdvanceReadCursor
      BY <3>3 DEF AdvanceReadCursor, history
    <3>4. ASSUME NEW k \in 1..SegmentSize, CopyIn(k) PROVE sent' = sent /\ received' = received
      BY <3>4 DEF CopyIn, history
    <3> QED BY <1>3, <3>1, <3>2, <3>3, <3>4
  <2>2. Content' = Content
    BY <2>1 DEF ContentRight
  <2> QED BY <2>1, <2>2 DEF Pipe!vars
<1> QED BY <1>1, <1>2, <1>3, NextIs

LEMMA InitImplements == Init => Pipe!Init
<1> SUFFICES ASSUME Init PROVE Pipe!Init
  OBVIOUS
<1>1. sent = 0 /\ received = <<>>
  BY DEF Init
<1>2. ContentRight
  BY InitPipeInv, ContentIs
<1>3. Content = Bytes(0, 0)
  BY <1>1, <1>2 DEF ContentRight
<1>4. Bytes(0, 0) \in Seq(Int) /\ Len(Bytes(0, 0)) = 0
  BY BytesAre
<1>5. Content = <<>>
  BY <1>3, <1>4, EmptySeq
<1> QED BY <1>1, <1>5 DEF Pipe!Init

(* nsPipe3 implements BytePipe for every segment size, number of segments, *)
(* initial size of the segment array and mix of ends: through the segments *)
(* that AppendNewSegment and DeleteFirstSegment reuse, the growth of their *)
(* circular array, the roll-back of both cursors in GetWriteSegment and    *)
(* segments that lie back to back, each byte written comes out once, in    *)
(* order and unchanged, although both ends move bytes outside the monitor, *)
(* and the pipe never holds more than mMaxSize.                            *)
THEOREM PipeRefinement == Spec => ImplementsPipe
<1>1. PipeInv /\ PipeInv' /\ ContentRight /\ ContentRight' /\ [Next]_vars => [Pipe!Next]_(Pipe!vars)
  BY StepImplements
<1> QED BY <1>1, InitImplements, PipeInvAlways, ContentIs, PTL DEF Spec, ImplementsPipe, Pipe!Spec

(* What was received, and what comes next. *)
InOrder ==
  /\ received = Bytes(0, Len(received))
  /\ Content = Bytes(Len(received), sent)

LEMMA OrderStep ==
  ASSUME PipeInv, ContentRight', InOrder, [Next]_vars
  PROVE  InOrder'
<1>0. Structure /\ Contents /\ Counted /\ Calls /\ Segments /\ Cursors
  BY DEF PipeInv, Structure
<1> DEFINE r == Len(received)
<1>1. r \in Nat /\ received \in Seq(Int) /\ received = Bytes(0, r) /\ Content' = Bytes(Len(received'), sent')
  BY <1>0 DEF Counted, InOrder, ContentRight
<1>2. SUFFICES received' = Bytes(0, Len(received'))
  BY <1>1 DEF InOrder
<1>3. ASSUME NEW k \in 1..SegmentSize, CopyOut(k) PROVE received' = Bytes(0, Len(received'))
  <2>1. k \in Nat /\ received' = received \o [i \in 1..k |-> r + i]
    BY <1>0, <1>3, TakenBytes
  <2>2. Len(received') = r + k
    BY <1>1, <2>1, Extended
  <2> HIDE DEF r
  <2>3. 0 \in Nat /\ 0 <= r
    BY <1>1
  <2>4. Bytes(0, r) \o [i \in 1..k |-> r + i] = Bytes(0, r + k)
    BY <1>1, <2>1, <2>3, BytesWritten
  <2> QED BY <1>1, <2>1, <2>2, <2>4
<1>4. CASE ~\E k \in 1..SegmentSize : CopyOut(k)
  <2>1. received' = received
    <3>1. CASE Quiet \/ UNCHANGED vars
      BY <1>0, <3>1, StructureQuiet, StructureStutters DEF Unmoved
    <3>2. CASE GetWriteSegment
      BY <3>2 DEF GetWriteSegment, history
    <3>3. CASE AdvanceReadCursor
      BY <3>3 DEF AdvanceReadCursor, history
    <3>4. CASE AdvanceWriteCursor
      BY <3>4 DEF AdvanceWriteCursor
    <3>5. ASSUME NEW k \in 1..SegmentSize, CopyIn(k) PROVE received' = received
      BY <3>5 DEF CopyIn, history
    <3> QED BY <1>4, <3>1, <3>2, <3>3, <3>4, <3>5, NextIs
  <2> QED BY <1>1, <2>1
<1> QED BY <1>3, <1>4

(* What comes out of nsPipe3 is what went in: at every moment the client's *)
(* function of the reader has been given the first bytes written, one      *)
(* after the other, and the next ones lie between the cursors in order.    *)
THEOREM BytesInOrder == Spec => []InOrder
<1>1. Init => InOrder
  <2> SUFFICES ASSUME Init PROVE InOrder
    OBVIOUS
  <2>1. ContentRight /\ received = <<>>
    BY InitPipeInv, ContentIs DEF Init
  <2>2. Len(received) = 0
    BY <2>1
  <2>3. Bytes(0, 0) \in Seq(Int) /\ Len(Bytes(0, 0)) = 0
    BY BytesAre
  <2>4. Bytes(0, 0) = <<>>
    BY <2>3, EmptySeq
  <2> QED BY <2>1, <2>2, <2>4 DEF InOrder, ContentRight
<1>2. PipeInv /\ ContentRight' /\ InOrder /\ [Next]_vars => InOrder'
  BY OrderStep
<1> QED BY <1>1, <1>2, PipeInvAlways, ContentIs, PTL DEF Spec
--------------------------------------------------------------------------------
(* A read that ends has left nothing behind *)

LEMMA NothingHeld ==
  ASSUME PipeInv, mReadCursor = mReadLimit
  PROVE  Held = 0
<1>0. Segments /\ Cursors
  BY DEF PipeInv, Structure
<1>1. N \in Nat /\ N < 2
  <2>1. CASE N = 0
    BY <2>1
  <2>2. CASE N = 1
    BY <2>2
  <2>3. CASE N # 0 /\ N # 1
    <3>1. mReadLimit = Seg(0) + SegmentSize /\ mReadCursor <= Seg(0) + SegmentSize - 1 /\ Seg(0) \in Int
      BY <1>0, <2>3, Inside
    <3> QED BY <3>1, Limits
  <2> QED BY <2>1, <2>2, <2>3
<1>2. InRest = 0 /\ InFirst = 0
  BY <1>0, <1>1, RestIs, CursorsTyped DEF InFirst
<1> QED BY <1>2 DEF Held

LEMMA ReadEnds ==
  ASSUME Reasons \subseteq {"closed"}, PipeInv, Next,
         pc["in"] \in {"loop", "wait", "notified"}, pc'["in"] = "idle"
  PROVE  Len(received) = sent
<1>0. Plain /\ Calls /\ Segments /\ Cursors /\ Structure
  BY DEF PipeInv, Structure
<1>1. pc \in [End -> Place] /\ "in" \in End /\ "out" \in End /\ "in" # "out"
  BY <1>0, PlacesTyped, Ends
<1>2. GetReadSegmentEmpty
  <2>1. ASSUME ~GetReadSegmentEmpty PROVE FALSE
    <3>1. CASE GetReadSegment \/ CopyOutRefused \/ \E n \in Counts : ReadSegments(n)
      BY <1>1, <3>1 DEF GetReadSegment, CopyOutRefused, ReadSegments
    <3>2. CASE InputWait
      <4>1. mStatus \in {"ok", "closed"}
        BY <1>0 DEF Plain
      <4> QED BY <1>1, <3>2, <4>1 DEF InputWait
    <3>3. CASE \/ GetWriteSegmentFull \/ GetWriteSegmentFailed \/ OutputWait \/ CopyInRefused
               \/ (\E n \in Counts : WriteSegments(n)) \/ GetWriteSegment
               \/ \E k \in 1..SegmentSize : CopyIn(k)
      <4>1. pc'["in"] = pc["in"]
        BY <1>1, <3>3 DEF GetWriteSegmentFull, GetWriteSegmentFailed, OutputWait, CopyInRefused, WriteSegments,
           GetWriteSegment, CopyIn, Returned
      <4> QED BY <4>1
    <3>4. CASE AdvanceReadCursor \/ \E k \in 1..SegmentSize : CopyOut(k)
      BY <3>4 DEF AdvanceReadCursor, CopyOut
    <3>5. CASE AdvanceWriteCursor
      <4>1. call' = Locals("out") /\ \E n \in Nat : pc' \in Notified(Continued("out", pc), n)
        BY <1>0, <3>5, AdvanceWriteIs, AdvanceWriteWakes
      <4>2. pc'["in"] = pc["in"] \/ pc'["in"] = "notified"
        BY <1>0, <1>1, <4>1, AdvancedEnd
      <4> QED BY <4>2
    <3>6. ASSUME NEW e \in End, NEW r \in Reasons, CloseWithStatus(e, r) PROVE FALSE
      <4>1. pc'["in"] = pc["in"] \/ pc'["in"] = "notified"
        BY <1>0, <1>1, <3>6, Closing, NotifiedIs DEF CloseWithStatus
      <4> QED BY <4>1
    <3>7. ASSUME NEW e \in End, NEW f \in Flags(e), AsyncWait(e, f) PROVE FALSE
      BY <3>7 DEF AsyncWait
    <3> QED BY <2>1, <3>1, <3>2, <3>3, <3>4, <3>5, <3>6, <3>7, NextIs DEF Quiet
  <2> QED BY <2>1
<1>3. Held = 0
  BY <1>2, NothingHeld DEF GetReadSegmentEmpty, NothingToRead
<1>4. Taken = 0
  BY DEF Taken
<1>5. Held = sent - Len(received) + Taken /\ sent \in Nat /\ Len(received) \in Nat
  BY HeldInRange DEF PipeInv, Counted, Held, Structure, Bounded
<1> QED BY <1>3, <1>4, <1>5

(* A read of nsPipe3 that returns the end or the failure of the pipe has   *)
(* left no byte behind, when the writer closed the pipe in the ordinary    *)
(* way: what OnPipeException says of an output-only exception holds for    *)
(* every size of the pipe and whatever the reader was doing.  The failure  *)
(* codes are restricted because Wait returns any other one at once, with   *)
(* bytes still in the pipe.                                                *)
THEOREM PipeDrained ==
  ASSUME Reasons \subseteq {"closed"}
  PROVE  Spec => EndOnlyWhenDrained
<1>1. PipeInv /\ [Next]_vars =>
        [ (/\ pc["in"] \in {"loop", "wait", "notified"} /\ pc'["in"] = "idle"
           /\ call["in"].done = 0 /\ mStatus # "ok" /\ closedBy = "out")
          => Len(received) = sent ]_vars
  BY ReadEnds
<1> QED BY <1>1, PipeInvAlways, PTL DEF Spec, EndOnlyWhenDrained
--------------------------------------------------------------------------------
(* Nobody waits for what is there *)

LEMMA FiniteEnds == ASSUME NEW S \in SUBSET End PROVE IsFiniteSet(S) /\ Cardinality(S) \in Nat
<1>1. IsFiniteSet(End)
  <2>1. End = {"in"} \cup {"out"}
    BY DEF End
  <2> QED BY <2>1, FS_Singleton, FS_Union
<1> QED BY <1>1, FS_Subset, FS_CardinalityType

(* As many notifications as there are sleepers wake all of them. *)
LEMMA NotifiedAll ==
  ASSUME NEW p \in [End -> Place], NEW n \in Nat, NEW q \in Notified(p, n),
         NEW S \in SUBSET End, {e \in End : p[e] = "asleep"} \subseteq S, Cardinality(S) <= n
  PROVE  \A e \in End : q[e] # "asleep"
<1> DEFINE asleep == {e \in End : p[e] = "asleep"}
<1>1. PICK w \in SUBSET asleep :
        /\ q = [e \in End |-> IF e \in w THEN "notified" ELSE p[e]]
        /\ Cardinality(w) = IF n < Cardinality(asleep) THEN n ELSE Cardinality(asleep)
  BY DEF Notified
<1>2. IsFiniteSet(S) /\ Cardinality(S) \in Nat /\ IsFiniteSet(asleep) /\ Cardinality(asleep) \in Nat
  <2>1. asleep \in SUBSET End
    OBVIOUS
  <2> HIDE DEF asleep
  <2> QED BY <2>1, FiniteEnds
<1>3. Cardinality(asleep) <= Cardinality(S)
  <2>1. asleep \in SUBSET S
    OBVIOUS
  <2> HIDE DEF asleep
  <2> QED BY <1>2, <2>1, FS_Subset
<1>4. Cardinality(w) = Cardinality(asleep)
  <2> HIDE DEF asleep
  <2> QED BY <1>1, <1>2, <1>3
<1>5. w = asleep
  <2> HIDE DEF asleep
  <2> QED BY <1>2, <1>4, FS_Subset
<1> QED BY <1>1, <1>5

LEMMA AwakeAt ==
  ASSUME Plain, Awake, NEW e \in End
  PROVE  /\ mCallback[e] \in {"none", "ready", "closure"} /\ mBlocking[e] \in BOOLEAN
         /\ pc[e] \in {"wait", "asleep", "notified"} => mBlocking[e] /\ mCallback[e] = "none"
         /\ pc[e] = "asleep" => mBlocked[e] /\ mStatus = "ok" /\ ~ReadyNow(e)
         /\ mCallback[e] = "ready" => mStatus = "ok" /\ ~ReadyNow(e)
         /\ mCallback[e] = "closure" => mStatus = "ok" \/ (e = "in" /\ closedBy = "out")
BY DEF Plain, Awake

(* An end that moves on, and sleeps only when it has something to wait for. *)
LEMMA AwakeOneEnd ==
  ASSUME Plain, Awake, NEW e \in End, NEW p \in Place, NEW b \in BOOLEAN,
         pc' = [pc EXCEPT ![e] = p], mBlocked' = [mBlocked EXCEPT ![e] = b],
         UNCHANGED <<mStatus, mAvailable, mWritable, mBlocking, mCallback, closedBy>>,
         p \in {"wait", "asleep", "notified"} => mBlocking[e],
         p = "asleep" => b /\ mStatus = "ok" /\ ~ReadyNow(e)
  PROVE  Awake'
<1>1. pc \in [End -> Place] /\ mBlocked \in [End -> BOOLEAN]
  BY PlacesTyped DEF Plain
<1>2. \A x \in End : ReadyNow(x)' <=> ReadyNow(x)
  BY DEF ReadyNow
<1>3. /\ pc'[e] = p /\ mBlocked'[e] = b
      /\ \A x \in End : x # e => pc'[x] = pc[x] /\ mBlocked'[x] = mBlocked[x]
  BY <1>1
<1>4. ASSUME NEW x \in End
      PROVE /\ pc'[x] \in {"wait", "asleep", "notified"} => mBlocking'[x]
            /\ mCallback'[x] # "none" => ~mBlocking'[x]
            /\ pc'[x] = "asleep" => mBlocked'[x] /\ mStatus' = "ok" /\ ~ReadyNow(x)'
            /\ mCallback'[x] = "ready" => mStatus' = "ok" /\ ~ReadyNow(x)'
            /\ mCallback'[x] = "closure" => mStatus' = "ok" \/ (x = "in" /\ closedBy' = "out")
  <2>1. CASE x = e
    BY <1>2, <1>3, <2>1 DEF Awake
  <2>2. CASE x # e
    BY <1>2, <1>3, <2>2 DEF Awake
  <2> QED BY <2>1, <2>2
<1> QED BY <1>4 DEF Awake

LEMMA SameBlocked ==
  ASSUME Plain, NEW e \in End
  PROVE  mBlocked[e] \in BOOLEAN /\ mBlocked = [mBlocked EXCEPT ![e] = mBlocked[e]]
BY DEF Plain

LEMMA AwakeReader ==
  ASSUME Plain, Awake,
         \/ GetReadSegment \/ GetReadSegmentEmpty \/ InputWait \/ CopyOutRefused
         \/ (\E k \in 1..SegmentSize : CopyOut(k)) \/ \E n \in Counts : ReadSegments(n)
  PROVE  Awake'
<1>0. UNCHANGED <<mStatus, mAvailable, mWritable, mBlocking, mCallback, closedBy>>
  BY DEF GetReadSegment, GetReadSegmentEmpty, InputWait, CopyOutRefused, CopyOut, ReadSegments, streams, history
<1>1. CASE InputWait
  <2> DEFINE p == CASE InputMustWait -> "asleep"
                    [] ~InputMustWait /\ mStatus \in {"ok", "closed"} -> "loop"
                    [] OTHER -> "idle"
  <2>1. /\ pc["in"] \in {"wait", "notified"}
        /\ pc' = [pc EXCEPT !["in"] = p] /\ mBlocked' = [mBlocked EXCEPT !["in"] = InputMustWait]
    BY <1>1 DEF InputWait
  <2>2. p \in Place /\ InputMustWait \in BOOLEAN /\ (p = "asleep" => InputMustWait)
    BY DEF Place, InputMustWait
  <2>3. mBlocking["in"]
    BY <2>1, AwakeAt, Ends
  <2>4. InputMustWait => mStatus = "ok" /\ ~ReadyNow("in")
    BY DEF InputMustWait, ReadyNow
  <2> HIDE DEF p
  <2> QED BY <1>0, <2>1, <2>2, <2>3, <2>4, AwakeOneEnd, Ends
<1>2. CASE GetReadSegmentEmpty
  <2>1. PICK p \in Place : /\ pc' = [pc EXCEPT !["in"] = p] /\ p \notin {"asleep", "notified"}
                           /\ p = "wait" => mBlocking["in"]
    BY <1>2 DEF GetReadSegmentEmpty, Place
  <2>2. mBlocked' = mBlocked
    BY <1>2 DEF GetReadSegmentEmpty, streams
  <2> QED BY <1>0, <2>1, <2>2, SameBlocked, AwakeOneEnd, Ends
<1>3. CASE \/ GetReadSegment \/ CopyOutRefused
           \/ (\E k \in 1..SegmentSize : CopyOut(k)) \/ \E n \in Counts : ReadSegments(n)
  <2>1. PICK p \in Place : pc' = [pc EXCEPT !["in"] = p] /\ p \notin {"wait", "asleep", "notified"}
    BY <1>3 DEF GetReadSegment, CopyOutRefused, CopyOut, ReadSegments, Place
  <2>2. mBlocked' = mBlocked
    BY <1>3 DEF GetReadSegment, CopyOutRefused, CopyOut, ReadSegments, streams
  <2> QED BY <1>0, <2>1, <2>2, SameBlocked, AwakeOneEnd, Ends
<1> QED BY <1>1, <1>2, <1>3

LEMMA AwakeWriter ==
  ASSUME Plain, Awake,
         \/ GetWriteSegment \/ GetWriteSegmentFull \/ GetWriteSegmentFailed \/ OutputWait \/ CopyInRefused
         \/ (\E k \in 1..SegmentSize : CopyIn(k)) \/ \E n \in Counts : WriteSegments(n)
  PROVE  Awake'
<1>0. UNCHANGED <<mStatus, mAvailable, mWritable, mBlocking, mCallback, closedBy>>
  BY DEF GetWriteSegment, GetWriteSegmentFull, GetWriteSegmentFailed, OutputWait, CopyInRefused, CopyIn,
     WriteSegments, streams, history
<1>1. CASE OutputWait
  <2> DEFINE sleeps == pc["out"] = "wait" /\ OutputMustWait
             p == CASE sleeps -> "asleep"
                    [] ~sleeps /\ mStatus \in {"ok", "closed"} -> "loop"
                    [] OTHER -> "idle"
  <2>1. /\ pc["out"] \in {"wait", "notified"}
        /\ pc' = [pc EXCEPT !["out"] = p] /\ mBlocked' = [mBlocked EXCEPT !["out"] = sleeps]
    BY <1>1 DEF OutputWait
  <2>2. p \in Place /\ sleeps \in BOOLEAN /\ (p = "asleep" => sleeps)
    BY DEF Place
  <2>3. mBlocking["out"]
    BY <2>1, AwakeAt, Ends
  <2>4. sleeps => mStatus = "ok" /\ ~ReadyNow("out")
    BY Ends DEF OutputMustWait, ReadyNow
  <2> HIDE DEF p, sleeps
  <2> QED BY <1>0, <2>1, <2>2, <2>3, <2>4, AwakeOneEnd, Ends
<1>2. CASE GetWriteSegmentFull
  <2>1. PICK p \in Place : /\ pc' = [pc EXCEPT !["out"] = p] /\ p \notin {"asleep", "notified"}
                           /\ p = "wait" => mBlocking["out"]
    BY <1>2 DEF GetWriteSegmentFull, Place
  <2>2. mBlocked' = mBlocked
    BY <1>2 DEF GetWriteSegmentFull, streams
  <2> QED BY <1>0, <2>1, <2>2, SameBlocked, AwakeOneEnd, Ends
<1>3. CASE \/ GetWriteSegment \/ GetWriteSegmentFailed \/ CopyInRefused
           \/ (\E k \in 1..SegmentSize : CopyIn(k)) \/ \E n \in Counts : WriteSegments(n)
  <2>1. PICK p \in Place : pc' = [pc EXCEPT !["out"] = p] /\ p \notin {"wait", "asleep", "notified"}
    BY <1>3 DEF GetWriteSegment, GetWriteSegmentFailed, CopyInRefused, CopyIn, WriteSegments, Returned, Place
  <2>2. mBlocked' = mBlocked
    BY <1>3 DEF GetWriteSegment, GetWriteSegmentFailed, CopyInRefused, CopyIn, WriteSegments, streams
  <2> QED BY <1>0, <2>1, <2>2, SameBlocked, AwakeOneEnd, Ends
<1> QED BY <1>1, <1>2, <1>3

LEMMA AwakeAsyncWait ==
  ASSUME MixAsync = FALSE, Plain, Awake, NEW e \in End, NEW f \in Flags(e), AsyncWait(e, f)
  PROVE  Awake'
<1> DEFINE now == f # "none" /\ (mStatus # "ok" \/ (ReadyNow(e) /\ f = "ready"))
<1>1. /\ ~mBlocking[e] /\ mCallback' = [mCallback EXCEPT ![e] = IF now THEN "none" ELSE f]
      /\ UNCHANGED <<mStatus, mAvailable, mWritable, mBlocking, mBlocked, pc, closedBy>>
  BY DEF AsyncWait, history
<1>2. \A x \in End : ReadyNow(x)' <=> ReadyNow(x)
  BY <1>1 DEF ReadyNow
<1>3. mCallback'[e] = (IF now THEN "none" ELSE f) /\ \A x \in End : x # e => mCallback'[x] = mCallback[x]
  BY <1>1 DEF Plain
<1>4. ASSUME NEW x \in End
      PROVE /\ pc'[x] \in {"wait", "asleep", "notified"} => mBlocking'[x]
            /\ mCallback'[x] # "none" => ~mBlocking'[x]
            /\ pc'[x] = "asleep" => mBlocked'[x] /\ mStatus' = "ok" /\ ~ReadyNow(x)'
            /\ mCallback'[x] = "ready" => mStatus' = "ok" /\ ~ReadyNow(x)'
            /\ mCallback'[x] = "closure" => mStatus' = "ok" \/ (x = "in" /\ closedBy' = "out")
  <2>1. CASE x = e
    BY <1>1, <1>2, <1>3, <2>1 DEF Awake
  <2>2. CASE x # e
    BY <1>1, <1>2, <1>3, <2>2 DEF Awake
  <2> QED BY <2>1, <2>2
<1> QED BY <1>4 DEF Awake

(* Closing wakes whoever sleeps: a reader sleeps only in an empty pipe, to *)
(* which the closing of the output applies.                                *)
LEMMA AwakeClose ==
  ASSUME Plain, Awake, NEW e \in End, NEW r \in Reasons, CloseWithStatus(e, r)
  PROVE  Awake'
<1> DEFINE ends == IF AffectsInput(e) THEN End ELSE {"out"}
<1>0. OnPipeException(e, r)
  BY DEF CloseWithStatus
<1>1. /\ mStatus = "ok" /\ closedBy' = e /\ mBlocking' = mBlocking /\ mBlocked' = mBlocked
      /\ mCallback' = [x \in End |-> IF x \in ends THEN "none" ELSE mCallback[x]]
  BY <1>0 DEF OnPipeException
<1>2. PICK W \in SUBSET End : /\ IsFiniteSet(W) /\ Cardinality(W) \in Nat
                              /\ W = {x \in ends : WakesOnException(x)}
                              /\ pc' \in Notified(pc, Cardinality(W))
  BY <1>0, Closing
<1>3. pc \in [End -> Place]
  BY PlacesTyped
<1>4. mAvailable \in Nat
  BY Limits DEF Plain
<1>5. ASSUME NEW x \in End, pc[x] = "asleep" PROVE x \in W
  <2>1. mBlocked[x] /\ ~ReadyNow(x) /\ mCallback[x] = "none"
    BY <1>5, AwakeAt
  <2>2. x = "in" => mAvailable = 0
    BY <1>4, <2>1 DEF ReadyNow
  <2>3. x \in ends
    BY <2>2 DEF AffectsInput, End
  <2> QED BY <1>2, <2>1, <2>3 DEF WakesOnException, FiresOnException
<1>6. \A x \in End : pc'[x] # "asleep"
  <2>1. {x \in End : pc[x] = "asleep"} \subseteq W
    BY <1>5
  <2>2. Cardinality(W) <= Cardinality(W)
    BY <1>2
  <2> QED BY <1>2, <1>3, <2>1, <2>2, NotifiedAll
<1>7. \A x \in End : pc'[x] = pc[x] \/ (pc[x] = "asleep" /\ pc'[x] = "notified")
  BY <1>2, <1>3, NotifiedIs
<1>8. ASSUME NEW x \in End, mCallback'[x] # "none"
      PROVE  mCallback'[x] = mCallback[x] /\ x = "in" /\ e = "out" /\ mAvailable > 0
  <2>1. x \notin ends /\ mCallback'[x] = mCallback[x]
    BY <1>1, <1>8
  <2> QED BY <1>4, <2>1 DEF AffectsInput, End
<1>9. ASSUME NEW x \in End
      PROVE /\ pc'[x] \in {"wait", "asleep", "notified"} => mBlocking'[x]
            /\ mCallback'[x] # "none" => ~mBlocking'[x]
            /\ pc'[x] = "asleep" => mBlocked'[x] /\ mStatus' = "ok" /\ ~ReadyNow(x)'
            /\ mCallback'[x] = "ready" => mStatus' = "ok" /\ ~ReadyNow(x)'
            /\ mCallback'[x] = "closure" => mStatus' = "ok" \/ (x = "in" /\ closedBy' = "out")
  <2>1. pc'[x] \in {"wait", "asleep", "notified"} => mBlocking'[x]
    BY <1>1, <1>7 DEF Awake
  <2>2. mCallback'[x] # "none" => ~mBlocking'[x]
    BY <1>1, <1>8 DEF Awake
  <2>3. mCallback'[x] # "ready"
    <3>1. mCallback[x] = "ready" => ~ReadyNow(x)
      BY DEF Awake
    <3> QED BY <1>8, <3>1 DEF ReadyNow
  <2>4. mCallback'[x] = "closure" => x = "in" /\ closedBy' = "out"
    BY <1>1, <1>8
  <2> QED BY <1>6, <2>1, <2>2, <2>3, <2>4
<1> QED BY <1>9 DEF Awake

(* The reader that frees a segment wakes or calls the writer.  It never    *)
(* leaves a callback for a readable pipe behind, because there was none.   *)
LEMMA AwakeAdvanceRead ==
  ASSUME PipeInv, Kept, Awake, AdvanceReadCursor
  PROVE  Awake'
<1>0. Plain /\ Calls /\ Segments /\ Cursors
  BY DEF PipeInv, Structure
<1> DEFINE n == call["in"].orig - call["in"].len
           drops == mReadCursor + n = mReadLimit /\ ~StillWriting
           q == Continued("in", pc)
           m == Notifies(drops /\ WakesOnReady("out"))
<1>1. /\ Reads(n) \/ Drops(n)
      /\ n \in Nat /\ n > 0 /\ n <= mReadLimit - mReadCursor /\ N # 0 /\ pc["in"] = "advance"
      /\ UNCHANGED <<mStatus, mBlocking, mBlocked, closedBy>>
  BY <1>0, AdvanceReadIs DEF history
<1>2. pc' \in Notified(q, m)
  BY DEF AdvanceReadCursor
<1>3. m \in Nat /\ (drops /\ WakesOnReady("out") => m = 1)
  BY DEF Notifies
<1>4. q \in [End -> Place] /\ q["in"] \in {"idle", "loop"} /\ q["out"] = pc["out"] /\ "in" \in End /\ "out" \in End
  <2>1. pc \in [End -> Place] /\ q \in [End -> Place]
    BY <1>0, PlacesTyped, ContinuedTyped, Ends
  <2> QED BY <2>1, Ends DEF Continued
<1>5. Drops(n) => drops
  <2>1. mWriteSegment = N - 1 /\ N \in Nat /\ mWriteCursor \in Int
    BY <1>0, SegmentsAre, CursorsTyped
  <2> HIDE DEF n
  <2> QED BY <2>1 DEF Drops, StillWriting
<1> HIDE DEF n, drops, q, m
<1>6. \A x \in End : pc'[x] = q[x] \/ (q[x] = "asleep" /\ pc'[x] = "notified")
  BY <1>2, <1>3, <1>4, NotifiedIs
<1>7. pc'["in"] \in {"idle", "loop"}
  BY <1>4, <1>6
<1>8. mCallback["in"] # "ready"
  <2>1. SUFFICES ASSUME mCallback["in"] = "ready" PROVE FALSE
    OBVIOUS
  <2>2. mStatus = "ok" /\ ~ReadyNow("in")
    BY <1>0, <2>1, AwakeAt, Ends
  <2>3. mAvailable = Held
    BY <2>2, Ends DEF Kept, Held
  <2>4. Held > 0
    <3>1. InFirst = mReadLimit - mReadCursor /\ InFirst \in Nat /\ InRest \in Nat
      BY <1>0, HeldTyped
    <3> QED BY <1>1, <3>1 DEF Held
  <2> QED BY <2>2, <2>3, <2>4 DEF ReadyNow
<1>9. mCallback'["in"] = mCallback["in"] /\ (mCallback'["out"] = mCallback["out"] \/ mCallback'["out"] = "none")
  <2>1. mCallback \in [End -> {"none", "ready", "closure"}]
    BY <1>0 DEF Plain
  <2>2. mCallback' = mCallback \/ mCallback' = [mCallback EXCEPT !["out"] = "none"]
    BY DEF AdvanceReadCursor, Fired
  <2> QED BY <2>1, <2>2, Ends
<1>10. /\ pc'["out"] = "asleep" => pc["out"] = "asleep" /\ ~mWritable'
       /\ mCallback'["out"] = "ready" => mCallback["out"] = "ready" /\ ~mWritable'
  <2>1. CASE Reads(n)
    <3>1. mCallback' = mCallback /\ mWritable' = mWritable
      BY <2>1 DEF Reads
    <3>2. pc'["out"] = "asleep" => pc["out"] = "asleep"
      BY <1>4, <1>6
    <3>3. pc["out"] = "asleep" \/ mCallback["out"] = "ready" => ~mWritable
      BY <1>0, AwakeAt, Ends DEF ReadyNow
    <3> QED BY <3>1, <3>2, <3>3
  <2>2. CASE Drops(n)
    <3>1. mCallback' = Fired("out", FiresOnReady("out")) /\ mCallback \in [End -> {"none", "ready", "closure"}]
      BY <1>0, <2>2 DEF Drops, Plain
    <3>2. mCallback'["out"] # "ready"
      BY <3>1, Ends DEF Fired, FiresOnReady
    <3>3. pc'["out"] # "asleep"
      <4>1. CASE pc["out"] = "asleep"
        <5>1. m = 1
          BY <1>0, <1>3, <1>5, <2>2, <4>1, AwakeAt, Ends DEF WakesOnReady, FiresOnReady
        <5>2. {x \in End : q[x] = "asleep"} \subseteq {"out"}
          BY <1>4, Ends
        <5>3. Cardinality({"out"}) = 1 /\ {"out"} \in SUBSET End
          BY FS_Singleton, Ends
        <5>4. Cardinality({"out"}) <= m
          BY <5>1, <5>3
        <5> QED BY <1>2, <1>3, <1>4, <5>2, <5>3, <5>4, NotifiedAll
      <4>2. CASE pc["out"] # "asleep"
        BY <1>4, <1>6, <4>2
      <4> QED BY <4>1, <4>2
    <3> QED BY <3>2, <3>3
  <2> QED BY <1>1, <2>1, <2>2
<1>11. pc'["out"] \in {"wait", "asleep", "notified"} => pc["out"] \in {"wait", "asleep", "notified"}
  BY <1>4, <1>6
<1>12. ASSUME NEW x \in End
       PROVE /\ pc'[x] \in {"wait", "asleep", "notified"} => mBlocking'[x]
             /\ mCallback'[x] # "none" => ~mBlocking'[x]
             /\ pc'[x] = "asleep" => mBlocked'[x] /\ mStatus' = "ok" /\ ~ReadyNow(x)'
             /\ mCallback'[x] = "ready" => mStatus' = "ok" /\ ~ReadyNow(x)'
             /\ mCallback'[x] = "closure" => mStatus' = "ok" \/ (x = "in" /\ closedBy' = "out")
  <2>1. CASE x = "in"
    BY <1>1, <1>7, <1>8, <1>9, <2>1 DEF Awake
  <2>2. CASE x = "out"
    <3>1. ReadyNow(x)' <=> mWritable'
      BY <2>2, Ends DEF ReadyNow
    <3> QED BY <1>1, <1>9, <1>10, <1>11, <2>2, <3>1 DEF Awake
  <2> QED BY <2>1, <2>2 DEF End
<1> QED BY <1>12 DEF Awake

(* The writer that adds bytes wakes or calls the reader, and the pipe does *)
(* not become writable by it.                                              *)
LEMMA AwakeAdvanceWrite ==
  ASSUME PipeInv, Kept, Awake, AdvanceWriteCursor
  PROVE  Awake'
<1>0. Plain /\ Calls /\ Segments /\ Cursors
  BY DEF PipeInv, Structure
<1> DEFINE q == Continued("out", pc)
           m == Notifies(WakesOnReady("in"))
<1>1. /\ pc["out"] = "advance" /\ (mWritable' => mWritable)
      /\ mCallback' = Fired("in", FiresOnReady("in"))
      /\ UNCHANGED <<mStatus, mBlocking, mBlocked, closedBy>>
  BY <1>0, AdvanceWriteIs
<1>2. pc' \in Notified(q, m)
  BY DEF AdvanceWriteCursor
<1>3. m \in Nat /\ (WakesOnReady("in") => m = 1)
  BY DEF Notifies
<1>4. q \in [End -> Place] /\ q["out"] \in {"idle", "loop"} /\ q["in"] = pc["in"] /\ "in" \in End /\ "out" \in End
  <2>1. pc \in [End -> Place] /\ q \in [End -> Place]
    BY <1>0, PlacesTyped, ContinuedTyped, Ends
  <2> QED BY <2>1, Ends DEF Continued
<1> HIDE DEF q, m
<1>5. \A x \in End : pc'[x] = q[x] \/ (q[x] = "asleep" /\ pc'[x] = "notified")
  BY <1>2, <1>3, <1>4, NotifiedIs
<1>6. pc'["out"] \in {"idle", "loop"}
  BY <1>4, <1>5
<1>7. /\ mCallback'["out"] = mCallback["out"] /\ mCallback'["in"] # "ready"
      /\ mCallback'["in"] = mCallback["in"] \/ mCallback'["in"] = "none"
  <2>1. mCallback \in [End -> {"none", "ready", "closure"}]
    BY <1>0 DEF Plain
  <2> QED BY <1>1, <2>1, Ends DEF Fired, FiresOnReady
<1>8. pc'["in"] # "asleep"
  <2>1. CASE pc["in"] = "asleep"
    <3>1. m = 1
      BY <1>0, <1>3, <2>1, AwakeAt, Ends DEF WakesOnReady, FiresOnReady
    <3>2. {x \in End : q[x] = "asleep"} \subseteq {"in"}
      BY <1>4, Ends
    <3>3. Cardinality({"in"}) = 1 /\ {"in"} \in SUBSET End
      BY FS_Singleton, Ends
    <3>4. Cardinality({"in"}) <= m
      BY <3>1, <3>3
    <3> QED BY <1>2, <1>3, <1>4, <3>2, <3>3, <3>4, NotifiedAll
  <2>2. CASE pc["in"] # "asleep"
    BY <1>4, <1>5, <2>2
  <2> QED BY <2>1, <2>2
<1>9. pc'["in"] \in {"wait", "asleep", "notified"} => pc["in"] \in {"wait", "asleep", "notified"}
  BY <1>4, <1>5
<1>10. ASSUME NEW x \in End
       PROVE /\ pc'[x] \in {"wait", "asleep", "notified"} => mBlocking'[x]
             /\ mCallback'[x] # "none" => ~mBlocking'[x]
             /\ pc'[x] = "asleep" => mBlocked'[x] /\ mStatus' = "ok" /\ ~ReadyNow(x)'
             /\ mCallback'[x] = "ready" => mStatus' = "ok" /\ ~ReadyNow(x)'
             /\ mCallback'[x] = "closure" => mStatus' = "ok" \/ (x = "in" /\ closedBy' = "out")
  <2>1. CASE x = "in"
    BY <1>1, <1>7, <1>8, <1>9, <2>1 DEF Awake
  <2>2. CASE x = "out"
    <3>1. (ReadyNow(x)' <=> mWritable') /\ (ReadyNow(x) <=> mWritable)
      BY <2>2, Ends DEF ReadyNow
    <3> QED BY <1>1, <1>6, <1>7, <2>2, <3>1 DEF Awake
  <2> QED BY <2>1, <2>2 DEF End
<1> QED BY <1>10 DEF Awake

LEMMA AwakeStep ==
  ASSUME MixAsync = FALSE, PipeInv, Kept, Awake, [Next]_vars
  PROVE  Awake'
<1>0. Plain
  BY DEF PipeInv, Structure
<1>1. CASE UNCHANGED vars
  <2>1. UNCHANGED <<mStatus, mAvailable, mWritable, mBlocking, mBlocked, mCallback, pc, closedBy>>
    BY <1>1 DEF vars, streams, callers, history
  <2> QED BY <2>1 DEF Awake, ReadyNow
<1> QED BY <1>0, <1>1, NextIs, AwakeReader, AwakeWriter, AwakeAsyncWait, AwakeClose, AwakeAdvanceRead,
           AwakeAdvanceWrite DEF Quiet

LEMMA InitAwake == Init => Awake
BY DEF Init, Awake

LEMMA AwakeAlways ==
  ASSUME MixAsync = FALSE
  PROVE  Spec => [](PipeInv /\ Kept /\ Awake)
<1>1. PipeInv /\ Kept /\ Awake /\ [Next]_vars => PipeInv' /\ Kept' /\ Awake'
  BY PipeInvStep, KeptStep, AwakeStep
<1> QED BY <1>1, InitPipeInv, InitKept, InitAwake, PTL DEF Spec

(* No callback that waits for closure only is left on the input end. *)
ClosureOut == mCallback["in"] # "closure"

LEMMA ClosureOutStep ==
  ASSUME "closure" \notin FlagsIn, Plain, ClosureOut, [Next]_vars
  PROVE  ClosureOut'
<1> USE DEF ClosureOut
<1>1. mCallback \in [End -> {"none", "ready", "closure"}] /\ "in" \in End /\ "out" \in End
  BY Ends DEF Plain
<1>2. CASE InputStep
  BY <1>1, <1>2 DEF InputStep, GetReadSegment, GetReadSegmentEmpty, InputWait, CopyOutRefused, CopyOut,
     AdvanceReadCursor, Fired, streams
<1>3. CASE OutputStep
  BY <1>1, <1>3 DEF OutputStep, GetWriteSegment, GetWriteSegmentFull, GetWriteSegmentFailed, OutputWait,
     CopyInRefused, CopyIn, AdvanceWriteCursor, Fired, streams
<1>4. ASSUME NEW n \in Counts, ReadSegments(n) \/ WriteSegments(n) PROVE ClosureOut'
  BY <1>4 DEF ReadSegments, WriteSegments, streams
<1>5. ASSUME NEW e \in End, NEW r \in Reasons, CloseWithStatus(e, r) PROVE ClosureOut'
  BY <1>1, <1>5 DEF CloseWithStatus, OnPipeException
<1>6. ASSUME NEW e \in End, NEW f \in Flags(e), AsyncWait(e, f) PROVE ClosureOut'
  BY <1>1, <1>6 DEF AsyncWait, Flags
<1>7. CASE UNCHANGED vars
  BY <1>7 DEF vars, streams
<1> QED BY <1>2, <1>3, <1>4, <1>5, <1>6, <1>7 DEF Next

(* No missed notification in nsPipe3, for every size of the pipe, as long  *)
(* as nobody leaves a callback on a blocking end, or one that waits for    *)
(* closure only on the input end: Wait sleeps on the one monitor only      *)
(* while there is nothing to read, or no room to write, and                *)
(* AdvanceReadCursor, AdvanceWriteCursor and OnPipeException wake or call  *)
(* back whoever waits for what they do.                                    *)
THEOREM PipeWakes ==
  ASSUME MixAsync = FALSE, "closure" \notin FlagsIn
  PROVE  Spec => []NoMissedNotification
<1>1. PipeInv /\ Kept /\ Awake /\ ClosureOut => NoMissedNotification
  <2> SUFFICES ASSUME PipeInv, Kept, Awake, ClosureOut PROVE NoMissedNotification
    OBVIOUS
  <2>0. Plain /\ Segments /\ Structure /\ Contents
    BY DEF PipeInv, Structure
  <2>1. ASSUME pc["in"] = "asleep" PROVE mStatus = "ok" /\ Buffered = <<>>
    <3>1. mStatus = "ok" /\ ~(mAvailable > 0) /\ mAvailable \in Nat
      BY <2>0, <2>1, AwakeAt, Ends, Limits DEF ReadyNow, Plain
    <3>2. mAvailable = Held
      BY <3>1 DEF Kept, Held
    <3>3. Held = 0
      BY <3>1, <3>2
    <3>4. Buffered = [k \in 1 .. Held |-> sent - Held + k] /\ sent \in Nat
      BY <2>0, BufferedIs
    <3>5. 1 .. Held = {}
      BY <3>3
    <3>6. Buffered \in Seq(Int) /\ Len(Buffered) = 0
      BY <2>0, <3>3, <3>4, BufferedIs
    <3> QED BY <3>1, <3>6, EmptySeq
  <2>2. ASSUME pc["out"] = "asleep" PROVE mStatus = "ok" /\ NeedsSegment /\ GetSize(mBuffer) >= MaxSize
    <3>1. mStatus = "ok" /\ ~mWritable
      BY <2>0, <2>2, AwakeAt, Ends DEF ReadyNow
    <3>2. Full
      BY <3>1 DEF Kept, Full
    <3> QED BY <2>0, <3>1, <3>2, FullMeans
  <2>3. \A e \in End : /\ mCallback[e] = "ready" => mStatus = "ok" /\ ~ReadyNow(e)
                       /\ mCallback[e] = "closure" => mStatus = "ok"
    BY <2>0, AwakeAt DEF ClosureOut
  <2> QED BY <2>1, <2>2, <2>3 DEF NoMissedNotification
<1>2. Init => ClosureOut
  BY Ends DEF Init, ClosureOut
<1>3. PipeInv /\ ClosureOut /\ [Next]_vars => ClosureOut'
  BY ClosureOutStep DEF PipeInv, Structure
<1> QED BY <1>1, <1>2, <1>3, AwakeAlways, PTL DEF Spec

(* A full pipe holds something. *)
LEMMA FullHolds ==
  ASSUME PipeInv, Full
  PROVE  Held > 0
<1>0. Segments /\ Cursors
  BY DEF PipeInv, Structure
<1>1. N # 0 /\ mWriteCursor = mWriteLimit
  BY Limits DEF Full
<1>2. /\ mReadCursor <= Seg(0) + SegmentSize - 1 /\ mReadCursor \in Int /\ Seg(0) \in Int
      /\ mReadLimit = Seg(0) + SegmentSize
  <2>1. CASE N = 1
    BY <1>0, <1>1, <2>1, Inside
  <2>2. CASE N # 1
    BY <1>0, <1>1, <2>2, Inside
  <2> QED BY <2>1, <2>2
<1>3. InFirst > 0 /\ InFirst \in Nat /\ InRest \in Nat
  BY <1>0, <1>2, HeldTyped, Limits
<1> QED BY <1>3 DEF Held

(* The two ends of nsPipe3 never both sleep in Wait, each for the other:   *)
(* AdvanceReadCursor and AdvanceWriteCursor notify the one monitor they    *)
(* share once each, and the end that calls them is awake.                  *)
THEOREM NeverBothAsleep ==
  ASSUME MixAsync = FALSE
  PROVE  Spec => []~(pc["in"] = "asleep" /\ pc["out"] = "asleep")
<1>1. PipeInv /\ Kept /\ Awake => ~(pc["in"] = "asleep" /\ pc["out"] = "asleep")
  <2> SUFFICES ASSUME PipeInv, Kept, Awake, pc["in"] = "asleep", pc["out"] = "asleep" PROVE FALSE
    OBVIOUS
  <2>0. Plain
    BY DEF PipeInv, Structure
  <2>1. mStatus = "ok" /\ ~(mAvailable > 0)
    BY <2>0, AwakeAt, Ends DEF ReadyNow
  <2>2. ~mWritable
    BY <2>0, AwakeAt, Ends DEF ReadyNow
  <2>3. mAvailable = Held
    BY <2>1 DEF Kept, Held
  <2>4. Full
    BY <2>1, <2>2 DEF Kept, Full
  <2> QED BY <2>1, <2>3, <2>4, FullHolds
<1> QED BY <1>1, AwakeAlways, PTL
================================================================================
