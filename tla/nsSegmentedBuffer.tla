--------------------------- MODULE nsSegmentedBuffer ---------------------------
(***************************************************************************)
(* xpcom/io/nsSegmentedBuffer: the segments of a pipe, as a circular array *)
(* of pointers that doubles when it is full.  A buffer is a record of      *)
(* mSegmentArray and its two indices; the operations are functions from    *)
(* buffers to buffers.  mSegmentArrayCount is the size of the array, a     *)
(* power of two, so the mask of ModSegArraySize is the remainder.          *)
(***************************************************************************)
EXTENDS Integers

CONSTANT InitialCount   \* NS_SEGMENTARRAY_INITIAL_COUNT

ASSUME InitialCountAssumption == InitialCount \in Nat \ {0}

Null == -1   \* a null char*

\* mSegmentArray[0 .. mSegmentArrayCount - 1], all null at first
EmptyBuffer == [array |-> [i \in 0..(InitialCount - 1) |-> Null],
                count |-> InitialCount, first |-> 0, last |-> 0]

ModSegArraySize(b, n) == n % b.count

GetSegmentCount(b) ==
  IF b.first <= b.last THEN b.last - b.first ELSE b.count + b.last - b.first

GetSegment(b, i) == b.array[ModSegArraySize(b, b.first + i)]

IsFull(b) == ModSegArraySize(b, b.last + 1) = b.first

(* The array doubled: what had wrapped round to the front moves to the new *)
(* half, everything from mLastSegmentIndex on is null.                     *)
Grown(b) ==
  LET wrapped == b.first > b.last
      last    == IF wrapped THEN b.last + b.count ELSE b.last
      entry(i) == CASE i >= last                 -> Null
                    [] i < last /\ i >= b.count  -> b.array[i - b.count]
                    [] wrapped /\ i < b.last     -> Null
                    [] OTHER                     -> b.array[i]
  IN [array |-> [i \in 0..(2 * b.count - 1) |-> entry(i)],
      count |-> 2 * b.count, first |-> b.first, last |-> last]

Roomy(b) == IF IsFull(b) THEN Grown(b) ELSE b

AppendNewSegment(b, seg) ==
  LET r == Roomy(b)
  IN [r EXCEPT !.array[r.last] = seg, !.last = ModSegArraySize(r, r.last + 1)]

DeleteFirstSegment(b) ==
  LET last == ModSegArraySize(b, b.last - 1)
      freed == [b EXCEPT !.array[b.first] = Null]
  IN IF b.first = last
       THEN [freed EXCEPT !.last = last]
       ELSE [freed EXCEPT !.first = ModSegArraySize(b, b.first + 1)]
================================================================================
