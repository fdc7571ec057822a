-------------------------------- MODULE nsPipe3 --------------------------------
(***************************************************************************)
(* xpcom/io/nsPipe3.cpp: a pipe between one reader (the end "in") and one  *)
(* writer (the end "out"), usually on two threads.  The ends copy bytes to *)
(* and from the segments outside the monitor; each action below is one     *)
(* section of code inside the monitor, or one call of the client's copying *)
(* function.  Pointers are addresses: a segment is SegmentSize consecutive *)
(* addresses, and segments may lie back to back, as the note on the buffer *)
(* architecture warns, so the end of one can be the start of another.      *)
(* The n-th byte written is the number n; 0 is memory nobody has written.  *)
(* The length of received is the input end's mLogicalOffset.               *)
(***************************************************************************)
EXTENDS nsSegmentedBuffer, Sequences, FiniteSets

CONSTANTS SegmentSize,   \* mSegmentSize
          SegmentCount,  \* how many segments make mMaxSize
          BlockingIn,    \* the values of mInput.mBlocking to explore
          BlockingOut,   \* and of mOutput.mBlocking
          Reasons,       \* the failure codes a caller closes with
          FlagsIn,       \* the kinds of AsyncWait on the input end: "ready", "closure"
                         \* (WAIT_CLOSURE_ONLY), "none" (null callback)
          FlagsOut,      \* the same on the output end
          MixAsync,      \* may AsyncWait be used on a blocking end?
          MemoryFails,   \* may an allocation fail?
          Counts,        \* the byte counts a caller asks for
          MaxBytes,      \* bound: how many bytes are written altogether
          UintRange      \* stands for 2^32, the range of PRUint32

ASSUME PipeAssumption == /\ SegmentSize \in Nat \ {0} /\ SegmentCount \in Nat \ {0}
                         /\ BlockingIn \subseteq BOOLEAN /\ BlockingOut \subseteq BOOLEAN
                         /\ "ok" \notin Reasons
                         /\ FlagsIn \cup FlagsOut \subseteq {"ready", "closure", "none"}
                         /\ Counts \subseteq Nat \ {0}   \* a call for nothing does nothing
                         /\ MaxBytes \in Nat /\ UintRange \in Nat /\ UintRange > MaxBytes

VARIABLES mem,           \* the arena the segments are allocated from
          mBuffer, mReadCursor, mReadLimit, mWriteSegment, mWriteCursor, mWriteLimit,
          mStatus,       \* "ok", "closed" (NS_BASE_STREAM_CLOSED) or another failure
          mAvailable,    \* mInput.mAvailable
          mWritable,     \* mOutput.mWritable
          mBlocking, mBlocked, mCallback,   \* per end; mCallback with its flags
          pc, call,      \* per end: where its caller is, and the locals of the call
          owner,         \* per end: its user "may_call" it, was "told" it would block, or "waits" for a callback
          sent, received, closedBy   \* history: bytes written, bytes read, the end that failed the pipe

buffer == <<mem, mBuffer, mReadCursor, mReadLimit, mWriteSegment, mWriteCursor, mWriteLimit>>
streams == <<mStatus, mAvailable, mWritable, mBlocking, mBlocked, mCallback>>
callers == <<pc, call, owner>>
history == <<sent, received, closedBy>>
vars == <<buffer, streams, callers, history>>

End == {"in", "out"}
Flags(e) == IF e = "in" THEN FlagsIn ELSE FlagsOut
Slot == 0..(SegmentCount - 1)
Base(s) == s * SegmentSize
Segment(base) == base..(base + SegmentSize - 1)
FreeSegment == {Base(s) : s \in Slot} \ {GetSegment(mBuffer, i) : i \in 0..(GetSegmentCount(mBuffer) - 1)}
MaxSize == SegmentSize * SegmentCount
GetSize(b) == GetSegmentCount(b) * SegmentSize

\* The locals of ReadSegments or WriteSegments: bytes still asked for, bytes done,
\* and the segment handed out with its remaining and its original length.
NoCall == [count |-> 0, done |-> 0, segment |-> Null, len |-> 0, orig |-> 0]

Init == /\ mem = [a \in 0..(MaxSize - 1) |-> 0]
        /\ mBuffer = EmptyBuffer
        /\ mReadCursor = Null /\ mReadLimit = Null
        /\ mWriteSegment = -1 /\ mWriteCursor = Null /\ mWriteLimit = Null
        /\ mStatus = "ok" /\ mAvailable = 0 /\ mWritable = TRUE
        /\ \E i \in BlockingIn, o \in BlockingOut :
             mBlocking = [e \in End |-> IF e = "in" THEN i ELSE o]
        /\ mBlocked = [e \in End |-> FALSE]
        /\ mCallback = [e \in End |-> "none"]
        /\ pc = [e \in End |-> "idle"]
        /\ call = [e \in End |-> NoCall]
        /\ owner = [e \in End |-> "may_call"]
        /\ sent = 0 /\ received = <<>> /\ closedBy = "nobody"

--------------------------------------------------------------------------------
(* The monitor.  Notify wakes one of the threads asleep in it, whichever    *)
(* end it waits for.  NSPR sends the signals when the monitor is left       *)
(* (pt_PostNotifies): as there is one other thread, that only delays it.    *)

Notified(p, n) ==
  LET asleep == {e \in End : p[e] = "asleep"}
  IN {[e \in End |-> IF e \in w THEN "notified" ELSE p[e]] :
        w \in {x \in SUBSET asleep :
                 Cardinality(x) = IF n < Cardinality(asleep) THEN n ELSE Cardinality(asleep)}}

(* k bytes went through the client's function. *)

\* The pointer into the segment stays where it was.
CopiedInPlace(c, k) == [c EXCEPT !.len = @ - k, !.count = @ - k, !.done = @ + k]
Copied(c, k) == [c EXCEPT !.segment = @ + k, !.len = @ - k, !.count = @ - k, !.done = @ + k]

(* A call comes back to its caller. *)
Returned(e) == [pc EXCEPT ![e] = "idle"]
Finished(e) == [call EXCEPT ![e] = NoCall]

(* The callback of end e is handed to nsPipeEvents, which calls it once the *)
(* monitor is left; the user of the stream then may call it again.          *)
Fired(e, cond) == IF cond THEN [mCallback EXCEPT ![e] = "none"] ELSE mCallback

\* nsPipeEvents goes out of scope without calling what it holds.
CalledNobody(e, cond) == owner
Called(e, cond) == IF cond THEN [owner EXCEPT ![e] = "may_call"] ELSE owner

(* OnInputReadable and OnOutputWritable: the pending callback, unless it    *)
(* waits for closure only; else the blocked thread.                         *)
FiresOnReady(e) == mCallback[e] = "ready"
WakesOnReady(e) == ~FiresOnReady(e) /\ mBlocked[e]

(* OnInputException and OnOutputException: any pending callback; else the   *)
(* blocked thread.                                                          *)
FiresOnException(e) == mCallback[e] # "none"
WakesOnException(e) == ~FiresOnException(e) /\ mBlocked[e]

Notifies(cond) == IF cond THEN 1 ELSE 0

--------------------------------------------------------------------------------
(* OnPipeException, from CloseWithStatus on either end (Close is            *)
(* CloseWithStatus(NS_BASE_STREAM_CLOSED), and the last Release calls it).  *)
(* The calls of it at the end of ReadSegments and WriteSegments find the    *)
(* pipe failed already and change nothing.                                  *)

AffectsInput(e) == e = "in" \/ mAvailable = 0

OnPipeException(e, reason) ==
  LET ends == IF AffectsInput(e) THEN End ELSE {"out"}
  IN /\ mStatus = "ok"
     /\ mStatus' = reason
     /\ mAvailable' = IF "in" \in ends THEN 0 ELSE mAvailable
     /\ mWritable' = FALSE
     /\ mCallback' = [x \in End |-> IF x \in ends THEN "none" ELSE mCallback[x]]
     /\ owner' = [x \in End |-> IF x \in ends /\ FiresOnException(x) THEN "may_call" ELSE owner[x]]
     /\ pc' \in Notified(pc, Cardinality({x \in ends : WakesOnException(x)}))
     /\ closedBy' = e
     /\ UNCHANGED <<buffer, mBlocking, mBlocked, call, sent, received>>

CloseWithStatus(e, reason) == OnPipeException(e, reason)

(* AsyncWait replaces the pending callback.  A stream that is ready, or     *)
(* failed, calls back at once; a null callback only clears the old one.     *)

ReadyNow(e) == IF e = "in" THEN mAvailable > 0 ELSE mWritable

AsyncWait(e, flag) ==
  LET now == flag # "none" /\ (mStatus # "ok" \/ (ReadyNow(e) /\ flag = "ready"))
  IN /\ pc[e] = "idle"
     /\ ~mBlocking[e] \/ MixAsync
     /\ mCallback' = [mCallback EXCEPT ![e] = IF now THEN "none" ELSE flag]
     /\ owner' = [owner EXCEPT ![e] = CASE now \/ mBlocking[e] -> "may_call"
                                        [] ~now /\ ~mBlocking[e] /\ flag = "ready" -> "waits"
                                        [] OTHER -> IF @ = "waits" THEN "told" ELSE @]
     /\ UNCHANGED <<buffer, mStatus, mAvailable, mWritable, mBlocking, mBlocked, pc, call, history>>

--------------------------------------------------------------------------------
(* The reader: ReadSegments, and Read through it. *)

ReadSegments(n) ==
  /\ pc["in"] = "idle" /\ owner["in"] = "may_call"
  /\ call' = [call EXCEPT !["in"] = [NoCall EXCEPT !.count = n]]
  /\ pc' = [pc EXCEPT !["in"] = "loop"]
  /\ UNCHANGED <<buffer, streams, owner, history>>

\* A failed pipe hands out nothing more.
NothingToReadOrFailed == mReadCursor = mReadLimit \/ mStatus # "ok"
NothingToRead == mReadCursor = mReadLimit

Smaller(a, b) == IF a < b THEN a ELSE b

GetReadSegment ==
  LET c == call["in"]
      len == Smaller(mReadLimit - mReadCursor, c.count)
  IN /\ pc["in"] = "loop"
     /\ ~NothingToRead
     /\ call' = [call EXCEPT !["in"] = [c EXCEPT !.segment = mReadCursor, !.len = len, !.orig = len]]
     /\ pc' = [pc EXCEPT !["in"] = "copy"]
     /\ UNCHANGED <<buffer, streams, owner, history>>

(* Nothing to hand out: the call ends if it has read something, if the pipe *)
(* failed, or if it must not block; else it goes on to wait.                *)
GetReadSegmentEmpty ==
  LET waits == call["in"].done = 0 /\ mStatus = "ok" /\ mBlocking["in"]
      wouldBlock == call["in"].done = 0 /\ mStatus = "ok" /\ ~mBlocking["in"]
  IN /\ pc["in"] = "loop"
     /\ NothingToRead
     /\ pc' = [pc EXCEPT !["in"] = IF waits THEN "wait" ELSE "idle"]
     /\ call' = IF waits THEN call ELSE Finished("in")
     /\ owner' = [owner EXCEPT !["in"] = IF wouldBlock THEN "told" ELSE @]
     /\ UNCHANGED <<buffer, streams, history>>

InputMustWait == mStatus = "ok" /\ mAvailable = 0

(* One turn of the loop of nsPipeInputStream::Wait; ReadSegments goes round *)
(* again unless Wait returned a failure other than closed.                  *)
InputWait ==
  /\ pc["in"] \in {"wait", "notified"}
  /\ mBlocked' = [mBlocked EXCEPT !["in"] = InputMustWait]
  /\ pc' = [pc EXCEPT !["in"] = CASE InputMustWait -> "asleep"
                                  [] ~InputMustWait /\ mStatus \in {"ok", "closed"} -> "loop"
                                  [] OTHER -> "idle"]
  /\ call' = IF InputMustWait \/ mStatus \in {"ok", "closed"} THEN call ELSE Finished("in")
  /\ UNCHANGED <<buffer, mStatus, mAvailable, mWritable, mBlocking, mCallback, owner, history>>

(* The client's function takes k bytes of the segment, outside the monitor. *)
CopyOut(k) ==
  LET c == call["in"]
  IN /\ pc["in"] = "copy" /\ k <= c.len
     /\ received' = received \o [i \in 1..k |-> mem[c.segment + i - 1]]
     /\ call' = [call EXCEPT !["in"] = Copied(c, k)]
     /\ pc' = [pc EXCEPT !["in"] = IF k = c.len THEN "advance" ELSE "copy"]
     /\ UNCHANGED <<buffer, streams, owner, sent, closedBy>>

(* The client's function fails or takes nothing: the call ends. *)
CopyOutRefused ==
  LET c == call["in"]
  IN /\ pc["in"] = "copy"
     /\ pc' = [pc EXCEPT !["in"] = IF c.len < c.orig THEN "advance" ELSE "idle"]
     /\ call' = IF c.len < c.orig THEN [call EXCEPT !["in"].count = 0] ELSE Finished("in")
     /\ UNCHANGED <<buffer, streams, owner, history>>

(* Back at "while (count)". *)
Continued(e, p) == [p EXCEPT ![e] = IF call[e].count = 0 THEN "idle" ELSE "loop"]
Locals(e) == IF call[e].count = 0 THEN Finished(e)
             ELSE [call EXCEPT ![e] = [@ EXCEPT !.segment = Null, !.len = 0, !.orig = 0]]

StillWriting == mWriteSegment = 0 /\ mWriteLimit > mWriteCursor

(* ReduceAvailable is unsigned subtraction. *)
Reduced(n) == (mAvailable - n) % UintRange

AdvanceReadCursor ==
  LET n == call["in"].orig - call["in"].len
      cursor == mReadCursor + n
      drops == cursor = mReadLimit /\ ~StillWriting
      empty == mWriteSegment = 0
      b == DeleteFirstSegment(mBuffer)
      head == GetSegment(b, 0)
      fires == drops /\ FiresOnReady("out")
  IN /\ pc["in"] = "advance"
     /\ mAvailable' = Reduced(n)
     /\ IF drops
          THEN /\ mWriteSegment' = mWriteSegment - 1
               /\ mBuffer' = b
               /\ mem' = [a \in DOMAIN mem |-> IF a \in Segment(GetSegment(mBuffer, 0)) THEN 0 ELSE mem[a]]
               /\ mReadCursor' = IF empty THEN Null ELSE head
               /\ mReadLimit' = CASE empty -> Null
                                  [] mWriteSegment = 1 -> mWriteCursor
                                  [] OTHER -> head + SegmentSize
               /\ mWriteCursor' = IF empty THEN Null ELSE mWriteCursor
               /\ mWriteLimit' = IF empty THEN Null ELSE mWriteLimit
               /\ mWritable' = TRUE
          ELSE /\ mReadCursor' = cursor
               /\ UNCHANGED <<mem, mBuffer, mReadLimit, mWriteSegment, mWriteCursor, mWriteLimit, mWritable>>
     /\ mCallback' = Fired("out", fires)
     /\ owner' = Called("out", fires)
     /\ pc' \in Notified(Continued("in", pc), Notifies(drops /\ WakesOnReady("out")))
     /\ call' = Locals("in")
     /\ UNCHANGED <<mStatus, mBlocking, mBlocked, history>>

--------------------------------------------------------------------------------
(* The writer: WriteSegments, and Write and WriteFrom through it. *)

WriteSegments(n) ==
  /\ pc["out"] = "idle" /\ owner["out"] = "may_call"
  /\ mStatus = "ok" /\ sent + n <= MaxBytes
  /\ call' = [call EXCEPT !["out"] = [NoCall EXCEPT !.count = n]]
  /\ pc' = [pc EXCEPT !["out"] = "loop"]
  /\ UNCHANGED <<buffer, streams, owner, history>>

NeedsSegment == mWriteCursor = mWriteLimit

(* Both cursors go back to the start of the only segment when all of it has *)
(* been read.                                                               *)
RollsBack(readCursor, writeCursor, writeSegment) ==
  readCursor = writeCursor /\ writeSegment = 0

GetWriteSegment ==
  \E seg \in IF NeedsSegment THEN FreeSegment ELSE {Null} :
    LET c == call["out"]
        b == IF NeedsSegment THEN AppendNewSegment(mBuffer, seg) ELSE mBuffer
        index == IF NeedsSegment THEN mWriteSegment + 1 ELSE mWriteSegment
        cursor == IF NeedsSegment THEN seg ELSE mWriteCursor
        limit == IF NeedsSegment THEN seg + SegmentSize ELSE mWriteLimit
        fresh == mReadCursor = Null
        back == RollsBack(IF fresh THEN cursor ELSE mReadCursor, cursor, index)
        start == IF back THEN GetSegment(b, 0) ELSE cursor
        len == Smaller(limit - start, c.count)
    IN /\ pc["out"] = "loop" /\ mStatus = "ok"
       /\ NeedsSegment => GetSize(mBuffer) < MaxSize
       /\ mBuffer' = b
       /\ mWriteSegment' = index /\ mWriteCursor' = start /\ mWriteLimit' = limit
       /\ mReadCursor' = IF fresh \/ back THEN start ELSE mReadCursor
       /\ mReadLimit' = IF fresh \/ back THEN start ELSE mReadLimit
       /\ call' = [call EXCEPT !["out"] = [c EXCEPT !.segment = start, !.len = len, !.orig = len]]
       /\ pc' = [pc EXCEPT !["out"] = "copy"]
       /\ UNCHANGED <<mem, streams, owner, history>>

(* AppendNewSegment returns null: the pipe is full, or memory is.  The      *)
(* array may have grown before the allocation of the segment failed.        *)
GetWriteSegmentFull ==
  LET full == GetSize(mBuffer) >= MaxSize
  IN /\ pc["out"] = "loop" /\ mStatus = "ok"
     /\ NeedsSegment
     /\ full \/ MemoryFails
     /\ mBuffer' \in {mBuffer, IF full THEN mBuffer ELSE Roomy(mBuffer)}
     /\ pc' = [pc EXCEPT !["out"] = IF mBlocking["out"] THEN "wait" ELSE "idle"]
     /\ call' = IF mBlocking["out"] THEN call ELSE Finished("out")
     /\ owner' = [owner EXCEPT !["out"] = IF mBlocking["out"] \/ call["out"].done > 0 THEN @ ELSE "told"]
     /\ UNCHANGED <<mem, mReadCursor, mReadLimit, mWriteSegment, mWriteCursor, mWriteLimit, streams, history>>

GetWriteSegmentFailed ==
  /\ pc["out"] = "loop" /\ mStatus # "ok"
  /\ pc' = Returned("out") /\ call' = Finished("out")
  /\ UNCHANGED <<buffer, streams, owner, history>>

\* Wait does not look at the status again after GetWriteSegment did.
OutputMustWaitIfFull == ~mWritable
OutputMustWait == mStatus = "ok" /\ ~mWritable

(* nsPipeOutputStream::Wait sleeps at most once and leaves it to            *)
(* WriteSegments to look again.                                             *)
OutputWait ==
  LET sleeps == pc["out"] = "wait" /\ OutputMustWait
  IN /\ pc["out"] \in {"wait", "notified"}
     /\ mBlocked' = [mBlocked EXCEPT !["out"] = sleeps]
     /\ pc' = [pc EXCEPT !["out"] = CASE sleeps -> "asleep"
                                      [] ~sleeps /\ mStatus \in {"ok", "closed"} -> "loop"
                                      [] OTHER -> "idle"]
     /\ call' = IF sleeps \/ mStatus \in {"ok", "closed"} THEN call ELSE Finished("out")
     /\ UNCHANGED <<buffer, mStatus, mAvailable, mWritable, mBlocking, mCallback, owner, history>>

(* The client's function fills k bytes of the segment, outside the monitor. *)
CopyIn(k) ==
  LET c == call["out"]
  IN /\ pc["out"] = "copy" /\ k <= c.len
     /\ mem' = [a \in DOMAIN mem |-> IF a \in c.segment..(c.segment + k - 1)
                                       THEN sent + (c.orig - c.len) + (a - c.segment) + 1 ELSE mem[a]]
     /\ call' = [call EXCEPT !["out"] = Copied(c, k)]
     /\ pc' = [pc EXCEPT !["out"] = IF k = c.len THEN "advance" ELSE "copy"]
     /\ UNCHANGED <<mBuffer, mReadCursor, mReadLimit, mWriteSegment, mWriteCursor, mWriteLimit, streams, owner, history>>

\* The refusal does not end the call: the client is asked again.
CopyInRetried ==
  /\ pc["out"] = "copy"
  /\ pc' = [pc EXCEPT !["out"] = IF call["out"].len < call["out"].orig THEN "advance" ELSE "loop"]
  /\ UNCHANGED <<buffer, streams, call, owner, history>>

CopyInRefused ==
  LET c == call["out"]
  IN /\ pc["out"] = "copy"
     /\ pc' = [pc EXCEPT !["out"] = IF c.len < c.orig THEN "advance" ELSE "idle"]
     /\ call' = IF c.len < c.orig THEN [call EXCEPT !["out"].count = 0] ELSE Finished("out")
     /\ UNCHANGED <<buffer, streams, owner, history>>

NowFull(cursor) == cursor = mWriteLimit /\ GetSize(mBuffer) >= MaxSize

\* Equal addresses are taken for the same segment.
ReadingAtWriteCursor == mReadLimit = mWriteCursor
ReadingInWriteSegment == mWriteSegment = 0 /\ mReadLimit = mWriteCursor

AdvanceWriteCursor ==
  LET n == call["out"].orig - call["out"].len
      cursor == mWriteCursor + n
      fires == FiresOnReady("in")
  IN /\ pc["out"] = "advance"
     /\ mReadLimit' = IF ReadingInWriteSegment THEN cursor ELSE mReadLimit
     /\ mWriteCursor' = cursor
     /\ mWritable' = (mWritable /\ ~NowFull(cursor))
     /\ mAvailable' = (mAvailable + n) % UintRange
     /\ mCallback' = Fired("in", fires)
     /\ owner' = Called("in", fires)
     /\ pc' \in Notified(Continued("out", pc), Notifies(WakesOnReady("in")))
     /\ call' = Locals("out")
     /\ sent' = sent + n
     /\ UNCHANGED <<mem, mBuffer, mReadCursor, mWriteSegment, mWriteLimit, mStatus, mBlocking, mBlocked, received, closedBy>>

--------------------------------------------------------------------------------
InputStep == \/ GetReadSegment \/ GetReadSegmentEmpty \/ InputWait
             \/ CopyOutRefused \/ AdvanceReadCursor
             \/ \E k \in 1..SegmentSize : CopyOut(k)
OutputStep == \/ GetWriteSegment \/ GetWriteSegmentFull \/ GetWriteSegmentFailed \/ OutputWait
              \/ CopyInRefused \/ AdvanceWriteCursor
              \/ \E k \in 1..SegmentSize : CopyIn(k)

Next == \/ InputStep
        \/ OutputStep
        \/ \E n \in Counts : ReadSegments(n) \/ WriteSegments(n)
        \/ \E e \in End : \/ \E r \in Reasons : CloseWithStatus(e, r)
                          \/ \E f \in Flags(e) : AsyncWait(e, f)

Spec == Init /\ [][Next]_vars

(* Threads run, clients that were told a stream is ready use it, clients    *)
(* that were told it would block wait for it, a client's function that is   *)
(* called again and again does not refuse for ever, and neither does the    *)
(* allocator.  Nobody has to start a write or to close an end.              *)
FairSpec == /\ Spec
            /\ WF_vars(InputStep) /\ WF_vars(OutputStep)
            /\ SF_vars(\E k \in 1..SegmentSize : CopyOut(k)) /\ SF_vars(GetWriteSegment)
            /\ WF_vars(\E n \in Counts : ReadSegments(n))
            /\ \A e \in End : WF_vars(owner[e] = "told" /\ AsyncWait(e, "ready"))

--------------------------------------------------------------------------------
(* The bytes between the cursors, in order, as they lie in memory: what is  *)
(* left of the first segment, then the segments behind it up to the write   *)
(* cursor.                                                                  *)
InFirst == mReadLimit - mReadCursor
InRest == IF GetSegmentCount(mBuffer) < 2 THEN 0
          ELSE (mWriteSegment - 1) * SegmentSize + (mWriteCursor - GetSegment(mBuffer, mWriteSegment))
AddressOf(k) == IF k <= InFirst THEN mReadCursor + k - 1
                ELSE LET n == k - InFirst - 1
                     IN GetSegment(mBuffer, 1 + (n \div SegmentSize)) + (n % SegmentSize)
Buffered == [k \in 1..(InFirst + InRest) |-> mem[AddressOf(k)]]

(* What the reader took from the segment it holds but has not reported. *)
Taken == IF pc["in"] \in {"copy", "advance"} THEN call["in"].orig - call["in"].len ELSE 0
Content == SubSeq(Buffered, Taken + 1, Len(Buffered))

Pipe == INSTANCE BytePipe WITH Capacity <- MaxSize, content <- Content

(* The segmented pipe implements the abstract one: through segment reuse,   *)
(* roll-back of both cursors and segments that lie back to back, every byte *)
(* comes out once, in order and unchanged, whatever the ends do at once     *)
(* (GetReadSegment to AdvanceReadCursor against GetWriteSegment to          *)
(* AdvanceWriteCursor, neither of them in the monitor while bytes move).    *)
ImplementsPipe == Pipe!Spec

PcOK == pc \in [End -> {"idle", "loop", "copy", "advance", "wait", "asleep", "notified"}]

(* Every variable of the pipe has its type; in particular mAvailable is a   *)
(* PRUint32 and every cursor is null or an address of the arena.            *)
TypeOK ==
  /\ mem \in [0..(MaxSize - 1) -> 0..MaxBytes]
  /\ {mReadCursor, mReadLimit, mWriteCursor, mWriteLimit} \subseteq -1..MaxSize
  /\ mWriteSegment \in -1..(SegmentCount - 1)
  /\ mStatus \in {"ok"} \cup Reasons
  /\ mAvailable \in 0..(UintRange - 1)
  /\ mWritable \in BOOLEAN
  /\ {mBlocking, mBlocked} \subseteq [End -> BOOLEAN]
  /\ owner \in [End -> {"may_call", "told", "waits"}]
  /\ mCallback \in [End -> {"none", "ready", "closure"}]
  /\ PcOK
  /\ closedBy \in End \cup {"nobody"}

(* What the pipe remembers beside its cursors agrees with them, in states   *)
(* of the right types: mAvailable, kept by additions in AdvanceWriteCursor  *)
(* and subtractions in AdvanceReadCursor, is the number of bytes between    *)
(* the cursors and mWriteSegment the index of the last segment, until the   *)
(* input end is closed; and mWritable, which Wait and AsyncWait of the      *)
(* output end trust, says exactly that GetWriteSegment would find room.     *)
BookkeepingExact ==
  /\ TypeOK
  /\ closedBy # "in" => mAvailable = Len(Buffered) /\ mWriteSegment = GetSegmentCount(mBuffer) - 1
  /\ mStatus = "ok" => (mWritable <=> ~(NeedsSegment /\ GetSize(mBuffer) >= MaxSize))

(* No missed notification.  One monitor and single notifications serve both *)
(* ends: a thread asleep in Wait has something to wait for, and the two     *)
(* ends are never both asleep.  A callback left with AsyncWait is pending   *)
(* only while its stream is neither ready nor failed ("the event will be    *)
(* dispatched when the stream becomes readable or closed"); one that waits  *)
(* for closure (WAIT_CLOSURE_ONLY), only while its stream has not failed.   *)
(* This does not hold if "closure" is in FlagsIn: when the writer closes a  *)
(* pipe with bytes in it, OnPipeException does not reach the input end, and *)
(* no later step does, neither the read that drains the pipe nor the        *)
(* reader's own Close, which finds the pipe failed already.  That callback  *)
(* is lost, a defect of the code.                                           *)
NoMissedNotification ==
  /\ pc["in"] = "asleep" => mStatus = "ok" /\ Buffered = <<>>
  /\ pc["out"] = "asleep" => mStatus = "ok" /\ NeedsSegment /\ GetSize(mBuffer) >= MaxSize
  /\ \A e \in End : /\ mCallback[e] = "ready" => mStatus = "ok" /\ ~ReadyNow(e)
                    /\ mCallback[e] = "closure" => mStatus = "ok"

(* A read that returns the failure or the end of the pipe, after the writer *)
(* closed it, has left no byte behind: "an output-only exception applies to *)
(* the input end if the pipe has zero bytes available" (OnPipeException).   *)
EndOnlyWhenDrained ==
  [][ (/\ pc["in"] \in {"loop", "wait", "notified"} /\ pc'["in"] = "idle"
       /\ call["in"].done = 0 /\ mStatus # "ok" /\ closedBy = "out")
      => Len(received) = sent ]_vars

(* Every byte written reaches a reader that keeps reading, unless somebody  *)
(* closes the reading end.                                                  *)
BytesArrive == sent > Len(received) ~> (sent = Len(received) \/ closedBy = "in")

(* A write in progress comes back, however large it is and however small    *)
(* the pipe, as long as the reader keeps reading.                           *)
WritesReturn == pc["out"] # "idle" ~> pc["out"] = "idle"
================================================================================
