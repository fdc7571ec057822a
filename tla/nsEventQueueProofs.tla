--------------------------- MODULE nsEventQueueProofs ---------------------------
(***************************************************************************)
(* Proofs about nsEventQueue, for every page size, set of callers and set  *)
(* of events.  The invariant QInv ties the pages to the history: the page  *)
(* at mHead starts at event pages[mHead].base, so mOffsetHead says how     *)
(* many events were taken and mOffsetTail how many were put.               *)
(***************************************************************************)
EXTENDS nsEventQueue, TLAPS, SequenceTheorems

Drained == /\ taken = Len(put)
           /\ \A p \in DOMAIN pages : ~pages[p].live

Ends == /\ mHead \in 1 .. mTail
        /\ mTail = Len(pages)
        /\ mOffsetTail >= 1
        /\ taken = pages[mHead].base + mOffsetHead
        /\ Len(put) = pages[mTail].base + mOffsetTail
        /\ pages[mTail].mNext = Null

Links == \A p \in mHead .. mTail - 1 :
           /\ pages[p].mNext = p + 1
           /\ pages[p + 1].base = pages[p].base + EVENTS_PER_PAGE

Gaps == \A p, q \in mHead .. mTail :
          p < q => pages[q].base >= pages[p].base + EVENTS_PER_PAGE

Lives == \A p \in DOMAIN pages : pages[p].live <=> p \in mHead .. mTail

Contents ==
  \A p \in mHead .. mTail, k \in Slot :
    (taken <= pages[p].base + k /\ pages[p].base + k < Len(put))
      => pages[p].mEvents[k] = put[pages[p].base + k + 1]

Sleepers == \A c \in Caller : at[c] = "waiting" => taken = Len(put)

QInv == /\ TypeOK
        /\ taken <= Len(put)
        /\ mHead = Null => Drained
        /\ mHead # Null => Ends /\ Links /\ Gaps /\ Lives /\ Contents
        /\ Sleepers
--------------------------------------------------------------------------------
(* IsEmpty, which looks at pages and offsets, is right about the events: it *)
(* holds exactly when everything that was put has been taken.               *)
LEMMA EmptyMeansAllTaken ==
  ASSUME QInv PROVE IsEmpty <=> taken = Len(put)
<1> USE EventQueueConstants DEF Null
<1>1. CASE mHead = Null
  BY <1>1 DEF QInv, Drained, IsEmpty
<1>2. CASE mHead # Null
  <2> mHead \in Nat /\ mTail \in Nat /\ mOffsetHead \in Nat /\ mOffsetTail \in Nat
      /\ mOffsetHead < EVENTS_PER_PAGE
    BY DEF QInv, TypeOK, Slot
  <2>0. \A p \in mHead .. mTail : pages[p].base \in Nat
    <3>1. \A p \in 1 .. Len(pages) : pages[p] \in Page
      BY ElementOfSeq DEF QInv, TypeOK
    <3>2. mHead .. mTail \subseteq 1 .. Len(pages)
      BY <1>2 DEF QInv, Ends
    <3> QED BY <3>1, <3>2 DEF Page
  <2>1. CASE mHead = mTail
    BY <1>2, <2>1, <2>0 DEF QInv, Ends, IsEmpty
  <2>2. CASE mHead # mTail
    <3>1. mHead \in mHead .. mTail /\ mTail \in mHead .. mTail /\ mHead < mTail
      BY <1>2, <2>2 DEF QInv, Ends
    <3>2. pages[mTail].base >= pages[mHead].base + EVENTS_PER_PAGE
      BY <1>2, <3>1 DEF QInv, Gaps
    <3> QED BY <1>2, <2>2, <2>0, <3>1, <3>2 DEF QInv, Ends, IsEmpty
  <2> QED BY <2>1, <2>2
<1> QED BY <1>1, <1>2

LEMMA InitQInv == Init => QInv
<1> SUFFICES ASSUME Init PROVE QInv
  OBVIOUS
<1> USE EventQueueConstants DEF Init, Null
<1>1. TypeOK
  <2>1. pages \in Seq(Page) /\ put \in Seq(Event) /\ Len(put) = 0
    BY EmptySeq
  <2>2. mOffsetHead \in Slot /\ mOffsetTail \in 0 .. EVENTS_PER_PAGE
    BY DEF Slot
  <2> QED BY <2>1, <2>2 DEF TypeOK
<1>2. DOMAIN pages = {} /\ Len(put) = 0
  BY EmptySeq
<1> QED BY <1>1, <1>2 DEF QInv, Drained, Sleepers

(* What PutEvent's three cases have in common: the event becomes the last *)
(* one of the history, nobody is left waiting.                            *)
LEMMA StoredFacts ==
  ASSUME TypeOK, NEW c \in Caller, NEW e \in Event, Stored(c, e)
  PROVE  /\ put' \in Seq(Event)
         /\ Len(put') = Len(put) + 1
         /\ \A i \in 1 .. Len(put) : put'[i] = put[i]
         /\ put'[Len(put) + 1] = e
         /\ taken' = taken
         /\ at' \in [Caller -> {"idle", "waiting", "notified"}]
         /\ result' \in [Caller -> Event \cup {NoEvent}]
         /\ rv' \in [Caller -> BOOLEAN]
         /\ Sleepers'
<1>1. put \in Seq(Event)
  BY DEF TypeOK
<1>2. /\ put' \in Seq(Event)
      /\ Len(put') = Len(put) + 1
      /\ \A i \in 1 .. Len(put) : put'[i] = put[i]
      /\ put'[Len(put) + 1] = e
  BY <1>1, AppendProperties DEF Stored
<1>3. at' \in [Caller -> {"idle", "waiting", "notified"}]
      /\ \A d \in Caller : at'[d] # "waiting"
  BY DEF Stored, NotifyAll, TypeOK
<1>4. Sleepers'
  BY <1>3 DEF Sleepers
<1>5. rv' \in [Caller -> BOOLEAN]
  BY DEF Stored, TypeOK
<1>6. taken' = taken /\ result' \in [Caller -> Event \cup {NoEvent}]
  BY DEF Stored, TypeOK
<1> QED BY <1>2, <1>3, <1>4, <1>5, <1>6

(* A page as NewPage makes it, with its first event in slot 0. *)
LEMMA NewPageFacts ==
  ASSUME TypeOK, NEW e \in Event
  PROVE  /\ NewPage(e) \in Page
         /\ NewPage(e).mNext = Null
         /\ NewPage(e).live
         /\ NewPage(e).base = Len(put)
         /\ NewPage(e).mEvents[0] = e
<1>1. 0 \in Slot
  BY EventQueueConstants DEF Slot
<1>2. Len(put) \in Nat
  BY LenProperties DEF TypeOK
<1> QED BY <1>1, <1>2 DEF Page, Null, NewPage

(* The fields of a page that is freed, linked to another, or written to. *)
LEMMA FreedPageFacts ==
  ASSUME NEW q \in Page
  PROVE  /\ [q EXCEPT !.live = FALSE] \in Page
         /\ ~[q EXCEPT !.live = FALSE].live
BY DEF Page

LEMMA LinkedPageFacts ==
  ASSUME NEW q \in Page, NEW n \in Nat
  PROVE  LET l == [q EXCEPT !.mNext = n]
         IN  /\ l \in Page /\ l.mNext = n /\ l.live = q.live
             /\ l.base = q.base /\ l.mEvents = q.mEvents
BY DEF Page

LEMMA WrittenPageFacts ==
  ASSUME NEW q \in Page, NEW e \in Event, NEW k \in Slot
  PROVE  LET w == [q EXCEPT !.mEvents[k] = e]
         IN  /\ w \in Page /\ w.mNext = q.mNext /\ w.live = q.live
             /\ w.base = q.base /\ w.mEvents[k] = e
             /\ \A j \in Slot \ {k} : w.mEvents[j] = q.mEvents[j]
BY DEF Page

(* The types of the scalars, for arithmetic. *)
LEMMA Numbers ==
  ASSUME QInv
  PROVE  /\ mHead \in Nat /\ mTail \in Nat /\ taken \in Nat
         /\ mOffsetHead \in Nat /\ mOffsetTail \in Nat
         /\ mOffsetHead < EVENTS_PER_PAGE
         /\ mOffsetTail <= EVENTS_PER_PAGE
         /\ EVENTS_PER_PAGE \in Nat /\ EVENTS_PER_PAGE > 0
         /\ Len(pages) \in Nat /\ Len(put) \in Nat
         /\ DOMAIN pages = 1 .. Len(pages)
         /\ \A k \in Slot : k \in Nat /\ k < EVENTS_PER_PAGE
<1>1. Len(pages) \in Nat /\ Len(put) \in Nat /\ DOMAIN pages = 1 .. Len(pages)
  BY LenProperties DEF QInv, TypeOK
<1> QED BY <1>1, EventQueueConstants DEF QInv, TypeOK, Slot

(* While there is a page, mHead .. mTail are addresses of pages. *)
LEMMA PageFacts ==
  ASSUME QInv
  PROVE  /\ \A p \in 1 .. Len(pages) : pages[p] \in Page /\ pages[p].base \in Nat
         /\ mHead # Null =>
              /\ \A p \in mHead .. mTail : p \in 1 .. Len(pages) /\ p \in Nat
              /\ mHead \in mHead .. mTail /\ mTail \in mHead .. mTail
<1>1. \A p \in 1 .. Len(pages) : pages[p] \in Page
  BY ElementOfSeq DEF QInv, TypeOK
<1>2. \A p \in 1 .. Len(pages) : pages[p].base \in Nat
  BY <1>1 DEF Page
<1>3. mHead # Null =>
              /\ \A p \in mHead .. mTail : p \in 1 .. Len(pages) /\ p \in Nat
              /\ mHead \in mHead .. mTail /\ mTail \in mHead .. mTail
  BY Numbers DEF QInv, Ends
<1> QED BY <1>1, <1>2, <1>3
--------------------------------------------------------------------------------
LEMMA PutInFirstPageKeepsQInv ==
  ASSUME QInv, NEW c \in Caller, NEW e \in Event, PutInFirstPage(c, e)
  PROVE  QInv'
<1> USE EventQueueConstants DEF Null
<1> DEFINE n == Len(pages) + 1
<1>1. TypeOK
  BY DEF QInv
<1>2. /\ pages' \in Seq(Page)
      /\ Len(pages') = n
      /\ \A p \in 1 .. Len(pages) : pages'[p] = pages[p]
      /\ pages'[n] = NewPage(e)
  BY <1>1, NewPageFacts, AppendProperties DEF TypeOK, PutInFirstPage
<1>3. /\ mHead = 0 /\ mHead' = n /\ mTail' = n
      /\ mOffsetHead' = 0 /\ mOffsetTail' = 1 /\ Stored(c, e)
  BY DEF PutInFirstPage
<1>4. /\ taken' = taken /\ taken = Len(put) /\ Len(put') = Len(put) + 1
      /\ put'[Len(put) + 1] = e
      /\ \A p \in 1 .. Len(pages) : ~pages[p].live
  BY <1>1, <1>3, StoredFacts, Numbers DEF QInv, Drained
<1>5. TypeOK'
  BY <1>1, <1>2, <1>3, StoredFacts, Numbers DEF TypeOK, Slot
<1>6. DOMAIN pages' = 1 .. n /\ n \in Nat /\ n # 0
  BY <1>2, LenProperties, Numbers
<1>7. /\ pages'[n].base = Len(put) /\ pages'[n].mNext = 0
      /\ pages'[n].live /\ pages'[n].mEvents[0] = e
  BY <1>1, <1>2, NewPageFacts
<1>8. Ends'
  BY <1>2, <1>3, <1>4, <1>6, <1>7, Numbers DEF Ends
<1>9. Links' /\ Gaps'
  BY <1>3, <1>6 DEF Links, Gaps
<1>10. Lives'
  BY <1>2, <1>3, <1>4, <1>6, <1>7 DEF Lives
<1>11. Contents'
  <2> SUFFICES ASSUME NEW k \in Slot, Len(put) + k < Len(put')
               PROVE  pages'[n].mEvents[k] = put'[Len(put) + k + 1]
    BY <1>3, <1>6, <1>7 DEF Contents
  <2>1. k = 0
    BY <1>4, Numbers DEF Slot
  <2> QED BY <2>1, <1>4, <1>7, Numbers
<1> QED
  BY <1>1, <1>3, <1>4, <1>5, <1>6, <1>8, <1>9, <1>10, <1>11, StoredFacts,
     Numbers DEF QInv

LEMMA PutInNewTailKeepsQInv ==
  ASSUME QInv, NEW c \in Caller, NEW e \in Event, PutInNewTail(c, e)
  PROVE  QInv'
<1> USE EventQueueConstants DEF Null
<1> DEFINE n == Len(pages) + 1
           linked == [pages[mTail] EXCEPT !.mNext = n]
<1>1. TypeOK /\ mHead # 0 /\ Ends /\ Links /\ Gaps /\ Lives /\ Contents
  BY DEF QInv, PutInNewTail
<1>2. n \in Nat /\ mTail \in 1 .. Len(pages) /\ pages[mTail] \in Page /\ 0 \in Slot
  BY <1>1, Numbers, PageFacts DEF Slot
<1>3. /\ linked \in Page /\ linked.mNext = n /\ linked.live = pages[mTail].live
      /\ linked.base = pages[mTail].base /\ linked.mEvents = pages[mTail].mEvents
  BY <1>2, LinkedPageFacts
<1> HIDE DEF linked
<1>4. pages' = Append([pages EXCEPT ![mTail] = linked], NewPage(e))
  BY DEF PutInNewTail, linked
<1>5. /\ [pages EXCEPT ![mTail] = linked] \in Seq(Page)
      /\ Len([pages EXCEPT ![mTail] = linked]) = Len(pages)
      /\ \A p \in 1 .. Len(pages) :
           [pages EXCEPT ![mTail] = linked][p] = IF p = mTail THEN linked ELSE pages[p]
  BY <1>1, <1>2, <1>3, ExceptSeq DEF TypeOK
<1>6. /\ pages' \in Seq(Page)
      /\ Len(pages') = n
      /\ \A p \in 1 .. Len(pages) : pages'[p] = IF p = mTail THEN linked ELSE pages[p]
      /\ pages'[n] = NewPage(e)
  BY <1>1, <1>4, <1>5, NewPageFacts, AppendProperties
<1>7. /\ mHead' = mHead /\ mTail' = n /\ mOffsetHead' = mOffsetHead
      /\ mOffsetTail = EVENTS_PER_PAGE /\ mOffsetTail' = 1 /\ Stored(c, e)
  BY DEF PutInNewTail
<1>8. /\ taken' = taken /\ Len(put') = Len(put) + 1
      /\ \A i \in 1 .. Len(put) : put'[i] = put[i]
      /\ put'[Len(put) + 1] = e
  BY <1>1, <1>7, StoredFacts
<1>9. TypeOK'
  BY <1>1, <1>6, <1>7, StoredFacts, Numbers DEF TypeOK
<1>10. /\ pages'[n].base = Len(put) /\ pages'[n].mNext = 0
       /\ pages'[n].live /\ pages'[n].mEvents[0] = e
  BY <1>1, <1>6, NewPageFacts
<1>11. \A p \in 1 .. Len(pages) :
         /\ pages'[p].base = pages[p].base
         /\ pages'[p].live = pages[p].live
         /\ pages'[p].mEvents = pages[p].mEvents
         /\ pages'[p].mNext = IF p = mTail THEN n ELSE pages[p].mNext
  BY <1>3, <1>6
<1>12. /\ mTail = Len(pages) /\ mHead \in 1 .. mTail
       /\ Len(put) = pages[mTail].base + EVENTS_PER_PAGE
       /\ DOMAIN pages' = 1 .. n
  BY <1>1, <1>6, <1>7, LenProperties DEF Ends
<1>13. Ends'
  BY <1>1, <1>6, <1>7, <1>8, <1>10, <1>11, <1>12, Numbers DEF Ends
<1>14. Links'
  <2> SUFFICES ASSUME NEW p \in mHead .. mTail
               PROVE  /\ pages'[p].mNext = p + 1
                      /\ pages'[p + 1].base = pages'[p].base + EVENTS_PER_PAGE
    BY <1>7, <1>12, Numbers DEF Links
  <2>1. p \in 1 .. Len(pages) /\ p \in Nat
    BY <1>1, PageFacts
  <2>2. CASE p = mTail
    BY <2>1, <2>2, <1>10, <1>11, <1>12, Numbers
  <2>3. CASE p # mTail
    <3>1. p \in mHead .. mTail - 1 /\ p + 1 \in 1 .. Len(pages)
      BY <2>1, <2>3, <1>12, Numbers
    <3> QED BY <2>1, <2>3, <3>1, <1>1, <1>11 DEF Links
  <2> QED BY <2>2, <2>3
<1>15. Gaps'
  <2> SUFFICES ASSUME NEW p \in mHead .. n, NEW q \in mHead .. n, p < q
               PROVE  pages'[q].base >= pages'[p].base + EVENTS_PER_PAGE
    BY <1>7 DEF Gaps
  <2>1. p \in mHead .. mTail /\ p \in 1 .. Len(pages)
    BY <1>2, <1>12, Numbers
  <2>2. CASE q = n
    <3>1. p = mTail \/ (p < mTail /\ mTail \in mHead .. mTail)
      BY <2>1, <1>2, <1>12, Numbers
    <3>3. pages[p].base \in Nat /\ pages[mTail].base \in Nat
      BY <2>1, <1>2, PageFacts
    <3>2. pages[mTail].base >= pages[p].base
      BY <2>1, <3>1, <3>3, <1>1, Numbers DEF Gaps
    <3> QED BY <2>1, <2>2, <3>2, <3>3, <1>10, <1>11, <1>12, Numbers
  <2>3. CASE q # n
    <3>1. q \in mHead .. mTail /\ q \in 1 .. Len(pages)
      BY <2>3, <1>2, <1>12, Numbers
    <3> QED BY <2>1, <3>1, <1>1, <1>11 DEF Gaps
  <2> QED BY <2>2, <2>3
<1>16. Lives'
  BY <1>1, <1>2, <1>7, <1>10, <1>11, <1>12, Numbers DEF Lives
<1>17. Contents'
  <2> SUFFICES ASSUME NEW p \in mHead .. n, NEW k \in Slot,
                      taken <= pages'[p].base + k,
                      pages'[p].base + k < Len(put')
               PROVE  pages'[p].mEvents[k] = put'[pages'[p].base + k + 1]
    BY <1>7, <1>8 DEF Contents
  <2>1. k \in Nat /\ k < EVENTS_PER_PAGE
    BY Numbers DEF Slot
  <2>2. CASE p = n
    <3>1. k = 0
      BY <2>1, <2>2, <1>8, <1>10, Numbers
    <3> QED BY <2>2, <3>1, <1>8, <1>10, Numbers
  <2>3. CASE p # n
    <3>1. p \in mHead .. mTail /\ p \in 1 .. Len(pages) 
      BY <2>3, <1>2, <1>12, Numbers
    <3>2. /\ pages[p].base \in Nat /\ pages[mTail].base \in Nat
          /\ mTail \in mHead .. mTail
      BY <3>1, <1>1, <1>2, PageFacts
    <3>3. pages[p].base <= pages[mTail].base
      BY <3>1, <3>2, <1>1, <1>12, Numbers DEF Gaps
    <3>4. pages[p].base + k < Len(put)
      BY <2>1, <3>1, <3>2, <3>3, <1>12, Numbers
    <3>5. pages[p].mEvents[k] = put[pages[p].base + k + 1]
      BY <3>1, <3>4, <1>1, <1>11 DEF Contents
    <3>6. pages[p].base + k + 1 \in 1 .. Len(put)
      <4>1. Len(put) \in Nat
        BY Numbers
      <4> QED BY <4>1, <2>1, <3>2, <3>4
    <3> QED BY <3>1, <3>5, <3>6, <1>8, <1>11
  <2> QED BY <2>2, <2>3
<1> QED
  BY <1>1, <1>7, <1>8, <1>9, <1>13, <1>14, <1>15, <1>16, <1>17, StoredFacts,
     Numbers DEF QInv

LEMMA PutInTailKeepsQInv ==
  ASSUME QInv, NEW c \in Caller, NEW e \in Event, PutInTail(c, e)
  PROVE  QInv'
<1> USE EventQueueConstants DEF Null
<1> DEFINE written == [pages[mTail] EXCEPT !.mEvents[mOffsetTail] = e]
<1>1. TypeOK /\ mHead # 0 /\ Ends /\ Links /\ Gaps /\ Lives /\ Contents
  BY DEF QInv, PutInTail
<1>2. mTail \in 1 .. Len(pages) /\ pages[mTail] \in Page /\ mOffsetTail \in Slot
  BY <1>1, Numbers, PageFacts DEF Slot, PutInTail
<1>3. /\ written \in Page /\ written.mNext = pages[mTail].mNext
      /\ written.live = pages[mTail].live /\ written.base = pages[mTail].base
      /\ written.mEvents[mOffsetTail] = e
      /\ \A j \in Slot \ {mOffsetTail} : written.mEvents[j] = pages[mTail].mEvents[j]
  BY <1>2 DEF Page
<1> HIDE DEF written
<1>4. pages' = [pages EXCEPT ![mTail] = written]
  BY DEF PutInTail, written
<1>5. /\ pages' \in Seq(Page)
      /\ Len(pages') = Len(pages)
      /\ \A p \in 1 .. Len(pages) : pages'[p] = IF p = mTail THEN written ELSE pages[p]
  BY <1>1, <1>2, <1>3, <1>4, ExceptSeq DEF TypeOK
<1>6. /\ mHead' = mHead /\ mTail' = mTail /\ mOffsetHead' = mOffsetHead
      /\ mOffsetTail' = mOffsetTail + 1 /\ Stored(c, e)
  BY DEF PutInTail
<1>7. /\ taken' = taken /\ Len(put') = Len(put) + 1
      /\ \A i \in 1 .. Len(put) : put'[i] = put[i]
      /\ put'[Len(put) + 1] = e
  BY <1>1, <1>6, StoredFacts
<1>8. TypeOK'
  BY <1>1, <1>2, <1>5, <1>6, StoredFacts, Numbers DEF TypeOK, Slot
<1>9. \A p \in 1 .. Len(pages) :
        /\ pages'[p].base = pages[p].base
        /\ pages'[p].live = pages[p].live
        /\ pages'[p].mNext = pages[p].mNext
        /\ \A k \in Slot : p # mTail \/ k # mOffsetTail =>
             pages'[p].mEvents[k] = pages[p].mEvents[k]
  BY <1>3, <1>5
<1>10. /\ mTail = Len(pages) /\ mHead \in 1 .. mTail
       /\ Len(put) = pages[mTail].base + mOffsetTail
       /\ DOMAIN pages' = 1 .. Len(pages)
       /\ pages'[mTail].mEvents[mOffsetTail] = e
  BY <1>1, <1>2, <1>3, <1>5, LenProperties DEF Ends
<1>11. Ends'
  <2>1. /\ pages'[mHead].base = pages[mHead].base
        /\ pages'[mTail].base = pages[mTail].base
        /\ pages[mHead].base \in Nat /\ pages[mTail].base \in Nat
        /\ pages'[mTail].mNext = pages[mTail].mNext
    BY <1>1, <1>2, <1>9, PageFacts
  <2>2. /\ taken = pages[mHead].base + mOffsetHead
        /\ pages[mTail].mNext = 0
    BY <1>1 DEF Ends
  <2>3. /\ Len(put) = pages[mTail].base + mOffsetTail
        /\ Len(put') = Len(put) + 1 /\ mOffsetTail' = mOffsetTail + 1
        /\ mOffsetTail \in Nat
    BY <1>6, <1>7, <1>10, Numbers
  <2>4. Len(put') = pages'[mTail].base + mOffsetTail'
    <3>1. \A b, k \in Nat : b + k + 1 = b + (k + 1)
      OBVIOUS
    <3> QED BY <2>1, <2>3, <3>1
  <2>5. mTail = Len(pages) /\ mHead \in 1 .. mTail /\ taken' = taken
    BY <1>7, <1>10
  <2> QED BY <2>1, <2>2, <2>3, <2>4, <2>5, <1>5, <1>6 DEF Ends
<1>12. Links' /\ Gaps' /\ Lives'
  <2>1. Links'
    <3>1. \A p \in mHead .. mTail - 1 : p \in 1 .. Len(pages) /\ p + 1 \in 1 .. Len(pages)
      BY <1>10, Numbers
    <3> QED BY <3>1, <1>1, <1>6, <1>9 DEF Links
  <2>2. Gaps'
    BY <1>1, <1>6, <1>9, PageFacts DEF Gaps
  <2>3. Lives'
    BY <1>1, <1>6, <1>9, <1>10, Numbers DEF Lives
  <2> QED BY <2>1, <2>2, <2>3
<1>13. Contents'
  <2> SUFFICES ASSUME NEW p \in mHead .. mTail, NEW k \in Slot,
                      taken <= pages'[p].base + k,
                      pages'[p].base + k < Len(put')
               PROVE  pages'[p].mEvents[k] = put'[pages'[p].base + k + 1]
    BY <1>6, <1>7 DEF Contents
  <2>1. k \in Nat /\ k < EVENTS_PER_PAGE
    BY Numbers DEF Slot
  <2>2. /\ p \in 1 .. Len(pages) /\ pages[p].base \in Nat
        /\ pages[mTail].base \in Nat /\ mTail \in mHead .. mTail
    BY <1>1, <1>2, PageFacts
  <2>3. CASE p = mTail /\ k = mOffsetTail
    BY <2>3, <1>2, <1>7, <1>9, <1>10
  <2>4. CASE ~(p = mTail /\ k = mOffsetTail)
    <3>1. p = mTail \/ pages[mTail].base >= pages[p].base + EVENTS_PER_PAGE
      BY <2>2, <1>1, <1>10, Numbers DEF Gaps
    <3>2. pages[p].base + k < Len(put)
      <4>1. pages[p].base + k < Len(put) + 1 /\ Len(put) = pages[mTail].base + mOffsetTail
        BY <2>2, <1>7, <1>9, <1>10
      <4>2. Len(put) \in Nat /\ mOffsetTail \in Nat /\ EVENTS_PER_PAGE \in Nat
        BY Numbers
      <4>3. CASE p = mTail
        BY <4>1, <4>2, <4>3, <2>1, <2>2, <2>4
      <4>4. CASE p # mTail
        BY <4>1, <4>2, <4>4, <2>1, <2>2, <3>1
      <4> QED BY <4>3, <4>4
    <3>3. pages[p].mEvents[k] = put[pages[p].base + k + 1]
      BY <2>2, <3>2, <1>1, <1>9 DEF Contents
    <3>4. pages[p].base + k + 1 \in 1 .. Len(put)
      BY <2>1, <2>2, <3>2, Numbers
    <3> QED BY <2>2, <2>4, <3>3, <3>4, <1>7, <1>9
  <2> QED BY <2>3, <2>4
<1> QED
  BY <1>1, <1>6, <1>7, <1>8, <1>11, <1>12, <1>13, StoredFacts, Numbers DEF QInv

(* The event GetEvent reads is the oldest one not taken yet. *)
LEMMA GetEventReadsOldest ==
  ASSUME QInv, ~IsEmpty
  PROVE  /\ mHead # Null
         /\ taken < Len(put)
         /\ taken + 1 \in 1 .. Len(put)
         /\ pages[mHead].mEvents[mOffsetHead] = put[taken + 1]
<1>1. mHead # Null /\ Ends /\ Contents
  BY DEF IsEmpty, QInv
<1>2. taken < Len(put) /\ taken + 1 \in 1 .. Len(put)
  <2>1. taken # Len(put) /\ taken <= Len(put) /\ taken \in Nat /\ Len(put) \in Nat
    BY EmptyMeansAllTaken, Numbers DEF QInv
  <2> QED BY <2>1
<1>3. mHead \in mHead .. mTail /\ mOffsetHead \in Slot /\ pages[mHead].base \in Nat
  BY <1>1, PageFacts DEF QInv, TypeOK
<1>4. taken = pages[mHead].base + mOffsetHead /\ taken \in Nat
  BY <1>1, Numbers DEF Ends
<1>5. taken <= pages[mHead].base + mOffsetHead /\ pages[mHead].base + mOffsetHead < Len(put)
  BY <1>2, <1>4
<1>6. pages[mHead].mEvents[mOffsetHead] = put[pages[mHead].base + mOffsetHead + 1]
  BY <1>1, <1>3, <1>5 DEF Contents
<1> QED BY <1>1, <1>2, <1>4, <1>6

LEMMA GetEventKeepsQInv ==
  ASSUME QInv, NEW c \in Caller, GetEvent(c)
  PROVE  QInv'
<1> USE EventQueueConstants DEF Null
<1>1. TypeOK /\ mHead # 0 /\ Ends /\ Links /\ Gaps /\ Lives /\ Contents /\ ~IsEmpty
  BY GetEventReadsOldest DEF QInv, GetEvent
<1>2. /\ taken' = taken + 1 /\ put' = put /\ mTail' = mTail
      /\ mOffsetTail' = mOffsetTail
  BY DEF GetEvent
<1>3. taken' \in Nat /\ taken' <= Len(put) /\ taken < Len(put)
  BY <1>1, <1>2, GetEventReadsOldest, Numbers
<1>4. \A d \in Caller : at[d] # "waiting"
  BY <1>3, Numbers DEF QInv, Sleepers
<1>5. Sleepers' /\ at' \in [Caller -> {"idle", "waiting", "notified"}]
  BY <1>1, <1>4 DEF Sleepers, TypeOK, GetEvent
<1>6. rv' \in [Caller -> BOOLEAN]
  BY <1>1 DEF GetEvent, TypeOK
<1>7. result' \in [Caller -> Event \cup {NoEvent}]
  <2>1. put[taken + 1] \in Event
    BY <1>1, GetEventReadsOldest, ElementOfSeq DEF TypeOK
  <2>2. result' = [result EXCEPT ![c] = put[taken + 1]]
    BY <1>1, GetEventReadsOldest DEF GetEvent
  <2> QED BY <1>1, <2>1, <2>2 DEF TypeOK
<1>8. /\ mHead \in 1 .. Len(pages) /\ mTail \in 1 .. Len(pages) /\ mTail = Len(pages)
      /\ mHead \in 1 .. mTail
      /\ pages[mHead].base \in Nat /\ pages[mTail].base \in Nat
      /\ taken = pages[mHead].base + mOffsetHead
      /\ Len(put) = pages[mTail].base + mOffsetTail
      /\ pages[mTail].mNext = 0
      /\ pages[mHead] \in Page
  BY <1>1, PageFacts DEF Ends
<1>9. CASE mOffsetHead + 1 # EVENTS_PER_PAGE
  <2>1. mHead' = mHead /\ pages' = pages /\ mOffsetHead' = mOffsetHead + 1
    BY <1>9 DEF GetEvent
  <2>2. mOffsetHead' \in Slot
    BY <2>1, <1>9, Numbers DEF Slot
  <2>3. TypeOK'
    BY <1>1, <1>2, <1>3, <1>5, <1>6, <1>7, <2>1, <2>2 DEF TypeOK
  <2>4. taken' = pages[mHead].base + mOffsetHead'
    <3>1. \A b, k \in Nat : b + k + 1 = b + (k + 1)
      OBVIOUS
    <3> QED BY <3>1, <1>2, <1>8, <2>1, Numbers
  <2>5. Ends'
    BY <1>1, <1>2, <2>1, <2>4 DEF Ends
  <2>6. Links' /\ Gaps' /\ Lives'
    BY <1>1, <1>2, <2>1 DEF Links, Gaps, Lives
  <2>7. Contents'
    <3> SUFFICES ASSUME NEW p \in mHead .. mTail, NEW k \in Slot,
                        taken + 1 <= pages[p].base + k,
                        pages[p].base + k < Len(put)
                 PROVE  pages[p].mEvents[k] = put[pages[p].base + k + 1]
      BY <1>2, <2>1 DEF Contents
    <3>1. pages[p].base \in Nat /\ k \in Nat /\ taken \in Nat
      BY <1>1, PageFacts, Numbers
    <3>2. taken <= pages[p].base + k
      BY <3>1
    <3> QED BY <1>1, <3>2 DEF Contents
  <2> QED
    BY <1>1, <1>2, <1>3, <1>5, <2>1, <2>3, <2>5, <2>6, <2>7 DEF QInv
<1>10. CASE mOffsetHead + 1 = EVENTS_PER_PAGE
  <2> DEFINE freed == [pages[mHead] EXCEPT !.live = FALSE]
  <2>1. freed \in Page /\ ~freed.live
    BY <1>8, FreedPageFacts
  <2> HIDE DEF freed
  <2>2. pages' = [pages EXCEPT ![mHead] = freed] /\ mHead' = pages[mHead].mNext
        /\ mOffsetHead' = 0
    BY <1>10 DEF GetEvent, FreedPage, freed
  <2>3. /\ pages' \in Seq(Page) /\ Len(pages') = Len(pages)
        /\ \A p \in 1 .. Len(pages) : pages'[p] = IF p = mHead THEN freed ELSE pages[p]
    BY <1>1, <1>8, <2>1, <2>2, ExceptSeq DEF TypeOK
  <2>4. DOMAIN pages' = 1 .. Len(pages)
    BY <2>3, LenProperties
  <2>5. mOffsetHead' \in Slot
    BY <2>2, Numbers DEF Slot
  <2>6. taken + 1 = pages[mHead].base + EVENTS_PER_PAGE
    <3>1. \A b, k \in Nat : b + k + 1 = b + (k + 1)
      OBVIOUS
    <3> QED BY <3>1, <1>8, <1>10, Numbers
  <2>7. CASE mHead = mTail
    <3>1. mHead' = 0
      BY <2>2, <2>7, <1>8
    <3>2. TypeOK'
      BY <1>1, <1>2, <1>3, <1>5, <1>6, <1>7, <2>3, <2>5, <3>1 DEF TypeOK
    <3>3. taken' = Len(put)
      <4>1. mOffsetTail \in Nat /\ mOffsetTail <= EVENTS_PER_PAGE /\ EVENTS_PER_PAGE \in Nat
            /\ Len(put) \in Nat /\ taken \in Nat
        BY Numbers
      <4> QED BY <4>1, <1>2, <1>3, <1>8, <2>6, <2>7
    <3>4. \A p \in 1 .. Len(pages) : ~pages'[p].live
      BY <1>1, <1>8, <2>1, <2>3, <2>7, Numbers DEF Lives
    <3>5. Drained'
      BY <1>2, <2>4, <3>3, <3>4 DEF Drained
    <3> QED BY <1>2, <1>3, <1>5, <3>1, <3>2, <3>5 DEF QInv
  <2>8. CASE mHead # mTail
    <3>1. /\ mHead \in mHead .. mTail - 1 /\ mHead + 1 \in 1 .. mTail
          /\ mHead + 1 \in 1 .. Len(pages) /\ mHead + 1 # mHead /\ mHead + 1 # 0
      BY <1>8, <2>8, Numbers
    <3>2. mHead' = mHead + 1 /\ pages[mHead + 1].base = pages[mHead].base + EVENTS_PER_PAGE
      BY <1>1, <2>2, <3>1 DEF Links
    <3>3. TypeOK'
      BY <1>1, <1>2, <1>3, <1>5, <1>6, <1>7, <2>3, <2>5, <3>2 DEF TypeOK
    <3>4. \A p \in mHead + 1 .. mTail :
            p \in 1 .. Len(pages) /\ pages'[p] = pages[p] /\ p \in mHead .. mTail
      BY <1>8, <2>3, <3>1, Numbers
    <3>5. Ends'
      <4>1. taken' = pages'[mHead'].base + mOffsetHead'
        BY <1>2, <1>8, <2>2, <2>3, <2>6, <3>1, <3>2, Numbers
      <4>2. pages'[mTail] = pages[mTail]
        BY <1>8, <2>3, <2>8
      <4> QED BY <4>1, <4>2, <1>1, <1>2, <1>8, <2>3, <3>1, <3>2 DEF Ends
    <3>6. Links'
      <4>1. \A p \in mHead + 1 .. mTail - 1 :
              p \in mHead .. mTail - 1 /\ p \in mHead + 1 .. mTail
              /\ p + 1 \in mHead + 1 .. mTail
        BY <3>1, Numbers
      <4> QED BY <4>1, <1>1, <1>2, <3>2, <3>4 DEF Links
    <3>7. Gaps'
      BY <1>1, <1>2, <3>2, <3>4 DEF Gaps
    <3>8. Lives'
      <4> SUFFICES ASSUME NEW p \in 1 .. Len(pages)
                   PROVE  pages'[p].live <=> p \in mHead + 1 .. mTail
        BY <1>2, <2>4, <3>2 DEF Lives
      <4>1. pages[p].live <=> p \in mHead .. mTail
        BY <1>1, Numbers DEF Lives
      <4>2. p = mHead \/ (p \in mHead .. mTail <=> p \in mHead + 1 .. mTail)
        BY Numbers
      <4>3. mHead \notin mHead + 1 .. mTail
        BY Numbers
      <4> QED BY <4>1, <4>2, <4>3, <2>1, <2>3
    <3>9. Contents'
      <4> SUFFICES ASSUME NEW p \in mHead + 1 .. mTail, NEW k \in Slot,
                          taken + 1 <= pages'[p].base + k,
                          pages'[p].base + k < Len(put)
                   PROVE  pages'[p].mEvents[k] = put[pages'[p].base + k + 1]
        BY <1>2, <3>2 DEF Contents
      <4>1. /\ pages'[p] = pages[p] /\ p \in mHead .. mTail /\ pages[p].base \in Nat
            /\ k \in Nat /\ taken \in Nat
        BY <3>4, PageFacts, Numbers
      <4>2. taken <= pages[p].base + k
        BY <4>1
      <4> QED BY <1>1, <4>1, <4>2 DEF Contents
    <3> QED
      BY <1>2, <1>3, <1>5, <3>1, <3>2, <3>3, <3>5, <3>6, <3>7, <3>8, <3>9 DEF QInv
  <2> QED BY <2>7, <2>8
<1> QED BY <1>9, <1>10

(* The steps that leave the pages alone. *)
LEMMA PassiveStepsKeepQInv ==
  ASSUME QInv, NEW c \in Caller,
         \/ PutEventNoMemory(c) \/ GetEventNone(c)
         \/ GetEventWait(c) \/ HasPendingEvent(c)
  PROVE  QInv'
<1>1. UNCHANGED <<pageVars, put, taken>>
  BY DEF PutEventNoMemory, GetEventNone, GetEventWait, HasPendingEvent
<1>2. at' \in [Caller -> {"idle", "waiting", "notified"}]
  BY DEF QInv, TypeOK, PutEventNoMemory, GetEventNone, GetEventWait, HasPendingEvent
<1>3. result' \in [Caller -> Event \cup {NoEvent}]
  BY DEF QInv, TypeOK, PutEventNoMemory, GetEventNone, GetEventWait, HasPendingEvent
<1>4. rv' \in [Caller -> BOOLEAN]
  <2>1. IsEmpty \in BOOLEAN
    BY DEF IsEmpty
  <2> QED
    BY <2>1 DEF QInv, TypeOK, PutEventNoMemory, GetEventNone, GetEventWait, HasPendingEvent
<1>5. TypeOK'
  BY <1>1, <1>2, <1>3, <1>4 DEF QInv, TypeOK, pageVars
<1>6. Sleepers'
  BY <1>1, EmptyMeansAllTaken
     DEF QInv, TypeOK, Sleepers, PutEventNoMemory, GetEventNone, GetEventWait, HasPendingEvent
<1>7. (mHead = Null => Drained)' /\ (mHead # Null => Ends /\ Links /\ Gaps /\ Lives /\ Contents)'
  BY <1>1 DEF QInv, pageVars, Drained, Ends, Links, Gaps, Lives, Contents
<1> QED BY <1>1, <1>5, <1>6, <1>7 DEF QInv

LEMMA NextKeepsQInv == QInv /\ [Next]_vars => QInv'
<1> SUFFICES ASSUME QInv, [Next]_vars PROVE QInv'
  OBVIOUS
<1>1. CASE UNCHANGED vars
  BY <1>1 DEF vars, pageVars, QInv, TypeOK, Drained, Ends, Links, Gaps, Lives,
              Contents, Sleepers
<1>2. ASSUME NEW c \in Caller, NEW e \in Event, PutEvent(c, e) PROVE QInv'
  BY <1>2, PutInFirstPageKeepsQInv, PutInNewTailKeepsQInv, PutInTailKeepsQInv DEF PutEvent
<1>3. ASSUME NEW c \in Caller, GetEvent(c) PROVE QInv'
  BY <1>3, GetEventKeepsQInv
<1>4. ASSUME NEW c \in Caller,
             \/ PutEventNoMemory(c) \/ GetEventNone(c)
             \/ GetEventWait(c) \/ HasPendingEvent(c)
      PROVE  QInv'
  BY <1>4, PassiveStepsKeepQInv
<1> QED BY <1>1, <1>2, <1>3, <1>4 DEF Next

LEMMA QInvAlways == Spec => []QInv
BY InitQInv, NextKeepsQInv, PTL DEF Spec

(* The page list is well typed at every page size; in particular the read *)
(* offset never leaves the page it indexes.                               *)
THEOREM EventQueueTypeCorrect == Spec => []TypeOK
<1>1. QInv => TypeOK
  BY DEF QInv
<1> QED BY <1>1, QInvAlways, PTL

(* No wake-up is lost, whatever the number of threads. *)
THEOREM NoLostWakeup == Spec => []NoSleepWithPendingEvent
<1>1. QInv => NoSleepWithPendingEvent
  BY EmptyMeansAllTaken DEF QInv, Sleepers, NoSleepWithPendingEvent
<1> QED BY <1>1, QInvAlways, PTL

(* The linked list of pages is sound at every page size. *)
THEOREM PageListSound == Spec => []PagesLinked
<1>1. QInv => PagesLinked
  <2> SUFFICES ASSUME QInv PROVE PagesLinked
    OBVIOUS
  <2>1. CASE mHead = Null
    BY <2>1 DEF QInv, Drained, PagesLinked
  <2>2. CASE mHead # Null
    BY <2>2, Numbers, PageFacts DEF QInv, Ends, Links, Lives, PagesLinked
  <2> QED BY <2>1, <2>2
<1> QED BY <1>1, QInvAlways, PTL

(* Destroying an empty queue frees every page it owns. *)
THEOREM EmptyQueueLeaksNoPage == Spec => []EmptyOwnsOnePage
<1>1. QInv => EmptyOwnsOnePage
  <2> SUFFICES ASSUME QInv, IsEmpty, NEW p \in DOMAIN pages, pages[p].live
               PROVE  p = mHead
    BY DEF EmptyOwnsOnePage
  <2>1. mHead # Null /\ Lives
    BY DEF QInv, Drained
  <2>2. mHead = mTail /\ p \in mHead .. mTail
    BY <2>1 DEF IsEmpty, Lives
  <2> QED BY <2>2, Numbers
<1> QED BY <1>1, QInvAlways, PTL
--------------------------------------------------------------------------------
(* The abstract queue of the refinement mapping. *)
pending == SubSeq(put, taken + 1, Len(put))

LEMMA PendingFacts ==
  ASSUME QInv
  PROVE  /\ pending = <<>> <=> IsEmpty
         /\ ~IsEmpty => /\ Head(pending) = put[taken + 1]
                        /\ Tail(pending) = SubSeq(put, taken + 2, Len(put))
<1>1. put \in Seq(Event) /\ taken \in Nat /\ Len(put) \in Nat /\ taken <= Len(put)
  BY Numbers DEF QInv, TypeOK
<1>2. CASE IsEmpty
  <2>1. taken = Len(put)
    BY <1>2, EmptyMeansAllTaken
  <2> QED BY <1>1, <1>2, <2>1, SubSeqEmpty DEF pending
<1>3. CASE ~IsEmpty
  <2>1. taken + 1 \in 1 .. Len(put) /\ taken + 1 <= Len(put)
    BY <1>1, <1>3, GetEventReadsOldest
  <2>2. \A i \in taken + 1 .. Len(put) : put[i] \in Event
    BY <1>1, ElementOfSeq
  <2>3. Len(pending) = Len(put) - (taken + 1) + 1
    BY <1>1, <2>1, <2>2, SubSeqProperties DEF pending
  <2>4. Len(pending) # 0
    BY <1>1, <2>1, <2>3
  <2>5. pending # <<>>
    BY <2>4, EmptySeq
  <2>6. Len(put) \in taken + 1 .. Len(put) /\ taken + 1 + 1 = taken + 2
    BY <1>1, <2>1
  <2>7. Head(pending) = put[taken + 1] /\ Tail(pending) = SubSeq(put, taken + 2, Len(put))
    BY <1>1, <2>1, <2>6, HeadTailOfSubSeq DEF pending
  <2> QED BY <1>3, <2>5, <2>7
<1> QED BY <1>2, <1>3

LEMMA PendingAppend ==
  ASSUME QInv, NEW e \in Event
  PROVE  SubSeq(Append(put, e), taken + 1, Len(Append(put, e))) = Append(pending, e)
<1> DEFINE longer == Append(put, e)
<1>1. put \in Seq(Event) /\ taken \in Nat /\ Len(put) \in Nat /\ taken <= Len(put)
  BY Numbers DEF QInv, TypeOK
<1>2. /\ longer \in Seq(Event) /\ Len(longer) = Len(put) + 1
      /\ \A i \in 1 .. Len(put) : longer[i] = put[i]
      /\ longer[Len(put) + 1] = e
  BY <1>1, AppendProperties
<1> HIDE DEF longer
<1>3. \A i \in taken + 1 .. Len(put) : put[i] \in Event
  BY <1>1, ElementOfSeq
<1>4. /\ pending \in Seq(Event)
      /\ Len(pending) = Len(put) - taken
      /\ \A i \in 1 .. Len(put) - taken : pending[i] = put[taken + i]
  <2>1. /\ pending \in Seq(Event)
        /\ Len(pending) = IF taken + 1 <= Len(put) THEN Len(put) - (taken + 1) + 1 ELSE 0
        /\ \A i \in 1 .. Len(put) - (taken + 1) + 1 : pending[i] = put[taken + 1 + i - 1]
    BY <1>1, <1>3, SubSeqProperties DEF pending
  <2>2. Len(put) - (taken + 1) + 1 = Len(put) - taken
    BY <1>1
  <2>3. \A i \in 1 .. Len(put) - taken : taken + 1 + i - 1 = taken + i
    BY <1>1
  <2> QED BY <1>1, <2>1, <2>2, <2>3
<1>5. /\ Append(pending, e) \in Seq(Event)
      /\ Len(Append(pending, e)) = Len(put) - taken + 1
      /\ \A i \in 1 .. Len(put) - taken : Append(pending, e)[i] = put[taken + i]
      /\ Append(pending, e)[Len(put) - taken + 1] = e
  BY <1>4, AppendProperties
<1> DEFINE later == SubSeq(longer, taken + 1, Len(longer))
<1>6. \A i \in taken + 1 .. Len(longer) : longer[i] \in Event
  BY <1>1, <1>2, ElementOfSeq
<1>7. /\ later \in Seq(Event)
      /\ Len(later) = Len(put) - taken + 1
      /\ \A i \in 1 .. Len(put) - taken + 1 : later[i] = longer[taken + i]
  <2>1. /\ later \in Seq(Event)
        /\ Len(later) = IF taken + 1 <= Len(longer)
                         THEN Len(longer) - (taken + 1) + 1 ELSE 0
        /\ \A i \in 1 .. Len(longer) - (taken + 1) + 1 :
             later[i] = longer[taken + 1 + i - 1]
    BY <1>1, <1>2, <1>6, SubSeqProperties
  <2>2. Len(longer) - (taken + 1) + 1 = Len(put) - taken + 1 /\ taken + 1 <= Len(longer)
    BY <1>1, <1>2
  <2>3. \A i \in 1 .. Len(put) - taken + 1 : taken + 1 + i - 1 = taken + i
    BY <1>1
  <2> QED BY <2>1, <2>2, <2>3
<1> HIDE DEF later
<1>8. \A i \in 1 .. Len(put) - taken + 1 : later[i] = Append(pending, e)[i]
  <2> SUFFICES ASSUME NEW i \in 1 .. Len(put) - taken + 1
               PROVE  later[i] = Append(pending, e)[i]
    OBVIOUS
  <2>1. CASE i = Len(put) - taken + 1
    <3>1. taken + i = Len(put) + 1
      BY <1>1, <2>1
    <3> QED BY <2>1, <3>1, <1>2, <1>5, <1>7
  <2>2. CASE i # Len(put) - taken + 1
    <3>1. i \in 1 .. Len(put) - taken /\ taken + i \in 1 .. Len(put)
      BY <1>1, <2>2
    <3> QED BY <3>1, <1>2, <1>5, <1>7
  <2> QED BY <2>1, <2>2
<1> QED BY <1>5, <1>7, <1>8, SeqEqual DEF later, longer

(* One step of the paged queue is a step of the FIFO or changes nothing in it. *)
LEMMA StepRefinesFifo == QInv /\ [Next]_vars => [Fifo!Next]_Fifo!vars
<1> SUFFICES ASSUME QInv, [Next]_vars PROVE [Fifo!Next]_Fifo!vars
  OBVIOUS
<1>1. CASE UNCHANGED vars
  BY <1>1 DEF vars, Fifo!vars
<1>2. ASSUME NEW c \in Caller, NEW e \in Event, PutEvent(c, e) PROVE Fifo!Put(c, e)
  <2>1. at[c] = "idle" /\ Stored(c, e)
    BY <1>2 DEF PutEvent, PutInFirstPage, PutInNewTail, PutInTail
  <2>2. SubSeq(put', taken' + 1, Len(put')) = Append(pending, e)
    BY <2>1, PendingAppend DEF Stored
  <2> QED BY <2>1, <2>2 DEF Fifo!Put, Fifo!Awakened, Stored, NotifyAll, pending
<1>3. ASSUME NEW c \in Caller, GetEvent(c) PROVE Fifo!Take(c)
  <2>1. ~IsEmpty /\ at[c] \in {"idle", "notified"} /\ pending # <<>>
        /\ result' = [result EXCEPT ![c] = Head(pending)]
    BY <1>3, PendingFacts, GetEventReadsOldest DEF GetEvent
  <2>2. SubSeq(put', taken' + 1, Len(put')) = Tail(pending)
    <3>1. taken' = taken + 1 /\ put' = put /\ taken + 1 + 1 = taken + 2
      BY <1>3, Numbers DEF GetEvent
    <3> QED BY <2>1, <3>1, PendingFacts
  <2> QED BY <1>3, <2>1, <2>2 DEF Fifo!Take, GetEvent, pending
<1>4. ASSUME NEW c \in Caller, PutEventNoMemory(c) PROVE Fifo!PutRefused(c)
  BY <1>4 DEF Fifo!PutRefused, PutEventNoMemory
<1>5. ASSUME NEW c \in Caller, GetEventNone(c) PROVE Fifo!TakeNothing(c)
  BY <1>5, PendingFacts DEF Fifo!TakeNothing, GetEventNone, pending
<1>6. ASSUME NEW c \in Caller, GetEventWait(c) PROVE Fifo!Sleep(c)
  BY <1>6, PendingFacts DEF Fifo!Sleep, GetEventWait, pending
<1>7. ASSUME NEW c \in Caller, HasPendingEvent(c) PROVE Fifo!Peek(c)
  BY <1>7, PendingFacts DEF Fifo!Peek, HasPendingEvent, pending
<1> QED BY <1>1, <1>2, <1>3, <1>4, <1>5, <1>6, <1>7 DEF Next, Fifo!Next

(* The paged queue implements the FIFO for every page size, set of callers *)
(* and bound on the number of puts.                                        *)
THEOREM EventQueueImplementsFifo == Spec => ImplementsFifo
<1>1. Init => Fifo!Init
  BY SubSeqEmpty, EmptySeq DEF Init, Fifo!Init
<1> QED BY <1>1, QInvAlways, StepRefinesFifo, PTL DEF Spec, ImplementsFifo, Fifo!Spec
================================================================================
