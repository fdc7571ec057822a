------------------------------ MODULE nsEventQueue ------------------------------
(***************************************************************************)
(* xpcom/threads/nsEventQueue.{h,cpp}: the event queue of a thread and of  *)
(* a thread pool.  Events are stored in fixed-size pages linked from mHead *)
(* to mTail; a page is allocated when the last one is full and freed when  *)
(* its last slot has been read.  Every method holds the queue's monitor    *)
(* for all of its work, so each is one step, except that mon.Wait() gives  *)
(* the monitor up: a caller that has to wait goes to sleep in one step and *)
(* looks at the queue again in another, after a NotifyAll.                 *)
(*                                                                         *)
(* A page's address is the position of its allocation; addresses are not   *)
(* reused, so mTail may dangle exactly when the code lets it.              *)
(***************************************************************************)
EXTENDS Naturals, Sequences

CONSTANTS Caller,            \* the threads that use the queue
          Event,             \* the nsIRunnable objects
          NoEvent,           \* the null nsIRunnable pointer
          EVENTS_PER_PAGE,   \* slots in a page (250 in the code)
          MaxPuts            \* bound: how many puts succeed in a behaviour

ASSUME EventQueueConstants == /\ EVENTS_PER_PAGE \in Nat \ {0}
                              /\ MaxPuts \in Nat
                              /\ NoEvent \notin Event

VARIABLES pages,        \* every page ever allocated, by address
          mHead,        \* address of the page to read from, or Null
          mTail,        \* address of the page to write to, or garbage
          mOffsetHead,  \* slot of mHead to read next
          mOffsetTail,  \* slot of mTail to write next
          at,           \* where each caller is: "idle", "waiting", "notified"
          result,       \* the last *result of each caller's GetEvent
          rv,           \* the last PRBool returned to each caller
          put,          \* history: the events stored so far, in order
          taken         \* history: how many of them have been returned

pageVars == <<pages, mHead, mTail, mOffsetHead, mOffsetTail>>
vars == <<pageVars, at, result, rv, put, taken>>

Null == 0

Slot == 0 .. EVENTS_PER_PAGE - 1

(* "base" is history: how many events were stored before the page's slot 0. *)
Page == [mNext: Nat, mEvents: [Slot -> Event \cup {NoEvent}],
         live: BOOLEAN, base: Nat]

(* A zeroed page whose slot 0 then takes the event it was allocated for. *)
NewPage(e) == [mNext |-> Null,
               mEvents |-> [s \in Slot |-> IF s = 0 THEN e ELSE NoEvent],
               live |-> TRUE, base |-> Len(put)]

(* Mutant: the page that was read to its end is not freed. *)
KeptPage(p) == pages[p]

FreedPage(p) == [pages[p] EXCEPT !.live = FALSE]

(* Mutant: the offsets are compared, the pages are not. *)
IsEmptyByOffset == mHead = Null \/ mOffsetHead = mOffsetTail

IsEmpty == mHead = Null \/ (mHead = mTail /\ mOffsetHead = mOffsetTail)

NotifyAll == [c \in Caller |-> IF at[c] = "waiting" THEN "notified" ELSE at[c]]

Init == /\ pages = <<>>
        /\ mHead = Null
        /\ mTail = Null
        /\ mOffsetHead = 0
        /\ mOffsetTail = 0
        /\ at = [c \in Caller |-> "idle"]
        /\ result = [c \in Caller |-> NoEvent]
        /\ rv = [c \in Caller |-> FALSE]
        /\ put = <<>>
        /\ taken = 0
--------------------------------------------------------------------------------
(* Mutant: the put does not wake the threads that wait. *)
StoredSilently(c, e) == /\ put' = Append(put, e)
                        /\ rv' = [rv EXCEPT ![c] = TRUE]
                        /\ UNCHANGED <<at, result, taken>>

(* The common end of every successful put. *)
Stored(c, e) == /\ put' = Append(put, e)
                /\ at' = NotifyAll
                /\ rv' = [rv EXCEPT ![c] = TRUE]
                /\ UNCHANGED <<result, taken>>

(* No page at all: the new page becomes head and tail. *)
PutInFirstPage(c, e) ==
  /\ mHead = Null
  /\ pages' = Append(pages, NewPage(e))
  /\ mHead' = Len(pages) + 1
  /\ mTail' = Len(pages) + 1
  /\ mOffsetHead' = 0
  /\ mOffsetTail' = 1
  /\ Stored(c, e)

(* Mutant: the new page is not linked behind the full one. *)
PutInUnlinkedTail(c, e) ==
  /\ mHead # Null
  /\ mOffsetTail = EVENTS_PER_PAGE
  /\ pages' = Append(pages, NewPage(e))
  /\ mTail' = Len(pages) + 1
  /\ mOffsetTail' = 1
  /\ Stored(c, e)
  /\ UNCHANGED <<mHead, mOffsetHead>>

(* The tail page is full: a new page is linked behind it. *)
PutInNewTail(c, e) ==
  /\ mHead # Null
  /\ mOffsetTail = EVENTS_PER_PAGE
  /\ pages' = Append([pages EXCEPT ![mTail].mNext = Len(pages) + 1], NewPage(e))
  /\ mTail' = Len(pages) + 1
  /\ mOffsetTail' = 1
  /\ Stored(c, e)
  /\ UNCHANGED <<mHead, mOffsetHead>>

PutInTail(c, e) ==
  /\ mHead # Null
  /\ mOffsetTail # EVENTS_PER_PAGE
  /\ pages' = [pages EXCEPT ![mTail].mEvents[mOffsetTail] = e]
  /\ mOffsetTail' = mOffsetTail + 1
  /\ Stored(c, e)
  /\ UNCHANGED <<mHead, mTail, mOffsetHead>>

PutEvent(c, e) ==
  /\ at[c] = "idle"
  /\ Len(put) < MaxPuts
  /\ \/ PutInFirstPage(c, e)
     \/ PutInNewTail(c, e)
     \/ PutInTail(c, e)

(* NewPage returns null: nothing is stored and PR_FALSE is returned. *)
PutEventNoMemory(c) ==
  /\ at[c] = "idle"
  /\ mHead = Null \/ mOffsetTail = EVENTS_PER_PAGE
  /\ rv' = [rv EXCEPT ![c] = FALSE]
  /\ UNCHANGED <<pageVars, at, result, put, taken>>

(* Mutant: the end of the page is noticed one slot too late. *)
GetEventPastPage(c) ==
  /\ at[c] \in {"idle", "notified"}
  /\ ~IsEmpty
  /\ result' = [result EXCEPT ![c] = pages[mHead].mEvents[mOffsetHead]]
  /\ mOffsetHead' = mOffsetHead + 1
  /\ rv' = [rv EXCEPT ![c] = TRUE]
  /\ at' = [at EXCEPT ![c] = "idle"]
  /\ taken' = taken + 1
  /\ UNCHANGED <<pages, mHead, mTail, mOffsetTail, put>>

(* GetEvent with something to return; the caller may have waited for it. *)
GetEvent(c) ==
  /\ at[c] \in {"idle", "notified"}
  /\ ~IsEmpty
  /\ result' = [result EXCEPT ![c] = pages[mHead].mEvents[mOffsetHead]]
  /\ IF mOffsetHead + 1 = EVENTS_PER_PAGE
     THEN /\ mHead' = pages[mHead].mNext
          /\ pages' = [pages EXCEPT ![mHead] = FreedPage(mHead)]
          /\ mOffsetHead' = 0
     ELSE /\ mOffsetHead' = mOffsetHead + 1
          /\ UNCHANGED <<mHead, pages>>
  /\ rv' = [rv EXCEPT ![c] = TRUE]
  /\ at' = [at EXCEPT ![c] = "idle"]
  /\ taken' = taken + 1
  /\ UNCHANGED <<mTail, mOffsetTail, put>>

(* GetEvent(PR_FALSE, result) on an empty queue. *)
GetEventNone(c) ==
  /\ at[c] = "idle"
  /\ IsEmpty
  /\ result' = [result EXCEPT ![c] = NoEvent]
  /\ rv' = [rv EXCEPT ![c] = FALSE]
  /\ UNCHANGED <<pageVars, at, put, taken>>

(* GetEvent(PR_TRUE, result) on an empty queue: mon.Wait(), again and again. *)
GetEventWait(c) ==
  /\ at[c] \in {"idle", "notified"}
  /\ IsEmpty
  /\ at' = [at EXCEPT ![c] = "waiting"]
  /\ UNCHANGED <<pageVars, result, rv, put, taken>>

(* GetEvent(PR_FALSE, nsnull): only tells whether an event is pending. *)
HasPendingEvent(c) ==
  /\ at[c] = "idle"
  /\ rv' = [rv EXCEPT ![c] = ~IsEmpty]
  /\ UNCHANGED <<pageVars, at, result, put, taken>>

Next == \E c \in Caller :
          \/ \E e \in Event : PutEvent(c, e)
          \/ PutEventNoMemory(c)
          \/ GetEvent(c)
          \/ GetEventNone(c)
          \/ GetEventWait(c)
          \/ HasPendingEvent(c)

Spec == Init /\ [][Next]_vars

(* A woken thread gets the monitor back and runs its loop once more. *)
Recheck(c) == at[c] = "notified" /\ (GetEvent(c) \/ GetEventWait(c))

FairSpec == Spec /\ \A c \in Caller : WF_vars(Recheck(c))
--------------------------------------------------------------------------------
(* The type invariant: offsets stay within a page. *)
TypeOK ==
  /\ pages \in Seq(Page)
  /\ mHead \in Nat
  /\ mTail \in Nat
  /\ mOffsetHead \in Slot
  /\ mOffsetTail \in 0 .. EVENTS_PER_PAGE
  /\ at \in [Caller -> {"idle", "waiting", "notified"}]
  /\ result \in [Caller -> Event \cup {NoEvent}]
  /\ rv \in [Caller -> BOOLEAN]
  /\ put \in Seq(Event)
  /\ taken \in Nat

(* No lost wake-up: a caller sleeps in mon.Wait() only while the queue is  *)
(* empty.  PutEvent stores and notifies inside one critical section; a put *)
(* that did not notify would leave a thread asleep with work pending.      *)
NoSleepWithPendingEvent == (\E c \in Caller : at[c] = "waiting") => IsEmpty

(* The linked list is sound whenever it is used: mHead and mTail point to  *)
(* allocated pages, every allocated page lies between them in link order,  *)
(* and only the last link is null.  After the last slot of the last page   *)
(* is read mTail dangles; IsEmpty and PutEvent must not touch it then.     *)
PagesLinked ==
  IF mHead = Null
  THEN \A p \in DOMAIN pages : ~pages[p].live
  ELSE /\ mHead \in 1 .. mTail
       /\ mTail \in DOMAIN pages
       /\ \A p \in DOMAIN pages : pages[p].live <=> p \in mHead .. mTail
       /\ \A p \in mHead .. mTail - 1 : pages[p].mNext = p + 1
       /\ pages[mTail].mNext = Null

(* ~nsEventQueue frees mHead only.  That is enough: an empty queue owns at *)
(* most one page, so destroying an empty queue leaks none.                 *)
EmptyOwnsOnePage ==
  IsEmpty => \A p \in DOMAIN pages : pages[p].live => p = mHead

(* The paged queue implements the FIFO: every GetEvent returns the oldest  *)
(* event not returned yet, it finds the queue empty exactly when all have  *)
(* been returned, and page boundaries, page allocation failures and the    *)
(* dangling tail are invisible.                                            *)
Fifo == INSTANCE EventFifo
          WITH queue <- SubSeq(put, taken + 1, Len(put))

ImplementsFifo == Fifo!Spec

(* A blocked caller and a pending event do not stay together: while some    *)
(* thread is inside GetEvent(PR_TRUE) and an event is pending, one more event *)
(* is eventually taken, by that thread or by one that overtook it.            *)
BlockedCallerServed ==
  \A n \in 0 .. MaxPuts - 1 :
    (taken = n /\ ~IsEmpty /\ \E c \in Caller : at[c] # "idle") ~> taken > n
================================================================================
