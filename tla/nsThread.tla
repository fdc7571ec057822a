-------------------------------- MODULE nsThread --------------------------------
(***************************************************************************)
(* xpcom/threads/nsThread.{h,cpp}: threads with event queues, how they     *)
(* start, dispatch to one another, run nested event loops, and shut one    *)
(* another down.                                                           *)
(*                                                                         *)
(* Each thread has a call stack.  A frame names the function that is       *)
(* executing (fn) and where in it (at).  Client code runs in an "app"      *)
(* frame (the main program), in the frame of an event that is being run,   *)
(* or in a nested loop between two events.  It may dispatch, dispatch      *)
(* synchronously, create a thread, shut one down, or spin a nested loop    *)
(* over a queue of its own.  A function that waits does so by processing   *)
(* the thread's next events, so its frame stays below the frames of the    *)
(* events that run meanwhile.                                              *)
(*                                                                         *)
(* nsEventQueue is the FIFO that EventFifo states: a sequence.  A step is  *)
(* what happens inside one critical section of mLock, or what only the     *)
(* thread itself can see.                                                  *)
(***************************************************************************)
EXTENDS Naturals, Sequences

CONSTANTS Thread,      \* the nsThread objects
          Main,        \* the thread that InitCurrentThread wrapped
          NoThread,    \* a null pointer
          JoinFrom,    \* the kinds of client frames that call Shutdown
          Joinable,    \* the threads that client code shuts down
          Creator,     \* the threads whose code calls NewThread
          Filter,      \* the nsIThreadEventFilters: sets of accepted kinds
          MaxEvents,   \* bound: events dispatched by client code
          MaxPushes    \* bound: calls of PushEventQueue

ASSUME ThreadConstants == /\ Main \in Thread
                          /\ NoThread \notin Thread
                          /\ Creator \subseteq Thread
                          /\ MaxEvents \in Nat
                          /\ MaxPushes \in Nat

VARIABLES mEvents,           \* the chain of event queues, mEventsRoot first
          popped,            \* the queue PopEventQueue is emptying
          mEventsAreDoomed,  \* PutEvent fails from now on
          mThread,           \* the PRThread pointer is set
          mShutdownRequired,
          mShutdownContext,  \* the context's joiningThread, or NoThread
          shutdownAck,       \* the context's flag, by the thread shut down
          mInitialized,      \* the startup event's flag
          mSyncTask,         \* the sync wrappers whose task is not null
          stk,               \* the call stack of each thread, innermost last
          known,             \* the threads that NewThread has returned
          nEvents,           \* events client code has dispatched so far
          nPushes,           \* queues pushed so far
          begun,             \* history: how often each event's Run was called
          ran                \* history: events whose Run has returned

queueVars == <<mEvents, popped, mEventsAreDoomed>>
shutVars == <<mThread, mShutdownRequired, mShutdownContext, shutdownAck>>
histVars == <<nEvents, nPushes, begun, ran>>
vars == <<queueVars, shutVars, mInitialized, mSyncTask, stk, known, histVars>>

Kind == {"task", "sync", "shutdown", "ack", "startup"}
ASSUME FilterKinds == Filter \subseteq SUBSET Kind

EventId == 1 .. MaxEvents

(* An event: what it does, which client event it is, and a thread it needs *)
(* (the origin of a sync dispatch, the joining thread, the thread that is  *)
(* done).                                                                  *)
Event == [k: Kind, id: 0 .. MaxEvents, t: Thread]

(* nsChainedEventQueue.  The root has no filter: it accepts every kind. *)
ChainedQueue == [filter: SUBSET Kind, q: Seq(Event)]
Root == [filter |-> Kind, q |-> <<>>]

(* lvl is the length of the thread's chain while the frame is on top. *)
Fn == {"app", "ThreadFunc", "Run", "SyncRun", "Dispatch", "Shutdown", "Init",
       "EventLoop"}
At == {"start", "startup", "loop", "drain", "pending", "gone", "ack", "bye",
       "task", "reply", "test", "wait", "put", "join", "pop"}
Frame == [fn: Fn, at: At, id: 0 .. MaxEvents, t: Thread, lvl: Nat]

Top(t) == stk[t][Len(stk[t])]
Is(t, fn, at) == stk[t] # <<>> /\ Top(t).fn = fn /\ Top(t).at = at

(* The stack of t with its innermost frame moved on, removed, or covered. *)
Goto(t, at) == [stk EXCEPT ![t][Len(stk[t])].at = at]
Returned(t) == [stk EXCEPT ![t] = SubSeq(@, 1, Len(@) - 1)]
Call(t, fn, at, id, u, lvl) ==
  [stk EXCEPT ![t] = Append(@, [fn |-> fn, at |-> at, id |-> id, t |-> u, lvl |-> lvl])]

Init == /\ mEvents = [t \in Thread |-> <<Root>>]
        /\ popped = [t \in Thread |-> <<>>]
        /\ mEventsAreDoomed = [t \in Thread |-> FALSE]
        /\ mThread = [t \in Thread |-> t = Main]
        /\ mShutdownRequired = [t \in Thread |-> FALSE]
        /\ mShutdownContext = [t \in Thread |-> NoThread]
        /\ shutdownAck = [t \in Thread |-> FALSE]
        /\ mInitialized = [t \in Thread |-> FALSE]
        /\ mSyncTask = {}
        /\ stk = [t \in Thread |->
                    IF t = Main
                    THEN <<[fn |-> "app", at |-> "loop", id |-> 0, t |-> Main, lvl |-> 1]>>
                    ELSE <<>>]
        /\ known = {Main}
        /\ nEvents = 0
        /\ nPushes = 0
        /\ begun = [e \in EventId |-> 0]
        /\ ran = {}
--------------------------------------------------------------------------------
ShuttingDown(t) == mShutdownContext[t] # NoThread

(* t's innermost frame is client code that may call anything. *)
InClientCode(t) == \/ Is(t, "app", "loop") \/ Is(t, "EventLoop", "loop")
                   \/ Is(t, "Run", "task") \/ Is(t, "SyncRun", "task")

(* nsChainedEventQueue::PutEvent: the newest queue whose filter accepts. *)
Taker(chain, e) ==
  CHOOSE i \in DOMAIN chain :
    /\ e.k \in chain[i].filter
    /\ \A j \in DOMAIN chain : j > i => e.k \notin chain[j].filter

Put(u, e) == [mEvents EXCEPT ![u][Taker(mEvents[u], e)].q = Append(@, e)]

(* mLock is free: PopEventQueue holds it while it moves events. *)
Unlocked(u) == ~Is(u, "EventLoop", "pop")

(* Mutant: a doomed thread takes events all the same. *)
PutEventAnyway(u, e) == Unlocked(u) /\ mEvents' = Put(u, e)

(* nsThread::PutEvent.  A doomed thread rejects the event. *)
PutEvent(u, e) == /\ Unlocked(u)
                  /\ mEvents' = IF mEventsAreDoomed[u] THEN mEvents ELSE Put(u, e)

Newest(t) == mEvents[t][Len(mEvents[t])]
HasPendingEvent(t) == Newest(t).q # <<>>
NextEvent(t) == Head(Newest(t).q)
--------------------------------------------------------------------------------
(* What client code may do. *)

Dispatch(t, u) ==
  /\ InClientCode(t) /\ u \in known /\ nEvents < MaxEvents
  /\ nEvents' = nEvents + 1
  /\ PutEvent(u, [k |-> "task", id |-> nEvents + 1, t |-> t])
  /\ UNCHANGED <<popped, mEventsAreDoomed, shutVars, mInitialized, mSyncTask, stk, known,
                 nPushes, begun, ran>>

(* DISPATCH_SYNC; it returns at once when PutEvent fails. *)
DispatchSync(t, u) ==
  /\ InClientCode(t) /\ u \in known /\ nEvents < MaxEvents
  /\ nEvents' = nEvents + 1
  /\ PutEvent(u, [k |-> "sync", id |-> nEvents + 1, t |-> t])
  /\ IF mEventsAreDoomed[u]
     THEN UNCHANGED <<mSyncTask, stk>>
     ELSE /\ mSyncTask' = mSyncTask \cup {nEvents + 1}
          /\ stk' = Call(t, "Dispatch", "test", nEvents + 1, u, Top(t).lvl)
  /\ UNCHANGED <<popped, mEventsAreDoomed, shutVars, mInitialized, known, nPushes, begun, ran>>

(* NewThread and nsThread::Init up to PR_CreateThread. *)
NewThread(t, u) ==
  /\ InClientCode(t) /\ t \in Creator
  /\ u # Main /\ ~mShutdownRequired[u] /\ ~mThread[u] /\ stk[u] = <<>> /\ u \notin known
  /\ mShutdownRequired' = [mShutdownRequired EXCEPT ![u] = TRUE]
  /\ stk' = [Call(t, "Init", "put", 0, u, Top(t).lvl) EXCEPT
               ![u] = <<[fn |-> "ThreadFunc", at |-> "start", id |-> 0, t |-> u, lvl |-> 1]>>]
  /\ UNCHANGED <<queueVars, mThread, mShutdownContext, shutdownAck, mInitialized, mSyncTask,
                 known, histVars>>

(* nsThread::Shutdown up to the end of the critical section that claims u.  *)
(* Without mThread, or when somebody claimed it before, nothing happens.    *)
Claim(t, u) ==
  /\ mThread[u] /\ mShutdownRequired[u]
  /\ mShutdownRequired' = [mShutdownRequired EXCEPT ![u] = FALSE]
  /\ stk' = Call(t, "Shutdown", "put", 0, u, Top(t).lvl)
  /\ UNCHANGED <<queueVars, mThread, mShutdownContext, shutdownAck, mInitialized, mSyncTask,
                 known, histVars>>

Shutdown(t, u) ==
  /\ InClientCode(t) /\ Top(t).fn \in JoinFrom /\ u \in (known \cap Joinable) \ {t}
  /\ Claim(t, u)

(* A client that pushes a filtered queue and spins a nested loop over it. *)
PushEventQueue(t, f) ==
  /\ InClientCode(t) /\ nPushes < MaxPushes
  /\ nPushes' = nPushes + 1
  /\ mEvents' = [mEvents EXCEPT ![t] = Append(@, [filter |-> f, q |-> <<>>])]
  /\ stk' = Call(t, "EventLoop", "loop", 0, t, Top(t).lvl + 1)
  /\ UNCHANGED <<popped, mEventsAreDoomed, shutVars, mInitialized, mSyncTask, known, nEvents,
                 begun, ran>>

(* The nested loop is over: mEvents is switched back under the lock, ... *)
PopEventQueue(t) ==
  /\ Is(t, "EventLoop", "loop")
  /\ popped' = [popped EXCEPT ![t] = Newest(t).q]
  /\ mEvents' = [mEvents EXCEPT ![t] = SubSeq(@, 1, Len(@) - 1)]
  /\ stk' = Goto(t, "pop")
  /\ UNCHANGED <<mEventsAreDoomed, shutVars, mInitialized, mSyncTask, known, histVars>>

(* ... and what the popped queue still holds is put again, in order. *)
RepostEvent(t) ==
  /\ Is(t, "EventLoop", "pop") /\ popped[t] # <<>>
  /\ mEvents' = Put(t, Head(popped[t]))
  /\ popped' = [popped EXCEPT ![t] = Tail(@)]
  /\ UNCHANGED <<mEventsAreDoomed, shutVars, mInitialized, mSyncTask, stk, known, histVars>>

PopEventQueueDone(t) ==
  /\ Is(t, "EventLoop", "pop") /\ popped[t] = <<>>
  /\ stk' = Returned(t)
  /\ UNCHANGED <<queueVars, shutVars, mInitialized, mSyncTask, known, histVars>>
--------------------------------------------------------------------------------
(* nsThread::Init, after PR_CreateThread.  The startup event goes straight *)
(* into the queue, past the test of mEventsAreDoomed.                      *)
InitPutStartup(t) ==
  LET u == Top(t).t IN
  /\ Is(t, "Init", "put") /\ Unlocked(u)
  /\ mEvents' = Put(u, [k |-> "startup", id |-> 0, t |-> u])
  /\ stk' = Goto(t, "wait")
  /\ UNCHANGED <<popped, mEventsAreDoomed, shutVars, mInitialized, mSyncTask, known, histVars>>

(* startup->Wait() returns, and with it NewThread. *)
InitDone(t) ==
  /\ Is(t, "Init", "wait") /\ mInitialized[Top(t).t]
  /\ known' = known \cup {Top(t).t}
  /\ stk' = Returned(t)
  /\ UNCHANGED <<queueVars, shutVars, mInitialized, mSyncTask, histVars>>
--------------------------------------------------------------------------------
(* event->Run(), called by t's innermost frame, which then goes on at "at". *)
RunEvent(t, e, at) ==
  LET f == [fn |-> IF e.k = "task" THEN "Run" ELSE "SyncRun", at |-> "task",
            id |-> e.id, t |-> e.t, lvl |-> Top(t).lvl]
      runs == e.k = "task" \/ (e.k = "sync" /\ e.id \in mSyncTask)
  IN
  /\ stk' = [stk EXCEPT ![t] = [@ EXCEPT ![Len(@)].at = at] \o (IF runs THEN <<f>> ELSE <<>>)]
  /\ begun' = IF runs THEN [begun EXCEPT ![e.id] = @ + 1] ELSE begun
  /\ mShutdownContext' = IF e.k = "shutdown" THEN [mShutdownContext EXCEPT ![t] = e.t]
                                             ELSE mShutdownContext
  /\ shutdownAck' = IF e.k = "ack" THEN [shutdownAck EXCEPT ![e.t] = TRUE] ELSE shutdownAck
  /\ mInitialized' = IF e.k = "startup" THEN [mInitialized EXCEPT ![t] = TRUE] ELSE mInitialized

(* The newest queue's first event is taken out and run. *)
TakeAndRun(t, at) ==
  /\ HasPendingEvent(t)
  /\ mEvents' = [mEvents EXCEPT ![t][Len(mEvents[t])].q = Tail(@)]
  /\ RunEvent(t, NextEvent(t), at)
  /\ UNCHANGED <<popped, mEventsAreDoomed, mThread, mShutdownRequired, mSyncTask, known,
                 nEvents, nPushes, ran>>

(* nsThread::ProcessNextEvent, from each of the loops that call it. *)
ProcessNextEvent(t) ==
  \/ Is(t, "app", "loop") /\ TakeAndRun(t, "loop")
  \/ Is(t, "ThreadFunc", "loop") /\ ~ShuttingDown(t) /\ TakeAndRun(t, "loop")
  \/ Is(t, "ThreadFunc", "pending") /\ TakeAndRun(t, "pending")
  \/ Is(t, "EventLoop", "loop") /\ TakeAndRun(t, "loop")
  \/ Is(t, "Dispatch", "wait") /\ TakeAndRun(t, "test")
  \/ Is(t, "Shutdown", "wait") /\ ~shutdownAck[Top(t).t] /\ TakeAndRun(t, "wait")

(* The task of a normal event returns. *)
RunReturns(t) ==
  /\ Is(t, "Run", "task")
  /\ ran' = ran \cup {Top(t).id}
  /\ stk' = Returned(t)
  /\ UNCHANGED <<queueVars, shutVars, mInitialized, mSyncTask, known, nEvents, nPushes, begun>>

(* Mutant: mSyncTask is not cleared, and the reply finds a task to run. *)
SyncTaskKept(t) ==
  /\ Is(t, "SyncRun", "task")
  /\ ran' = ran \cup {Top(t).id}
  /\ stk' = Goto(t, "reply")
  /\ UNCHANGED <<queueVars, shutVars, mInitialized, mSyncTask, known, nEvents, nPushes, begun>>

(* nsThreadSyncDispatch::Run: the task returns and mSyncTask is cleared, ... *)
SyncTaskReturns(t) ==
  /\ Is(t, "SyncRun", "task")
  /\ ran' = ran \cup {Top(t).id}
  /\ mSyncTask' = mSyncTask \ {Top(t).id}
  /\ stk' = Goto(t, "reply")
  /\ UNCHANGED <<queueVars, shutVars, mInitialized, known, nEvents, nPushes, begun>>

(* Mutant: the origin is not woken. *)
SyncNoReply(t) ==
  /\ Is(t, "SyncRun", "reply")
  /\ stk' = Returned(t)
  /\ UNCHANGED <<queueVars, shutVars, mInitialized, mSyncTask, known, histVars>>

(* ... then the wrapper itself is dispatched back to wake the origin. *)
SyncReply(t) ==
  /\ Is(t, "SyncRun", "reply")
  /\ PutEvent(Top(t).t, [k |-> "sync", id |-> Top(t).id, t |-> Top(t).t])
  /\ stk' = Returned(t)
  /\ UNCHANGED <<popped, mEventsAreDoomed, shutVars, mInitialized, mSyncTask, known, histVars>>

(* Mutant: a thread that is shutting down gives up waiting. *)
DispatchSyncGivesUp(t) ==
  /\ Is(t, "Dispatch", "test")
  /\ stk' = IF Top(t).id \in mSyncTask /\ ~ShuttingDown(t) THEN Goto(t, "wait") ELSE Returned(t)
  /\ UNCHANGED <<queueVars, shutVars, mInitialized, mSyncTask, known, histVars>>

(* while (wrapper->IsPending()): the origin reads a flag that the target *)
(* clears at any time.                                                   *)
DispatchSyncTest(t) ==
  /\ Is(t, "Dispatch", "test")
  /\ stk' = IF Top(t).id \in mSyncTask THEN Goto(t, "wait") ELSE Returned(t)
  /\ UNCHANGED <<queueVars, shutVars, mInitialized, mSyncTask, known, histVars>>

(* A thread that is shutting down does not wait for events. *)
DispatchSyncNoWait(t) ==
  /\ Is(t, "Dispatch", "wait") /\ ShuttingDown(t) /\ ~HasPendingEvent(t)
  /\ stk' = Goto(t, "test")
  /\ UNCHANGED <<queueVars, shutVars, mInitialized, mSyncTask, known, histVars>>
--------------------------------------------------------------------------------
(* nsThread::Shutdown, after it claimed the thread. *)

(* Mutant: Shutdown returns as soon as it has posted its event. *)
ShutdownPostOnly(t) ==
  /\ Is(t, "Shutdown", "put")
  /\ PutEvent(Top(t).t, [k |-> "shutdown", id |-> 0, t |-> t])
  /\ stk' = Returned(t)
  /\ UNCHANGED <<popped, mEventsAreDoomed, shutVars, mInitialized, mSyncTask, known, histVars>>

ShutdownPost(t) ==
  /\ Is(t, "Shutdown", "put")
  /\ PutEvent(Top(t).t, [k |-> "shutdown", id |-> 0, t |-> t])
  /\ stk' = Goto(t, "wait")
  /\ UNCHANGED <<popped, mEventsAreDoomed, shutVars, mInitialized, mSyncTask, known, histVars>>

(* Mutant: the ACK is not waited for. *)
ShutdownNotAcked(t) ==
  /\ Is(t, "Shutdown", "wait")
  /\ stk' = Goto(t, "join")
  /\ UNCHANGED <<queueVars, shutVars, mInitialized, mSyncTask, known, histVars>>

ShutdownAcked(t) ==
  /\ Is(t, "Shutdown", "wait") /\ shutdownAck[Top(t).t]
  /\ stk' = Goto(t, "join")
  /\ UNCHANGED <<queueVars, shutVars, mInitialized, mSyncTask, known, histVars>>

(* PR_JoinThread returns once the thread has left ThreadFunc. *)
ShutdownJoin(t) ==
  /\ Is(t, "Shutdown", "join") /\ stk[Top(t).t] = <<>>
  /\ mThread' = [mThread EXCEPT ![Top(t).t] = FALSE]
  /\ stk' = Returned(t)
  /\ UNCHANGED <<queueVars, mShutdownRequired, mShutdownContext, shutdownAck, mInitialized,
                 mSyncTask, known, histVars>>
--------------------------------------------------------------------------------
(* nsThread::ThreadFunc, the steps between events. *)

ThreadStart(t) ==
  /\ Is(t, "ThreadFunc", "start")
  /\ mThread' = [mThread EXCEPT ![t] = TRUE]
  /\ stk' = Goto(t, "startup")
  /\ UNCHANGED <<queueVars, mShutdownRequired, mShutdownContext, shutdownAck, mInitialized,
                 mSyncTask, known, histVars>>

(* The first event is taken to be the startup event. *)
ThreadStartup(t) == Is(t, "ThreadFunc", "startup") /\ TakeAndRun(t, "loop")

LeaveLoop(t) ==
  /\ Is(t, "ThreadFunc", "loop") /\ ShuttingDown(t)
  /\ stk' = Goto(t, "drain")
  /\ UNCHANGED <<queueVars, shutVars, mInitialized, mSyncTask, known, histVars>>

(* Mutants: the thread leaves without looking at its queue, or without *)
(* closing it.                                                          *)
DoomUnseen(t) ==
  /\ Is(t, "ThreadFunc", "drain")
  /\ mEventsAreDoomed' = [mEventsAreDoomed EXCEPT ![t] = TRUE]
  /\ stk' = Goto(t, "gone")
  /\ UNCHANGED <<mEvents, popped, shutVars, mInitialized, mSyncTask, known, histVars>>

DoomForgotten(t) ==
  /\ Is(t, "ThreadFunc", "drain") /\ ~HasPendingEvent(t)
  /\ stk' = Goto(t, "gone")
  /\ UNCHANGED <<queueVars, shutVars, mInitialized, mSyncTask, known, histVars>>

(* Under mLock: the queue is empty and from now on stays so. *)
Doom(t) ==
  /\ Is(t, "ThreadFunc", "drain") /\ ~HasPendingEvent(t)
  /\ mEventsAreDoomed' = [mEventsAreDoomed EXCEPT ![t] = TRUE]
  /\ stk' = Goto(t, "gone")
  /\ UNCHANGED <<mEvents, popped, shutVars, mInitialized, mSyncTask, known, histVars>>

(* NS_ProcessPendingEvents is entered with an event pending and left with none. *)
DrainMore(t) ==
  /\ \/ Is(t, "ThreadFunc", "drain") /\ HasPendingEvent(t) /\ stk' = Goto(t, "pending")
     \/ Is(t, "ThreadFunc", "pending") /\ ~HasPendingEvent(t) /\ stk' = Goto(t, "drain")
  /\ UNCHANGED <<queueVars, shutVars, mInitialized, mSyncTask, known, histVars>>

Unregister(t) ==
  /\ Is(t, "ThreadFunc", "gone")
  /\ stk' = Goto(t, "ack")
  /\ UNCHANGED <<queueVars, shutVars, mInitialized, mSyncTask, known, histVars>>

(* Mutant: no ACK. *)
DispatchNoAck(t) ==
  /\ Is(t, "ThreadFunc", "ack")
  /\ stk' = Goto(t, "bye")
  /\ UNCHANGED <<queueVars, shutVars, mInitialized, mSyncTask, known, histVars>>

(* The ACK goes to the joining thread that the context names. *)
DispatchAck(t) ==
  /\ Is(t, "ThreadFunc", "ack")
  /\ PutEvent(mShutdownContext[t], [k |-> "ack", id |-> 0, t |-> t])
  /\ stk' = Goto(t, "bye")
  /\ UNCHANGED <<popped, mEventsAreDoomed, shutVars, mInitialized, mSyncTask, known, histVars>>

ThreadExit(t) ==
  /\ Is(t, "ThreadFunc", "bye")
  /\ stk' = Returned(t)
  /\ UNCHANGED <<queueVars, shutVars, mInitialized, mSyncTask, known, histVars>>
--------------------------------------------------------------------------------
ClientStep(t) == \/ \E u \in Thread : Dispatch(t, u)
                 \/ \E u \in Thread : DispatchSync(t, u)
                 \/ \E u \in Thread : NewThread(t, u)
                 \/ \E u \in Thread : Shutdown(t, u)
                 \/ \E f \in Filter : PushEventQueue(t, f)

ThreadStep(t) == \/ ProcessNextEvent(t)
                 \/ RunReturns(t)
                 \/ SyncTaskReturns(t) \/ SyncReply(t)
                 \/ DispatchSyncTest(t) \/ DispatchSyncNoWait(t)
                 \/ ShutdownPost(t) \/ ShutdownAcked(t) \/ ShutdownJoin(t)
                 \/ InitPutStartup(t) \/ InitDone(t)
                 \/ ThreadStart(t) \/ ThreadStartup(t)
                 \/ LeaveLoop(t) \/ Doom(t) \/ DrainMore(t)
                 \/ Unregister(t) \/ DispatchAck(t) \/ ThreadExit(t)
                 \/ RepostEvent(t) \/ PopEventQueueDone(t)

Next == \E t \in Thread : ClientStep(t) \/ ThreadStep(t) \/ PopEventQueue(t)

Spec == Init /\ [][Next]_vars

(* The scheduler runs every thread that can take a step, event handlers    *)
(* return, nested loops end, and the main program comes back to its event  *)
(* loop.                                                                   *)
FairSpec == Spec /\ \A t \in Thread : /\ WF_vars(ThreadStep(t))
                                      /\ WF_vars(PopEventQueue(t))
--------------------------------------------------------------------------------
(* The type invariant. *)
TypeOK ==
  /\ mEvents \in [Thread -> Seq(ChainedQueue)]
  /\ popped \in [Thread -> Seq(Event)]
  /\ mEventsAreDoomed \in [Thread -> BOOLEAN]
  /\ mThread \in [Thread -> BOOLEAN]
  /\ mShutdownRequired \in [Thread -> BOOLEAN]
  /\ mShutdownContext \in [Thread -> Thread \cup {NoThread}]
  /\ shutdownAck \in [Thread -> BOOLEAN]
  /\ mInitialized \in [Thread -> BOOLEAN]
  /\ mSyncTask \subseteq EventId
  /\ stk \in [Thread -> Seq(Frame)]
  /\ known \subseteq Thread
  /\ nEvents \in 0 .. MaxEvents
  /\ nPushes \in 0 .. MaxPushes
  /\ begun \in [EventId -> Nat]
  /\ ran \subseteq EventId

Frames(t) == {stk[t][i] : i \in DOMAIN stk[t]}
InShutdown(t, u) == \E f \in Frames(t) : f.fn = "Shutdown" /\ f.t = u

(* The key invariant of ThreadFunc: PutEvent never succeeds if the event   *)
(* would be left in the queue after the last call to                       *)
(* NS_ProcessPendingEvents.  (In states of the right types.)               *)
NoEventLeftBehind ==
  TypeOK /\ \A t \in Thread : mEventsAreDoomed[t] =>
    popped[t] = <<>> /\ \A i \in DOMAIN mEvents[t] : mEvents[t][i].q = <<>>

(* nsThreadShutdownContext lives in the frame of Shutdown, and the thread  *)
(* that is shut down and the ACK event hold raw pointers to it.  As long   *)
(* as either may use its pointer, that frame has not returned.             *)
ContextAlive ==
  \A t, j \in Thread :
    \/ mShutdownContext[t] = j /\ stk[t] # <<>>
    \/ \E i \in DOMAIN mEvents[j] : \E n \in DOMAIN mEvents[j][i].q :
         mEvents[j][i].q[n].k = "ack" /\ mEvents[j][i].q[n].t = t
    => InShutdown(j, t)

(* "Now, it should be safe to join without fear of dead-locking": once the *)
(* joining thread blocks in PR_JoinThread, which processes no events, the  *)
(* other thread has nothing to do that could wait for it; and whoever      *)
(* calls Shutdown, however the calls interleave, one of them at most gets  *)
(* past the claim.                                                         *)
SafeToJoin ==
  /\ \A t \in Thread : Is(t, "Shutdown", "join") =>
       LET u == Top(t).t IN stk[u] = <<>> \/ (Len(stk[u]) = 1 /\ Top(u).at = "bye")
  /\ \A t, u, v \in Thread : InShutdown(t, v) /\ InShutdown(u, v) => t = u

(* "When this function returns, the thread will be shutdown, and it will   *)
(* no longer be possible to dispatch events to the thread": a thread that  *)
(* was claimed and is in nobody's Shutdown any more has terminated and     *)
(* takes no events.                                                        *)
ShutDownForGood ==
  \A u \in known \ {Main} :
    (~mShutdownRequired[u] /\ ~\E t \in Thread : InShutdown(t, u))
      => mEventsAreDoomed[u] /\ stk[u] = <<>>

(* A synchronous dispatch that was accepted does not return before the     *)
(* task has: each time a Dispatch frame is left, its event has been run.   *)
SyncDispatchWaits ==
  [][\A t \in Thread :
       (Is(t, "Dispatch", "test") /\ Len(stk'[t]) < Len(stk[t])) => Top(t).id \in ran]_vars

(* Every thread keeps the promise of nsIEventTarget, filters, nested loops *)
(* and shutdown notwithstanding: it closes with nothing accepted waiting,  *)
(* and an event's Run is called once at most, also when PopEventQueue      *)
(* moves it and when a sync wrapper comes back to its origin as the reply. *)
WaitingOn(t) ==
  {e \in EventId :
     /\ begun[e] = 0
     /\ \/ \E i \in DOMAIN mEvents[t] : \E n \in DOMAIN mEvents[t][i].q : mEvents[t][i].q[n].id = e
        \/ \E n \in DOMAIN popped[t] : popped[t][n].id = e}

Target == INSTANCE EventTarget
            WITH waiting <- [t \in Thread |-> WaitingOn(t)],
                 closed <- {t \in Thread : mEventsAreDoomed[t]}

ImplementsTarget == Target!Spec

(* Every accepted event is eventually run to its end, also when its thread *)
(* is shut down, dispatches in circles, or waits in nested loops.          *)
AcceptedEventsRun ==
  \A e \in EventId : (\E t \in Thread : e \in WaitingOn(t)) ~> e \in ran

(* Shutdown returns, and it leaves the thread terminated. *)
ShutdownReturns ==
  \A t \in Thread : \A u \in Thread \ {t, Main} :
    InShutdown(t, u) ~> (~InShutdown(t, u) /\ stk[u] = <<>>)

(* A synchronous dispatch returns, even between threads that wait for each *)
(* other.                                                                  *)
SyncDispatchReturns ==
  \A t \in Thread : \A e \in EventId :
    (\E f \in Frames(t) : f.fn = "Dispatch" /\ f.id = e)
      ~> ~(\E f \in Frames(t) : f.fn = "Dispatch" /\ f.id = e)
================================================================================
