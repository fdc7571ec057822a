------------------------------ MODULE nsThreadPool ------------------------------
(***************************************************************************)
(* xpcom/threads/nsThreadPool.cpp: a queue of events served by a varying   *)
(* number of worker threads.  The monitor of the event queue protects the  *)
(* pool; each critical section is one step, and what PutEvent, Run and     *)
(* Shutdown do between their critical sections interleaves with everything *)
(* else.                                                                   *)
(*                                                                         *)
(* A worker is an nsThread (module nsThread) reduced to what the pool uses *)
(* of it: it runs what it is given, and once some thread has called        *)
(* Shutdown on it, it terminates when it has nothing left to run.  The     *)
(* array mThreads is a set: no decision depends on its order.              *)
(***************************************************************************)
EXTENDS Naturals, Sequences, FiniteSets

CONSTANTS Dispatcher,        \* client threads that dispatch to the pool
          Worker,            \* nsThread objects the pool may create
          NoWorker,          \* a null nsIThread pointer
          ThreadLimits,      \* the values SetThreadLimit is called with
          IdleLimits,        \* the values SetIdleThreadLimit is called with
          InitThreadLimit,   \* mThreadLimit at first (4 in the code)
          InitIdleLimit,     \* mIdleThreadLimit at first (1 in the code)
          NewThreadMayFail,  \* nsThreadManager::NewThread can return an error
          RacyShutdown,      \* Shutdown is called while a dispatch is under way
          MaxEvents,         \* bound: events dispatched
          MaxSets            \* bound: calls of the limits' setters

ASSUME PoolConstants == /\ NoWorker \notin Worker
                        /\ InitThreadLimit \in Nat \ {0}
                        /\ InitIdleLimit \in 0 .. InitThreadLimit
                        /\ ThreadLimits \subseteq Nat
                        /\ IdleLimits \subseteq Nat
                        /\ NewThreadMayFail \in BOOLEAN
                        /\ RacyShutdown \in BOOLEAN
                        /\ MaxEvents \in Nat
                        /\ MaxSets \in Nat

VARIABLES mEvents,           \* pending events, oldest first
          mThreads,          \* the workers of the pool
          mThreadLimit, mIdleThreadLimit,
          mIdleCount,
          mShutdown,
          mListener,         \* a listener is set
          dpc, dthread, dev, dsync,  \* each Dispatch call: where it is, the
                             \* thread it made, its event, DISPATCH_SYNC
          wpc,               \* each worker: where it is
          wasIdle,           \* Run's local variable
          current,           \* the event a worker is running, or 0
          onExit,            \* Run's shutdownThreadOnExit
          listener,          \* Run's listener: "none", "created" or "gone"
          joined,            \* how often Shutdown was called on a worker
          mainQ,             \* workers whose Shutdown was posted to the main thread
          owner,             \* where nsThreadPool::Shutdown is
          doomed,            \* Shutdown's local array of threads
          nEvents, nSets,    \* bounded counters
          ran                \* history: the events run to their end

limitVars == <<mThreadLimit, mIdleThreadLimit, nSets>>
callVars == <<dpc, dthread, dev, dsync>>
workVars == <<wpc, wasIdle, current, onExit, listener>>
joinVars == <<joined, mainQ, owner, doomed>>
vars == <<mEvents, mThreads, limitVars, mIdleCount, mShutdown, mListener, callVars,
          workVars, joinVars, nEvents, ran>>

EventId == 1 .. MaxEvents

Init ==
  /\ mEvents = <<>> /\ mThreads = {}
  /\ mThreadLimit = InitThreadLimit /\ mIdleThreadLimit = InitIdleLimit /\ nSets = 0
  /\ mIdleCount = 0 /\ mShutdown = FALSE /\ mListener = FALSE
  /\ dpc = [d \in Dispatcher |-> "idle"] /\ dthread = [d \in Dispatcher |-> NoWorker]
  /\ dev = [d \in Dispatcher |-> 0] /\ dsync = [d \in Dispatcher |-> FALSE]
  /\ wpc = [w \in Worker |-> "none"] /\ wasIdle = [w \in Worker |-> FALSE]
  /\ current = [w \in Worker |-> 0] /\ onExit = [w \in Worker |-> FALSE]
  /\ listener = [w \in Worker |-> "none"]
  /\ joined = [w \in Worker |-> 0] /\ mainQ = {} /\ owner = "idle" /\ doomed = {}
  /\ nEvents = 0 /\ ran = {}

NotifyAll == [w \in Worker |-> IF wpc[w] = "waiting" THEN "notified" ELSE wpc[w]]

(* thread->Shutdown(): only the first call has an effect on the worker. *)
JoinCalled(w) == [joined EXCEPT ![w] = @ + 1]
--------------------------------------------------------------------------------
(* nsThreadPool::Dispatch and PutEvent *)

(* mShutdown is read without the monitor. *)
Dispatch(d, sync) ==
  /\ dpc[d] = "idle" /\ nEvents < MaxEvents
  /\ ~mShutdown
  /\ nEvents' = nEvents + 1
  /\ dpc' = [dpc EXCEPT ![d] = "put"]
  /\ dev' = [dev EXCEPT ![d] = nEvents + 1]
  /\ dsync' = [dsync EXCEPT ![d] = sync]
  /\ UNCHANGED <<mEvents, mThreads, limitVars, mIdleCount, mShutdown, mListener, dthread,
                 workVars, joinVars, ran>>

(* Where a call of Dispatch goes when PutEvent has returned, whatever it *)
(* returned.                                                             *)
AfterPut(d) == IF dsync[d] THEN "sync" ELSE "idle"

SpawnNeeded == mIdleCount = 0 /\ Cardinality(mThreads) < mThreadLimit

(* Mutant: waiting workers are not told of the event. *)
PutEventSilently(d) ==
  /\ dpc[d] = "put"
  /\ mEvents' = Append(mEvents, dev[d])
  /\ dpc' = [dpc EXCEPT ![d] = IF SpawnNeeded THEN "spawn" ELSE AfterPut(d)]
  /\ UNCHANGED <<mThreads, limitVars, mIdleCount, mShutdown, mListener, dthread, dev, dsync,
                 workVars, joinVars, nEvents, ran>>

PutEvent(d) ==
  /\ dpc[d] = "put"
  /\ mEvents' = Append(mEvents, dev[d])
  /\ wpc' = NotifyAll
  /\ dpc' = [dpc EXCEPT ![d] = IF SpawnNeeded THEN "spawn" ELSE AfterPut(d)]
  /\ UNCHANGED <<mThreads, limitVars, mIdleCount, mShutdown, mListener, dthread, dev, dsync,
                 wasIdle, current, onExit, listener, joinVars, nEvents, ran>>

NewThread(d) ==
  /\ dpc[d] = "spawn"
  /\ \E w \in Worker :
       /\ wpc[w] = "none"
       /\ wpc' = [wpc EXCEPT ![w] = "fresh"]
       /\ dthread' = [dthread EXCEPT ![d] = w]
  /\ dpc' = [dpc EXCEPT ![d] = "add"]
  /\ UNCHANGED <<mEvents, mThreads, limitVars, mIdleCount, mShutdown, mListener, dev, dsync,
                 wasIdle, current, onExit, listener, joinVars, nEvents, ran>>

(* PutEvent returns an error, which Dispatch drops. *)
NewThreadFails(d) ==
  /\ dpc[d] = "spawn" /\ NewThreadMayFail
  /\ dpc' = [dpc EXCEPT ![d] = AfterPut(d)]
  /\ UNCHANGED <<mEvents, mThreads, limitVars, mIdleCount, mShutdown, mListener, dthread, dev,
                 dsync, workVars, joinVars, nEvents, ran>>

(* Others may have added threads meanwhile: the limit is checked again. *)
AddThread(d) ==
  /\ dpc[d] = "add"
  /\ IF Cardinality(mThreads) < mThreadLimit
     THEN mThreads' = mThreads \cup {dthread[d]} /\ dpc' = [dpc EXCEPT ![d] = "start"]
     ELSE UNCHANGED mThreads /\ dpc' = [dpc EXCEPT ![d] = "kill"]
  /\ UNCHANGED <<mEvents, limitVars, mIdleCount, mShutdown, mListener, dthread, dev, dsync,
                 workVars, joinVars, nEvents, ran>>

(* thread->Dispatch(this): a thread that is down already rejects it. *)
StartThread(d) ==
  /\ dpc[d] = "start"
  /\ wpc' = IF wpc[dthread[d]] = "fresh" THEN [wpc EXCEPT ![dthread[d]] = "queued"] ELSE wpc
  /\ dpc' = [dpc EXCEPT ![d] = AfterPut(d)]
  /\ dthread' = [dthread EXCEPT ![d] = NoWorker]
  /\ UNCHANGED <<mEvents, mThreads, limitVars, mIdleCount, mShutdown, mListener, dev, dsync,
                 wasIdle, current, onExit, listener, joinVars, nEvents, ran>>

(* The surplus thread is shut down by the thread that made it. *)
KillThread(d) ==
  /\ \/ /\ dpc[d] = "kill"
        /\ joined' = JoinCalled(dthread[d])
        /\ dpc' = [dpc EXCEPT ![d] = "killing"]
        /\ UNCHANGED dthread
     \/ /\ dpc[d] = "killing" /\ wpc[dthread[d]] = "down"
        /\ dpc' = [dpc EXCEPT ![d] = AfterPut(d)]
        /\ dthread' = [dthread EXCEPT ![d] = NoWorker]
        /\ UNCHANGED joined
  /\ UNCHANGED <<mEvents, mThreads, limitVars, mIdleCount, mShutdown, mListener, dev, dsync,
                 workVars, mainQ, owner, doomed, nEvents, ran>>

(* while (wrapper->IsPending()) NS_ProcessNextEvent(thread) *)
SyncDone(d) ==
  /\ dpc[d] = "sync" /\ dev[d] \in ran
  /\ dpc' = [dpc EXCEPT ![d] = "idle"]
  /\ UNCHANGED <<mEvents, mThreads, limitVars, mIdleCount, mShutdown, mListener, dthread, dev,
                 dsync, workVars, joinVars, nEvents, ran>>
--------------------------------------------------------------------------------
(* nsThreadPool::Run *)

RunBegins(w) ==
  /\ wpc[w] = "queued"
  /\ wpc' = [wpc EXCEPT ![w] = "loop"]
  /\ listener' = [listener EXCEPT ![w] = IF mListener THEN "created" ELSE "none"]
  /\ UNCHANGED <<mEvents, mThreads, limitVars, mIdleCount, mShutdown, mListener, callVars,
                 wasIdle, current, onExit, joinVars, nEvents, ran>>

(* A worker inside the monitor: at the top of the loop, or back from Wait. *)
InMonitor(w) == wpc[w] \in {"loop", "notified", "late"}

(* Mutant: a worker that stops being idle is still counted. *)
TakeEventStillIdle(w) ==
  /\ InMonitor(w) /\ mEvents # <<>>
  /\ current' = [current EXCEPT ![w] = Head(mEvents)]
  /\ mEvents' = Tail(mEvents)
  /\ wasIdle' = [wasIdle EXCEPT ![w] = FALSE]
  /\ wpc' = [wpc EXCEPT ![w] = "running"]
  /\ UNCHANGED <<mThreads, limitVars, mIdleCount, mShutdown, mListener, callVars, onExit,
                 listener, joinVars, nEvents, ran>>

TakeEvent(w) ==
  /\ InMonitor(w) /\ mEvents # <<>>
  /\ current' = [current EXCEPT ![w] = Head(mEvents)]
  /\ mEvents' = Tail(mEvents)
  /\ mIdleCount' = IF wasIdle[w] THEN mIdleCount - 1 ELSE mIdleCount
  /\ wasIdle' = [wasIdle EXCEPT ![w] = FALSE]
  /\ wpc' = [wpc EXCEPT ![w] = "running"]
  /\ UNCHANGED <<mThreads, limitVars, mShutdown, mListener, callVars, onExit, listener,
                 joinVars, nEvents, ran>>

EventReturns(w) ==
  /\ wpc[w] = "running"
  /\ ran' = ran \cup {current[w]}
  /\ current' = [current EXCEPT ![w] = 0]
  /\ wpc' = [wpc EXCEPT ![w] = "loop"]
  /\ UNCHANGED <<mEvents, mThreads, limitVars, mIdleCount, mShutdown, mListener, callVars,
                 wasIdle, onExit, listener, joinVars, nEvents>>

(* With nothing pending: the pool is shut down, there are too many idle    *)
(* threads, this one has been idle for too long, or it would be one more   *)
(* than allowed.                                                           *)
MustExit(w) == \/ mShutdown
               \/ wasIdle[w] /\ (mIdleCount > mIdleThreadLimit \/ wpc[w] = "late")
               \/ ~wasIdle[w] /\ mIdleCount = mIdleThreadLimit

Exit(w) ==
  /\ InMonitor(w) /\ mEvents = <<>> /\ MustExit(w)
  /\ mIdleCount' = IF wasIdle[w] THEN mIdleCount - 1 ELSE mIdleCount
  /\ wasIdle' = [wasIdle EXCEPT ![w] = FALSE]
  /\ onExit' = [onExit EXCEPT ![w] = w \in mThreads]
  /\ mThreads' = mThreads \ {w}
  /\ wpc' = [wpc EXCEPT ![w] = "leaving"]
  /\ UNCHANGED <<mEvents, limitVars, mShutdown, mListener, callVars, current, listener,
                 joinVars, nEvents, ran>>

Wait(w) ==
  /\ InMonitor(w) /\ mEvents = <<>> /\ ~MustExit(w)
  /\ mIdleCount' = IF wasIdle[w] THEN mIdleCount ELSE mIdleCount + 1
  /\ wasIdle' = [wasIdle EXCEPT ![w] = TRUE]
  /\ wpc' = [wpc EXCEPT ![w] = "waiting"]
  /\ UNCHANGED <<mEvents, mThreads, limitVars, mShutdown, mListener, callVars, current,
                 onExit, listener, joinVars, nEvents, ran>>

(* mon.Wait(delta) times out: the thread has been idle for too long. *)
Timeout(w) ==
  /\ wpc[w] \in {"waiting", "notified"}
  /\ wpc' = [wpc EXCEPT ![w] = "late"]
  /\ UNCHANGED <<mEvents, mThreads, limitVars, mIdleCount, mShutdown, mListener, callVars,
                 wasIdle, current, onExit, listener, joinVars, nEvents, ran>>

(* Mutant: every thread that leaves asks to be shut down. *)
RunReturnsAsking(w) ==
  /\ wpc[w] = "leaving"
  /\ listener' = [listener EXCEPT ![w] = IF @ = "created" THEN "gone" ELSE @]
  /\ mainQ' = mainQ \cup {w}
  /\ wpc' = [wpc EXCEPT ![w] = "ended"]
  /\ UNCHANGED <<mEvents, mThreads, limitVars, mIdleCount, mShutdown, mListener, callVars,
                 wasIdle, current, onExit, joined, owner, doomed, nEvents, ran>>

(* The listener is told, and ShutdownThread posts an asynchronous proxy    *)
(* call of Shutdown to the main thread.                                    *)
RunReturns(w) ==
  /\ wpc[w] = "leaving"
  /\ listener' = [listener EXCEPT ![w] = IF @ = "created" THEN "gone" ELSE @]
  /\ mainQ' = IF onExit[w] THEN mainQ \cup {w} ELSE mainQ
  /\ wpc' = [wpc EXCEPT ![w] = "ended"]
  /\ UNCHANGED <<mEvents, mThreads, limitVars, mIdleCount, mShutdown, mListener, callVars,
                 wasIdle, current, onExit, joined, owner, doomed, nEvents, ran>>

(* The nsThread terminates once it is shut down and has nothing to run. *)
ThreadExit(w) ==
  /\ wpc[w] \in {"fresh", "ended"} /\ joined[w] > 0
  /\ wpc' = [wpc EXCEPT ![w] = "down"]
  /\ UNCHANGED <<mEvents, mThreads, limitVars, mIdleCount, mShutdown, mListener, callVars,
                 wasIdle, current, onExit, listener, joinVars, nEvents, ran>>

(* The main thread runs a posted call of nsIThread::Shutdown. *)
MainShutsDown(w) ==
  /\ w \in mainQ
  /\ mainQ' = mainQ \ {w}
  /\ joined' = JoinCalled(w)
  /\ UNCHANGED <<mEvents, mThreads, limitVars, mIdleCount, mShutdown, mListener, callVars,
                 workVars, owner, doomed, nEvents, ran>>
--------------------------------------------------------------------------------
(* nsThreadPool::Shutdown *)

(* Mutant: the pool's array is cleared before it is copied. *)
ShutdownClearsFirst ==
  /\ owner = "idle"
  /\ RacyShutdown \/ \A d \in Dispatcher : dpc[d] = "idle"
  /\ mShutdown' = TRUE
  /\ wpc' = NotifyAll
  /\ doomed' = {}
  /\ mThreads' = {}
  /\ mListener' = FALSE
  /\ owner' = "joining"
  /\ UNCHANGED <<mEvents, limitVars, mIdleCount, callVars, wasIdle, current, onExit, listener,
                 joined, mainQ, nEvents, ran>>

(* Mutant: sleeping workers are not woken. *)
ShutdownSilently ==
  /\ owner = "idle"
  /\ RacyShutdown \/ \A d \in Dispatcher : dpc[d] = "idle"
  /\ mShutdown' = TRUE
  /\ doomed' = mThreads
  /\ mThreads' = {}
  /\ mListener' = FALSE
  /\ owner' = "joining"
  /\ UNCHANGED <<mEvents, limitVars, mIdleCount, callVars, workVars, joined, mainQ, nEvents, ran>>

Shutdown ==
  /\ owner = "idle"
  /\ RacyShutdown \/ \A d \in Dispatcher : dpc[d] = "idle"
  /\ mShutdown' = TRUE
  /\ wpc' = NotifyAll
  /\ doomed' = mThreads
  /\ mThreads' = {}
  /\ mListener' = FALSE
  /\ owner' = "joining"
  /\ UNCHANGED <<mEvents, limitVars, mIdleCount, callVars, wasIdle, current, onExit, listener,
                 joined, mainQ, nEvents, ran>>

(* threads[i]->Shutdown(), one after the other, each until it returns. *)
ShutdownNext ==
  /\ owner = "joining"
  /\ \E w \in doomed :
       \/ joined[w] = 0 /\ (\A v \in doomed : joined[v] = 0) /\ joined' = JoinCalled(w) /\ UNCHANGED doomed
       \/ joined[w] > 0 /\ wpc[w] = "down" /\ doomed' = doomed \ {w} /\ UNCHANGED joined
  /\ UNCHANGED <<mEvents, mThreads, limitVars, mIdleCount, mShutdown, mListener, callVars,
                 workVars, mainQ, owner, nEvents, ran>>

ShutdownReturns ==
  /\ owner = "joining" /\ doomed = {}
  /\ owner' = "done"
  /\ UNCHANGED <<mEvents, mThreads, limitVars, mIdleCount, mShutdown, mListener, callVars,
                 workVars, joined, mainQ, doomed, nEvents, ran>>
--------------------------------------------------------------------------------
(* The attributes.  A setter wakes the workers to let them see the change. *)

SetThreadLimit(v) ==
  /\ nSets < MaxSets
  /\ nSets' = nSets + 1
  /\ mThreadLimit' = v
  /\ mIdleThreadLimit' = IF mIdleThreadLimit > v THEN v ELSE mIdleThreadLimit
  /\ wpc' = NotifyAll
  /\ UNCHANGED <<mEvents, mThreads, mIdleCount, mShutdown, mListener, callVars, wasIdle,
                 current, onExit, listener, joinVars, nEvents, ran>>

SetIdleThreadLimit(v) ==
  /\ nSets < MaxSets
  /\ nSets' = nSets + 1
  /\ mIdleThreadLimit' = IF v > mThreadLimit THEN mThreadLimit ELSE v
  /\ wpc' = NotifyAll
  /\ UNCHANGED <<mEvents, mThreads, mThreadLimit, mIdleCount, mShutdown, mListener, callVars,
                 wasIdle, current, onExit, listener, joinVars, nEvents, ran>>

(* Whether a worker has been idle for too long is open at any time: *)
(* the value itself is not modelled.                                *)
SetIdleThreadTimeout ==
  /\ nSets < MaxSets
  /\ nSets' = nSets + 1
  /\ wpc' = NotifyAll
  /\ UNCHANGED <<mEvents, mThreads, mThreadLimit, mIdleThreadLimit, mIdleCount, mShutdown,
                 mListener, callVars, wasIdle, current, onExit, listener, joinVars, nEvents, ran>>

SetListener ==
  /\ nSets < MaxSets
  /\ nSets' = nSets + 1
  /\ mListener' = ~mListener
  /\ UNCHANGED <<mEvents, mThreads, mThreadLimit, mIdleThreadLimit, mIdleCount, mShutdown,
                 callVars, workVars, joinVars, nEvents, ran>>
--------------------------------------------------------------------------------
CallStep(d) == \/ PutEvent(d) \/ NewThread(d) \/ NewThreadFails(d) \/ AddThread(d)
               \/ StartThread(d) \/ KillThread(d) \/ SyncDone(d)

WorkStep(w) == \/ RunBegins(w) \/ TakeEvent(w) \/ EventReturns(w) \/ Exit(w) \/ Wait(w)
               \/ RunReturns(w) \/ ThreadExit(w)

Next == \/ \E d \in Dispatcher : (\E sync \in BOOLEAN : Dispatch(d, sync)) \/ CallStep(d)
        \/ \E w \in Worker : WorkStep(w) \/ Timeout(w) \/ MainShutsDown(w)
        \/ Shutdown \/ ShutdownNext \/ ShutdownReturns
        \/ \E v \in ThreadLimits : SetThreadLimit(v)
        \/ \E v \in IdleLimits : SetIdleThreadLimit(v)
        \/ SetIdleThreadTimeout \/ SetListener

Spec == Init /\ [][Next]_vars

(* Threads are scheduled, events return, the main thread processes its     *)
(* events, and Shutdown goes on once called.  Nothing promises a timeout.  *)
FairSpec == /\ Spec
            /\ \A d \in Dispatcher : WF_vars(CallStep(d))
            /\ \A w \in Worker : WF_vars(WorkStep(w)) /\ WF_vars(MainShutsDown(w))
            /\ WF_vars(ShutdownNext) /\ WF_vars(ShutdownReturns)
--------------------------------------------------------------------------------
(* The type invariant. *)
TypeOK ==
  /\ mEvents \in Seq(EventId) /\ mThreads \subseteq Worker
  /\ mThreadLimit \in Nat /\ mIdleThreadLimit \in Nat /\ nSets \in 0 .. MaxSets
  /\ mIdleCount \in Nat /\ mShutdown \in BOOLEAN /\ mListener \in BOOLEAN
  /\ dpc \in [Dispatcher -> {"idle", "put", "spawn", "add", "start", "kill", "killing", "sync"}]
  /\ dthread \in [Dispatcher -> Worker \cup {NoWorker}]
  /\ dev \in [Dispatcher -> 0 .. MaxEvents] /\ dsync \in [Dispatcher -> BOOLEAN]
  /\ wpc \in [Worker -> {"none", "fresh", "queued", "loop", "waiting", "notified", "late",
                         "running", "leaving", "ended", "down"}]
  /\ wasIdle \in [Worker -> BOOLEAN] /\ current \in [Worker -> 0 .. MaxEvents]
  /\ onExit \in [Worker -> BOOLEAN] /\ listener \in [Worker -> {"none", "created", "gone"}]
  /\ joined \in [Worker -> Nat] /\ mainQ \subseteq Worker /\ doomed \subseteq Worker
  /\ owner \in {"idle", "joining", "done"}
  /\ nEvents \in 0 .. MaxEvents /\ ran \subseteq EventId

(* mIdleCount, which decides whether a put spawns a thread, counts exactly *)
(* the workers that consider themselves idle, in states of the right       *)
(* types; and the pool never grows past its limit, although PutEvent       *)
(* decides to spawn a thread in one critical section and adds it in        *)
(* another.  (For a limit that is not lowered meanwhile.)                  *)
IdleCountExact ==
  /\ TypeOK
  /\ mIdleCount = Cardinality({w \in Worker : wasIdle[w]})
  /\ nSets = 0 => Cardinality(mThreads) <= mThreadLimit

(* Every worker is shut down by one caller: by PutEvent if it was surplus, *)
(* by the main thread if it left the pool, by Shutdown if it was still in  *)
(* the pool then.  nsIThread::Shutdown fails when it is called again.      *)
JoinedOnce == \A w \in Worker :
  /\ joined[w] <= 1
  /\ w \in mainQ => joined[w] = 0 /\ w \notin mThreads \cup doomed
  /\ w \in mThreads => joined[w] = 0

(* "When this function returns, the thread pool and all of its threads     *)
(* will be shutdown" (nsIThreadPool.idl): what is still alive then has     *)
(* left the pool on its own and is being shut down by the main thread, or  *)
(* is still in the hands of the dispatch that created it.  A listener that *)
(* was told of the creation of a thread that is gone was told of its end.  *)
AllShutDown ==
  /\ owner = "done" =>
       \A w \in Worker : \/ wpc[w] \in {"none", "down"}
                         \/ w \in mainQ \/ joined[w] > 0 \/ onExit[w]
                         \/ \E d \in Dispatcher : dthread[d] = w
  /\ \A w \in Worker : wpc[w] = "down" => listener[w] # "created"

(* "Non-empty event queue being destroyed; events being leaked"            *)
(* (~nsEventQueue): when Shutdown and all dispatches have returned and no  *)
(* thread is left, the pool's queue is empty.                              *)
NothingLeaked ==
  (owner = "done" /\ (\A d \in Dispatcher : dpc[d] = "idle")
                  /\ (\A w \in Worker : wpc[w] \in {"none", "down"}))
    => mEvents = <<>>

(* An event that was dispatched is eventually run. *)
EventsRun == \A e \in EventId : (nEvents >= e) ~> (e \in ran)

(* Once Shutdown is called all threads of the pool terminate. *)
ThreadsTerminate ==
  (owner = "joining") ~> (owner = "done" /\ \A w \in Worker : wpc[w] \in {"none", "down"})
================================================================================
