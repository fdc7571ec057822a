--------------------------- MODULE nsThreadPoolProofs ---------------------------
(***************************************************************************)
(* Proofs about nsThreadPool, for any number of dispatchers, workers and   *)
(* events and any limits.  Four inductive invariants, each resting on the  *)
(* ones before it: Counted (types and counters), Owned (every worker has   *)
(* at most one thread responsible for its shutdown), Accounted (and at     *)
(* least one, once it exists) and Served (a pending event has somebody who *)
(* will look at the queue).                                                *)
(***************************************************************************)
EXTENDS nsThreadPool, TLAPS, FiniteSetTheorems

Idle == {w \in Worker : wasIdle[w]}

(* The steps of PutEvent in which its local variable holds a new thread. *)
Holding == {"add", "start", "kill", "killing"}

Counted ==
  /\ TypeOK
  /\ IsFiniteSet(Idle) /\ mIdleCount = Cardinality(Idle)
  /\ IsFiniteSet(mThreads)
  /\ nSets = 0 => Cardinality(mThreads) <= mThreadLimit
  /\ \A d \in Dispatcher : /\ dpc[d] = "put" => dev[d] \in EventId
                           /\ dpc[d] \in Holding => dthread[d] \in Worker
  /\ \A w \in Worker : wpc[w] = "running" => current[w] \in EventId

(* A worker that was not created yet is unknown to everyone. *)
Unborn == \A w \in Worker : wpc[w] = "none" =>
            /\ joined[w] = 0 /\ ~onExit[w]
            /\ w \notin mThreads \cup doomed \cup mainQ

(* A worker of the pool is alive and nobody has shut it down. *)
Pooled == \A w \in mThreads :
            /\ joined[w] = 0 /\ ~onExit[w] /\ w \notin doomed \cup mainQ
            /\ wpc[w] \notin {"none", "leaving", "ended", "down"}

(* A worker that Shutdown has in its array is left to Shutdown. *)
Doomed == \A w \in doomed : ~onExit[w] /\ w \notin mainQ

(* A worker that asked for its own shutdown has left the pool, and until *)
(* the main thread has run the request nobody shuts it down.             *)
Leaving == \A w \in Worker :
  /\ onExit[w] => wpc[w] \in {"leaving", "ended", "down"} /\ w \notin mThreads \cup doomed
  /\ onExit[w] /\ wpc[w] = "leaving" => joined[w] = 0 /\ w \notin mainQ
  /\ w \in mainQ => onExit[w] /\ wpc[w] = "ended" /\ joined[w] = 0

(* A new thread belongs to the one dispatch that made it. *)
Held ==
  /\ \A d \in Dispatcher : dpc[d] \in Holding <=> dthread[d] # NoWorker
  /\ \A d, e \in Dispatcher : dpc[d] \in Holding /\ dthread[d] = dthread[e] => d = e
  /\ \A d \in Dispatcher :
       /\ dpc[d] \in Holding => wpc[dthread[d]] \in {"fresh", "down"} /\ ~onExit[dthread[d]]
       /\ dpc[d] \in {"add", "kill"} =>
            /\ wpc[dthread[d]] = "fresh" /\ joined[dthread[d]] = 0
            /\ dthread[d] \notin mThreads \cup doomed
       /\ dpc[d] = "killing" =>
            joined[dthread[d]] = 1 /\ dthread[d] \notin mThreads \cup doomed

Owned == /\ \A w \in Worker : joined[w] <= 1
         /\ Unborn /\ Pooled /\ Doomed /\ Leaving /\ Held

(* Every worker that was created is in the pool, or Shutdown, the main      *)
(* thread or a dispatch is about to shut it down, or that was done already. *)
SomebodyOwns(w) == \/ wpc[w] = "none" \/ w \in mThreads \/ w \in doomed
                   \/ joined[w] > 0 \/ onExit[w]
                   \/ \E d \in Dispatcher : dthread[d] = w

(* A listener is owed a notification while Run goes on. *)
Told == \A w \in Worker : listener[w] = "created" =>
          wpc[w] \in {"loop", "waiting", "notified", "late", "running", "leaving"}

(* Once Shutdown was called nothing is dispatched; when no dispatch was under *)
(* way, nothing joins the pool either.                                        *)
Closed ==
  /\ owner \in {"idle", "done"} => doomed = {}
  /\ owner # "idle" => mShutdown
  /\ owner # "idle" /\ ~RacyShutdown => mThreads = {} /\ \A d \in Dispatcher : dpc[d] = "idle"

Accounted ==
  /\ \A w \in Worker : SomebodyOwns(w)
  /\ \A d \in Dispatcher : dpc[d] = "start" =>
       dthread[d] \in mThreads \cup doomed \/ joined[dthread[d]] > 0
  /\ Told /\ Closed

(* Somebody will look at the queue after the present state. *)
Awake == \/ \E d \in Dispatcher : dpc[d] \in {"spawn", "add", "start"}
         \/ \E w \in Worker : wpc[w] \in {"queued", "loop", "notified", "late", "running"}

Served ==
  /\ mThreadLimit >= 1
  /\ \A w \in Worker : /\ wasIdle[w] => wpc[w] \in {"waiting", "notified", "late"}
                       /\ wpc[w] = "waiting" => mEvents = <<>>
  /\ \A w \in mThreads : wpc[w] = "fresh" => \E d \in Dispatcher : dpc[d] = "start" /\ dthread[d] = w
  /\ \A d \in Dispatcher : dpc[d] = "start" => dthread[d] \in mThreads
  /\ mEvents # <<>> => Awake
--------------------------------------------------------------------------------
(* Counting: a set that gains or loses one element. *)
LEMMA CountUp ==
  ASSUME NEW S, IsFiniteSet(S), NEW x, x \notin S
  PROVE  /\ IsFiniteSet(S \cup {x})
         /\ Cardinality(S \cup {x}) = Cardinality(S) + 1
BY FS_AddElement

LEMMA CountDown ==
  ASSUME NEW S, IsFiniteSet(S), NEW x \in S
  PROVE  /\ IsFiniteSet(S \ {x})
         /\ Cardinality(S \ {x}) = Cardinality(S) - 1
         /\ Cardinality(S) - 1 \in Nat
<1>1. IsFiniteSet(S \ {x}) /\ Cardinality(S \ {x}) = Cardinality(S) - 1
  BY FS_RemoveElement
<1>2. Cardinality(S \ {x}) \in Nat
  BY <1>1, FS_CardinalityType
<1> QED BY <1>1, <1>2

LEMMA InitCounted == Init => Counted
<1> SUFFICES ASSUME Init PROVE Counted
  OBVIOUS
<1> USE PoolConstants DEF Init
<1>1. Idle = {} /\ IsFiniteSet({}) /\ Cardinality({}) = 0
  BY FS_EmptySet DEF Idle
<1>2. mEvents \in Seq(EventId) /\ ran \subseteq EventId
  BY DEF EventId
<1>3. mIdleThreadLimit \in Nat /\ mThreadLimit \in Nat /\ nSets \in 0 .. MaxSets
  OBVIOUS
<1>4. /\ dev \in [Dispatcher -> 0 .. MaxEvents] /\ current \in [Worker -> 0 .. MaxEvents]
      /\ nEvents \in 0 .. MaxEvents /\ joined \in [Worker -> Nat]
  OBVIOUS
<1>5. /\ wasIdle \in [Worker -> BOOLEAN] /\ onExit \in [Worker -> BOOLEAN]
      /\ dsync \in [Dispatcher -> BOOLEAN] /\ mShutdown \in BOOLEAN /\ mListener \in BOOLEAN
  BY Zenon
<1>6. TypeOK
  BY <1>2, <1>3, <1>4, <1>5 DEF TypeOK
<1> QED BY <1>1, <1>6 DEF Counted, Holding, TypeOK

(* A worker stops being idle, or starts to wait. *)
LEMMA StopsIdling ==
  ASSUME Counted, NEW w \in Worker, wasIdle' = [wasIdle EXCEPT ![w] = FALSE],
         mIdleCount' = IF wasIdle[w] THEN mIdleCount - 1 ELSE mIdleCount
  PROVE  IsFiniteSet(Idle') /\ mIdleCount' = Cardinality(Idle') /\ mIdleCount' \in Nat
<1>1. Idle' = Idle \ {w} /\ (w \in Idle <=> wasIdle[w])
  BY DEF Idle, Counted, TypeOK
<1>2. IsFiniteSet(Idle) /\ mIdleCount = Cardinality(Idle) /\ mIdleCount \in Nat
  BY DEF Counted, TypeOK
<1>3. CASE wasIdle[w]
  BY <1>1, <1>2, <1>3, CountDown
<1>4. CASE ~wasIdle[w]
  <2>1. Idle' = Idle
    BY <1>1, <1>4
  <2> QED BY <1>2, <1>4, <2>1
<1> QED BY <1>3, <1>4

LEMMA StartsIdling ==
  ASSUME Counted, NEW w \in Worker, wasIdle' = [wasIdle EXCEPT ![w] = TRUE],
         mIdleCount' = IF wasIdle[w] THEN mIdleCount ELSE mIdleCount + 1
  PROVE  IsFiniteSet(Idle') /\ mIdleCount' = Cardinality(Idle') /\ mIdleCount' \in Nat
<1>1. Idle' = Idle \cup {w} /\ (w \in Idle <=> wasIdle[w])
  BY DEF Idle, Counted, TypeOK
<1>2. IsFiniteSet(Idle) /\ mIdleCount = Cardinality(Idle) /\ mIdleCount \in Nat
  BY DEF Counted, TypeOK
<1>3. CASE wasIdle[w]
  <2>1. Idle' = Idle
    BY <1>1, <1>3
  <2> QED BY <1>2, <1>3, <2>1
<1>4. CASE ~wasIdle[w]
  BY <1>1, <1>2, <1>4, CountUp
<1> QED BY <1>3, <1>4

(* The idle workers are the same after a step that leaves wasIdle alone. *)
LEMMA IdleSame == ASSUME wasIdle' = wasIdle PROVE Idle' = Idle
BY DEF Idle

LEMMA NotifyType ==
  ASSUME TypeOK
  PROVE  /\ NotifyAll \in [Worker -> {"none", "fresh", "queued", "loop", "waiting", "notified",
                                      "late", "running", "leaving", "ended", "down"}]
         /\ \A w \in Worker : /\ NotifyAll[w] # "waiting"
                              /\ wpc[w] # "waiting" => NotifyAll[w] = wpc[w]
                              /\ wpc[w] = "waiting" => NotifyAll[w] = "notified"
BY DEF TypeOK, NotifyAll

LEMMA JoinType ==
  ASSUME TypeOK, NEW w \in Worker
  PROVE  /\ JoinCalled(w) \in [Worker -> Nat]
         /\ JoinCalled(w)[w] = joined[w] + 1
         /\ \A v \in Worker \ {w} : JoinCalled(w)[v] = joined[v]
BY DEF TypeOK, JoinCalled

LEMMA CallCounted ==
  ASSUME Counted, NEW d \in Dispatcher,
         (\E sync \in BOOLEAN : Dispatch(d, sync)) \/ CallStep(d)
  PROVE  Counted'
<1> USE PoolConstants DEF Counted, EventId, Holding, limitVars, callVars, workVars, joinVars
<1>1. ASSUME NEW sync \in BOOLEAN, Dispatch(d, sync) PROVE Counted'
  BY <1>1, IdleSame DEF Dispatch, TypeOK
<1>2. CASE PutEvent(d)
  <2>1. mEvents' \in Seq(EventId)
    BY <1>2 DEF PutEvent, TypeOK
  <2> QED BY <1>2, <2>1, IdleSame, NotifyType DEF PutEvent, TypeOK, AfterPut
<1>3. CASE NewThread(d)
  BY <1>3, IdleSame DEF NewThread, TypeOK
<1>4. CASE NewThreadFails(d)
  BY <1>4, IdleSame DEF NewThreadFails, TypeOK, AfterPut
<1>5. CASE AddThread(d)
  <2>1. CASE Cardinality(mThreads) < mThreadLimit
    <3>1. /\ mThreads' = mThreads \cup {dthread[d]} /\ dpc' = [dpc EXCEPT ![d] = "start"]
          /\ dthread[d] \in Worker
      BY <1>5, <2>1 DEF AddThread
    <3>2. IsFiniteSet(mThreads') /\ Cardinality(mThreads') <= mThreadLimit
      <4>1. Cardinality(mThreads) \in Nat /\ mThreadLimit \in Nat
        BY FS_CardinalityType DEF TypeOK
      <4>2. /\ IsFiniteSet(mThreads')
            /\ \/ Cardinality(mThreads') = Cardinality(mThreads)
               \/ Cardinality(mThreads') = Cardinality(mThreads) + 1
        BY <3>1, FS_AddElement
      <4> QED BY <4>1, <4>2, <2>1
    <3>3. TypeOK'
      BY <1>5, <3>1 DEF AddThread, TypeOK
    <3> QED BY <1>5, <3>1, <3>2, <3>3, IdleSame DEF AddThread, TypeOK
  <2>2. CASE ~(Cardinality(mThreads) < mThreadLimit)
    BY <1>5, <2>2, IdleSame DEF AddThread, TypeOK
  <2> QED BY <2>1, <2>2
<1>6. CASE StartThread(d)
  BY <1>6, IdleSame DEF StartThread, TypeOK, AfterPut
<1>7. CASE KillThread(d)
  <2>1. joined' \in [Worker -> Nat]
    BY <1>7, JoinType DEF KillThread, TypeOK
  <2>2. dthread' \in [Dispatcher -> Worker \cup {NoWorker}]
    BY <1>7 DEF KillThread, TypeOK
  <2>3. dpc' \in [Dispatcher -> {"idle", "put", "spawn", "add", "start", "kill", "killing", "sync"}]
        /\ dpc'[d] # "put"
        /\ \A e \in Dispatcher : dpc'[e] \in Holding => dthread'[e] \in Worker
    BY <1>7 DEF KillThread, TypeOK, AfterPut
  <2>4. TypeOK'
    BY <1>7, <2>1, <2>2, <2>3 DEF KillThread, TypeOK
  <2>5. \A e \in Dispatcher : dpc'[e] = "put" => dev'[e] \in EventId
    BY <1>7, <2>3 DEF KillThread, TypeOK
  <2> QED BY <1>7, <2>3, <2>4, <2>5, IdleSame DEF KillThread
<1>8. CASE SyncDone(d)
  BY <1>8, IdleSame DEF SyncDone, TypeOK
<1> QED BY <1>1, <1>2, <1>3, <1>4, <1>5, <1>6, <1>7, <1>8 DEF CallStep

LEMMA WorkerCounted ==
  ASSUME Counted, NEW w \in Worker, WorkStep(w) \/ Timeout(w) \/ MainShutsDown(w)
  PROVE  Counted'
<1> USE PoolConstants DEF Counted, EventId, Holding, limitVars, callVars, workVars, joinVars
<1>1. CASE RunBegins(w)
  BY <1>1, IdleSame DEF RunBegins, TypeOK
<1>2. CASE TakeEvent(w)
  <2>1. Head(mEvents) \in EventId /\ mEvents' \in Seq(EventId)
    BY <1>2 DEF TakeEvent, TypeOK
  <2>2. IsFiniteSet(Idle') /\ mIdleCount' = Cardinality(Idle') /\ mIdleCount' \in Nat
    BY <1>2, StopsIdling DEF TakeEvent
  <2>3. TypeOK'
    BY <1>2, <2>1, <2>2 DEF TakeEvent, TypeOK
  <2>4. \A v \in Worker : wpc'[v] = "running" => current'[v] \in EventId
    BY <1>2, <2>1 DEF TakeEvent, TypeOK
  <2> QED BY <1>2, <2>2, <2>3, <2>4 DEF TakeEvent, TypeOK
<1>3. CASE EventReturns(w)
  <2>a. current[w] \in EventId /\ 0 \in 0 .. MaxEvents
    BY <1>3 DEF EventReturns
  <2>b. ran' \subseteq EventId
    BY <1>3, <2>a DEF EventReturns, TypeOK
  <2>0. current' \in [Worker -> 0 .. MaxEvents] /\ ran' \subseteq EventId
    BY <1>3, <2>a, <2>b DEF EventReturns, TypeOK
  <2>1. TypeOK'
    BY <1>3, <2>0 DEF EventReturns, TypeOK
  <2>2. \A v \in Worker : wpc'[v] = "running" => current'[v] \in EventId
    BY <1>3 DEF EventReturns, TypeOK
  <2> QED BY <1>3, <2>1, <2>2, IdleSame DEF EventReturns, TypeOK
<1>4. CASE Exit(w)
  <2>2. IsFiniteSet(Idle') /\ mIdleCount' = Cardinality(Idle') /\ mIdleCount' \in Nat
    BY <1>4, StopsIdling DEF Exit
  <2>3. IsFiniteSet(mThreads') /\ Cardinality(mThreads') <= Cardinality(mThreads)
    BY <1>4, FS_Subset DEF Exit
  <2>4. Cardinality(mThreads) \in Nat /\ Cardinality(mThreads') \in Nat
    BY <2>3, FS_CardinalityType
  <2>5. TypeOK'
    BY <1>4, <2>2 DEF Exit, TypeOK
  <2>6. nSets' = 0 => Cardinality(mThreads') <= mThreadLimit'
    BY <1>4, <2>3, <2>4 DEF Exit, TypeOK
  <2> QED BY <1>4, <2>2, <2>3, <2>5, <2>6 DEF Exit, TypeOK
<1>5. CASE Wait(w)
  <2>2. IsFiniteSet(Idle') /\ mIdleCount' = Cardinality(Idle') /\ mIdleCount' \in Nat
    BY <1>5, StartsIdling DEF Wait
  <2> QED BY <1>5, <2>2 DEF Wait, TypeOK
<1>6. CASE RunReturns(w)
  BY <1>6, IdleSame DEF RunReturns, TypeOK
<1>7. CASE ThreadExit(w)
  BY <1>7, IdleSame DEF ThreadExit, TypeOK
<1>8. CASE Timeout(w)
  BY <1>8, IdleSame DEF Timeout, TypeOK
<1>9. CASE MainShutsDown(w)
  BY <1>9, IdleSame DEF MainShutsDown, TypeOK, JoinCalled
<1> QED BY <1>1, <1>2, <1>3, <1>4, <1>5, <1>6, <1>7, <1>8, <1>9 DEF WorkStep

(* Shutdown and the setters. *)
LEMMA OwnerCounted ==
  ASSUME Counted,
         \/ Shutdown \/ ShutdownNext \/ ShutdownReturns
         \/ \E v \in ThreadLimits : SetThreadLimit(v)
         \/ \E v \in IdleLimits : SetIdleThreadLimit(v)
         \/ SetIdleThreadTimeout \/ SetListener
  PROVE  Counted'
<1> USE PoolConstants DEF Counted, EventId, Holding, limitVars, callVars, workVars, joinVars
<1>1. CASE Shutdown
  <2>1. IsFiniteSet({}) /\ Cardinality({}) = 0
    BY FS_EmptySet
  <2>2. TypeOK'
    BY <1>1, NotifyType DEF Shutdown, TypeOK
  <2>3. mThreads' = {} /\ mThreadLimit' \in Nat
    BY <1>1 DEF Shutdown, TypeOK
  <2>4. \A v \in Worker : wpc'[v] = "running" => current'[v] \in EventId
    BY <1>1, NotifyType DEF Shutdown
  <2> QED BY <1>1, <2>1, <2>2, <2>3, <2>4, IdleSame DEF Shutdown
<1>2. CASE ShutdownNext
  <2>1. joined' \in [Worker -> Nat] /\ doomed' \subseteq Worker
    BY <1>2, JoinType DEF ShutdownNext, TypeOK
  <2> QED BY <1>2, <2>1, IdleSame DEF ShutdownNext, TypeOK
<1>3. CASE ShutdownReturns
  BY <1>3, IdleSame DEF ShutdownReturns, TypeOK
<1>4. ASSUME NEW v \in ThreadLimits, SetThreadLimit(v) PROVE Counted'
  BY <1>4, IdleSame, NotifyType DEF SetThreadLimit, TypeOK
<1>5. ASSUME NEW v \in IdleLimits, SetIdleThreadLimit(v) PROVE Counted'
  BY <1>5, IdleSame, NotifyType DEF SetIdleThreadLimit, TypeOK
<1>6. CASE SetIdleThreadTimeout
  BY <1>6, IdleSame, NotifyType DEF SetIdleThreadTimeout, TypeOK
<1>7. CASE SetListener
  BY <1>7, IdleSame DEF SetListener, TypeOK
<1> QED BY <1>1, <1>2, <1>3, <1>4, <1>5, <1>6, <1>7

LEMMA NextCounted == Counted /\ [Next]_vars => Counted'
<1> SUFFICES ASSUME Counted, [Next]_vars PROVE Counted'
  OBVIOUS
<1>1. CASE UNCHANGED vars
  BY <1>1, IdleSame DEF Counted, TypeOK, vars, limitVars, callVars, workVars, joinVars
<1>2. CASE Next
  BY <1>2, CallCounted, WorkerCounted, OwnerCounted DEF Next
<1> QED BY <1>1, <1>2

(* mIdleCount counts exactly the idle workers and the pool stays within its *)
(* limit, whatever the interleaving of PutEvent's two critical sections,    *)
(* Run, Shutdown and the setters (nsThreadPool.cpp, PutEvent and Run).      *)
THEOREM IdleCountCorrect == Spec => []IdleCountExact
<1>1. Counted => IdleCountExact
  BY DEF Counted, IdleCountExact, Idle
<1> QED BY <1>1, InitCounted, NextCounted, PTL DEF Spec
--------------------------------------------------------------------------------
(* Who shuts a worker down *)

LEMMA InitOwned == Init => Owned
BY PoolConstants DEF Init, Owned, Unborn, Pooled, Doomed, Leaving, Held, Holding

(* Notifying the waiting workers changes nothing that Owned looks at. *)
LEMMA NotifyOwned ==
  ASSUME Counted, Owned, wpc' = NotifyAll,
         UNCHANGED <<mThreads, dthread, onExit, joined, mainQ, doomed>>,
         \A d \in Dispatcher : dpc'[d] # dpc[d] => dpc[d] \notin Holding /\ dpc'[d] \notin Holding
  PROVE  Owned'
<1>1. \A w \in Worker : wpc'[w] = wpc[w] \/ (wpc[w] = "waiting" /\ wpc'[w] = "notified")
  BY NotifyType DEF Counted
<1>2. \A d \in Dispatcher : dpc[d] \in Holding => dthread[d] \in Worker
  BY DEF Counted
<1>3. mThreads \subseteq Worker /\ doomed \subseteq Worker
  BY DEF Counted, TypeOK
<1>4. Unborn' /\ Pooled' /\ Doomed' /\ Leaving' /\ \A w \in Worker : joined'[w] <= 1
  BY <1>1, <1>3 DEF Owned, Unborn, Pooled, Doomed, Leaving
<1>5. Held'
  BY <1>1, <1>2 DEF Owned, Held, Holding
<1> QED BY <1>4, <1>5 DEF Owned

(* The first call of Shutdown on a worker. *)
LEMMA FirstJoin ==
  ASSUME TypeOK, NEW w \in Worker, joined[w] = 0, \A v \in Worker : joined[v] <= 1,
         joined' = JoinCalled(w)
  PROVE  /\ joined'[w] = 1
         /\ \A v \in Worker \ {w} : joined'[v] = joined[v]
         /\ \A v \in Worker : joined'[v] <= 1
<1>1. joined'[w] = 1 /\ \A v \in Worker \ {w} : joined'[v] = joined[v]
  BY JoinType
<1> QED BY <1>1

LEMMA CallOwned ==
  ASSUME Counted, Owned, NEW d \in Dispatcher,
         (\E sync \in BOOLEAN : Dispatch(d, sync)) \/ CallStep(d)
  PROVE  Owned'
<1>2. CASE PutEvent(d)
  <2>1. \A e \in Dispatcher : dpc'[e] # dpc[e] => dpc[e] \notin Holding /\ dpc'[e] \notin Holding
    <3>1. dpc[d] = "put" /\ dpc'[d] \in {"spawn", "sync", "idle"}
      BY <1>2 DEF PutEvent, AfterPut, Counted, TypeOK
    <3>2. \A e \in Dispatcher \ {d} : dpc'[e] = dpc[e]
      BY <1>2 DEF PutEvent, Counted, TypeOK
    <3> QED BY <3>1, <3>2 DEF Holding
  <2> QED BY <1>2, <2>1, NotifyOwned DEF PutEvent, joinVars
<1> USE PoolConstants DEF Counted, TypeOK, Holding, Owned, Unborn, Pooled, Doomed, Leaving, Held,
           limitVars, callVars, workVars, joinVars
<1>1. ASSUME NEW sync \in BOOLEAN, Dispatch(d, sync) PROVE Owned'
  BY <1>1 DEF Dispatch
<1>3. CASE NewThread(d)
  BY <1>3 DEF NewThread
<1>4. CASE NewThreadFails(d)
  BY <1>4 DEF NewThreadFails, AfterPut
<1>5. CASE AddThread(d)
  <2>1. CASE Cardinality(mThreads) < mThreadLimit
    <3>1. mThreads' = mThreads \cup {dthread[d]} /\ dpc' = [dpc EXCEPT ![d] = "start"]
      BY <1>5, <2>1 DEF AddThread
    <3>2. dthread[d] \in Worker /\ wpc[dthread[d]] = "fresh" /\ joined[dthread[d]] = 0
          /\ dthread[d] \notin mThreads \cup doomed \cup mainQ /\ ~onExit[dthread[d]]
      BY <1>5 DEF AddThread
    <3>3. Unborn' /\ Pooled' /\ Doomed' /\ Leaving'
      BY <1>5, <3>1, <3>2 DEF AddThread
    <3>4. Held'
      BY <1>5, <3>1, <3>2 DEF AddThread
    <3> QED BY <1>5, <3>3, <3>4 DEF AddThread
  <2>2. CASE ~(Cardinality(mThreads) < mThreadLimit)
    <3>1. /\ dpc' = [dpc EXCEPT ![d] = "kill"] /\ dpc[d] = "add"
          /\ UNCHANGED <<mThreads, dthread, wpc, onExit, joined, mainQ, doomed>>
      BY <1>5, <2>2 DEF AddThread
    <3> QED BY <3>1
  <2> QED BY <2>1, <2>2
<1>6. CASE StartThread(d)
  BY <1>6 DEF StartThread, AfterPut
<1>7. CASE KillThread(d)
  <2>1. CASE dpc[d] = "kill"
    <3> DEFINE t == dthread[d]
    <3>1. t \in Worker /\ wpc[t] = "fresh" /\ joined[t] = 0 /\ ~onExit[t]
          /\ t \notin mThreads \cup doomed \cup mainQ
      BY <2>1
    <3>2. /\ joined'[t] = 1 /\ dpc' = [dpc EXCEPT ![d] = "killing"]
          /\ \A v \in Worker \ {t} : joined'[v] = joined[v]
      BY <1>7, <2>1, <3>1, JoinType DEF KillThread
    <3>7. \A v \in Worker : joined'[v] <= 1
      BY <1>7, <2>1, <3>1, FirstJoin DEF KillThread
    <3>3. UNCHANGED <<mThreads, dthread, wpc, onExit, mainQ, doomed>>
      BY <1>7, <2>1 DEF KillThread
    <3> HIDE DEF t
    <3>4. Unborn' /\ Pooled' /\ Doomed'
      BY <3>1, <3>2, <3>3
    <3>6. Leaving'
      BY <3>1, <3>2, <3>3
    <3>5. Held'
      BY <2>1, <3>1, <3>2, <3>3 DEF t
    <3> QED BY <3>4, <3>5, <3>6, <3>7
  <2>2. CASE dpc[d] # "kill"
    <3>1. /\ dpc[d] = "killing" /\ dpc' = [dpc EXCEPT ![d] = AfterPut(d)]
          /\ dthread' = [dthread EXCEPT ![d] = NoWorker]
          /\ UNCHANGED <<mThreads, wpc, onExit, joined, mainQ, doomed>>
      BY <1>7, <2>2 DEF KillThread
    <3>2. AfterPut(d) \in {"idle", "sync"}
      BY DEF AfterPut
    <3>3. Held'
      BY <3>1, <3>2
    <3> QED BY <3>1, <3>3
  <2> QED BY <2>1, <2>2
<1>8. CASE SyncDone(d)
  BY <1>8 DEF SyncDone
<1> QED BY <1>1, <1>2, <1>3, <1>4, <1>5, <1>6, <1>7, <1>8 DEF CallStep

LEMMA WorkerOwned ==
  ASSUME Counted, Owned, NEW w \in Worker, WorkStep(w) \/ Timeout(w) \/ MainShutsDown(w)
  PROVE  Owned'
<1> USE PoolConstants DEF Counted, TypeOK, Holding, Owned, Unborn, Pooled, Doomed, Leaving, Held,
           limitVars, callVars, workVars, joinVars
<1>1. CASE RunBegins(w)
  BY <1>1 DEF RunBegins
<1>2. CASE TakeEvent(w)
  BY <1>2 DEF TakeEvent, InMonitor
<1>3. CASE EventReturns(w)
  BY <1>3 DEF EventReturns
<1>4. CASE Exit(w)
  BY <1>4 DEF Exit, InMonitor
<1>5. CASE Wait(w)
  BY <1>5 DEF Wait, InMonitor
<1>6. CASE RunReturns(w)
  BY <1>6 DEF RunReturns
<1>7. CASE ThreadExit(w)
  BY <1>7 DEF ThreadExit
<1>8. CASE Timeout(w)
  BY <1>8 DEF Timeout
<1>9. CASE MainShutsDown(w)
  <2>1. joined[w] = 0 /\ onExit[w] /\ wpc[w] = "ended" /\ w \notin mThreads \cup doomed
    BY <1>9 DEF MainShutsDown
  <2>2. joined'[w] = 1 /\ \A v \in Worker \ {w} : joined'[v] = joined[v]
    BY <1>9, <2>1, JoinType DEF MainShutsDown
  <2>3. mainQ' = mainQ \ {w} /\ UNCHANGED <<mThreads, dpc, dthread, wpc, onExit, doomed>>
    BY <1>9 DEF MainShutsDown
  <2>4. Unborn' /\ Pooled' /\ Doomed'
    BY <2>1, <2>2, <2>3
  <2>6. Leaving'
    BY <2>1, <2>2, <2>3
  <2>7. \A v \in Worker : joined'[v] <= 1
    BY <1>9, <2>1, FirstJoin DEF MainShutsDown
  <2>5. Held'
    BY <2>1, <2>2, <2>3
  <2> QED BY <2>4, <2>5, <2>6, <2>7
<1> QED BY <1>1, <1>2, <1>3, <1>4, <1>5, <1>6, <1>7, <1>8, <1>9 DEF WorkStep

LEMMA OwnerOwned ==
  ASSUME Counted, Owned,
         \/ Shutdown \/ ShutdownNext \/ ShutdownReturns
         \/ \E v \in ThreadLimits : SetThreadLimit(v)
         \/ \E v \in IdleLimits : SetIdleThreadLimit(v)
         \/ SetIdleThreadTimeout \/ SetListener
  PROVE  Owned'
<1>4. ASSUME NEW v \in ThreadLimits, SetThreadLimit(v) PROVE Owned'
  <2>1. /\ wpc' = NotifyAll /\ dpc' = dpc
        /\ UNCHANGED <<mThreads, dthread, onExit, joined, mainQ, doomed>>
    BY <1>4 DEF SetThreadLimit, callVars, joinVars
  <2> QED BY <2>1, NotifyOwned
<1>5. ASSUME NEW v \in IdleLimits, SetIdleThreadLimit(v) PROVE Owned'
  <2>1. /\ wpc' = NotifyAll /\ dpc' = dpc
        /\ UNCHANGED <<mThreads, dthread, onExit, joined, mainQ, doomed>>
    BY <1>5 DEF SetIdleThreadLimit, callVars, joinVars
  <2> QED BY <2>1, NotifyOwned
<1>6. CASE SetIdleThreadTimeout
  <2>1. /\ wpc' = NotifyAll /\ dpc' = dpc
        /\ UNCHANGED <<mThreads, dthread, onExit, joined, mainQ, doomed>>
    BY <1>6 DEF SetIdleThreadTimeout, callVars, joinVars
  <2> QED BY <2>1, NotifyOwned
<1> USE PoolConstants DEF Counted, TypeOK, Holding, Owned, Unborn, Pooled, Doomed, Leaving, Held,
           limitVars, callVars, workVars, joinVars
<1>1. CASE Shutdown
  <2>1. \A w \in Worker : wpc'[w] = wpc[w] \/ (wpc[w] = "waiting" /\ wpc'[w] = "notified")
    BY <1>1, NotifyType DEF Shutdown
  <2>2. doomed' = mThreads /\ mThreads' = {}
        /\ UNCHANGED <<dpc, dthread, onExit, joined, mainQ>>
    BY <1>1 DEF Shutdown
  <2>3. Unborn' /\ Pooled' /\ Doomed' /\ Leaving' /\ \A v \in Worker : joined'[v] <= 1
    BY <2>1, <2>2
  <2>4. Held'
    BY <2>1, <2>2
  <2> QED BY <2>3, <2>4
<1>2. CASE ShutdownNext
  <2>1. PICK w \in doomed :
          \/ joined[w] = 0 /\ joined' = JoinCalled(w) /\ UNCHANGED doomed
          \/ joined[w] > 0 /\ doomed' = doomed \ {w} /\ UNCHANGED joined
    BY <1>2 DEF ShutdownNext
  <2>2. UNCHANGED <<mThreads, dpc, dthread, wpc, onExit, mainQ>>
    BY <1>2 DEF ShutdownNext
  <2>3. CASE joined[w] = 0 /\ joined' = JoinCalled(w) /\ UNCHANGED doomed
    <3>1. joined'[w] = 1 /\ \A v \in Worker \ {w} : joined'[v] = joined[v]
      BY <2>3, JoinType
    <3>2. Unborn' /\ Pooled' /\ Doomed'
      BY <2>2, <2>3, <3>1
    <3>3. Leaving'
      BY <2>2, <2>3, <3>1
    <3>5. \A v \in Worker : joined'[v] <= 1
      BY <2>3, FirstJoin
    <3>4. Held'
      BY <2>2, <2>3, <3>1
    <3> QED BY <3>2, <3>3, <3>4, <3>5
  <2>4. CASE joined[w] > 0 /\ doomed' = doomed \ {w} /\ UNCHANGED joined
    BY <2>2, <2>4
  <2> QED BY <2>1, <2>3, <2>4
<1>3. CASE ShutdownReturns
  BY <1>3 DEF ShutdownReturns
<1>7. CASE SetListener
  BY <1>7 DEF SetListener
<1> QED BY <1>1, <1>2, <1>3, <1>4, <1>5, <1>6, <1>7

LEMMA NextOwned == Counted /\ Owned /\ [Next]_vars => Owned'
<1> SUFFICES ASSUME Counted, Owned, [Next]_vars PROVE Owned'
  OBVIOUS
<1>1. CASE UNCHANGED vars
  BY <1>1 DEF Owned, Unborn, Pooled, Doomed, Leaving, Held, vars, callVars, workVars, joinVars
<1>2. CASE Next
  BY <1>2, CallOwned, WorkerOwned, OwnerOwned DEF Next
<1> QED BY <1>1, <1>2

(* Every worker is shut down by at most one caller: PutEvent for a surplus  *)
(* thread, the main thread for one that left, Shutdown for the rest; no two *)
(* of them can come to hold the same thread (PutEvent, Run and Shutdown of  *)
(* nsThreadPool.cpp).                                                       *)
THEOREM ShutDownByOne == Spec => []JoinedOnce
<1>1. Counted /\ Owned => JoinedOnce
  BY DEF Counted, TypeOK, Owned, Pooled, Leaving, Doomed, JoinedOnce
<1> QED BY <1>1, InitCounted, NextCounted, InitOwned, NextOwned, PTL DEF Spec
--------------------------------------------------------------------------------
(* No worker is forgotten *)

LEMMA InitAccounted == Init => Accounted
BY DEF Init, Accounted, SomebodyOwns, Told, Closed

LEMMA NotifyAccounted ==
  ASSUME Counted, Accounted, wpc' = NotifyAll,
         UNCHANGED <<mThreads, dthread, onExit, joined, listener, doomed, mShutdown, owner>>,
         \A d \in Dispatcher : dpc'[d] # dpc[d] => dpc[d] # "idle" /\ dpc'[d] # "start"
  PROVE  Accounted'
<1>1. \A w \in Worker : wpc'[w] = wpc[w] \/ (wpc[w] = "waiting" /\ wpc'[w] = "notified")
  BY NotifyType DEF Counted
<1>2. \A w \in Worker : SomebodyOwns(w)'
  BY <1>1 DEF Accounted, SomebodyOwns
<1>3. Told'
  BY <1>1 DEF Accounted, Told
<1>4. Closed'
  BY DEF Accounted, Closed
<1> QED BY <1>2, <1>3, <1>4 DEF Accounted

LEMMA JoinGrows ==
  ASSUME TypeOK, NEW w \in Worker, joined' = JoinCalled(w)
  PROVE  joined'[w] > 0 /\ \A v \in Worker : joined[v] > 0 => joined'[v] > 0
<1>1. \A v \in Worker : joined[v] \in Nat
  BY DEF TypeOK
<1>2. joined'[w] = joined[w] + 1 /\ \A v \in Worker \ {w} : joined'[v] = joined[v]
  BY JoinType
<1> QED BY <1>1, <1>2

LEMMA CallAccounted ==
  ASSUME Counted, Owned, Accounted, NEW d \in Dispatcher,
         (\E sync \in BOOLEAN : Dispatch(d, sync)) \/ CallStep(d)
  PROVE  Accounted'
<1>2. CASE PutEvent(d)
  <2>1. \A e \in Dispatcher : dpc'[e] # dpc[e] => dpc[e] # "idle" /\ dpc'[e] # "start"
    <3>1. dpc[d] = "put" /\ dpc'[d] \in {"spawn", "sync", "idle"}
      BY <1>2 DEF PutEvent, AfterPut, Counted, TypeOK
    <3>2. \A e \in Dispatcher \ {d} : dpc'[e] = dpc[e]
      BY <1>2 DEF PutEvent, Counted, TypeOK
    <3> QED BY <3>1, <3>2
  <2>2. /\ wpc' = NotifyAll
        /\ UNCHANGED <<mThreads, dthread, onExit, joined, listener, doomed, mShutdown, owner>>
    BY <1>2 DEF PutEvent, joinVars
  <2> QED BY <2>1, <2>2, NotifyAccounted
<1> USE PoolConstants DEF Counted, TypeOK, Holding, Accounted, SomebodyOwns, Told, Closed,
           limitVars, callVars, workVars, joinVars
<1>1. ASSUME NEW sync \in BOOLEAN, Dispatch(d, sync) PROVE Accounted'
  BY <1>1 DEF Dispatch
<1>3. CASE NewThread(d)
  <2>1. dthread[d] = NoWorker
    BY <1>3 DEF NewThread, Owned, Held
  <2>2. PICK n \in Worker : /\ wpc' = [wpc EXCEPT ![n] = "fresh"] /\ wpc[n] = "none"
                            /\ dthread' = [dthread EXCEPT ![d] = n]
                            /\ dpc' = [dpc EXCEPT ![d] = "add"] /\ dpc[d] = "spawn"
    BY <1>3 DEF NewThread
  <2>3. UNCHANGED <<mThreads, onExit, joined, listener, doomed, mShutdown, owner>>
    BY <1>3 DEF NewThread
  <2>4. ASSUME NEW v \in Worker PROVE SomebodyOwns(v)'
    <3>1. CASE v = n
      BY <2>2, <3>1
    <3>2. CASE v # n
      BY <2>1, <2>2, <2>3, <3>2
    <3> QED BY <3>1, <3>2
  <2>5. Told'
    BY <2>2, <2>3
  <2>6. Closed'
    BY <2>2, <2>3
  <2> QED BY <2>2, <2>3, <2>4, <2>5, <2>6
<1>4. CASE NewThreadFails(d)
  BY <1>4 DEF NewThreadFails, AfterPut
<1>5. CASE AddThread(d)
  BY <1>5 DEF AddThread
<1>6. CASE StartThread(d)
  BY <1>6 DEF StartThread, AfterPut
<1>7. CASE KillThread(d)
  <2>1. /\ dpc[d] \in {"kill", "killing"} /\ dthread[d] \in Worker
        /\ dpc' = [dpc EXCEPT ![d] = IF dpc[d] = "kill" THEN "killing" ELSE AfterPut(d)]
        /\ UNCHANGED <<mThreads, wpc, onExit, listener, doomed, mShutdown, owner>>
    BY <1>7 DEF KillThread
  <2>2. AfterPut(d) \in {"idle", "sync"}
    BY DEF AfterPut
  <2>3. joined'[dthread[d]] > 0 /\ \A v \in Worker : joined[v] > 0 => joined'[v] > 0
    BY <1>7, <2>1, JoinType DEF KillThread, Owned, Held
  <2>4. \A e \in Dispatcher \ {d} : dthread'[e] = dthread[e]
    BY <1>7 DEF KillThread
  <2>5. \A v \in Worker : SomebodyOwns(v)'
    <3> SUFFICES ASSUME NEW v \in Worker PROVE SomebodyOwns(v)'
      OBVIOUS
    <3>1. CASE v = dthread[d]
      BY <2>3, <3>1
    <3>2. CASE v # dthread[d]
      <4>1. (\E e \in Dispatcher : dthread[e] = v) => \E e \in Dispatcher : dthread'[e] = v
        BY <2>4, <3>2
      <4> QED BY <2>1, <2>3, <4>1
    <3> QED BY <3>1, <3>2
  <2>6. \A e \in Dispatcher : dpc'[e] = "start" => e # d /\ dpc[e] = "start"
    BY <2>1, <2>2
  <2>7. Told' /\ Closed'
    BY <2>1
  <2> QED BY <2>1, <2>3, <2>4, <2>5, <2>6, <2>7
<1>8. CASE SyncDone(d)
  BY <1>8 DEF SyncDone
<1> QED BY <1>1, <1>2, <1>3, <1>4, <1>5, <1>6, <1>7, <1>8 DEF CallStep

LEMMA WorkerAccounted ==
  ASSUME Counted, Owned, Accounted, NEW w \in Worker,
         WorkStep(w) \/ Timeout(w) \/ MainShutsDown(w)
  PROVE  Accounted'
<1> USE PoolConstants DEF Counted, TypeOK, Holding, Accounted, SomebodyOwns, Told, Closed,
           limitVars, callVars, workVars, joinVars
<1>1. CASE RunBegins(w)
  BY <1>1 DEF RunBegins
<1>2. CASE TakeEvent(w)
  BY <1>2 DEF TakeEvent, InMonitor
<1>3. CASE EventReturns(w)
  BY <1>3 DEF EventReturns
<1>4. CASE Exit(w)
  <2>1. ~onExit[w] /\ wpc[w] \in {"loop", "notified", "late"}
    BY <1>4 DEF Exit, InMonitor, Owned, Leaving
  <2>2. /\ onExit' = [onExit EXCEPT ![w] = w \in mThreads] /\ mThreads' = mThreads \ {w}
        /\ wpc' = [wpc EXCEPT ![w] = "leaving"]
        /\ UNCHANGED <<dpc, dthread, joined, listener, doomed, mShutdown, owner>>
    BY <1>4 DEF Exit
  <2>3. SomebodyOwns(w)'
    BY <2>1, <2>2
  <2>4. \A v \in Worker \ {w} : SomebodyOwns(v)'
    BY <2>2
  <2>5. \A d \in Dispatcher : dpc[d] = "start" => dthread[d] # w
    BY <2>1 DEF Owned, Held
  <2> QED BY <2>1, <2>2, <2>3, <2>4, <2>5
<1>5. CASE Wait(w)
  BY <1>5 DEF Wait, InMonitor
<1>6. CASE RunReturns(w)
  BY <1>6 DEF RunReturns
<1>7. CASE ThreadExit(w)
  BY <1>7 DEF ThreadExit
<1>8. CASE Timeout(w)
  BY <1>8 DEF Timeout
<1>9. CASE MainShutsDown(w)
  <2>1. \A v \in Worker : joined[v] > 0 => joined'[v] > 0
    BY <1>9, JoinGrows DEF MainShutsDown
  <2> QED BY <1>9, <2>1 DEF MainShutsDown
<1> QED BY <1>1, <1>2, <1>3, <1>4, <1>5, <1>6, <1>7, <1>8, <1>9 DEF WorkStep

LEMMA OwnerAccounted ==
  ASSUME Counted, Owned, Accounted,
         \/ Shutdown \/ ShutdownNext \/ ShutdownReturns
         \/ \E v \in ThreadLimits : SetThreadLimit(v)
         \/ \E v \in IdleLimits : SetIdleThreadLimit(v)
         \/ SetIdleThreadTimeout \/ SetListener
  PROVE  Accounted'
<1>4. ASSUME NEW v \in ThreadLimits, SetThreadLimit(v) PROVE Accounted'
  <2>1. /\ wpc' = NotifyAll /\ dpc' = dpc
        /\ UNCHANGED <<mThreads, dthread, onExit, joined, listener, doomed, mShutdown, owner>>
    BY <1>4 DEF SetThreadLimit, callVars, joinVars
  <2> QED BY <2>1, NotifyAccounted
<1>5. ASSUME NEW v \in IdleLimits, SetIdleThreadLimit(v) PROVE Accounted'
  <2>1. /\ wpc' = NotifyAll /\ dpc' = dpc
        /\ UNCHANGED <<mThreads, dthread, onExit, joined, listener, doomed, mShutdown, owner>>
    BY <1>5 DEF SetIdleThreadLimit, callVars, joinVars
  <2> QED BY <2>1, NotifyAccounted
<1>6. CASE SetIdleThreadTimeout
  <2>1. /\ wpc' = NotifyAll /\ dpc' = dpc
        /\ UNCHANGED <<mThreads, dthread, onExit, joined, listener, doomed, mShutdown, owner>>
    BY <1>6 DEF SetIdleThreadTimeout, callVars, joinVars
  <2> QED BY <2>1, NotifyAccounted
<1> USE PoolConstants DEF Counted, TypeOK, Holding, Accounted, SomebodyOwns, Told, Closed,
           limitVars, callVars, workVars, joinVars
<1>1. CASE Shutdown
  <2>1. \A w \in Worker : wpc'[w] = wpc[w] \/ (wpc[w] = "waiting" /\ wpc'[w] = "notified")
    BY <1>1, NotifyType DEF Shutdown
  <2>2. /\ doomed' = mThreads /\ mThreads' = {} /\ mShutdown' /\ owner' = "joining"
        /\ owner = "idle" /\ UNCHANGED <<dpc, dthread, onExit, joined, listener>>
    BY <1>1 DEF Shutdown
  <2>3. RacyShutdown \/ \A d \in Dispatcher : dpc[d] = "idle"
    BY <1>1 DEF Shutdown
  <2>4. \A w \in Worker : w \notin doomed
    BY <2>2
  <2>5. \A w \in Worker : SomebodyOwns(w)'
    <3> SUFFICES ASSUME NEW w \in Worker PROVE SomebodyOwns(w)'
      OBVIOUS
    <3>1. wpc[w] = "none" => wpc'[w] = "none"
      BY <2>1
    <3> QED BY <2>2, <2>4, <3>1
  <2>6. Told' /\ Closed'
    BY <2>1, <2>2, <2>3
  <2> QED BY <2>2, <2>4, <2>5, <2>6
<1>2. CASE ShutdownNext
  <2>1. PICK w \in doomed :
          \/ joined[w] = 0 /\ joined' = JoinCalled(w) /\ UNCHANGED doomed
          \/ joined[w] > 0 /\ doomed' = doomed \ {w} /\ UNCHANGED joined
    BY <1>2 DEF ShutdownNext
  <2>2. /\ owner = "joining"
        /\ UNCHANGED <<mThreads, dpc, dthread, wpc, onExit, listener, mShutdown, owner>>
    BY <1>2 DEF ShutdownNext
  <2>3. \A v \in Worker : /\ joined[v] > 0 => joined'[v] > 0
                          /\ v \in doomed => v \in doomed' \/ joined'[v] > 0
    BY <2>1, JoinGrows
  <2>4. \A v \in Worker : SomebodyOwns(v)'
    BY <2>2, <2>3
  <2>5. Told' /\ Closed'
    BY <2>2
  <2>6. \A d \in Dispatcher : dpc[d] = "start" => dthread[d] \in Worker
    OBVIOUS
  <2>7. \A d \in Dispatcher : dpc'[d] = "start" =>
          dthread'[d] \in mThreads' \cup doomed' \/ joined'[dthread'[d]] > 0
    BY <2>2, <2>3, <2>6
  <2> QED BY <2>4, <2>5, <2>7
<1>3. CASE ShutdownReturns
  BY <1>3 DEF ShutdownReturns
<1>7. CASE SetListener
  BY <1>7 DEF SetListener
<1> QED BY <1>1, <1>2, <1>3, <1>4, <1>5, <1>6, <1>7

LEMMA NextAccounted == Counted /\ Owned /\ Accounted /\ [Next]_vars => Accounted'
<1> SUFFICES ASSUME Counted, Owned, Accounted, [Next]_vars PROVE Accounted'
  OBVIOUS
<1>1. CASE UNCHANGED vars
  BY <1>1 DEF Accounted, SomebodyOwns, Told, Closed, vars, callVars, workVars, joinVars
<1>2. CASE Next
  BY <1>2, CallAccounted, WorkerAccounted, OwnerAccounted DEF Next
<1> QED BY <1>1, <1>2

LEMMA PoolInvariant == Spec => [](Counted /\ Owned /\ Accounted)
BY InitCounted, NextCounted, InitOwned, NextOwned, InitAccounted, NextAccounted, PTL DEF Spec

(* When Shutdown returns, a thread that is still alive is being shut down by *)
(* the main thread, provided that no dispatch was under way when Shutdown    *)
(* was called; and every listener that was told of the creation of a thread  *)
(* was told of its end before the thread is down (nsThreadPool::Shutdown and *)
(* Run).                                                                     *)
THEOREM ShutdownComplete ==
  ASSUME ~RacyShutdown
  PROVE  Spec => []AllShutDown
<1>1. Counted /\ Owned /\ Accounted => AllShutDown
  <2> SUFFICES ASSUME Counted, Owned, Accounted PROVE AllShutDown
    OBVIOUS
  <2>1. ASSUME owner = "done", NEW w \in Worker
        PROVE  \/ wpc[w] \in {"none", "down"}
               \/ w \in mainQ \/ joined[w] > 0 \/ onExit[w]
               \/ \E d \in Dispatcher : dthread[d] = w
    <3>1. mThreads = {} /\ doomed = {}
      BY <2>1 DEF Accounted, Closed
    <3> QED BY <3>1 DEF Accounted, SomebodyOwns
  <2>2. \A w \in Worker : wpc[w] = "down" => listener[w] # "created"
    BY DEF Accounted, Told
  <2> QED BY <2>1, <2>2 DEF AllShutDown
<1> QED BY <1>1, PoolInvariant, PTL
--------------------------------------------------------------------------------
(* No event is forgotten *)

LEMMA InitServed == Init => Served
BY PoolConstants DEF Init, Served

(* A step that only wakes workers, or changes a limit, leaves everyone served. *)
LEMMA NotifyServed ==
  ASSUME Counted, Served, wpc' = NotifyAll, mThreadLimit' >= 1,
         UNCHANGED <<mThreads, mEvents, dpc, dthread, wasIdle>>
  PROVE  Served'
<1>1. \A w \in Worker : /\ wpc[w] = "waiting" => wpc'[w] = "notified"
                        /\ wpc[w] # "waiting" => wpc'[w] = wpc[w]
  BY NotifyType DEF Counted
<1>2. mThreads \subseteq Worker
  BY DEF Counted, TypeOK
<1>3. Awake => Awake'
  BY <1>1 DEF Awake
<1> QED BY <1>1, <1>2, <1>3 DEF Served

(* Some worker is idle: it will look at the queue once it is woken. *)
LEMMA IdleAwake ==
  ASSUME Counted, Served, mIdleCount # 0,
         NEW pc, \A w \in Worker : /\ wpc[w] = "waiting" => pc[w] = "notified"
                                   /\ wpc[w] # "waiting" => pc[w] = wpc[w]
  PROVE  \E w \in Worker : pc[w] \in {"notified", "late"}
<1>1. Idle # {}
  BY FS_EmptySet DEF Counted
<1>2. PICK w \in Worker : wasIdle[w]
  BY <1>1 DEF Idle
<1> QED BY <1>2 DEF Served

LEMMA FullPool ==
  ASSUME Counted, Served, ~(Cardinality(mThreads) < mThreadLimit)
  PROVE  \E w \in mThreads : w \in Worker
<1>1. mThreadLimit \in Nat /\ mThreadLimit >= 1 /\ mThreads \subseteq Worker
  BY DEF Counted, TypeOK, Served
<1>2. mThreads = {} => Cardinality(mThreads) = 0
  BY FS_EmptySet
<1> QED BY <1>1, <1>2

LEMMA CallServed ==
  ASSUME Counted, Owned, Accounted, Served, ~RacyShutdown, ~NewThreadMayFail, 0 \notin ThreadLimits, NEW d \in Dispatcher,
         (\E sync \in BOOLEAN : Dispatch(d, sync)) \/ CallStep(d)
  PROVE  Served'
<1>2. CASE PutEvent(d)
  <2>1. /\ dpc[d] = "put" /\ dpc' = [dpc EXCEPT ![d] = IF SpawnNeeded THEN "spawn" ELSE AfterPut(d)]
        /\ AfterPut(d) \in {"idle", "sync"}
    BY <1>2 DEF PutEvent, AfterPut
  <2>2. UNCHANGED <<mThreads, mThreadLimit, dthread, wasIdle>>
    BY <1>2 DEF PutEvent, limitVars
  <2>3. \A w \in Worker : /\ wpc[w] = "waiting" => wpc'[w] = "notified"
                          /\ wpc[w] # "waiting" => wpc'[w] = wpc[w]
    BY <1>2, NotifyType DEF PutEvent, Counted
  <2>4. Awake'
    <3>1. CASE SpawnNeeded
      BY <2>1, <3>1 DEF Awake, Counted, TypeOK
    <3>2. CASE mIdleCount # 0
      BY <2>3, <3>2, IdleAwake DEF Awake
    <3>3. CASE ~(Cardinality(mThreads) < mThreadLimit)
      <4>2. PICK w \in mThreads : w \in Worker
        BY <3>3, FullPool
      <4>3. wpc[w] \in {"fresh", "queued", "loop", "waiting", "notified", "late", "running"}
        BY <4>2 DEF Owned, Pooled, Counted, TypeOK
      <4>4. CASE wpc[w] = "fresh"
        <5>1. PICK e \in Dispatcher : dpc[e] = "start"
          BY <4>2, <4>4 DEF Served
        <5> QED BY <5>1, <2>1 DEF Awake, Counted, TypeOK
      <4>5. CASE wpc[w] # "fresh"
        BY <2>3, <4>2, <4>3, <4>5 DEF Awake
      <4> QED BY <4>4, <4>5
    <3> QED BY <3>1, <3>2, <3>3 DEF SpawnNeeded
  <2>5. \A e \in Dispatcher : dpc'[e] = "start" <=> dpc[e] = "start"
    BY <2>1 DEF Counted, TypeOK
  <2>6. /\ \A w \in mThreads : wpc[w] = "fresh" <=> wpc'[w] = "fresh"
        /\ \A w \in Worker : wpc'[w] # "waiting"
    BY <2>3 DEF Counted, TypeOK
  <2>7. \A w \in Worker : wasIdle'[w] => wpc'[w] \in {"waiting", "notified", "late"}
    BY <2>2, <2>3 DEF Served
  <2> QED BY <2>2, <2>4, <2>5, <2>6, <2>7 DEF Served
<1>5. CASE AddThread(d)
  <2>1. CASE Cardinality(mThreads) < mThreadLimit
    BY <1>5, <2>1 DEF AddThread, Served, Awake, Counted, TypeOK, workVars, limitVars
  <2>2. CASE ~(Cardinality(mThreads) < mThreadLimit)
    <3>1. /\ dpc' = [dpc EXCEPT ![d] = "kill"] /\ dpc[d] = "add"
          /\ UNCHANGED <<mThreads, mThreadLimit, mEvents, dthread, wasIdle, wpc>>
      BY <1>5, <2>2 DEF AddThread, workVars, limitVars
    <3>2. \A e \in Dispatcher : dpc'[e] = "start" <=> dpc[e] = "start"
      BY <3>1 DEF Counted, TypeOK
    <3>3. ASSUME mEvents # <<>> PROVE Awake'
      <4>2. PICK w \in mThreads : w \in Worker
        BY <2>2, FullPool
      <4>3. wpc[w] \in {"fresh", "queued", "loop", "notified", "late", "running"}
        BY <3>3, <4>2 DEF Owned, Pooled, Counted, TypeOK, Served
      <4> QED BY <3>1, <3>2, <4>2, <4>3 DEF Served, Awake
    <3> QED BY <3>1, <3>2, <3>3 DEF Served
  <2> QED BY <2>1, <2>2
<1> USE PoolConstants DEF Counted, TypeOK, Holding, Served, Awake,
           limitVars, callVars, workVars, joinVars
<1>1. ASSUME NEW sync \in BOOLEAN, Dispatch(d, sync) PROVE Served'
  BY <1>1 DEF Dispatch
<1>3. CASE NewThread(d)
  <2>1. PICK n \in Worker : /\ wpc' = [wpc EXCEPT ![n] = "fresh"] /\ wpc[n] = "none"
                            /\ dthread' = [dthread EXCEPT ![d] = n]
                            /\ dpc' = [dpc EXCEPT ![d] = "add"] /\ dpc[d] = "spawn"
    BY <1>3 DEF NewThread
  <2>2. UNCHANGED <<mThreads, mThreadLimit, mEvents, wasIdle>> /\ n \notin mThreads
    BY <1>3, <2>1 DEF NewThread, Owned, Unborn
  <2>3. \A w \in mThreads : wpc'[w] = "fresh" =>
          \E e \in Dispatcher : dpc'[e] = "start" /\ dthread'[e] = w
    BY <2>1, <2>2
  <2>4. Awake'
    BY <2>1
  <2> QED BY <2>1, <2>2, <2>3, <2>4
<1>4. CASE NewThreadFails(d)
  BY <1>4 DEF NewThreadFails, AfterPut
<1>6. CASE StartThread(d)
  <2> DEFINE t == dthread[d]
  <2>1. t \in mThreads /\ t \in Worker /\ wpc[t] = "fresh" /\ dpc[d] = "start"
    BY <1>6 DEF StartThread, Owned, Held, Pooled
  <2>2. /\ wpc' = [wpc EXCEPT ![t] = "queued"] /\ dpc' = [dpc EXCEPT ![d] = AfterPut(d)]
        /\ dthread' = [dthread EXCEPT ![d] = NoWorker]
        /\ UNCHANGED <<mThreads, mThreadLimit, mEvents, wasIdle>>
    BY <1>6, <2>1 DEF StartThread
  <2>3. AfterPut(d) \in {"idle", "sync"}
    BY DEF AfterPut
  <2>4. \A w \in mThreads : wpc'[w] = "fresh" =>
          \E e \in Dispatcher : dpc'[e] = "start" /\ dthread'[e] = w
    BY <2>1, <2>2
  <2>5. \A e \in Dispatcher : dpc'[e] = "start" => dpc[e] = "start" /\ dthread'[e] = dthread[e]
    BY <2>2, <2>3
  <2>6. Awake'
    BY <2>1, <2>2
  <2>7. \A w \in Worker : wasIdle[w] \/ wpc[w] = "waiting" => w # t
    BY <2>1
  <2> QED BY <2>1, <2>2, <2>4, <2>5, <2>6, <2>7
<1>7. CASE KillThread(d)
  <2>1. /\ dpc[d] \in {"kill", "killing"} /\ dpc'[d] \in {"killing", "idle", "sync"}
        /\ \A e \in Dispatcher \ {d} : dpc'[e] = dpc[e] /\ dthread'[e] = dthread[e]
        /\ UNCHANGED <<mThreads, mThreadLimit, mEvents, wasIdle, wpc>>
    BY <1>7 DEF KillThread, AfterPut
  <2>2. Awake => Awake'
    BY <2>1
  <2>3. \A e \in Dispatcher : dpc[e] = "start" \/ dpc'[e] = "start" => e # d
    BY <2>1
  <2>4. \A w \in mThreads : wpc[w] = "fresh" =>
          \E e \in Dispatcher : dpc'[e] = "start" /\ dthread'[e] = w
    <3> SUFFICES ASSUME NEW w \in mThreads, wpc[w] = "fresh"
                 PROVE  \E e \in Dispatcher : dpc'[e] = "start" /\ dthread'[e] = w
      OBVIOUS
    <3>1. PICK e \in Dispatcher : dpc[e] = "start" /\ dthread[e] = w
      OBVIOUS
    <3>2. dpc'[e] = "start" /\ dthread'[e] = w
      BY <2>1, <2>3, <3>1
    <3> QED BY <3>2
  <2>5. \A e \in Dispatcher : dpc'[e] = "start" => dthread'[e] \in mThreads
    BY <2>1, <2>3
  <2> QED BY <2>1, <2>2, <2>4, <2>5
<1>8. CASE SyncDone(d)
  BY <1>8 DEF SyncDone
<1> QED BY <1>1, <1>2, <1>3, <1>4, <1>5, <1>6, <1>7, <1>8 DEF CallStep

LEMMA WorkerServed ==
  ASSUME Counted, Owned, Accounted, Served, ~RacyShutdown, ~NewThreadMayFail, 0 \notin ThreadLimits, NEW w \in Worker,
         WorkStep(w) \/ Timeout(w) \/ MainShutsDown(w)
  PROVE  Served'
<1> USE PoolConstants DEF Counted, TypeOK, Holding, Served, Awake,
           limitVars, callVars, workVars, joinVars
<1>1. CASE RunBegins(w)
  BY <1>1 DEF RunBegins
<1>2. CASE TakeEvent(w)
  BY <1>2 DEF TakeEvent, InMonitor
<1>3. CASE EventReturns(w)
  BY <1>3 DEF EventReturns
<1>4. CASE Exit(w)
  <2>1. /\ wpc[w] \in {"loop", "notified", "late"} /\ wpc' = [wpc EXCEPT ![w] = "leaving"]
        /\ mThreads' = mThreads \ {w} /\ wasIdle' = [wasIdle EXCEPT ![w] = FALSE]
        /\ mEvents = <<>> /\ UNCHANGED <<mThreadLimit, mEvents, dpc, dthread>>
    BY <1>4 DEF Exit, InMonitor
  <2>2. \A d \in Dispatcher : dpc[d] = "start" => dthread[d] # w
    BY <2>1 DEF Owned, Held
  <2> QED BY <2>1, <2>2
<1>5. CASE Wait(w)
  BY <1>5 DEF Wait, InMonitor
<1>6. CASE RunReturns(w)
  BY <1>6 DEF RunReturns
<1>7. CASE ThreadExit(w)
  BY <1>7 DEF ThreadExit
<1>8. CASE Timeout(w)
  BY <1>8 DEF Timeout
<1>9. CASE MainShutsDown(w)
  BY <1>9 DEF MainShutsDown
<1> QED BY <1>1, <1>2, <1>3, <1>4, <1>5, <1>6, <1>7, <1>8, <1>9 DEF WorkStep

LEMMA OwnerServed ==
  ASSUME Counted, Owned, Accounted, Served, ~RacyShutdown, ~NewThreadMayFail, 0 \notin ThreadLimits,
         \/ Shutdown \/ ShutdownNext \/ ShutdownReturns
         \/ \E v \in ThreadLimits : SetThreadLimit(v)
         \/ \E v \in IdleLimits : SetIdleThreadLimit(v)
         \/ SetIdleThreadTimeout \/ SetListener
  PROVE  Served'
<1>4. ASSUME NEW v \in ThreadLimits, SetThreadLimit(v) PROVE Served'
  <2>1. /\ wpc' = NotifyAll /\ mThreadLimit' >= 1
        /\ UNCHANGED <<mThreads, mEvents, dpc, dthread, wasIdle>>
    BY <1>4, PoolConstants DEF SetThreadLimit, callVars, Served
  <2> QED BY <2>1, NotifyServed
<1>5. ASSUME NEW v \in IdleLimits, SetIdleThreadLimit(v) PROVE Served'
  <2>1. /\ wpc' = NotifyAll /\ mThreadLimit' >= 1
        /\ UNCHANGED <<mThreads, mEvents, dpc, dthread, wasIdle>>
    BY <1>5, PoolConstants DEF SetIdleThreadLimit, callVars, Served
  <2> QED BY <2>1, NotifyServed
<1>6. CASE SetIdleThreadTimeout
  <2>1. /\ wpc' = NotifyAll /\ mThreadLimit' >= 1
        /\ UNCHANGED <<mThreads, mEvents, dpc, dthread, wasIdle>>
    BY <1>6, PoolConstants DEF SetIdleThreadTimeout, callVars, Served
  <2> QED BY <2>1, NotifyServed
<1> USE PoolConstants DEF Counted, TypeOK, Holding, Served, Awake,
           limitVars, callVars, workVars, joinVars
<1>1. CASE Shutdown
  BY <1>1, NotifyType DEF Shutdown
<1>2. CASE ShutdownNext
  BY <1>2 DEF ShutdownNext
<1>3. CASE ShutdownReturns
  BY <1>3 DEF ShutdownReturns
<1>7. CASE SetListener
  BY <1>7 DEF SetListener
<1> QED BY <1>1, <1>2, <1>3, <1>4, <1>5, <1>6, <1>7

(* When no dispatch is under way at Shutdown, threads can always be created  *)
(* and the limit is never set to 0, every event that was put is run before   *)
(* the last thread of the pool terminates: ~nsEventQueue finds nothing to    *)
(* leak.  (Without the first of these it does: run pool_leak.)               *)
THEOREM NoEventLeaks ==
  ASSUME ~RacyShutdown, ~NewThreadMayFail, 0 \notin ThreadLimits
  PROVE  Spec => []NothingLeaked
<1>1. Served => NothingLeaked
  BY DEF Served, Awake, NothingLeaked
<1>2. Counted /\ Owned /\ Accounted /\ Served /\ [Next]_vars => Served'
  <2> SUFFICES ASSUME Counted, Owned, Accounted, Served, [Next]_vars PROVE Served'
    OBVIOUS
  <2>1. CASE UNCHANGED vars
    BY <2>1 DEF Served, Awake, vars, limitVars, callVars, workVars
  <2>2. CASE Next
    BY <2>2, CallServed, WorkerServed, OwnerServed DEF Next
  <2> QED BY <2>1, <2>2
<1> QED BY <1>1, <1>2, InitServed, PoolInvariant, PTL DEF Spec
================================================================================
