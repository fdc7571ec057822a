-------------------------- MODULE nsThreadManagerProofs -------------------------
(***************************************************************************)
(* Proofs about nsThreadManager, for any set of threads, filters, bounds   *)
(* and clients, when only the main thread creates threads ("Fortunately,   *)
(* NewThread is only called on the main thread for now").                  *)
(***************************************************************************)
EXTENDS nsThreadManager, nsThreadJoinProofs

(* A thread that runs and is not registered yet. *)
Fresh(u) == \E i \in DOMAIN stk[u] : stk[u][i].at = "start"

(* A thread that NewThread has not returned yet is one that the main      *)
(* thread waits for, in nsThread::Init, doing nothing else.               *)
BroughtUp ==
  \A u \in Thread :
    /\ stk[u] # <<>> /\ u \notin known => Top(Main).fn = "Init" /\ Top(Main).t = u
    /\ mThread[u] \/ mInitialized[u] => u \in known \/ stk[u] # <<>>
    /\ Fresh(u) => u \notin known /\ ~mInitialized[u] /\ Len(stk[u]) = 1
    /\ u # Main /\ stk[u] # <<>> => Fresh(u) \/ mThread[u]

(* Once Shutdown has begun no thread is new, and the table, once it was *)
(* emptied, stays empty.                                                *)
Phases ==
  /\ phase \in Phase
  /\ phase # "up" => ~mgrInitialized /\ \A u \in Thread : stk[u] # <<>> => u \in known
  /\ phase \in {"join", "pending again", "down"} => mThreadsByPRThread = {}
  /\ phase # "join" => threads = {}
  /\ phase = "down" => Top(Main).fn = "app"

(* Clients shut down what they may, and not themselves. *)
Clients ==
  \A j \in Thread \ {Main} : \A i \in DOMAIN stk[j] :
    stk[j][i].fn = "Shutdown" => stk[j][i].t \in Joinable \ {j}

Managing == Joining /\ BroughtUp /\ Phases /\ Clients /\ RunningThreadsListed

(* When the manager is down, a thread that still runs is one that another *)
(* thread, which still runs as well, is in the middle of shutting down.   *)
LeftToEachOther ==
  phase = "down" =>
    \A u \in Thread \ {Main} : stk[u] # <<>> =>
      \E j \in Thread \ {Main, u} : stk[j] # <<>> /\ InShutdown(j, u)
--------------------------------------------------------------------------------
(* What a step of thread t does to the stacks.  NewThread, which also makes *)
(* a stack, is apart.                                                       *)
Stacks(t) ==
  /\ stk[t] # <<>> /\ \A v \in Thread \ {t} : stk'[v] = stk[v]
  /\ stk'[t] = <<>> => t \in known
  /\ \A i \in DOMAIN stk'[t] : stk'[t][i].at = "start" =>
       i \in DOMAIN stk[t] /\ stk[t][i].at = "start" /\ i # Len(stk[t])
  /\ \A i \in DOMAIN stk'[t] : stk'[t][i].fn = "Shutdown" /\ t # Main =>
       \/ stk'[t][i].t \in Joinable \ {t}
       \/ i \in DOMAIN stk[t] /\ stk[t][i].fn = "Shutdown" /\ stk[t][i].t = stk'[t][i].t

LEMMA SameStacks ==
  ASSUME Basic, NEW t \in Thread, stk[t] # <<>>, Top(t).at # "start", stk' = stk
  PROVE  Stacks(t)
BY DEF Stacks, Top

LEMMA MovedStacks ==
  ASSUME Basic, NEW t \in Thread, stk[t] # <<>>, NEW at, at # "start", Moved(t, at)
  PROVE  Stacks(t)
<1> DEFINE n == Len(stk[t])
<1>1. n \in Nat /\ DOMAIN stk[t] = 1 .. n /\ DOMAIN stk'[t] = 1 .. n /\ stk'[t] # <<>>
  BY StackType DEF Moved, Basic
<1>2. \A i \in 1 .. n : i = n \/ i \in 1 .. n - 1
  BY <1>1
<1>3. \A i \in 1 .. n - 1 : stk'[t][i] = stk[t][i]
  BY DEF Moved
<1>4. stk'[t][n].at = at /\ stk'[t][n].fn = stk[t][n].fn /\ stk'[t][n].t = stk[t][n].t
  BY DEF Moved
<1>5. ~(n \in 1 .. n - 1)
  BY <1>1
<1>6. \A v \in Thread \ {t} : stk'[v] = stk[v]
  BY DEF Moved
<1> HIDE DEF n
<1> QED BY <1>1, <1>2, <1>3, <1>4, <1>5, <1>6 DEF Stacks, n

LEMMA LeftStacks ==
  ASSUME Basic, NEW t \in Thread, stk[t] # <<>>, Left(t), t \in known \/ Top(t).fn \notin {"app", "ThreadFunc"}
  PROVE  Stacks(t)
<1> DEFINE n == Len(stk[t])
<1>1. /\ n \in Nat /\ DOMAIN stk[t] = 1 .. n /\ DOMAIN stk'[t] = 1 .. n - 1 /\ Len(stk'[t]) = n - 1
      /\ stk'[t] \in Seq(Frame)
  BY StackType DEF Left, Basic
<1>2. \A i \in 1 .. n - 1 : i \in 1 .. n /\ i # n
  BY <1>1
<1>3. \A i \in 1 .. n - 1 : stk'[t][i] = stk[t][i]
  BY DEF Left
<1>4. stk'[t] = <<>> => t \in known
  <2> SUFFICES ASSUME stk'[t] = <<>>, t \notin known PROVE FALSE
    OBVIOUS
  <2>1. n = 1
    BY <1>1, EmptySeq
  <2>2. FrameShape(t, 1) /\ Top(t) = stk[t][1]
    BY <1>1, <2>1 DEF Basic, Shape, Top
  <2> QED BY <2>2 DEF FrameShape
<1>6. \A v \in Thread \ {t} : stk'[v] = stk[v]
  BY DEF Left
<1> HIDE DEF n
<1> QED BY <1>1, <1>2, <1>3, <1>4, <1>6 DEF Stacks, n

LEMMA IntoStacks ==
  ASSUME Basic, NEW t \in Thread, stk[t] # <<>>, NEW at, NEW f, at # "start", f.at # "start",
         t = Main \/ f.fn # "Shutdown" \/ f.t \in Joinable \ {t}, MovedInto(t, at, f)
  PROVE  Stacks(t)
<1> DEFINE n == Len(stk[t])
<1>1. n \in Nat /\ DOMAIN stk[t] = 1 .. n /\ DOMAIN stk'[t] = 1 .. n + 1 /\ stk'[t] # <<>>
  BY StackType DEF MovedInto, Basic
<1>2. \A i \in 1 .. n + 1 : i = n + 1 \/ i = n \/ (i \in 1 .. n - 1 /\ i \in 1 .. n /\ i # n)
  BY <1>1
<1>3. \A i \in 1 .. n - 1 : stk'[t][i] = stk[t][i]
  BY DEF MovedInto
<1>4. /\ stk'[t][n].at = at /\ stk'[t][n].fn = stk[t][n].fn /\ stk'[t][n].t = stk[t][n].t
      /\ stk'[t][n + 1] = f
  BY DEF MovedInto
<1>5. n \in 1 .. n
  BY <1>1, TopShape DEF Basic
<1>6. \A v \in Thread \ {t} : stk'[v] = stk[v]
  BY DEF MovedInto
<1> HIDE DEF n
<1> QED BY <1>1, <1>2, <1>3, <1>4, <1>5, <1>6 DEF Stacks, n


(* What such a step does to the other things that bring a thread up. *)
Marks(t) ==
  /\ known \subseteq known' /\ \A u \in Thread : u \in known' => u \in known \/ mInitialized[u]
  /\ \A u \in Thread : /\ mThread'[u] => mThread[u] \/ u = t
                       /\ mThread[u] /\ stk[u] # <<>> => mThread'[u]
                       /\ mInitialized'[u] => mInitialized[u] \/ u = t
                       /\ mShutdownRequired'[u] => mShutdownRequired[u]
  /\ Top(t).at = "start" => mThread'[t]
  /\ Top(t).fn = "Init" => Top(t).t \in known' \/ (Top(t).fn' = "Init" /\ Top(t).t' = Top(t).t)

markVars == <<known, mThread, mInitialized, mShutdownRequired>>

LEMMA PlainMarks ==
  ASSUME NEW t \in Thread, UNCHANGED markVars, Top(t).at # "start", Top(t).fn # "Init"
  PROVE  Marks(t)
BY DEF Marks, markVars

LEMMA ClientSteps ==
  ASSUME Orderly, NEW t \in Thread,
         \/ \E u \in Thread : Dispatch(t, u) \/ DispatchSync(t, u) \/ Shutdown(t, u)
         \/ \E f \in Filter : PushEventQueue(t, f)
  PROVE  Stacks(t) /\ Marks(t)
<1>b. Basic /\ TypeOK
  BY DEF Orderly, Basic
<1>1. InClientCode(t)
  BY DEF Dispatch, DispatchSync, Shutdown, PushEventQueue
<1>2. stk[t] # <<>> /\ Top(t).at \in {"loop", "task"} /\ Top(t).fn # "Init"
  BY <1>1 DEF InClientCode, Is
<1>3. ASSUME NEW u \in Thread, Dispatch(t, u) PROVE Stacks(t) /\ Marks(t)
  <2>1. UNCHANGED markVars
    BY <1>3 DEF Dispatch, markVars, shutVars
  <2>2. stk' = stk
    BY <1>b, <1>3, DispatchFacts
  <2> QED BY <1>b, <1>2, <2>1, <2>2, SameStacks, PlainMarks
<1>4. ASSUME NEW u \in Thread, DispatchSync(t, u) PROVE Stacks(t) /\ Marks(t)
  <2>1. UNCHANGED markVars
    BY <1>4 DEF DispatchSync, markVars, shutVars
  <2>2. CASE mEventsAreDoomed[u]
    <3>1. stk' = stk
      BY <1>b, <1>4, <2>2, DispatchSyncFacts
    <3> QED BY <1>b, <1>2, <2>1, <3>1, SameStacks, PlainMarks
  <2>3. CASE ~mEventsAreDoomed[u]
    <3>1. PICK f : f.fn = "Dispatch" /\ f.at = "test" /\ MovedInto(t, Top(t).at, f)
      BY <1>b, <1>4, <2>3, DispatchSyncFacts
    <3>2. Stacks(t)
      BY <1>b, <1>2, <3>1, IntoStacks
    <3> QED BY <1>2, <2>1, <3>2, PlainMarks
  <2> QED BY <2>2, <2>3
<1>5. ASSUME NEW u \in Thread, Shutdown(t, u) PROVE Stacks(t) /\ Marks(t)
  <2>1. MovedInto(t, Top(t).at, ShutdownFrame(t, u))
    BY <1>b, <1>5, ShutdownClaims, ClaimingFacts
  <2>2. ShutdownFrame(t, u).at = "put" /\ ShutdownFrame(t, u).t = u
    BY DEF ShutdownFrame
  <2>3. u \in Joinable \ {t}
    BY <1>5 DEF Shutdown
  <2>4. Stacks(t)
    BY <1>b, <1>2, <2>1, <2>2, <2>3, IntoStacks
  <2>5. /\ UNCHANGED <<known, mThread, mInitialized>>
        /\ mShutdownRequired' = [mShutdownRequired EXCEPT ![u] = FALSE]
    BY <1>5 DEF Shutdown, Claim
  <2>6. Marks(t)
    BY <1>b, <1>2, <2>5 DEF Marks, TypeOK
  <2> QED BY <2>4, <2>6
<1>6. ASSUME NEW f \in Filter, PushEventQueue(t, f) PROVE Stacks(t) /\ Marks(t)
  <2>1. MovedInto(t, Top(t).at, LoopFrame(t))
    BY <1>b, <1>6, PushEventQueueFacts
  <2>2. LoopFrame(t).at = "loop" /\ LoopFrame(t).fn = "EventLoop"
    BY DEF LoopFrame
  <2>3. Stacks(t)
    BY <1>b, <1>2, <2>1, <2>2, IntoStacks
  <2>4. UNCHANGED markVars
    BY <1>6 DEF PushEventQueue, markVars, shutVars
  <2> QED BY <1>2, <2>3, <2>4, PlainMarks
<1> QED BY <1>3, <1>4, <1>5, <1>6

LEMMA ReturningSteps ==
  ASSUME Orderly, NEW t \in Thread,
         RunReturns(t) \/ SyncReply(t) \/ PopEventQueueDone(t) \/ ThreadExit(t) \/ ShutdownJoin(t)
  PROVE  Stacks(t) /\ Marks(t)
<1>b. Basic /\ TypeOK
  BY DEF Orderly, Basic
<1>1. stk[t] # <<>> /\ Top(t).fn # "Init" /\ Top(t).at # "start"
  BY DEF RunReturns, SyncReply, PopEventQueueDone, ThreadExit, ShutdownJoin, Is
<1>2. Left(t)
  BY <1>b, RunReturnsFacts, SyncReplyFacts, PopEventQueueDoneFacts, ThreadExitFacts, ShutdownJoinFacts
<1>3. CASE ThreadExit(t)
  <2>1. t \in known
    <3>1. Len(stk[t]) \in DOMAIN stk[t] /\ stk[t][Len(stk[t])].at = "bye"
      BY <1>b, <1>1, <1>3, TopShape DEF ThreadExit, Is, Top, Basic
    <3> QED BY <3>1 DEF Orderly, Claims, OnlyKnown, Late
  <2>2. UNCHANGED markVars
    BY <1>3 DEF ThreadExit, markVars, shutVars
  <2> QED BY <1>b, <1>1, <1>2, <2>1, <2>2, LeftStacks, PlainMarks
<1>4. CASE RunReturns(t) \/ SyncReply(t) \/ PopEventQueueDone(t)
  <2>1. Top(t).fn \notin {"app", "ThreadFunc"}
    BY <1>4 DEF RunReturns, SyncReply, PopEventQueueDone, Is
  <2>2. UNCHANGED markVars
    BY <1>4 DEF RunReturns, SyncReply, PopEventQueueDone, markVars, shutVars
  <2> QED BY <1>b, <1>1, <1>2, <2>1, <2>2, LeftStacks, PlainMarks
<1>5. CASE ShutdownJoin(t)
  <2>1. Top(t).fn = "Shutdown"
    BY <1>5 DEF ShutdownJoin, Is
  <2>2. /\ UNCHANGED <<known, mInitialized, mShutdownRequired>> /\ stk[Top(t).t] = <<>>
        /\ mThread' = [mThread EXCEPT ![Top(t).t] = FALSE]
    BY <1>5 DEF ShutdownJoin
  <2>3. Marks(t)
    BY <1>b, <1>1, <2>2 DEF Marks, TypeOK
  <2> QED BY <1>b, <1>1, <1>2, <2>1, <2>3, LeftStacks
<1> QED BY <1>3, <1>4, <1>5

LEMMA MovingSteps ==
  ASSUME Orderly, NEW t \in Thread,
         \/ PopEventQueue(t) \/ RepostEvent(t) \/ SyncTaskReturns(t)
         \/ DispatchSyncTest(t) \/ DispatchSyncNoWait(t) \/ ShutdownPost(t) \/ ShutdownAcked(t)
         \/ LeaveLoop(t) \/ Doom(t) \/ DrainMore(t) \/ Unregister(t) \/ DispatchAck(t)
  PROVE  Stacks(t) /\ Marks(t)
<1>b. Basic /\ TypeOK
  BY DEF Orderly, Basic
<1>1. stk[t] # <<>> /\ Top(t).fn # "Init" /\ Top(t).at # "start"
  BY DEF PopEventQueue, RepostEvent, SyncTaskReturns, DispatchSyncTest, DispatchSyncNoWait, ShutdownPost,
         ShutdownAcked, LeaveLoop, Doom, DrainMore, Unregister, DispatchAck, Is
<1>2. UNCHANGED markVars
  BY DEF PopEventQueue, RepostEvent, SyncTaskReturns, DispatchSyncTest, DispatchSyncNoWait, ShutdownPost,
         ShutdownAcked, LeaveLoop, Doom, DrainMore, Unregister, DispatchAck, markVars, shutVars
<1>3. Marks(t)
  BY <1>1, <1>2, PlainMarks
<1> SUFFICES Stacks(t)
  BY <1>3
<1>4. ASSUME NEW at, at # "start", Moved(t, at) PROVE Stacks(t)
  BY <1>b, <1>1, <1>4, MovedStacks
<1>5. CASE RepostEvent(t)
  BY <1>b, <1>1, <1>5, RepostEventFacts, SameStacks
<1>6. CASE DispatchSyncTest(t)
  <2>1. CASE Top(t).id \in mSyncTask
    BY <1>b, <1>4, <1>6, <2>1, DispatchSyncTestFacts
  <2>2. CASE Top(t).id \notin mSyncTask
    <3>1. Top(t).fn = "Dispatch"
      BY <1>6 DEF DispatchSyncTest, Is
    <3> QED BY <1>b, <1>1, <1>6, <2>2, <3>1, DispatchSyncTestFacts, LeftStacks
  <2> QED BY <2>1, <2>2
<1>7. CASE \/ PopEventQueue(t) \/ SyncTaskReturns(t) \/ DispatchSyncNoWait(t)
           \/ ShutdownPost(t) \/ ShutdownAcked(t) \/ LeaveLoop(t)
  BY <1>b, <1>4, <1>7, PopEventQueueFacts, SyncTaskReturnsFacts, DispatchSyncNoWaitFacts,
     ShutdownPostFacts, ShutdownAckedFacts, LeaveLoopFacts
<1>8. CASE Doom(t) \/ DrainMore(t) \/ Unregister(t)
  BY <1>b, <1>4, <1>8, DoomFacts, DrainMoreFacts, UnregisterFacts
<1>9. CASE DispatchAck(t)
  <2>1. Len(stk[t]) \in DOMAIN stk[t] /\ stk[t][Len(stk[t])].at = "ack"
    BY <1>b, <1>1, <1>9, TopShape DEF DispatchAck, Is, Top, Basic
  <2>2. mShutdownContext[t] # NoThread
    BY <2>1 DEF Orderly, Claims, OnlyKnown, Late
  <2> QED BY <1>b, <1>4, <1>9, <2>2, DispatchAckFacts
<1> QED BY <1>5, <1>6, <1>7, <1>8, <1>9

LEMMA TakingSteps ==
  ASSUME Orderly, NEW t \in Thread, ProcessNextEvent(t) \/ ThreadStartup(t)
  PROVE  Stacks(t) /\ Marks(t)
<1>b. Basic /\ TypeOK
  BY DEF Orderly, Basic
<1>1. PICK at \in At : Taking(t, at)
  BY TakingCases
<1>2. stk[t] # <<>> /\ at # "start" /\ Top(t).at # "start"
  BY <1>1 DEF Taking
<1>3. Top(t).fn # "Init"
  BY DEF ProcessNextEvent, ThreadStartup, Is
<1>4. Stacks(t)
  <2>1. CASE Runs(NextEvent(t))
    <3>1. MovedInto(t, at, RunFrame(t, NextEvent(t)))
      BY <1>b, <1>1, <2>1, TakingFacts
    <3>2. RunFrame(t, NextEvent(t)).at = "task" /\ RunFrame(t, NextEvent(t)).fn # "Shutdown"
      BY DEF RunFrame
    <3> QED BY <1>b, <1>2, <3>1, <3>2, IntoStacks
  <2>2. CASE ~Runs(NextEvent(t))
    BY <1>b, <1>1, <1>2, <2>2, TakingFacts, MovedStacks
  <2> QED BY <2>1, <2>2
<1>5. /\ UNCHANGED <<known, mThread, mShutdownRequired>>
      /\ mInitialized' = mInitialized \/ mInitialized' = [mInitialized EXCEPT ![t] = TRUE]
  BY <1>1 DEF Taking, TakeAndRun, RunEvent
<1>6. Marks(t)
  BY <1>b, <1>2, <1>3, <1>5 DEF Marks, TypeOK
<1> QED BY <1>4, <1>6

LEMMA BringingSteps ==
  ASSUME Orderly, NEW t \in Thread, ThreadStart(t) \/ InitPutStartup(t) \/ InitDone(t)
  PROVE  Stacks(t) /\ Marks(t)
<1>b. Basic /\ TypeOK
  BY DEF Orderly, Basic
<1>1. stk[t] # <<>>
  BY DEF ThreadStart, InitPutStartup, InitDone, Is
<1>2. CASE ThreadStart(t)
  <2>1. Stacks(t)
    BY <1>b, <1>1, <1>2, ThreadStartFacts, MovedStacks
  <2>2. /\ UNCHANGED <<known, mInitialized, mShutdownRequired>> /\ Top(t).fn # "Init"
        /\ mThread' = [mThread EXCEPT ![t] = TRUE]
    BY <1>2 DEF ThreadStart, Is
  <2>3. Marks(t)
    BY <1>b, <2>2 DEF Marks, TypeOK
  <2> QED BY <2>1, <2>3
<1>3. CASE InitPutStartup(t)
  <2>1. Moved(t, "wait")
    BY <1>b, <1>3, InitPutStartupFacts
  <2>2. Stacks(t)
    BY <1>b, <1>1, <2>1, MovedStacks
  <2>3. UNCHANGED markVars /\ Top(t).at # "start" /\ Top(t).fn = "Init"
    BY <1>3 DEF InitPutStartup, Is, markVars, shutVars
  <2>4. Top(t).fn' = "Init" /\ Top(t).t' = Top(t).t
    BY <2>1, <2>3 DEF Moved, Top
  <2>5. Marks(t)
    BY <2>3, <2>4 DEF Marks, markVars
  <2> QED BY <2>2, <2>5
<1>4. CASE InitDone(t)
  <2>1. Left(t) /\ Top(t).fn = "Init" /\ Top(t).at # "start"
    BY <1>b, <1>4, InitDoneFacts DEF InitDone, Is
  <2>2. Stacks(t)
    BY <1>b, <1>1, <2>1, LeftStacks
  <2>3. /\ UNCHANGED <<mThread, mInitialized, mShutdownRequired>>
        /\ known' = known \cup {Top(t).t} /\ mInitialized[Top(t).t]
    BY <1>4 DEF InitDone, shutVars
  <2>4. Marks(t)
    BY <2>1, <2>3 DEF Marks
  <2> QED BY <2>2, <2>4
<1> QED BY <1>2, <1>3, <1>4

LEMMA ClaimSteps ==
  ASSUME Orderly, NEW u \in Thread, Claiming(Main, u)
  PROVE  Stacks(Main) /\ Marks(Main)
<1>b. Basic /\ TypeOK /\ Main \in Thread
  BY ThreadConstants DEF Orderly, Basic
<1>1. stk[Main] # <<>> /\ Top(Main).at \in {"loop", "task"} /\ Top(Main).fn # "Init"
  BY DEF Claiming, InClientCode, Is
<1>2. MovedInto(Main, Top(Main).at, ShutdownFrame(Main, u))
  BY <1>b, ClaimingFacts
<1>3. ShutdownFrame(Main, u).at = "put"
  BY DEF ShutdownFrame
<1>4. Stacks(Main)
  BY <1>b, <1>1, <1>2, <1>3, IntoStacks
<1>5. /\ UNCHANGED <<known, mThread, mInitialized>>
      /\ mShutdownRequired' = [mShutdownRequired EXCEPT ![u] = FALSE]
  BY DEF Claiming, Claim
<1>6. Marks(Main)
  BY <1>b, <1>1, <1>5 DEF Marks, TypeOK
<1> QED BY <1>4, <1>6

(* All steps of a thread but NewThread. *)
OldThreadStep(t) == \/ \E u \in Thread : Dispatch(t, u) \/ DispatchSync(t, u) \/ Shutdown(t, u)
                    \/ \E f \in Filter : PushEventQueue(t, f)
                    \/ PopEventQueue(t) \/ ThreadStep(t)

LEMMA StepFacts ==
  ASSUME Orderly, NEW t \in Thread, OldThreadStep(t)
  PROVE  Stacks(t) /\ Marks(t) /\ Next
<1>1. CASE \/ \E u \in Thread : Dispatch(t, u) \/ DispatchSync(t, u) \/ Shutdown(t, u)
           \/ \E f \in Filter : PushEventQueue(t, f)
  BY <1>1, ClientSteps DEF Next, ClientStep
<1>2. CASE PopEventQueue(t)
  BY <1>2, MovingSteps DEF Next
<1>3. CASE ThreadStep(t)
  <2>1. Stacks(t) /\ Marks(t)
    BY <1>3, ReturningSteps, MovingSteps, TakingSteps, BringingSteps DEF ThreadStep
  <2> QED BY <1>3, <2>1 DEF Next
<1> QED BY <1>1, <1>2, <1>3 DEF OldThreadStep
--------------------------------------------------------------------------------
(* The parts of the invariant *)

LEMMA FreshIsNew ==
  ASSUME Basic, BroughtUp, NEW t \in Thread, Stacks(t)
  PROVE  ~Fresh(t)'
<1> SUFFICES ASSUME NEW i \in DOMAIN stk'[t], stk'[t][i].at = "start" PROVE FALSE
  BY DEF Fresh
<1>1. i \in DOMAIN stk[t] /\ stk[t][i].at = "start" /\ i # Len(stk[t])
  BY DEF Stacks
<1>2. Len(stk[t]) = 1
  BY <1>1 DEF BroughtUp, Fresh
<1>3. i \in 1 .. 1
  BY <1>1, <1>2, StackType DEF Basic
<1> QED BY <1>1, <1>2, <1>3

LEMMA FreshMeans ==
  ASSUME Basic, BroughtUp, NEW t \in Thread, Fresh(t)
  PROVE  stk[t] # <<>> /\ Top(t).at = "start"
<1>1. PICK i \in DOMAIN stk[t] : stk[t][i].at = "start"
  BY DEF Fresh
<1>2. Len(stk[t]) = 1 /\ DOMAIN stk[t] = 1 .. 1
  BY StackType DEF BroughtUp, Basic
<1>3. i = 1
  BY <1>1, <1>2
<1> QED BY <1>1, <1>2, <1>3, EmptySeq DEF Top

LEMMA StepBroughtUp ==
  ASSUME Basic, BroughtUp, NEW t \in Thread, Stacks(t), Marks(t)
  PROVE  BroughtUp'
<1>b. TypeOK /\ Main \in Thread
  BY ThreadConstants DEF Basic
<1> SUFFICES ASSUME NEW u \in Thread
             PROVE  /\ stk'[u] # <<>> /\ u \notin known' => Top(Main).fn' = "Init" /\ Top(Main).t' = u
                    /\ mThread'[u] \/ mInitialized'[u] => u \in known' \/ stk'[u] # <<>>
                    /\ Fresh(u)' => u \notin known' /\ ~mInitialized'[u] /\ Len(stk'[u]) = 1
                    /\ u # Main /\ stk'[u] # <<>> => Fresh(u)' \/ mThread'[u]
  BY DEF BroughtUp
<1>1. u # t => stk'[u] = stk[u]
  BY DEF Stacks
<1>2. stk[t] # <<>>
  BY DEF Stacks
<1>3. ASSUME stk'[u] # <<>>, u \notin known' PROVE Top(Main).fn' = "Init" /\ Top(Main).t' = u
  <2>1. stk[u] # <<>> /\ u \notin known
    BY <1>1, <1>2, <1>3 DEF Marks
  <2>2. Top(Main).fn = "Init" /\ Top(Main).t = u
    BY <2>1 DEF BroughtUp
  <2>3. CASE t = Main
    BY <1>3, <2>2, <2>3 DEF Marks
  <2>4. CASE t # Main
    <3>1. stk'[Main] = stk[Main]
      BY <1>b, <2>4 DEF Stacks
    <3> QED BY <2>2, <3>1 DEF Top
  <2> QED BY <2>3, <2>4
<1>4. ASSUME mThread'[u] \/ mInitialized'[u] PROVE u \in known' \/ stk'[u] # <<>>
  <2>1. CASE u = t
    BY <2>1 DEF Stacks, Marks
  <2>2. CASE u # t
    <3>1. mThread[u] \/ mInitialized[u]
      BY <1>4, <2>2 DEF Marks
    <3> QED BY <1>1, <2>2, <3>1 DEF BroughtUp, Marks
  <2> QED BY <2>1, <2>2
<1>5. ASSUME Fresh(u)' PROVE u \notin known' /\ ~mInitialized'[u] /\ Len(stk'[u]) = 1
  <2>1. u # t /\ stk'[u] = stk[u]
    BY <1>1, <1>5, FreshIsNew
  <2>2. Fresh(u)
    BY <1>5, <2>1 DEF Fresh
  <2> QED BY <2>1, <2>2 DEF BroughtUp, Marks
<1>6. ASSUME u # Main, stk'[u] # <<>> PROVE Fresh(u)' \/ mThread'[u]
  <2>1. stk[u] # <<>>
    BY <1>1, <1>2, <1>6
  <2>2. CASE mThread[u]
    BY <2>1, <2>2 DEF Marks
  <2>3. CASE Fresh(u)
    <3>1. CASE u = t
      BY <2>3, <3>1, FreshMeans DEF Marks
    <3>2. CASE u # t
      BY <1>1, <2>3, <3>2 DEF Fresh
    <3> QED BY <3>1, <3>2
  <2> QED BY <1>6, <2>1, <2>2, <2>3 DEF BroughtUp
<1> QED BY <1>3, <1>4, <1>5, <1>6

LEMMA NewBroughtUp ==
  ASSUME Orderly, BroughtUp, Creator \subseteq {Main}, NEW t \in Thread, NEW u \in Thread, NewThread(t, u)
  PROVE  BroughtUp' /\ t = Main
<1>b. Basic /\ TypeOK
  BY DEF Orderly, Basic
<1>1. t = Main /\ u # Main /\ u \notin known /\ stk[u] = <<>> /\ Main \in known /\ stk[Main] # <<>>
  BY <1>b DEF NewThread, Orderly, Claims, OnlyKnown, Basic, Shape
<1>2. Created(Main, u)
  BY <1>b, <1>1, NewThreadStep
<1>3. Top(Main).fn # "Init"
  BY <1>1 DEF NewThread, InClientCode, Is
<1>4. UNCHANGED <<known, mThread, mInitialized>>
  BY DEF NewThread
<1>5. Top(Main).fn' = "Init" /\ Top(Main).t' = u
  BY <1>2 DEF Created, Top, InitFrame
<1>6. ~Fresh(Main)'
  <2> SUFFICES ASSUME NEW i \in DOMAIN stk'[Main], stk'[Main][i].at = "start" PROVE FALSE
    BY DEF Fresh
  <2> DEFINE n == Len(stk[Main])
  <2>1. n \in Nat /\ DOMAIN stk[Main] = 1 .. n /\ DOMAIN stk'[Main] = 1 .. n + 1
    BY <1>b, <1>1, <1>2, StackType DEF Created
  <2>2. (\A k \in 1 .. n : stk'[Main][k] = stk[Main][k]) /\ stk'[Main][n + 1] = InitFrame(Main, u)
    BY <1>2 DEF Created
  <2>3. i \in 1 .. n \/ i = n + 1
    BY <2>1
  <2>4. InitFrame(Main, u).at = "put"
    BY DEF InitFrame
  <2>5. i \in DOMAIN stk[Main] /\ stk[Main][i].at = "start"
    BY <2>1, <2>2, <2>3, <2>4
  <2> QED BY <1>1, <2>5 DEF BroughtUp, Fresh
<1>7. Fresh(u)' /\ Len(stk'[u]) = 1 /\ stk'[u] # <<>>
  BY <1>2 DEF Created, Fresh, FirstFrame
<1>8. \A v \in Thread \ {Main, u} : stk'[v] = stk[v]
  BY <1>2 DEF Created
<1>9. ASSUME NEW v \in Thread
      PROVE  /\ stk'[v] # <<>> /\ v \notin known' => Top(Main).fn' = "Init" /\ Top(Main).t' = v
             /\ mThread'[v] \/ mInitialized'[v] => v \in known' \/ stk'[v] # <<>>
             /\ Fresh(v)' => v \notin known' /\ ~mInitialized'[v] /\ Len(stk'[v]) = 1
             /\ v # Main /\ stk'[v] # <<>> => Fresh(v)' \/ mThread'[v]
  <2>1. CASE v = Main
    BY <1>1, <1>4, <1>6, <2>1
  <2>2. CASE v = u
    <3>1. ~mInitialized[u]
      BY <1>1 DEF BroughtUp
    <3> QED BY <1>1, <1>4, <1>5, <1>7, <2>2, <3>1
  <2>3. CASE v \notin {Main, u}
    <3>1. stk'[v] = stk[v] /\ (Fresh(v)' <=> Fresh(v))
      BY <1>8, <2>3 DEF Fresh
    <3>2. stk[v] # <<>> => v \in known
      BY <1>3 DEF BroughtUp
    <3> QED BY <1>4, <3>1, <3>2 DEF BroughtUp
  <2> QED BY <2>1, <2>2, <2>3
<1> QED BY <1>1, <1>9 DEF BroughtUp
--------------------------------------------------------------------------------
(* The threads' steps, as the manager sees them *)

(* A step that leaves the manager's variables alone. *)
Unseen(t) == /\ OldThreadStep(t) /\ UNCHANGED mgrVars /\ ~(phase = "down" /\ Outermost(t))
             /\ mThread' = mThread \/ \E u \in Thread : mThread' = [mThread EXCEPT ![u] = FALSE]

LEMMA ManagerCases ==
  ASSUME Basic, MNext
  PROVE  \/ \E t \in Thread : \/ Unseen(t) \/ RegisterCurrentThread(t) \/ UnregisterCurrentThread(t)
                              \/ \E u \in Thread : MNewThread(t, u)
         \/ \E u \in Thread : JoinThread(u)
         \/ ManagerShutdown \/ GatherThreads \/ AllJoined \/ ManagerDown
<1>1. ASSUME NEW t \in Thread, MClient(t) PROVE Unseen(t)
  <2>1. ~(phase = "down" /\ Outermost(t))
    BY <1>1 DEF MClient
  <2>2. mThread' = mThread
    BY <1>1 DEF MClient, Dispatch, DispatchSync, Shutdown, Claim, PushEventQueue, PopEventQueue, shutVars
  <2> QED BY <1>1, <2>1, <2>2 DEF MClient, Unseen, OldThreadStep
<1>2. ASSUME NEW t \in Thread, MProcessNextEvent(t) PROVE Unseen(t)
  <2>1. ~(phase = "down" /\ Outermost(t))
    BY <1>2 DEF MProcessNextEvent
  <2>2. mThread' = mThread
    BY <1>2 DEF MProcessNextEvent, ProcessNextEvent, TakeAndRun
  <2> QED BY <1>2, <2>1, <2>2 DEF MProcessNextEvent, Unseen, OldThreadStep, ThreadStep
<1>3. ASSUME NEW t \in Thread, MThreadStep(t) PROVE Unseen(t)
  <2>1. ~Outermost(t)
    BY <1>3 DEF MThreadStep, Outermost, Is, RunReturns, SyncTaskReturns, SyncReply, DispatchSyncTest,
         DispatchSyncNoWait, ShutdownPost, ShutdownAcked, ShutdownJoin, InitPutStartup, InitDone,
         ThreadStartup, LeaveLoop, Doom, DrainMore, DispatchAck, ThreadExit, RepostEvent, PopEventQueueDone
  <2>2. ThreadStep(t) /\ UNCHANGED mgrVars
    BY <1>3 DEF MThreadStep, ThreadStep
  <2>3. CASE ShutdownJoin(t)
    <3>1. mThread' = [mThread EXCEPT ![Top(t).t] = FALSE] /\ stk[t] # <<>>
      BY <2>3 DEF ShutdownJoin, Is
    <3>2. Top(t).t \in Thread
      BY <3>1, TopShape DEF Basic, Frame
    <3> QED BY <2>1, <2>2, <3>1, <3>2 DEF Unseen, OldThreadStep
  <2>4. CASE ~ShutdownJoin(t)
    <3>1. mThread' = mThread
      BY <1>3, <2>4 DEF MThreadStep, RunReturns, SyncTaskReturns, SyncReply, DispatchSyncTest,
           DispatchSyncNoWait, ShutdownPost, ShutdownAcked, InitPutStartup, InitDone, ThreadStartup,
           TakeAndRun, LeaveLoop, Doom, DrainMore, DispatchAck, ThreadExit, RepostEvent,
           PopEventQueueDone, shutVars
    <3> QED BY <2>1, <2>2, <3>1 DEF Unseen, OldThreadStep
  <2> QED BY <2>3, <2>4
<1> QED BY <1>1, <1>2, <1>3 DEF MNext, ManagerStep, MStep

(* The manager claims threads that it knows. *)
LEMMA JoinClaims ==
  ASSUME Orderly, BroughtUp, NEW u \in Thread, JoinThread(u), mShutdownRequired[u]
  PROVE  Claiming(Main, u)
<1>1. Is(Main, "app", "loop") /\ Claim(Main, u) /\ mThread[u]
  BY DEF JoinThread, Outermost, Claim
<1>2. Top(Main).fn # "Init"
  BY <1>1 DEF Is
<1>3. u \in known
  BY <1>1, <1>2 DEF BroughtUp
<1> QED BY <1>1, <1>3 DEF Claiming, InClientCode

(* A claimed thread is not required to be shut down any more. *)
LEMMA EndingClaimed ==
  ASSUME Joining, NEW t \in Thread, Is(t, "ThreadFunc", "gone")
  PROVE  ~mShutdownRequired[t]
<1>b. Orderly /\ Basic /\ TypeOK
  BY DEF Joining, Orderly, Basic
<1>1. Len(stk[t]) \in DOMAIN stk[t] /\ stk[t][Len(stk[t])].at = "gone" /\ stk[t] # <<>>
  BY <1>b, TopShape DEF Is, Top, Basic
<1>2. mShutdownContext[t] # NoThread
  BY <1>b, <1>1 DEF Orderly, Claims, OnlyKnown, Late
<1>3. mShutdownContext[t] \in Thread
  BY <1>b, <1>2 DEF TypeOK
<1>4. PICK j \in Thread : InShutdown(j, t)
  BY <1>1, <1>3 DEF Joining, Contexts
<1>5. PICK i \in DOMAIN stk[j] : stk[j][i].fn = "Shutdown" /\ stk[j][i].t = t
  BY <1>4, InShutdownMeans
<1> QED BY <1>b, <1>5 DEF Orderly, Claims, FramesClaim, FrameClaims

(* What a step of an old thread t keeps, whatever the manager does. *)
LEMMA StepKeeps ==
  ASSUME Basic, BroughtUp, Clients, NEW t \in Thread, Stacks(t), Marks(t)
  PROVE  /\ BroughtUp' /\ Clients'
         /\ \A u \in Thread : stk'[u] # <<>> => stk[u] # <<>>
         /\ \A u \in Thread : u \in known => u \in known'
<1>1. \A u \in Thread : stk'[u] # <<>> => stk[u] # <<>>
  BY DEF Stacks
<1>2. Clients'
  <2> SUFFICES ASSUME NEW j \in Thread \ {Main}, NEW i \in DOMAIN stk'[j], stk'[j][i].fn = "Shutdown"
               PROVE  stk'[j][i].t \in Joinable \ {j}
    BY DEF Clients
  <2>1. CASE j = t
    BY <2>1 DEF Stacks, Clients
  <2>2. CASE j # t
    BY <2>2 DEF Stacks, Clients
  <2> QED BY <2>1, <2>2
<1> QED BY <1>1, <1>2, StepBroughtUp DEF Marks
--------------------------------------------------------------------------------
LEMMA UnseenKeeps ==
  ASSUME Managing, NEW t \in Thread, Unseen(t)
  PROVE  Managing'
<1>b. Joining /\ Orderly /\ Basic /\ BroughtUp /\ Clients
  BY DEF Managing, Joining, Orderly
<1>1. Stacks(t) /\ Marks(t) /\ Next
  BY <1>b, StepFacts DEF Unseen
<1>2. Joining'
  BY <1>b, <1>1, NextJoining
<1>3. /\ BroughtUp' /\ Clients'
      /\ \A u \in Thread : stk'[u] # <<>> => stk[u] # <<>>
      /\ \A u \in Thread : u \in known => u \in known'
  BY <1>b, <1>1, StepKeeps
<1>4. UNCHANGED <<mgrInitialized, mThreadsByPRThread, threads, phase>> /\ ~(phase = "down" /\ Outermost(t))
  BY DEF Unseen, mgrVars
<1>5. phase = "down" => Top(Main).fn' = "app"
  <2> SUFFICES ASSUME phase = "down" PROVE Top(Main).fn' = "app"
    OBVIOUS
  <2>1. Top(Main).fn = "app" /\ stk[Main] # <<>>
    BY <1>b DEF Managing, Phases, Basic, Shape
  <2>2. Top(Main).at = "loop"
    <3>1. Top(Main).at \in Places[Top(Main).fn]
      BY <1>b, <2>1, TopShape, ThreadConstants DEF Basic
    <3> QED BY <2>1, <3>1 DEF Places
  <2>3. t # Main
    BY <1>4, <2>1, <2>2 DEF Outermost, Is
  <2>4. stk'[Main] = stk[Main]
    BY <1>1, <2>3, ThreadConstants DEF Stacks
  <2> QED BY <2>1, <2>4 DEF Top
<1>6. Phases'
  BY <1>3, <1>4, <1>5 DEF Managing, Phases
<1>7. RunningThreadsListed'
  <2> SUFFICES ASSUME NEW u \in Thread \ {Main}, mThread'[u], mShutdownRequired'[u]
               PROVE  u \in mThreadsByPRThread' \cup threads'
    BY DEF RunningThreadsListed
  <2>1. mShutdownRequired[u]
    BY <1>1 DEF Marks
  <2>2. mThread[u]
    BY <1>b DEF Unseen, Basic, TypeOK
  <2> QED BY <1>4, <2>1, <2>2 DEF Managing, RunningThreadsListed
<1> QED BY <1>2, <1>3, <1>6, <1>7 DEF Managing

(* Before it is registered a thread is not known, so Shutdown is not under way. *)
LEMMA RegisterKeeps ==
  ASSUME Managing, NEW t \in Thread, RegisterCurrentThread(t)
  PROVE  Managing'
<1>b. Joining /\ Orderly /\ Basic /\ BroughtUp /\ Clients
  BY DEF Managing, Joining, Orderly
<1>0. ThreadStart(t) /\ OldThreadStep(t)
  BY DEF RegisterCurrentThread, OldThreadStep, ThreadStep
<1>1. Stacks(t) /\ Marks(t) /\ Next
  BY <1>b, <1>0, StepFacts
<1>2. Joining'
  BY <1>b, <1>1, NextJoining
<1>3. BroughtUp' /\ Clients'
  BY <1>b, <1>1, StepKeeps
<1>4. /\ mThreadsByPRThread' = mThreadsByPRThread \cup {t}
      /\ UNCHANGED <<mgrInitialized, threads, phase>>
  BY DEF RegisterCurrentThread
<1>5. phase = "up"
  <2>1. stk[t] # <<>> /\ Len(stk[t]) \in DOMAIN stk[t] /\ stk[t][Len(stk[t])].at = "start"
    BY <1>b, <1>0, TopShape DEF ThreadStart, Is, Top, Basic
  <2>2. t \notin known
    BY <1>b, <2>1 DEF BroughtUp, Fresh
  <2> QED BY <2>1, <2>2 DEF Managing, Phases
<1>6. Phases'
  BY <1>4, <1>5 DEF Managing, Phases, Phase
<1>7. RunningThreadsListed'
  BY <1>1, <1>4 DEF Managing, RunningThreadsListed, Marks
<1> QED BY <1>2, <1>3, <1>6, <1>7 DEF Managing

LEMMA UnregisterKeeps ==
  ASSUME Managing, NEW t \in Thread, UnregisterCurrentThread(t)
  PROVE  Managing'
<1>b. Joining /\ Orderly /\ Basic /\ BroughtUp /\ Clients /\ TypeOK
  BY DEF Managing, Joining, Orderly, Basic
<1>0. Unregister(t) /\ OldThreadStep(t) /\ Is(t, "ThreadFunc", "gone")
  BY DEF UnregisterCurrentThread, OldThreadStep, ThreadStep, Unregister
<1>1. Stacks(t) /\ Marks(t) /\ Next
  BY <1>b, <1>0, StepFacts
<1>2. Joining'
  BY <1>b, <1>1, NextJoining
<1>3. /\ BroughtUp' /\ Clients'
      /\ \A u \in Thread : stk'[u] # <<>> => stk[u] # <<>>
      /\ \A u \in Thread : u \in known => u \in known'
  BY <1>b, <1>1, StepKeeps
<1>4. /\ mThreadsByPRThread' = mThreadsByPRThread \ {t}
      /\ UNCHANGED <<mgrInitialized, threads, phase, mThread, mShutdownRequired>>
  BY DEF UnregisterCurrentThread, Unregister, shutVars
<1>5. t # Main
  <2>1. Len(stk[t]) = 1 /\ FrameShape(t, Len(stk[t]))
    BY <1>b, <1>0, TopShape DEF Is, Basic
  <2> QED BY <1>0, <2>1 DEF FrameShape, Is, Top
<1>6. Top(Main).fn' = Top(Main).fn
  BY <1>1, <1>5, ThreadConstants DEF Stacks, Top
<1>7. Phases'
  BY <1>3, <1>4, <1>6 DEF Managing, Phases
<1>8. RunningThreadsListed'
  BY <1>b, <1>0, <1>4, EndingClaimed DEF Managing, RunningThreadsListed
<1> QED BY <1>2, <1>3, <1>7, <1>8 DEF Managing

LEMMA NewThreadManaged ==
  ASSUME Managing, Creator \subseteq {Main}, NEW t \in Thread, NEW u \in Thread, MNewThread(t, u)
  PROVE  Managing'
<1>b. Joining /\ Orderly /\ Basic /\ BroughtUp /\ Clients /\ TypeOK
  BY DEF Managing, Joining, Orderly, Basic
<1>0. NewThread(t, u) /\ mgrInitialized /\ UNCHANGED <<mgrInitialized, mThreadsByPRThread, threads, phase>>
  BY DEF MNewThread, mgrVars
<1>1. Joining'
  BY <1>b, <1>0, NextJoining DEF Next, ClientStep
<1>2. BroughtUp' /\ t = Main
  BY <1>b, <1>0, NewBroughtUp
<1>3. Created(Main, u)
  BY <1>b, <1>0, <1>2, NewThreadStep
<1>4. Clients'
  <2> SUFFICES ASSUME NEW j \in Thread \ {Main}, NEW i \in DOMAIN stk'[j], stk'[j][i].fn = "Shutdown"
               PROVE  stk'[j][i].t \in Joinable \ {j}
    BY DEF Clients
  <2>1. CASE j = u
    BY <1>3, <2>1 DEF Created, FirstFrame
  <2>2. CASE j # u
    BY <1>b, <1>3, <2>2 DEF Created, Clients
  <2> QED BY <2>1, <2>2
<1>5. phase = "up"
  BY <1>0 DEF Managing, Phases
<1>6. Phases'
  BY <1>0, <1>5 DEF Managing, Phases, Phase
<1>7. ~mThread[u] /\ mThread' = mThread /\ mShutdownRequired' = [mShutdownRequired EXCEPT ![u] = TRUE]
  BY <1>0 DEF NewThread
<1>8. RunningThreadsListed'
  BY <1>b, <1>0, <1>7 DEF Managing, RunningThreadsListed, TypeOK
<1> QED BY <1>1, <1>2, <1>4, <1>6, <1>8 DEF Managing

(* Where the threads do nothing. *)
LEMMA StillKept ==
  ASSUME Managing, UNCHANGED vars
  PROVE  Joining' /\ BroughtUp' /\ Clients' /\ UNCHANGED <<stk, known, mThread, mShutdownRequired>>
<1>1. UNCHANGED <<stk, known, mThread, mInitialized, mShutdownRequired>>
  BY DEF vars, shutVars, queueVars, histVars
<1>2. Joining'
  BY StutterJoining DEF Managing
<1>3. BroughtUp' /\ Clients'
  BY <1>1 DEF Managing, BroughtUp, Clients, Fresh, Top
<1> QED BY <1>1, <1>2, <1>3

LEMMA JoinThreadKeeps ==
  ASSUME Managing, NEW u \in Thread, JoinThread(u)
  PROVE  Managing'
<1>b. Joining /\ Orderly /\ Basic /\ BroughtUp /\ Clients /\ TypeOK /\ Phases
  BY DEF Managing, Joining, Orderly, Basic
<1>1. /\ phase = "join" /\ threads' = threads \ {u}
      /\ UNCHANGED <<mgrInitialized, mThreadsByPRThread, phase>>
  BY DEF JoinThread
<1>2. CASE mShutdownRequired[u]
  <2>1. Claiming(Main, u)
    BY <1>b, <1>2, JoinClaims
  <2>2. Stacks(Main) /\ Marks(Main)
    BY <1>b, <2>1, ClaimSteps
  <2>3. Joining'
    BY <1>b, <2>1, ClaimedJoining, ThreadConstants
  <2>4. /\ BroughtUp' /\ Clients'
        /\ \A v \in Thread : stk'[v] # <<>> => stk[v] # <<>>
        /\ \A v \in Thread : v \in known => v \in known'
    BY <1>b, <2>2, StepKeeps, ThreadConstants
  <2>5. Phases'
    BY <1>b, <1>1, <2>4 DEF Phases
  <2>6. mThread' = mThread /\ mShutdownRequired' = [mShutdownRequired EXCEPT ![u] = FALSE]
    BY <2>1 DEF Claiming, Claim
  <2>7. RunningThreadsListed'
    BY <1>b, <1>1, <2>6 DEF Managing, RunningThreadsListed, TypeOK
  <2> QED BY <2>3, <2>4, <2>5, <2>7 DEF Managing
<1>3. CASE ~mShutdownRequired[u]
  <2>1. Joining' /\ BroughtUp' /\ Clients' /\ UNCHANGED <<stk, known, mThread, mShutdownRequired>>
    BY <1>3, StillKept DEF JoinThread
  <2>2. Phases'
    BY <1>b, <1>1, <2>1 DEF Phases
  <2>3. RunningThreadsListed'
    BY <1>1, <1>3, <2>1 DEF Managing, RunningThreadsListed
  <2> QED BY <2>1, <2>2, <2>3 DEF Managing
<1> QED BY <1>2, <1>3

LEMMA ManagerKeeps ==
  ASSUME Managing, ManagerShutdown \/ GatherThreads \/ AllJoined \/ ManagerDown
  PROVE  Managing'
<1>b. BroughtUp /\ Phases /\ RunningThreadsListed
  BY DEF Managing
<1>1. Joining' /\ BroughtUp' /\ Clients' /\ UNCHANGED <<stk, known, mThread, mShutdownRequired>>
  BY StillKept DEF ManagerShutdown, GatherThreads, AllJoined, ManagerDown
<1>2. Top(Main).fn = "app" /\ Top(Main).fn' = Top(Main).fn
  BY <1>1 DEF ManagerShutdown, GatherThreads, AllJoined, ManagerDown, Outermost, Is, Top
<1>3. \A u \in Thread : stk[u] # <<>> => u \in known
  BY <1>b, <1>2 DEF BroughtUp
<1>4. CASE ManagerShutdown
  BY <1>b, <1>1, <1>3, <1>4 DEF ManagerShutdown, Managing, Phases, Phase, RunningThreadsListed
<1>5. CASE GatherThreads
  BY <1>b, <1>1, <1>3, <1>5 DEF GatherThreads, Managing, Phases, Phase, RunningThreadsListed
<1>6. CASE AllJoined
  BY <1>b, <1>1, <1>3, <1>6 DEF AllJoined, Managing, Phases, Phase, RunningThreadsListed
<1>7. CASE ManagerDown
  BY <1>b, <1>1, <1>2, <1>3, <1>7 DEF ManagerDown, Managing, Phases, Phase, RunningThreadsListed
<1> QED BY <1>4, <1>5, <1>6, <1>7
--------------------------------------------------------------------------------
LEMMA InitManaging == ASSUME MInit PROVE Managing
<1>1. /\ Init /\ mgrInitialized = TRUE /\ mThreadsByPRThread = {Main} /\ threads = {} /\ phase = "up"
  BY DEF MInit
<1>2. Joining
  BY <1>1, InitJoining
<1>3. /\ \A t \in Thread \ {Main} : stk[t] = <<>>
      /\ DOMAIN stk[Main] = {1} /\ stk[Main] # <<>>
      /\ stk[Main][1].fn = "app" /\ stk[Main][1].at = "loop"
  BY <1>1, InitBasic
<1>4. known = {Main} /\ \A t \in Thread : mThread[t] = (t = Main) /\ ~mInitialized[t]
  BY <1>1 DEF Init
<1>5. \A u \in Thread : ~Fresh(u)
  <2>1. ~Fresh(Main)
    BY <1>3 DEF Fresh
  <2>2. \A u \in Thread \ {Main} : ~Fresh(u)
    BY <1>3, EmptySeq DEF Fresh
  <2> QED BY <2>1, <2>2
<1>6. BroughtUp
  BY <1>3, <1>4, <1>5 DEF BroughtUp
<1>7. Clients
  BY <1>3, EmptySeq DEF Clients
<1>8. Phases
  BY <1>1 DEF Phases, Phase
<1>9. RunningThreadsListed
  BY <1>4 DEF RunningThreadsListed
<1> QED BY <1>2, <1>6, <1>7, <1>8, <1>9 DEF Managing

LEMMA StepManaging ==
  ASSUME Creator \subseteq {Main}, Managing, [MNext]_allVars
  PROVE  Managing'
<1>b. Basic
  BY DEF Managing, Joining, Orderly
<1>1. CASE MNext
  BY <1>b, <1>1, ManagerCases, UnseenKeeps, RegisterKeeps, UnregisterKeeps, NewThreadManaged,
     JoinThreadKeeps, ManagerKeeps
<1>2. CASE UNCHANGED allVars
  <2>1. UNCHANGED vars /\ UNCHANGED <<mgrInitialized, mThreadsByPRThread, threads, phase>>
    BY <1>2 DEF allVars, mgrVars
  <2>2. Joining' /\ BroughtUp' /\ Clients' /\ UNCHANGED <<stk, known, mThread, mShutdownRequired>>
    BY <2>1, StillKept
  <2>3. Phases' /\ RunningThreadsListed'
    BY <2>1, <2>2 DEF Managing, Phases, RunningThreadsListed, Top
  <2> QED BY <2>2, <2>3 DEF Managing
<1> QED BY <1>1, <1>2

(* When only the main thread creates threads, what nsThread guarantees    *)
(* holds under the manager as well, and the manager keeps its own books.  *)
THEOREM AlwaysManaging ==
  ASSUME Creator \subseteq {Main}
  PROVE  MSpec => []Managing
<1>1. MInit => Managing
  BY InitManaging
<1>2. Managing /\ [MNext]_allVars => Managing'
  BY StepManaging
<1> QED BY <1>1, <1>2, PTL DEF MSpec

(* RunningThreadsListed: nsThreadManager::Shutdown finds every thread that *)
(* it has to join, for any number of threads that start, end and shut each *)
(* other down while it empties the table.                                  *)
THEOREM NoThreadMissed ==
  ASSUME Creator \subseteq {Main}
  PROVE  MSpec => []RunningThreadsListed
<1>1. Managing => RunningThreadsListed
  BY DEF Managing
<1> QED BY <1>1, AlwaysManaging, PTL

LEMMA LeftRunningTogether == ASSUME Managing PROVE LeftToEachOther
<1> SUFFICES ASSUME phase = "down", NEW u \in Thread \ {Main}, stk[u] # <<>>
             PROVE  \E j \in Thread \ {Main, u} : stk[j] # <<>> /\ InShutdown(j, u)
  BY DEF LeftToEachOther
<1>b. Basic /\ TypeOK /\ Shape
  BY DEF Managing, Joining, Orderly, Basic
<1>1. u \in known
  BY DEF Managing, Phases
<1>2. mThread[u]
  BY <1>1 DEF Managing, BroughtUp
<1>3. ~mShutdownRequired[u]
  BY <1>2 DEF Managing, Phases, RunningThreadsListed
<1>4. PICK j \in Thread : InShutdown(j, u)
  BY <1>1, <1>3 DEF Managing, Joining, ShutDownForGood
<1>5. PICK i \in DOMAIN stk[j] : stk[j][i].fn = "Shutdown" /\ stk[j][i].t = u
  BY <1>4, InShutdownMeans
<1>6. stk[j] # <<>>
  BY <1>5, EmptySeq
<1>7. j # Main
  <2> SUFFICES ASSUME j = Main PROVE FALSE
    OBVIOUS
  <2>1. Top(Main).fn = "app" /\ stk[Main] # <<>>
    BY <1>6 DEF Managing, Phases
  <2>2. Len(stk[Main]) = 1 /\ Top(Main) = stk[Main][1]
    BY <1>b, <2>1, TopShape, ThreadConstants
  <2>3. i = 1
    BY <1>b, <1>5, <2>2, StackType, ThreadConstants
  <2> QED BY <1>5, <2>1, <2>2, <2>3
<1>8. j # u
  BY <1>5, <1>7 DEF Managing, Clients
<1> QED BY <1>4, <1>6, <1>7, <1>8

(* LeftToEachOther: nsThreadManager::Shutdown leaves a thread behind only  *)
(* if threads other than the main thread wait for each other in Shutdown,  *)
(* each for the next.                                                      *)
THEOREM OnlyCirclesLeft ==
  ASSUME Creator \subseteq {Main}
  PROVE  MSpec => []LeftToEachOther
<1>1. Managing => LeftToEachOther
  BY LeftRunningTogether
<1> QED BY <1>1, AlwaysManaging, PTL

(* NoBackgroundThreads: "There are no more background threads at this      *)
(* point", when clients shut down one thread at most by themselves, which  *)
(* rules such circles out.                                                 *)
THEOREM NothingRunsOn ==
  ASSUME Creator \subseteq {Main}, \A u, v \in Joinable : u = v
  PROVE  MSpec => []NoBackgroundThreads
<1>1. Managing => NoBackgroundThreads
  <2> SUFFICES ASSUME Managing, phase = "down", NEW u \in Thread \ {Main}, stk[u] # <<>> PROVE FALSE
    BY DEF NoBackgroundThreads
  <2>1. LeftToEachOther
    BY LeftRunningTogether
  <2>2. PICK j \in Thread \ {Main, u} : stk[j] # <<>> /\ InShutdown(j, u)
    BY <2>1 DEF LeftToEachOther
  <2>3. PICK k \in Thread \ {Main, j} : stk[k] # <<>> /\ InShutdown(k, j)
    BY <2>1, <2>2 DEF LeftToEachOther
  <2>4. PICK m \in DOMAIN stk[j] : stk[j][m].fn = "Shutdown" /\ stk[j][m].t = u
    BY <2>2, InShutdownMeans
  <2>5. PICK n \in DOMAIN stk[k] : stk[k][n].fn = "Shutdown" /\ stk[k][n].t = j
    BY <2>3, InShutdownMeans
  <2>6. u \in Joinable /\ j \in Joinable
    BY <2>4, <2>5 DEF Managing, Clients
  <2> QED BY <2>2, <2>6
<1> QED BY <1>1, AlwaysManaging, PTL
================================================================================
