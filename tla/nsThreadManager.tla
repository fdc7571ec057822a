---------------------------- MODULE nsThreadManager ----------------------------
(***************************************************************************)
(* xpcom/threads/nsThreadManager.cpp, composed with the threads it keeps   *)
(* track of.  A thread registers when it starts and unregisters when its   *)
(* queue is closed.  Shutdown runs on the main thread, in place of the     *)
(* program's own code: it refuses new threads, empties the main queue,     *)
(* takes all threads out of the table, joins with each that it may, and    *)
(* empties the main queue once more.                                       *)
(***************************************************************************)
EXTENDS nsThread

VARIABLES mgrInitialized,      \* nsThreadManager::mInitialized
          mThreadsByPRThread,  \* the registered threads
          threads,             \* Shutdown's list of threads still to join
          phase                \* how far nsThreadManager::Shutdown has got

mgrVars == <<mgrInitialized, mThreadsByPRThread, threads, phase>>
allVars == <<vars, mgrVars>>

Phase == {"up", "pending", "join", "pending again", "down"}

MInit == /\ Init
         /\ mgrInitialized = TRUE
         /\ mThreadsByPRThread = {Main}
         /\ threads = {}
         /\ phase = "up"

(* The main thread's outermost frame: the program, then manager Shutdown. *)
Outermost(t) == t = Main /\ Is(t, "app", "loop")
--------------------------------------------------------------------------------
(* Mutant: NewThread does not ask whether the manager is being shut down. *)
MNewThreadAlways(t, u) ==
  /\ Outermost(t) => phase = "up"
  /\ NewThread(t, u)
  /\ UNCHANGED mgrVars

MNewThread(t, u) ==
  /\ Outermost(t) => phase = "up"
  /\ mgrInitialized
  /\ NewThread(t, u)
  /\ UNCHANGED mgrVars

MClient(t) ==
  /\ Outermost(t) => phase = "up"
  /\ \/ \E u \in Thread : Dispatch(t, u)
     \/ \E u \in Thread : DispatchSync(t, u)
     \/ \E u \in Thread : Shutdown(t, u)
     \/ \E f \in Filter : PushEventQueue(t, f)
     \/ PopEventQueue(t)
  /\ UNCHANGED mgrVars

(* Mutant: the thread starts without being put into the table. *)
StartUnregistered(t) == ThreadStart(t) /\ UNCHANGED mgrVars

RegisterCurrentThread(t) ==
  /\ ThreadStart(t)
  /\ mThreadsByPRThread' = mThreadsByPRThread \cup {t}
  /\ UNCHANGED <<mgrInitialized, threads, phase>>

UnregisterCurrentThread(t) ==
  /\ Unregister(t)
  /\ mThreadsByPRThread' = mThreadsByPRThread \ {t}
  /\ UNCHANGED <<mgrInitialized, threads, phase>>

(* The main loop and the two calls of NS_ProcessPendingEvents. *)
MProcessNextEvent(t) ==
  /\ Outermost(t) => phase \in {"up", "pending", "pending again"}
  /\ ProcessNextEvent(t)
  /\ UNCHANGED mgrVars

MThreadStep(t) ==
  /\ \/ RunReturns(t)
     \/ SyncTaskReturns(t) \/ SyncReply(t)
     \/ DispatchSyncTest(t) \/ DispatchSyncNoWait(t)
     \/ ShutdownPost(t) \/ ShutdownAcked(t) \/ ShutdownJoin(t)
     \/ InitPutStartup(t) \/ InitDone(t)
     \/ ThreadStartup(t)
     \/ LeaveLoop(t) \/ Doom(t) \/ DrainMore(t)
     \/ DispatchAck(t) \/ ThreadExit(t)
     \/ RepostEvent(t) \/ PopEventQueueDone(t)
  /\ UNCHANGED mgrVars
--------------------------------------------------------------------------------
(* nsThreadManager::Shutdown, called with every pushed event queue popped. *)

ManagerShutdown ==
  /\ Outermost(Main) /\ phase = "up" /\ Len(mEvents[Main]) = 1
  /\ phase' = "pending"
  /\ mgrInitialized' = FALSE
  /\ UNCHANGED <<vars, mThreadsByPRThread, threads>>

GatherThreads ==
  /\ Outermost(Main) /\ phase = "pending" /\ ~HasPendingEvent(Main)
  /\ phase' = "join"
  /\ threads' = mThreadsByPRThread
  /\ mThreadsByPRThread' = {}
  /\ UNCHANGED <<vars, mgrInitialized>>

(* The next thread of the list: joined if it was created by NewThread and *)
(* nobody else is joining it.                                             *)
JoinThread(u) ==
  /\ Outermost(Main) /\ phase = "join" /\ u \in threads
  /\ threads' = threads \ {u}
  /\ IF mShutdownRequired[u] THEN Claim(Main, u) ELSE UNCHANGED vars
  /\ UNCHANGED <<mgrInitialized, mThreadsByPRThread, phase>>

AllJoined ==
  /\ Outermost(Main) /\ phase = "join" /\ threads = {}
  /\ phase' = "pending again"
  /\ UNCHANGED <<vars, mgrInitialized, mThreadsByPRThread, threads>>

ManagerDown ==
  /\ Outermost(Main) /\ phase = "pending again" /\ ~HasPendingEvent(Main)
  /\ phase' = "down"
  /\ mThreadsByPRThread' = {}
  /\ UNCHANGED <<vars, mgrInitialized, threads>>
--------------------------------------------------------------------------------
ManagerStep == \/ GatherThreads
               \/ \E u \in Thread : JoinThread(u)
               \/ AllJoined
               \/ ManagerDown

MStep(t) == \/ RegisterCurrentThread(t) \/ UnregisterCurrentThread(t)
            \/ MProcessNextEvent(t) \/ MThreadStep(t)

MNext == \/ ManagerShutdown
         \/ ManagerStep
         \/ \E t \in Thread : \/ MStep(t)
                              \/ MClient(t)
                              \/ \E u \in Thread : MNewThread(t, u)

MSpec == MInit /\ [][MNext]_allVars

(* As for nsThread; and Shutdown, once called, goes on. *)
MFairSpec == /\ MSpec
             /\ WF_allVars(ManagerStep)
             /\ \A t \in Thread : /\ WF_allVars(MStep(t))
                                 /\ WF_allVars(PopEventQueue(t) /\ UNCHANGED mgrVars)
--------------------------------------------------------------------------------
(* No thread escapes: one that runs and that nobody has claimed yet is in  *)
(* the table or on Shutdown's list.  Threads start, end and are shut down  *)
(* by others while the table is being emptied.                             *)
RunningThreadsListed ==
  \A t \in Thread \ {Main} :
    (mThread[t] /\ mShutdownRequired[t]) => t \in mThreadsByPRThread \cup threads

(* "There are no more background threads at this point"                    *)
(* (nsThreadManager::Shutdown, before the table is cleared).               *)
NoBackgroundThreads ==
  phase = "down" => \A t \in Thread \ {Main} : stk[t] = <<>>

(* nsThreadManager::Shutdown comes to its end. *)
ManagerShutdownCompletes == (phase # "up") ~> (phase = "down")
================================================================================
