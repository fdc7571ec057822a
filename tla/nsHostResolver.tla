----------------------------- MODULE nsHostResolver -----------------------------
(***************************************************************************)
(* netwerk/dns/src/nsHostResolver: the DNS cache and the worker threads    *)
(* that fill it.  Callers ask for a host and leave a callback; workers     *)
(* take records from three queues by priority, look them up with the lock  *)
(* released, and call the callbacks with the lock released.  An action is  *)
(* one section of code inside mLock, or the calls made after it.  A record *)
(* is a number, a host a key of mDB (name, flags and family together).     *)
(* The clock is left out: a call finds its result expired or not, which it *)
(* cannot tell from being told to bypass the cache.                        *)
(***************************************************************************)
EXTENDS Naturals, Sequences, FiniteSets, SequencesExt

CONSTANTS Host,                   \* the keys of the table
          Literal,                \* the hosts that are IP address literals
          NoRec,                  \* a null nsHostRecord*
          MaxWorkers,             \* bound: slots for threads, at least MaxResolverThreads
          HighThreadThreshold,    \* MAX_RESOLVER_THREADS_FOR_ANY_PRIORITY
          MaxResolverThreads,     \* MAX_RESOLVER_THREADS
          MaxNonPriorityRequests, \* MAX_NON_PRIORITY_REQUESTS
          MaxCacheEntries,        \* mMaxCacheEntries
          Calls,                  \* the calls of ResolveHost: host, priority, and whether they
                                  \* have RES_BYPASS_CACHE or come after the expiration
          ThreadMayFail,          \* may PR_CreateThread fail?
          MaxRequests,            \* bound: requests made altogether
          MaxRecords              \* bound: records alive at once

Request == 1..MaxRequests
Rec == 1..MaxRecords
Worker == 1..MaxWorkers
Priority == {"high", "medium", "low"}

ASSUME ResolverAssumption ==
  /\ {MaxWorkers, HighThreadThreshold, MaxResolverThreads, MaxNonPriorityRequests,
      MaxCacheEntries, MaxRequests, MaxRecords} \subseteq Nat
  /\ HighThreadThreshold <= MaxResolverThreads /\ MaxResolverThreads <= MaxWorkers
  /\ Literal \subseteq Host /\ NoRec \notin Nat
  /\ Calls \subseteq [host : Host, priority : Priority, bypass : BOOLEAN]

VARIABLES rec,         \* the nsHostRecord objects; refc = 0 is no object
          mDB,         \* the table
          queue,       \* mHighQ, mMediumQ and mLowQ, by priority
          mEvictionQ, mEvictionQSize, mPendingCount,
          mNumIdleThreads, mThreadCount, mActiveAnyThreadCount, mShutdown,
          pc,          \* where each worker, and the caller of Shutdown (0), is
          cur, cbs, ok,\* their locals: the record, the callbacks to call, the lookup's success
          aborted, evicted,   \* the lists Shutdown took away
          req, nReq,   \* what became of each request
          noThread     \* history: a thread could not be created

cache == <<rec, mDB, queue, mEvictionQ, mEvictionQSize, mPendingCount>>
counts == <<mNumIdleThreads, mThreadCount, mActiveAnyThreadCount>>
locals == <<cur, cbs, ok>>
closing == <<mShutdown, aborted, evicted>>
requests == <<req, nReq, noThread>>
vars == <<cache, counts, pc, locals, closing, requests>>

Actor == Worker \cup {0}
NoRecord == [host |-> NoRec, refc |-> 0, addr_info |-> FALSE, addr |-> FALSE, negative |-> FALSE,
             resolving |-> FALSE, onQueue |-> FALSE, usingAny |-> FALSE,
             flags |-> "high", callbacks |-> {}]
NoRequest == [at |-> "unused", rec |-> NoRec, ok |-> FALSE, calls |-> 0]

Init == /\ rec = [x \in Rec |-> NoRecord]
        /\ mDB = [h \in Host |-> NoRec]
        /\ queue = [p \in Priority |-> <<>>]
        /\ mEvictionQ = <<>> /\ mEvictionQSize = 0 /\ mPendingCount = 0
        /\ mNumIdleThreads = 0 /\ mThreadCount = 0 /\ mActiveAnyThreadCount = 0
        /\ mShutdown = FALSE
        /\ pc = [a \in Actor |-> "none"]
        /\ cur = [a \in Actor |-> NoRec]
        /\ cbs = [a \in Actor |-> {}]
        /\ ok = [a \in Actor |-> FALSE]
        /\ aborted = <<>> /\ evicted = <<>>
        /\ req = [r \in Request |-> NoRequest] /\ nReq = 0 /\ noThread = FALSE

--------------------------------------------------------------------------------
HasResult(x) == x.addr_info \/ x.addr \/ x.negative

(* nsHostRecord::Release: the last reference frees the object. *)
Released(R, x, n) ==
  [R EXCEPT ![x] = IF R[x].refc = n THEN NoRecord ELSE [R[x] EXCEPT !.refc = R[x].refc - n]]

(* PL_DHASH_ADD with HostDB_InitEntry: the record of h, or a new one that   *)
(* the table owns.                                                          *)
NewRec == CHOOSE x \in Rec : rec[x].refc = 0
Entry(h) == IF mDB[h] = NoRec THEN NewRec ELSE mDB[h]
Record(h) == IF mDB[h] = NoRec THEN [NoRecord EXCEPT !.host = h, !.refc = 1] ELSE rec[mDB[h]]

(* PR_NotifyCondVar(mIdleThreadCV).  NSPR sends the signal when mLock is    *)
(* released (pt_PostNotifies).  A worker that falls asleep in between, and  *)
(* is woken instead, found nothing that the one meant here could take.      *)
Idle == {w \in Worker : pc[w] = "idle"}
Notify == IF Idle = {} THEN {pc} ELSE {[pc EXCEPT ![w] = "woken"] : w \in Idle}

(* ConditionallyCreateThread: the ways it can end.  Workers that were woken *)
(* but have not had the lock yet still count as idle.                       *)
MayCreate(p) == mThreadCount < HighThreadThreshold \/ (p = "high" /\ mThreadCount < MaxResolverThreads)
Outcome(f, n, k) == [pc |-> f, threads |-> n, ok |-> k]
Spawned == [pc EXCEPT ![CHOOSE w \in Worker : pc[w] = "none"] = "get"]
\* The idle threads are not told.
CreateThreadOnly(p) ==
  IF MayCreate(p) /\ mNumIdleThreads = 0 THEN {Outcome(Spawned, mThreadCount + 1, TRUE)}
                                         ELSE {Outcome(pc, mThreadCount, TRUE)}
ConditionallyCreateThread(p) ==
  CASE mNumIdleThreads > 0 -> {Outcome(f, mThreadCount, TRUE) : f \in Notify}
    [] mNumIdleThreads = 0 /\ MayCreate(p) ->
         {Outcome(Spawned, mThreadCount + 1, TRUE)}
           \cup (IF ThreadMayFail THEN {Outcome(pc, mThreadCount, FALSE)} ELSE {})
    [] OTHER -> {Outcome(pc, mThreadCount, TRUE)}

(* PR_REMOVE_LINK: a record is linked into a list once. *)
Without(s, x) == IF x \in ToSet(s) THEN RemoveAt(s, CHOOSE i \in DOMAIN s : s[i] = x) ELSE s

\* The reference of mEvictionQ is not given over, but forgotten.
IssueLookupCounting(x, f, o) ==
  /\ rec' = [rec EXCEPT ![x] = [f EXCEPT !.refc = f.refc + 1, !.resolving = TRUE, !.onQueue = TRUE]]
  /\ mEvictionQ' = Without(mEvictionQ, x)
  /\ mEvictionQSize' = IF x \in ToSet(mEvictionQ) THEN mEvictionQSize - 1 ELSE mEvictionQSize
  /\ queue' = [queue EXCEPT ![f.flags] = Append(@, x)]
  /\ mPendingCount' = mPendingCount + 1
  /\ o \in ConditionallyCreateThread(f.flags)
  /\ pc' = o.pc /\ mThreadCount' = o.threads /\ noThread' = (noThread \/ ~o.ok)

(* IssueLookup of record x, whose fields are now f: onto the queue of its   *)
(* priority, taking over the reference of mEvictionQ if it was there.       *)
OnEvictionQ(x) == x \in ToSet(mEvictionQ)
IssueLookup(x, f, o) ==
  /\ rec' = [rec EXCEPT ![x] = [f EXCEPT !.refc = IF OnEvictionQ(x) THEN f.refc ELSE f.refc + 1,
                                         !.resolving = TRUE, !.onQueue = TRUE]]
  /\ mEvictionQ' = Without(mEvictionQ, x)
  /\ mEvictionQSize' = IF OnEvictionQ(x) THEN mEvictionQSize - 1 ELSE mEvictionQSize
  /\ queue' = [queue EXCEPT ![f.flags] = Append(@, x)]
  /\ mPendingCount' = mPendingCount + 1
  /\ o \in ConditionallyCreateThread(f.flags)
  /\ pc' = o.pc /\ mThreadCount' = o.threads /\ noThread' = (noThread \/ ~o.ok)

--------------------------------------------------------------------------------
(* ResolveHost, one action per outcome.  Each leaves the request "refused"  *)
(* (the call fails), "handed" (ResolveHost itself will call back, after it  *)
(* has left the lock) or "pending".                                         *)

Answer(a, x, k) == /\ nReq' = nReq + 1
                   /\ req' = [req EXCEPT ![nReq + 1] = [at |-> a, rec |-> x, ok |-> k, calls |-> 0]]

Asks == nReq < MaxRequests
Room(h) == mDB[h] = NoRec => \E x \in Rec : rec[x].refc = 0

AfterShutdown == /\ Asks /\ mShutdown
                 /\ Answer("refused", NoRec, FALSE)
                 /\ UNCHANGED <<cache, counts, pc, locals, closing, noThread>>

Usable(h, bypass) == ~bypass /\ HasResult(Record(h))

(* A cached result, or a literal: the record is handed to the caller, with  *)
(* a reference while the call lasts.                                        *)
IsLiteral(h, bypass) == ~Usable(h, bypass) /\ (Record(h).addr \/ h \in Literal)
Handed(h) == [Record(h) EXCEPT !.refc = Record(h).refc + 1, !.addr = Record(h).addr \/ h \in Literal]
Hand(h) ==
  /\ rec' = [rec EXCEPT ![Entry(h)] = Handed(h)]
  /\ mDB' = [mDB EXCEPT ![h] = Entry(h)]

UseResult(h, bypass) ==
  /\ Asks /\ Room(h) /\ ~mShutdown
  /\ IsLiteral(h, bypass) \/ (Usable(h, bypass) /\ (Record(h).negative => Record(h).resolving))
  /\ Hand(h)
  /\ Answer("handed", Entry(h), ~Record(h).negative \/ IsLiteral(h, bypass))
  /\ UNCHANGED <<queue, mEvictionQ, mEvictionQSize, mPendingCount, counts, pc, locals, closing, noThread>>

(* A cached failure is handed out too, and looked up again meanwhile. *)
UseFailure(h, bypass) ==
  /\ Asks /\ Room(h) /\ ~mShutdown
  /\ Usable(h, bypass) /\ Record(h).negative /\ ~Record(h).resolving
  /\ \E o \in ConditionallyCreateThread(Record(h).flags) :
       IssueLookup(Entry(h), [Record(h) EXCEPT !.refc = @ + 1], o)
  /\ Answer("handed", Entry(h), FALSE)
  /\ UNCHANGED <<mDB, mNumIdleThreads, mActiveAnyThreadCount, locals, closing>>

MustLookUp(h, bypass) == Asks /\ Room(h) /\ ~mShutdown /\ ~Usable(h, bypass) /\ ~IsLiteral(h, bypass)
Swamped(h, p) == mPendingCount >= MaxNonPriorityRequests /\ p # "high" /\ ~Record(h).resolving

QueueFull(h, p, bypass) ==
  /\ MustLookUp(h, bypass) /\ Swamped(h, p)
  /\ rec' = [rec EXCEPT ![Entry(h)] = Record(h)]
  /\ mDB' = [mDB EXCEPT ![h] = Entry(h)]
  /\ Answer("refused", NoRec, FALSE)
  /\ UNCHANGED <<queue, mEvictionQ, mEvictionQSize, mPendingCount, counts, pc, locals, closing, noThread>>

(* The lookup is issued; if no thread could be created the callback is      *)
(* taken back, but the record stays on its queue.                           *)
NewLookup(h, p, bypass) ==
  /\ MustLookUp(h, bypass) /\ ~Swamped(h, p) /\ ~Record(h).resolving
  /\ mDB' = [mDB EXCEPT ![h] = Entry(h)]
  /\ \E o \in ConditionallyCreateThread(p) :
       /\ IssueLookup(Entry(h), [Record(h) EXCEPT !.flags = p, !.callbacks = IF o.ok THEN @ \cup {nReq + 1} ELSE @], o)
       /\ Answer(IF o.ok THEN "pending" ELSE "refused", NoRec, FALSE)
  /\ UNCHANGED <<mNumIdleThreads, mActiveAnyThreadCount, locals, closing>>

(* Somebody asked already: one more callback, and a better queue if the     *)
(* record still waits in a worse one.                                       *)
Better(p, q) == (p = "high" /\ q # "high") \/ (p = "medium" /\ q = "low")
\* A record is moved although a worker has it already.
MovesAlways(f, p) == Better(p, f.flags)
Moves(f, p) == f.onQueue /\ Better(p, f.flags)
JoinThreads(moves, p) ==
  CASE moves /\ p = "high" -> ConditionallyCreateThread(p)
    [] moves /\ p = "medium" -> {Outcome(g, mThreadCount, TRUE) : g \in Notify}
    [] OTHER -> {Outcome(pc, mThreadCount, TRUE)}
JoinLookup(h, p, bypass) ==
  LET x == Entry(h)
      f == [Record(h) EXCEPT !.callbacks = @ \cup {nReq + 1}]
      moves == Moves(f, p)
  IN /\ MustLookUp(h, bypass) /\ ~Swamped(h, p) /\ f.resolving
     /\ rec' = [rec EXCEPT ![x] = IF moves THEN [f EXCEPT !.flags = p] ELSE f]
     /\ queue' = IF moves THEN [queue EXCEPT ![f.flags] = Without(@, x), ![p] = Append(@, x)] ELSE queue
     /\ \E o \in JoinThreads(moves, p) :
          pc' = o.pc /\ mThreadCount' = o.threads /\ noThread' = (noThread \/ ~o.ok)
     /\ Answer("pending", NoRec, FALSE)
     /\ UNCHANGED <<mDB, mEvictionQ, mEvictionQSize, mPendingCount, mNumIdleThreads, mActiveAnyThreadCount, locals, closing>>

Told(q) == [at |-> "called", rec |-> NoRec, ok |-> FALSE, calls |-> q.calls + 1]

(* ResolveHost and DetachCallback call back outside the lock, and let their *)
(* reference go.                                                            *)
CallBack(r) == /\ req[r].at = "handed"
               /\ req' = [req EXCEPT ![r] = Told(@)]
               /\ rec' = Released(rec, req[r].rec, 1)
               /\ UNCHANGED <<mDB, queue, mEvictionQ, mEvictionQSize, mPendingCount, counts, pc, locals, closing, nReq, noThread>>

(* DetachCallback of a request for h: if it is still in the record's list   *)
(* it is taken out, and called with an error after the lock is released.    *)
DetachCallback(h, r) ==
  LET x == mDB[h]
      f == rec[x]
  IN /\ x # NoRec /\ r \in f.callbacks
     /\ rec' = [rec EXCEPT ![x] = [f EXCEPT !.callbacks = f.callbacks \ {r}, !.refc = f.refc + 1]]
     /\ req' = [req EXCEPT ![r].at = "handed", ![r].rec = x]
     /\ UNCHANGED <<mDB, queue, mEvictionQ, mEvictionQSize, mPendingCount, counts, pc, locals, closing, nReq, noThread>>

--------------------------------------------------------------------------------
(* The workers: GetHostToLookup, in a loop. *)

Looking(w) == pc[w] \in {"get", "woken", "late"}
IdleAfter(w) == IF pc[w] = "get" THEN mNumIdleThreads ELSE mNumIdleThreads - 1

\* Low and medium lookups are not held to their share of the threads.
AnyQueue == {p \in Priority : queue[p] # <<>>}
\* The queues a worker may take a record from, best first.
Takeable == {p \in Priority : queue[p] # <<>> /\ (p = "high" \/ mActiveAnyThreadCount < HighThreadThreshold)}
Best(S) == CHOOSE p \in S : \A q \in S : p = q \/ Better(p, q)

DeQueue(w) ==
  LET p == Best(Takeable)
      x == Head(queue[p])
  IN /\ Looking(w) /\ ~mShutdown /\ Takeable # {}
     /\ queue' = [queue EXCEPT ![p] = Tail(@)]
     /\ mPendingCount' = mPendingCount - 1
     /\ rec' = [rec EXCEPT ![x] = [rec[x] EXCEPT !.onQueue = FALSE, !.usingAny = (p # "high")]]
     /\ mActiveAnyThreadCount' = IF p = "high" THEN mActiveAnyThreadCount ELSE mActiveAnyThreadCount + 1
     /\ mNumIdleThreads' = IdleAfter(w)
     /\ pc' = [pc EXCEPT ![w] = "lookup"] /\ cur' = [cur EXCEPT ![w] = x]
     /\ UNCHANGED <<mDB, mEvictionQ, mEvictionQSize, mThreadCount, cbs, ok, closing, requests>>

(* PR_WaitCondVar, and its return by time-out. *)
Sleep(w) ==
  /\ pc[w] \in {"get", "woken"} /\ ~mShutdown /\ Takeable = {}
  /\ mNumIdleThreads' = IdleAfter(w) + 1
  /\ pc' = [pc EXCEPT ![w] = "idle"]
  /\ UNCHANGED <<cache, mThreadCount, mActiveAnyThreadCount, locals, closing, requests>>

TimeOut(w) == /\ pc[w] = "idle"
              /\ pc' = [pc EXCEPT ![w] = "late"]
              /\ UNCHANGED <<cache, counts, locals, closing, requests>>

(* Shut down, or idle too long and nothing to take (a thread may be         *)
(* notified just when its time is over, too).                               *)
MayExit(w) == mShutdown \/ (pc[w] \in {"woken", "late"} /\ Takeable = {})

Exit(w) == /\ Looking(w) /\ MayExit(w)
           /\ mThreadCount' = mThreadCount - 1
           /\ mNumIdleThreads' = IdleAfter(w)
           /\ pc' = [pc EXCEPT ![w] = "none"]
           /\ UNCHANGED <<cache, mActiveAnyThreadCount, locals, closing, requests>>

--------------------------------------------------------------------------------
(* OnLookupComplete: the result goes into the record, the record onto       *)
(* mEvictionQ, and the oldest one there out of the cache if it is full.     *)
(* The callbacks are taken out of the record, to be called afterwards.      *)

\* The callbacks are copied, and left where they were.
ResultKeepingCallbacks(x, success) ==
  [rec[x] EXCEPT !.addr_info = success, !.negative = ~success, !.resolving = FALSE, !.usingAny = FALSE]
Result(x, success) ==
  [rec[x] EXCEPT !.callbacks = {}, !.addr_info = success, !.negative = ~success,
                 !.resolving = FALSE, !.usingAny = FALSE]

Complete(a, x, success) ==
  LET keeps == success /\ ~mShutdown
      f == Result(x, success)
      R == [rec EXCEPT ![x] = IF keeps THEN [f EXCEPT !.refc = f.refc + 1] ELSE f]
      q == Append(mEvictionQ, x)
      full == mEvictionQSize >= MaxCacheEntries
      oldest == Head(q)
  IN /\ mActiveAnyThreadCount' = IF rec[x].usingAny THEN mActiveAnyThreadCount - 1 ELSE mActiveAnyThreadCount
     /\ mEvictionQ' = IF keeps THEN IF full THEN Tail(q) ELSE q ELSE mEvictionQ
     /\ mEvictionQSize' = IF keeps /\ ~full THEN mEvictionQSize + 1 ELSE mEvictionQSize
     /\ mDB' = IF keeps /\ full THEN [mDB EXCEPT ![R[oldest].host] = NoRec] ELSE mDB
     /\ rec' = IF keeps /\ full THEN Released(R, oldest, 2) ELSE R
     /\ cbs' = [cbs EXCEPT ![a] = rec[x].callbacks]
     /\ ok' = [ok EXCEPT ![a] = success]
     /\ cur' = [cur EXCEPT ![a] = x]
     /\ pc' = [pc EXCEPT ![a] = "deliver"]
     /\ UNCHANGED <<queue, mPendingCount, mNumIdleThreads, mThreadCount, mShutdown, evicted, requests>>

(* PR_GetAddrInfoByName returns an answer or nothing. *)
OnLookupComplete(w, success) ==
  /\ pc[w] = "lookup"
  /\ Complete(w, cur[w], success)
  /\ UNCHANGED aborted

(* The callbacks are called, and the reference of the queue is released. *)
Deliver(a) ==
  /\ pc[a] = "deliver"
  /\ req' = [r \in Request |-> IF r \in cbs[a] THEN Told(req[r]) ELSE req[r]]
  /\ rec' = Released(rec, cur[a], 1)
  /\ pc' = [pc EXCEPT ![a] = IF a = 0 THEN "clear" ELSE "get"]
  /\ cur' = [cur EXCEPT ![a] = NoRec] /\ cbs' = [cbs EXCEPT ![a] = {}] /\ ok' = [ok EXCEPT ![a] = FALSE]
  /\ UNCHANGED <<mDB, queue, mEvictionQ, mEvictionQSize, mPendingCount, counts, closing, nReq, noThread>>

--------------------------------------------------------------------------------
(* Shutdown takes the queues and the cache away, wakes the idle workers,    *)
(* then fails the lookups nobody had begun, with the lock released between  *)
(* any two of them.                                                         *)

InDB == {mDB[h] : h \in Host} \ {NoRec}
Shutdown ==
  /\ ~mShutdown /\ pc[0] = "none"
  /\ mShutdown' = TRUE
  /\ aborted' = queue["high"] \o queue["medium"] \o queue["low"]
  /\ evicted' = mEvictionQ
  /\ queue' = [p \in Priority |-> <<>>]
  /\ mEvictionQ' = <<>> /\ mEvictionQSize' = 0 /\ mPendingCount' = 0
  /\ pc' = [a \in Actor |-> CASE a = 0 -> "clear" [] a \in Idle -> "woken" [] OTHER -> pc[a]]
  /\ rec' = [x \in Rec |-> IF x \in InDB THEN Released(rec, x, 1)[x] ELSE rec[x]]
  /\ mDB' = [h \in Host |-> NoRec]
  /\ UNCHANGED <<counts, locals, requests>>

ClearPendingQueue ==
  /\ pc[0] = "clear" /\ aborted # <<>>
  /\ Complete(0, Head(aborted), FALSE)
  /\ aborted' = Tail(aborted)

ReleaseEvicted ==
  /\ pc[0] = "clear" /\ aborted = <<>>
  /\ rec' = [x \in Rec |-> IF x \in ToSet(evicted) THEN Released(rec, x, 1)[x] ELSE rec[x]]
  /\ evicted' = <<>>
  /\ pc' = [pc EXCEPT ![0] = "done"]
  /\ UNCHANGED <<mDB, queue, mEvictionQ, mEvictionQSize, mPendingCount, counts, locals, mShutdown, aborted, requests>>

--------------------------------------------------------------------------------
ResolveHost(h, p, b) == \/ UseResult(h, b) \/ UseFailure(h, b) \/ QueueFull(h, p, b)
                        \/ NewLookup(h, p, b) \/ JoinLookup(h, p, b)
WorkerStep(w) == \/ DeQueue(w) \/ Sleep(w) \/ Exit(w) \/ Deliver(w)
                 \/ \E success \in BOOLEAN : OnLookupComplete(w, success)
ShutdownStep == ClearPendingQueue \/ Deliver(0) \/ ReleaseEvicted

Next == \/ \E c \in Calls : ResolveHost(c.host, c.priority, c.bypass)
        \/ \E h \in Host, r \in Request : DetachCallback(h, r)
        \/ AfterShutdown
        \/ \E r \in Request : CallBack(r)
        \/ \E w \in Worker : WorkerStep(w) \/ TimeOut(w)
        \/ Shutdown \/ ShutdownStep

Spec == Init /\ [][Next]_vars

(* Threads run and lookups end; nobody has to ask, to detach, to shut down  *)
(* or to time out.                                                          *)
FairSpec == /\ Spec
            /\ \A w \in Worker : WF_vars(WorkerStep(w))
            /\ WF_vars(ShutdownStep)
            /\ WF_vars(\E r \in Request : CallBack(r))

--------------------------------------------------------------------------------
Queued == UNION {ToSet(queue[p]) : p \in Priority}

nsHostRecord == [host : Host \cup {NoRec}, refc : Nat, addr_info : BOOLEAN, addr : BOOLEAN,
                 negative : BOOLEAN, resolving : BOOLEAN, onQueue : BOOLEAN, usingAny : BOOLEAN,
                 flags : Priority, callbacks : SUBSET Request]
Answers == [at : {"unused", "refused", "handed", "pending", "called"}, rec : Rec \cup {NoRec},
            ok : BOOLEAN, calls : Nat]

Points == {"none", "get", "idle", "woken", "late", "lookup", "deliver", "clear", "done"}

(* The type invariant. *)
TypeOK ==
  /\ rec \in [Rec -> nsHostRecord] /\ req \in [Request -> Answers]
  /\ mDB \in [Host -> Rec \cup {NoRec}]
  /\ queue \in [Priority -> Seq(Rec)]
  /\ {mEvictionQ, aborted, evicted} \subseteq Seq(Rec)
  /\ {mEvictionQSize, mPendingCount, mNumIdleThreads, mThreadCount, mActiveAnyThreadCount, nReq} \subseteq Nat
  /\ {mShutdown, noThread} \subseteq BOOLEAN
  /\ pc \in [Actor -> Points]
  /\ cur \in [Actor -> Rec \cup {NoRec}] /\ cbs \in [Actor -> SUBSET Request] /\ ok \in [Actor -> BOOLEAN]

(* Every counter the resolver decides by says what it stands for, in states *)
(* of the right types: the queued records, the cached ones (never more than *)
(* mMaxCacheEntries), the threads, the idle ones, and the threads that work *)
(* for low and medium requests (never more than their share).               *)
CountsExact ==
  /\ TypeOK
  /\ mPendingCount = Cardinality(Queued)
  /\ mEvictionQSize = Len(mEvictionQ) /\ mEvictionQSize <= MaxCacheEntries
  /\ mThreadCount = Cardinality({w \in Worker : pc[w] # "none"}) /\ mThreadCount <= MaxResolverThreads
  /\ mNumIdleThreads = Cardinality({w \in Worker : pc[w] \in {"idle", "woken", "late"}})
  /\ mActiveAnyThreadCount = Cardinality({x \in Rec : rec[x].usingAny})
  /\ mActiveAnyThreadCount <= HighThreadThreshold

(* The references of a record are those of the table, of one queue or one   *)
(* thread, of mEvictionQ and of the callers it is handed to; whoever may    *)
(* still use it has one.  IssueLookup and the hand-over from queue to       *)
(* worker move references without counting.                                 *)
Owners(x) ==
  (IF x \in InDB THEN 1 ELSE 0)
  + Cardinality({p \in Priority : x \in ToSet(queue[p])})
  + Cardinality({i \in DOMAIN aborted : aborted[i] = x})
  + Cardinality({i \in DOMAIN mEvictionQ : mEvictionQ[i] = x})
  + Cardinality({i \in DOMAIN evicted : evicted[i] = x})
  + Cardinality({a \in Actor : cur[a] = x})
  + Cardinality({r \in Request : req[r].rec = x})
ReferencesExact == \A x \in Rec : rec[x].refc = Owners(x)

(* "true if this record is being resolved, which means that it is either on *)
(* the pending queue or owned by one of the worker threads"                 *)
(* (nsHostRecord::resolving): by exactly one, on the queue of its priority, *)
(* and not in the eviction queue meanwhile.                                 *)
ResolvedByOne ==
  \A x \in Rec :
    LET places == Cardinality({p \in Priority : x \in ToSet(queue[p])})
                  + Cardinality({i \in DOMAIN aborted : aborted[i] = x})
                  + Cardinality({w \in Worker : pc[w] = "lookup" /\ cur[w] = x})
    IN /\ places = IF rec[x].resolving THEN 1 ELSE 0
       /\ \A p \in Priority : x \in ToSet(queue[p]) => rec[x].flags = p /\ rec[x].onQueue
       /\ rec[x].resolving => ~OnEvictionQ(x)

(* A callback is called once: a pending request stands in the list of one   *)
(* record that is being resolved, or in the hands of one thread that is     *)
(* about to call it, however lookups, detachment and shutdown race.         *)
CalledOnce ==
  \A r \in Request :
    /\ req[r].calls <= 1
    /\ (Cardinality({x \in Rec : r \in rec[x].callbacks /\ rec[x].resolving})
          + Cardinality({a \in Actor : r \in cbs[a]})) = IF req[r].at = "pending" THEN 1 ELSE 0

(* Every request that was accepted is called back, also across Shutdown,    *)
(* unless a thread could not be created.                                    *)
RequestsAnswered ==
  \A r \in Request : req[r].at \in {"pending", "handed"} ~> (req[r].at = "called" \/ noThread)

(* "if successful, |record| contains non-null results"                      *)
(* (nsResolveHostCallback::OnLookupComplete): when a callback is called     *)
(* with success the record it gets has an address.                          *)
SuccessHasResult ==
  [][/\ \A a \in Actor : (pc[a] = "deliver" /\ pc'[a] # "deliver" /\ ok[a] /\ cbs[a] # {})
                           => rec[cur[a]].addr_info
     /\ \A r \in Request : (req[r].at = "handed" /\ req'[r].at = "called" /\ req[r].ok)
                           => rec[req[r].rec].addr_info \/ rec[req[r].rec].addr]_vars
================================================================================
