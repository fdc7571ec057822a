----------------------------- MODULE nsThreadProofs -----------------------------
(***************************************************************************)
(* Proofs about nsThread, for any set of threads, filters and bounds.      *)
(***************************************************************************)
EXTENDS nsThread, TLAPS, SequenceTheorems, WellFoundedInduction

(* What each function is doing while it is on a stack. *)
Places == [app |-> {"loop"},
           ThreadFunc |-> {"start", "startup", "loop", "drain", "pending", "gone", "ack", "bye"},
           Run |-> {"task"}, SyncRun |-> {"task", "reply"}, Dispatch |-> {"test", "wait"},
           Shutdown |-> {"put", "wait", "join"}, Init |-> {"put", "wait"},
           EventLoop |-> {"loop", "pop"}]

(* The chain of queues starts with the root queue, and is as long as the *)
(* innermost frame says.                                                 *)
ChainShape(t) ==
  /\ mEvents[t] # <<>> /\ mEvents[t][1].filter = Kind
  /\ stk[t] = <<>> => Len(mEvents[t]) = 1
  /\ stk[t] # <<>> => Len(mEvents[t]) = IF Top(t).at = "pop" THEN Top(t).lvl - 1 ELSE Top(t).lvl
  /\ popped[t] # <<>> => stk[t] # <<>> /\ Top(t).at = "pop"

(* A stack starts with the main program or ThreadFunc; a frame is one level *)
(* deeper than the one below it if it pushed a queue; a queue is popped by   *)
(* the innermost frame only.                                                 *)
FrameShape(t, i) ==
  LET f == stk[t][i] IN
  /\ f.at \in Places[f.fn]
  /\ i = 1 => f.fn = (IF t = Main THEN "app" ELSE "ThreadFunc") /\ f.lvl = 1
  /\ i > 1 => /\ f.fn \notin {"app", "ThreadFunc"}
              /\ f.lvl = IF f.fn = "EventLoop" THEN stk[t][i - 1].lvl + 1 ELSE stk[t][i - 1].lvl
  /\ f.lvl >= 1
  /\ f.at = "pop" => i = Len(stk[t])

Shape ==
  /\ stk[Main] # <<>>
  /\ \A t \in Thread : ChainShape(t) /\ \A i \in DOMAIN stk[t] : FrameShape(t, i)

(* The events that a thread has accepted and not taken yet. *)
EventsIn(chain, rest) == Range(rest) \cup UNION {Range(chain[i].q) : i \in DOMAIN chain}

Pending(t) == EventsIn(mEvents[t], popped[t])

(* Events and frames carry the numbers of events that were dispatched. *)
Numbered ==
  \A t \in Thread :
    /\ \A e \in Pending(t) : e.k \in {"task", "sync"} => e.id \in 1 .. nEvents
    /\ \A i \in DOMAIN stk[t] :
         stk[t][i].fn \in {"Run", "SyncRun", "Dispatch"} => stk[t][i].id \in 1 .. nEvents

Basic == TypeOK /\ Shape /\ Numbered

(* Shutdown is about threads that NewThread has returned and that nobody   *)
(* else has claimed; Init is about one that nobody knows yet.              *)
FrameClaims(f) ==
  /\ f.fn = "Shutdown" => f.t \in known \ {Main} /\ ~mShutdownRequired[f.t]
  /\ f.fn = "Init" => f.t \notin known /\ mShutdownRequired[f.t] /\ stk[f.t] # <<>>

OneClaim ==
  \A t, u \in Thread : \A i \in DOMAIN stk[t], j \in DOMAIN stk[u] :
    stk[t][i].fn \in {"Init", "Shutdown"} /\ stk[t][i].fn = stk[u][j].fn /\ stk[t][i].t = stk[u][j].t
      => t = u /\ i = j

(* The places of ThreadFunc after its loop, and after its last look at the queue. *)
Late == {"drain", "pending", "gone", "ack", "bye"}
Gone == {"gone", "ack", "bye"}

(* Only a thread that others know can be told to shut down. *)
OnlyKnown ==
  /\ Main \in known /\ ~mShutdownRequired[Main]
  /\ \A t \in Thread :
       /\ mShutdownContext[t] # NoThread => t \in known
       /\ \A e \in Pending(t) : e.k = "shutdown" => t \in known
       /\ \A i \in DOMAIN stk[t] :
            stk[t][i].at \in Late => mShutdownContext[t] # NoThread

FramesClaim == \A t \in Thread : \A i \in DOMAIN stk[t] : FrameClaims(stk[t][i])

Claims == FramesClaim /\ OneClaim /\ OnlyKnown

(* A thread is doomed exactly from its last look at the queue on, and *)
(* nothing is left in its queue.                                      *)
DoomedRight ==
  \A t \in Thread :
    /\ mEventsAreDoomed[t] =>
         /\ t \in known \ {Main} /\ Pending(t) = {}
         /\ stk[t] # <<>> => Len(stk[t]) = 1 /\ Top(t).at \in Gone
    /\ t \in known /\ stk[t] = <<>> => mEventsAreDoomed[t]
    /\ \A i \in DOMAIN stk[t] : stk[t][i].at \in Gone => mEventsAreDoomed[t]

Orderly == Basic /\ Claims /\ DoomedRight
--------------------------------------------------------------------------------
(* The chain of queues *)

LEMMA LeastElement ==
  ASSUME NEW S, S \subseteq Nat, S # {}
  PROVE  \E m \in S : \A k \in S : m <= k
<1>1. IsWellFoundedOn(OpToRel(<, Nat), Nat)
  BY NatLessThanWellFounded
<1>2. PICK m \in S : \A y \in S : ~ (<<y, m>> \in OpToRel(<, Nat))
  BY <1>1, WFMin
<1>3. \A y \in S : ~(y < m)
  BY <1>2 DEF OpToRel
<1> QED BY <1>3

(* Some queue of the chain takes the event, whatever its kind, because the *)
(* root queue has no filter.                                               *)
LEMMA TakerExists ==
  ASSUME NEW chain \in Seq(ChainedQueue), chain # <<>>, chain[1].filter = Kind, NEW e \in Event
  PROVE  Taker(chain, e) \in DOMAIN chain
<1> DEFINE S == {i \in 0 .. Len(chain) : Len(chain) - i >= 1 /\ e.k \in chain[Len(chain) - i].filter}
<1>1. Len(chain) \in Nat /\ Len(chain) >= 1 /\ DOMAIN chain = 1 .. Len(chain)
  BY EmptySeq, LenProperties
<1>2. Len(chain) - 1 \in S
  BY <1>1 DEF Event
<1>3. PICK m \in S : \A k \in S : m <= k
  <2>1. S \subseteq Nat
    BY <1>1
  <2>2. S # {}
    BY <1>2
  <2> HIDE DEF S
  <2> QED BY <2>1, <2>2, LeastElement
<1>4. Len(chain) - m \in DOMAIN chain /\ e.k \in chain[Len(chain) - m].filter
  BY <1>1, <1>3
<1>5. ASSUME NEW j \in DOMAIN chain, j > Len(chain) - m, e.k \in chain[j].filter
      PROVE  FALSE
  <2>1. Len(chain) - j \in S
    BY <1>1, <1>5
  <2> QED BY <1>1, <1>3, <1>5, <2>1
<1> QED BY <1>4, <1>5 DEF Taker

LEMMA ChainType ==
  ASSUME TypeOK, NEW t \in Thread
  PROVE  /\ mEvents[t] \in Seq(ChainedQueue) /\ Len(mEvents[t]) \in Nat
         /\ DOMAIN mEvents[t] = 1 .. Len(mEvents[t])
         /\ \A i \in 1 .. Len(mEvents[t]) : /\ mEvents[t][i] \in ChainedQueue
                                            /\ mEvents[t][i].q \in Seq(Event)
         /\ popped[t] \in Seq(Event)
<1>1. mEvents[t] \in Seq(ChainedQueue) /\ popped[t] \in Seq(Event)
  BY DEF TypeOK
<1>2. \A i \in 1 .. Len(mEvents[t]) : mEvents[t][i] \in ChainedQueue
  BY <1>1, ElementOfSeq
<1> QED BY <1>1, <1>2, LenProperties DEF ChainedQueue

(* A queue with other contents, and a frame that has moved on. *)
WithQ(c, s) == [c EXCEPT !.q = s]
WithAt(f, at) == [f EXCEPT !.at = at]

LEMMA WithQFacts ==
  ASSUME NEW c \in ChainedQueue, NEW s \in Seq(Event)
  PROVE  /\ WithQ(c, s) \in ChainedQueue
         /\ WithQ(c, s).q = s /\ WithQ(c, s).filter = c.filter
BY DEF WithQ, ChainedQueue

LEMMA WithAtFacts ==
  ASSUME NEW f \in Frame, NEW at \in At
  PROVE  /\ WithAt(f, at) \in Frame
         /\ WithAt(f, at).at = at /\ WithAt(f, at).fn = f.fn /\ WithAt(f, at).id = f.id
         /\ WithAt(f, at).t = f.t /\ WithAt(f, at).lvl = f.lvl
BY DEF WithAt, Frame

(* One queue of one chain gets other contents. *)
QueueSet(u, i, s) ==
  /\ mEvents' \in [Thread -> Seq(ChainedQueue)]
  /\ \A v \in Thread \ {u} : mEvents'[v] = mEvents[v]
  /\ Len(mEvents'[u]) = Len(mEvents[u]) /\ DOMAIN mEvents'[u] = DOMAIN mEvents[u]
  /\ \A j \in 1 .. Len(mEvents[u]) : mEvents'[u][j].filter = mEvents[u][j].filter
  /\ \A j \in 1 .. Len(mEvents[u]) : mEvents'[u][j].q = IF j = i THEN s ELSE mEvents[u][j].q

LEMMA SetQueueFacts ==
  ASSUME TypeOK, NEW u \in Thread, NEW i \in 1 .. Len(mEvents[u]), NEW s \in Seq(Event),
         mEvents' = [mEvents EXCEPT ![u] = [mEvents[u] EXCEPT ![i] = WithQ(mEvents[u][i], s)]]
  PROVE  QueueSet(u, i, s)
<1> DEFINE c == WithQ(mEvents[u][i], s)
<1>1. c \in ChainedQueue /\ c.q = s /\ c.filter = mEvents[u][i].filter
  BY ChainType, WithQFacts
<1>2. mEvents[u] \in Seq(ChainedQueue) /\ mEvents \in [Thread -> Seq(ChainedQueue)]
  BY DEF TypeOK
<1> HIDE DEF c
<1>3. mEvents'[u] = [mEvents[u] EXCEPT ![i] = c] /\ \A v \in Thread \ {u} : mEvents'[v] = mEvents[v]
  BY <1>2 DEF c
<1>4. /\ [mEvents[u] EXCEPT ![i] = c] \in Seq(ChainedQueue)
      /\ Len([mEvents[u] EXCEPT ![i] = c]) = Len(mEvents[u])
      /\ \A j \in 1 .. Len(mEvents[u]) : [mEvents[u] EXCEPT ![i] = c][j] = IF j = i THEN c ELSE mEvents[u][j]
  BY <1>1, <1>2, ExceptSeq
<1>5. mEvents' \in [Thread -> Seq(ChainedQueue)]
  BY <1>2, <1>3, <1>4
<1> QED BY <1>1, <1>3, <1>4, <1>5, <1>2, LenProperties DEF QueueSet

LEMMA PutUpdate ==
  ASSUME TypeOK, NEW u \in Thread, ChainShape(u), NEW e \in Event
  PROVE  \E i \in 1 .. Len(mEvents[u]) :
           Put(u, e) = [mEvents EXCEPT ![u] =
                          [mEvents[u] EXCEPT ![i] = WithQ(mEvents[u][i], Append(mEvents[u][i].q, e))]]
<1>1. Taker(mEvents[u], e) \in 1 .. Len(mEvents[u])
  BY ChainType, TakerExists DEF ChainShape
<1>2. Put(u, e) = [mEvents EXCEPT ![u] =
                     [mEvents[u] EXCEPT ![Taker(mEvents[u], e)] =
                        WithQ(mEvents[u][Taker(mEvents[u], e)], Append(mEvents[u][Taker(mEvents[u], e)].q, e))]]
  BY DEF Put, WithQ
<1> QED BY <1>1, <1>2

(* Putting an event adds it at the end of one queue of the thread. *)
LEMMA PutFacts ==
  ASSUME TypeOK, NEW u \in Thread, ChainShape(u), NEW e \in Event, mEvents' = Put(u, e)
  PROVE  \E i \in 1 .. Len(mEvents[u]) : QueueSet(u, i, Append(mEvents[u][i].q, e))
<1>1. PICK i \in 1 .. Len(mEvents[u]) :
        Put(u, e) = [mEvents EXCEPT ![u] =
                          [mEvents[u] EXCEPT ![i] = WithQ(mEvents[u][i], Append(mEvents[u][i].q, e))]]
  BY PutUpdate
<1>2. Append(mEvents[u][i].q, e) \in Seq(Event)
  BY ChainType, AppendProperties
<1>3. QueueSet(u, i, Append(mEvents[u][i].q, e))
  BY <1>1, <1>2, SetQueueFacts, Zenon
<1> QED BY <1>3
--------------------------------------------------------------------------------
(* The call stacks *)

LEMMA StackType ==
  ASSUME TypeOK, NEW t \in Thread
  PROVE  /\ stk[t] \in Seq(Frame) /\ Len(stk[t]) \in Nat
         /\ DOMAIN stk[t] = 1 .. Len(stk[t])
         /\ \A i \in 1 .. Len(stk[t]) : stk[t][i] \in Frame
         /\ stk[t] # <<>> <=> Len(stk[t]) >= 1
         /\ stk[t] # <<>> => Top(t) \in Frame /\ Len(stk[t]) \in 1 .. Len(stk[t])
<1>1. stk[t] \in Seq(Frame)
  BY DEF TypeOK
<1>2. /\ \A i \in 1 .. Len(stk[t]) : stk[t][i] \in Frame
      /\ Len(stk[t]) \in Nat /\ DOMAIN stk[t] = 1 .. Len(stk[t])
  BY <1>1, ElementOfSeq, LenProperties
<1>3. stk[t] # <<>> <=> Len(stk[t]) >= 1
  BY <1>1, <1>2, EmptySeq
<1> QED BY <1>1, <1>2, <1>3 DEF Top

(* The three ways a stack changes: the innermost frame moves on, it returns, *)
(* or it calls another function.                                             *)
Moved(t, at) ==
  /\ stk' \in [Thread -> Seq(Frame)]
  /\ \A u \in Thread \ {t} : stk'[u] = stk[u]
  /\ Len(stk'[t]) = Len(stk[t]) /\ DOMAIN stk'[t] = DOMAIN stk[t] /\ stk'[t] # <<>>
  /\ \A i \in 1 .. Len(stk[t]) - 1 : stk'[t][i] = stk[t][i]
  /\ LET f == stk[t][Len(stk[t])]
         g == stk'[t][Len(stk[t])]
     IN  g.at = at /\ g.fn = f.fn /\ g.id = f.id /\ g.t = f.t /\ g.lvl = f.lvl

Left(t) ==
  /\ stk' \in [Thread -> Seq(Frame)]
  /\ \A u \in Thread \ {t} : stk'[u] = stk[u]
  /\ Len(stk'[t]) = Len(stk[t]) - 1 /\ DOMAIN stk'[t] = 1 .. Len(stk[t]) - 1
  /\ \A i \in 1 .. Len(stk[t]) - 1 : stk'[t][i] = stk[t][i]

Entered(t, f) ==
  /\ stk' \in [Thread -> Seq(Frame)]
  /\ \A u \in Thread \ {t} : stk'[u] = stk[u]
  /\ Len(stk'[t]) = Len(stk[t]) + 1 /\ DOMAIN stk'[t] = 1 .. Len(stk[t]) + 1 /\ stk'[t] # <<>>
  /\ \A i \in 1 .. Len(stk[t]) : stk'[t][i] = stk[t][i]
  /\ stk'[t][Len(stk[t]) + 1] = f

LEMMA GotoFacts ==
  ASSUME TypeOK, NEW t \in Thread, stk[t] # <<>>, NEW at \in At, stk' = Goto(t, at)
  PROVE  Moved(t, at)
<1> DEFINE n == Len(stk[t])
           g == WithAt(stk[t][n], at)
<1>1. stk[t] \in Seq(Frame) /\ n \in Nat /\ n \in 1 .. n /\ DOMAIN stk[t] = 1 .. n /\ stk[t][n] \in Frame
  BY StackType
<1>2. /\ g \in Frame /\ g.at = at /\ g.fn = stk[t][n].fn /\ g.id = stk[t][n].id
      /\ g.t = stk[t][n].t /\ g.lvl = stk[t][n].lvl
  BY <1>1, WithAtFacts
<1>3. Goto(t, at) = [stk EXCEPT ![t] = [stk[t] EXCEPT ![n] = g]]
  BY DEF Goto, WithAt
<1> HIDE DEF n, g
<1>4. stk \in [Thread -> Seq(Frame)]
  BY DEF TypeOK
<1>5. stk'[t] = [stk[t] EXCEPT ![n] = g] /\ \A u \in Thread \ {t} : stk'[u] = stk[u]
  BY <1>3, <1>4
<1>6. /\ stk'[t] \in Seq(Frame) /\ Len(stk'[t]) = Len(stk[t])
      /\ \A j \in 1 .. Len(stk[t]) : stk'[t][j] = IF j = n THEN g ELSE stk[t][j]
  BY <1>1, <1>2, <1>5, ExceptSeq DEF n
<1>7. stk' \in [Thread -> Seq(Frame)]
  BY <1>3, <1>4, <1>5, <1>6
<1>8. stk'[t] # <<>> /\ DOMAIN stk'[t] = DOMAIN stk[t]
  BY <1>1, <1>6, EmptySeq, LenProperties DEF n
<1> QED BY <1>1, <1>2, <1>5, <1>6, <1>7, <1>8 DEF Moved, n

LEMMA ReturnedFacts ==
  ASSUME TypeOK, NEW t \in Thread, stk[t] # <<>>, stk' = Returned(t)
  PROVE  Left(t)
<1>1. stk[t] \in Seq(Frame) /\ Len(stk[t]) \in Nat /\ Len(stk[t]) >= 1
  BY StackType
<1>2. stk \in [Thread -> Seq(Frame)]
  BY DEF TypeOK
<1>3. stk'[t] = SubSeq(stk[t], 1, Len(stk[t]) - 1) /\ \A u \in Thread \ {t} : stk'[u] = stk[u]
  BY <1>2 DEF Returned
<1>4. /\ stk'[t] \in Seq(Frame) /\ Len(stk'[t]) = Len(stk[t]) - 1
      /\ \A i \in 1 .. Len(stk[t]) - 1 : stk'[t][i] = stk[t][i]
  BY <1>1, <1>3, SubSeqProperties
<1>5. stk' \in [Thread -> Seq(Frame)]
  BY <1>2, <1>3, <1>4 DEF Returned
<1> QED BY <1>1, <1>3, <1>4, <1>5, LenProperties DEF Left

LEMMA CallFacts ==
  ASSUME TypeOK, NEW t \in Thread, NEW fn \in Fn, NEW at \in At, NEW id \in 0 .. MaxEvents,
         NEW u \in Thread, NEW lvl \in Nat, stk' = Call(t, fn, at, id, u, lvl)
  PROVE  Entered(t, [fn |-> fn, at |-> at, id |-> id, t |-> u, lvl |-> lvl])
<1> DEFINE f == [fn |-> fn, at |-> at, id |-> id, t |-> u, lvl |-> lvl]
<1>1. stk[t] \in Seq(Frame) /\ Len(stk[t]) \in Nat
  BY StackType
<1>2. f \in Frame
  BY DEF Frame
<1>3. stk \in [Thread -> Seq(Frame)]
  BY DEF TypeOK
<1>4. stk' = [stk EXCEPT ![t] = Append(stk[t], f)]
  BY DEF Call
<1> HIDE DEF f
<1>5. stk'[t] = Append(stk[t], f) /\ \A v \in Thread \ {t} : stk'[v] = stk[v]
  BY <1>3, <1>4
<1>6. /\ stk'[t] \in Seq(Frame) /\ Len(stk'[t]) = Len(stk[t]) + 1
      /\ \A i \in 1 .. Len(stk[t]) : stk'[t][i] = stk[t][i]
      /\ stk'[t][Len(stk[t]) + 1] = f
  BY <1>1, <1>2, <1>5, AppendProperties
<1>7. stk' \in [Thread -> Seq(Frame)]
  BY <1>3, <1>4, <1>5, <1>6
<1>8. stk'[t] # <<>> /\ DOMAIN stk'[t] = 1 .. Len(stk[t]) + 1
  BY <1>1, <1>6, EmptySeq, LenProperties
<1> QED BY <1>5, <1>6, <1>7, <1>8 DEF Entered, f

(* The innermost frame moves on and calls f. *)
MovedInto(t, at, f) ==
  /\ stk' \in [Thread -> Seq(Frame)]
  /\ \A u \in Thread \ {t} : stk'[u] = stk[u]
  /\ Len(stk'[t]) = Len(stk[t]) + 1 /\ DOMAIN stk'[t] = 1 .. Len(stk[t]) + 1 /\ stk'[t] # <<>>
  /\ \A i \in 1 .. Len(stk[t]) - 1 : stk'[t][i] = stk[t][i]
  /\ LET g == stk[t][Len(stk[t])]
         h == stk'[t][Len(stk[t])]
     IN  h.at = at /\ h.fn = g.fn /\ h.id = g.id /\ h.t = g.t /\ h.lvl = g.lvl
  /\ stk'[t][Len(stk[t]) + 1] = f

(* The frame of the event that is run, and whether there is one. *)
RunFrame(t, e) == [fn |-> IF e.k = "task" THEN "Run" ELSE "SyncRun", at |-> "task",
                   id |-> e.id, t |-> e.t, lvl |-> Top(t).lvl]
Runs(e) == e.k = "task" \/ (e.k = "sync" /\ e.id \in mSyncTask)

LEMMA RunEventStack ==
  ASSUME TypeOK, NEW t \in Thread, stk[t] # <<>>, NEW at \in At, NEW e \in Event, RunEvent(t, e, at)
  PROVE  /\ Runs(e) => MovedInto(t, at, RunFrame(t, e)) /\ RunFrame(t, e) \in Frame
         /\ ~Runs(e) => Moved(t, at)
<1> DEFINE n == Len(stk[t])
           g == WithAt(stk[t][n], at)
           s == [stk[t] EXCEPT ![n] = g]
<1>1. stk[t] \in Seq(Frame) /\ n \in Nat /\ n \in 1 .. n /\ DOMAIN stk[t] = 1 .. n /\ stk[t][n] \in Frame
  BY StackType
<1>2. /\ g \in Frame /\ g.at = at /\ g.fn = stk[t][n].fn /\ g.id = stk[t][n].id
      /\ g.t = stk[t][n].t /\ g.lvl = stk[t][n].lvl
  BY <1>1, WithAtFacts
<1>3. stk' = [stk EXCEPT ![t] = s \o (IF Runs(e) THEN <<RunFrame(t, e)>> ELSE <<>>)]
  BY DEF RunEvent, WithAt, Runs, RunFrame
<1>4. stk \in [Thread -> Seq(Frame)]
  BY DEF TypeOK
<1>5. s \in Seq(Frame) /\ Len(s) = n /\ \A j \in 1 .. n : s[j] = IF j = n THEN g ELSE stk[t][j]
  BY <1>1, <1>2, ExceptSeq
<1>6. RunFrame(t, e) \in Frame
  BY StackType DEF RunFrame, Frame, Event, Fn, At
<1> HIDE DEF n, g, s
<1>7. CASE Runs(e)
  <2>1. stk'[t] = s \o <<RunFrame(t, e)>> /\ \A u \in Thread \ {t} : stk'[u] = stk[u]
    BY <1>3, <1>4, <1>7
  <2>2. /\ stk'[t] \in Seq(Frame) /\ Len(stk'[t]) = n + 1
        /\ \A j \in 1 .. n : stk'[t][j] = s[j]
        /\ stk'[t][n + 1] = RunFrame(t, e)
    <3>1. s \o <<RunFrame(t, e)>> = Append(s, RunFrame(t, e))
      BY <1>5, <1>6, AppendIsConcat
    <3>2. /\ Append(s, RunFrame(t, e)) \in Seq(Frame)
          /\ Len(Append(s, RunFrame(t, e))) = Len(s) + 1
          /\ \A j \in 1 .. Len(s) : Append(s, RunFrame(t, e))[j] = s[j]
          /\ Append(s, RunFrame(t, e))[Len(s) + 1] = RunFrame(t, e)
      BY <1>5, <1>6, AppendProperties
    <3> QED BY <2>1, <3>1, <3>2, <1>5
  <2>3. stk' \in [Thread -> Seq(Frame)]
    BY <1>3, <1>4, <2>1, <2>2
  <2>4. stk'[t] # <<>> /\ DOMAIN stk'[t] = 1 .. n + 1
    BY <1>1, <2>2, EmptySeq, LenProperties
  <2>5. MovedInto(t, at, RunFrame(t, e))
    BY <1>1, <1>2, <1>5, <2>1, <2>2, <2>3, <2>4 DEF MovedInto, n
  <2> QED BY <1>6, <1>7, <2>5
<1>8. CASE ~Runs(e)
  <2>1. stk'[t] = s /\ \A u \in Thread \ {t} : stk'[u] = stk[u]
    <3>1. s \o <<>> = s
      BY <1>5, ConcatEmptySeq
    <3> QED BY <1>3, <1>4, <1>8, <3>1
  <2>2. stk' \in [Thread -> Seq(Frame)]
    BY <1>3, <1>4, <2>1, <1>5
  <2>3. stk'[t] # <<>> /\ DOMAIN stk'[t] = DOMAIN stk[t]
    BY <1>1, <1>5, <2>1, EmptySeq, LenProperties
  <2>4. Moved(t, at)
    BY <1>1, <1>2, <1>5, <2>1, <2>2, <2>3 DEF Moved, n
  <2> QED BY <1>8, <2>4
<1> QED BY <1>7, <1>8
--------------------------------------------------------------------------------
(* What is pending *)

PendingAs == \A v \in Thread : Pending(v)' = Pending(v)

PendingPlus(u, e) == /\ Pending(u)' = Pending(u) \cup {e}
                     /\ \A v \in Thread \ {u} : Pending(v)' = Pending(v)

PendingTaken(t, e) == /\ e \in Pending(t) /\ Pending(t)' \subseteq Pending(t)
                      /\ Pending(t) \subseteq Pending(t)' \cup {e}
                      /\ \A v \in Thread \ {t} : Pending(v)' = Pending(v)

LEMMA PendingKept == ASSUME mEvents' = mEvents, popped' = popped PROVE PendingAs
BY DEF PendingAs, Pending

LEMMA RangeAppend ==
  ASSUME NEW s \in Seq(Event), NEW e \in Event
  PROVE  Range(Append(s, e)) = Range(s) \cup {e}
<1>1. /\ Append(s, e) \in Seq(Event) /\ Len(Append(s, e)) = Len(s) + 1 /\ Len(s) \in Nat
      /\ \A n \in 1 .. Len(s) : Append(s, e)[n] = s[n]
      /\ Append(s, e)[Len(s) + 1] = e
  BY AppendProperties, LenProperties
<1>2. DOMAIN s = 1 .. Len(s) /\ DOMAIN Append(s, e) = 1 .. Len(s) + 1
  BY <1>1, LenProperties
<1> QED BY <1>1, <1>2 DEF Range

LEMMA RangeHeadTail ==
  ASSUME NEW s \in Seq(Event), s # <<>>
  PROVE  /\ Head(s) \in Event /\ Tail(s) \in Seq(Event)
         /\ Range(s) = Range(Tail(s)) \cup {Head(s)}
<1>1. /\ Head(s) \in Event /\ Tail(s) \in Seq(Event) /\ Len(s) \in Nat /\ Len(s) >= 1
      /\ Len(Tail(s)) = Len(s) - 1 /\ Head(s) = s[1]
      /\ \A n \in 1 .. Len(s) - 1 : Tail(s)[n] = s[n + 1]
  BY HeadTailProperties, LenProperties, EmptySeq
<1>2. DOMAIN s = 1 .. Len(s) /\ DOMAIN Tail(s) = 1 .. Len(s) - 1
  BY <1>1, LenProperties
<1>3. ASSUME NEW n \in 1 .. Len(s) PROVE s[n] \in Range(Tail(s)) \cup {Head(s)}
  <2>1. CASE n = 1
    BY <2>1, <1>1
  <2>2. CASE n # 1
    <3>1. n - 1 \in 1 .. Len(s) - 1 /\ Tail(s)[n - 1] = s[n]
      BY <1>1, <2>2
    <3> QED BY <3>1, <1>2 DEF Range
  <2> QED BY <2>1, <2>2
<1>4. ASSUME NEW n \in 1 .. Len(s) - 1 PROVE Tail(s)[n] \in Range(s)
  <2>1. n + 1 \in 1 .. Len(s)
    BY <1>1
  <2> QED BY <2>1, <1>1, <1>2 DEF Range
<1>5. Head(s) \in Range(s)
  BY <1>1, <1>2 DEF Range
<1>6. Range(s) \subseteq Range(Tail(s)) \cup {Head(s)}
  BY <1>2, <1>3 DEF Range
<1>7. Range(Tail(s)) \subseteq Range(s)
  BY <1>2, <1>4 DEF Range
<1> QED BY <1>1, <1>5, <1>6, <1>7

(* A pending event is in some queue of the chain or in the popped one. *)
LEMMA PendingMeans ==
  ASSUME NEW chain \in Seq(ChainedQueue), NEW rest, NEW e
  PROVE  e \in EventsIn(chain, rest) <=>
           e \in Range(rest) \/ \E i \in 1 .. Len(chain) : e \in Range(chain[i].q)
BY LenProperties DEF EventsIn

(* One queue gets other contents. *)
LEMMA PendingSet ==
  ASSUME TypeOK, NEW u \in Thread, NEW i \in 1 .. Len(mEvents[u]), NEW s, QueueSet(u, i, s),
         popped' = popped
  PROVE  /\ \A v \in Thread \ {u} : Pending(v)' = Pending(v)
         /\ \A x : x \in Pending(u)' <=>
              \/ x \in Range(popped[u]) \/ x \in Range(s)
              \/ \E j \in 1 .. Len(mEvents[u]) : j # i /\ x \in Range(mEvents[u][j].q)
         /\ \A x : x \in Pending(u) <=>
              \/ x \in Range(popped[u]) \/ x \in Range(mEvents[u][i].q)
              \/ \E j \in 1 .. Len(mEvents[u]) : j # i /\ x \in Range(mEvents[u][j].q)
<1>1. \A v \in Thread \ {u} : Pending(v)' = Pending(v)
  BY DEF QueueSet, Pending
<1>2. Len(mEvents'[u]) = Len(mEvents[u]) /\ mEvents'[u] \in Seq(ChainedQueue)
      /\ mEvents[u] \in Seq(ChainedQueue)
  BY DEF QueueSet, TypeOK
<1>3. \A j \in 1 .. Len(mEvents[u]) : mEvents'[u][j].q = IF j = i THEN s ELSE mEvents[u][j].q
  BY DEF QueueSet
<1>4. \A x : x \in Pending(u)' <=>
        x \in Range(popped[u]) \/ \E j \in 1 .. Len(mEvents[u]) : x \in Range(mEvents'[u][j].q)
  BY <1>2, PendingMeans DEF Pending
<1>5. \A x : x \in Pending(u) <=>
        x \in Range(popped[u]) \/ \E j \in 1 .. Len(mEvents[u]) : x \in Range(mEvents[u][j].q)
  BY <1>2, PendingMeans DEF Pending
<1> QED BY <1>1, <1>3, <1>4, <1>5

LEMMA PendingPut ==
  ASSUME TypeOK, NEW u \in Thread, ChainShape(u), NEW e \in Event,
         mEvents' = Put(u, e), popped' = popped
  PROVE  PendingPlus(u, e)
<1>1. PICK i \in 1 .. Len(mEvents[u]) : QueueSet(u, i, Append(mEvents[u][i].q, e))
  BY PutFacts
<1>2. Range(Append(mEvents[u][i].q, e)) = Range(mEvents[u][i].q) \cup {e}
  BY ChainType, RangeAppend
<1> QED BY <1>1, <1>2, PendingSet DEF PendingPlus

(* Taking the first event of the newest queue. *)
LEMMA TakeFacts ==
  ASSUME TypeOK, NEW t \in Thread, ChainShape(t), HasPendingEvent(t),
         mEvents' = [mEvents EXCEPT ![t][Len(mEvents[t])].q = Tail(@)], popped' = popped
  PROVE  /\ NextEvent(t) \in Event
         /\ QueueSet(t, Len(mEvents[t]), Tail(mEvents[t][Len(mEvents[t])].q))
         /\ PendingTaken(t, NextEvent(t))
<1> DEFINE n == Len(mEvents[t])
           q == mEvents[t][n].q
<1>1. n \in 1 .. Len(mEvents[t]) /\ q \in Seq(Event) /\ q # <<>> /\ Newest(t).q = q
  BY ChainType, EmptySeq DEF ChainShape, HasPendingEvent, Newest
<1>2. /\ Head(q) \in Event /\ Tail(q) \in Seq(Event)
      /\ Range(q) = Range(Tail(q)) \cup {Head(q)}
  BY <1>1, RangeHeadTail
<1>3. mEvents' = [mEvents EXCEPT ![t] = [mEvents[t] EXCEPT ![n] = WithQ(mEvents[t][n], Tail(q))]]
  BY DEF WithQ
<1>4. QueueSet(t, n, Tail(q))
  BY <1>1, <1>2, <1>3, SetQueueFacts, Zenon
<1>5. NextEvent(t) = Head(q)
  BY <1>1 DEF NextEvent
<1> HIDE DEF n
<1>6. PendingTaken(t, Head(q))
  BY <1>1, <1>2, <1>4, PendingSet DEF PendingTaken
<1> QED BY <1>2, <1>4, <1>5, <1>6 DEF n

(* An empty queue is added to the chain. *)
LEMMA PushFacts ==
  ASSUME TypeOK, NEW t \in Thread, NEW f \in Filter, ChainShape(t),
         mEvents' = [mEvents EXCEPT ![t] = Append(@, [filter |-> f, q |-> <<>>])], popped' = popped
  PROVE  /\ mEvents' \in [Thread -> Seq(ChainedQueue)]
         /\ \A v \in Thread \ {t} : mEvents'[v] = mEvents[v]
         /\ Len(mEvents'[t]) = Len(mEvents[t]) + 1
         /\ mEvents'[t] # <<>> /\ mEvents'[t][1].filter = mEvents[t][1].filter
         /\ PendingAs
<1> DEFINE c == [filter |-> f, q |-> <<>>]
<1>1. c \in ChainedQueue /\ Range(c.q) = {}
  BY FilterKinds, EmptySeq DEF ChainedQueue, Range
<1>2. /\ mEvents[t] \in Seq(ChainedQueue) /\ mEvents \in [Thread -> Seq(ChainedQueue)]
      /\ Len(mEvents[t]) \in Nat /\ Len(mEvents[t]) >= 1
  BY ChainType, EmptySeq DEF ChainShape, TypeOK
<1> HIDE DEF c
<1>3. mEvents'[t] = Append(mEvents[t], c) /\ \A v \in Thread \ {t} : mEvents'[v] = mEvents[v]
  BY <1>2 DEF c
<1>4. /\ mEvents'[t] \in Seq(ChainedQueue) /\ Len(mEvents'[t]) = Len(mEvents[t]) + 1
      /\ \A i \in 1 .. Len(mEvents[t]) : mEvents'[t][i] = mEvents[t][i]
      /\ mEvents'[t][Len(mEvents[t]) + 1] = c
  BY <1>1, <1>2, <1>3, AppendProperties
<1>5. mEvents' \in [Thread -> Seq(ChainedQueue)]
  BY <1>2, <1>3, <1>4
<1>6. mEvents'[t] # <<>> /\ mEvents'[t][1] = mEvents[t][1]
  BY <1>2, <1>4, EmptySeq
<1>7. \A x : x \in Pending(t)' <=>
        x \in Range(popped[t]) \/ \E j \in 1 .. Len(mEvents[t]) + 1 : x \in Range(mEvents'[t][j].q)
  BY <1>4, PendingMeans DEF Pending
<1>8. \A x : x \in Pending(t) <=>
        x \in Range(popped[t]) \/ \E j \in 1 .. Len(mEvents[t]) : x \in Range(mEvents[t][j].q)
  BY <1>2, PendingMeans DEF Pending
<1>9. \A x : (\E j \in 1 .. Len(mEvents[t]) + 1 : x \in Range(mEvents'[t][j].q))
             <=> \E j \in 1 .. Len(mEvents[t]) : x \in Range(mEvents[t][j].q)
  <2>1. ASSUME NEW x, NEW j \in 1 .. Len(mEvents[t]) + 1, x \in Range(mEvents'[t][j].q)
        PROVE  j \in 1 .. Len(mEvents[t]) /\ x \in Range(mEvents[t][j].q)
    <3>1. j # Len(mEvents[t]) + 1
      BY <1>1, <1>4, <2>1
    <3>2. j \in 1 .. Len(mEvents[t])
      BY <1>2, <3>1
    <3> QED BY <1>4, <2>1, <3>2
  <2>2. ASSUME NEW x, NEW j \in 1 .. Len(mEvents[t]), x \in Range(mEvents[t][j].q)
        PROVE  j \in 1 .. Len(mEvents[t]) + 1 /\ x \in Range(mEvents'[t][j].q)
    <3>1. j \in 1 .. Len(mEvents[t]) + 1
      BY <1>2
    <3> QED BY <1>4, <2>2, <3>1
  <2> QED BY <2>1, <2>2
<1>10. Pending(t)' = Pending(t)
  BY <1>7, <1>8, <1>9
<1>11. \A v \in Thread \ {t} : Pending(v)' = Pending(v)
  BY <1>3 DEF Pending
<1> QED BY <1>3, <1>4, <1>5, <1>6, <1>10, <1>11 DEF PendingAs

(* The newest queue is unlinked; what it holds is kept aside. *)
LEMMA PopFacts ==
  ASSUME TypeOK, NEW t \in Thread, ChainShape(t), Len(mEvents[t]) >= 2, popped[t] = <<>>,
         popped' = [popped EXCEPT ![t] = Newest(t).q],
         mEvents' = [mEvents EXCEPT ![t] = SubSeq(@, 1, Len(@) - 1)]
  PROVE  /\ mEvents' \in [Thread -> Seq(ChainedQueue)]
         /\ popped' \in [Thread -> Seq(Event)]
         /\ \A v \in Thread \ {t} : mEvents'[v] = mEvents[v] /\ popped'[v] = popped[v]
         /\ Len(mEvents'[t]) = Len(mEvents[t]) - 1
         /\ mEvents'[t] # <<>> /\ mEvents'[t][1].filter = mEvents[t][1].filter
         /\ PendingAs
<1> DEFINE n == Len(mEvents[t])
<1>1. /\ mEvents[t] \in Seq(ChainedQueue) /\ mEvents \in [Thread -> Seq(ChainedQueue)]
      /\ n \in Nat /\ n >= 2 /\ mEvents[t][n].q \in Seq(Event)
      /\ popped \in [Thread -> Seq(Event)]
  <2>1. mEvents \in [Thread -> Seq(ChainedQueue)] /\ popped \in [Thread -> Seq(Event)]
    BY DEF TypeOK
  <2>2. n \in Nat /\ n >= 2 /\ \A i \in 1 .. n : mEvents[t][i].q \in Seq(Event)
    BY ChainType
  <2> QED BY <2>1, <2>2
<1>2. /\ mEvents'[t] = SubSeq(mEvents[t], 1, n - 1) /\ popped'[t] = mEvents[t][n].q
      /\ \A v \in Thread \ {t} : mEvents'[v] = mEvents[v] /\ popped'[v] = popped[v]
  BY <1>1 DEF Newest
<1>3. /\ mEvents'[t] \in Seq(ChainedQueue) /\ Len(mEvents'[t]) = n - 1
      /\ \A i \in 1 .. n - 1 : mEvents'[t][i] = mEvents[t][i]
  BY <1>1, <1>2, SubSeqProperties
<1>4. mEvents' \in [Thread -> Seq(ChainedQueue)] /\ popped' \in [Thread -> Seq(Event)]
  BY <1>1, <1>2, <1>3
<1>5. mEvents'[t] # <<>> /\ mEvents'[t][1] = mEvents[t][1]
  <2>1. 1 \in 1 .. n - 1 /\ n - 1 # 0
    BY <1>1
  <2> HIDE DEF n
  <2> QED BY <1>3, <2>1, EmptySeq
<1> HIDE DEF n
<1>6. \A x : x \in Pending(t)' <=>
        x \in Range(mEvents[t][n].q) \/ \E j \in 1 .. n - 1 : x \in Range(mEvents'[t][j].q)
  BY <1>2, <1>3, PendingMeans DEF Pending
<1>7. \A x : x \in Pending(t) <=>
        x \in Range(popped[t]) \/ \E j \in 1 .. n : x \in Range(mEvents[t][j].q)
  BY <1>1, PendingMeans DEF Pending, n
<1>8. Range(popped[t]) = {}
  BY EmptySeq DEF Range
<1>9. \A x : (\E j \in 1 .. n : x \in Range(mEvents[t][j].q))
             <=> x \in Range(mEvents[t][n].q) \/ \E j \in 1 .. n - 1 : x \in Range(mEvents'[t][j].q)
  BY <1>1, <1>3
<1>10. Pending(t)' = Pending(t)
  BY <1>6, <1>7, <1>8, <1>9
<1>11. \A v \in Thread \ {t} : Pending(v)' = Pending(v)
  BY <1>2 DEF Pending
<1> QED BY <1>2, <1>3, <1>4, <1>5, <1>10, <1>11 DEF PendingAs, n

(* The first event of the popped queue is put into the chain again. *)
LEMMA RepostFacts ==
  ASSUME TypeOK, NEW t \in Thread, ChainShape(t), popped[t] # <<>>,
         mEvents' = Put(t, Head(popped[t])), popped' = [popped EXCEPT ![t] = Tail(@)]
  PROVE  /\ popped' \in [Thread -> Seq(Event)]
         /\ \A v \in Thread \ {t} : popped'[v] = popped[v]
         /\ \E i \in 1 .. Len(mEvents[t]) : QueueSet(t, i, Append(mEvents[t][i].q, Head(popped[t])))
         /\ PendingAs
<1> DEFINE e == Head(popped[t])
<1>1. popped \in [Thread -> Seq(Event)] /\ popped[t] \in Seq(Event) /\ mEvents[t] \in Seq(ChainedQueue)
  BY DEF TypeOK
<1>2. /\ e \in Event /\ Tail(popped[t]) \in Seq(Event)
      /\ Range(popped[t]) = Range(Tail(popped[t])) \cup {e}
  BY <1>1, RangeHeadTail
<1> HIDE DEF e
<1>3. popped'[t] = Tail(popped[t]) /\ \A v \in Thread \ {t} : popped'[v] = popped[v]
  BY <1>1
<1>4. popped' \in [Thread -> Seq(Event)]
  BY <1>1, <1>2
<1>5. PICK i \in 1 .. Len(mEvents[t]) : QueueSet(t, i, Append(mEvents[t][i].q, e))
  BY <1>2, PutFacts DEF e
<1>6. Range(Append(mEvents[t][i].q, e)) = Range(mEvents[t][i].q) \cup {e}
  BY <1>2, ChainType, RangeAppend
<1>7. \A x : x \in Pending(t)' <=>
        x \in Range(Tail(popped[t])) \/ \E j \in 1 .. Len(mEvents[t]) : x \in Range(mEvents'[t][j].q)
  BY <1>3, <1>5, PendingMeans DEF Pending, QueueSet
<1>8. \A x : x \in Pending(t) <=>
        x \in Range(popped[t]) \/ \E j \in 1 .. Len(mEvents[t]) : x \in Range(mEvents[t][j].q)
  BY <1>1, PendingMeans DEF Pending
<1>9. \A x : (\E j \in 1 .. Len(mEvents[t]) : x \in Range(mEvents'[t][j].q))
             <=> x = e \/ \E j \in 1 .. Len(mEvents[t]) : x \in Range(mEvents[t][j].q)
  BY <1>5, <1>6 DEF QueueSet
<1>10. Pending(t)' = Pending(t)
  BY <1>2, <1>7, <1>8, <1>9
<1>11. \A v \in Thread \ {t} : Pending(v)' = Pending(v)
  BY <1>3, <1>5 DEF Pending, QueueSet
<1> QED BY <1>3, <1>4, <1>5, <1>10, <1>11 DEF PendingAs, e
--------------------------------------------------------------------------------
(* What keeps the shape of chains and stacks *)

ChainKept(v) == /\ Len(mEvents'[v]) = Len(mEvents[v])
                /\ mEvents'[v] # <<>> /\ mEvents'[v][1].filter = mEvents[v][1].filter

ChainsKept == mEvents' \in [Thread -> Seq(ChainedQueue)] /\ \A v \in Thread : ChainKept(v)

ShapeOf(t) == ChainShape(t) /\ \A i \in DOMAIN stk[t] : FrameShape(t, i)

LEMMA ChainsUnchanged ==
  ASSUME TypeOK, Shape, mEvents' = mEvents
  PROVE  ChainsKept
BY DEF TypeOK, Shape, ChainShape, ChainsKept, ChainKept

LEMMA QueueSetKeeps ==
  ASSUME TypeOK, Shape, NEW u \in Thread, NEW i, NEW s, QueueSet(u, i, s)
  PROVE  ChainsKept
<1>1. mEvents[u] \in Seq(ChainedQueue) /\ mEvents[u] # <<>> /\ Len(mEvents[u]) \in Nat
  BY ChainType DEF Shape, ChainShape
<1>2. 1 \in 1 .. Len(mEvents[u])
  BY <1>1, EmptySeq
<1>3. /\ mEvents' \in [Thread -> Seq(ChainedQueue)] /\ Len(mEvents'[u]) = Len(mEvents[u])
      /\ mEvents'[u][1].filter = mEvents[u][1].filter
      /\ \A v \in Thread \ {u} : mEvents'[v] = mEvents[v]
  BY <1>2 DEF QueueSet
<1>4. mEvents'[u] \in Seq(ChainedQueue)
  BY <1>3
<1>5. mEvents'[u] # <<>>
  BY <1>1, <1>3, <1>4, EmptySeq
<1>6. \A v \in Thread : mEvents[v] # <<>>
  BY DEF Shape, ChainShape
<1> QED BY <1>3, <1>5, <1>6 DEF ChainsKept, ChainKept

LEMMA KeptShape ==
  ASSUME NEW v \in Thread, ShapeOf(v), ChainKept(v), stk'[v] = stk[v], popped'[v] = popped[v]
  PROVE  ShapeOf(v)'
BY DEF ShapeOf, ChainShape, FrameShape, ChainKept, Top

(* nsThread::PutEvent adds the event, unless the thread is doomed. *)
LEMMA PutEventFacts ==
  ASSUME TypeOK, Shape, NEW u \in Thread, NEW e \in Event, PutEvent(u, e), popped' = popped
  PROVE  /\ ChainsKept
         /\ mEventsAreDoomed[u] => PendingAs
         /\ ~mEventsAreDoomed[u] => PendingPlus(u, e)
<1>1. CASE mEventsAreDoomed[u]
  BY <1>1, ChainsUnchanged, PendingKept DEF PutEvent
<1>2. CASE ~mEventsAreDoomed[u]
  <2>1. ChainShape(u) /\ mEvents' = Put(u, e)
    BY <1>2 DEF Shape, PutEvent
  <2>2. ChainsKept
    BY <2>1, PutFacts, QueueSetKeeps
  <2>3. PendingPlus(u, e)
    BY <2>1, PendingPut
  <2> QED BY <1>2, <2>2, <2>3
<1> QED BY <1>1, <1>2

LEMMA TopShape ==
  ASSUME TypeOK, Shape, NEW t \in Thread, stk[t] # <<>>
  PROVE  /\ Len(stk[t]) \in Nat /\ Len(stk[t]) >= 1 /\ Len(stk[t]) \in DOMAIN stk[t]
         /\ Top(t) = stk[t][Len(stk[t])] /\ Top(t) \in Frame
         /\ FrameShape(t, Len(stk[t])) /\ Top(t).at \in Places[Top(t).fn]
         /\ Top(t).lvl \in Nat /\ Top(t).lvl >= 1
         /\ Top(t).fn \in {"app", "ThreadFunc"} => Len(stk[t]) = 1 /\ Top(t).lvl = 1
         /\ Len(mEvents[t]) = IF Top(t).at = "pop" THEN Top(t).lvl - 1 ELSE Top(t).lvl
<1>1. /\ Len(stk[t]) \in Nat /\ Len(stk[t]) >= 1 /\ Len(stk[t]) \in DOMAIN stk[t]
      /\ Top(t) \in Frame /\ Top(t) = stk[t][Len(stk[t])]
  BY StackType DEF Top
<1>2. FrameShape(t, Len(stk[t])) /\ ChainShape(t)
  BY <1>1 DEF Shape
<1>3. Top(t).lvl \in Nat
  BY <1>1 DEF Frame
<1> HIDE DEF Top
<1>4. /\ Top(t).at \in Places[Top(t).fn] /\ Top(t).lvl >= 1
      /\ Len(stk[t]) > 1 => Top(t).fn \notin {"app", "ThreadFunc"}
      /\ Len(stk[t]) = 1 => Top(t).lvl = 1
  BY <1>1, <1>2 DEF FrameShape
<1>5. Len(mEvents[t]) = IF Top(t).at = "pop" THEN Top(t).lvl - 1 ELSE Top(t).lvl
  BY <1>2 DEF ChainShape
<1>6. Len(stk[t]) = 1 \/ Len(stk[t]) > 1
  <2> DEFINE n == Len(stk[t])
  <2>1. n \in Nat /\ n >= 1
    BY <1>1
  <2> HIDE DEF n
  <2>2. n = 1 \/ n > 1
    BY <2>1
  <2> QED BY <2>2 DEF n
<1> QED BY <1>1, <1>2, <1>3, <1>4, <1>5, <1>6

(* The innermost frame moves on, outside PopEventQueue. *)
LEMMA MovedShape ==
  ASSUME TypeOK, Shape, ChainsKept, popped' = popped, NEW t \in Thread, NEW at,
         stk[t] # <<>>, Moved(t, at), at \in Places[Top(t).fn], at # "pop", Top(t).at # "pop"
  PROVE  Shape'
<1> DEFINE n == Len(stk[t])
<1>1. n \in Nat /\ n >= 1 /\ DOMAIN stk[t] = 1 .. n /\ n \in 1 .. n /\ Top(t) = stk[t][n]
  BY StackType, TopShape
<1>2. ASSUME NEW v \in Thread \ {t} PROVE ShapeOf(v)'
  BY KeptShape DEF Moved, Shape, ShapeOf, ChainsKept
<1>3. ChainShape(t) /\ ChainKept(t) /\ \A i \in 1 .. n : FrameShape(t, i)
  BY <1>1 DEF Shape, ChainsKept
<1>4. /\ stk'[t] # <<>> /\ Len(stk'[t]) = n /\ DOMAIN stk'[t] = 1 .. n
      /\ \A i \in 1 .. n - 1 : stk'[t][i] = stk[t][i]
      /\ stk'[t][n].at = at /\ stk'[t][n].fn = stk[t][n].fn /\ stk'[t][n].lvl = stk[t][n].lvl
  BY <1>1 DEF Moved
<1> HIDE DEF n
<1>5. ChainShape(t)'
  BY <1>1, <1>3, <1>4 DEF ChainShape, ChainKept, Top
<1>6. ASSUME NEW i \in 1 .. n PROVE FrameShape(t, i)'
  <2>1. CASE i = n
    <3>1. CASE n = 1
      BY <1>1, <1>3, <1>4, <2>1, <3>1 DEF FrameShape
    <3>2. CASE n # 1
      <4>1. n - 1 \in 1 .. n - 1
        BY <1>1, <3>2
      <4> QED BY <1>1, <1>3, <1>4, <2>1, <4>1 DEF FrameShape
    <3> QED BY <3>1, <3>2
  <2>2. CASE i # n
    <3>1. i \in 1 .. n - 1 /\ (i > 1 => i - 1 \in 1 .. n - 1)
      BY <1>1, <2>2
    <3>2. FrameShape(t, i)
      BY <1>3
    <3>3. stk'[t][i] = stk[t][i] /\ (i > 1 => stk'[t][i - 1] = stk[t][i - 1])
      BY <1>4, <3>1
    <3>4. Len(stk'[t]) = Len(stk[t])
      BY <1>4 DEF n
    <3> QED BY <3>2, <3>3, <3>4 DEF FrameShape
  <2> QED BY <2>1, <2>2
<1>7. ShapeOf(t)'
  BY <1>4, <1>5, <1>6 DEF ShapeOf
<1>8. stk'[Main] # <<>>
  BY <1>4, ThreadConstants DEF Shape, Moved
<1> QED BY <1>2, <1>7, <1>8 DEF Shape, ShapeOf

(* The innermost frame calls a function, which may have pushed a queue. *)
LEMMA MovedIntoShape ==
  ASSUME TypeOK, Shape, popped' = popped, NEW t \in Thread, NEW at, NEW f,
         \A v \in Thread \ {t} : ChainKept(v),
         stk[t] # <<>>, MovedInto(t, at, f), at \in Places[Top(t).fn], at # "pop", Top(t).at # "pop",
         f.fn \notin {"app", "ThreadFunc"}, f.at \in Places[f.fn], f.at # "pop",
         f.lvl = IF f.fn = "EventLoop" THEN Top(t).lvl + 1 ELSE Top(t).lvl,
         mEvents'[t] # <<>>, mEvents'[t][1].filter = Kind, Len(mEvents'[t]) = f.lvl
  PROVE  Shape'
<1> DEFINE n == Len(stk[t])
<1>1. n \in Nat /\ n >= 1 /\ DOMAIN stk[t] = 1 .. n /\ n \in 1 .. n /\ Top(t) = stk[t][n]
  BY StackType, TopShape
<1>2. ASSUME NEW v \in Thread \ {t} PROVE ShapeOf(v)'
  BY KeptShape DEF MovedInto, Shape, ShapeOf
<1>3. ChainShape(t) /\ (\A i \in 1 .. n : FrameShape(t, i)) /\ stk[t][n].lvl \in Nat /\ stk[t][n].lvl >= 1
  BY <1>1, TopShape DEF Shape
<1>4. /\ stk'[t] # <<>> /\ Len(stk'[t]) = n + 1 /\ DOMAIN stk'[t] = 1 .. n + 1
      /\ \A i \in 1 .. n - 1 : stk'[t][i] = stk[t][i]
      /\ stk'[t][n].at = at /\ stk'[t][n].fn = stk[t][n].fn /\ stk'[t][n].lvl = stk[t][n].lvl
      /\ stk'[t][n + 1] = f
  BY <1>1 DEF MovedInto
<1>5. f.lvl >= 1
  BY <1>1, <1>3
<1>n. n = Len(stk[t])
  OBVIOUS
<1> HIDE DEF n
<1>6. ChainShape(t)'
  <2>1. popped[t] = <<>>
    BY <1>3 DEF ChainShape
  <2> QED BY <1>1, <1>4, <2>1 DEF ChainShape, Top
<1>7. ASSUME NEW i \in 1 .. n + 1 PROVE FrameShape(t, i)'
  <2>1. CASE i = n + 1
    <3>1. i > 1 /\ i # 1 /\ i - 1 = n
      BY <1>1, <2>1
    <3> QED BY <1>1, <1>4, <1>5, <2>1, <3>1 DEF FrameShape
  <2>2. CASE i = n
    <3>1. CASE n = 1
      BY <1>1, <1>3, <1>4, <2>2, <3>1 DEF FrameShape
    <3>2. CASE n # 1
      <4>1. n - 1 \in 1 .. n - 1
        BY <1>1, <3>2
      <4> QED BY <1>1, <1>3, <1>4, <2>2, <4>1 DEF FrameShape
    <3> QED BY <3>1, <3>2
  <2>3. CASE i \notin {n, n + 1}
    <3>1. i \in 1 .. n - 1 /\ i \in 1 .. n /\ i # n /\ (i > 1 => i - 1 \in 1 .. n - 1)
      BY <1>1, <2>3
    <3>2. FrameShape(t, i)
      BY <1>3, <3>1
    <3>3. stk'[t][i] = stk[t][i] /\ (i > 1 => stk'[t][i - 1] = stk[t][i - 1])
      BY <1>4, <3>1
    <3> QED BY <1>n, <3>1, <3>2, <3>3 DEF FrameShape
  <2> QED BY <2>1, <2>2, <2>3
<1>8. ShapeOf(t)'
  BY <1>4, <1>6, <1>7 DEF ShapeOf
<1>9. stk'[Main] # <<>>
  BY <1>4, ThreadConstants DEF Shape, MovedInto
<1> QED BY <1>2, <1>8, <1>9 DEF Shape, ShapeOf

LEMMA EnteredMoves ==
  ASSUME TypeOK, NEW t \in Thread, stk[t] # <<>>, NEW f, Entered(t, f)
  PROVE  MovedInto(t, Top(t).at, f)
<1>1. Len(stk[t]) \in Nat /\ Len(stk[t]) \in 1 .. Len(stk[t]) /\ Top(t) = stk[t][Len(stk[t])]
  BY StackType DEF Top
<1>2. \A i \in 1 .. Len(stk[t]) - 1 : i \in 1 .. Len(stk[t])
  BY <1>1
<1> QED BY <1>1, <1>2 DEF Entered, MovedInto

(* The innermost frame returns; one that pushed a queue has popped it. *)
LEMMA LeftShape ==
  ASSUME TypeOK, Shape, ChainsKept, popped' = popped, NEW t \in Thread, stk[t] # <<>>, Left(t),
         Top(t).fn # "app", popped[t] = <<>>, Top(t).fn = "EventLoop" <=> Top(t).at = "pop"
  PROVE  Shape'
<1> DEFINE n == Len(stk[t])
<1>1. n \in Nat /\ n >= 1 /\ DOMAIN stk[t] = 1 .. n /\ n \in 1 .. n /\ Top(t) = stk[t][n]
  BY StackType, TopShape
<1>2. ASSUME NEW v \in Thread \ {t} PROVE ShapeOf(v)'
  BY KeptShape DEF Left, Shape, ShapeOf, ChainsKept
<1>3. ChainShape(t) /\ ChainKept(t) /\ \A i \in 1 .. n : FrameShape(t, i) /\ stk[t][i].lvl \in Nat
  BY <1>1, StackType DEF Shape, ChainsKept, Frame
<1>4. /\ stk'[t] \in Seq(Frame) /\ Len(stk'[t]) = n - 1 /\ DOMAIN stk'[t] = 1 .. n - 1
      /\ \A i \in 1 .. n - 1 : stk'[t][i] = stk[t][i]
  BY <1>1 DEF Left
<1>n. n = Len(stk[t])
  OBVIOUS
<1> HIDE DEF n
<1>5. ChainShape(t)'
  <2>1. CASE n = 1
    <3>1. stk'[t] = <<>>
      BY <1>4, <2>1, EmptySeq
    <3>2. stk[t][1].lvl = 1 /\ Top(t).fn # "EventLoop"
      BY <1>1, <1>3, <2>1 DEF FrameShape
    <3> QED BY <1>1, <1>3, <2>1, <3>1, <3>2 DEF ChainShape, ChainKept
  <2>2. CASE n # 1
    <3>1. n - 1 \in 1 .. n - 1 /\ n > 1 /\ n - 1 \in 1 .. n /\ n - 1 # n
      BY <1>1, <2>2
    <3>2. stk'[t] # <<>> /\ stk'[t][Len(stk'[t])] = stk[t][n - 1]
      BY <1>4, <3>1, EmptySeq
    <3>3. stk[t][n - 1].at # "pop"
      BY <1>n, <1>3, <3>1 DEF FrameShape
    <3>4. Len(mEvents[t]) = stk[t][n - 1].lvl
      <4>1. FrameShape(t, n) /\ stk[t][n].lvl \in Nat /\ stk[t][n - 1].lvl \in Nat
        BY <1>1, <1>3, <3>1
      <4>2. stk[t][n].lvl = IF stk[t][n].fn = "EventLoop" THEN stk[t][n - 1].lvl + 1 ELSE stk[t][n - 1].lvl
        BY <3>1, <4>1 DEF FrameShape
      <4>3. Len(mEvents[t]) = IF stk[t][n].at = "pop" THEN stk[t][n].lvl - 1 ELSE stk[t][n].lvl
        BY <1>1, <1>3 DEF ChainShape
      <4> QED BY <1>1, <4>1, <4>2, <4>3
    <3> QED BY <1>3, <3>2, <3>3, <3>4 DEF ChainShape, ChainKept, Top
  <2> QED BY <2>1, <2>2
<1>6. ASSUME NEW i \in 1 .. n - 1 PROVE FrameShape(t, i)'
  <2>1. i \in 1 .. n /\ i # n /\ (i > 1 => i - 1 \in 1 .. n - 1)
    BY <1>1
  <2>2. FrameShape(t, i)
    BY <1>3, <2>1
  <2>3. stk'[t][i] = stk[t][i] /\ (i > 1 => stk'[t][i - 1] = stk[t][i - 1])
    BY <1>4, <2>1
  <2>4. stk[t][i].at # "pop"
    BY <1>n, <2>1, <2>2 DEF FrameShape
  <2> QED BY <2>2, <2>3, <2>4 DEF FrameShape
<1>7. ShapeOf(t)'
  BY <1>4, <1>5, <1>6 DEF ShapeOf
<1>8. stk'[Main] # <<>>
  <2>1. CASE t # Main
    BY <2>1, ThreadConstants DEF Shape, Left
  <2>2. CASE t = Main
    <3>1. n # 1
      BY <1>1, <1>3, <2>2 DEF FrameShape
    <3>2. n - 1 # 0
      BY <1>1, <3>1
    <3> QED BY <1>4, <2>2, <3>2, EmptySeq
  <2> QED BY <2>1, <2>2
<1> QED BY <1>2, <1>7, <1>8 DEF Shape, ShapeOf

(* PopEventQueue unlinks the newest queue. *)
LEMMA PopShape ==
  ASSUME TypeOK, Shape, NEW t \in Thread, stk[t] # <<>>, Top(t).fn = "EventLoop", Top(t).at = "loop",
         Moved(t, "pop"), \A v \in Thread \ {t} : mEvents'[v] = mEvents[v] /\ popped'[v] = popped[v],
         Len(mEvents'[t]) = Len(mEvents[t]) - 1,
         mEvents'[t] # <<>>, mEvents'[t][1].filter = mEvents[t][1].filter
  PROVE  Shape'
<1> DEFINE n == Len(stk[t])
<1>1. n \in Nat /\ n >= 1 /\ DOMAIN stk[t] = 1 .. n /\ n \in 1 .. n /\ Top(t) = stk[t][n]
  BY StackType, TopShape
<1>2. ASSUME NEW v \in Thread \ {t} PROVE ShapeOf(v)'
  BY KeptShape DEF Moved, Shape, ShapeOf, ChainShape, ChainKept
<1>3. ChainShape(t) /\ \A i \in 1 .. n : FrameShape(t, i)
  BY <1>1 DEF Shape
<1>4. /\ stk'[t] # <<>> /\ Len(stk'[t]) = n /\ DOMAIN stk'[t] = 1 .. n
      /\ \A i \in 1 .. n - 1 : stk'[t][i] = stk[t][i]
      /\ stk'[t][n].at = "pop" /\ stk'[t][n].fn = stk[t][n].fn /\ stk'[t][n].lvl = stk[t][n].lvl
  BY <1>1 DEF Moved
<1>n. n = Len(stk[t])
  OBVIOUS
<1> HIDE DEF n
<1>5. ChainShape(t)'
  BY <1>1, <1>3, <1>4 DEF ChainShape, Top
<1>6. ASSUME NEW i \in 1 .. n PROVE FrameShape(t, i)'
  <2>1. CASE i = n
    <3>0. "pop" \in Places["EventLoop"] /\ stk[t][n].fn = "EventLoop" /\ n # 1
      BY <1>1, <1>3 DEF Places, FrameShape
    <3>1. n - 1 \in 1 .. n - 1
      BY <1>1, <3>0
    <3> QED BY <1>1, <1>3, <1>4, <2>1, <3>0, <3>1 DEF FrameShape
  <2>2. CASE i # n
    <3>1. i \in 1 .. n - 1 /\ (i > 1 => i - 1 \in 1 .. n - 1)
      BY <1>1, <2>2
    <3>2. FrameShape(t, i)
      BY <1>3
    <3>3. stk'[t][i] = stk[t][i] /\ (i > 1 => stk'[t][i - 1] = stk[t][i - 1])
      BY <1>4, <3>1
    <3> QED BY <1>n, <1>4, <3>2, <3>3 DEF FrameShape
  <2> QED BY <2>1, <2>2
<1>7. ShapeOf(t)'
  BY <1>4, <1>5, <1>6 DEF ShapeOf
<1>8. stk'[Main] # <<>>
  BY <1>4, ThreadConstants DEF Shape, Moved
<1> QED BY <1>2, <1>7, <1>8 DEF Shape, ShapeOf

LEMMA RepostShape ==
  ASSUME TypeOK, Shape, ChainsKept, stk' = stk, NEW t \in Thread, stk[t] # <<>>, Top(t).at = "pop",
         \A v \in Thread \ {t} : popped'[v] = popped[v]
  PROVE  Shape'
<1>1. ASSUME NEW v \in Thread \ {t} PROVE ShapeOf(v)'
  BY KeptShape DEF Shape, ShapeOf, ChainsKept
<1>2. ShapeOf(t)'
  BY DEF Shape, ShapeOf, ChainShape, FrameShape, ChainsKept, ChainKept, Top
<1> QED BY <1>1, <1>2 DEF Shape, ShapeOf

(* A stack with nothing but ThreadFunc on it, and another that has called Init. *)
FirstFrame(u) == [fn |-> "ThreadFunc", at |-> "start", id |-> 0, t |-> u, lvl |-> 1]
InitFrame(t, u) == [fn |-> "Init", at |-> "put", id |-> 0, t |-> u, lvl |-> Top(t).lvl]

Created(t, u) ==
  /\ stk' \in [Thread -> Seq(Frame)]
  /\ t # u /\ stk[u] = <<>> /\ stk[t] # <<>>
  /\ \A v \in Thread \ {t, u} : stk'[v] = stk[v]
  /\ stk'[u] # <<>> /\ Len(stk'[u]) = 1 /\ DOMAIN stk'[u] = {1} /\ stk'[u][1] = FirstFrame(u)
  /\ Len(stk'[t]) = Len(stk[t]) + 1 /\ DOMAIN stk'[t] = 1 .. Len(stk[t]) + 1 /\ stk'[t] # <<>>
  /\ \A i \in 1 .. Len(stk[t]) : stk'[t][i] = stk[t][i]
  /\ stk'[t][Len(stk[t]) + 1] = InitFrame(t, u)

LEMMA NewThreadFacts ==
  ASSUME TypeOK, NEW t \in Thread, NEW u \in Thread, stk[t] # <<>>, NewThread(t, u)
  PROVE  Created(t, u)
<1> DEFINE a == Append(stk[t], InitFrame(t, u))
           b == <<FirstFrame(u)>>
<1>1. stk[t] \in Seq(Frame) /\ Len(stk[t]) \in Nat /\ Top(t) \in Frame
  BY StackType
<1>2. InitFrame(t, u) \in Frame /\ FirstFrame(u) \in Frame
  BY <1>1, ThreadConstants DEF Frame, InitFrame, FirstFrame, Fn, At
<1>3. stk \in [Thread -> Seq(Frame)]
  BY DEF TypeOK
<1>4. stk' = [[stk EXCEPT ![t] = a] EXCEPT ![u] = b] /\ t # u /\ stk[u] = <<>>
  BY DEF NewThread, Call, InitFrame, FirstFrame
<1>5. b \in Seq(Frame) /\ Len(b) = 1 /\ b[1] = FirstFrame(u) /\ b # <<>> /\ DOMAIN b = {1}
  BY <1>2
<1>6. /\ a \in Seq(Frame) /\ Len(a) = Len(stk[t]) + 1
      /\ \A i \in 1 .. Len(stk[t]) : a[i] = stk[t][i]
      /\ a[Len(stk[t]) + 1] = InitFrame(t, u)
  BY <1>1, <1>2, AppendProperties
<1> HIDE DEF a, b
<1>7. a # <<>> /\ DOMAIN a = 1 .. Len(stk[t]) + 1
  BY <1>1, <1>6, EmptySeq, LenProperties
<1>8. stk'[u] = b /\ stk'[t] = a /\ \A v \in Thread \ {t, u} : stk'[v] = stk[v]
  BY <1>3, <1>4
<1>9. stk' \in [Thread -> Seq(Frame)]
  BY <1>3, <1>4, <1>5, <1>6
<1> QED BY <1>4, <1>5, <1>6, <1>7, <1>8, <1>9 DEF Created

LEMMA CreatedShape ==
  ASSUME TypeOK, Shape, mEvents' = mEvents, popped' = popped, NEW t \in Thread, NEW u \in Thread,
         Created(t, u), Top(t).at # "pop", u # Main
  PROVE  Shape'
<1> DEFINE n == Len(stk[t])
<1>1. n \in Nat /\ n >= 1 /\ DOMAIN stk[t] = 1 .. n /\ n \in 1 .. n /\ Top(t) = stk[t][n]
  BY StackType, TopShape DEF Created
<1>2. ASSUME NEW v \in Thread \ {t, u} PROVE ShapeOf(v)'
  BY KeptShape DEF Created, Shape, ShapeOf, ChainShape, ChainKept
<1>3. ChainShape(t) /\ ChainShape(u) /\ \A i \in 1 .. n : FrameShape(t, i)
  BY <1>1 DEF Shape
<1>4. /\ stk'[t] # <<>> /\ Len(stk'[t]) = n + 1 /\ DOMAIN stk'[t] = 1 .. n + 1
      /\ \A i \in 1 .. n : stk'[t][i] = stk[t][i]
      /\ stk'[t][n + 1] = InitFrame(t, u)
  BY <1>1 DEF Created
<1>5. /\ InitFrame(t, u).fn = "Init" /\ InitFrame(t, u).at = "put" /\ InitFrame(t, u).lvl = stk[t][n].lvl
      /\ FirstFrame(u).fn = "ThreadFunc" /\ FirstFrame(u).at = "start" /\ FirstFrame(u).lvl = 1
      /\ "put" \in Places["Init"] /\ "start" \in Places["ThreadFunc"]
  BY <1>1 DEF InitFrame, FirstFrame, Places
<1>n. n = Len(stk[t])
  OBVIOUS
<1>l. stk[t][n].lvl >= 1
  BY <1>1, <1>3 DEF FrameShape
<1> HIDE DEF n
<1>6. ChainShape(t)'
  BY <1>1, <1>3, <1>4, <1>5 DEF ChainShape, Top, Created
<1>7. ASSUME NEW i \in 1 .. n + 1 PROVE FrameShape(t, i)'
  <2>1. CASE i = n + 1
    <3>1. i > 1 /\ i # 1 /\ i - 1 = n
      BY <1>1, <2>1
    <3> QED BY <1>1, <1>4, <1>5, <1>l, <2>1, <3>1 DEF FrameShape
  <2>2. CASE i # n + 1
    <3>1. i \in 1 .. n /\ (i > 1 => i - 1 \in 1 .. n)
      BY <1>1, <2>2
    <3>2. FrameShape(t, i)
      BY <1>3, <3>1
    <3>3. stk'[t][i] = stk[t][i] /\ (i > 1 => stk'[t][i - 1] = stk[t][i - 1])
      BY <1>4, <3>1
    <3>4. stk[t][i].at # "pop"
      BY <1>n, <1>1, <3>1, <3>2 DEF FrameShape
    <3> QED BY <3>2, <3>3, <3>4 DEF FrameShape
  <2> QED BY <2>1, <2>2
<1>8. ShapeOf(t)'
  BY <1>4, <1>6, <1>7 DEF ShapeOf
<1>9. ShapeOf(u)'
  <2>1. ChainShape(u)'
    BY <1>3, <1>5 DEF ChainShape, Top, Created
  <2>2. FrameShape(u, 1)'
    BY <1>5 DEF FrameShape, Created
  <2> QED BY <2>1, <2>2 DEF ShapeOf, Created
<1>10. stk'[Main] # <<>>
  BY <1>4, ThreadConstants DEF Shape, Created
<1> QED BY <1>2, <1>8, <1>9, <1>10 DEF Shape, ShapeOf
--------------------------------------------------------------------------------
(* What becomes of a frame *)

(* Frame i of v's stack was there before, in the same place unless it is  *)
(* the innermost frame of t, which may have moved to at.                  *)
FromOld(v, i, t, at) ==
  /\ i \in DOMAIN stk[v]
  /\ stk'[v][i].fn = stk[v][i].fn /\ stk'[v][i].t = stk[v][i].t /\ stk'[v][i].id = stk[v][i].id
  /\ stk'[v][i].at = stk[v][i].at \/ (v = t /\ i = Len(stk[t]) /\ stk'[v][i].at = at)

(* No stack has frames that it did not have, but for f on top of t's. *)
Grown(t, at, f) ==
  \A v \in Thread : \A i \in DOMAIN stk'[v] :
    FromOld(v, i, t, at) \/ (v = t /\ i = Len(stk[t]) + 1 /\ stk'[v][i] = f)

Carried(t, at) == \A v \in Thread : \A i \in DOMAIN stk'[v] : FromOld(v, i, t, at)

(* Frame i of v's stack stays. *)
Stays(v, i) ==
  /\ i \in DOMAIN stk'[v] /\ stk'[v][i].fn = stk[v][i].fn /\ stk'[v][i].t = stk[v][i].t

AllStay == \A v \in Thread : \A i \in DOMAIN stk[v] : Stays(v, i)

LEMMA SameFrames == ASSUME stk' = stk, NEW t, NEW at PROVE Carried(t, at) /\ AllStay
BY DEF Carried, FromOld, AllStay, Stays

LEMMA MovedFrames ==
  ASSUME TypeOK, NEW t \in Thread, stk[t] # <<>>, NEW at, Moved(t, at)
  PROVE  Carried(t, at) /\ AllStay
<1> DEFINE n == Len(stk[t])
<1>1. n \in Nat /\ DOMAIN stk[t] = 1 .. n /\ DOMAIN stk'[t] = 1 .. n
  BY StackType DEF Moved
<1>2. \A i \in 1 .. n - 1 : stk'[t][i] = stk[t][i]
  BY DEF Moved
<1>3. /\ stk'[t][n].at = at /\ stk'[t][n].fn = stk[t][n].fn
      /\ stk'[t][n].id = stk[t][n].id /\ stk'[t][n].t = stk[t][n].t
  BY DEF Moved
<1>4. \A i \in 1 .. n : i = n \/ i \in 1 .. n - 1
  BY <1>1
<1>5. \A v \in Thread \ {t} : stk'[v] = stk[v]
  BY DEF Moved
<1>6. \A i \in DOMAIN stk'[t] : FromOld(t, i, t, at) /\ Stays(t, i)
  BY <1>1, <1>2, <1>3, <1>4 DEF FromOld, Stays
<1>7. \A v \in Thread \ {t} : \A i \in DOMAIN stk'[v] : FromOld(v, i, t, at) /\ Stays(v, i)
  BY <1>5 DEF FromOld, Stays
<1> QED BY <1>1, <1>5, <1>6, <1>7 DEF Carried, AllStay

LEMMA LeftFrames ==
  ASSUME TypeOK, NEW t \in Thread, stk[t] # <<>>, Left(t), NEW at
  PROVE  /\ Carried(t, at)
         /\ \A v \in Thread : \A i \in DOMAIN stk[v] : Stays(v, i) \/ (v = t /\ i = Len(stk[t]))
         /\ Len(stk'[t]) < Len(stk[t])
<1> DEFINE n == Len(stk[t])
<1>1. n \in Nat /\ DOMAIN stk[t] = 1 .. n /\ DOMAIN stk'[t] = 1 .. n - 1 /\ Len(stk'[t]) = n - 1
  BY StackType DEF Left
<1>2. \A i \in 1 .. n - 1 : stk'[t][i] = stk[t][i]
  BY DEF Left
<1>3. \A i \in 1 .. n : i = n \/ i \in 1 .. n - 1
  BY <1>1
<1>4. \A i \in 1 .. n - 1 : i \in 1 .. n
  BY <1>1
<1>5. \A v \in Thread \ {t} : stk'[v] = stk[v]
  BY DEF Left
<1>6. \A i \in DOMAIN stk'[t] : FromOld(t, i, t, at)
  BY <1>1, <1>2, <1>4 DEF FromOld
<1>7. \A i \in DOMAIN stk[t] : Stays(t, i) \/ i = n
  BY <1>1, <1>2, <1>3 DEF Stays
<1>8. \A v \in Thread \ {t} : \A i \in DOMAIN stk'[v] : FromOld(v, i, t, at) /\ Stays(v, i)
  BY <1>5 DEF FromOld, Stays
<1>9. Len(stk'[t]) < Len(stk[t])
  BY <1>1
<1> QED BY <1>5, <1>6, <1>7, <1>8, <1>9 DEF Carried

LEMMA MovedIntoFrames ==
  ASSUME TypeOK, NEW t \in Thread, stk[t] # <<>>, NEW at, NEW f, MovedInto(t, at, f)
  PROVE  Grown(t, at, f) /\ AllStay
<1> DEFINE n == Len(stk[t])
<1>1. n \in Nat /\ DOMAIN stk[t] = 1 .. n /\ DOMAIN stk'[t] = 1 .. n + 1
  BY StackType DEF MovedInto
<1>2. (\A i \in 1 .. n - 1 : stk'[t][i] = stk[t][i]) /\ stk'[t][n + 1] = f
  BY DEF MovedInto
<1>3. /\ stk'[t][n].at = at /\ stk'[t][n].fn = stk[t][n].fn
      /\ stk'[t][n].id = stk[t][n].id /\ stk'[t][n].t = stk[t][n].t
  BY DEF MovedInto
<1>4. \A i \in 1 .. n : (i = n \/ i \in 1 .. n - 1) /\ i \in 1 .. n + 1
  BY <1>1
<1>5. \A v \in Thread \ {t} : stk'[v] = stk[v]
  BY DEF MovedInto
<1>6. \A i \in 1 .. n : FromOld(t, i, t, at) /\ Stays(t, i)
  BY <1>1, <1>2, <1>3, <1>4 DEF FromOld, Stays
<1>7. \A i \in 1 .. n + 1 : i \in 1 .. n \/ i = n + 1
  BY <1>1
<1>8. \A v \in Thread \ {t} : \A i \in DOMAIN stk'[v] : FromOld(v, i, t, at) /\ Stays(v, i)
  BY <1>5 DEF FromOld, Stays
<1> QED BY <1>1, <1>2, <1>5, <1>6, <1>7, <1>8 DEF Grown, AllStay

LEMMA CreatedFrames ==
  ASSUME TypeOK, NEW t \in Thread, NEW u \in Thread, Created(t, u), NEW at
  PROVE  /\ \A v \in Thread : \A i \in DOMAIN stk'[v] :
              \/ FromOld(v, i, t, at)
              \/ v = t /\ i = Len(stk[t]) + 1 /\ stk'[v][i] = InitFrame(t, u)
              \/ v = u /\ stk'[v][i] = FirstFrame(u)
         /\ AllStay
<1> DEFINE n == Len(stk[t])
<1>1. n \in Nat /\ DOMAIN stk[t] = 1 .. n /\ DOMAIN stk'[t] = 1 .. n + 1 /\ DOMAIN stk[u] = {}
  BY StackType, EmptySeq DEF Created
<1>2. (\A i \in 1 .. n : stk'[t][i] = stk[t][i]) /\ stk'[t][n + 1] = InitFrame(t, u)
  BY DEF Created
<1>3. \A i \in 1 .. n : i \in 1 .. n + 1
  BY <1>1
<1>4. \A v \in Thread \ {t, u} : stk'[v] = stk[v]
  BY DEF Created
<1>5. \A i \in 1 .. n : FromOld(t, i, t, at) /\ Stays(t, i)
  BY <1>1, <1>2, <1>3 DEF FromOld, Stays
<1>6. \A i \in 1 .. n + 1 : i \in 1 .. n \/ i = n + 1
  BY <1>1
<1>7. \A v \in Thread \ {t, u} : \A i \in DOMAIN stk'[v] : FromOld(v, i, t, at) /\ Stays(v, i)
  BY <1>4 DEF FromOld, Stays
<1>8. \A i \in DOMAIN stk'[u] : stk'[u][i] = FirstFrame(u)
  BY DEF Created
<1> QED BY <1>1, <1>2, <1>4, <1>5, <1>6, <1>7, <1>8 DEF AllStay

LEMMA CarriedGrows == ASSUME NEW t, NEW at, NEW f, Carried(t, at) PROVE Grown(t, at, f)
BY DEF Carried, Grown
--------------------------------------------------------------------------------
(* What each step does to stacks and pending events *)

(* Pending events were pending before, or carry the number of an event. *)
OnlyNumbered ==
  \A v \in Thread : \A e \in Pending(v)' :
    e \in Pending(v) \/ (e.k \in {"task", "sync"} => e.id \in 1 .. nEvents')

LEMMA NumberedKept ==
  ASSUME TypeOK, Numbered, nEvents' \in Nat, nEvents' >= nEvents, NEW t, NEW at, NEW f,
         Grown(t, at, f), f.fn \in {"Run", "SyncRun", "Dispatch"} => f.id \in 1 .. nEvents',
         OnlyNumbered
  PROVE  Numbered'
<1>0. \A k \in 1 .. nEvents : k \in 1 .. nEvents'
  BY DEF TypeOK
<1>1. ASSUME NEW v \in Thread, NEW e \in Pending(v)', e.k \in {"task", "sync"}
      PROVE  e.id \in 1 .. nEvents'
  BY <1>0, <1>1 DEF Numbered, OnlyNumbered
<1>2. ASSUME NEW v \in Thread, NEW i \in DOMAIN stk'[v],
             stk'[v][i].fn \in {"Run", "SyncRun", "Dispatch"}
      PROVE  stk'[v][i].id \in 1 .. nEvents'
  <2>1. CASE FromOld(v, i, t, at)
    BY <1>0, <1>2, <2>1 DEF Numbered, FromOld
  <2>2. CASE stk'[v][i] = f
    BY <1>2, <2>2
  <2> QED BY <2>1, <2>2 DEF Grown
<1> QED BY <1>1, <1>2 DEF Numbered

LEMMA SameNumbers == ASSUME PendingAs PROVE OnlyNumbered
BY DEF PendingAs, OnlyNumbered

LEMMA PlusNumbers ==
  ASSUME NEW u \in Thread, NEW e, PendingPlus(u, e), e.k \in {"task", "sync"} => e.id \in 1 .. nEvents'
  PROVE  OnlyNumbered
BY DEF PendingPlus, OnlyNumbered

LEMMA TakenNumbers == ASSUME NEW t, NEW e, PendingTaken(t, e) PROVE OnlyNumbered
BY DEF PendingTaken, OnlyNumbered

(* PutEvent, as the rest of the proof sees it. *)
Posted(u, e) == /\ mEventsAreDoomed[u] => PendingAs
                /\ ~mEventsAreDoomed[u] => PendingPlus(u, e)

LEMMA PostedNumbers ==
  ASSUME NEW u \in Thread, NEW e, Posted(u, e), e.k \in {"task", "sync"} => e.id \in 1 .. nEvents'
  PROVE  OnlyNumbered
BY SameNumbers, PlusNumbers DEF Posted

LEMMA PostFacts ==
  ASSUME Basic, NEW u \in Thread, NEW e \in Event, PutEvent(u, e), popped' = popped
  PROVE  ChainsKept /\ Posted(u, e)
BY PutEventFacts DEF Basic, Posted

LEMMA ClientCode ==
  ASSUME Basic, NEW t \in Thread, InClientCode(t)
  PROVE  /\ stk[t] # <<>> /\ Top(t) \in Frame /\ Top(t).at # "pop" /\ Top(t).at \in Places[Top(t).fn]
         /\ Top(t).lvl \in Nat /\ Top(t).at \in {"loop", "task"}
         /\ Top(t).fn \in {"app", "EventLoop", "Run", "SyncRun"}
         /\ Len(mEvents[t]) = Top(t).lvl
<1>1. /\ stk[t] # <<>> /\ Top(t).at \in {"loop", "task"}
      /\ Top(t).fn \in {"app", "EventLoop", "Run", "SyncRun"}
  BY DEF InClientCode, Is
<1> QED BY <1>1, TopShape DEF Basic

LEMMA DispatchFacts ==
  ASSUME Basic, NEW t \in Thread, NEW u \in Thread, Dispatch(t, u)
  PROVE  /\ Basic' /\ stk' = stk
         /\ \E e \in Event : e.k = "task" /\ e.id = nEvents + 1 /\ Posted(u, e)
<1> DEFINE e == [k |-> "task", id |-> nEvents + 1, t |-> t]
<1>1. /\ nEvents \in Nat /\ MaxEvents \in Nat /\ nEvents < MaxEvents /\ nEvents' = nEvents + 1
      /\ nEvents + 1 \in 0 .. MaxEvents
  BY ThreadConstants DEF Dispatch, Basic, TypeOK
<1>2. e \in Event /\ e.k = "task" /\ e.id = nEvents + 1
  BY <1>1 DEF Event, Kind
<1>3. PutEvent(u, e) /\ popped' = popped /\ stk' = stk
  BY DEF Dispatch
<1> HIDE DEF e
<1>4. ChainsKept /\ Posted(u, e)
  BY <1>2, <1>3, PostFacts
<1>5. TypeOK'
  BY <1>1, <1>3, <1>4 DEF Basic, TypeOK, ChainsKept, Dispatch, shutVars
<1>6. Shape'
  <2>1. \A v \in Thread : ShapeOf(v)'
    BY <1>3, <1>4, KeptShape DEF Basic, Shape, ShapeOf, ChainsKept
  <2> QED BY <2>1, <1>3 DEF Basic, Shape, ShapeOf
<1>7. Numbered'
  <2>1. e.id \in 1 .. nEvents'
    BY <1>1, <1>2
  <2>2. OnlyNumbered
    BY <1>4, <2>1, PostedNumbers
  <2>3. Grown(t, "loop", FirstFrame(t)) /\ FirstFrame(t).fn = "ThreadFunc"
    BY <1>3, SameFrames, CarriedGrows DEF FirstFrame
  <2>4. nEvents' \in Nat /\ nEvents' >= nEvents
    BY <1>1
  <2> QED BY <2>2, <2>3, <2>4, NumberedKept DEF Basic
<1> QED BY <1>2, <1>3, <1>4, <1>5, <1>6, <1>7 DEF Basic

LEMMA NumberedSame ==
  ASSUME Basic, nEvents' = nEvents, NEW t, NEW at, Carried(t, at), OnlyNumbered
  PROVE  Numbered'
<1>1. Grown(t, at, FirstFrame(t)) /\ FirstFrame(t).fn = "ThreadFunc"
  BY CarriedGrows DEF FirstFrame
<1>2. nEvents' \in Nat /\ nEvents' >= nEvents
  BY DEF Basic, TypeOK
<1> QED BY <1>1, <1>2, NumberedKept DEF Basic

LEMMA MoveStep ==
  ASSUME Basic, NEW t \in Thread, NEW at \in At, stk[t] # <<>>, Top(t).at # "pop", at # "pop",
         at \in Places[Top(t).fn], stk' = Goto(t, at),
         ChainsKept, popped' = popped, nEvents' = nEvents, OnlyNumbered
  PROVE  Moved(t, at) /\ Shape' /\ Numbered'
<1>1. Moved(t, at)
  BY GotoFacts DEF Basic
<1>2. Shape'
  BY <1>1, MovedShape DEF Basic
<1>3. Numbered'
  BY <1>1, MovedFrames, NumberedSame DEF Basic
<1> QED BY <1>1, <1>2, <1>3

LEMMA LeaveStep ==
  ASSUME Basic, NEW t \in Thread, stk[t] # <<>>, Top(t).fn # "app", popped[t] = <<>>,
         Top(t).fn = "EventLoop" <=> Top(t).at = "pop", stk' = Returned(t),
         ChainsKept, popped' = popped, nEvents' = nEvents, OnlyNumbered
  PROVE  Left(t) /\ Shape' /\ Numbered'
<1>1. Left(t)
  BY ReturnedFacts DEF Basic
<1>2. Shape'
  BY <1>1, LeftShape DEF Basic
<1>3. Numbered'
  BY <1>1, LeftFrames, NumberedSame DEF Basic
<1> QED BY <1>1, <1>2, <1>3

(* A frame that is not popping a queue has none aside. *)
LEMMA NothingPopped ==
  ASSUME Basic, NEW t \in Thread, stk[t] # <<>>, Top(t).at # "pop"
  PROVE  popped[t] = <<>>
BY DEF Basic, Shape, ChainShape

LEMMA Quiet ==
  ASSUME Basic, mEvents' = mEvents, popped' = popped
  PROVE  ChainsKept /\ PendingAs /\ OnlyNumbered
BY ChainsUnchanged, PendingKept, SameNumbers DEF Basic

LEMMA CallStep ==
  ASSUME Basic, NEW t \in Thread, NEW fn \in Fn \ {"app", "ThreadFunc", "EventLoop"},
         NEW at \in At, at \in Places[fn], at # "pop", NEW id \in 0 .. MaxEvents, NEW u \in Thread,
         stk[t] # <<>>, Top(t).at # "pop", stk' = Call(t, fn, at, id, u, Top(t).lvl),
         ChainsKept, popped' = popped, nEvents' \in Nat, nEvents' >= nEvents,
         fn \in {"Run", "SyncRun", "Dispatch"} => id \in 1 .. nEvents', OnlyNumbered
  PROVE  /\ MovedInto(t, Top(t).at, [fn |-> fn, at |-> at, id |-> id, t |-> u, lvl |-> Top(t).lvl])
         /\ Shape' /\ Numbered' /\ stk' \in [Thread -> Seq(Frame)]
<1> DEFINE f == [fn |-> fn, at |-> at, id |-> id, t |-> u, lvl |-> Top(t).lvl]
<1>1. /\ Top(t).lvl \in Nat /\ Top(t).at \in Places[Top(t).fn]
      /\ Len(mEvents[t]) = Top(t).lvl /\ ChainShape(t)
  BY TopShape DEF Basic, Shape
<1>2. f.fn = fn /\ f.at = at /\ f.id = id /\ f.lvl = Top(t).lvl
  OBVIOUS
<1>3. Entered(t, f)
  BY <1>1, CallFacts DEF Basic
<1> HIDE DEF f
<1>4. MovedInto(t, Top(t).at, f)
  BY <1>3, EnteredMoves DEF Basic
<1>5. Shape'
  <2>1. mEvents'[t] # <<>> /\ mEvents'[t][1].filter = Kind /\ Len(mEvents'[t]) = Top(t).lvl
    BY <1>1 DEF ChainsKept, ChainKept, ChainShape
  <2>2. \A v \in Thread \ {t} : ChainKept(v)
    BY DEF ChainsKept
  <2>3. f.fn \notin {"app", "ThreadFunc"} /\ f.fn # "EventLoop"
    BY <1>2
  <2> QED BY <1>1, <1>2, <1>4, <2>1, <2>2, <2>3, MovedIntoShape DEF Basic
<1>6. Numbered'
  <2>1. Grown(t, Top(t).at, f)
    BY <1>4, MovedIntoFrames DEF Basic
  <2>2. f.fn \in {"Run", "SyncRun", "Dispatch"} => f.id \in 1 .. nEvents'
    BY <1>2
  <2> QED BY <2>1, <2>2, NumberedKept DEF Basic
<1>7. stk' \in [Thread -> Seq(Frame)]
  BY <1>3 DEF Entered
<1> QED BY <1>4, <1>5, <1>6, <1>7 DEF f

(* A synchronous dispatch that is accepted waits in a frame of its own. *)
LEMMA DispatchSyncFacts ==
  ASSUME Basic, NEW t \in Thread, NEW u \in Thread, DispatchSync(t, u)
  PROVE  /\ Basic'
         /\ \E e \in Event : e.k = "sync" /\ e.id = nEvents + 1 /\ Posted(u, e)
         /\ mEventsAreDoomed[u] => stk' = stk
         /\ ~mEventsAreDoomed[u] => \E f : /\ f.fn = "Dispatch" /\ f.at = "test" /\ f.id = nEvents + 1
                                           /\ MovedInto(t, Top(t).at, f)
<1> DEFINE e == [k |-> "sync", id |-> nEvents + 1, t |-> t]
<1>1. /\ nEvents \in Nat /\ MaxEvents \in Nat /\ nEvents < MaxEvents /\ nEvents' = nEvents + 1
      /\ nEvents + 1 \in 0 .. MaxEvents /\ nEvents + 1 \in EventId /\ nEvents + 1 \in 1 .. nEvents'
      /\ nEvents' \in Nat /\ nEvents' >= nEvents
  BY ThreadConstants DEF DispatchSync, Basic, TypeOK, EventId
<1>2. e \in Event /\ e.k = "sync" /\ e.id = nEvents + 1
  BY <1>1 DEF Event, Kind
<1>3. PutEvent(u, e) /\ popped' = popped
  BY DEF DispatchSync
<1> HIDE DEF e
<1>4. ChainsKept /\ Posted(u, e) /\ OnlyNumbered
  BY <1>1, <1>2, <1>3, PostFacts, PostedNumbers
<1>5. stk[t] # <<>> /\ Top(t).at # "pop"
  BY ClientCode DEF DispatchSync
<1>6. CASE mEventsAreDoomed[u]
  <2>1. stk' = stk /\ mSyncTask' = mSyncTask
    BY <1>6 DEF DispatchSync
  <2>2. TypeOK'
    BY <1>1, <1>3, <1>4, <2>1 DEF Basic, TypeOK, ChainsKept, DispatchSync, shutVars
  <2>3. \A v \in Thread : ShapeOf(v)'
    BY <1>3, <1>4, <2>1, KeptShape DEF Basic, Shape, ShapeOf, ChainsKept
  <2>4. Shape'
    BY <2>1, <2>3 DEF Basic, Shape, ShapeOf
  <2>5. Grown(t, "loop", FirstFrame(t)) /\ FirstFrame(t).fn = "ThreadFunc"
    BY <2>1, SameFrames, CarriedGrows DEF FirstFrame
  <2>6. Numbered'
    BY <1>1, <1>4, <2>5, NumberedKept DEF Basic
  <2> QED BY <1>2, <1>4, <1>6, <2>1, <2>2, <2>4, <2>6 DEF Basic
<1>7. CASE ~mEventsAreDoomed[u]
  <2> DEFINE f == [fn |-> "Dispatch", at |-> "test", id |-> nEvents + 1, t |-> u, lvl |-> Top(t).lvl]
  <2>1. /\ stk' = Call(t, "Dispatch", "test", nEvents + 1, u, Top(t).lvl)
        /\ mSyncTask' = mSyncTask \cup {nEvents + 1}
    BY <1>7 DEF DispatchSync
  <2>2. "Dispatch" \in Fn \ {"app", "ThreadFunc", "EventLoop"} /\ "test" \in At /\ "test" \in Places["Dispatch"]
    BY DEF Fn, At, Places
  <2>3. MovedInto(t, Top(t).at, f) /\ Shape' /\ Numbered' /\ stk' \in [Thread -> Seq(Frame)]
    BY <1>1, <1>3, <1>4, <1>5, <2>1, <2>2, CallStep
  <2>4. f.fn = "Dispatch" /\ f.at = "test" /\ f.id = nEvents + 1
    OBVIOUS
  <2> HIDE DEF f
  <2>5. TypeOK'
    BY <1>1, <1>3, <1>4, <2>1, <2>3 DEF Basic, TypeOK, ChainsKept, DispatchSync, shutVars
  <2> QED BY <1>2, <1>4, <1>7, <2>3, <2>4, <2>5 DEF Basic
<1> QED BY <1>6, <1>7

LEMMA NewThreadStep ==
  ASSUME Basic, NEW t \in Thread, NEW u \in Thread, NewThread(t, u)
  PROVE  Basic' /\ Created(t, u) /\ PendingAs
<1>1. stk[t] # <<>> /\ Top(t).at # "pop" /\ u # Main
  BY ClientCode DEF NewThread
<1>2. Created(t, u)
  BY <1>1, NewThreadFacts DEF Basic
<1>3. mEvents' = mEvents /\ popped' = popped /\ nEvents' = nEvents
  BY DEF NewThread, queueVars, histVars
<1>4. Shape'
  BY <1>1, <1>2, <1>3, CreatedShape DEF Basic
<1>5. TypeOK'
  BY <1>2 DEF Created, Basic, TypeOK, NewThread, queueVars, histVars
<1>6. PendingAs
  BY <1>3, PendingKept
<1>7. Numbered'
  <2>1. \A v \in Thread : Pending(v)' = Pending(v)
    BY <1>6 DEF PendingAs
  <2>2. InitFrame(t, u).fn = "Init" /\ FirstFrame(u).fn = "ThreadFunc"
    BY DEF InitFrame, FirstFrame
  <2>3. \A v \in Thread : \A i \in DOMAIN stk'[v] :
          stk'[v][i].fn \in {"Run", "SyncRun", "Dispatch"} => FromOld(v, i, t, "put")
    BY <1>2, <2>2, CreatedFrames DEF Basic
  <2> QED BY <1>3, <2>1, <2>3 DEF Basic, Numbered, FromOld
<1> QED BY <1>2, <1>4, <1>5, <1>6, <1>7 DEF Basic

ShutdownFrame(t, u) == [fn |-> "Shutdown", at |-> "put", id |-> 0, t |-> u, lvl |-> Top(t).lvl]

(* The first part of nsThread::Shutdown, whoever calls it for whatever thread. *)
Claiming(t, u) == InClientCode(t) /\ u \in known /\ Claim(t, u)

LEMMA ShutdownClaims == ASSUME NEW t, NEW u, Shutdown(t, u) PROVE Claiming(t, u)
BY DEF Shutdown, Claiming

LEMMA ClaimingFacts ==
  ASSUME Basic, NEW t \in Thread, NEW u \in Thread, Claiming(t, u)
  PROVE  Basic' /\ MovedInto(t, Top(t).at, ShutdownFrame(t, u)) /\ PendingAs
<1>1. stk[t] # <<>> /\ Top(t).at # "pop"
  BY ClientCode DEF Claiming
<1>2. mEvents' = mEvents /\ popped' = popped /\ nEvents' = nEvents
  BY DEF Claiming, Claim, queueVars, histVars
<1>3. ChainsKept /\ PendingAs /\ OnlyNumbered
  BY <1>2, Quiet
<1>4. /\ "Shutdown" \in Fn \ {"app", "ThreadFunc", "EventLoop"} /\ "put" \in At
      /\ "put" \in Places["Shutdown"] /\ 0 \in 0 .. MaxEvents
      /\ nEvents' \in Nat /\ nEvents' >= nEvents
  BY <1>2, ThreadConstants DEF Fn, At, Places, Basic, TypeOK
<1>5. stk' = Call(t, "Shutdown", "put", 0, u, Top(t).lvl)
  BY DEF Claiming, Claim
<1>6. /\ MovedInto(t, Top(t).at, ShutdownFrame(t, u)) /\ Shape' /\ Numbered'
      /\ stk' \in [Thread -> Seq(Frame)]
  BY <1>1, <1>2, <1>3, <1>4, <1>5, CallStep DEF ShutdownFrame
<1>7. TypeOK'
  BY <1>6 DEF Basic, TypeOK, Claiming, Claim, queueVars, histVars
<1> QED BY <1>3, <1>6, <1>7 DEF Basic

LoopFrame(t) == [fn |-> "EventLoop", at |-> "loop", id |-> 0, t |-> t, lvl |-> Top(t).lvl + 1]

LEMMA PushEventQueueFacts ==
  ASSUME Basic, NEW t \in Thread, NEW f \in Filter, PushEventQueue(t, f)
  PROVE  Basic' /\ MovedInto(t, Top(t).at, LoopFrame(t)) /\ PendingAs
<1>1. /\ stk[t] # <<>> /\ Top(t).at # "pop" /\ Top(t).lvl \in Nat /\ Len(mEvents[t]) = Top(t).lvl
      /\ Top(t).at \in Places[Top(t).fn] /\ ChainShape(t)
  BY ClientCode DEF PushEventQueue, Basic, Shape
<1>2. /\ popped' = popped /\ nEvents' = nEvents
      /\ mEvents' = [mEvents EXCEPT ![t] = Append(@, [filter |-> f, q |-> <<>>])]
      /\ stk' = Call(t, "EventLoop", "loop", 0, t, Top(t).lvl + 1)
  BY DEF PushEventQueue
<1>3. /\ mEvents' \in [Thread -> Seq(ChainedQueue)]
      /\ \A v \in Thread \ {t} : mEvents'[v] = mEvents[v]
      /\ Len(mEvents'[t]) = Len(mEvents[t]) + 1
      /\ mEvents'[t] # <<>> /\ mEvents'[t][1].filter = mEvents[t][1].filter
      /\ PendingAs
  BY <1>1, <1>2, PushFacts DEF Basic
<1>4. Entered(t, LoopFrame(t))
  <2>1. "EventLoop" \in Fn /\ "loop" \in At /\ 0 \in 0 .. MaxEvents /\ Top(t).lvl + 1 \in Nat
    BY <1>1, ThreadConstants DEF Fn, At
  <2> QED BY <1>2, <2>1, CallFacts DEF Basic, LoopFrame
<1>5. MovedInto(t, Top(t).at, LoopFrame(t))
  BY <1>1, <1>4, EnteredMoves DEF Basic
<1>6. /\ LoopFrame(t).fn = "EventLoop" /\ LoopFrame(t).at = "loop"
      /\ LoopFrame(t).lvl = Top(t).lvl + 1 /\ "loop" \in Places["EventLoop"]
  BY DEF LoopFrame, Places
<1>7. Shape'
  <2>1. \A v \in Thread \ {t} : ChainKept(v)
    BY <1>3 DEF ChainKept, Basic, Shape, ChainShape
  <2>2. mEvents'[t][1].filter = Kind /\ Len(mEvents'[t]) = LoopFrame(t).lvl
    BY <1>1, <1>3, <1>6 DEF ChainShape
  <2> QED BY <1>1, <1>2, <1>3, <1>5, <1>6, <2>1, <2>2, MovedIntoShape DEF Basic
<1>8. Numbered'
  <2>1. Grown(t, Top(t).at, LoopFrame(t))
    BY <1>1, <1>5, MovedIntoFrames DEF Basic
  <2>2. nEvents' \in Nat /\ nEvents' >= nEvents
    BY <1>2 DEF Basic, TypeOK
  <2>3. OnlyNumbered
    BY <1>3, SameNumbers
  <2> QED BY <1>6, <2>1, <2>2, <2>3, NumberedKept DEF Basic
<1>9. TypeOK'
  <2>1. nPushes' \in 0 .. MaxPushes
    BY ThreadConstants DEF PushEventQueue, Basic, TypeOK
  <2>2. stk' \in [Thread -> Seq(Frame)]
    BY <1>4 DEF Entered
  <2> QED BY <1>3, <2>1, <2>2 DEF PushEventQueue, Basic, TypeOK, shutVars
<1> QED BY <1>3, <1>5, <1>7, <1>8, <1>9 DEF Basic

LEMMA LoopChain ==
  ASSUME Basic, NEW t \in Thread, stk[t] # <<>>, Top(t).fn = "EventLoop", Top(t).at = "loop"
  PROVE  Len(mEvents[t]) >= 2
<1> DEFINE n == Len(stk[t])
<1>1. n \in Nat /\ n >= 1 /\ FrameShape(t, n) /\ stk[t][n] = Top(t) /\ Len(mEvents[t]) = Top(t).lvl
  BY TopShape DEF Basic
<1>2. n # 1
  BY <1>1 DEF FrameShape
<1> HIDE DEF n
<1>3. n - 1 \in 1 .. n /\ n > 1
  BY <1>1, <1>2
<1>4. FrameShape(t, n - 1) /\ stk[t][n - 1] \in Frame
  BY <1>3, StackType DEF Basic, Shape, n
<1>5. stk[t][n - 1].lvl >= 1 /\ stk[t][n - 1].lvl \in Nat
  BY <1>4 DEF FrameShape, Frame
<1>6. Top(t).lvl = stk[t][n - 1].lvl + 1
  BY <1>1, <1>3 DEF FrameShape
<1> QED BY <1>1, <1>5, <1>6

LEMMA PopEventQueueFacts ==
  ASSUME Basic, NEW t \in Thread, PopEventQueue(t)
  PROVE  Basic' /\ Moved(t, "pop") /\ PendingAs
<1>1. /\ stk[t] # <<>> /\ Top(t).fn = "EventLoop" /\ Top(t).at = "loop"
      /\ popped' = [popped EXCEPT ![t] = Newest(t).q]
      /\ mEvents' = [mEvents EXCEPT ![t] = SubSeq(@, 1, Len(@) - 1)]
      /\ stk' = Goto(t, "pop") /\ nEvents' = nEvents
  BY DEF PopEventQueue, Is, histVars
<1>2. popped[t] = <<>> /\ ChainShape(t)
  BY <1>1, NothingPopped DEF Basic, Shape
<1>3. Len(mEvents[t]) >= 2
  BY <1>1, LoopChain
<1>4. /\ mEvents' \in [Thread -> Seq(ChainedQueue)]
      /\ popped' \in [Thread -> Seq(Event)]
      /\ \A v \in Thread \ {t} : mEvents'[v] = mEvents[v] /\ popped'[v] = popped[v]
      /\ Len(mEvents'[t]) = Len(mEvents[t]) - 1
      /\ mEvents'[t] # <<>> /\ mEvents'[t][1].filter = mEvents[t][1].filter
      /\ PendingAs
  BY <1>1, <1>2, <1>3, PopFacts DEF Basic
<1>5. Moved(t, "pop")
  BY <1>1, GotoFacts DEF Basic, At
<1>6. Shape'
  BY <1>1, <1>4, <1>5, PopShape DEF Basic
<1>7. Numbered'
  BY <1>1, <1>4, <1>5, MovedFrames, NumberedSame, SameNumbers DEF Basic
<1>8. TypeOK'
  BY <1>4, <1>5 DEF Moved, PopEventQueue, Basic, TypeOK, shutVars, histVars
<1> QED BY <1>4, <1>5, <1>6, <1>7, <1>8 DEF Basic

LEMMA RepostEventFacts ==
  ASSUME Basic, NEW t \in Thread, RepostEvent(t)
  PROVE  Basic' /\ stk' = stk /\ PendingAs
<1>1. /\ stk[t] # <<>> /\ Top(t).at = "pop" /\ popped[t] # <<>>
      /\ mEvents' = Put(t, Head(popped[t])) /\ popped' = [popped EXCEPT ![t] = Tail(@)]
      /\ stk' = stk /\ nEvents' = nEvents
  BY DEF RepostEvent, Is, histVars
<1>2. ChainShape(t)
  BY DEF Basic, Shape
<1>3. /\ popped' \in [Thread -> Seq(Event)] /\ \A v \in Thread \ {t} : popped'[v] = popped[v]
      /\ \E i \in 1 .. Len(mEvents[t]) : QueueSet(t, i, Append(mEvents[t][i].q, Head(popped[t])))
      /\ PendingAs
  BY <1>1, <1>2, RepostFacts DEF Basic
<1>4. ChainsKept
  BY <1>3, QueueSetKeeps DEF Basic
<1>5. Shape'
  BY <1>1, <1>3, <1>4, RepostShape DEF Basic
<1>6. Numbered'
  BY <1>1, <1>3, SameFrames, NumberedSame, SameNumbers DEF Basic
<1>7. TypeOK'
  BY <1>1, <1>3, <1>4 DEF RepostEvent, Basic, TypeOK, ChainsKept, shutVars, histVars
<1> QED BY <1>1, <1>3, <1>5, <1>6, <1>7 DEF Basic

(* Steps that only move the innermost frame on, or return from it. *)
LEMMA QuietMove ==
  ASSUME Basic, NEW t \in Thread, NEW fn, NEW a, Is(t, fn, a), NEW at \in At, a # "pop", at # "pop",
         at \in Places[fn], stk' = Goto(t, at), mEvents' = mEvents, popped' = popped, nEvents' = nEvents
  PROVE  /\ Moved(t, at) /\ Shape' /\ Numbered' /\ PendingAs
         /\ stk' \in [Thread -> Seq(Frame)]
<1>1. stk[t] # <<>> /\ Top(t).fn = fn /\ Top(t).at = a
  BY DEF Is
<1>2. ChainsKept /\ PendingAs /\ OnlyNumbered
  BY Quiet
<1>3. Moved(t, at) /\ Shape' /\ Numbered'
  BY <1>1, <1>2, MoveStep
<1> QED BY <1>2, <1>3 DEF Moved

LEMMA QuietReturn ==
  ASSUME Basic, NEW t \in Thread, NEW fn, NEW a, Is(t, fn, a), fn # "app", popped[t] = <<>>,
         fn = "EventLoop" <=> a = "pop",
         stk' = Returned(t), mEvents' = mEvents, popped' = popped, nEvents' = nEvents
  PROVE  /\ Left(t) /\ Shape' /\ Numbered' /\ PendingAs
         /\ stk' \in [Thread -> Seq(Frame)]
<1>1. stk[t] # <<>> /\ Top(t).fn = fn /\ Top(t).at = a
  BY DEF Is
<1>2. ChainsKept /\ PendingAs /\ OnlyNumbered
  BY Quiet
<1>3. Left(t) /\ Shape' /\ Numbered'
  BY <1>1, <1>2, LeaveStep
<1> QED BY <1>2, <1>3 DEF Left

LEMMA TopNumbered ==
  ASSUME Basic, NEW t \in Thread, stk[t] # <<>>, Top(t).fn \in {"Run", "SyncRun", "Dispatch"}
  PROVE  Top(t).id \in 1 .. nEvents /\ Top(t).id \in EventId
<1>1. Top(t).id \in 1 .. nEvents
  BY TopShape DEF Basic, Numbered
<1> QED BY <1>1, ThreadConstants DEF Basic, TypeOK, EventId

LEMMA SyncTaskReturnsFacts ==
  ASSUME Basic, NEW t \in Thread, SyncTaskReturns(t)
  PROVE  Basic' /\ Moved(t, "reply") /\ PendingAs
<1>1. /\ Is(t, "SyncRun", "task") /\ stk' = Goto(t, "reply")
      /\ mEvents' = mEvents /\ popped' = popped /\ nEvents' = nEvents
  BY DEF SyncTaskReturns, queueVars, histVars
<1>2. "reply" \in At /\ "reply" \in Places["SyncRun"]
  BY DEF At, Places
<1>3. Moved(t, "reply") /\ Shape' /\ Numbered' /\ PendingAs /\ stk' \in [Thread -> Seq(Frame)]
  BY <1>1, <1>2, QuietMove
<1>4. TypeOK'
  BY <1>1, <1>3, TopNumbered DEF SyncTaskReturns, Basic, TypeOK, queueVars, shutVars, histVars, Is
<1> QED BY <1>3, <1>4 DEF Basic

LEMMA DispatchSyncNoWaitFacts ==
  ASSUME Basic, NEW t \in Thread, DispatchSyncNoWait(t)
  PROVE  Basic' /\ Moved(t, "test") /\ PendingAs
<1>1. /\ Is(t, "Dispatch", "wait") /\ stk' = Goto(t, "test")
      /\ mEvents' = mEvents /\ popped' = popped /\ nEvents' = nEvents
  BY DEF DispatchSyncNoWait, queueVars, histVars
<1>2. "test" \in At /\ "test" \in Places["Dispatch"]
  BY DEF At, Places
<1>3. Moved(t, "test") /\ Shape' /\ Numbered' /\ PendingAs /\ stk' \in [Thread -> Seq(Frame)]
  BY <1>1, <1>2, QuietMove
<1>4. TypeOK'
  BY <1>1, <1>3 DEF DispatchSyncNoWait, Basic, TypeOK, queueVars, shutVars, histVars
<1> QED BY <1>3, <1>4 DEF Basic

LEMMA ShutdownAckedFacts ==
  ASSUME Basic, NEW t \in Thread, ShutdownAcked(t)
  PROVE  Basic' /\ Moved(t, "join") /\ PendingAs
<1>1. /\ Is(t, "Shutdown", "wait") /\ stk' = Goto(t, "join")
      /\ mEvents' = mEvents /\ popped' = popped /\ nEvents' = nEvents
  BY DEF ShutdownAcked, queueVars, histVars
<1>2. "join" \in At /\ "join" \in Places["Shutdown"]
  BY DEF At, Places
<1>3. Moved(t, "join") /\ Shape' /\ Numbered' /\ PendingAs /\ stk' \in [Thread -> Seq(Frame)]
  BY <1>1, <1>2, QuietMove
<1>4. TypeOK'
  BY <1>1, <1>3 DEF ShutdownAcked, Basic, TypeOK, queueVars, shutVars, histVars
<1> QED BY <1>3, <1>4 DEF Basic

LEMMA ThreadStartFacts ==
  ASSUME Basic, NEW t \in Thread, ThreadStart(t)
  PROVE  Basic' /\ Moved(t, "startup") /\ PendingAs
<1>1. /\ Is(t, "ThreadFunc", "start") /\ stk' = Goto(t, "startup")
      /\ mEvents' = mEvents /\ popped' = popped /\ nEvents' = nEvents
  BY DEF ThreadStart, queueVars, histVars
<1>2. "startup" \in At /\ "startup" \in Places["ThreadFunc"]
  BY DEF At, Places
<1>3. Moved(t, "startup") /\ Shape' /\ Numbered' /\ PendingAs /\ stk' \in [Thread -> Seq(Frame)]
  BY <1>1, <1>2, QuietMove
<1>4. TypeOK'
  BY <1>1, <1>3 DEF ThreadStart, Basic, TypeOK, queueVars, shutVars, histVars
<1> QED BY <1>3, <1>4 DEF Basic

LEMMA LeaveLoopFacts ==
  ASSUME Basic, NEW t \in Thread, LeaveLoop(t)
  PROVE  Basic' /\ Moved(t, "drain") /\ PendingAs
<1>1. /\ Is(t, "ThreadFunc", "loop") /\ stk' = Goto(t, "drain")
      /\ mEvents' = mEvents /\ popped' = popped /\ nEvents' = nEvents
  BY DEF LeaveLoop, queueVars, histVars
<1>2. "drain" \in At /\ "drain" \in Places["ThreadFunc"]
  BY DEF At, Places
<1>3. Moved(t, "drain") /\ Shape' /\ Numbered' /\ PendingAs /\ stk' \in [Thread -> Seq(Frame)]
  BY <1>1, <1>2, QuietMove
<1>4. TypeOK'
  BY <1>1, <1>3 DEF LeaveLoop, Basic, TypeOK, queueVars, shutVars, histVars
<1> QED BY <1>3, <1>4 DEF Basic

LEMMA DoomFacts ==
  ASSUME Basic, NEW t \in Thread, Doom(t)
  PROVE  Basic' /\ Moved(t, "gone") /\ PendingAs
<1>1. /\ Is(t, "ThreadFunc", "drain") /\ stk' = Goto(t, "gone")
      /\ mEvents' = mEvents /\ popped' = popped /\ nEvents' = nEvents
  BY DEF Doom, queueVars, histVars
<1>2. "gone" \in At /\ "gone" \in Places["ThreadFunc"]
  BY DEF At, Places
<1>3. Moved(t, "gone") /\ Shape' /\ Numbered' /\ PendingAs /\ stk' \in [Thread -> Seq(Frame)]
  BY <1>1, <1>2, QuietMove
<1>4. TypeOK'
  BY <1>1, <1>3 DEF Doom, Basic, TypeOK, queueVars, shutVars, histVars
<1> QED BY <1>3, <1>4 DEF Basic

LEMMA UnregisterFacts ==
  ASSUME Basic, NEW t \in Thread, Unregister(t)
  PROVE  Basic' /\ Moved(t, "ack") /\ PendingAs
<1>1. /\ Is(t, "ThreadFunc", "gone") /\ stk' = Goto(t, "ack")
      /\ mEvents' = mEvents /\ popped' = popped /\ nEvents' = nEvents
  BY DEF Unregister, queueVars, histVars
<1>2. "ack" \in At /\ "ack" \in Places["ThreadFunc"]
  BY DEF At, Places
<1>3. Moved(t, "ack") /\ Shape' /\ Numbered' /\ PendingAs /\ stk' \in [Thread -> Seq(Frame)]
  BY <1>1, <1>2, QuietMove
<1>4. TypeOK'
  BY <1>1, <1>3 DEF Unregister, Basic, TypeOK, queueVars, shutVars, histVars
<1> QED BY <1>3, <1>4 DEF Basic

LEMMA DrainMoreFacts ==
  ASSUME Basic, NEW t \in Thread, DrainMore(t)
  PROVE  /\ Basic' /\ PendingAs
         /\ \/ Is(t, "ThreadFunc", "drain") /\ Moved(t, "pending")
            \/ Is(t, "ThreadFunc", "pending") /\ Moved(t, "drain")
<1>1. mEvents' = mEvents /\ popped' = popped /\ nEvents' = nEvents
  BY DEF DrainMore, queueVars, histVars
<1>2. /\ "drain" \in At /\ "drain" \in Places["ThreadFunc"]
      /\ "pending" \in At /\ "pending" \in Places["ThreadFunc"]
  BY DEF At, Places
<1>3. CASE Is(t, "ThreadFunc", "drain") /\ stk' = Goto(t, "pending")
  <2>1. Moved(t, "pending") /\ Shape' /\ Numbered' /\ PendingAs /\ stk' \in [Thread -> Seq(Frame)]
    BY <1>1, <1>2, <1>3, QuietMove
  <2>2. TypeOK'
    BY <1>1, <2>1 DEF DrainMore, Basic, TypeOK, queueVars, shutVars, histVars
  <2> QED BY <1>3, <2>1, <2>2 DEF Basic
<1>4. CASE Is(t, "ThreadFunc", "pending") /\ stk' = Goto(t, "drain")
  <2>1. Moved(t, "drain") /\ Shape' /\ Numbered' /\ PendingAs /\ stk' \in [Thread -> Seq(Frame)]
    BY <1>1, <1>2, <1>4, QuietMove
  <2>2. TypeOK'
    BY <1>1, <2>1 DEF DrainMore, Basic, TypeOK, queueVars, shutVars, histVars
  <2> QED BY <1>4, <2>1, <2>2 DEF Basic
<1> QED BY <1>3, <1>4 DEF DrainMore

LEMMA DispatchSyncTestFacts ==
  ASSUME Basic, NEW t \in Thread, DispatchSyncTest(t)
  PROVE  /\ Basic' /\ PendingAs
         /\ Top(t).id \in mSyncTask => Moved(t, "wait")
         /\ Top(t).id \notin mSyncTask => Left(t)
<1>1. /\ Is(t, "Dispatch", "test") /\ mEvents' = mEvents /\ popped' = popped /\ nEvents' = nEvents
      /\ stk' = IF Top(t).id \in mSyncTask THEN Goto(t, "wait") ELSE Returned(t)
  BY DEF DispatchSyncTest, queueVars, histVars
<1>2. "wait" \in At /\ "wait" \in Places["Dispatch"]
  BY DEF At, Places
<1>3. popped[t] = <<>>
  BY <1>1, NothingPopped DEF Is
<1>4. CASE Top(t).id \in mSyncTask
  <2>1. Moved(t, "wait") /\ Shape' /\ Numbered' /\ PendingAs /\ stk' \in [Thread -> Seq(Frame)]
    BY <1>1, <1>2, <1>4, QuietMove
  <2>2. TypeOK'
    BY <1>1, <2>1 DEF DispatchSyncTest, Basic, TypeOK, queueVars, shutVars, histVars
  <2> QED BY <1>4, <2>1, <2>2 DEF Basic
<1>5. CASE Top(t).id \notin mSyncTask
  <2>1. Left(t) /\ Shape' /\ Numbered' /\ PendingAs /\ stk' \in [Thread -> Seq(Frame)]
    BY <1>1, <1>3, <1>5, QuietReturn
  <2>2. TypeOK'
    BY <1>1, <2>1 DEF DispatchSyncTest, Basic, TypeOK, queueVars, shutVars, histVars
  <2> QED BY <1>5, <2>1, <2>2 DEF Basic
<1> QED BY <1>4, <1>5

LEMMA RunReturnsFacts ==
  ASSUME Basic, NEW t \in Thread, RunReturns(t)
  PROVE  Basic' /\ Left(t) /\ PendingAs
<1>1. /\ Is(t, "Run", "task") /\ stk' = Returned(t)
      /\ mEvents' = mEvents /\ popped' = popped /\ nEvents' = nEvents
  BY DEF RunReturns, queueVars, histVars
<1>2. popped[t] = <<>>
  BY <1>1, NothingPopped DEF Is, RunReturns
<1>3. Left(t) /\ Shape' /\ Numbered' /\ PendingAs /\ stk' \in [Thread -> Seq(Frame)]
  BY <1>1, <1>2, QuietReturn
<1>4. TypeOK'
  BY <1>1, <1>3, TopNumbered DEF RunReturns, Basic, TypeOK, queueVars, shutVars, histVars, Is
<1> QED BY <1>3, <1>4 DEF Basic

LEMMA ShutdownJoinFacts ==
  ASSUME Basic, NEW t \in Thread, ShutdownJoin(t)
  PROVE  Basic' /\ Left(t) /\ PendingAs
<1>1. /\ Is(t, "Shutdown", "join") /\ stk' = Returned(t)
      /\ mEvents' = mEvents /\ popped' = popped /\ nEvents' = nEvents
  BY DEF ShutdownJoin, queueVars, histVars
<1>2. popped[t] = <<>>
  BY <1>1, NothingPopped DEF Is, ShutdownJoin
<1>3. Left(t) /\ Shape' /\ Numbered' /\ PendingAs /\ stk' \in [Thread -> Seq(Frame)]
  BY <1>1, <1>2, QuietReturn
<1>4. TypeOK'
  BY <1>1, <1>3 DEF ShutdownJoin, Basic, TypeOK, queueVars, shutVars, histVars
<1> QED BY <1>3, <1>4 DEF Basic

LEMMA InitDoneFacts ==
  ASSUME Basic, NEW t \in Thread, InitDone(t)
  PROVE  Basic' /\ Left(t) /\ PendingAs
<1>1. /\ Is(t, "Init", "wait") /\ stk' = Returned(t)
      /\ mEvents' = mEvents /\ popped' = popped /\ nEvents' = nEvents
  BY DEF InitDone, queueVars, histVars
<1>2. popped[t] = <<>>
  BY <1>1, NothingPopped DEF Is, InitDone
<1>3. Left(t) /\ Shape' /\ Numbered' /\ PendingAs /\ stk' \in [Thread -> Seq(Frame)]
  BY <1>1, <1>2, QuietReturn
<1>4. TypeOK'
  BY <1>1, <1>3, StackType DEF InitDone, Basic, TypeOK, queueVars, shutVars, histVars, Is, Frame
<1> QED BY <1>3, <1>4 DEF Basic

LEMMA ThreadExitFacts ==
  ASSUME Basic, NEW t \in Thread, ThreadExit(t)
  PROVE  Basic' /\ Left(t) /\ PendingAs
<1>1. /\ Is(t, "ThreadFunc", "bye") /\ stk' = Returned(t)
      /\ mEvents' = mEvents /\ popped' = popped /\ nEvents' = nEvents
  BY DEF ThreadExit, queueVars, histVars
<1>2. popped[t] = <<>>
  BY <1>1, NothingPopped DEF Is, ThreadExit
<1>3. Left(t) /\ Shape' /\ Numbered' /\ PendingAs /\ stk' \in [Thread -> Seq(Frame)]
  BY <1>1, <1>2, QuietReturn
<1>4. TypeOK'
  BY <1>1, <1>3 DEF ThreadExit, Basic, TypeOK, queueVars, shutVars, histVars
<1> QED BY <1>3, <1>4 DEF Basic

LEMMA PopEventQueueDoneFacts ==
  ASSUME Basic, NEW t \in Thread, PopEventQueueDone(t)
  PROVE  Basic' /\ Left(t) /\ PendingAs
<1>1. /\ Is(t, "EventLoop", "pop") /\ stk' = Returned(t)
      /\ mEvents' = mEvents /\ popped' = popped /\ nEvents' = nEvents
  BY DEF PopEventQueueDone, queueVars, histVars
<1>2. popped[t] = <<>>
  BY <1>1, NothingPopped DEF Is, PopEventQueueDone
<1>3. Left(t) /\ Shape' /\ Numbered' /\ PendingAs /\ stk' \in [Thread -> Seq(Frame)]
  BY <1>1, <1>2, QuietReturn
<1>4. TypeOK'
  BY <1>1, <1>3 DEF PopEventQueueDone, Basic, TypeOK, queueVars, shutVars, histVars
<1> QED BY <1>3, <1>4 DEF Basic

(* Steps that post an event. *)
LEMMA ShutdownPostFacts ==
  ASSUME Basic, NEW t \in Thread, ShutdownPost(t)
  PROVE  /\ Basic' /\ Moved(t, "wait") /\ Top(t).t \in Thread
         /\ \E e \in Event : e.k = "shutdown" /\ e.id = 0 /\ e.t = t /\ Posted(Top(t).t, e)
<1> DEFINE e == [k |-> "shutdown", id |-> 0, t |-> t]
<1>1. /\ Is(t, "Shutdown", "put") /\ stk' = Goto(t, "wait") /\ PutEvent(Top(t).t, e)
      /\ popped' = popped /\ nEvents' = nEvents
  BY DEF ShutdownPost, histVars
<1>2. Top(t).t \in Thread /\ stk[t] # <<>> /\ Top(t).fn = "Shutdown" /\ Top(t).at = "put"
  BY <1>1, StackType DEF Basic, Is, Frame
<1>3. e \in Event /\ e.k = "shutdown" /\ e.id = 0 /\ e.t = t
  BY ThreadConstants DEF Event, Kind
<1> HIDE DEF e
<1>4. ChainsKept /\ Posted(Top(t).t, e)
  BY <1>1, <1>2, <1>3, PostFacts
<1>5. OnlyNumbered
  BY <1>2, <1>3, <1>4, PostedNumbers
<1>6. "wait" \in At /\ "wait" \in Places["Shutdown"]
  BY DEF At, Places
<1>7. Moved(t, "wait") /\ Shape' /\ Numbered'
  BY <1>1, <1>2, <1>4, <1>5, <1>6, MoveStep
<1>8. TypeOK'
  BY <1>1, <1>4, <1>7 DEF Moved, ShutdownPost, Basic, TypeOK, ChainsKept, shutVars, histVars
<1> QED BY <1>2, <1>3, <1>4, <1>7, <1>8 DEF Basic

LEMMA DispatchAckFacts ==
  ASSUME Basic, NEW t \in Thread, DispatchAck(t), mShutdownContext[t] # NoThread
  PROVE  /\ Basic' /\ Moved(t, "bye") /\ mShutdownContext[t] \in Thread
         /\ \E e \in Event : e.k = "ack" /\ e.id = 0 /\ e.t = t /\ Posted(mShutdownContext[t], e)
<1> DEFINE e == [k |-> "ack", id |-> 0, t |-> t]
<1>1. /\ Is(t, "ThreadFunc", "ack") /\ stk' = Goto(t, "bye") /\ PutEvent(mShutdownContext[t], e)
      /\ popped' = popped /\ nEvents' = nEvents
  BY DEF DispatchAck, histVars
<1>2. mShutdownContext[t] \in Thread /\ stk[t] # <<>> /\ Top(t).fn = "ThreadFunc" /\ Top(t).at = "ack"
  BY <1>1, StackType DEF Basic, Is, Frame, TypeOK
<1>3. e \in Event /\ e.k = "ack" /\ e.id = 0 /\ e.t = t
  BY ThreadConstants DEF Event, Kind
<1> HIDE DEF e
<1>4. ChainsKept /\ Posted(mShutdownContext[t], e)
  BY <1>1, <1>2, <1>3, PostFacts
<1>5. OnlyNumbered
  BY <1>2, <1>3, <1>4, PostedNumbers
<1>6. "bye" \in At /\ "bye" \in Places["ThreadFunc"]
  BY DEF At, Places
<1>7. Moved(t, "bye") /\ Shape' /\ Numbered'
  BY <1>1, <1>2, <1>4, <1>5, <1>6, MoveStep
<1>8. TypeOK'
  BY <1>1, <1>4, <1>7 DEF Moved, DispatchAck, Basic, TypeOK, ChainsKept, shutVars, histVars
<1> QED BY <1>2, <1>3, <1>4, <1>7, <1>8 DEF Basic

LEMMA InitPutStartupFacts ==
  ASSUME Basic, NEW t \in Thread, InitPutStartup(t)
  PROVE  /\ Basic' /\ Moved(t, "wait") /\ Top(t).t \in Thread
         /\ \E e \in Event : e.k = "startup" /\ e.id = 0 /\ PendingPlus(Top(t).t, e)
<1> DEFINE u == Top(t).t
           e == [k |-> "startup", id |-> 0, t |-> u]
<1>1. /\ Is(t, "Init", "put") /\ stk' = Goto(t, "wait") /\ mEvents' = Put(u, e)
      /\ popped' = popped /\ nEvents' = nEvents
  BY DEF InitPutStartup, histVars
<1>2. u \in Thread /\ stk[t] # <<>> /\ Top(t).fn = "Init" /\ Top(t).at = "put"
  BY <1>1, StackType DEF Basic, Is, Frame
<1>3. e \in Event /\ e.k = "startup" /\ e.id = 0
  BY <1>2, ThreadConstants DEF Event, Kind
<1> HIDE DEF u, e
<1>4. ChainShape(u)
  BY <1>2 DEF Basic, Shape
<1>5. ChainsKept
  BY <1>1, <1>2, <1>3, <1>4, PutFacts, QueueSetKeeps DEF Basic
<1>6. PendingPlus(u, e)
  BY <1>1, <1>2, <1>3, <1>4, PendingPut DEF Basic
<1>7. OnlyNumbered
  BY <1>2, <1>3, <1>6, PlusNumbers
<1>8. "wait" \in At /\ "wait" \in Places["Init"]
  BY DEF At, Places
<1>9. Moved(t, "wait") /\ Shape' /\ Numbered'
  BY <1>1, <1>2, <1>5, <1>7, <1>8, MoveStep
<1>10. TypeOK'
  BY <1>1, <1>5, <1>9 DEF Moved, InitPutStartup, Basic, TypeOK, ChainsKept, shutVars, histVars
<1> QED BY <1>2, <1>3, <1>6, <1>9, <1>10 DEF Basic, u

LEMMA SyncReplyFacts ==
  ASSUME Basic, NEW t \in Thread, SyncReply(t)
  PROVE  /\ Basic' /\ Left(t) /\ Top(t).t \in Thread
         /\ \E e \in Event : e.k = "sync" /\ e.id = Top(t).id /\ Posted(Top(t).t, e)
<1> DEFINE u == Top(t).t
           e == [k |-> "sync", id |-> Top(t).id, t |-> Top(t).t]
<1>1. /\ Is(t, "SyncRun", "reply") /\ stk' = Returned(t) /\ PutEvent(u, e)
      /\ popped' = popped /\ nEvents' = nEvents
  BY DEF SyncReply, histVars
<1>2. u \in Thread /\ stk[t] # <<>> /\ Top(t).fn = "SyncRun" /\ Top(t).at = "reply" /\ Top(t) \in Frame
  BY <1>1, StackType DEF Basic, Is, Frame
<1>3. e \in Event /\ e.k = "sync" /\ e.id = Top(t).id
  BY <1>2 DEF Event, Kind, Frame
<1> HIDE DEF e, u
<1>4. ChainsKept /\ Posted(u, e)
  BY <1>1, <1>2, <1>3, PostFacts
<1>5. OnlyNumbered
  BY <1>1, <1>2, <1>3, <1>4, PostedNumbers, TopNumbered
<1>6. popped[t] = <<>>
  BY <1>2, NothingPopped
<1>7. Left(t) /\ Shape' /\ Numbered'
  BY <1>1, <1>2, <1>4, <1>5, <1>6, LeaveStep
<1>8. TypeOK'
  BY <1>1, <1>4, <1>7 DEF Left, SyncReply, Basic, TypeOK, ChainsKept, shutVars, histVars
<1> QED BY <1>2, <1>3, <1>4, <1>7, <1>8 DEF Basic, u

(* The next event is taken and run. *)
LEMMA TakeAndRunFacts ==
  ASSUME Basic, NEW t \in Thread, NEW at \in At, at # "pop", stk[t] # <<>>, Top(t).at # "pop",
         at \in Places[Top(t).fn], TakeAndRun(t, at)
  PROVE  /\ Basic' /\ NextEvent(t) \in Event /\ PendingTaken(t, NextEvent(t))
         /\ Runs(NextEvent(t)) => MovedInto(t, at, RunFrame(t, NextEvent(t)))
         /\ ~Runs(NextEvent(t)) => Moved(t, at)
<1> DEFINE e == NextEvent(t)
           f == RunFrame(t, e)
<1>1. /\ HasPendingEvent(t) /\ mEvents' = [mEvents EXCEPT ![t][Len(mEvents[t])].q = Tail(@)]
      /\ RunEvent(t, e, at) /\ popped' = popped /\ nEvents' = nEvents
  BY DEF TakeAndRun
<1>2. ChainShape(t)
  BY DEF Basic, Shape
<1>3. /\ e \in Event /\ PendingTaken(t, e)
      /\ QueueSet(t, Len(mEvents[t]), Tail(mEvents[t][Len(mEvents[t])].q))
  BY <1>1, <1>2, TakeFacts DEF Basic
<1> HIDE DEF e
<1>4. ChainsKept
  BY <1>3, QueueSetKeeps DEF Basic
<1>5. OnlyNumbered
  BY <1>3, TakenNumbers
<1>6. /\ Runs(e) => MovedInto(t, at, f) /\ f \in Frame
      /\ ~Runs(e) => Moved(t, at)
  BY <1>1, <1>3, RunEventStack DEF Basic
<1>7. /\ f.fn \in {"Run", "SyncRun"} /\ f.at = "task" /\ f.lvl = Top(t).lvl /\ f.id = e.id
      /\ f.at \in Places[f.fn]
  BY DEF RunFrame, Places
<1>8. Runs(e) => e.id \in 1 .. nEvents /\ e.id \in EventId
  <2>1. e \in Pending(t)
    BY <1>3 DEF PendingTaken
  <2>2. Runs(e) => e.id \in 1 .. nEvents
    BY <2>1 DEF Basic, Numbered, Runs
  <2> QED BY <2>2, ThreadConstants DEF Basic, TypeOK, EventId
<1> HIDE DEF f
<1>9. stk' \in [Thread -> Seq(Frame)]
  BY <1>6 DEF Moved, MovedInto
<1>10. TypeOK'
  <2>1. begun' \in [EventId -> Nat]
    BY <1>1, <1>8 DEF RunEvent, Runs, Basic, TypeOK
  <2>2. mShutdownContext' \in [Thread -> Thread \cup {NoThread}]
    BY <1>1, <1>3 DEF RunEvent, Basic, TypeOK, Event
  <2>3. shutdownAck' \in [Thread -> BOOLEAN]
    BY <1>1, <1>3 DEF RunEvent, Basic, TypeOK, Event
  <2>4. mInitialized' \in [Thread -> BOOLEAN]
    BY <1>1, <1>3 DEF RunEvent, Basic, TypeOK, Event
  <2> QED BY <1>4, <1>9, <2>1, <2>2, <2>3, <2>4 DEF TakeAndRun, ChainsKept, Basic, TypeOK
<1>11. Shape' /\ Numbered'
  <2>1. CASE Runs(e)
    <3>1. MovedInto(t, at, f)
      BY <1>6, <2>1
    <3>2. mEvents'[t] # <<>> /\ mEvents'[t][1].filter = Kind /\ Len(mEvents'[t]) = Top(t).lvl
      BY <1>2, <1>4 DEF ChainsKept, ChainKept, ChainShape
    <3>3. \A v \in Thread \ {t} : ChainKept(v)
      BY <1>4 DEF ChainsKept
    <3>4. Shape'
      BY <1>1, <1>7, <3>1, <3>2, <3>3, MovedIntoShape DEF Basic
    <3>5. nEvents' \in Nat /\ nEvents' >= nEvents
      BY <1>1 DEF Basic, TypeOK
    <3>6. f.fn \in {"Run", "SyncRun", "Dispatch"} => f.id \in 1 .. nEvents'
      BY <1>1, <1>7, <1>8, <2>1
    <3>7. Numbered'
      BY <1>5, <3>1, <3>5, <3>6, MovedIntoFrames, NumberedKept DEF Basic
    <3> QED BY <3>4, <3>7
  <2>2. CASE ~Runs(e)
    <3>1. Moved(t, at)
      BY <1>6, <2>2
    <3>2. Shape'
      BY <1>1, <1>4, <3>1, MovedShape DEF Basic
    <3>3. Numbered'
      BY <1>1, <1>5, <3>1, MovedFrames, NumberedSame DEF Basic
    <3> QED BY <3>2, <3>3
  <2> QED BY <2>1, <2>2
<1> QED BY <1>3, <1>6, <1>10, <1>11 DEF Basic, e, f
--------------------------------------------------------------------------------
(* Who is known, claimed and doomed *)

(* A step of t that creates, claims and ends no thread. *)
Plain(t, at, f) ==
  /\ UNCHANGED <<known, mShutdownRequired, mEventsAreDoomed>>
  /\ stk[t] # <<>> /\ stk'[t] # <<>> /\ Top(t).at \notin Gone /\ at \notin Gone
  /\ at \in Late => mShutdownContext[t] # NoThread
  /\ \A v \in Thread \ {t} : stk'[v] = stk[v]
  /\ Grown(t, at, f) /\ f.fn \notin {"Init", "Shutdown"} /\ f.at \notin Late
  /\ \A v \in Thread : mEventsAreDoomed[v] => Pending(v)' \subseteq Pending(v)
  /\ \A v \in Thread : \A e \in Pending(v)' : e \in Pending(v) \/ e.k # "shutdown" \/ v \in known
  /\ \A v \in Thread : mShutdownContext[v] # NoThread => mShutdownContext'[v] # NoThread
  /\ \A v \in Thread : mShutdownContext'[v] # NoThread => v \in known

LEMMA ClaimsKept ==
  ASSUME Basic, Claims, NEW t, NEW at, NEW f, Grown(t, at, f), f.fn \notin {"Init", "Shutdown"},
         known' = known, mShutdownRequired' = mShutdownRequired,
         \A v \in Thread \ known : stk[v] # <<>> => stk'[v] # <<>>
  PROVE  FramesClaim' /\ OneClaim'
<1>1. ASSUME NEW v \in Thread, NEW i \in DOMAIN stk'[v], stk'[v][i].fn \in {"Init", "Shutdown"}
      PROVE  /\ i \in DOMAIN stk[v] /\ stk'[v][i].fn = stk[v][i].fn /\ stk'[v][i].t = stk[v][i].t
  BY <1>1 DEF Grown, FromOld
<1>2. ASSUME NEW v \in Thread, NEW i \in DOMAIN stk'[v] PROVE FrameClaims(stk[v][i])'
  <2>1. CASE stk'[v][i].fn \notin {"Init", "Shutdown"}
    BY <2>1 DEF FrameClaims
  <2>2. CASE stk'[v][i].fn \in {"Init", "Shutdown"}
    <3>1. /\ i \in DOMAIN stk[v] /\ stk'[v][i].fn = stk[v][i].fn /\ stk'[v][i].t = stk[v][i].t
      BY <1>1, <2>2
    <3>2. FrameClaims(stk[v][i]) /\ stk[v][i].t \in Thread
      BY <3>1, StackType DEF Claims, FramesClaim, Basic, Frame
    <3> QED BY <3>1, <3>2 DEF FrameClaims
  <2> QED BY <2>1, <2>2
<1>3. OneClaim'
  BY <1>1 DEF Claims, OneClaim
<1> QED BY <1>2, <1>3 DEF FramesClaim

LEMMA OnlyKnownKept ==
  ASSUME Basic, OnlyKnown, Main \in known', ~mShutdownRequired'[Main],
         \A v \in Thread : mShutdownContext[v] # NoThread => mShutdownContext'[v] # NoThread,
         \A v \in Thread : mShutdownContext'[v] # NoThread => v \in known',
         known \subseteq known',
         \A v \in Thread : \A e \in Pending(v)' : e \in Pending(v) \/ e.k # "shutdown" \/ v \in known',
         \A v \in Thread : \A i \in DOMAIN stk'[v] : stk'[v][i].at \in Late =>
           (i \in DOMAIN stk[v] /\ stk[v][i].at \in Late) \/ mShutdownContext[v] # NoThread
  PROVE  OnlyKnown'
<1>1. ASSUME NEW v \in Thread, NEW e \in Pending(v)', e.k = "shutdown" PROVE v \in known'
  BY <1>1 DEF OnlyKnown
<1>2. ASSUME NEW v \in Thread, NEW i \in DOMAIN stk'[v], stk'[v][i].at \in Late
      PROVE  mShutdownContext'[v] # NoThread
  BY <1>2 DEF OnlyKnown
<1> QED BY <1>1, <1>2 DEF OnlyKnown

LEMMA DoomedKept ==
  ASSUME Basic, DoomedRight, known \subseteq known', mEventsAreDoomed' = mEventsAreDoomed,
         \A v \in Thread : mEventsAreDoomed[v] => stk'[v] = stk[v] /\ Pending(v)' \subseteq Pending(v),
         \A v \in Thread : v \in known' /\ stk'[v] = <<>> => v \in known /\ stk[v] = <<>>,
         \A v \in Thread : \A i \in DOMAIN stk'[v] : stk'[v][i].at \in Gone =>
           i \in DOMAIN stk[v] /\ stk[v][i].at \in Gone
  PROVE  DoomedRight'
<1>1. ASSUME NEW v \in Thread, mEventsAreDoomed[v]
      PROVE  /\ v \in known' \ {Main} /\ Pending(v)' = {}
             /\ stk'[v] # <<>> => Len(stk'[v]) = 1 /\ Top(v)'.at \in Gone
  BY <1>1 DEF DoomedRight, Top
<1>2. ASSUME NEW v \in Thread, v \in known', stk'[v] = <<>> PROVE mEventsAreDoomed[v]
  BY <1>2 DEF DoomedRight
<1>3. ASSUME NEW v \in Thread, NEW i \in DOMAIN stk'[v], stk'[v][i].at \in Gone
      PROVE  mEventsAreDoomed[v]
  BY <1>3 DEF DoomedRight
<1> QED BY <1>1, <1>2, <1>3 DEF DoomedRight

LEMMA ActorNotDoomed ==
  ASSUME DoomedRight, NEW t \in Thread, stk[t] # <<>>, Top(t).at \notin Gone
  PROVE  ~mEventsAreDoomed[t]
BY DEF DoomedRight

LEMMA PlainKeeps ==
  ASSUME Orderly, NEW t \in Thread, NEW at, NEW f, Plain(t, at, f)
  PROVE  Claims' /\ DoomedRight'
<1> USE DEF Orderly
<1>1. known' = known /\ mShutdownRequired' = mShutdownRequired /\ mEventsAreDoomed' = mEventsAreDoomed
  BY DEF Plain
<1>2. FramesClaim' /\ OneClaim'
  <2>1. \A v \in Thread \ known : stk[v] # <<>> => stk'[v] # <<>>
    BY DEF Plain
  <2> QED BY <1>1, <2>1, ClaimsKept DEF Plain
<1>3. OnlyKnown'
  <2>1. \A v \in Thread : \A i \in DOMAIN stk'[v] : stk'[v][i].at \in Late =>
           (i \in DOMAIN stk[v] /\ stk[v][i].at \in Late) \/ mShutdownContext[v] # NoThread
    BY DEF Plain, Grown, FromOld
  <2>2. OnlyKnown /\ Main \in known /\ ~mShutdownRequired[Main]
    BY DEF Claims, OnlyKnown
  <2> QED BY <1>1, <2>1, <2>2, OnlyKnownKept DEF Plain
<1>4. DoomedRight'
  <2>1. ~mEventsAreDoomed[t]
    BY ActorNotDoomed DEF Plain
  <2>2. \A v \in Thread : \A i \in DOMAIN stk'[v] : stk'[v][i].at \in Gone =>
           i \in DOMAIN stk[v] /\ stk[v][i].at \in Gone
    BY DEF Plain, Grown, FromOld, Late, Gone
  <2>3. \A v \in Thread : mEventsAreDoomed[v] => stk'[v] = stk[v] /\ Pending(v)' \subseteq Pending(v)
    BY <2>1 DEF Plain
  <2>4. \A v \in Thread : v \in known' /\ stk'[v] = <<>> => v \in known /\ stk[v] = <<>>
    BY DEF Plain
  <2> QED BY <1>1, <2>2, <2>3, <2>4, DoomedKept
<1> QED BY <1>2, <1>3, <1>4 DEF Claims

(* A doomed thread gets no events, and only known threads are told to shut down. *)
PendingFine ==
  /\ \A v \in Thread : mEventsAreDoomed[v] => Pending(v)' \subseteq Pending(v)
  /\ \A v \in Thread : \A e \in Pending(v)' : e \in Pending(v) \/ e.k # "shutdown" \/ v \in known

LEMMA FineAs == ASSUME PendingAs PROVE PendingFine
BY DEF PendingAs, PendingFine

LEMMA FinePosted ==
  ASSUME NEW u \in Thread, NEW e, Posted(u, e), e.k # "shutdown" \/ u \in known
  PROVE  PendingFine
BY DEF Posted, PendingAs, PendingPlus, PendingFine

LEMMA FinePlus ==
  ASSUME NEW u \in Thread, NEW e, PendingPlus(u, e), e.k # "shutdown", ~mEventsAreDoomed[u]
  PROVE  PendingFine
BY DEF PendingPlus, PendingFine

LEMMA FineTaken == ASSUME NEW t \in Thread, NEW e, PendingTaken(t, e) PROVE PendingFine
BY DEF PendingTaken, PendingFine

(* The variables of shutdown that a plain step leaves alone. *)
claimVars == <<known, mShutdownRequired, mEventsAreDoomed, mShutdownContext>>

LEMMA PlainSame ==
  ASSUME Orderly, NEW t \in Thread, stk[t] # <<>>, Top(t).at \notin Gone, stk' = stk,
         UNCHANGED claimVars, PendingFine
  PROVE  Claims' /\ DoomedRight'
<1>1. FirstFrame(t).fn = "ThreadFunc" /\ FirstFrame(t).at = "start"
  BY DEF FirstFrame
<1>2. Grown(t, "start", FirstFrame(t))
  BY SameFrames, CarriedGrows
<1>3. Plain(t, "start", FirstFrame(t))
  BY <1>1, <1>2 DEF Plain, Orderly, Claims, OnlyKnown, PendingFine, claimVars, Late, Gone
<1> QED BY <1>3, PlainKeeps

LEMMA PlainMoved ==
  ASSUME Orderly, NEW t \in Thread, NEW at, stk[t] # <<>>, Top(t).at \notin Gone, at \notin Gone,
         at \in Late => mShutdownContext[t] # NoThread, Moved(t, at),
         UNCHANGED claimVars, PendingFine
  PROVE  Claims' /\ DoomedRight'
<1>1. FirstFrame(t).fn = "ThreadFunc" /\ FirstFrame(t).at = "start"
  BY DEF FirstFrame
<1>2. Grown(t, at, FirstFrame(t))
  BY MovedFrames, CarriedGrows DEF Orderly, Basic
<1>3. stk'[t] # <<>> /\ \A v \in Thread \ {t} : stk'[v] = stk[v]
  BY DEF Moved
<1>4. Plain(t, at, FirstFrame(t))
  BY <1>1, <1>2, <1>3 DEF Plain, Orderly, Claims, OnlyKnown, PendingFine, claimVars, Late, Gone
<1> QED BY <1>4, PlainKeeps

LEMMA PlainInto ==
  ASSUME Orderly, NEW t \in Thread, NEW at, NEW f, stk[t] # <<>>, Top(t).at \notin Gone, at \notin Gone,
         at \in Late => mShutdownContext[t] # NoThread, MovedInto(t, at, f),
         f.fn \notin {"Init", "Shutdown"}, f.at \notin Late,
         UNCHANGED claimVars, PendingFine
  PROVE  Claims' /\ DoomedRight'
<1>1. Grown(t, at, f)
  BY MovedIntoFrames DEF Orderly, Basic
<1>2. stk'[t] # <<>> /\ \A v \in Thread \ {t} : stk'[v] = stk[v]
  BY DEF MovedInto
<1>3. Plain(t, at, f)
  BY <1>1, <1>2 DEF Plain, Orderly, Claims, OnlyKnown, PendingFine, claimVars
<1> QED BY <1>3, PlainKeeps

LEMMA LeftRunning ==
  ASSUME Basic, NEW t \in Thread, stk[t] # <<>>, Top(t).fn \notin {"app", "ThreadFunc"}, Left(t)
  PROVE  stk'[t] # <<>>
<1>1. Len(stk[t]) # 1
  <2>1. Len(stk[t]) \in DOMAIN stk[t] /\ FrameShape(t, Len(stk[t])) /\ Top(t) = stk[t][Len(stk[t])]
    BY TopShape DEF Basic
  <2> QED BY <2>1 DEF FrameShape
<1>2. Len(stk[t]) \in Nat
  BY StackType DEF Basic
<1>3. Len(stk'[t]) = Len(stk[t]) - 1 /\ stk'[t] \in Seq(Frame)
  BY DEF Left
<1>4. Len(stk[t]) - 1 # 0
  <2> DEFINE n == Len(stk[t])
  <2>1. n \in Nat /\ n # 1
    BY <1>1, <1>2
  <2> HIDE DEF n
  <2>2. n - 1 # 0
    BY <2>1
  <2> QED BY <2>2 DEF n
<1>5. stk'[t] = <<>> => Len(stk'[t]) = 0
  BY <1>3, EmptySeq
<1> QED BY <1>3, <1>4, <1>5

LEMMA PlainLeft ==
  ASSUME Orderly, NEW t \in Thread, stk[t] # <<>>, Top(t).at \notin Gone, Left(t),
         Top(t).fn \notin {"app", "ThreadFunc"}, UNCHANGED claimVars, PendingFine
  PROVE  Claims' /\ DoomedRight'
<1>1. FirstFrame(t).fn = "ThreadFunc" /\ FirstFrame(t).at = "start"
  BY DEF FirstFrame
<1>2. Grown(t, "start", FirstFrame(t))
  BY LeftFrames, CarriedGrows DEF Orderly, Basic
<1>3. stk'[t] # <<>> /\ \A v \in Thread \ {t} : stk'[v] = stk[v]
  BY LeftRunning DEF Left, Orderly
<1>4. Plain(t, "start", FirstFrame(t))
  BY <1>1, <1>2, <1>3 DEF Plain, Orderly, Claims, OnlyKnown, PendingFine, claimVars, Late, Gone
<1> QED BY <1>4, PlainKeeps

(* The innermost frame's claim. *)
LEMMA TopClaims ==
  ASSUME Orderly, NEW t \in Thread, stk[t] # <<>>
  PROVE  /\ Top(t) \in Frame /\ Top(t).t \in Thread /\ FrameClaims(Top(t))
         /\ Top(t).at \in Late => mShutdownContext[t] # NoThread /\ t \in known
         /\ Top(t).at \in Gone => mEventsAreDoomed[t]
<1>1. Len(stk[t]) \in DOMAIN stk[t] /\ Top(t) = stk[t][Len(stk[t])] /\ Top(t) \in Frame
  BY TopShape DEF Orderly, Basic
<1>2. FrameClaims(Top(t)) /\ Top(t).t \in Thread
  BY <1>1 DEF Orderly, Claims, FramesClaim, Frame
<1>3. Top(t).at \in Late => mShutdownContext[t] # NoThread /\ t \in known
  BY <1>1 DEF Orderly, Claims, OnlyKnown
<1>4. Top(t).at \in Gone => mEventsAreDoomed[t]
  BY <1>1 DEF Orderly, DoomedRight
<1> QED BY <1>1, <1>2, <1>3, <1>4

(* The loops that take the next event, and where they go on. *)
Taking(t, at) ==
  /\ stk[t] # <<>> /\ at \in At /\ at \in Places[Top(t).fn] /\ TakeAndRun(t, at)
  /\ at \in {"loop", "pending", "test", "wait"}
  /\ at = "pending" => Top(t).at = "pending"
  /\ Top(t).at \in {"startup", "loop", "pending", "wait"}
  /\ Top(t).fn = "Shutdown" => Top(t).at = at

LEMMA TakingCases ==
  ASSUME NEW t \in Thread, ProcessNextEvent(t) \/ ThreadStartup(t)
  PROVE  \E at \in At : Taking(t, at)
<1>0. /\ {"loop", "pending", "test", "wait"} \subseteq At
      /\ "loop" \in Places["app"] /\ "loop" \in Places["ThreadFunc"] /\ "pending" \in Places["ThreadFunc"]
      /\ "loop" \in Places["EventLoop"] /\ "test" \in Places["Dispatch"] /\ "wait" \in Places["Shutdown"]
  BY DEF At, Places
<1>1. CASE Is(t, "app", "loop") /\ TakeAndRun(t, "loop")
  BY <1>0, <1>1 DEF Taking, Is
<1>2. CASE Is(t, "ThreadFunc", "loop") /\ TakeAndRun(t, "loop")
  BY <1>0, <1>2 DEF Taking, Is
<1>3. CASE Is(t, "ThreadFunc", "pending") /\ TakeAndRun(t, "pending")
  BY <1>0, <1>3 DEF Taking, Is
<1>4. CASE Is(t, "EventLoop", "loop") /\ TakeAndRun(t, "loop")
  BY <1>0, <1>4 DEF Taking, Is
<1>5. CASE Is(t, "Dispatch", "wait") /\ TakeAndRun(t, "test")
  BY <1>0, <1>5 DEF Taking, Is
<1>6. CASE Is(t, "Shutdown", "wait") /\ TakeAndRun(t, "wait")
  BY <1>0, <1>6 DEF Taking, Is
<1>7. CASE Is(t, "ThreadFunc", "startup") /\ TakeAndRun(t, "loop")
  BY <1>0, <1>7 DEF Taking, Is
<1> QED BY <1>1, <1>2, <1>3, <1>4, <1>5, <1>6, <1>7 DEF ProcessNextEvent, ThreadStartup

LEMMA TakingFacts ==
  ASSUME Basic, NEW t \in Thread, NEW at \in At, Taking(t, at)
  PROVE  /\ Basic' /\ NextEvent(t) \in Event /\ PendingTaken(t, NextEvent(t))
         /\ Runs(NextEvent(t)) => MovedInto(t, at, RunFrame(t, NextEvent(t)))
         /\ ~Runs(NextEvent(t)) => Moved(t, at)
<1>1. /\ at # "pop" /\ stk[t] # <<>> /\ Top(t).at # "pop" /\ at \in Places[Top(t).fn]
      /\ TakeAndRun(t, at)
  BY DEF Taking
<1> QED BY <1>1, TakeAndRunFacts

(* The steps that leave known, claimed and doomed threads as they are. *)
LEMMA PlainSteps ==
  ASSUME Orderly, NEW t \in Thread,
         \/ \E u \in Thread : Dispatch(t, u) \/ DispatchSync(t, u)
         \/ \E f \in Filter : PushEventQueue(t, f)
         \/ PopEventQueue(t) \/ RepostEvent(t) \/ PopEventQueueDone(t)
         \/ RunReturns(t) \/ SyncTaskReturns(t) \/ SyncReply(t)
         \/ DispatchSyncTest(t) \/ DispatchSyncNoWait(t)
         \/ ShutdownPost(t) \/ ShutdownAcked(t) \/ ShutdownJoin(t)
         \/ InitPutStartup(t) \/ ThreadStart(t) \/ LeaveLoop(t) \/ DrainMore(t)
  PROVE  Basic' /\ Claims' /\ DoomedRight'
<1> USE DEF Gone, Late
<1>b. Basic
  BY DEF Orderly
<1>1. ASSUME NEW u \in Thread, Dispatch(t, u) PROVE Basic' /\ Claims' /\ DoomedRight'
  <2>1. /\ Basic' /\ stk' = stk
        /\ \E e \in Event : e.k = "task" /\ e.id = nEvents + 1 /\ Posted(u, e)
    BY <1>b, <1>1, DispatchFacts
  <2>2. PendingFine
    BY <2>1, FinePosted
  <2>3. stk[t] # <<>> /\ Top(t).at \notin Gone /\ UNCHANGED claimVars
    BY <1>b, <1>1, ClientCode DEF Dispatch, claimVars, shutVars
  <2> QED BY <2>1, <2>2, <2>3, PlainSame
<1>2. ASSUME NEW u \in Thread, DispatchSync(t, u) PROVE Basic' /\ Claims' /\ DoomedRight'
  <2>1. /\ Basic'
        /\ mEventsAreDoomed[u] => stk' = stk
        /\ \E e \in Event : e.k = "sync" /\ e.id = nEvents + 1 /\ Posted(u, e)
        /\ ~mEventsAreDoomed[u] => \E f : /\ f.fn = "Dispatch" /\ f.at = "test" /\ f.id = nEvents + 1
                                          /\ MovedInto(t, Top(t).at, f)
    BY <1>b, <1>2, DispatchSyncFacts
  <2>2. PendingFine
    BY <2>1, FinePosted
  <2>3. stk[t] # <<>> /\ Top(t).at \in {"loop", "task"} /\ UNCHANGED claimVars
    BY <1>b, <1>2, ClientCode DEF DispatchSync, claimVars, shutVars
  <2>4. CASE mEventsAreDoomed[u]
    BY <2>1, <2>2, <2>3, <2>4, PlainSame
  <2>5. CASE ~mEventsAreDoomed[u]
    <3>1. PICK f : f.fn = "Dispatch" /\ f.at = "test" /\ MovedInto(t, Top(t).at, f)
      BY <2>1, <2>5
    <3> QED BY <2>1, <2>2, <2>3, <3>1, PlainInto
  <2> QED BY <2>4, <2>5
<1>3. ASSUME NEW f \in Filter, PushEventQueue(t, f) PROVE Basic' /\ Claims' /\ DoomedRight'
  <2>1. Basic' /\ MovedInto(t, Top(t).at, LoopFrame(t)) /\ PendingAs
    BY <1>b, <1>3, PushEventQueueFacts
  <2>2. stk[t] # <<>> /\ Top(t).at \in {"loop", "task"} /\ UNCHANGED claimVars
    BY <1>b, <1>3, ClientCode DEF PushEventQueue, claimVars, shutVars
  <2>3. LoopFrame(t).fn = "EventLoop" /\ LoopFrame(t).at = "loop"
    BY DEF LoopFrame
  <2> QED BY <2>1, <2>2, <2>3, FineAs, PlainInto
<1>4. CASE PopEventQueue(t)
  <2>1. Basic' /\ Moved(t, "pop") /\ PendingAs
    BY <1>b, <1>4, PopEventQueueFacts
  <2>2. stk[t] # <<>> /\ Top(t).at = "loop" /\ UNCHANGED claimVars
    BY <1>4 DEF PopEventQueue, Is, claimVars, shutVars
  <2> QED BY <2>1, <2>2, FineAs, PlainMoved
<1>5. CASE RepostEvent(t)
  <2>1. Basic' /\ stk' = stk /\ PendingAs
    BY <1>b, <1>5, RepostEventFacts
  <2>2. stk[t] # <<>> /\ Top(t).at = "pop" /\ UNCHANGED claimVars
    BY <1>5 DEF RepostEvent, Is, claimVars, shutVars
  <2> QED BY <2>1, <2>2, FineAs, PlainSame
<1>6. CASE PopEventQueueDone(t)
  <2>1. Basic' /\ Left(t) /\ PendingAs
    BY <1>b, <1>6, PopEventQueueDoneFacts
  <2>2. stk[t] # <<>> /\ Top(t).fn = "EventLoop" /\ Top(t).at = "pop" /\ UNCHANGED claimVars
    BY <1>6 DEF PopEventQueueDone, Is, claimVars, shutVars, queueVars
  <2> QED BY <2>1, <2>2, FineAs, PlainLeft
<1>7. CASE RunReturns(t)
  <2>1. Basic' /\ Left(t) /\ PendingAs
    BY <1>b, <1>7, RunReturnsFacts
  <2>2. stk[t] # <<>> /\ Top(t).fn = "Run" /\ Top(t).at = "task" /\ UNCHANGED claimVars
    BY <1>7 DEF RunReturns, Is, claimVars, shutVars, queueVars
  <2> QED BY <2>1, <2>2, FineAs, PlainLeft
<1>8. CASE SyncTaskReturns(t)
  <2>1. Basic' /\ Moved(t, "reply") /\ PendingAs
    BY <1>b, <1>8, SyncTaskReturnsFacts
  <2>2. stk[t] # <<>> /\ Top(t).at = "task" /\ UNCHANGED claimVars
    BY <1>8 DEF SyncTaskReturns, Is, claimVars, shutVars, queueVars, ShuttingDown
  <2> QED BY <2>1, <2>2, FineAs, PlainMoved
<1>9. CASE SyncReply(t)
  <2>1. /\ Basic' /\ Left(t) /\ Top(t).t \in Thread
        /\ \E e \in Event : e.k = "sync" /\ e.id = Top(t).id /\ Posted(Top(t).t, e)
    BY <1>b, <1>9, SyncReplyFacts
  <2>2. stk[t] # <<>> /\ Top(t).fn = "SyncRun" /\ Top(t).at = "reply" /\ UNCHANGED claimVars
    BY <1>9 DEF SyncReply, Is, claimVars, shutVars
  <2>3. PendingFine
    BY <2>1, FinePosted
  <2> QED BY <2>1, <2>2, <2>3, PlainLeft
<1>10. CASE DispatchSyncTest(t)
  <2>1. /\ Basic' /\ PendingAs
        /\ Top(t).id \in mSyncTask => Moved(t, "wait")
        /\ Top(t).id \notin mSyncTask => Left(t)
    BY <1>b, <1>10, DispatchSyncTestFacts
  <2>2. stk[t] # <<>> /\ Top(t).fn = "Dispatch" /\ Top(t).at = "test" /\ UNCHANGED claimVars
    BY <1>10 DEF DispatchSyncTest, Is, claimVars, shutVars, queueVars
  <2> QED BY <2>1, <2>2, FineAs, PlainMoved, PlainLeft
<1>11. CASE DispatchSyncNoWait(t)
  <2>1. Basic' /\ Moved(t, "test") /\ PendingAs
    BY <1>b, <1>11, DispatchSyncNoWaitFacts
  <2>2. stk[t] # <<>> /\ Top(t).at = "wait" /\ UNCHANGED claimVars
    BY <1>11 DEF DispatchSyncNoWait, Is, claimVars, shutVars, queueVars, ShuttingDown
  <2> QED BY <2>1, <2>2, FineAs, PlainMoved
<1>12. CASE ShutdownPost(t)
  <2>1. /\ Basic' /\ Moved(t, "wait") /\ Top(t).t \in Thread
        /\ \E e \in Event : e.k = "shutdown" /\ e.t = t /\ Posted(Top(t).t, e)
    BY <1>b, <1>12, ShutdownPostFacts
  <2>2. stk[t] # <<>> /\ Top(t).fn = "Shutdown" /\ Top(t).at = "put" /\ UNCHANGED claimVars
    BY <1>12 DEF ShutdownPost, Is, claimVars, shutVars
  <2>3. Top(t).t \in known
    BY <2>2, TopClaims DEF FrameClaims
  <2>4. PendingFine
    BY <2>1, <2>3, FinePosted
  <2> QED BY <2>1, <2>2, <2>4, PlainMoved
<1>13. CASE ShutdownAcked(t)
  <2>1. Basic' /\ Moved(t, "join") /\ PendingAs
    BY <1>b, <1>13, ShutdownAckedFacts
  <2>2. stk[t] # <<>> /\ Top(t).at = "wait" /\ UNCHANGED claimVars
    BY <1>13 DEF ShutdownAcked, Is, claimVars, shutVars, queueVars, ShuttingDown
  <2> QED BY <2>1, <2>2, FineAs, PlainMoved
<1>14. CASE ShutdownJoin(t)
  <2>1. Basic' /\ Left(t) /\ PendingAs
    BY <1>b, <1>14, ShutdownJoinFacts
  <2>2. stk[t] # <<>> /\ Top(t).fn = "Shutdown" /\ Top(t).at = "join" /\ UNCHANGED claimVars
    BY <1>14 DEF ShutdownJoin, Is, claimVars, shutVars, queueVars
  <2> QED BY <2>1, <2>2, FineAs, PlainLeft
<1>15. CASE InitPutStartup(t)
  <2>1. /\ Basic' /\ Moved(t, "wait") /\ Top(t).t \in Thread
        /\ \E e \in Event : e.k = "startup" /\ PendingPlus(Top(t).t, e)
    BY <1>b, <1>15, InitPutStartupFacts
  <2>2. stk[t] # <<>> /\ Top(t).fn = "Init" /\ Top(t).at = "put" /\ UNCHANGED claimVars
    BY <1>15 DEF InitPutStartup, Is, claimVars, shutVars
  <2>3. Top(t).t \notin known
    BY <2>2, TopClaims DEF FrameClaims
  <2>4. ~mEventsAreDoomed[Top(t).t]
    BY <2>1, <2>3 DEF Orderly, DoomedRight
  <2>5. PendingFine
    BY <2>1, <2>4, FinePlus
  <2> QED BY <2>1, <2>2, <2>5, PlainMoved
<1>16. CASE ThreadStart(t)
  <2>1. Basic' /\ Moved(t, "startup") /\ PendingAs
    BY <1>b, <1>16, ThreadStartFacts
  <2>2. stk[t] # <<>> /\ Top(t).at = "start" /\ UNCHANGED claimVars
    BY <1>16 DEF ThreadStart, Is, claimVars, shutVars, queueVars, ShuttingDown
  <2> QED BY <2>1, <2>2, FineAs, PlainMoved
<1>17. CASE LeaveLoop(t)
  <2>1. Basic' /\ Moved(t, "drain") /\ PendingAs
    BY <1>b, <1>17, LeaveLoopFacts
  <2>2. stk[t] # <<>> /\ Top(t).at = "loop" /\ UNCHANGED claimVars /\ mShutdownContext[t] # NoThread
    BY <1>17 DEF LeaveLoop, Is, claimVars, shutVars, queueVars, ShuttingDown
  <2> QED BY <2>1, <2>2, FineAs, PlainMoved
<1>18. CASE DrainMore(t)
  <2>1. /\ Basic' /\ PendingAs
        /\ \/ Is(t, "ThreadFunc", "drain") /\ Moved(t, "pending")
           \/ Is(t, "ThreadFunc", "pending") /\ Moved(t, "drain")
    BY <1>b, <1>18, DrainMoreFacts
  <2>2. stk[t] # <<>> /\ Top(t).at \in {"drain", "pending"} /\ UNCHANGED claimVars
    BY <2>1, <1>18 DEF DrainMore, Is, claimVars, shutVars, queueVars
  <2>3. mShutdownContext[t] # NoThread
    BY <2>2, TopClaims
  <2> QED BY <2>1, <2>2, <2>3, FineAs, PlainMoved
<1> QED BY <1>1, <1>2, <1>3, <1>4, <1>5, <1>6, <1>7, <1>8, <1>9, <1>10, <1>11, <1>12, <1>13,
            <1>14, <1>15, <1>16, <1>17, <1>18

LEMMA TakingKeeps ==
  ASSUME Orderly, NEW t \in Thread, NEW at \in At, Taking(t, at)
  PROVE  Basic' /\ Claims' /\ DoomedRight'
<1> DEFINE e == NextEvent(t)
           f == RunFrame(t, e)
<1>b. Basic
  BY DEF Orderly
<1>1. /\ Basic' /\ e \in Event /\ PendingTaken(t, e)
      /\ Runs(e) => MovedInto(t, at, f)
      /\ ~Runs(e) => Moved(t, at)
  BY <1>b, TakingFacts
<1>2. f.fn \in {"Run", "SyncRun"} /\ f.at = "task"
  BY DEF RunFrame
<1>3. /\ stk[t] # <<>> /\ Top(t).at \notin Gone /\ at \notin Gone
      /\ at \in Late => Top(t).at = "pending"
  BY DEF Taking, Gone, Late
<1>4. /\ UNCHANGED <<known, mShutdownRequired, mEventsAreDoomed>>
      /\ mShutdownContext' = IF e.k = "shutdown" THEN [mShutdownContext EXCEPT ![t] = e.t]
                                                 ELSE mShutdownContext
  BY DEF Taking, TakeAndRun, RunEvent
<1> HIDE DEF e, f
<1>5. stk'[t] # <<>> /\ (\A v \in Thread \ {t} : stk'[v] = stk[v]) /\ Grown(t, at, f)
  <2>1. CASE Runs(e)
    BY <1>b, <1>1, <1>3, <2>1, MovedIntoFrames DEF MovedInto, Basic
  <2>2. CASE ~Runs(e)
    BY <1>b, <1>1, <1>3, <2>2, MovedFrames, CarriedGrows DEF Moved, Basic
  <2> QED BY <2>1, <2>2
<1>6. at \in Late => mShutdownContext[t] # NoThread
  BY <1>3, TopClaims DEF Late
<1>7. e \in Pending(t) /\ (e.k = "shutdown" => t \in known) /\ e.t \in Thread /\ e.t # NoThread
  BY <1>1, ThreadConstants DEF PendingTaken, Orderly, Claims, OnlyKnown, Event
<1>8. \A v \in Thread : /\ mShutdownContext[v] # NoThread => mShutdownContext'[v] # NoThread
                        /\ mShutdownContext'[v] # NoThread => v \in known
  <2>1. \A v \in Thread : mShutdownContext[v] # NoThread => v \in known
    BY DEF Orderly, Claims, OnlyKnown
  <2>2. mShutdownContext \in [Thread -> Thread \cup {NoThread}]
    BY <1>b DEF Basic, TypeOK
  <2> QED BY <1>4, <1>7, <2>1, <2>2
<1>9. PendingFine
  BY <1>1, FineTaken
<1>10. Plain(t, at, f)
  BY <1>2, <1>3, <1>4, <1>5, <1>6, <1>8, <1>9 DEF Plain, PendingFine, Late
<1> QED BY <1>1, <1>10, PlainKeeps

LEMMA NewThreadKeeps ==
  ASSUME Orderly, NEW t \in Thread, NEW u \in Thread, NewThread(t, u)
  PROVE  Basic' /\ Claims' /\ DoomedRight'
<1>b. Basic
  BY DEF Orderly
<1>1. Basic' /\ Created(t, u) /\ PendingAs
  BY <1>b, NewThreadStep
<1>2. /\ u # Main /\ ~mShutdownRequired[u] /\ u \notin known
      /\ mShutdownRequired' = [mShutdownRequired EXCEPT ![u] = TRUE]
      /\ known' = known /\ mEventsAreDoomed' = mEventsAreDoomed /\ mShutdownContext' = mShutdownContext
  BY DEF NewThread, queueVars
<1>3. /\ InitFrame(t, u).fn = "Init" /\ InitFrame(t, u).at = "put" /\ InitFrame(t, u).t = u
      /\ FirstFrame(u).fn = "ThreadFunc" /\ FirstFrame(u).at = "start"
  BY DEF InitFrame, FirstFrame
<1>4. \A v \in Thread : \A i \in DOMAIN stk'[v] :
        \/ FromOld(v, i, t, "put")
        \/ v = t /\ i = Len(stk[t]) + 1 /\ stk'[v][i] = InitFrame(t, u)
        \/ v = u /\ stk'[v][i] = FirstFrame(u)
  BY <1>b, <1>1, CreatedFrames DEF Basic
<1>5. mShutdownRequired \in [Thread -> BOOLEAN]
  BY <1>b DEF Basic, TypeOK
<1>6. stk'[u] # <<>> /\ \A v \in Thread : stk[v] # <<>> => stk'[v] # <<>>
  BY <1>1 DEF Created
<1>7. ASSUME NEW v \in Thread, NEW i \in DOMAIN stk[v], stk[v][i].fn \in {"Init", "Shutdown"}
      PROVE  /\ stk[v][i].t \in Thread \ {u} /\ FrameClaims(stk[v][i])
  <2>1. FrameClaims(stk[v][i]) /\ stk[v][i].t \in Thread
    BY <1>b, StackType DEF Orderly, Claims, FramesClaim, Basic, Frame
  <2> QED BY <1>2, <1>7, <2>1 DEF FrameClaims
<1>8. FramesClaim'
  <2> SUFFICES ASSUME NEW v \in Thread, NEW i \in DOMAIN stk'[v]
               PROVE  FrameClaims(stk[v][i])'
    BY DEF FramesClaim
  <2>1. CASE stk'[v][i].fn \notin {"Init", "Shutdown"}
    BY <2>1 DEF FrameClaims
  <2>2. CASE stk'[v][i] = InitFrame(t, u)
    BY <1>2, <1>3, <1>5, <1>6, <2>2 DEF FrameClaims
  <2>3. CASE FromOld(v, i, t, "put") /\ stk'[v][i].fn \in {"Init", "Shutdown"}
    <3>1. /\ i \in DOMAIN stk[v] /\ stk'[v][i].fn = stk[v][i].fn /\ stk'[v][i].t = stk[v][i].t
      BY <2>3 DEF FromOld
    <3>2. stk[v][i].t \in Thread \ {u} /\ FrameClaims(stk[v][i])
      BY <1>7, <2>3, <3>1
    <3> QED BY <1>2, <1>5, <1>6, <3>1, <3>2 DEF FrameClaims
  <2> QED BY <1>3, <1>4, <2>1, <2>2, <2>3
<1>9. OneClaim'
  <2> SUFFICES ASSUME NEW v \in Thread, NEW w \in Thread, NEW i \in DOMAIN stk'[v], NEW j \in DOMAIN stk'[w],
                      stk'[v][i].fn \in {"Init", "Shutdown"}, stk'[v][i].fn = stk'[w][j].fn,
                      stk'[v][i].t = stk'[w][j].t
               PROVE  v = w /\ i = j
    BY DEF OneClaim
  <2>1. CASE FromOld(v, i, t, "put") /\ FromOld(w, j, t, "put")
    <3>1. /\ i \in DOMAIN stk[v] /\ j \in DOMAIN stk[w] /\ stk[v][i].fn \in {"Init", "Shutdown"}
          /\ stk[v][i].fn = stk[w][j].fn /\ stk[v][i].t = stk[w][j].t
      BY <2>1 DEF FromOld
    <3>2. OneClaim
      BY DEF Orderly, Claims
    <3> QED BY <3>1, <3>2 DEF OneClaim
  <2>2. CASE FromOld(v, i, t, "put") /\ stk'[w][j] = InitFrame(t, u)
    BY <1>3, <1>7, <2>2 DEF FromOld
  <2>3. CASE FromOld(w, j, t, "put") /\ stk'[v][i] = InitFrame(t, u)
    BY <1>3, <1>7, <2>3 DEF FromOld
  <2>4. CASE /\ v = t /\ i = Len(stk[t]) + 1
             /\ w = t /\ j = Len(stk[t]) + 1
    BY <2>4
  <2> QED BY <1>3, <1>4, <2>1, <2>2, <2>3, <2>4
<1>10. OnlyKnown'
  <2>1. OnlyKnown /\ Main \in known /\ ~mShutdownRequired'[Main]
    BY <1>2, <1>5, ThreadConstants DEF Orderly, Claims, OnlyKnown
  <2>2. \A v \in Thread : mShutdownContext[v] # NoThread => v \in known
    BY <2>1 DEF OnlyKnown
  <2>3. \A v \in Thread : \A x \in Pending(v)' : x \in Pending(v)
    BY <1>1 DEF PendingAs
  <2>4. \A v \in Thread : \A i \in DOMAIN stk'[v] : stk'[v][i].at \in Late =>
           i \in DOMAIN stk[v] /\ stk[v][i].at \in Late
    BY <1>3, <1>4 DEF FromOld, Late
  <2> QED BY <1>b, <1>2, <2>1, <2>2, <2>3, <2>4, OnlyKnownKept
<1>11. DoomedRight'
  <2>1. stk[t] # <<>> /\ Top(t).at \notin Gone
    BY <1>b, ClientCode DEF NewThread, Gone
  <2>2. ~mEventsAreDoomed[t] /\ ~mEventsAreDoomed[u]
    BY <1>2, <2>1, ActorNotDoomed DEF Orderly, DoomedRight
  <2>3. \A v \in Thread : mEventsAreDoomed[v] => stk'[v] = stk[v] /\ Pending(v)' \subseteq Pending(v)
    BY <1>1, <2>2 DEF Created, PendingAs
  <2>4. \A v \in Thread : \A i \in DOMAIN stk'[v] : stk'[v][i].at \in Gone =>
           i \in DOMAIN stk[v] /\ stk[v][i].at \in Gone
    BY <1>3, <1>4 DEF FromOld, Gone
  <2>5. \A v \in Thread : v \in known' /\ stk'[v] = <<>> => v \in known /\ stk[v] = <<>>
    BY <1>2, <1>6
  <2> QED BY <1>b, <1>2, <2>3, <2>4, <2>5, DoomedKept DEF Orderly
<1> QED BY <1>1, <1>8, <1>9, <1>10, <1>11 DEF Claims

LEMMA ClaimingKeeps ==
  ASSUME Orderly, NEW t \in Thread, NEW u \in Thread, Claiming(t, u)
  PROVE  Basic' /\ Claims' /\ DoomedRight'
<1> DEFINE f == ShutdownFrame(t, u)
<1>b. Basic
  BY DEF Orderly
<1>1. Basic' /\ MovedInto(t, Top(t).at, f) /\ PendingAs
  BY <1>b, ClaimingFacts
<1>2. /\ mShutdownRequired[u] /\ u \in known
      /\ mShutdownRequired' = [mShutdownRequired EXCEPT ![u] = FALSE]
      /\ known' = known /\ mEventsAreDoomed' = mEventsAreDoomed /\ mShutdownContext' = mShutdownContext
  BY DEF Claiming, Claim, queueVars
<1>3. f.fn = "Shutdown" /\ f.at = "put" /\ f.t = u
  BY DEF ShutdownFrame
<1> HIDE DEF f
<1>4. stk[t] # <<>> /\ Top(t).at \in {"loop", "task"}
  BY <1>b, ClientCode DEF Claiming
<1>5. Grown(t, Top(t).at, f)
  BY <1>b, <1>1, <1>4, MovedIntoFrames DEF Basic
<1>6. mShutdownRequired \in [Thread -> BOOLEAN]
  BY <1>b DEF Basic, TypeOK
<1>7. OnlyKnown /\ OneClaim
  BY DEF Orderly, Claims
<1>8. u # Main
  BY <1>2, <1>7 DEF OnlyKnown
<1>9. stk'[t] # <<>> /\ \A v \in Thread \ {t} : stk'[v] = stk[v]
  BY <1>1 DEF MovedInto
<1>10. ASSUME NEW v \in Thread, NEW i \in DOMAIN stk[v], stk[v][i].fn \in {"Init", "Shutdown"}
       PROVE  /\ stk[v][i].t \in Thread \ {u} /\ FrameClaims(stk[v][i])
  <2>1. FrameClaims(stk[v][i]) /\ stk[v][i].t \in Thread
    BY <1>b, StackType DEF Orderly, Claims, FramesClaim, Basic, Frame
  <2> QED BY <1>2, <1>10, <2>1 DEF FrameClaims
<1>11. FramesClaim'
  <2> SUFFICES ASSUME NEW v \in Thread, NEW i \in DOMAIN stk'[v]
               PROVE  FrameClaims(stk[v][i])'
    BY DEF FramesClaim
  <2>1. CASE stk'[v][i].fn \notin {"Init", "Shutdown"}
    BY <2>1 DEF FrameClaims
  <2>2. CASE stk'[v][i] = f
    BY <1>2, <1>3, <1>6, <1>8, <2>2 DEF FrameClaims
  <2>3. CASE FromOld(v, i, t, Top(t).at) /\ stk'[v][i].fn \in {"Init", "Shutdown"}
    <3>1. /\ i \in DOMAIN stk[v] /\ stk'[v][i].fn = stk[v][i].fn /\ stk'[v][i].t = stk[v][i].t
      BY <2>3 DEF FromOld
    <3>2. stk[v][i].t \in Thread \ {u} /\ FrameClaims(stk[v][i])
      BY <1>10, <2>3, <3>1
    <3> QED BY <1>2, <1>6, <1>9, <3>1, <3>2 DEF FrameClaims
  <2> QED BY <1>5, <2>1, <2>2, <2>3 DEF Grown
<1>12. OneClaim'
  <2> SUFFICES ASSUME NEW v \in Thread, NEW w \in Thread, NEW i \in DOMAIN stk'[v], NEW j \in DOMAIN stk'[w],
                      stk'[v][i].fn \in {"Init", "Shutdown"}, stk'[v][i].fn = stk'[w][j].fn,
                      stk'[v][i].t = stk'[w][j].t
               PROVE  v = w /\ i = j
    BY DEF OneClaim
  <2>1. CASE FromOld(v, i, t, Top(t).at) /\ FromOld(w, j, t, Top(t).at)
    <3>1. /\ i \in DOMAIN stk[v] /\ j \in DOMAIN stk[w] /\ stk[v][i].fn \in {"Init", "Shutdown"}
          /\ stk[v][i].fn = stk[w][j].fn /\ stk[v][i].t = stk[w][j].t
      BY <2>1 DEF FromOld
    <3> QED BY <1>7, <3>1 DEF OneClaim
  <2>2. CASE FromOld(v, i, t, Top(t).at) /\ stk'[w][j] = f
    BY <1>3, <1>10, <2>2 DEF FromOld
  <2>3. CASE FromOld(w, j, t, Top(t).at) /\ stk'[v][i] = f
    BY <1>3, <1>10, <2>3 DEF FromOld
  <2>4. CASE /\ v = t /\ i = Len(stk[t]) + 1
             /\ w = t /\ j = Len(stk[t]) + 1
    BY <2>4
  <2> QED BY <1>5, <2>1, <2>2, <2>3, <2>4 DEF Grown
<1>13. OnlyKnown'
  <2>1. Main \in known /\ ~mShutdownRequired'[Main]
    BY <1>2, <1>6, <1>7, <1>8, ThreadConstants DEF OnlyKnown
  <2>2. \A v \in Thread : mShutdownContext[v] # NoThread => v \in known
    BY <1>7 DEF OnlyKnown
  <2>3. \A v \in Thread : \A x \in Pending(v)' : x \in Pending(v)
    BY <1>1 DEF PendingAs
  <2>4. \A v \in Thread : \A i \in DOMAIN stk'[v] : stk'[v][i].at \in Late =>
           i \in DOMAIN stk[v] /\ stk[v][i].at \in Late
    BY <1>3, <1>4, <1>5 DEF Grown, FromOld, Late
  <2> QED BY <1>b, <1>2, <1>7, <2>1, <2>2, <2>3, <2>4, OnlyKnownKept
<1>14. DoomedRight'
  <2>1. ~mEventsAreDoomed[t]
    BY <1>4, ActorNotDoomed DEF Orderly, Gone
  <2>2. \A v \in Thread : mEventsAreDoomed[v] => stk'[v] = stk[v] /\ Pending(v)' \subseteq Pending(v)
    BY <1>1, <1>9, <2>1 DEF PendingAs
  <2>3. \A v \in Thread : \A i \in DOMAIN stk'[v] : stk'[v][i].at \in Gone =>
           i \in DOMAIN stk[v] /\ stk[v][i].at \in Gone
    BY <1>3, <1>4, <1>5 DEF Grown, FromOld, Gone
  <2>4. \A v \in Thread : v \in known' /\ stk'[v] = <<>> => v \in known /\ stk[v] = <<>>
    BY <1>2, <1>9
  <2> QED BY <1>b, <1>2, <2>2, <2>3, <2>4, DoomedKept DEF Orderly
<1> QED BY <1>1, <1>11, <1>12, <1>13, <1>14 DEF Claims

LEMMA InitDoneKeeps ==
  ASSUME Orderly, NEW t \in Thread, InitDone(t)
  PROVE  Basic' /\ Claims' /\ DoomedRight'
<1> DEFINE u == Top(t).t
           n == Len(stk[t])
<1>b. Basic
  BY DEF Orderly
<1>1. Basic' /\ Left(t) /\ PendingAs
  BY <1>b, InitDoneFacts
<1>2. /\ stk[t] # <<>> /\ Top(t).fn = "Init" /\ Top(t).at = "wait"
      /\ known' = known \cup {u} /\ mShutdownRequired' = mShutdownRequired
      /\ mEventsAreDoomed' = mEventsAreDoomed /\ mShutdownContext' = mShutdownContext
  BY DEF InitDone, Is, queueVars, shutVars
<1>3. u \in Thread /\ u \notin known /\ mShutdownRequired[u] /\ stk[u] # <<>>
  BY <1>2, TopClaims DEF FrameClaims
<1>4. stk'[t] # <<>> /\ \A v \in Thread \ {t} : stk'[v] = stk[v]
  BY <1>b, <1>1, <1>2, LeftRunning DEF Left
<1>5. Carried(t, "wait") /\ n \notin DOMAIN stk'[t]
  <2>1. Carried(t, "wait")
    BY <1>b, <1>1, <1>2, LeftFrames DEF Basic
  <2>2. DOMAIN stk'[t] = 1 .. n - 1 /\ n \in Nat
    BY <1>1, <1>b, StackType DEF Left, Basic
  <2> HIDE DEF n
  <2>3. n \notin 1 .. n - 1
    BY <2>2
  <2> QED BY <2>1, <2>2, <2>3
<1>6. n \in DOMAIN stk[t] /\ stk[t][n] = Top(t)
  BY <1>b, <1>2, TopShape DEF Basic
<1>7. OnlyKnown /\ OneClaim /\ FramesClaim
  BY DEF Orderly, Claims
<1>8. stk[t][n].fn = "Init" /\ stk[t][n].t = u
  BY <1>2, <1>6
<1> HIDE DEF u, n
<1>9. ASSUME NEW v \in Thread, NEW i \in DOMAIN stk'[v], stk'[v][i].fn = "Init"
      PROVE  stk'[v][i].t # u
  <2>1. FromOld(v, i, t, "wait")
    BY <1>5 DEF Carried
  <2>2. i \in DOMAIN stk[v] /\ stk[v][i].fn = "Init" /\ stk'[v][i].t = stk[v][i].t
    BY <1>9, <2>1 DEF FromOld
  <2>3. ~(v = t /\ i = n)
    BY <1>5
  <2> QED BY <1>6, <1>7, <1>8, <2>2, <2>3 DEF OneClaim
<1>10. FramesClaim'
  <2> SUFFICES ASSUME NEW v \in Thread, NEW i \in DOMAIN stk'[v]
               PROVE  FrameClaims(stk[v][i])'
    BY DEF FramesClaim
  <2>1. FromOld(v, i, t, "wait")
    BY <1>5 DEF Carried
  <2>2. i \in DOMAIN stk[v] /\ stk'[v][i].fn = stk[v][i].fn /\ stk'[v][i].t = stk[v][i].t
    BY <2>1 DEF FromOld
  <2>3. FrameClaims(stk[v][i]) /\ stk[v][i].t \in Thread
    BY <1>b, <1>7, <2>2, StackType DEF FramesClaim, Basic, Frame
  <2> QED BY <1>2, <1>4, <1>9, <2>2, <2>3 DEF FrameClaims
<1>11. OneClaim'
  <2>1. \A v \in Thread : \A i \in DOMAIN stk'[v] :
          i \in DOMAIN stk[v] /\ stk'[v][i].fn = stk[v][i].fn /\ stk'[v][i].t = stk[v][i].t
    BY <1>5 DEF Carried, FromOld
  <2> QED BY <1>7, <2>1 DEF OneClaim
<1>12. OnlyKnown'
  <2>1. Main \in known /\ ~mShutdownRequired'[Main]
    BY <1>2, <1>7 DEF OnlyKnown
  <2>2. \A v \in Thread : mShutdownContext[v] # NoThread => v \in known
    BY <1>7 DEF OnlyKnown
  <2>3. \A v \in Thread : \A x \in Pending(v)' : x \in Pending(v)
    BY <1>1 DEF PendingAs
  <2>4. \A v \in Thread : \A i \in DOMAIN stk'[v] : stk'[v][i].at \in Late =>
           i \in DOMAIN stk[v] /\ stk[v][i].at \in Late
    BY <1>5 DEF Carried, FromOld, Late
  <2> QED BY <1>b, <1>2, <1>7, <2>1, <2>2, <2>3, <2>4, OnlyKnownKept
<1>13. DoomedRight'
  <2>1. ~mEventsAreDoomed[t]
    BY <1>2, ActorNotDoomed DEF Orderly, Gone
  <2>2. \A v \in Thread : mEventsAreDoomed[v] => stk'[v] = stk[v] /\ Pending(v)' \subseteq Pending(v)
    BY <1>1, <1>4, <2>1 DEF PendingAs
  <2>3. \A v \in Thread : \A i \in DOMAIN stk'[v] : stk'[v][i].at \in Gone =>
           i \in DOMAIN stk[v] /\ stk[v][i].at \in Gone
    BY <1>5 DEF Carried, FromOld, Gone
  <2>4. \A v \in Thread : v \in known' /\ stk'[v] = <<>> => v \in known /\ stk[v] = <<>>
    BY <1>2, <1>3, <1>4
  <2>5. known \subseteq known'
    BY <1>2
  <2> QED BY <1>b, <1>2, <2>2, <2>3, <2>4, <2>5, DoomedKept DEF Orderly
<1> QED BY <1>1, <1>10, <1>11, <1>12, <1>13 DEF Claims

(* The last steps of ThreadFunc. *)
LEMMA EndingClaims ==
  ASSUME Orderly, NEW t \in Thread, stk[t] # <<>>, Top(t).at \in Late, NEW at, Carried(t, at),
         \A v \in Thread \ {t} : stk'[v] = stk[v],
         UNCHANGED <<known, mShutdownRequired, mShutdownContext>>, PendingFine
  PROVE  Claims'
<1>1. mShutdownContext[t] # NoThread /\ t \in known
  BY TopClaims
<1>2. FirstFrame(t).fn = "ThreadFunc" /\ Grown(t, at, FirstFrame(t))
  BY CarriedGrows DEF FirstFrame
<1>3. FramesClaim' /\ OneClaim'
  BY <1>1, <1>2, ClaimsKept DEF Orderly
<1>4. OnlyKnown'
  <2>1. OnlyKnown /\ Main \in known /\ ~mShutdownRequired[Main]
    BY DEF Orderly, Claims, OnlyKnown
  <2>2. \A v \in Thread : mShutdownContext[v] # NoThread => v \in known
    BY <2>1 DEF OnlyKnown
  <2>3. \A v \in Thread : \A i \in DOMAIN stk'[v] : stk'[v][i].at \in Late =>
           (i \in DOMAIN stk[v] /\ stk[v][i].at \in Late) \/ mShutdownContext[v] # NoThread
    BY <1>1 DEF Carried, FromOld
  <2> QED BY <2>1, <2>2, <2>3, OnlyKnownKept DEF Orderly, PendingFine
<1> QED BY <1>3, <1>4 DEF Claims

LEMMA EmptyChain ==
  ASSUME Basic, NEW t \in Thread, Is(t, "ThreadFunc", "drain"), ~HasPendingEvent(t)
  PROVE  Pending(t) = {}
<1>1. stk[t] # <<>> /\ Top(t).fn = "ThreadFunc" /\ Top(t).at = "drain"
  BY DEF Is
<1>2. Len(mEvents[t]) = 1 /\ popped[t] = <<>>
  BY <1>1, TopShape, NothingPopped DEF Basic
<1>3. mEvents[t][1].q = <<>> /\ mEvents[t] \in Seq(ChainedQueue)
  BY <1>2, ChainType DEF HasPendingEvent, Newest, Basic
<1>4. Range(<<>>) = {}
  BY EmptySeq DEF Range
<1>5. \A x : x \in Pending(t) <=> x \in Range(popped[t]) \/ \E i \in 1 .. 1 : x \in Range(mEvents[t][i].q)
  BY <1>2, <1>3, PendingMeans DEF Pending
<1> QED BY <1>2, <1>3, <1>4, <1>5

LEMMA DoomKeeps ==
  ASSUME Orderly, NEW t \in Thread, Doom(t)
  PROVE  Basic' /\ Claims' /\ DoomedRight'
<1>b. Basic
  BY DEF Orderly
<1>1. Basic' /\ Moved(t, "gone") /\ PendingAs
  BY <1>b, DoomFacts
<1>2. /\ Is(t, "ThreadFunc", "drain") /\ ~HasPendingEvent(t)
      /\ stk[t] # <<>> /\ Top(t).fn = "ThreadFunc" /\ Top(t).at = "drain"
      /\ mEventsAreDoomed' = [mEventsAreDoomed EXCEPT ![t] = TRUE]
      /\ UNCHANGED <<known, mShutdownRequired, mShutdownContext>>
  BY DEF Doom, Is, shutVars
<1>3. mEventsAreDoomed \in [Thread -> BOOLEAN]
  BY <1>b DEF Basic, TypeOK
<1>4. Carried(t, "gone") /\ (\A v \in Thread \ {t} : stk'[v] = stk[v]) /\ stk'[t] # <<>>
  BY <1>b, <1>1, <1>2, MovedFrames DEF Basic, Moved
<1>5. Claims'
  BY <1>1, <1>2, <1>4, EndingClaims, FineAs DEF Late
<1>6. t \in known
  BY <1>2, TopClaims DEF Late
<1>7. t # Main /\ Len(stk[t]) = 1
  <2>1. Len(stk[t]) = 1 /\ FrameShape(t, Len(stk[t])) /\ Top(t) = stk[t][Len(stk[t])]
    BY <1>b, <1>2, TopShape DEF Basic
  <2> QED BY <1>2, <2>1 DEF FrameShape
<1>8. Pending(t)' = {}
  BY <1>b, <1>1, <1>2, EmptyChain DEF PendingAs
<1>9. Len(stk'[t]) = 1 /\ Top(t)'.at = "gone"
  BY <1>1, <1>7 DEF Moved, Top
<1>10. DoomedRight
  BY DEF Orderly
<1>11. ASSUME NEW v \in Thread, mEventsAreDoomed'[v]
       PROVE  /\ v \in known' \ {Main} /\ Pending(v)' = {}
              /\ stk'[v] # <<>> => Len(stk'[v]) = 1 /\ Top(v)'.at \in Gone
  <2>1. CASE v = t
    BY <1>2, <1>6, <1>7, <1>8, <1>9, <2>1 DEF Gone
  <2>2. CASE v # t
    <3>1. mEventsAreDoomed[v] /\ stk'[v] = stk[v] /\ Pending(v)' = Pending(v)
      BY <1>1, <1>2, <1>3, <1>4, <1>11, <2>2 DEF PendingAs
    <3> QED BY <1>2, <1>10, <3>1 DEF DoomedRight, Top
  <2> QED BY <2>1, <2>2
<1>12. ASSUME NEW v \in Thread, v \in known', stk'[v] = <<>> PROVE mEventsAreDoomed'[v]
  <2>1. v # t /\ v \in known /\ stk[v] = <<>>
    BY <1>2, <1>4, <1>12
  <2> QED BY <1>2, <1>3, <1>10, <2>1 DEF DoomedRight
<1>13. ASSUME NEW v \in Thread, NEW i \in DOMAIN stk'[v], stk'[v][i].at \in Gone
       PROVE  mEventsAreDoomed'[v]
  <2>1. CASE v = t
    BY <1>2, <1>3, <2>1
  <2>2. CASE v # t
    <3>1. stk'[v] = stk[v] /\ mEventsAreDoomed'[v] = mEventsAreDoomed[v]
      BY <1>2, <1>3, <1>4, <2>2
    <3> QED BY <1>10, <1>13, <3>1 DEF DoomedRight
  <2> QED BY <2>1, <2>2
<1>14. DoomedRight'
  BY <1>11, <1>12, <1>13 DEF DoomedRight
<1> QED BY <1>1, <1>5, <1>14

(* What a doomed thread still does. *)
LEMMA GoneKeeps ==
  ASSUME Orderly, NEW t \in Thread, Unregister(t) \/ DispatchAck(t) \/ ThreadExit(t)
  PROVE  Basic' /\ Claims' /\ DoomedRight'
<1> USE DEF Gone, Late
<1>b. Basic /\ DoomedRight
  BY DEF Orderly
<1>1. /\ stk[t] # <<>> /\ Top(t).fn = "ThreadFunc" /\ Top(t).at \in Gone
      /\ UNCHANGED <<known, mShutdownRequired, mShutdownContext, mEventsAreDoomed>>
  BY DEF Unregister, DispatchAck, ThreadExit, Is, queueVars, shutVars
<1>2. mEventsAreDoomed[t] /\ t \in known /\ mShutdownContext[t] # NoThread
  BY <1>1, TopClaims
<1>3. t # Main /\ Pending(t) = {} /\ Len(stk[t]) = 1
  BY <1>b, <1>1, <1>2 DEF DoomedRight
<1>4. /\ Basic' /\ PendingFine /\ (Carried(t, "bye") \/ Carried(t, "ack"))
      /\ \A v \in Thread \ {t} : stk'[v] = stk[v]
      /\ stk'[t] # <<>> => Len(stk'[t]) = 1 /\ Top(t)'.at \in Gone
  <2>1. CASE Unregister(t)
    <3>1. Basic' /\ Moved(t, "ack") /\ PendingAs
      BY <1>b, <2>1, UnregisterFacts
    <3>2. Carried(t, "ack")
      BY <1>b, <1>1, <3>1, MovedFrames DEF Basic
    <3>3. Len(stk'[t]) = 1 /\ Top(t)'.at \in Gone
      BY <1>3, <3>1 DEF Moved, Top
    <3> QED BY <3>1, <3>2, <3>3, FineAs DEF Moved
  <2>2. CASE DispatchAck(t)
    <3>1. /\ Basic' /\ Moved(t, "bye") /\ mShutdownContext[t] \in Thread
          /\ \E e \in Event : e.k = "ack" /\ e.t = t /\ Posted(mShutdownContext[t], e)
      BY <1>b, <1>2, <2>2, DispatchAckFacts
    <3>2. Carried(t, "bye")
      BY <1>b, <1>1, <3>1, MovedFrames DEF Basic
    <3>3. Len(stk'[t]) = 1 /\ Top(t)'.at \in Gone
      BY <1>3, <3>1 DEF Moved, Top
    <3>4. PendingFine
      BY <3>1, FinePosted
    <3> QED BY <3>1, <3>2, <3>3, <3>4 DEF Moved
  <2>3. CASE ThreadExit(t)
    <3>1. Basic' /\ Left(t) /\ PendingAs
      BY <1>b, <2>3, ThreadExitFacts
    <3>2. Carried(t, "bye")
      BY <1>b, <1>1, <3>1, LeftFrames DEF Basic
    <3>3. stk'[t] = <<>>
      <4>1. stk'[t] \in Seq(Frame) /\ Len(stk'[t]) = 0
        BY <1>3, <3>1 DEF Left
      <4> QED BY <4>1, EmptySeq
    <3> QED BY <3>1, <3>2, <3>3, FineAs DEF Left
  <2> QED BY <2>1, <2>2, <2>3
<1>5. Claims'
  BY <1>1, <1>4, EndingClaims
<1>6. ASSUME NEW v \in Thread, mEventsAreDoomed[v]
      PROVE  /\ v \in known' \ {Main} /\ Pending(v)' = {}
             /\ stk'[v] # <<>> => Len(stk'[v]) = 1 /\ Top(v)'.at \in Gone
  <2>1. v \in known \ {Main} /\ Pending(v) = {} /\ Pending(v)' \subseteq Pending(v)
    BY <1>b, <1>4, <1>6 DEF DoomedRight, PendingFine
  <2>2. CASE v = t
    BY <1>1, <1>4, <2>1, <2>2
  <2>3. CASE v # t
    <3>1. stk'[v] = stk[v]
      BY <1>4, <2>3
    <3> QED BY <1>b, <1>1, <1>6, <2>1, <3>1 DEF DoomedRight, Top
  <2> QED BY <2>2, <2>3
<1>7. ASSUME NEW v \in Thread, v \in known', stk'[v] = <<>> PROVE mEventsAreDoomed[v]
  BY <1>b, <1>1, <1>2, <1>4, <1>7 DEF DoomedRight
<1>8. ASSUME NEW v \in Thread, NEW i \in DOMAIN stk'[v], stk'[v][i].at \in Gone
      PROVE  mEventsAreDoomed[v]
  BY <1>b, <1>2, <1>4, <1>8 DEF DoomedRight
<1>9. DoomedRight'
  BY <1>1, <1>6, <1>7, <1>8 DEF DoomedRight
<1> QED BY <1>4, <1>5, <1>9
--------------------------------------------------------------------------------
(* The first states *)

LEMMA InitBasic ==
  ASSUME Init
  PROVE  /\ TypeOK /\ Shape
         /\ \A t \in Thread : Pending(t) = {} /\ mShutdownContext[t] = NoThread
         /\ \A t \in Thread \ {Main} : stk[t] = <<>>
         /\ Len(stk[Main]) = 1 /\ DOMAIN stk[Main] = {1} /\ stk[Main] # <<>>
         /\ stk[Main][1].fn = "app" /\ stk[Main][1].at = "loop"
<1> DEFINE f == [fn |-> "app", at |-> "loop", id |-> 0, t |-> Main, lvl |-> 1]
<1>1. Root \in ChainedQueue /\ Root.q = <<>> /\ Root.filter = Kind
  BY EmptySeq DEF Root, ChainedQueue
<1>2. f \in Frame /\ f.fn = "app" /\ f.at = "loop" /\ f.lvl = 1
  BY ThreadConstants DEF Frame, Fn, At
<1> HIDE DEF f
<1>3. <<Root>> \in Seq(ChainedQueue) /\ Len(<<Root>>) = 1 /\ <<Root>> # <<>> /\ <<Root>>[1] = Root
  BY <1>1
<1>4. <<f>> \in Seq(Frame) /\ Len(<<f>>) = 1 /\ <<f>> # <<>> /\ <<f>>[1] = f /\ DOMAIN <<f>> = {1}
  BY <1>2
<1>5. /\ mEvents = [t \in Thread |-> <<Root>>]
      /\ stk = [t \in Thread |-> IF t = Main THEN <<f>> ELSE <<>>]
  BY DEF Init, f
<1>6. TypeOK
  <2>1. mEvents \in [Thread -> Seq(ChainedQueue)]
    BY <1>3, <1>5
  <2>2. stk \in [Thread -> Seq(Frame)]
    BY <1>4, <1>5, EmptySeq
  <2>3. popped \in [Thread -> Seq(Event)]
    BY EmptySeq DEF Init
  <2> QED BY <2>1, <2>2, <2>3, ThreadConstants DEF Init, TypeOK
<1>7. \A t \in Thread : mEvents[t] = <<Root>> /\ popped[t] = <<>>
  BY <1>5 DEF Init
<1>8. stk[Main] = <<f>> /\ \A t \in Thread \ {Main} : stk[t] = <<>>
  BY <1>5, ThreadConstants
<1>9. ASSUME NEW t \in Thread PROVE Pending(t) = {}
  <2>1. \A x : x \in Pending(t) <=> x \in Range(<<>>) \/ \E i \in 1 .. 1 : x \in Range(<<Root>>[i].q)
    BY <1>3, <1>7, PendingMeans DEF Pending
  <2>2. Range(<<>>) = {}
    BY EmptySeq DEF Range
  <2> QED BY <1>1, <1>3, <2>1, <2>2
<1>10. Shape
  <2>1. ASSUME NEW t \in Thread PROVE ChainShape(t)
    BY <1>1, <1>2, <1>3, <1>4, <1>7, <1>8 DEF ChainShape, Top
  <2>2. ASSUME NEW t \in Thread, NEW i \in DOMAIN stk[t] PROVE FrameShape(t, i)
    <3>1. t = Main
      BY <1>8, EmptySeq
    <3>2. i = 1 /\ stk[t][i] = f
      BY <1>4, <1>8, <3>1
    <3>3. "loop" \in Places["app"]
      BY DEF Places
    <3> QED BY <1>2, <3>1, <3>2, <3>3 DEF FrameShape
  <2> QED BY <1>4, <1>8, <2>1, <2>2 DEF Shape
<1> QED BY <1>2, <1>4, <1>6, <1>8, <1>9, <1>10 DEF Init

LEMMA InitOrderly == ASSUME Init PROVE Orderly
<1>1. /\ TypeOK /\ Shape
      /\ \A t \in Thread : Pending(t) = {} /\ mShutdownContext[t] = NoThread
      /\ \A t \in Thread \ {Main} : stk[t] = <<>>
      /\ DOMAIN stk[Main] = {1} /\ stk[Main] # <<>>
      /\ stk[Main][1].fn = "app" /\ stk[Main][1].at = "loop"
  BY InitBasic
<1>2. \A t \in Thread : \A i \in DOMAIN stk[t] : t = Main /\ i = 1
  BY <1>1, EmptySeq
<1>3. known = {Main} /\ ~mShutdownRequired[Main] /\ \A t \in Thread : ~mEventsAreDoomed[t]
  BY ThreadConstants DEF Init
<1>4. Numbered
  BY <1>1, <1>2 DEF Numbered
<1>5. FramesClaim /\ OneClaim
  BY <1>1, <1>2 DEF FramesClaim, OneClaim, FrameClaims
<1>6. OnlyKnown
  BY <1>1, <1>2, <1>3 DEF OnlyKnown, Late
<1>7. DoomedRight
  BY <1>1, <1>2, <1>3 DEF DoomedRight, Gone
<1> QED BY <1>1, <1>4, <1>5, <1>6, <1>7 DEF Orderly, Basic, Claims
--------------------------------------------------------------------------------
(* A step leaves the stacks of the other threads alone. *)
LEMMA OwnStack ==
  ASSUME TypeOK, NEW a \in Thread, NEW v \in Thread, v # a,
         ClientStep(a) \/ ThreadStep(a) \/ PopEventQueue(a)
  PROVE  stk'[v] = stk[v] \/ stk[v] = <<>>
<1>0. stk \in [Thread -> Seq(Frame)]
  BY DEF TypeOK
<1>1. ASSUME stk' = stk \/ stk' = Returned(a) \/ \E at : stk' = Goto(a, at) PROVE stk'[v] = stk[v]
  BY <1>0, <1>1 DEF Returned, Goto
<1>2. ASSUME NEW fn, NEW at, NEW id, NEW u, NEW lvl, stk' = Call(a, fn, at, id, u, lvl)
      PROVE  stk'[v] = stk[v]
  BY <1>0, <1>2 DEF Call
<1>3. CASE ClientStep(a)
  <2>1. ASSUME NEW u \in Thread, Dispatch(a, u) PROVE stk'[v] = stk[v]
    BY <1>1, <2>1 DEF Dispatch
  <2>2. ASSUME NEW u \in Thread, DispatchSync(a, u) PROVE stk'[v] = stk[v]
    BY <1>1, <1>2, <2>2 DEF DispatchSync
  <2>3. ASSUME NEW u \in Thread, Shutdown(a, u) PROVE stk'[v] = stk[v]
    BY <1>2, <2>3 DEF Shutdown, Claim
  <2>4. ASSUME NEW f \in Filter, PushEventQueue(a, f) PROVE stk'[v] = stk[v]
    BY <1>2, <2>4 DEF PushEventQueue
  <2>5. ASSUME NEW u \in Thread, NewThread(a, u) PROVE stk'[v] = stk[v] \/ stk[v] = <<>>
    <3>1. stk[u] = <<>>
      BY <2>5 DEF NewThread
    <3>2. CASE v # u
      BY <1>0, <2>5, <3>2 DEF NewThread, Call
    <3> QED BY <3>1, <3>2
  <2> QED BY <1>3, <2>1, <2>2, <2>3, <2>4, <2>5 DEF ClientStep
<1>4. CASE ProcessNextEvent(a) \/ ThreadStartup(a)
  <2>1. PICK at : TakeAndRun(a, at)
    BY <1>4 DEF ProcessNextEvent, ThreadStartup
  <2> QED BY <1>0, <2>1 DEF TakeAndRun, RunEvent
<1>5. CASE \/ RunReturns(a) \/ SyncTaskReturns(a) \/ SyncReply(a)
           \/ DispatchSyncTest(a) \/ DispatchSyncNoWait(a)
           \/ ShutdownPost(a) \/ ShutdownAcked(a) \/ ShutdownJoin(a)
  BY <1>1, <1>5 DEF RunReturns, SyncTaskReturns, SyncReply, DispatchSyncTest, DispatchSyncNoWait,
                    ShutdownPost, ShutdownAcked, ShutdownJoin
<1>6. CASE \/ InitPutStartup(a) \/ InitDone(a) \/ ThreadStart(a) \/ LeaveLoop(a) \/ Doom(a) \/ DrainMore(a)
           \/ Unregister(a) \/ DispatchAck(a) \/ ThreadExit(a)
  BY <1>1, <1>6 DEF InitPutStartup, InitDone, ThreadStart, LeaveLoop, Doom, DrainMore, Unregister,
                    DispatchAck, ThreadExit
<1>7. CASE RepostEvent(a) \/ PopEventQueueDone(a) \/ PopEventQueue(a)
  BY <1>1, <1>7 DEF RepostEvent, PopEventQueueDone, PopEventQueue
<1> QED BY <1>3, <1>4, <1>5, <1>6, <1>7 DEF ThreadStep
--------------------------------------------------------------------------------
(* The theorems *)

LEMMA NextOrderly == ASSUME Orderly, Next PROVE Orderly'
<1> PICK t \in Thread : ClientStep(t) \/ ThreadStep(t) \/ PopEventQueue(t)
  BY DEF Next
<1>1. CASE /\ ~(\E u \in Thread : NewThread(t, u) \/ Shutdown(t, u))
           /\ ~(ProcessNextEvent(t) \/ ThreadStartup(t))
           /\ ~(InitDone(t) \/ Doom(t) \/ Unregister(t) \/ DispatchAck(t) \/ ThreadExit(t))
  <2>1. \/ \E u \in Thread : Dispatch(t, u) \/ DispatchSync(t, u)
        \/ \E f \in Filter : PushEventQueue(t, f)
        \/ PopEventQueue(t) \/ RepostEvent(t) \/ PopEventQueueDone(t)
        \/ RunReturns(t) \/ SyncTaskReturns(t) \/ SyncReply(t)
        \/ DispatchSyncTest(t) \/ DispatchSyncNoWait(t)
        \/ ShutdownPost(t) \/ ShutdownAcked(t) \/ ShutdownJoin(t)
        \/ InitPutStartup(t) \/ ThreadStart(t) \/ LeaveLoop(t) \/ DrainMore(t)
    BY <1>1 DEF ClientStep, ThreadStep
  <2> QED BY <2>1, PlainSteps DEF Orderly
<1>2. ASSUME NEW u \in Thread, NewThread(t, u) PROVE Orderly'
  BY <1>2, NewThreadKeeps DEF Orderly
<1>3. ASSUME NEW u \in Thread, Shutdown(t, u) PROVE Orderly'
  BY <1>3, ShutdownClaims, ClaimingKeeps DEF Orderly
<1>4. CASE ProcessNextEvent(t) \/ ThreadStartup(t)
  BY <1>4, TakingCases, TakingKeeps DEF Orderly
<1>5. CASE InitDone(t)
  BY <1>5, InitDoneKeeps DEF Orderly
<1>6. CASE Doom(t)
  BY <1>6, DoomKeeps DEF Orderly
<1>7. CASE Unregister(t) \/ DispatchAck(t) \/ ThreadExit(t)
  BY <1>7, GoneKeeps DEF Orderly
<1> QED BY <1>1, <1>2, <1>3, <1>4, <1>5, <1>6, <1>7

LEMMA StutterOrderly == ASSUME Orderly, UNCHANGED vars PROVE Orderly'
<1>1. /\ UNCHANGED <<mEvents, popped, mEventsAreDoomed, mThread, mShutdownRequired, mShutdownContext,
                     shutdownAck, mInitialized, mSyncTask, stk, known, nEvents, nPushes, begun, ran>>
  BY DEF vars, queueVars, shutVars, histVars
<1>2. PendingAs
  BY <1>1, PendingKept
<1>3. TypeOK' /\ Shape'
  BY <1>1 DEF Orderly, Basic, TypeOK, Shape, ChainShape, FrameShape, Top
<1>4. Numbered'
  BY <1>1, <1>2 DEF Orderly, Basic, Numbered, PendingAs
<1>5. Claims'
  BY <1>1, <1>2 DEF Orderly, Claims, FramesClaim, FrameClaims, OneClaim, OnlyKnown, PendingAs
<1>6. DoomedRight'
  BY <1>1, <1>2 DEF Orderly, DoomedRight, Top, PendingAs
<1> QED BY <1>3, <1>4, <1>5, <1>6 DEF Orderly, Basic

(* The stacks, the claims and the doomed threads are in order in every  *)
(* reachable state of nsThread.                                         *)
THEOREM AlwaysOrderly == Spec => []Orderly
<1>1. Init => Orderly
  BY InitOrderly
<1>2. Orderly /\ [Next]_vars => Orderly'
  BY NextOrderly, StutterOrderly
<1> QED BY <1>1, <1>2, PTL DEF Spec

LEMMA NothingPending ==
  ASSUME TypeOK, NEW t \in Thread, Pending(t) = {}
  PROVE  popped[t] = <<>> /\ \A i \in DOMAIN mEvents[t] : mEvents[t][i].q = <<>>
<1>1. ASSUME NEW s \in Seq(Event), Range(s) = {} PROVE s = <<>>
  <2>1. DOMAIN s = {}
    BY <1>1 DEF Range
  <2>2. Len(s) \in Nat /\ DOMAIN s = 1 .. Len(s)
    BY LenProperties
  <2>3. Len(s) = 0
    <3> DEFINE n == Len(s)
    <3> HIDE DEF n
    <3>1. n \in Nat /\ 1 .. n = {}
      BY <2>1, <2>2 DEF n
    <3>2. n = 0
      BY <3>1
    <3> QED BY <3>2 DEF n
  <2> QED BY <2>3, EmptySeq
<1>2. popped[t] \in Seq(Event) /\ \A i \in DOMAIN mEvents[t] : mEvents[t][i].q \in Seq(Event)
  BY ChainType
<1>3. Range(popped[t]) = {} /\ \A i \in DOMAIN mEvents[t] : Range(mEvents[t][i].q) = {}
  BY DEF Pending, EventsIn
<1> QED BY <1>1, <1>2, <1>3

(* NoEventLeftBehind: the key invariant of ThreadFunc.  PutEvent never      *)
(* succeeds if the event would be left in the queue after the last call to  *)
(* NS_ProcessPendingEvents, for any number of threads, however they nest    *)
(* loops, filter events and shut each other down.                           *)
THEOREM NothingLeftBehind == Spec => []NoEventLeftBehind
<1>1. Orderly => NoEventLeftBehind
  <2> SUFFICES ASSUME Orderly PROVE NoEventLeftBehind
    OBVIOUS
  <2>1. TypeOK
    BY DEF Orderly, Basic
  <2>2. \A t \in Thread : mEventsAreDoomed[t] => Pending(t) = {}
    BY DEF Orderly, DoomedRight
  <2> QED BY <2>1, <2>2, NothingPending DEF NoEventLeftBehind
<1> QED BY <1>1, AlwaysOrderly, PTL
================================================================================
