# A verification of XULRunner's threading, stream and resolver core

This directory holds TLA+ models of the part of XULRunner on which every other
part depends for its concurrency: the event queues, threads, thread manager,
thread pools and timers of `src/xpcom/threads`, the pipes of `src/xpcom/io` that
carry data between threads, and the DNS resolver of `src/netwerk/dns`, which has
a pool of threads and a cache of its own. TLC checks the models on small
instances; TLAPS proves the safety of all of them for every value of
the constants. `PROJECT.json` lists the runs, the properties, the mutants that
show that each property can fail, the source lines that every definition stands
for, the findings and the hazards.

## 1. Inventory

The repository is a browser platform of some 42,000 files. Most of it is
rendering, content, script engine, platform code and vendored libraries. Its
components talk to one another across threads in one way: an `nsIRunnable` is
dispatched to an `nsIEventTarget`. So the code that implements targets is the
core from which the correctness of the rest follows. Bulk data goes through
pipes instead, and the resolver is the component of the network library whose
own locking is the most intricate.

| Component | State | Operations | Interacts with | What is hard |
|---|---|---|---|---|
| Event queue, `nsEventQueue` | a list of pages with 250 slots, two offsets, a monitor | `PutEvent`, `GetEvent` (waiting or not), the pending test | callers block in the monitor | page boundaries, a dangling `mTail`, allocation failure, lost wake-ups |
| Threads, `nsThread` | a chain of filtered queues, `mEventsAreDoomed`, shutdown context and flags | `Init`, `Dispatch` (also synchronous), `ProcessNextEvent`, `PushEventQueue`, `PopEventQueue`, `Shutdown`, `ThreadFunc` | each thread puts events into the queues of others; join by a shutdown event and an ACK event | closing a queue while others put, raw pointers to another thread's stack, waiting by running nested events, who joins |
| Thread manager, `nsThreadManager` | the table of threads, `mInitialized` | `NewThread`, register, unregister, `Shutdown` | joins all threads from the main thread | threads that start, end and are joined by others while the table is emptied |
| Thread pool, `nsThreadPool` | events, threads, limits, idle count, listener | `Dispatch`, `PutEvent`, the workers' `Run`, `Shutdown`, the setters | creates and joins `nsThread`s; a worker that leaves has the main thread join it | two critical sections with a long call in between, idle timeouts, changing limits, racing `Shutdown` |
| Timers, `nsTimerImpl` and `TimerThread` | a sorted list, per-timer flags, generation and reference count | `Init*`, `Cancel`, `SetDelay`, `Release`, `Fire`, the timer thread's `Run`, sleep and wake, `Shutdown` | the timer thread dispatches to the timer's thread | fields used outside the lock, reference counts, clock wrap, races of re-initialising with firing |
| Pipes, `nsPipe3` on `nsSegmentedBuffer` | a circular array of segments, two cursors with limits, status, available count, writable flag, one callback and one blocked flag per end | `ReadSegments`, `WriteSegments`, `AsyncWait`, `CloseWithStatus` | one thread per end, callbacks to both | copying outside the monitor, segments that lie back to back, one monitor for both ends, closing in the middle of a call |
| DNS resolver, `nsHostResolver` | table of records, three queues by priority, eviction queue, thread counts | `ResolveHost`, `DetachCallback`, the workers' `GetHostToLookup` and `OnLookupComplete`, `Shutdown` | calls back to the DNS service, from workers and from callers | references moved without counting, callbacks after unlocking, idle timeouts, shutdown in the middle of look-ups |
| Proxies, `nsProxyEvent*` | queues of proxied calls | synchronous and asynchronous calls | nested loops over filtered queues | deadlock, re-entrance |
| Socket transport, HTTP | connections, requests | poll loops | dispatch to the modelled targets | I/O, timeouts |

What makes each modelled component correct:

* event queue: first in first out, nothing lost, nobody asleep with work
  pending, no page leaked or used after it is freed;
* threads: an accepted event is begun at most once, on its thread, and
  eventually run; a queue closes only when nothing is left in it; one thread joins, it does so safely, and the
  context it lends outlives its users; waits end;
* manager: no thread is missed, none is left at the end, the end is reached;
* pool: counts and limits hold, each worker is joined once, no event is left
  without somebody to run it;
* timers: no pointer to a destroyed timer is used, the list is in order, the
  timer thread sleeps no longer than it may, due timers fire, and not early;
* pipes: every byte comes out once, in order and unchanged; the end of the
  stream is seen only when it is drained; nobody sleeps, and no callback waits,
  for what has happened already; bytes arrive and writes return;
* resolver: a record is resolved by one thread at a time, a callback is called
  exactly once, references and counters are exact, and every accepted request
  is answered.

The hazards these properties are for are listed in `PROJECT.json`, each at its
line.

## 2. Modules

| Module | Models | Composition |
|---|---|---|
| `EventFifo` | what an event queue promises | abstract |
| `nsEventQueue` | `nsEventQueue.{h,cpp}` | implements `EventFifo` |
| `nsEventQueueProofs` | theorems about `nsEventQueue` | extends it |
| `EventTarget` | what a thread promises those who dispatch to it | abstract |
| `nsThread` | `nsThread.{h,cpp}`, `NS_ProcessPendingEvents` | implements `EventTarget`; takes a queue to be what `EventFifo` says |
| `nsThreadProofs` | theorems about `nsThread`: types, stacks, claims, closing a queue | extends it |
| `nsThreadJoinProofs` | theorems about `nsThread`: shutting down and joining, synchronous dispatch, the refinement of `EventTarget` | extends `nsThreadProofs` |
| `nsThreadManager` | `nsThreadManager.cpp` | extends `nsThread` |
| `nsThreadManagerProofs` | theorems about `nsThreadManager` | extends it and `nsThreadJoinProofs` |
| `nsThreadPool`, `MCnsThreadPool` | `nsThreadPool.cpp` | workers are `nsThread`s reduced to their contract; the MC module adds symmetry |
| `nsThreadPoolProofs` | theorems about `nsThreadPool` | extends it |
| `nsTimerImpl` | `nsTimerImpl.{h,cpp}`, `TimerThread.cpp` | the target's queue is a sequence |
| `nsTimerImplProofs` | theorems about `nsTimerImpl` | extends it |
| `BytePipe` | what a pipe promises: a bounded sequence of bytes | abstract |
| `nsSegmentedBuffer` | `nsSegmentedBuffer.{h,cpp}`, as functions on buffers | used by `nsPipe3` |
| `nsPipe3` | `nsPipe3.cpp` | extends `nsSegmentedBuffer`; implements `BytePipe` |
| `nsPipe3Proofs` | theorems about `nsPipe3` and lemmas about `nsSegmentedBuffer` | extends `nsPipe3` |
| `nsHostResolver`, `MCnsHostResolver` | `nsHostResolver.{h,cpp}` | the MC module names the calls |
| `nsHostResolverProofs` | theorems about `nsHostResolver` | extends it |

Variables and actions keep the names of the members and methods. A definition
that stands just before another one and is used nowhere (its comment says what
it gets wrong) is a plausible bug; `PROJECT.json` names the definition it
replaces and the property that then fails. It is part of no specification.
Where an invariant begins with `TypeOK`, it is the module's type invariant as
well.

### nsEventQueue

Every method holds the monitor throughout, so each is one action, except that a
caller that waits goes to sleep in one step and looks again in another. Pages
are numbered in the order of their allocation; a freed page keeps its number
with `live` false, so that a use after free is visible. `mTail` dangles after
the last slot of the last page was read, exactly as in the code. `put` and
`taken` are history variables.

### nsThread

A thread is a call stack of frames. A frame has a function and a place in it;
client code runs in the frames `app`, `Run`, `SyncRun` and `EventLoop`, and may
dispatch, dispatch synchronously, create a thread, shut one down, or push a
queue with a filter and spin a loop over it. `Shutdown` and a synchronous
`Dispatch` wait by running the next events of their thread, on top of their own
frames, as in the code. A critical section of `mLock` is one step;
`PopEventQueue` takes several, and others cannot put meanwhile. Filters are
sets of event kinds. `nsThread::Init` blocks its caller until the new thread
has run the startup event. Left out: thread priorities, observers
(`nsIThreadObserver`), and failing allocations, which `nsEventQueue` covers.

### nsThreadManager

The main thread's outermost frame becomes `nsThreadManager::Shutdown`, whose
phases are the program points between its nested event loops. Joining one
thread of the list is `nsThread`'s `Claim` and what follows it. Left out: the
wrapping of foreign threads in `GetCurrentThread`, and the look-ups.

### nsThreadPool

`PutEvent` is cut into its two critical sections and the creation of the thread
between them. A worker's program counter follows `Run`. Time is abstracted: a
worker that waits may find its timeout expired at any moment, which covers
every timeout value. The listener's callbacks are part of the steps of `Run`.
`DISPATCH_SYNC` waits until the event has been run. Left out: a queue that
cannot store the event (`nsThreadPool.cpp:102`, whose result is ignored), a
proxy to the main thread that cannot be made (`:145-149`), and the `Shutdown` of
the destructor (`:80-83`), which nobody can race.

### nsTimerImpl

One user thread (the main thread) and the timer thread. What happens under
`TimerThread::mLock` is one step. `InitCommon`, `Cancel`, `SetDelay`, `Release`,
`Fire`, `PostTimerEvent` and `DoAfterSleep` are cut where one thread writes
outside the lock what the other reads. `now` and `mTimeout` are kept as time
really passes, and every comparison of the code is made modulo `Interval`, the
size of `PRIntervalTime`; with `Interval = 16` the longest delay is 7 and the
clock wraps inside the model. Reference counts are explicit: the list, the
timer thread, an event and the user each hold one.

`UpdateFilter` is modelled by its range. The slacks in the delay line are not
kept: once `DelayLineLength` timers have fired (32 in the code),
`mTimeoutAdjustment` may become any value that they can give, which is at most
1.5 times `FeedbackMax`, early or late (`MaxAdjustment`). `Run` adds it to the
deadline wherever the code does, and the end of a sleep resets it.

Left out: the start of the timer thread, `SetType`, timers of several threads,
and a failing `Dispatch` in `PostTimerEvent`, which needs a target that has been
shut down; here the target is the main thread.

### nsSegmentedBuffer and nsPipe3

Pointers are addresses in an arena of `SegmentSize * SegmentCount` bytes, cut
into segments that lie back to back, so that the limit of one segment can equal
the start of another, the case the comments on the buffer architecture warn
about. The allocator may hand out any free segment, or fail. The buffer's
circular array doubles from `InitialCount` entries, as in the code. The n-th
byte written is the number n, so that the refinement of `BytePipe` tells lost,
repeated, reordered and overwritten bytes apart; a freed segment loses its
contents.

A call of `ReadSegments` or `WriteSegments` is a loop of steps: get a segment
(in the monitor), copy some of it or refuse (outside), advance the cursor (in
the monitor), and wait if there is nothing to get. Between any two of them the
other end may do anything. `AsyncWait` has three forms (ready, closure only,
null callback); `FlagsIn` and `FlagsOut` say which of them the user of each end
uses. `nsPipeEvents` calls back at the end of the step that triggers it. `owner` is the user of a non-blocking end: after a call that would
block it leaves a callback, and it calls again when it is called back. Blocking
ends use blocking calls only (`MixAsync = FALSE`; section 5 says why). Left out:
`Search`, which only looks at the segments, `Tell`, and the event target of a
callback (`NS_NewInputStreamReadyEvent`), which is a dispatch.

### nsHostResolver

A step is a section inside `mLock`, or the callbacks that follow it. A host is
a key of the table. `ResolveHost` is split by outcome: refused, answered from
the cache (with a new look-up if the cached result is a failure), answered
because it is a literal, joined to a look-up in progress (with a change of
queue), or looked up. A worker is at one of: about to look at the queues, idle,
notified, timed out, in the look-up, delivering. `rec[x].refc` is counted
exactly where the code counts; a record whose last reference goes is freed and
its number is used again, and `MaxRecords` bounds the records alive at once
(`Room`). The clock is left out: a call either finds the
result expired or not, which has the same effect as `RES_BYPASS_CACHE`, so the
two are one Boolean. A look-up succeeds or fails as it likes; creating a thread
may fail. Left out: running out of memory, `RES_RETRY_ON_FAILURE`, the optional
wait for the workers at the end of `Shutdown` (built for leak logging only), and
the generation count of `addr_info`, which serves the readers of a record.

## 3. Runs

All runs pass `CHECK_DEADLOCK FALSE`: the systems rightly come to rest when
their bounded work is done or everything is shut down, and what must not stop
is stated as a liveness property.

| Run | Shows |
|---|---|
| `event_queue` | Two callers, pages of two slots, five puts: the queue implements the FIFO across page boundaries and allocation failures, no wake-up is lost, pages are linked soundly, an empty queue owns at most the page that its destructor frees. |
| `threads` | Three threads, two client events, one filtered nested loop, `Shutdown` called by anybody on anybody: no event is left in a closed queue; the shutdown context outlives its users; the join is safe and done by one caller; a thread that was shut down is gone for good; a synchronous dispatch returns after its task; and the threads implement `EventTarget`. |
| `manager` | Threads created by the main thread are all found and joined whatever they do meanwhile, and the manager's `Shutdown` ends; accepted events run, `Shutdown` and synchronous dispatches return, when the filters accept everything and client code shuts one thread down, from its outermost loop or from an event. |
| `pool` | Idle count, limit (as long as it is not changed) and single join, with a failing `NewThread`, changing limits and a `Shutdown` at any moment. |
| `pool_live` | With a `Shutdown` that does not race a dispatch: every event is run, nobody is left unjoined when `Shutdown` returns, all threads end and the listener hears of it. |
| `timers` | One timer of any type, three calls, one sleep or wake, shutdown: no dangling timer, except in the one case that `NoDanglingTimer` names (section 5), and an empty list after `Shutdown`. |
| `timers_order` | Two repeating timers around the clock's wrap, with the shortest and the longest delay, and with every adjustment of `UpdateFilter` once two timers have fired: order, wake-ups (no later than a deadline and the greatest adjustment), release and firing. |
| `pipe` | Two segments of two bytes, five bytes, calls for one or three bytes, each end blocking or not, partial copies and refusals, failing allocations, all forms of `AsyncWait` but closure only on the input end, either end closed at any moment: the pipe implements `BytePipe`; `mAvailable`, `mWritable` and `mWriteSegment` agree with the cursors; no missed wake-up or callback; the end of the stream only after its last byte; bytes arrive and writes return. |
| `dns` | Three requests over three hosts at all priorities, two workers of which one may serve low and medium requests, a cache of one entry, a queue of one non-urgent request, failing look-ups and thread creation, detaching, and `Shutdown` at any moment: one place per record and per callback, exact references and counters, and an answer to every accepted request. |

Three further runs are expected to fail; each refutes a sentence of the code
with a property that no passing run has:

| Run | Shows |
|---|---|
| `pool_leak` | `Shutdown` between `PutEvent`'s critical sections leaves an accepted event in a pool without threads, the case `~nsEventQueue` asserts against (`nsThreadPool.cpp:126`). |
| `timers_stale` | A timer initialised again just after the timer thread took it from the list fires at once: `PostTimerEvent` reads the generation after the lock is released (`nsTimerImpl.cpp:533`). |
| `dns_stale_result` | A callback is called with success and a record without an address: a second look-up of the same host, or `Shutdown`, has failed it after the lock was released and before the callback (`nsHostResolver.cpp:856`). |

### Bounds

The bounds are named constants in the guards (`Max...`). Two slots per page and
five puts give empty, one, two and three pages, and the reuse of the state with
a dangling tail. Three threads are the fewest with a joining thread, a thread
that is joined, and a third that races either. Two events are needed for a put
during the run of another one, one pushed queue for the filters. Three workers
with a limit of two give the surplus thread that `PutEvent` has to kill. Three
calls on a timer give initialise, cancel or release, initialise again. With
`Start = 13` and `MaxTime = 16` a timer can be overdue by two, which together
with the longest delay is more than half the clock's range: the case for which
`AddTimerInternal` skips overdue timers. `timers_order` has a delay line of two
instead of 32 firings, so that adjustments of a tick either way happen within
it. It leaves out `Cancel`, whose `RemoveTimer` the initialisation calls as
well, to stay small; `timers` has it. `timers` in turn has no adjustments:
references do not depend on when a timer is due. The theorems cover both
together. Two segments of two bytes and calls for
three bytes give a full pipe, a call that spans segments, both cursors in one
segment and in two, the roll-back and the reuse of a freed segment, and make the
array of segments grow once. Growing it while its contents wrap round needs four
segments; `SegmentCount = 4, InitialCount = 4, Counts = {10}, MaxBytes = 10`
with blocking ends, no callbacks and no failing allocations reaches that, and
passes as well. Three requests, with a cache and a queue of one, give a second
request for a record that is queued, being looked up, cached, evicted or
failed, and an eviction while its record is still in use. `UintRange` stands for
the size of `PRUint32` and need only exceed the number of bytes.

### Fairness

Weak fairness of the steps of each thread: the operating system schedules every
thread that can run, NSPR's monitors hand themselves on, and event handlers and
timer callbacks return. Nested loops end (`PopEventQueue`). No fairness is
assumed for what client code may choose not to do: dispatching, creating
threads, calling `Shutdown`. The pool's and the resolver's idle timeouts are not
fair either. In `nsTimerImpl` time passes. In `nsPipe3` the user of the input
end keeps reading, a user who was told that the stream would block leaves a
callback, and a client function or an allocator that is asked again and again
does not refuse for ever (strong fairness); nobody has to write or to close. In
`nsHostResolver` look-ups end; nobody has to ask, detach or shut down.

## 4. Proofs

Each theorem holds for every value of the constants that satisfies the named
assumption of its module, `Max...` bounds included: any number of threads,
workers, events, hosts and requests, any limits, any filters. TLC evaluates the
assumptions on the runs. A theorem that needs more says so in its own
hypotheses. Every inductive invariant was checked by TLC on the runs' constants
before it was proved.

### The event queue (`nsEventQueueProofs`, from `EventQueueConstants`)

* `EventQueueTypeCorrect`: the type invariant, so in particular no slot outside
  a page is read or written;
* `NoLostWakeup`: nobody sleeps while an event is pending;
* `PageListSound`: the links and the set of allocated pages;
* `EmptyQueueLeaksNoPage`: what the destructor relies on;
* `EventQueueImplementsFifo`: the refinement of `EventFifo`.

None of these is inductive alone. The inductive invariant `QInv` says where
event number *n* is: every page knows how many events were stored before its
slot 0 (the history field `base`); the pages from `mHead` to `mTail` are
linked in order (`Links`), are the allocated ones (`Lives`), and are at least a
page apart (`Gaps`); the offsets at both ends agree with `taken` and `Len(put)`
(`Ends`); and the slots in between hold exactly the events not yet taken
(`Contents`). Without a page everything has been taken (`Drained`), and
sleepers exist only then (`Sleepers`). From this follows the lemma
`EmptyMeansAllTaken`: the code's test of two pointers and two offsets is right
about the events, also when `mHead` and `mTail` are equal by accident of a full
page. There is one lemma per action that disturbs the list. The refinement maps
`queue` to the part of `put` that was not taken.

### Threads (`nsThreadProofs` and `nsThreadJoinProofs`, from `ThreadConstants` and `FilterKinds`)

* `AlwaysOrderly`: the inductive invariant `Orderly`, which includes the type
  invariant;
* `NothingLeftBehind` (`NoEventLeftBehind`): a thread that refuses events has
  none left, in any queue of its chain;
* `ContextOutlivesUse` (`ContextAlive`): the shutdown context, which lives in a
  frame of the joining thread, is there as long as the thread that shuts down,
  or an ACK on its way, can use it;
* `JoinIsSafe` (`SafeToJoin`): `PR_JoinThread` is called once, on a thread that
  has nothing left to do;
* `ShutdownIsFinal` (`ShutDownForGood`);
* `SyncWaits` (`SyncDispatchWaits`): a synchronous dispatch does not return
  before its task has run, whatever was run on top of it meanwhile;
* `TargetPromiseKept` (`ImplementsTarget`): the refinement of `EventTarget`,
  which counts how often each event is begun, so that no event is run twice.

`Orderly` has three layers. `Basic` is the shape of the data: what each frame of
a stack may be doing, that a frame is one level deeper than the one below it
exactly when it pushed a queue, that the chain of queues is as long as the
innermost frame says (`Shape`), and that numbers of events are used up in order
(`Numbered`). `Claims` says that a `Shutdown` frame, and nothing else, belongs
to a claimed thread, that two frames never claim the same one, and that only
threads that were started are named. `DoomedRight` says that a thread that
closed its queue is in the outermost frame, past its last look at the queue.
`NoEventLeftBehind` is not inductive without it, because a nested loop could
still pop a queue and move its events after the thread was doomed.

`Joining` adds that whoever a thread answers to is still waiting in `Shutdown`
for it (`Contexts`), that an answer comes from a thread that is finished and
that a joining frame has had it (`Acked`), and that no two ACKs of a thread are
under way, in any two slots of any queues (`AckOnce`). `Delivery` adds that the
event of a synchronous dispatch is unfinished or has run (`SyncFrames`), that
what will be run when it is taken has not been begun before (`SyncEvents`; the
reply of a synchronous dispatch is the same event again, with its task
cleared), and that an event not yet begun waits in one thread only (`OneTarget`)
and in one place there (`OnceEach`), also while `PopEventQueue` moves it. This
is what makes a step of one thread a step of one target, and a second run
impossible.

### The thread manager (`nsThreadManagerProofs`, from the same assumptions)

All theorems suppose that only the main thread creates threads
(`Creator \subseteq {Main}`), as `nsThreadManager.cpp:130` does; section 5 says
what happens otherwise.

* `AlwaysManaging`: the inductive invariant `Managing`. It includes `Joining`,
  so what is proved about threads holds under the manager as well, although
  the manager shuts down threads that client code may not;
* `NoThreadMissed` (`RunningThreadsListed`): a thread that runs and that nobody
  has claimed is in the table or on the list of threads to join;
* `OnlyCirclesLeft`: a thread that still runs when the manager is down is being
  shut down by another one that still runs, not by itself or the main thread;
* `NothingRunsOn` (`NoBackgroundThreads`), if clients shut down at most one
  thread by themselves: then nothing runs on.

`Managing` adds to `Joining` that a thread unknown to clients is the one for
which the main thread waits in `Init`, on top of its stack, and that it is
registered before it counts as initialised (`BroughtUp`); so once the main
thread has got to `Shutdown` no thread can register behind its back (`Phases`).

### The thread pool (`nsThreadPoolProofs`, from `PoolConstants`)

* `IdleCountCorrect` (`IdleCountExact`): `mIdleCount` is the number of workers
  that count themselves idle, and the limit holds as long as it is not changed;
* `ShutDownByOne` (`JoinedOnce`): no worker is shut down twice;
* `ShutdownComplete` (`AllShutDown`), if a `Shutdown` does not race a dispatch:
  nobody is left unjoined when it returns;
* `NoEventLeaks` (`NothingLeaked`), if in addition thread creation does not fail
  and no limit is set to 0: an event in the queue always has somebody who will
  look for it.

The hypotheses of the last two are the constants of the run `pool_live`. Without
the first, `pool_leak` shows that they fail. The four invariants rest on each
other: `Counted` (types and the sets that are counted are finite), `Owned`
(the pool, the dispatcher, the leaving worker or `Shutdown`: at most one of them
has a worker to shut down), `Accounted` (at least one has, once the worker
exists) and `Served`.

### The resolver (`nsHostResolverProofs`, from `ResolverAssumption`)

* `AlwaysResolving`: the inductive invariant `Resolving`;
* `LookupHasOnePlace` (`ResolvedByOne`): a record with `resolving` set is in
  exactly one queue, or being aborted, or with exactly one worker; others are
  nowhere;
* `CallbacksOnce` (`CalledOnce`): a pending request is in exactly one list of
  callbacks, and no callback is called twice;
* `ReferencesCounted` (`ReferencesExact`): the reference count of every record
  is the number of its owners, so that none is leaked or freed while in use;
* `CountersExact` (`CountsExact`): thread, idle, pending and eviction counts.

`Resolving` has six parts: what each thread has in its hands (`Hands`), that the
lists repeat nothing and are disjoint (`Lists`), that a record has a place
exactly when it should (`Places`), `References`, `Callbacks` and `Counters`.
They cannot be proved one after the other: a record is freed, and its number
used again, when its last reference goes, so that a place is only safe if it is
counted, and counts are only right if the places are disjoint. An eviction gives
up two references in one step, the table's and the eviction queue's. A look-up
ends by a worker or by `Shutdown`; the lemma `CompleteResolving` covers both.

### Timers (`nsTimerImplProofs`, from `TimerConstants`)

* `AlwaysTiming`: the inductive invariant `Timing`, which includes the type
  invariant;
* `TimersOutliveUse` (`NoDanglingTimer`), for timers of every type, all calls
  and any number of sleeps: whoever may use a timer finds it alive, and the list
  stays empty after `Shutdown`. The exception of section 5 is part of the
  statement: `Release` may read `mArmed` of a destroyed timer, but only after
  `Shutdown` and only if there are precise timers;
* `ArmedTimersListed` (`ArmedMeansListed`) and `ReleasedLeaveTheList`
  (`ReleasedTimersGo`), if no timer is precise;
* `ListStaysOrdered` (`ListOrdered`), if in addition nobody calls `SetDelay`;
  the wake-up notification, which moves every timer, may come at any time;
* `ThreadNeverOversleeps` (`NeverOversleeps`), if in addition no sleep
  notification comes: the thread wakes no later than the deadline of any timer
  in its list, or now if that is later, and the greatest adjustment of
  `UpdateFilter`. It cannot be tighter: `Run` sleeps until the adjusted deadline.

The hypotheses are constants of the run `timers_order`, and section 5 says
what the code does without each of them. `TimerConstants` bounds the time that
passes, and the greatest adjustment, by half the domain of `PRIntervalTime`;
beyond that `TIMER_LESS_THAN` has no meaning.

`Timing` says that the reference count of a timer is the number of its owners:
its occurrences in the list, in `Shutdown`'s copy of it and in the posted
events, the timer thread's local variable, the event being run and the user.
The list is a sequence, so the proof counts occurrences; `WidenedOcc` is the one
lemma on which insertion, removal, taking the head and appending rest.
`Repeating` adds that no timer is listed twice and that `mArmed` tells which
ones are (`Neat`), that a caller who saw `mArmed` false outside the lock is
still right when it adds the timer (`Unlisted`), and that the list is never the
only owner unless `Release` is about to remove the timer (`LastOwner`): the
count of 1 that `Release` looks for means the list's reference only because the
timer is there once. `Sorted` adds how far deadlines can lie apart (`Deadlines`),
so that `TIMER_LESS_THAN` is the order of times (`LessThanIs`), and the order
itself, except for the timer whose deadline was set and which has not been moved
yet. `Awake` adds nothing but the absence of sleeping; `AddRested` is the reason
why `AddTimer` need not notify unless the new timer is the first.

### Pipes (`nsPipe3Proofs`, from `PipeAssumption` and `InitialCountAssumption`)

For every segment size, number of segments, initial size of the segment array,
mix of blocking ends, and for an allocator that fails and places segments as it
likes:

* `PipeTyped`: the type invariant;
* `PipeBookkeeping` (`BookkeepingExact`): the unsigned arithmetic on
  `mAvailable` never wraps while the input end is open, and leaves the number of
  bytes between the cursors; `mWriteSegment` and `mWritable` are exact;
* `PipeRefinement` (`ImplementsPipe`): the refinement of `BytePipe`;
* `BytesInOrder`: in the terms of the pipe itself, what was received is the
  first bytes written, and what lies between the cursors is the next ones;
* `PipeDrained` (`EndOnlyWhenDrained`), if an end is only ever closed with
  `NS_BASE_STREAM_CLOSED`;
* `PipeWakes` (`NoMissedNotification`), if nobody leaves a callback on a blocking
  end (`MixAsync = FALSE`), nor one that waits for closure only on the input end
  (`"closure" \notin FlagsIn`);
* `NeverBothAsleep`, if nobody leaves a callback on a blocking end.

The three hypotheses are constants of the run `pipe`; section 5 says what happens
without them.

The proof starts from the circular array. `AppendHolds`, `DeleteHolds` and
`GrownHolds` say that for any indices, wrapped round or not, appending and
deleting act on the segments as on a queue and growing moves none of them. The
invariant `Structure` then says that the segments in use are different blocks
of the arena (`Segments`), that the reader's cursor is in the first, short of
its end, and the writer's in the last, perhaps at its end, with limits that
depend on whether these are the same (`Cursors`), and that a call in progress
holds a part of what lies between its cursor and its limit (`Calls`, `Holds`).
The last is what makes copying outside the monitor safe: whatever one end does
between two steps of the other leaves the other's part where it is. In
particular `GetWriteSegment` rolls both cursors back only when there is nothing
between them, so a reader holds nothing then. `Cursors` also decides the
comparison of addresses on which the code relies (`ReadingInWriteSegment`):
with the test for the first segment it means that reader and writer share a
segment, although without it the end of one segment may be the start of the
next.

`Contents` says which byte is at each address, from the reader's cursor to the
last byte copied in, reported or not, counted back from `sent`; `Counted` says
how many there are. Together with `Structure` they are `PipeInv`, which is
inductive, and from which `BufferedIs` computes the sequence of bytes between
the cursors. The refinement follows: reporting written bytes is a write,
handing bytes to the reader's client is a read, and everything else changes
neither.

`Kept` is the bookkeeping. That `mAvailable` does not wrap needs `PipeInv`: the
number of bytes between the cursors is at most `sent`. `Awake` says that only
blocking ends sleep, that only others have callbacks, and that both wait for
something that has not happened. A single notification is enough because the
end that reports is awake, so at most one sleeps; and a close wakes a reader
because a reader sleeps only in an empty pipe, to which the closing of the
output end applies.

### Only model-checked

All liveness properties (`ShutdownReturns`, `EventsRun`, `RequestsAnswered`,
`TimersFire`, `BytesArrive`, `WritesReturn` and the like), since liveness under
fairness is beyond the prover in use. Every invariant, action property and
refinement that a passing run checks is also proved.


## 5. Further observations

Met while modelling, reproducible with the modules but not kept as runs. The
first six are defects or disagreements that a passing run leaves out, by its
constants or, in the case of the timers, in the statement of its property:

* A precise timer is used after it is freed. After `TimerThread::Shutdown` the
  `AddTimer` in `PostTimerEvent` fails, and the timer thread releases the timer
  itself (`TimerThread.cpp:292`). If its user is in `Release` meanwhile, past the
  decrement, that is the last reference: the timer is destroyed, the assertion
  "destroyed timer off its target thread!" (`TimerThread.cpp:305`) fails, and
  `Release` goes on to read `mArmed`, and perhaps to write `mCanceled`, of the
  freed object (`nsTimerImpl.cpp:127`). The comments say that "this should never
  happen even with a misbehaving user" (`TimerThread.cpp:299`) and that "we defer
  destruction until we're sure that only one thread has its hot little hands on
  this timer" (`nsTimerImpl.cpp:119`). `NoDanglingTimer` excludes this case and
  names it (`DestroyedByTimerThread`); with `DestroyedByTimerThread == FALSE` the
  run `timers` violates it, and without precise timers it holds.
* A callback that waits for closure only is lost on the input end when the writer
  closes a pipe that still holds bytes. `OnPipeException` leaves the input end
  out then (`nsPipe3.cpp:589-592`), and nothing calls the callback later: not the
  read that takes the last byte, and not the reader's own `Close`, which finds
  the pipe failed already. `nsIAsyncInputStream.idl:80` says "each asyncWait call
  will result in exactly one notification callback", and `:114-119` that the
  notification comes when the stream becomes closed. (With
  `FlagsIn = {"ready", "closure", "none"}`, `pipe` violates
  `NoMissedNotification`.)

* `Shutdown` in a nested loop whose filter rejects the ACK never returns: the
  ACK goes to an elder queue, and only the newest one is processed, although
  the comment at `nsThread.cpp:466` says "Process events on the current thread
  until we receive a shutdown ACK." (`nsThread` under `FairSpec` with two
  threads, `JoinFrom = {"EventLoop"}`, `Filter = {{"task"}}`, one event and one
  push violates `ShutdownReturns`.)
* `SetDelay` on the first timer makes the timer thread sleep past the deadline
  of the second: `mTimeout` is changed outside the lock and `TimerDelayChanged`
  notifies only for index 0 (`TimerThread.cpp:380`); `TimerThread.cpp:324` says
  "Don't wait at all ... if the next timer is due now or overdue." (With
  `Calls = {"init", "delay"}`, `timers_order` violates `NeverOversleeps`.)
* A blocking reader that found the pipe empty, and has not yet entered `Wait`
  when the writer writes and then closes with an error, returns the error and
  leaves the bytes (`nsPipe3.cpp:660`); the comment at `nsPipe3.cpp:589` says
  "an output-only exception applies to the input end if the pipe has zero bytes
  available". (With `Reasons = {"closed", "error"}`, `pipe` violates
  `EndOnlyWhenDrained`.)
* With `MixAsync = TRUE`, a callback left on a blocking end before a blocking
  call takes the notification of `OnInputReadable`, and the blocked reader
  sleeps with data available (`nsPipe3.cpp:675`): `BytesArrive` fails.
* After the input end is closed, a read returns what was buffered and
  `mAvailable`, reset by the close, wraps (`nsPipe3.cpp:434`). A blocking writer that cannot
  allocate a segment while the pipe is not full does not sleep but tries again
  without pause.
* When a resolver thread cannot be created, the callback is taken back but the
  record stays queued with `resolving` set (`nsHostResolver.cpp:584`); requests
  for it wait until some other request creates a thread. `RequestsAnswered`
  therefore excuses runs in which a creation failed. Failed look-ups and
  literals never enter `mEvictionQ` and stay in the table until `Shutdown`,
  also with a cache of no entries, which "disables cache" (`nsHostResolver.h:183`).
  A worker that was notified counts as idle until it has the lock, so a second
  look-up may have to wait for the first.
* The result of putting the shutdown event is ignored (`nsThread.cpp:460`): if
  memory is short the wait for the ACK never ends. `nsThread` takes queues to be
  unbounded, so this is not in the model.

* With `Creator = {main, a}` in `nsThreadManager.cfg`, `NoBackgroundThreads`
  fails: `mInitialized` is read without a lock (`nsThreadManager.cpp:238`), and
  a thread made by a background thread, as `nsThreadPool.cpp:110` may do, can
  register after the table was copied. The comment at `nsThreadManager.cpp:130`
  says "Fortunately, NewThread is only called on the main thread for now."
  With the same change the manager's shutdown event can overtake the startup
  event of a thread that is still being created (`nsThread.cpp:245`), whose
  creator then waits for ever.
* `PopEventQueue` puts the remaining events through the elder queue's filter
  (`nsThread.cpp:639`), so they may pass it by; `nsIThreadInternal.idl:75` says
  they "are appended to the elder queue".
* Two threads that shut each other down, or a `Shutdown` of a thread that waits
  in a synchronous dispatch for the caller, wait for ever. The manager's
  `Shutdown` passes by two threads that shut each other down, since both are
  claimed (with `Joinable = {a, b}`, `NoBackgroundThreads` fails); by
  `OnlyCirclesLeft` this is the only way it can leave a thread behind.
* A racing `Shutdown` can make the assertion at `nsThreadPool.cpp:96` fail and
  lets a dispatch add a thread to a pool that was shut down
  (`nsThreadPool.cpp:240`); two puts can count on the same idle worker
  (`:99`); and after the idle limit is lowered below the count, another worker
  can still become idle, because the test at `:193` is for equality.
* A precise timer that is initialised again between the two halves of
  `PostTimerEvent` is in the list twice, and `Cancel` removes one element.
  `timers_order` therefore leaves precise timers out.
* With a positive `mTimeoutAdjustment` a timer that has just got the longest
  delay, `DELAY_INTERVAL_MAX`, looks due at once: its adjusted deadline lies half
  the clock's range ahead, where `TIMER_LESS_THAN` changes its answer
  (`TimerThread.cpp:262`). It then fires some weeks early.
* `SetDelay` in a timer's own callback, after the callback has initialised the
  timer again, changes `mTimeout` but not the timer's place in the list
  (`nsTimerImpl.cpp:309`), which is no longer in order. `timers_order`
  therefore leaves `SetDelay` out.
* `DoAfterSleep` walks the list while `TimerDelayChanged` reorders it
  (`TimerThread.cpp:466`) and may leave a timer with its old deadline.

## 6. Not modelled

Proxies are next (see the plan). The socket transport and HTTP are mostly I/O
and parsing on top of the modelled dispatch, and so is `nsDNSService2` on top of
the resolver. `nsStorageStream`, the other user of the segmented buffer, is
used by one thread at a time.
The JavaScript engine, the cycle collector, layout, content, graphics and the
widgets are sequential algorithms over large heaps, out of reach for explicit
states. NSPR's locks, monitors, condition variables, atomic operations and
threads are taken to do what their documentation says. Where a model depends on
how NSPR wakes threads it follows `ptsynch.c`: a notification is sent when the
lock is released, not when it is asked for. In the models it is immediate, which
makes no difference, since the thread that is woken needs the lock anyway and
one that falls asleep in between has seen the new state.

## 7. Plan

Done, in this order: `nsEventQueue` with its proofs, `nsThread`,
`nsThreadManager`, `nsThreadPool`, `nsTimerImpl`, `nsSegmentedBuffer` and
`nsPipe3`, `nsHostResolver`; then the proofs about `nsThread`, `nsThreadPool`,
`nsHostResolver`, `nsThreadManager`, `nsTimerImpl` and `nsPipe3`. To do, most
important first:

1. `nsProxyEvent`: synchronous and asynchronous calls over `nsThread`;
2. timers of several threads;
3. `nsBaseAppShell`'s overlay of native events on the main thread, and
   `nsInputStreamPump` over pipes.
