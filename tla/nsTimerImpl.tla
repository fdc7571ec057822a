------------------------------- MODULE nsTimerImpl -------------------------------
(***************************************************************************)
(* xpcom/threads/nsTimerImpl.cpp and TimerThread.cpp: timers.  The timer   *)
(* thread sleeps until the first timer of a sorted list is due, takes it   *)
(* out of the list and posts an event to the thread that uses the timer;   *)
(* the event calls the timer's callback.  The user (the main thread, which *)
(* is also told of sleep and wake-up and shuts the timer thread down) may  *)
(* initialise, cancel, delay and release its timers at any time, from      *)
(* inside a callback too.                                                  *)
(*                                                                         *)
(* What happens under TimerThread::mLock is one step.  Most fields of a    *)
(* timer are read and written outside the lock, so the user's calls and    *)
(* PostTimerEvent are cut into steps where the two threads can interleave. *)
(*                                                                         *)
(* Time is kept as it really passes.  The code only sees it modulo         *)
(* Interval, and compares it with TIMER_LESS_THAN.                         *)
(***************************************************************************)
EXTENDS Integers, Sequences, SequencesExt

CONSTANTS Timer,       \* the nsTimerImpl objects
          NoTimer,     \* a null pointer
          Types,       \* the types that timers are initialised with
          Delays,      \* the delays that timers are initialised with
          Interval,    \* the size of the domain of PRIntervalTime
          DelayLineLength, \* DELAY_LINE_LENGTH, 32 in the code
          FeedbackMax, \* FILTER_FEEDBACK_MAX in ticks of the clock
          Calls,       \* the methods that the user calls
          Start,       \* the time at which the model starts
          MaxTime,     \* bound: the time at which it stops
          MaxCalls,    \* bound: calls of the timers' methods
          MaxSleeps    \* bound: sleep and wake notifications

ASSUME TimerConstants == /\ NoTimer \notin Timer
                         /\ Types \subseteq {"one_shot", "slack", "precise"}
                         /\ Calls \subseteq {"init", "cancel", "delay", "release"}
                         /\ Delays \subseteq Nat
                         /\ Interval \in Nat /\ Interval > 1
                         /\ Start \in Nat \ {0} /\ MaxTime \in Nat
                         /\ DelayLineLength \in Nat \ {0} /\ FeedbackMax \in Nat
                         /\ Start <= MaxTime
                         /\ MaxTime - Start + (3 * FeedbackMax) \div 2 < Interval \div 2
                         /\ MaxCalls \in Nat /\ MaxSleeps \in Nat

VARIABLES now,           \* PR_IntervalNow()
          mTimers,       \* the timers to fire, the next one first
          mShutdown, mSleeping,
          mTimeoutAdjustment, \* what Run adds to the deadlines
          mDelayLineCounter,  \* the firings measured so far, up to DelayLineLength
          thread,        \* where TimerThread::Run is
          timer,         \* Run's local variable
          generation,    \* the generation in the event Run is posting
          wakeAt,        \* when PR_WaitCondVar times out, or Never
          mArmed, mCanceled, mGeneration, mType, mFiring, mDelay, mTimeout,
          mCallback,     \* mCallbackType is not CALLBACK_TYPE_UNKNOWN
          mRefCnt,
          gGenerator,
          events,        \* the nsTimerEvents in the user's queue
          held,          \* the timers the user has a reference to
          op, opTimer, opDelay, opType, opIndex, \* the call the user is in
          firing,        \* where nsTimerImpl::Fire is
          fired,         \* the timer of the event that is being run
          callback,      \* Fire's local variable: there is one to restore
          exit,          \* where TimerThread::Shutdown is
          timers,        \* the timers it has still to release
          nCalls, nSleeps

filterVars == <<mTimeoutAdjustment, mDelayLineCounter>>
runVars == <<thread, timer, generation, wakeAt>>
listVars == <<mTimers, mArmed, mRefCnt>>
userVars == <<op, opTimer, opDelay, opType, opIndex>>
fireVars == <<firing, fired, callback, mFiring>>
exitVars == <<exit, timers>>
boundVars == <<nCalls, nSleeps>>
vars == <<now, filterVars, listVars, mShutdown, mSleeping, runVars, mCanceled, mGeneration, mType,
          mDelay, mTimeout, mCallback, gGenerator, events, held, userVars, fireVars, exitVars,
          boundVars>>

Limit == Interval \div 2
MaxDelay == Limit - 1
Never == MaxTime + Interval

(* The greatest mTimeoutAdjustment: the slacks of the delay line lie within *)
(* FILTER_FEEDBACK_MAX, and their mean is multiplied by 1.5.                *)
MaxAdjustment == (3 * FeedbackMax) \div 2

(* TIMER_LESS_THAN(t, u): is t before u, even if the clock has wrapped? *)
LessThan(t, u) == (t + Interval * Never - u) % Interval > Limit

Init ==
  /\ now = Start
  /\ mTimers = <<>> /\ mShutdown = FALSE /\ mSleeping = FALSE
  /\ mTimeoutAdjustment = 0 /\ mDelayLineCounter = 0
  /\ thread = "run" /\ timer = NoTimer /\ generation = 0 /\ wakeAt = Never
  /\ mArmed = [t \in Timer |-> FALSE] /\ mCanceled = [t \in Timer |-> FALSE]
  /\ mGeneration = [t \in Timer |-> 0] /\ mType = [t \in Timer |-> "one_shot"]
  /\ mFiring = [t \in Timer |-> FALSE] /\ mDelay = [t \in Timer |-> 0]
  /\ mTimeout = [t \in Timer |-> 0] /\ mCallback = [t \in Timer |-> FALSE]
  /\ mRefCnt = [t \in Timer |-> 1]
  /\ gGenerator = 0 /\ events = <<>> /\ held = Timer
  /\ op = "none" /\ opTimer = NoTimer /\ opDelay = 0 /\ opType = "one_shot" /\ opIndex = 0
  /\ firing = "no" /\ fired = NoTimer /\ callback = FALSE
  /\ exit = "no" /\ timers = <<>> /\ nCalls = 0 /\ nSleeps = 0

Tick ==
  /\ now < MaxTime
  /\ now' = now + 1
  /\ UNCHANGED <<filterVars, listVars, mShutdown, mSleeping, runVars, mCanceled, mGeneration,
                 mType, mDelay, mTimeout, mCallback, gGenerator, events, held, userVars, fireVars,
                 exitVars, boundVars>>
--------------------------------------------------------------------------------
(* The operations on the list, all under mLock. *)

(* Mutant of Position: overdue timers are compared like the others. *)
PositionByTimeout(list, t) ==
  LET i == SelectInSeq(list, LAMBDA u : LessThan(mTimeout[t], mTimeout[u]))
  IN IF i = 0 THEN Len(list) + 1 ELSE i

(* AddTimerInternal: before the first timer that is neither overdue nor due *)
(* earlier.                                                                 *)
Position(list, t) ==
  LET later(u) == LessThan(now, mTimeout[u]) /\ LessThan(mTimeout[t], mTimeout[u])
      i == SelectInSeq(list, later)
  IN IF i = 0 THEN Len(list) + 1 ELSE i

Added(list, t) == InsertAt(list, Position(list, t), t)

Wakes == IF thread = "waiting" THEN "notified" ELSE thread

(* Mutants of AddTimer: the timer thread is not notified, or mShutdown is  *)
(* not tested.                                                             *)
AddTimerQuietly(t) ==
  IF mShutdown THEN UNCHANGED <<listVars, thread>>
  ELSE /\ mTimers' = Added(mTimers, t)
       /\ mArmed' = [mArmed EXCEPT ![t] = TRUE]
       /\ mRefCnt' = [mRefCnt EXCEPT ![t] = @ + 1]
       /\ UNCHANGED thread

(* AddTimer, which fails once the timer thread is shut down. *)
AddTimer(t) ==
  IF mShutdown THEN UNCHANGED <<listVars, thread>>
  ELSE /\ mTimers' = Added(mTimers, t)
       /\ mArmed' = [mArmed EXCEPT ![t] = TRUE]
       /\ mRefCnt' = [mRefCnt EXCEPT ![t] = @ + 1]
       /\ thread' = IF Position(mTimers, t) = 1 THEN Wakes ELSE thread

(* Mutant of RemoveTimer: mArmed is not cleared. *)
RemoveTimerArmed(t) ==
  IF ~Contains(mTimers, t) THEN UNCHANGED <<listVars, thread>>
  ELSE /\ mTimers' = RemoveFirst(mTimers, t)
       /\ mRefCnt' = [mRefCnt EXCEPT ![t] = @ - 1]
       /\ thread' = Wakes
       /\ UNCHANGED mArmed

(* RemoveTimer, of one occurrence and its reference. *)
RemoveTimer(t) ==
  IF ~Contains(mTimers, t) THEN UNCHANGED <<listVars, thread>>
  ELSE /\ mTimers' = RemoveFirst(mTimers, t)
       /\ mArmed' = [mArmed EXCEPT ![t] = FALSE]
       /\ mRefCnt' = [mRefCnt EXCEPT ![t] = @ - 1]
       /\ thread' = Wakes

(* TimerDelayChanged adds the timer even when it was not in the list. *)
TimerDelayChanged(t) ==
  LET rest == RemoveFirst(mTimers, t)
      found == IF Contains(mTimers, t) THEN 1 ELSE 0
      armed == IF mShutdown THEN 0 ELSE 1
  IN
  /\ mTimers' = IF mShutdown THEN rest ELSE Added(rest, t)
  /\ mArmed' = [mArmed EXCEPT ![t] = IF mShutdown THEN @ /\ found = 0 ELSE TRUE]
  /\ mRefCnt' = [mRefCnt EXCEPT ![t] = @ + armed - found]
  /\ thread' = IF ~mShutdown /\ Position(rest, t) = 1 THEN Wakes ELSE thread

(* SetDelayInternal.  A precise timer counts from its last deadline. *)
Capped(d) == IF d > MaxDelay THEN MaxDelay ELSE d
SetDelayInternal(t, type, base, d) ==
  /\ mDelay' = [mDelay EXCEPT ![t] = Capped(d)]
  /\ mTimeout' = [mTimeout EXCEPT ![t] =
                    Capped(d) + IF base % Interval = 0 \/ type # "precise" THEN now ELSE base]
--------------------------------------------------------------------------------
(* TimerThread::Run *)

Adjusted(t) == mTimeout[t] + mTimeoutAdjustment
Due(t) == ~LessThan(now, Adjusted(t))

(* Mutant of TakeTimer: only the list's reference is there, and it goes. *)
TakeTimerWeakly ==
  /\ mTimers # <<>> /\ Due(Head(mTimers))
  /\ timer' = Head(mTimers)
  /\ mTimers' = Tail(mTimers)
  /\ mArmed' = [mArmed EXCEPT ![Head(mTimers)] = FALSE]
  /\ mRefCnt' = [mRefCnt EXCEPT ![Head(mTimers)] = @ - 1]
  /\ thread' = "post"
  /\ UNCHANGED wakeAt

(* The first timer is due.  The reference taken before it is removed from  *)
(* the list is the one that PostTimerEvent hands on to the event.          *)
TakeTimer ==
  /\ mTimers # <<>> /\ Due(Head(mTimers))
  /\ timer' = Head(mTimers)
  /\ mTimers' = Tail(mTimers)
  /\ mArmed' = [mArmed EXCEPT ![Head(mTimers)] = FALSE]
  /\ thread' = "post"
  /\ UNCHANGED <<mRefCnt, wakeAt>>

Sleep(until) ==
  /\ thread' = "waiting"
  /\ wakeAt' = until
  /\ UNCHANGED <<listVars, timer>>

(* From the top of the loop, and after an event was posted ("next"). *)
Run ==
  /\ \/ thread = "run" /\ ~mShutdown /\ mSleeping /\ Sleep(now + 1)
     \/ /\ (thread = "run" /\ ~mSleeping) \/ thread = "next"
        /\ ~mShutdown
        /\ \/ TakeTimer
           \/ mTimers = <<>> /\ Sleep(Never)
           \/ mTimers # <<>> /\ ~Due(Head(mTimers)) /\ Sleep(Adjusted(Head(mTimers)))
     \/ thread \in {"run", "next"} /\ mShutdown /\ thread' = "exit" /\ UNCHANGED <<listVars, timer, wakeAt>>
  /\ UNCHANGED <<now, filterVars, mShutdown, mSleeping, generation, mCanceled, mGeneration, mType,
                 mDelay, mTimeout, mCallback, gGenerator, events, held, userVars, fireVars,
                 exitVars, boundVars>>

(* PR_WaitCondVar returns. *)
WakeUp ==
  /\ thread = "notified" \/ (thread = "waiting" /\ now >= wakeAt)
  /\ thread' = "run" /\ wakeAt' = Never
  /\ UNCHANGED <<now, filterVars, listVars, mShutdown, mSleeping, timer, generation, mCanceled,
                 mGeneration, mType, mDelay, mTimeout, mCallback, gGenerator, events, held,
                 userVars, fireVars, exitVars, boundVars>>

(* Mutant of PostTimerEvent: the event's generation is not filled in. *)
PostWithoutGeneration ==
  /\ thread = "post"
  /\ generation' = 0
  /\ thread' = "type"
  /\ UNCHANGED <<now, filterVars, listVars, mShutdown, mSleeping, timer, wakeAt, mCanceled,
                 mGeneration, mType, mDelay, mTimeout, mCallback, gGenerator, events, held,
                 userVars, fireVars, exitVars, boundVars>>

(* PostTimerEvent, outside the lock: the event gets the timer's present    *)
(* generation, ...                                                         *)
PostTimerEvent ==
  /\ thread = "post"
  /\ generation' = mGeneration[timer]
  /\ thread' = "type"
  /\ UNCHANGED <<now, filterVars, listVars, mShutdown, mSleeping, timer, wakeAt, mCanceled,
                 mGeneration, mType, mDelay, mTimeout, mCallback, gGenerator, events, held,
                 userVars, fireVars, exitVars, boundVars>>

(* ... a precise timer gets its next deadline, ... *)
PostPrecise ==
  /\ thread = "type"
  /\ IF mType[timer] = "precise"
     THEN thread' = "add" /\ SetDelayInternal(timer, "precise", mTimeout[timer], mDelay[timer])
     ELSE thread' = "dispatch" /\ UNCHANGED <<mDelay, mTimeout>>
  /\ UNCHANGED <<now, filterVars, listVars, mShutdown, mSleeping, timer, generation, wakeAt,
                 mCanceled, mGeneration, mType, mCallback, gGenerator, events, held, userVars,
                 fireVars, exitVars, boundVars>>

(* ... and is added again; if that fails no event is posted. *)
PostAdd ==
  /\ thread = "add"
  /\ IF mShutdown
     THEN thread' = "drop" /\ UNCHANGED listVars
     ELSE /\ mTimers' = Added(mTimers, timer)
          /\ mArmed' = [mArmed EXCEPT ![timer] = TRUE]
          /\ mRefCnt' = [mRefCnt EXCEPT ![timer] = @ + 1]
          /\ thread' = "dispatch"
  /\ UNCHANGED <<now, filterVars, mShutdown, mSleeping, timer, generation, wakeAt, mCanceled,
                 mGeneration, mType, mDelay, mTimeout, mCallback, gGenerator, events, held,
                 userVars, fireVars, exitVars, boundVars>>

PostDispatch ==
  /\ thread = "dispatch"
  /\ events' = Append(events, [t |-> timer, gen |-> generation])
  /\ thread' = "next" /\ timer' = NoTimer /\ generation' = 0
  /\ UNCHANGED <<now, filterVars, listVars, mShutdown, mSleeping, wakeAt, mCanceled,
                 mGeneration, mType, mDelay, mTimeout, mCallback, gGenerator, held, userVars,
                 fireVars, exitVars, boundVars>>

(* PostTimerEvent failed and Run releases the timer itself.  Release finds  *)
(* nothing to remove: the list was emptied when mShutdown was set.          *)
PostFailed ==
  /\ thread = "drop"
  /\ mRefCnt' = [mRefCnt EXCEPT ![timer] = @ - 1]
  /\ mCanceled' = [mCanceled EXCEPT ![timer] = @ \/ (mRefCnt[timer] = 2 /\ mArmed[timer])]
  /\ thread' = "next" /\ timer' = NoTimer /\ generation' = 0
  /\ UNCHANGED <<now, filterVars, mTimers, mArmed, mShutdown, mSleeping, wakeAt,
                 mGeneration, mType, mDelay, mTimeout, mCallback, gGenerator, events, held,
                 userVars, fireVars, exitVars, boundVars>>
--------------------------------------------------------------------------------
(* The user's calls. *)

UserFree == op = "none" /\ timers = <<>> /\ exit # "down"

MayCall(call, t) ==
  /\ UserFree /\ firing \in {"no", "callback"}
  /\ call \in Calls /\ t \in held /\ nCalls < MaxCalls
  /\ nCalls' = nCalls + 1

Calling(step, t) == op' = step /\ opTimer' = t /\ UNCHANGED opIndex

Goes(from, to) == op = from /\ op' = to /\ UNCHANGED <<opTimer, opDelay, opType, opIndex, nCalls>>

(* The call returns and its locals are gone. *)
Idle == op' = "none" /\ opTimer' = NoTimer /\ opDelay' = 0 /\ opType' = "one_shot" /\ opIndex' = 0
Returns(from) == op = from /\ Idle /\ UNCHANGED nCalls

(* InitWithCallback and InitCommon, up to the test of mArmed. *)
InitTimer(t, type, d) ==
  /\ MayCall("init", t)
  /\ mCallback' = [mCallback EXCEPT ![t] = TRUE]
  /\ Calling(IF mArmed[t] THEN "init_remove" ELSE "init_generation", t)
  /\ opType' = type /\ opDelay' = d
  /\ UNCHANGED <<now, filterVars, listVars, mShutdown, mSleeping, runVars, mCanceled, mGeneration,
                 mType, mDelay, mTimeout, gGenerator, events, held, fireVars, exitVars, nSleeps>>

InitRemove ==
  /\ Goes("init_remove", "init_generation")
  /\ RemoveTimer(opTimer)
  /\ UNCHANGED <<now, filterVars, mShutdown, mSleeping, timer, generation, wakeAt, mCanceled,
                 mGeneration, mType, mDelay, mTimeout, mCallback, gGenerator, events, held,
                 fireVars, exitVars, nSleeps>>

InitGeneration ==
  /\ Goes("init_generation", "init_delay")
  /\ mCanceled' = [mCanceled EXCEPT ![opTimer] = FALSE]
  /\ gGenerator' = gGenerator + 1
  /\ mGeneration' = [mGeneration EXCEPT ![opTimer] = gGenerator + 1]
  /\ UNCHANGED <<now, filterVars, listVars, mShutdown, mSleeping, runVars, mType, mDelay, mTimeout,
                 mCallback, events, held, fireVars, exitVars, nSleeps>>

InitDelay ==
  /\ Goes("init_delay", "init_add")
  /\ mType' = [mType EXCEPT ![opTimer] = opType]
  /\ SetDelayInternal(opTimer, opType, mTimeout[opTimer], opDelay)
  /\ UNCHANGED <<now, filterVars, listVars, mShutdown, mSleeping, runVars, mCanceled, mGeneration,
                 mCallback, gGenerator, events, held, fireVars, exitVars, nSleeps>>

InitAdd ==
  /\ Returns("init_add")
  /\ AddTimer(opTimer)
  /\ UNCHANGED <<now, filterVars, mShutdown, mSleeping, timer, generation, wakeAt, mCanceled,
                 mGeneration, mType, mDelay, mTimeout, mCallback, gGenerator, events, held,
                 fireVars, exitVars, nSleeps>>

Cancel(t) ==
  /\ MayCall("cancel", t)
  /\ mCanceled' = [mCanceled EXCEPT ![t] = TRUE]
  /\ Calling("cancel", t)
  /\ UNCHANGED <<now, filterVars, listVars, mShutdown, mSleeping, runVars, mGeneration, mType,
                 mDelay, mTimeout, mCallback, gGenerator, events, held, opDelay, opType, fireVars,
                 exitVars, nSleeps>>

CancelRemove ==
  /\ Returns("cancel")
  /\ RemoveTimer(opTimer)
  /\ mCallback' = [mCallback EXCEPT ![opTimer] = FALSE]
  /\ UNCHANGED <<now, filterVars, mShutdown, mSleeping, timer, generation, wakeAt, mCanceled,
                 mGeneration, mType, mDelay, mTimeout, gGenerator, events, held, fireVars,
                 exitVars, nSleeps>>

(* SetDelay, up to TimerDelayChanged.  A one-shot timer must be set up. *)
Unset(t) == ~mCallback[t] /\ mType[t] = "one_shot"
SetDelayFields(t, d) ==
  SetDelayInternal(t, mType[t],
                   IF mTimeout[t] % Interval # 0 /\ mType[t] = "precise" THEN now ELSE mTimeout[t],
                   d)

SetDelay(t, d) ==
  /\ MayCall("delay", t) /\ ~Unset(t)
  /\ SetDelayFields(t, d)
  /\ IF mFiring[t] THEN UNCHANGED userVars
     ELSE Calling("delay", t) /\ UNCHANGED <<opDelay, opType>>
  /\ UNCHANGED <<now, filterVars, listVars, mShutdown, mSleeping, runVars, mCanceled, mGeneration,
                 mType, mCallback, gGenerator, events, held, fireVars, exitVars, nSleeps>>

SetDelayChanged ==
  /\ Returns("delay")
  /\ TimerDelayChanged(opTimer)
  /\ UNCHANGED <<now, filterVars, mShutdown, mSleeping, timer, generation, wakeAt, mCanceled,
                 mGeneration, mType, mDelay, mTimeout, mCallback, gGenerator, events, held,
                 fireVars, exitVars, nSleeps>>

(* nsTimerImpl::Release: the count goes down.  If one reference is left it *)
(* may be the list's.                                                      *)
Drop(t) ==
  /\ mRefCnt' = [mRefCnt EXCEPT ![t] = @ - 1]
  /\ IF mRefCnt[t] = 2 THEN Calling("release", t) /\ UNCHANGED <<opDelay, opType>>
     ELSE UNCHANGED userVars

Release(t) ==
  /\ MayCall("release", t)
  /\ held' = held \ {t}
  /\ Drop(t)
  /\ UNCHANGED <<now, filterVars, mTimers, mArmed, mShutdown, mSleeping, runVars, mCanceled,
                 mGeneration, mType, mDelay, mTimeout, mCallback, gGenerator, events, fireVars,
                 exitVars, nSleeps>>

(* Mutant of ReleaseTest: the list's reference is not looked for. *)
ReleaseOnly ==
  /\ Returns("release")
  /\ UNCHANGED <<now, filterVars, listVars, mShutdown, mSleeping, runVars, mCanceled, mGeneration,
                 mType, mDelay, mTimeout, mCallback, gGenerator, events, held, fireVars, exitVars,
                 nSleeps>>

ReleaseTest ==
  /\ op = "release"
  /\ IF mArmed[opTimer] THEN Goes("release", "release_remove") ELSE Returns("release")
  /\ mCanceled' = [mCanceled EXCEPT ![opTimer] = @ \/ mArmed[opTimer]]
  /\ UNCHANGED <<now, filterVars, listVars, mShutdown, mSleeping, runVars, mGeneration, mType,
                 mDelay, mTimeout, mCallback, gGenerator, events, held, fireVars, exitVars,
                 nSleeps>>

ReleaseRemove ==
  /\ Returns("release_remove")
  /\ RemoveTimer(opTimer)
  /\ UNCHANGED <<now, filterVars, mShutdown, mSleeping, timer, generation, wakeAt, mCanceled,
                 mGeneration, mType, mDelay, mTimeout, mCallback, gGenerator, events, held,
                 fireVars, exitVars, nSleeps>>
--------------------------------------------------------------------------------
(* nsTimerEvent::Run and nsTimerImpl::Fire, on the user's thread. *)

Stale(e) == e.gen # mGeneration[e.t]

(* UpdateFilter, which takes no lock.  Once the delay line is full, the     *)
(* adjustment follows from how late or early the latest timers fired: any   *)
(* value within the limits.  (The present one is among them, so the         *)
(* counter's overflow after 2^32 firings, which starts a new delay line and *)
(* keeps the adjustment, is included.)                                      *)
UpdateFilter ==
  IF mDelayLineCounter + 1 < DelayLineLength
  THEN mDelayLineCounter' = mDelayLineCounter + 1 /\ UNCHANGED mTimeoutAdjustment
  ELSE /\ mDelayLineCounter' = DelayLineLength
       /\ mTimeoutAdjustment' \in -MaxAdjustment .. MaxAdjustment

Fire ==
  LET e == Head(events) IN
  /\ UserFree /\ firing = "no" /\ events # <<>>
  /\ events' = Tail(events)
  /\ fired' = e.t
  /\ IF Stale(e) \/ mCanceled[e.t]
     THEN firing' = "end" /\ UNCHANGED <<callback, mCallback, mFiring, filterVars>>
     ELSE /\ firing' = IF mCallback[e.t] THEN "callback" ELSE "nothing"
          /\ callback' = mCallback[e.t]
          /\ mCallback' = [mCallback EXCEPT ![e.t] = FALSE]
          /\ mFiring' = [mFiring EXCEPT ![e.t] = TRUE]
          /\ UpdateFilter
  /\ UNCHANGED <<now, listVars, mShutdown, mSleeping, runVars, mCanceled, mGeneration, mType,
                 mDelay, mTimeout, gGenerator, held, userVars, exitVars, boundVars>>

(* The callback returns and is restored if it is needed again. *)
FireReturns ==
  /\ UserFree /\ firing \in {"callback", "nothing"}
  /\ mCallback' = [mCallback EXCEPT ![fired] =
                     @ \/ (callback /\ mType[fired] # "one_shot" /\ ~mCanceled[fired])]
  /\ mFiring' = [mFiring EXCEPT ![fired] = FALSE]
  /\ callback' = FALSE
  /\ IF mType[fired] = "slack" /\ ~mArmed[fired]
     THEN firing' = "add" /\ SetDelayInternal(fired, "slack", mTimeout[fired], mDelay[fired])
     ELSE firing' = "end" /\ UNCHANGED <<mDelay, mTimeout>>
  /\ UNCHANGED <<now, filterVars, listVars, mShutdown, mSleeping, runVars, mCanceled, mGeneration,
                 mType, gGenerator, events, held, userVars, fired, exitVars, boundVars>>

FireAdd ==
  /\ firing = "add"
  /\ AddTimer(fired)
  /\ firing' = "end"
  /\ UNCHANGED <<now, filterVars, mShutdown, mSleeping, timer, generation, wakeAt, mCanceled,
                 mGeneration, mType, mDelay, mTimeout, mCallback, gGenerator, events, held,
                 userVars, fired, callback, mFiring, exitVars, boundVars>>

(* The event's reference is released. *)
EventDone ==
  /\ firing = "end"
  /\ firing' = "no" /\ fired' = NoTimer
  /\ Drop(fired)
  /\ UNCHANGED <<now, filterVars, mTimers, mArmed, mShutdown, mSleeping, runVars, mCanceled,
                 mGeneration, mType, mDelay, mTimeout, mCallback, gGenerator, events, held,
                 callback, mFiring, exitVars, boundVars>>
--------------------------------------------------------------------------------
(* TimerThread::Observe *)

DoBeforeSleep ==
  /\ UserFree /\ firing = "no" /\ nSleeps < MaxSleeps
  /\ mSleeping' = TRUE
  /\ nSleeps' = nSleeps + 1
  /\ UNCHANGED <<now, filterVars, listVars, mShutdown, runVars, mCanceled, mGeneration, mType,
                 mDelay, mTimeout, mCallback, gGenerator, events, held, userVars, fireVars,
                 exitVars, nCalls>>

DoAfterSleep ==
  /\ UserFree /\ firing = "no" /\ nSleeps < MaxSleeps
  /\ mSleeping' = TRUE
  /\ nSleeps' = nSleeps + 1
  /\ op' = "wake" /\ opIndex' = 1
  /\ UNCHANGED <<now, filterVars, listVars, mShutdown, runVars, mCanceled, mGeneration, mType,
                 mDelay, mTimeout, mCallback, gGenerator, events, held, opTimer, opDelay, opType,
                 fireVars, exitVars, nCalls>>

(* timer->SetDelay(delay) for each element of the list, which is read      *)
(* without the lock and which TimerDelayChanged reorders.                  *)
AfterSleepNext ==
  /\ op = "wake"
  /\ IF opIndex > Len(mTimers)
     THEN /\ Idle /\ mSleeping' = FALSE
          /\ mTimeoutAdjustment' = 0 /\ mDelayLineCounter' = 0
          /\ UNCHANGED <<mDelay, mTimeout>>
     ELSE LET t == mTimers[opIndex] IN
          /\ UNCHANGED <<mSleeping, filterVars, opDelay, opType>>
          /\ IF Unset(t)
             THEN opIndex' = opIndex + 1 /\ UNCHANGED <<op, opTimer, mDelay, mTimeout>>
             ELSE SetDelayFields(t, mDelay[t]) /\ Calling("wake_changed", t)
  /\ UNCHANGED <<now, listVars, mShutdown, runVars, mCanceled, mGeneration, mType, mCallback,
                 gGenerator, events, held, fireVars, exitVars, boundVars>>

AfterSleepChanged ==
  /\ op = "wake_changed"
  /\ op' = "wake" /\ opTimer' = NoTimer /\ opIndex' = opIndex + 1
  /\ TimerDelayChanged(opTimer)
  /\ UNCHANGED <<now, filterVars, mShutdown, mSleeping, timer, generation, wakeAt, mCanceled,
                 mGeneration, mType, mDelay, mTimeout, mCallback, gGenerator, events, held,
                 opDelay, opType, fireVars, exitVars, boundVars>>
--------------------------------------------------------------------------------
(* TimerThread::Shutdown *)

Shutdown ==
  /\ UserFree /\ firing = "no" /\ exit = "no"
  /\ exit' = "joining"
  /\ mShutdown' = TRUE
  /\ thread' = Wakes
  /\ timers' = mTimers
  /\ mTimers' = <<>>
  /\ UNCHANGED <<now, filterVars, mArmed, mRefCnt, mSleeping, timer, generation, wakeAt, mCanceled,
                 mGeneration, mType, mDelay, mTimeout, mCallback, gGenerator, events, held,
                 userVars, fireVars, boundVars>>

(* ReleaseCallback and ReleaseTimerInternal, outside the lock. *)
ShutdownRelease ==
  /\ timers # <<>>
  /\ timers' = Tail(timers)
  /\ mCallback' = [mCallback EXCEPT ![Head(timers)] = FALSE]
  /\ mArmed' = [mArmed EXCEPT ![Head(timers)] = FALSE]
  /\ mRefCnt' = [mRefCnt EXCEPT ![Head(timers)] = @ - 1]
  /\ UNCHANGED <<now, filterVars, mTimers, mShutdown, mSleeping, runVars, mCanceled, mGeneration,
                 mType, mDelay, mTimeout, gGenerator, events, held, userVars, fireVars, exit,
                 boundVars>>

(* mThread->Shutdown() returns; events are processed until then. *)
ShutdownJoined ==
  /\ UserFree /\ firing = "no" /\ exit = "joining" /\ thread = "exit"
  /\ exit' = "down"
  /\ UNCHANGED <<now, filterVars, listVars, mShutdown, mSleeping, runVars, mCanceled, mGeneration,
                 mType, mDelay, mTimeout, mCallback, gGenerator, events, held, userVars, fireVars,
                 timers, boundVars>>
--------------------------------------------------------------------------------
ThreadStep == Run \/ WakeUp \/ PostTimerEvent \/ PostPrecise \/ PostAdd \/ PostDispatch \/ PostFailed

CallStep == \/ InitRemove \/ InitGeneration \/ InitDelay \/ InitAdd
            \/ CancelRemove \/ SetDelayChanged \/ ReleaseTest \/ ReleaseRemove
            \/ AfterSleepNext \/ AfterSleepChanged \/ ShutdownRelease \/ ShutdownJoined

FireStep == Fire \/ FireReturns \/ FireAdd \/ EventDone

UserCall == \/ \E t \in Timer, type \in Types, d \in Delays : InitTimer(t, type, d)
            \/ \E t \in Timer, d \in Delays : SetDelay(t, d)
            \/ \E t \in Timer : Cancel(t) \/ Release(t)
            \/ DoBeforeSleep \/ DoAfterSleep \/ Shutdown

Next == Tick \/ ThreadStep \/ CallStep \/ FireStep \/ UserCall

Spec == Init /\ [][Next]_vars

(* Time passes, both threads are scheduled, and the user's thread comes    *)
(* back to its event loop.                                                 *)
FairSpec == /\ Spec
            /\ WF_vars(Tick) /\ WF_vars(ThreadStep) /\ WF_vars(CallStep) /\ WF_vars(FireStep)
--------------------------------------------------------------------------------
Listed(t) == Contains(mTimers, t)

(* The type invariant: delays stay below DELAY_INTERVAL_MAX, and there is no *)
(* adjustment before the delay line is full (asserted in UpdateFilter).      *)
TypeOK ==
  /\ now \in Start .. MaxTime
  /\ mTimers \in Seq(Timer) /\ timers \in Seq(Timer)
  /\ mShutdown \in BOOLEAN /\ mSleeping \in BOOLEAN
  /\ mDelayLineCounter \in 0 .. DelayLineLength
  /\ mTimeoutAdjustment \in IF mDelayLineCounter < DelayLineLength THEN {0}
                             ELSE -MaxAdjustment .. MaxAdjustment
  /\ thread \in {"run", "next", "waiting", "notified", "post", "type", "add", "dispatch", "drop", "exit"}
  /\ timer \in Timer \cup {NoTimer} /\ generation \in 0 .. MaxCalls /\ wakeAt \in Int
  /\ mArmed \in [Timer -> BOOLEAN] /\ mCanceled \in [Timer -> BOOLEAN]
  /\ mGeneration \in [Timer -> 0 .. MaxCalls] /\ gGenerator \in 0 .. MaxCalls
  /\ mType \in [Timer -> {"one_shot", "slack", "precise"}]
  /\ mFiring \in [Timer -> BOOLEAN] /\ mCallback \in [Timer -> BOOLEAN]
  /\ mDelay \in [Timer -> 0 .. MaxDelay] /\ mTimeout \in [Timer -> Nat] /\ mRefCnt \in [Timer -> Nat]
  /\ events \in Seq([t: Timer, gen: 0 .. MaxCalls])
  /\ held \subseteq Timer
  /\ op \in {"none", "init_remove", "init_generation", "init_delay", "init_add", "cancel", "delay",
            "release", "release_remove", "wake", "wake_changed"}
  /\ opTimer \in Timer \cup {NoTimer} /\ opDelay \in Nat /\ opIndex \in Nat
  /\ opType \in {"one_shot", "slack", "precise"}
  /\ firing \in {"no", "callback", "nothing", "add", "end"} /\ fired \in Timer \cup {NoTimer}
  /\ callback \in BOOLEAN /\ exit \in {"no", "joining", "down"}
  /\ nCalls \in 0 .. MaxCalls /\ nSleeps \in 0 .. MaxSleeps

(* Whoever may still use a timer finds it alive: the list, the timer       *)
(* thread, an event, the user, and the call the user is in.  Release has   *)
(* given its reference up when it calls RemoveTimer, which only compares   *)
(* the pointer ("may be passing a (now-)weak ref", TimerThread::           *)
(* RemoveTimer).  When Release reads mArmed the timer must still be alive, *)
(* and it is, with one exception, which is a defect of the code: if a      *)
(* precise timer cannot be added again because of Shutdown, the timer      *)
(* thread releases it itself and may destroy it between the user's         *)
(* decrement and that read.  The comment and the assertion in Run          *)
(* ("destroyed timer off its target thread!") say that this never happens. *)
(* "Timers remain in TimerThread::~TimerThread" is asserted not to happen: *)
(* after Shutdown the list is empty, and stays so although callbacks and   *)
(* the timer thread went on adding timers meanwhile.  (In states of the    *)
(* right types.)                                                           *)
DestroyedByTimerThread == op = "release" /\ mShutdown /\ "precise" \in Types

NoDanglingTimer ==
  /\ TypeOK
  /\ mShutdown => mTimers = <<>>
  /\ \A t \in Timer : mRefCnt[t] = 0 =>
       /\ ~Listed(t) /\ ~Contains(timers, t)
       /\ t \notin held \cup {timer, fired}
       /\ \A i \in DOMAIN events : events[i].t # t
       /\ opTimer = t => op = "release_remove" \/ DestroyedByTimerThread

(* Whoever tests mArmed outside the lock learns whether the timer is in    *)
(* the list at that moment (InitCommon, Release and Fire rely on it).      *)
ArmedMeansListed == ~mShutdown => \A t \in Timer : mArmed[t] <=> Listed(t)

(* A timer that is not yet due never stands before one that is due sooner, *)
(* whatever the clock's wrapping and overdue timers do to the comparisons. *)
ListOrdered ==
  op \notin {"delay", "wake_changed"} =>
    \A i, j \in DOMAIN mTimers :
      (i < j /\ now < mTimeout[mTimers[i]]) => mTimeout[mTimers[i]] <= mTimeout[mTimers[j]]

(* "Don't wait at all ... if the next timer is due now or overdue"         *)
(* (TimerThread::Run): the timer thread does not sleep past the deadline   *)
(* of any timer in its list by more than the greatest adjustment, wherever *)
(* timers are added, removed and fired while it goes to sleep and sleeps.  *)
(* For a timer that is already overdue, and kept back by the adjustment,   *)
(* it sleeps no longer than that either.  (SetDelay may break it while it  *)
(* is being called.)                                                       *)
LatestWake(t) == (IF now < mTimeout[t] THEN mTimeout[t] ELSE now) + MaxAdjustment
NeverOversleeps ==
  (thread = "waiting" /\ now < wakeAt /\ op # "delay") =>
    \A i \in DOMAIN mTimers : wakeAt <= LatestWake(mTimers[i])

(* "everyone else except the TimerThread ... dropping all their strong     *)
(* refs without implicitly canceling the timer" is precluded               *)
(* (nsTimerImpl::Release): once nobody but the list can have a reference,  *)
(* the timer is gone.                                                      *)
ReleasedTimersGo ==
  \A t \in Timer :
    (op = "none" /\ t \notin held \cup {timer, fired} /\ (\A i \in DOMAIN events : events[i].t # t))
      => ~Listed(t)

(* "so we can avoid firing a timer that was re-initialized"                *)
(* (PostTimerEvent): a callback is never called before the deadline of its *)
(* timer's latest initialisation.                                          *)
NeverEarly ==
  [][(firing = "no" /\ firing' = "callback" /\ mType[fired'] # "precise")
       => now >= mTimeout[fired']]_vars

(* A timer that is armed fires, unless it is cancelled or released, the   *)
(* timer thread is shut down, or its deadline, or that of the timer before *)
(* which it cannot be taken, may lie beyond the model's end.               *)
MayOutlast(t) == mTimeout[t] + MaxAdjustment > MaxTime
TimersFire ==
  \A t \in Timer :
    Listed(t) ~> \/ mFiring[t] \/ mCanceled[t] \/ mShutdown \/ MayOutlast(t)
                 \/ mTimers # <<>> /\ MayOutlast(Head(mTimers))
================================================================================
