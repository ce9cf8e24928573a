----------------------------- MODULE TimerQueue -----------------------------
(***************************************************************************)
(* kanon/linux/net/timer/timer_queue.{h,cc}, kanon/net/timer/timer.h and   *)
(* timer_id.h: the timers of one EventLoop.                                *)
(*                                                                         *)
(* A timer is the number its constructor draws from s_counter_; timers_ is *)
(* ordered by <<expiration, number>>.  RunInLoop() from another thread is  *)
(* what SerialExecutor promises: a FIFO queue of functors that the loop    *)
(* runs between two passes over its channels.                              *)
(*                                                                         *)
(* Time is a clock that saturates at MaxTime: later instants are not told  *)
(* apart.  A tick stands for the 100 microseconds that GetTimeFromNow()    *)
(* makes the smallest delay; SecondLen ticks make a second of time(2).     *)
(***************************************************************************)
EXTENDS Naturals, Sequences

CONSTANTS
    Timers,         \* numbers of the timers that may be created
    Interval,       \* Interval[t]: 0 for a once timer, else the period
    Delays,         \* delays passed to RunAfter(), 0 for an instant gone by
    MaxTime,        \* bound: the clock saturates here
    SecondLen,      \* ticks per second of time(2)
    Foreign         \* whether threads other than the loop's call the API

ASSUME TimersAssumption == Timers \subseteq Nat \ {0}
ASSUME IntervalAssumption == Interval \in [Timers -> Nat]
ASSUME DelaysAssumption == Delays \subseteq Nat
ASSUME TimeAssumption == MaxTime \in Nat /\ SecondLen \in Nat \ {0}
ASSUME ForeignAssumption == Foreign \in BOOLEAN

VARIABLES
    now,                \* TimeStamp::Now()
    mode,               \* what the loop does with the timer channel
    timers_,            \* active timers
    expiration,         \* expiration_ of each timer
    calling_timer_,
    canceling_timers_,  \* pairs of a timer and the second it was hashed in
    expireds,           \* local vector of ProcessAllExpiredTimers()
    toRun,              \* the part of expireds whose callback did not start
    cur,                \* the timer whose callback runs, or NoTimer
    batchNow,           \* local now of ProcessAllExpiredTimers()
    armed,              \* instant the timerfd expires at, or Disarmed
    readable,           \* whether the timerfd is readable
    queue,              \* functors queued by other threads
    created,            \* timers allocated
    deleted,            \* timers deleted
    returned,           \* timers whose TimerId the caller of AddTimer() has
    cancelled,          \* history: timers whose cancel functor has run
    erased              \* history: timers that CancelTimer() found active

fdVars == <<armed, readable>>
batchVars == <<calling_timer_, expireds, toRun, cur, batchNow, mode>>
history == <<cancelled, erased>>
vars == <<now, mode, timers_, expiration, calling_timer_, canceling_timers_,
          expireds, toRun, cur, batchNow, armed, readable, queue, created,
          deleted, returned, cancelled, erased>>

Disarmed == MaxTime + 1
NoTimer == 0

Repeat(t) == Interval[t] > 0
Second(time) == time \div SecondLen
Sat(time) == IF time > MaxTime THEN MaxTime ELSE time

\* GetTimeFromNow(): never less than one tick ahead.
FromNow(time) == Sat(IF time > now THEN time ELSE now + 1)

Init ==
    /\ now = 0
    /\ mode = "idle"
    /\ timers_ = {}
    /\ expiration = [t \in Timers |-> 0]
    /\ calling_timer_ = FALSE
    /\ canceling_timers_ = {}
    /\ expireds = {}
    /\ toRun = {}
    /\ cur = NoTimer
    /\ batchNow = 0
    /\ armed = Disarmed
    /\ readable = FALSE
    /\ queue = <<>>
    /\ created = {}
    /\ deleted = {}
    /\ returned = {}
    /\ cancelled = {}
    /\ erased = {}

-----------------------------------------------------------------------------
(* External: the clock and the timerfd.                                    *)

\* An armed timerfd becomes readable at its instant; it_interval is zero.
Tick ==
    /\ now < MaxTime
    /\ now' = now + 1
    /\ IF armed <= now + 1
         THEN readable' = TRUE /\ armed' = Disarmed
         ELSE UNCHANGED fdVars
    /\ UNCHANGED <<batchVars, timers_, expiration, canceling_timers_, queue,
                   created, deleted, returned, history>>

\* Once the clock has saturated an armed timerfd expires at some later moment.
FireLate ==
    /\ now = MaxTime
    /\ armed # Disarmed
    /\ readable' = TRUE
    /\ armed' = Disarmed
    /\ UNCHANGED <<now, batchVars, timers_, expiration, canceling_timers_, queue,
                   created, deleted, returned, history>>

-----------------------------------------------------------------------------
(* AddTimer().                                                             *)

\* Emplace() and, when the new timer is the earliest, SetTimerFd();
\* timerfd_settime() forgets an expiration that was not read.
EmplaceAndArm(t, time) ==
    /\ timers_' = timers_ \cup {t}
    /\ IF \A u \in timers_ : time < expiration[u]
         THEN armed' = FromNow(time) /\ readable' = FALSE
         ELSE UNCHANGED fdVars

\* Code of the user runs on the thread of the loop: between the passes over
\* the channels, in the handler of another channel, in the callback of a timer.
InUserCode == mode \in {"idle", "polled"} \/ cur # NoTimer

AddTimerInLoop(t, d) ==
    /\ InUserCode
    /\ t \notin created
    /\ created' = created \cup {t}
    /\ expiration' = [expiration EXCEPT ![t] = Sat(now + d)]
    /\ EmplaceAndArm(t, Sat(now + d))
    /\ returned' = returned \cup {t}
    /\ UNCHANGED <<now, batchVars, canceling_timers_, queue, deleted, history>>

\* Another thread allocates the timer and queues the functor.
AddTimer(t, d) ==
    /\ Foreign
    /\ mode # "destroyed"
    /\ t \notin created
    /\ created' = created \cup {t}
    /\ expiration' = [expiration EXCEPT ![t] = Sat(now + d)]
    /\ queue' = Append(queue, [op |-> "add", timer |-> t])
    /\ UNCHANGED <<now, batchVars, timers_, canceling_timers_, fdVars, deleted,
                   returned, history>>

\* return timer: the constructor of TimerId reads timer->sequence().
AddTimerReturns(t) ==
    /\ mode # "destroyed"
    /\ t \in created \ returned
    /\ returned' = returned \cup {t}
    /\ UNCHANGED <<now, batchVars, timers_, expiration, canceling_timers_, fdVars,
                   queue, created, deleted, history>>

RunAddFunctor ==
    /\ mode = "idle"
    /\ queue # <<>>
    /\ Head(queue).op = "add"
    /\ queue' = Tail(queue)
    /\ EmplaceAndArm(Head(queue).timer, expiration[Head(queue).timer])
    /\ UNCHANGED <<now, batchVars, expiration, canceling_timers_, created, deleted,
                   returned, history>>

-----------------------------------------------------------------------------
(* CancelTimer().                                                          *)

\* A wrong Cancel: every cancel of the calling phase is taken for a self-cancel.
CancelAsSelf(t) ==
    /\ cancelled' = cancelled \cup {t}
    /\ erased' = IF t \in timers_ THEN erased \cup {t} ELSE erased
    /\ IF calling_timer_
         THEN /\ canceling_timers_' = canceling_timers_ \cup {<<t, Second(now)>>}
              /\ UNCHANGED timers_
         ELSE /\ timers_' = timers_ \ {t}
              /\ UNCHANGED canceling_timers_

\* The functor of CancelTimer().  find() compares the key with the entries of
\* timers_, which reads the expiration of the timer of the key.
Cancel(t) ==
    /\ cancelled' = cancelled \cup {t}
    /\ IF t \in timers_
         THEN /\ timers_' = timers_ \ {t}
              /\ erased' = erased \cup {t}
              /\ UNCHANGED canceling_timers_
         ELSE /\ canceling_timers_' = IF calling_timer_
                                        THEN canceling_timers_ \cup {<<t, Second(now)>>}
                                        ELSE canceling_timers_
              /\ UNCHANGED <<timers_, erased>>

CancelTimerInLoop(t) ==
    /\ InUserCode
    /\ t \in returned
    /\ Cancel(t)
    /\ UNCHANGED <<now, batchVars, expiration, fdVars, queue, created, deleted,
                   returned>>

\* Bound: a thread cancels a timer while no cancel of it is queued.
CancelTimer(t) ==
    /\ Foreign
    /\ mode # "destroyed"
    /\ t \in returned
    /\ \A i \in DOMAIN queue : queue[i] # [op |-> "cancel", timer |-> t]
    /\ queue' = Append(queue, [op |-> "cancel", timer |-> t])
    /\ UNCHANGED <<now, batchVars, timers_, expiration, canceling_timers_, fdVars,
                   created, deleted, returned, history>>

RunCancelFunctor ==
    /\ mode = "idle"
    /\ queue # <<>>
    /\ Head(queue).op = "cancel"
    /\ queue' = Tail(queue)
    /\ Cancel(Head(queue).timer)
    /\ UNCHANGED <<now, batchVars, expiration, fdVars, created, deleted, returned>>

-----------------------------------------------------------------------------
(* ProcessAllExpiredTimers(), the read callback of the timer channel.      *)

\* Poll() returned the timer channel; the handlers of other channels may run
\* before its own.
PollReturns ==
    /\ mode = "idle"
    /\ readable
    /\ mode' = "polled"
    /\ UNCHANGED <<now, timers_, expiration, calling_timer_, canceling_timers_,
                   expireds, toRun, cur, batchNow, fdVars, queue, created, deleted,
                   returned, history>>

\* A wrong Expired: the entries below {&dummy_key, 0}.
ExpiredBefore(time) == {t \in timers_ : expiration[t] < time}

\* GetExpiredTimers(): the entries below {&dummy_key, UINT64_MAX}.
Expired(time) == {t \in timers_ : expiration[t] <= time}

\* A wrong ProcessAllExpiredTimers: calling_timer_ is not set.
ProcessUnflagged ==
    /\ mode = "polled"
    /\ mode' = "calling"
    /\ readable' = FALSE
    /\ batchNow' = now
    /\ expireds' = Expired(now)
    /\ toRun' = Expired(now)
    /\ timers_' = timers_ \ Expired(now)
    /\ canceling_timers_' = {}
    /\ UNCHANGED <<now, expiration, calling_timer_, cur, armed, queue, created,
                   deleted, returned, history>>

\* ReadTimerFd(), GetExpiredTimers(), then the start of the calling phase.  A
\* read of a timerfd that was armed again meanwhile fails and is only logged.
ProcessAllExpiredTimers ==
    /\ mode = "polled"
    /\ mode' = "calling"
    /\ readable' = FALSE
    /\ batchNow' = now
    /\ expireds' = Expired(now)
    /\ toRun' = Expired(now)
    /\ timers_' = timers_ \ Expired(now)
    /\ calling_timer_' = TRUE
    /\ canceling_timers_' = {}
    /\ UNCHANGED <<now, expiration, cur, armed, queue, created, deleted, returned,
                   history>>

\* The vector is in the order of timers_.
Before(t, u) ==
    \/ expiration[t] < expiration[u]
    \/ expiration[t] = expiration[u] /\ t <= u

RunCallback ==
    /\ mode = "calling"
    /\ cur = NoTimer
    /\ \E t \in toRun :
         /\ \A u \in toRun : Before(t, u)
         /\ cur' = t
         /\ toRun' = toRun \ {t}
    /\ UNCHANGED <<now, mode, timers_, expiration, calling_timer_,
                   canceling_timers_, expireds, batchNow, fdVars, queue, created,
                   deleted, returned, history>>

CallbackReturns ==
    /\ cur # NoTimer
    /\ cur' = NoTimer
    /\ UNCHANGED <<now, mode, timers_, expiration, calling_timer_,
                   canceling_timers_, expireds, toRun, batchNow, fdVars, queue,
                   created, deleted, returned, history>>

\* The exception of a callback is thrown again and leaves StartLoop(): the rest
\* of the vector is neither run nor reset, and calling_timer_ stays set.
CallbackThrows ==
    /\ cur # NoTimer
    /\ cur' = NoTimer
    /\ mode' = "dead"
    /\ expireds' = {}
    /\ toRun' = {}
    /\ UNCHANGED <<now, timers_, expiration, calling_timer_, canceling_timers_,
                   batchNow, fdVars, queue, created, deleted, returned, history>>

\* ~TimerQueue(), once the loop has quit or an exception has left it.
Destroy ==
    /\ mode \in {"idle", "dead"}
    /\ mode' = "destroyed"
    /\ deleted' = deleted \cup timers_
    /\ timers_' = {}
    /\ UNCHANGED <<now, expiration, calling_timer_, canceling_timers_, expireds,
                   toRun, cur, batchNow, fdVars, queue, created, returned, history>>

\* TimerEntryHash mixes time(NULL) into the hash: an entry put in during an
\* earlier second is looked for in a bucket that may not be its own.
MayMiss(t) ==
    /\ \E s \in 0..Second(MaxTime) : <<t, s>> \in canceling_timers_
    /\ <<t, Second(now)>> \notin canceling_timers_

Canceling(t) == \E s \in 0..Second(MaxTime) : <<t, s>> \in canceling_timers_

\* A wrong Restarted: once timers start again too.
RestartedAll(missed) == {t \in expireds : Canceling(t) => t \in missed}

\* ResetTimers(): periodic timers that canceling_timers_ does not report start
\* again, once timers are deleted, and the timerfd is armed for the earliest.
Restarted(missed) ==
    {t \in expireds : Repeat(t) /\ (Canceling(t) => t \in missed)}

\* A wrong ArmForEarliest: the timerfd is left as it is.
LeaveFd(active, exp) == UNCHANGED fdVars

ArmForEarliest(active, exp) ==
    IF active = {}
      THEN UNCHANGED fdVars
      ELSE \E e \in active :
             /\ \A u \in active : exp[e] <= exp[u]
             /\ armed' = FromNow(exp[e])
             /\ readable' = FALSE

ResetTimers ==
    /\ mode = "calling"
    /\ cur = NoTimer
    /\ toRun = {}
    /\ calling_timer_' = FALSE
    /\ \E missed \in SUBSET {t \in expireds : MayMiss(t)} :
         /\ timers_' = timers_ \cup Restarted(missed)
         /\ expiration' = [t \in Timers |->
                              IF t \in Restarted(missed)
                                THEN Sat(batchNow + Interval[t])
                                ELSE expiration[t]]
    /\ deleted' = deleted \cup {t \in expireds : ~Repeat(t)}
    /\ expireds' = {}
    /\ ArmForEarliest(timers_', expiration')
    /\ mode' = "idle"
    /\ UNCHANGED <<now, canceling_timers_, toRun, cur, batchNow, queue, created,
                   returned, history>>

-----------------------------------------------------------------------------
LoopStep ==
    \/ RunAddFunctor
    \/ RunCancelFunctor
    \/ PollReturns
    \/ ProcessAllExpiredTimers
    \/ RunCallback
    \/ CallbackReturns
    \/ ResetTimers

Calls ==
    \E t \in Timers :
      \/ \E d \in Delays : AddTimerInLoop(t, d) \/ AddTimer(t, d)
      \/ AddTimerReturns(t)
      \/ CancelTimerInLoop(t)
      \/ CancelTimer(t)

Next == LoopStep \/ CallbackThrows \/ Destroy \/ Calls \/ Tick \/ FireLate

Spec == Init /\ [][Next]_vars

\* The loop keeps running and polls after every batch of functors, however many
\* threads queue; the clock advances, the kernel fires the timerfd.
Fairness ==
    /\ WF_vars(LoopStep) /\ WF_vars(PollReturns)
    /\ WF_vars(Tick) /\ WF_vars(FireLate)
FairSpec == Spec /\ Fairness

-----------------------------------------------------------------------------
Functor == [op : {"add", "cancel"}, timer : Timers]

\* The modes and locals of the calling phase agree with calling_timer_, which is
\* what CancelTimer() consults to tell a self-cancel.
TypeOK ==
    /\ now \in 0..MaxTime /\ batchNow \in 0..MaxTime
    /\ mode \in {"idle", "polled", "calling", "dead", "destroyed"}
    /\ calling_timer_ \in BOOLEAN
    /\ mode = "calling" => calling_timer_
    /\ mode \in {"idle", "polled"} => ~calling_timer_
    /\ mode # "calling" => expireds = {} /\ toRun = {} /\ cur = NoTimer
    /\ timers_ \subseteq created /\ expireds \subseteq created
    /\ toRun \subseteq expireds /\ cur \in expireds \cup {NoTimer}
    /\ expiration \in [Timers -> 0..MaxTime]
    /\ canceling_timers_ \subseteq Timers \X Nat
    /\ armed \in 0..Disarmed /\ readable \in BOOLEAN
    /\ queue \in Seq(Functor)
    /\ \A i \in DOMAIN queue :
         queue[i].timer \in IF queue[i].op = "add" THEN created ELSE returned
    /\ created \subseteq Timers /\ deleted \subseteq created
    /\ returned \subseteq created
    /\ cancelled \subseteq returned /\ erased \subseteq cancelled

\* Whenever the loop goes back to Poll() with an active timer, the timerfd is
\* readable already or will be by the time of that timer, or one tick from now:
\* Emplace(), CancelTimer() and ResetTimers() between them never leave a timer
\* that nothing will wake the loop for.
TimerArmed ==
    mode = "idle" =>
      \A t \in timers_ :
        \/ readable
        \/ armed <= expiration[t]
        \/ armed <= Sat(now + 1)

\* A timer that is deleted is reachable neither from timers_, whose comparator
\* dereferences every entry, nor from the vector being processed, nor from a
\* queued AddTimer() functor: the raw Timer* have one owner each.
OwnedOnce ==
    /\ timers_ \cap deleted = {}
    /\ expireds \cap (deleted \cup timers_) = {}
    /\ \A i \in DOMAIN queue : queue[i].op = "add" =>
         /\ queue[i].timer \notin timers_ \cup expireds \cup deleted
         /\ \A j \in DOMAIN queue : queue[j] = queue[i] => i = j

\* A timer that CancelTimer() found active is gone for good: it is not run and
\* not put back by ResetTimers(), whatever phase the cancel came in.
ErasedForGood == erased \cap (timers_ \cup expireds) = {}

\* What the documentation of EventLoop::CancelTimer() says: once the timer was
\* removed from the event loop its callback is not called.
CancelledNeverRuns == [][cur' \in cancelled => cur' = cur]_vars

\* A timer put in timers_ leaves it, by expiring or by a cancel, unless the loop
\* ends first.
TimersFire ==
    \A t \in Timers :
      t \in timers_ ~> (t \notin timers_ \/ mode \in {"dead", "destroyed"})
=============================================================================
