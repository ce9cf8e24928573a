-------------------------- MODULE TimerQueueProofs --------------------------
(***************************************************************************)
(* Proofs about TimerQueue, for every set of timers, every interval and    *)
(* delay, every clock bound and any number of calling threads.             *)
(***************************************************************************)
EXTENDS TimerQueue, SequenceTheorems, TLAPS

USE TimersAssumption, IntervalAssumption, DelaysAssumption, TimeAssumption,
    ForeignAssumption

\* Saturated instants are instants of the clock.
LEMMA SatInRange == \A x \in Nat : Sat(x) \in 0..MaxTime
BY DEF Sat

\* GetTimeFromNow() yields an instant of the clock.
LEMMA FromNowInRange ==
    ASSUME now \in 0..MaxTime, NEW x \in 0..MaxTime
    PROVE  FromNow(x) \in 0..MaxTime
BY SatInRange DEF FromNow

\* A timer numbered from 1 is not the absent timer.
LEMMA NoTimerIsNone == NoTimer \notin Timers
BY DEF NoTimer

\* Seconds of time(2) are natural numbers.
LEMMA SecondIsNat == now \in 0..MaxTime => Second(now) \in Nat
BY DEF Second

-----------------------------------------------------------------------------
(* Types.                                                                  *)

\* What both forms of adding do to timers_ and the timerfd keeps their types.
LEMMA EmplaceType ==
    ASSUME TypeOK, NEW t \in Timers, NEW x \in 0..MaxTime, EmplaceAndArm(t, x)
    PROVE  /\ timers_' = timers_ \cup {t}
           /\ armed' \in 0..Disarmed /\ readable' \in BOOLEAN
<1>1. CASE \A u \in timers_ : x < expiration[u]
  <2>1. FromNow(x) \in 0..MaxTime
    BY FromNowInRange DEF TypeOK
  <2>2. armed' = FromNow(x) /\ readable' \in BOOLEAN /\ timers_' = timers_ \cup {t}
    BY <1>1, Zenon DEF EmplaceAndArm
  <2> QED
    BY <2>1, <2>2 DEF Disarmed
<1>2. CASE ~ \A u \in timers_ : x < expiration[u]
  BY <1>2 DEF EmplaceAndArm, fdVars, TypeOK
<1> QED
  BY <1>1, <1>2

\* The functor of CancelTimer() keeps the types.
LEMMA CancelType ==
    ASSUME TypeOK, NEW t \in returned, Cancel(t)
    PROVE  /\ timers_' \subseteq timers_
           /\ canceling_timers_' \subseteq Timers \X Nat
           /\ cancelled' = cancelled \cup {t}
           /\ erased' \subseteq erased \cup {t}
<1>2. <<t, Second(now)>> \in Timers \X Nat
  BY SecondIsNat DEF TypeOK
<1>3. /\ timers_' \subseteq timers_
      /\ cancelled' = cancelled \cup {t}
      /\ erased' \subseteq erased \cup {t}
  BY DEF Cancel
<1>4. canceling_timers_' \subseteq Timers \X Nat
  BY <1>2 DEF Cancel, TypeOK
<1> QED
  BY <1>3, <1>4

\* Pushing a functor keeps the type of the queue; the functors in it, and the
\* new one, refer to timers that exist, and cancels to identified ones.
LEMMA PushType ==
    ASSUME TypeOK, NEW f \in Functor, queue' = Append(queue, f),
           created \subseteq created', returned \subseteq returned',
           f.timer \in IF f.op = "add" THEN created' ELSE returned'
    PROVE  /\ queue' \in Seq(Functor)
           /\ \A i \in DOMAIN queue' :
                queue'[i].timer \in IF queue'[i].op = "add" THEN created' ELSE returned'
<1>1. queue' \in Seq(Functor) /\ DOMAIN queue' = 1..Len(queue) + 1
  BY AppendProperties DEF TypeOK
<1>2. ASSUME NEW i \in 1..Len(queue) + 1
      PROVE  queue'[i] = IF i = Len(queue) + 1 THEN f ELSE queue[i]
  BY AppendProperties DEF TypeOK
<1>3. DOMAIN queue = 1..Len(queue) /\ Len(queue) \in Nat
  BY DEF TypeOK
<1>4. \A i \in DOMAIN queue :
        queue[i].timer \in IF queue[i].op = "add" THEN created ELSE returned
  BY DEF TypeOK
<1>5. ASSUME NEW i \in DOMAIN queue'
      PROVE  queue'[i].timer \in IF queue'[i].op = "add" THEN created' ELSE returned'
  <2>1. CASE i = Len(queue) + 1
    BY <1>1, <1>2, <2>1
  <2>2. CASE i # Len(queue) + 1
    <3>1. i \in DOMAIN queue /\ queue'[i] = queue[i]
      BY <1>1, <1>2, <1>3, <2>2
    <3> QED
      BY <1>4, <3>1
  <2> QED
    BY <2>1, <2>2
<1> QED
  BY <1>1, <1>5

\* Taking the first functor off keeps the type of the queue.
LEMMA PopType ==
    ASSUME TypeOK, queue # <<>>, queue' = Tail(queue),
           UNCHANGED <<created, returned>>
    PROVE  /\ queue' \in Seq(Functor)
           /\ \A i \in DOMAIN queue' :
                queue'[i].timer \in IF queue'[i].op = "add" THEN created' ELSE returned'
           /\ Head(queue) = queue[1] /\ Head(queue) \in Functor
           /\ 1 \in DOMAIN queue
<1>1. /\ queue' \in Seq(Functor) /\ Len(queue') = Len(queue) - 1
      /\ \A i \in 1..Len(queue) - 1 : queue'[i] = queue[i + 1]
      /\ Head(queue) \in Functor
  BY HeadTailProperties DEF TypeOK
<1>2. /\ Head(queue) = queue[1] /\ Len(queue) \in Nat \ {0}
      /\ DOMAIN queue = 1..Len(queue) /\ DOMAIN queue' = 1..Len(queue) - 1
  BY <1>1, EmptySeq DEF TypeOK
<1>3. \A i \in DOMAIN queue' : i + 1 \in DOMAIN queue /\ queue'[i] = queue[i + 1]
  BY <1>1, <1>2
<1> QED
  BY <1>1, <1>2, <1>3 DEF TypeOK

\* Every step of the loop, of its callers, of the clock and of the kernel keeps
\* the types and the agreement of calling_timer_ with the phases.
LEMMA TypeStep == TypeOK /\ [Next]_vars => TypeOK'
<1> SUFFICES ASSUME TypeOK, [Next]_vars
             PROVE  TypeOK'
  OBVIOUS
<1> USE DEF fdVars, batchVars, history
<1>q. \A i \in DOMAIN queue :
        queue[i].timer \in IF queue[i].op = "add" THEN created ELSE returned
  BY DEF TypeOK
<1>n. now \in 0..MaxTime /\ batchNow \in 0..MaxTime
  BY DEF TypeOK
<1>1. CASE Tick
  <2>1. now' \in 0..MaxTime
    BY <1>1, <1>n DEF Tick
  <2>2. armed' \in 0..Disarmed
    BY <1>1 DEF Tick, Disarmed, TypeOK
  <2>3. readable' \in BOOLEAN
    BY <1>1, Zenon DEF Tick, TypeOK
  <2> QED
    BY <1>1, <1>q, <2>1, <2>2, <2>3 DEF Tick, TypeOK
<1>2. CASE FireLate
  BY <1>2 DEF FireLate, TypeOK, Disarmed
<1>3. ASSUME NEW t \in Timers, NEW d \in Delays, AddTimerInLoop(t, d)
      PROVE  TypeOK'
  <2>1. Sat(now + d) \in 0..MaxTime
    <3>1. now + d \in Nat
      BY <1>n
    <3> QED
      BY <3>1, SatInRange
  <2>2. /\ timers_' = timers_ \cup {t}
        /\ armed' \in 0..Disarmed /\ readable' \in BOOLEAN
    BY <1>3, <2>1, EmplaceType DEF AddTimerInLoop
  <2> QED
    BY <1>3, <1>q, <2>1, <2>2 DEF AddTimerInLoop, TypeOK
<1>4. ASSUME NEW t \in Timers, NEW d \in Delays, AddTimer(t, d)
      PROVE  TypeOK'
  <2>1. Sat(now + d) \in 0..MaxTime
    <3>1. now + d \in Nat
      BY <1>n
    <3> QED
      BY <3>1, SatInRange
  <2>2. [op |-> "add", timer |-> t] \in Functor
    BY DEF Functor
  <2>3. /\ queue' \in Seq(Functor)
        /\ \A i \in DOMAIN queue' :
             queue'[i].timer \in IF queue'[i].op = "add" THEN created' ELSE returned'
    BY <1>4, <2>2, PushType DEF AddTimer
  <2> QED
    BY <1>4, <2>1, <2>3 DEF AddTimer, TypeOK
<1>5. ASSUME NEW t \in Timers, AddTimerReturns(t)
      PROVE  TypeOK'
  BY <1>5, <1>q DEF AddTimerReturns, TypeOK
<1>6. CASE RunAddFunctor
  <2> DEFINE t == Head(queue).timer
  <2>1. /\ queue' \in Seq(Functor)
        /\ \A i \in DOMAIN queue' :
             queue'[i].timer \in IF queue'[i].op = "add" THEN created' ELSE returned'
        /\ Head(queue) = queue[1] /\ Head(queue) \in Functor /\ 1 \in DOMAIN queue
    BY <1>6, PopType DEF RunAddFunctor
  <2>2. t \in Timers /\ t \in created
    BY <1>6, <1>q, <2>1 DEF RunAddFunctor, Functor
  <2>3. expiration[t] \in 0..MaxTime
    BY <2>2 DEF TypeOK
  <2>4. /\ timers_' = timers_ \cup {t}
        /\ armed' \in 0..Disarmed /\ readable' \in BOOLEAN
    BY <1>6, <2>2, <2>3, EmplaceType DEF RunAddFunctor
  <2> QED
    BY <1>6, <2>1, <2>2, <2>4 DEF RunAddFunctor, TypeOK
<1>7. ASSUME NEW t \in Timers, CancelTimerInLoop(t)
      PROVE  TypeOK'
  <2>1. /\ timers_' \subseteq timers_
        /\ canceling_timers_' \subseteq Timers \X Nat
        /\ cancelled' = cancelled \cup {t}
        /\ erased' \subseteq erased \cup {t}
    BY <1>7, CancelType DEF CancelTimerInLoop
  <2> QED
    BY <1>7, <1>q, <2>1 DEF CancelTimerInLoop, TypeOK
<1>8. ASSUME NEW t \in Timers, CancelTimer(t)
      PROVE  TypeOK'
  <2>1. [op |-> "cancel", timer |-> t] \in Functor
    BY DEF Functor
  <2>2. /\ queue' \in Seq(Functor)
        /\ \A i \in DOMAIN queue' :
             queue'[i].timer \in IF queue'[i].op = "add" THEN created' ELSE returned'
    BY <1>8, <2>1, PushType DEF CancelTimer
  <2> QED
    BY <1>8, <2>2 DEF CancelTimer, TypeOK
<1>9. CASE RunCancelFunctor
  <2> DEFINE t == Head(queue).timer
  <2>1. /\ queue' \in Seq(Functor)
        /\ \A i \in DOMAIN queue' :
             queue'[i].timer \in IF queue'[i].op = "add" THEN created' ELSE returned'
        /\ Head(queue) = queue[1] /\ Head(queue) \in Functor /\ 1 \in DOMAIN queue
    BY <1>9, PopType DEF RunCancelFunctor
  <2>2. t \in returned
    BY <1>9, <1>q, <2>1 DEF RunCancelFunctor, Functor
  <2>3. /\ timers_' \subseteq timers_
        /\ canceling_timers_' \subseteq Timers \X Nat
        /\ cancelled' = cancelled \cup {t}
        /\ erased' \subseteq erased \cup {t}
    BY <1>9, <2>2, CancelType DEF RunCancelFunctor
  <2> QED
    BY <1>9, <2>1, <2>2, <2>3 DEF RunCancelFunctor, TypeOK
<1>10. CASE PollReturns
  BY <1>10, <1>q DEF PollReturns, TypeOK
<1>11. CASE ProcessAllExpiredTimers
  BY <1>11, <1>q DEF ProcessAllExpiredTimers, Expired, TypeOK
<1>12. CASE RunCallback
  BY <1>12, <1>q, NoTimerIsNone DEF RunCallback, TypeOK
<1>13. CASE CallbackReturns
  BY <1>13, <1>q DEF CallbackReturns, TypeOK
<1>14. CASE CallbackThrows
  BY <1>14, <1>q DEF CallbackThrows, TypeOK
<1>15. CASE Destroy
  BY <1>15, <1>q DEF Destroy, TypeOK
<1>16. CASE ResetTimers
  <2>1. PICK missed \in SUBSET {t \in expireds : MayMiss(t)} :
          /\ timers_' = timers_ \cup Restarted(missed)
          /\ expiration' = [t \in Timers |->
                               IF t \in Restarted(missed)
                                 THEN Sat(batchNow + Interval[t])
                                 ELSE expiration[t]]
    BY <1>16 DEF ResetTimers
  <2>2. \A t \in Timers : Sat(batchNow + Interval[t]) \in 0..MaxTime
    <3> SUFFICES ASSUME NEW t \in Timers
                 PROVE  Sat(batchNow + Interval[t]) \in 0..MaxTime
      OBVIOUS
    <3>1. batchNow + Interval[t] \in Nat
      BY <1>n
    <3> QED
      BY <3>1, SatInRange
  <2>3. timers_' \subseteq created /\ expiration' \in [Timers -> 0..MaxTime]
    BY <2>1, <2>2 DEF Restarted, TypeOK
  <2>4. armed' \in 0..Disarmed /\ readable' \in BOOLEAN
    <3>1. CASE timers_' = {}
      BY <1>16, <3>1 DEF ResetTimers, ArmForEarliest, TypeOK
    <3>2. CASE timers_' # {}
      <4>1. PICK e \in timers_' : armed' = FromNow(expiration'[e]) /\ readable' = FALSE
        BY <1>16, <3>2, Zenon DEF ResetTimers, ArmForEarliest
      <4>2. expiration'[e] \in 0..MaxTime
        BY <2>3 DEF TypeOK
      <4>3. armed' \in 0..MaxTime
        BY <4>1, <4>2, FromNowInRange DEF TypeOK
      <4>4. armed' \in 0..Disarmed
        BY <4>3 DEF Disarmed
      <4> QED
        BY <4>1, <4>4, Zenon
    <3> QED
      BY <3>1, <3>2
  <2> QED
    BY <1>16, <1>q, <2>3, <2>4 DEF ResetTimers, TypeOK
<1>17. CASE UNCHANGED vars
  BY <1>17 DEF vars, TypeOK
<1> QED
  BY <1>1, <1>2, <1>3, <1>4, <1>5, <1>6, <1>7, <1>8, <1>9, <1>10, <1>11, <1>12,
     <1>13, <1>14, <1>15, <1>16, <1>17 DEF Next, LoopStep, Calls

\* The flag that tells a self-cancel is set exactly while callbacks run, and
\* every collection of the queue holds timers that were created.
THEOREM TypeCorrect == Spec => []TypeOK
<1>1. ASSUME Init
      PROVE  TypeOK
  <2>1. /\ calling_timer_ = FALSE /\ mode = "idle"
        /\ readable \in BOOLEAN
        /\ calling_timer_ \in BOOLEAN
    BY <1>1, Zenon DEF Init
  <2>2. queue \in Seq(Functor) /\ queue = <<>>
    BY <1>1, EmptySeq DEF Init
  <2>3. /\ now \in 0..MaxTime /\ batchNow \in 0..MaxTime
        /\ armed \in 0..Disarmed
        /\ expiration \in [Timers -> 0..MaxTime]
    BY <1>1 DEF Init, Disarmed
  <2>4. /\ expireds = {} /\ toRun = {} /\ cur = NoTimer /\ timers_ = {}
        /\ canceling_timers_ = {} /\ created = {} /\ deleted = {} /\ returned = {}
        /\ cancelled = {} /\ erased = {}
    BY <1>1 DEF Init
  <2>5. \A i \in DOMAIN queue :
          queue[i].timer \in IF queue[i].op = "add" THEN created ELSE returned
    BY <2>2
  <2> QED
    BY <2>1, <2>2, <2>3, <2>4, <2>5 DEF TypeOK
<1> QED
  BY <1>1, TypeStep, PTL DEF Spec

-----------------------------------------------------------------------------
(* The timerfd is armed for every active timer.                            *)

\* What TimerArmed says of one timer.
Covered(t) == readable \/ armed <= expiration[t] \/ armed <= Sat(now + 1)

\* Adding a timer leaves the new one and the ones before it covered.
LEMMA EmplaceCovers ==
    ASSUME TypeOK, NEW t \in Timers, NEW x \in 0..MaxTime, EmplaceAndArm(t, x),
           expiration' \in [Timers -> 0..MaxTime], expiration'[t] = x,
           \A u \in timers_ : expiration'[u] = expiration[u],
           \A u \in timers_ : Covered(u), UNCHANGED now
    PROVE  \A u \in timers_' : Covered(u)'
<1>n. now \in 0..MaxTime /\ timers_ \subseteq Timers
  BY DEF TypeOK
<1>a. armed \in Nat /\ expiration \in [Timers -> 0..MaxTime]
  BY DEF TypeOK, Disarmed
<1>1. CASE \A u \in timers_ : x < expiration[u]
  <2>1. armed' = FromNow(x) /\ timers_' = timers_ \cup {t}
    BY <1>1 DEF EmplaceAndArm
  <2>2. FromNow(x) <= x \/ FromNow(x) <= Sat(now + 1)
    BY <1>n DEF FromNow, Sat
  <2>3. FromNow(x) \in 0..MaxTime
    BY <1>n, FromNowInRange
  <2>4. ASSUME NEW u \in timers_'
        PROVE  armed' <= expiration'[u] \/ armed' <= Sat(now' + 1)
    <3>1. x <= expiration'[u]
      BY <1>1, <1>a, <1>n, <2>1
    <3>2. u \in Timers
      BY <1>n, <2>1
    <3> QED
      BY <2>1, <2>2, <2>3, <3>1, <3>2
  <2> QED
    BY <2>4 DEF Covered
<1>2. CASE ~ \A u \in timers_ : x < expiration[u]
  <2>1. /\ armed' = armed /\ (readable <=> readable') /\ timers_' = timers_ \cup {t}
    BY <1>2 DEF EmplaceAndArm, fdVars
  <2>2. PICK v \in timers_ : ~ (x < expiration[v])
    BY <1>2
  <2>3. Covered(t)'
    BY <1>a, <1>n, <2>1, <2>2 DEF Covered
  <2>4. ASSUME NEW u \in timers_
        PROVE  Covered(u)'
    BY <2>1 DEF Covered
  <2> QED
    BY <2>1, <2>3, <2>4
<1> QED
  BY <1>1, <1>2

\* TimerArmed is inductive relative to TypeOK: only the steps that end with the
\* loop going back to Poll() have to be looked at, and there ResetTimers() has
\* armed the timerfd for the earliest timer.
LEMMA ArmedStep == TypeOK /\ TypeOK' /\ TimerArmed /\ [Next]_vars => TimerArmed'
<1> SUFFICES ASSUME TypeOK, TypeOK', TimerArmed, [Next]_vars, mode' = "idle",
                    NEW w \in timers_'
             PROVE  Covered(w)'
  BY Zenon DEF TimerArmed, Covered
<1> USE DEF fdVars, batchVars, history
<1>t. /\ now \in 0..MaxTime /\ armed \in Nat /\ timers_ \subseteq created
      /\ created \subseteq Timers /\ expiration \in [Timers -> 0..MaxTime]
      /\ expiration' \in [Timers -> 0..MaxTime]
  BY DEF TypeOK, Disarmed
<1>c. mode = "idle" => \A u \in timers_ : Covered(u)
  BY Zenon DEF TimerArmed, Covered
<1>u. ASSUME mode = "idle", w \in timers_, expiration'[w] = expiration[w],
             UNCHANGED <<now, armed>>, readable <=> readable'
      PROVE  Covered(w)'
  BY <1>c, <1>u DEF Covered
<1>1. CASE Tick
  <2>1. /\ mode = "idle" /\ now < MaxTime /\ now' = now + 1
        /\ timers_' = timers_ /\ expiration' = expiration
    BY <1>1 DEF Tick
  <2>2. CASE armed <= now + 1
    BY <1>1, <2>2, Zenon DEF Tick, Covered
  <2>3. CASE ~ (armed <= now + 1)
    <3>1. armed' = armed /\ (readable <=> readable')
      BY <1>1, <2>3 DEF Tick
    <3>2. Sat(now + 1) = now + 1
      BY <1>t, <2>1 DEF Sat
    <3>3. readable \/ armed <= expiration[w]
      BY <1>c, <2>1, <2>3, <3>2 DEF Covered
    <3> QED
      BY <2>1, <3>1, <3>3 DEF Covered
  <2> QED
    BY <2>2, <2>3
<1>2. CASE FireLate
  BY <1>2, Zenon DEF FireLate, Covered
<1>3. ASSUME NEW t \in Timers, NEW d \in Delays, AddTimerInLoop(t, d)
      PROVE  Covered(w)'
  <2>1. /\ mode = "idle" /\ now' = now /\ t \notin created
        /\ expiration' = [expiration EXCEPT ![t] = Sat(now + d)]
        /\ EmplaceAndArm(t, Sat(now + d))
    BY <1>3 DEF AddTimerInLoop
  <2>2. /\ expiration'[t] = Sat(now + d) /\ Sat(now + d) \in 0..MaxTime
        /\ \A u \in timers_ : expiration'[u] = expiration[u]
    BY <1>t, <2>1
  <2> QED
    BY <1>c, <1>t, <2>1, <2>2, EmplaceCovers
<1>4. ASSUME NEW t \in Timers, NEW d \in Delays, AddTimer(t, d)
      PROVE  Covered(w)'
  BY <1>4, <1>t, <1>u DEF AddTimer
<1>5. ASSUME NEW t \in Timers, AddTimerReturns(t)
      PROVE  Covered(w)'
  BY <1>5, <1>u DEF AddTimerReturns
<1>6. CASE RunAddFunctor
  <2>1. Head(queue) \in Functor
    BY <1>6, HeadTailProperties DEF RunAddFunctor, TypeOK
  <2>2. Head(queue).timer \in Timers /\ expiration[Head(queue).timer] \in 0..MaxTime
    BY <1>t, <2>1 DEF Functor
  <2> QED
    BY <1>6, <1>c, <1>t, <2>2, EmplaceCovers DEF RunAddFunctor
<1>7. ASSUME NEW t, Cancel(t)
      PROVE  timers_' \subseteq timers_
  BY <1>7 DEF Cancel
<1>8. ASSUME NEW t \in Timers, CancelTimerInLoop(t)
      PROVE  Covered(w)'
  BY <1>8, <1>7, <1>u DEF CancelTimerInLoop
<1>9. ASSUME NEW t \in Timers, CancelTimer(t)
      PROVE  Covered(w)'
  BY <1>9, <1>u DEF CancelTimer
<1>10. CASE RunCancelFunctor
  BY <1>10, <1>7, <1>u DEF RunCancelFunctor
<1>11. CASE PollReturns \/ ProcessAllExpiredTimers \/ RunCallback \/ CallbackReturns
  BY <1>11 DEF PollReturns, ProcessAllExpiredTimers, RunCallback, CallbackReturns,
               TypeOK
<1>12. CASE CallbackThrows \/ Destroy
  BY <1>12 DEF CallbackThrows, Destroy
<1>13. CASE ResetTimers
  <2>1. PICK e \in timers_' :
          /\ \A u \in timers_' : expiration'[e] <= expiration'[u]
          /\ armed' = FromNow(expiration'[e])
    BY <1>13 DEF ResetTimers, ArmForEarliest
  <2>2. now' = now /\ e \in Timers /\ w \in Timers
    BY <1>13 DEF ResetTimers, TypeOK
  <2>3. \/ FromNow(expiration'[e]) <= expiration'[e]
        \/ FromNow(expiration'[e]) <= Sat(now + 1)
    BY <1>t, <2>2 DEF FromNow, Sat
  <2>4. FromNow(expiration'[e]) \in 0..MaxTime
    BY <1>t, <2>2, FromNowInRange
  <2>5. armed' <= expiration'[w] \/ armed' <= Sat(now' + 1)
    BY <1>t, <2>1, <2>2, <2>3, <2>4
  <2> QED
    BY <2>5, Zenon DEF Covered
<1>14. CASE UNCHANGED vars
  BY <1>14, <1>u DEF vars
<1> QED
  BY <1>1, <1>2, <1>3, <1>4, <1>5, <1>6, <1>8, <1>9, <1>10, <1>11, <1>12, <1>13,
     <1>14 DEF Next, LoopStep, Calls

\* With any number of timers, intervals and delays, and whatever is added or
\* cancelled in whatever phase, the loop never goes back to Poll() with an active
\* timer that the timerfd is not armed for.
THEOREM TimersAlwaysArmed == Spec => []TimerArmed
<1>1. Init => TimerArmed
  BY DEF Init, TimerArmed
<1> QED
  BY <1>1, TypeCorrect, ArmedStep, PTL DEF Spec

-----------------------------------------------------------------------------
(* Every Timer has one owner, and an erased one is gone.                   *)

\* A queued AddTimer() functor owns its timer alone.
AddOwns(i) ==
    queue[i].op = "add" =>
      /\ queue[i].timer \notin timers_ \cup expireds \cup deleted \cup erased
      /\ \A j \in DOMAIN queue : queue[j] = queue[i] => i = j

\* OwnedOnce and ErasedForGood support each other: a timer is erased out of
\* timers_, so a queued functor does not own it, so nothing puts it back.
OwnInv ==
    /\ timers_ \cap deleted = {}
    /\ expireds \cap (deleted \cup timers_) = {}
    /\ erased \cap (timers_ \cup expireds) = {}
    /\ \A i \in DOMAIN queue : AddOwns(i)

\* Steps that leave the queue and give no queued timer another owner.
LEMMA QueueKept ==
    ASSUME OwnInv, UNCHANGED queue,
           timers_' \cup expireds' \cup deleted' \cup erased' \subseteq
             timers_ \cup expireds \cup deleted \cup erased
    PROVE  \A i \in DOMAIN queue' : AddOwns(i)'
BY DEF OwnInv, AddOwns

\* Popping the functor of a timer leaves the others alone with theirs.
LEMMA QueuePopped ==
    ASSUME TypeOK, OwnInv, queue # <<>>, queue' = Tail(queue), NEW S,
           timers_' \cup expireds' \cup deleted' \cup erased' \subseteq
             timers_ \cup expireds \cup deleted \cup erased \cup S,
           \A j \in 2..Len(queue) : queue[j].op = "add" => queue[j].timer \notin S
    PROVE  \A i \in DOMAIN queue' : AddOwns(i)'
<1>1. /\ queue' \in Seq(Functor) /\ Len(queue') = Len(queue) - 1
      /\ \A i \in 1..Len(queue) - 1 : queue'[i] = queue[i + 1]
  BY HeadTailProperties DEF TypeOK
<1>2. /\ Len(queue) \in Nat \ {0}
      /\ DOMAIN queue = 1..Len(queue) /\ DOMAIN queue' = 1..Len(queue) - 1
  BY <1>1, EmptySeq DEF TypeOK
<1>3. ASSUME NEW i \in DOMAIN queue', queue'[i].op = "add"
      PROVE  /\ queue'[i].timer \notin timers_' \cup expireds' \cup deleted' \cup erased'
             /\ \A j \in DOMAIN queue' : queue'[j] = queue'[i] => i = j
  <2>1. /\ i + 1 \in 2..Len(queue) /\ i + 1 \in DOMAIN queue
        /\ queue'[i] = queue[i + 1]
    BY <1>1, <1>2
  <2>2. /\ queue[i + 1].timer \notin timers_ \cup expireds \cup deleted \cup erased
        /\ \A j \in DOMAIN queue : queue[j] = queue[i + 1] => i + 1 = j
    BY <1>3, <2>1 DEF OwnInv, AddOwns
  <2>3. queue[i + 1].timer \notin S
    BY <1>3, <2>1
  <2>4. \A j \in DOMAIN queue' : queue'[j] = queue'[i] => i = j
    BY <1>1, <1>2, <2>1, <2>2
  <2> QED
    BY <2>1, <2>2, <2>3, <2>4
<1> QED
  BY <1>3 DEF AddOwns

\* The steps of the queue of timers preserve the ownership of timers.
LEMMA OwnStep == TypeOK /\ OwnInv /\ [Next]_vars => OwnInv'
<1> SUFFICES ASSUME TypeOK, OwnInv, [Next]_vars
             PROVE  OwnInv'
  OBVIOUS
<1> USE DEF fdVars, batchVars, history
<1>t. /\ timers_ \subseteq created /\ expireds \subseteq created
      /\ deleted \subseteq created /\ erased \subseteq created
  BY DEF TypeOK
<1>q. \A i \in DOMAIN queue : queue[i].op = "add" => queue[i].timer \in created
  BY DEF TypeOK
<1>u. ASSUME UNCHANGED <<queue, timers_, expireds, deleted, erased>>
      PROVE  OwnInv'
  BY <1>u DEF OwnInv, AddOwns
<1>o. /\ timers_ \cap deleted = {}
      /\ expireds \cap (deleted \cup timers_) = {}
      /\ erased \cap (timers_ \cup expireds) = {}
  BY DEF OwnInv
<1>1. CASE Tick \/ FireLate \/ PollReturns \/ RunCallback \/ CallbackReturns
  BY <1>1, <1>u DEF Tick, FireLate, PollReturns, RunCallback, CallbackReturns
<1>2. ASSUME NEW t \in Timers, NEW d \in Delays, AddTimerInLoop(t, d)
      PROVE  OwnInv'
  <2>1. /\ t \notin created /\ timers_' = timers_ \cup {t}
        /\ UNCHANGED <<queue, expireds, deleted, erased>>
    BY <1>2 DEF AddTimerInLoop, EmplaceAndArm
  <2>2. \A i \in DOMAIN queue' : AddOwns(i)'
    BY <1>q, <2>1 DEF OwnInv, AddOwns
  <2> QED
    BY <1>t, <1>o, <2>1, <2>2 DEF OwnInv
<1>3. ASSUME NEW t \in Timers, NEW d \in Delays, AddTimer(t, d)
      PROVE  OwnInv'
  <2> DEFINE f == [op |-> "add", timer |-> t]
  <2>1. /\ t \notin created /\ queue' = Append(queue, f)
        /\ UNCHANGED <<timers_, expireds, deleted, erased>>
    BY <1>3 DEF AddTimer
  <2>2. /\ DOMAIN queue' = 1..Len(queue) + 1 /\ DOMAIN queue = 1..Len(queue)
        /\ Len(queue) \in Nat /\ f \in Functor
        /\ \A i \in 1..Len(queue) : queue'[i] = queue[i]
        /\ queue'[Len(queue) + 1] = f
    BY <2>1, AppendProperties DEF TypeOK, Functor
  <2>3. \A i \in DOMAIN queue : queue[i] # f
    BY <1>q, <2>1
  <2>4. ASSUME NEW i \in DOMAIN queue'
        PROVE  AddOwns(i)'
    <3>1. CASE i = Len(queue) + 1
      <4>1. \A j \in DOMAIN queue' : queue'[j] = f => j = i
        BY <2>2, <2>3, <3>1
      <4> QED
        BY <1>t, <2>1, <2>2, <3>1, <4>1 DEF AddOwns
    <3>2. CASE i \in DOMAIN queue
      <4>1. AddOwns(i) /\ queue'[i] = queue[i] /\ queue[i] # f
        BY <2>2, <2>3, <3>2 DEF OwnInv
      <4>2. \A j \in DOMAIN queue' :
              queue'[j] = queue[i] => j \in DOMAIN queue /\ queue[j] = queue[i]
        BY <2>2, <4>1
      <4> QED
        BY <2>1, <4>1, <4>2 DEF AddOwns
    <3> QED
      BY <2>2, <3>1, <3>2
  <2> QED
    BY <1>o, <2>1, <2>4 DEF OwnInv
<1>4. ASSUME NEW t \in Timers, AddTimerReturns(t)
      PROVE  OwnInv'
  BY <1>4, <1>u DEF AddTimerReturns
<1>5. CASE RunAddFunctor
  <2> DEFINE t == Head(queue).timer
  <2>1. /\ Head(queue) = queue[1] /\ Head(queue) \in Functor
        /\ DOMAIN queue = 1..Len(queue) /\ Len(queue) \in Nat \ {0}
    BY <1>5, HeadTailProperties, EmptySeq DEF RunAddFunctor, TypeOK
  <2>2. /\ t \notin timers_ \cup expireds \cup deleted \cup erased
        /\ \A j \in DOMAIN queue : queue[j] = queue[1] => 1 = j
    BY <1>5, <2>1 DEF RunAddFunctor, OwnInv, AddOwns
  <2>3. /\ timers_' = timers_ \cup {t} /\ queue # <<>> /\ queue' = Tail(queue)
        /\ UNCHANGED <<expireds, deleted, erased>>
    BY <1>5 DEF RunAddFunctor, EmplaceAndArm
  <2>4. ASSUME NEW j \in 2..Len(queue), queue[j].op = "add"
        PROVE  queue[j].timer \notin {t}
    <3>1. queue[j] \in Functor /\ queue[1] \in Functor /\ j \in DOMAIN queue
      BY <2>1 DEF TypeOK
    <3>2. queue[1].op = "add"
      BY <1>5, <2>1 DEF RunAddFunctor
    <3>3. queue[j] # queue[1]
      BY <2>1, <2>2, <3>1
    <3> QED
      BY <2>1, <2>4, <3>1, <3>2, <3>3 DEF Functor
  <2>5. \A i \in DOMAIN queue' : AddOwns(i)'
    BY <2>3, <2>4, QueuePopped
  <2> QED
    BY <1>o, <2>2, <2>3, <2>5 DEF OwnInv
<1>6. ASSUME NEW t \in Timers, Cancel(t), UNCHANGED <<expireds, deleted>>
      PROVE  /\ timers_' \cup erased' \subseteq timers_ \cup erased
             /\ timers_' \cap deleted' = {}
             /\ expireds' \cap (deleted' \cup timers_') = {}
             /\ erased' \cap (timers_' \cup expireds') = {}
  BY <1>o, <1>6 DEF Cancel
<1>7. ASSUME NEW t \in Timers, CancelTimerInLoop(t)
      PROVE  OwnInv'
  <2>1. Cancel(t) /\ UNCHANGED <<expireds, deleted, queue>>
    BY <1>7 DEF CancelTimerInLoop
  <2>2. timers_' \cup expireds' \cup deleted' \cup erased' \subseteq
          timers_ \cup expireds \cup deleted \cup erased
    BY <1>6, <2>1
  <2> QED
    BY <1>6, <2>1, <2>2, QueueKept DEF OwnInv
<1>8. ASSUME NEW t \in Timers, CancelTimer(t)
      PROVE  OwnInv'
  <2> DEFINE f == [op |-> "cancel", timer |-> t]
  <2>1. /\ queue' = Append(queue, f)
        /\ UNCHANGED <<timers_, expireds, deleted, erased>>
    BY <1>8 DEF CancelTimer
  <2>2. /\ DOMAIN queue' = 1..Len(queue) + 1 /\ DOMAIN queue = 1..Len(queue)
        /\ Len(queue) \in Nat /\ f \in Functor /\ f.op # "add"
        /\ \A i \in 1..Len(queue) : queue'[i] = queue[i]
        /\ queue'[Len(queue) + 1] = f
    BY <2>1, AppendProperties DEF TypeOK, Functor
  <2>3. ASSUME NEW i \in DOMAIN queue', queue'[i].op = "add"
        PROVE  /\ i \in DOMAIN queue /\ queue'[i] = queue[i]
               /\ \A j \in DOMAIN queue' : queue'[j] = queue'[i] => j \in DOMAIN queue
    BY <2>2, <2>3
  <2>4. \A i \in DOMAIN queue' : AddOwns(i)'
    BY <2>1, <2>2, <2>3 DEF OwnInv, AddOwns
  <2> QED
    BY <1>o, <2>1, <2>4 DEF OwnInv
<1>9. CASE RunCancelFunctor
  <2> DEFINE t == Head(queue).timer
  <2>1. Head(queue) \in Functor
    BY <1>9, HeadTailProperties DEF RunCancelFunctor, TypeOK
  <2>2. t \in Timers
    BY <2>1 DEF Functor
  <2>3. /\ Cancel(t) /\ UNCHANGED <<expireds, deleted>>
        /\ queue # <<>> /\ queue' = Tail(queue)
    BY <1>9 DEF RunCancelFunctor
  <2>4. timers_' \cup expireds' \cup deleted' \cup erased' \subseteq
          timers_ \cup expireds \cup deleted \cup erased \cup {}
    BY <1>6, <2>2, <2>3
  <2>5. \A i \in DOMAIN queue' : AddOwns(i)'
    <3> DEFINE None == {}
    <3>1. \A j \in 2..Len(queue) : queue[j].op = "add" => queue[j].timer \notin None
      OBVIOUS
    <3>2. timers_' \cup expireds' \cup deleted' \cup erased' \subseteq
            timers_ \cup expireds \cup deleted \cup erased \cup None
      BY <2>4
    <3> HIDE DEF None
    <3> QED
      BY <2>3, <3>1, <3>2, QueuePopped
  <2> QED
    BY <1>6, <2>2, <2>3, <2>5 DEF OwnInv
<1>10. CASE ProcessAllExpiredTimers
  <2>1. /\ expireds = {} /\ expireds' = Expired(now) /\ Expired(now) \subseteq timers_
        /\ timers_' = timers_ \ Expired(now) /\ UNCHANGED <<queue, deleted, erased>>
    BY <1>10 DEF ProcessAllExpiredTimers, Expired, TypeOK
  <2> QED
    BY <1>o, <2>1, QueueKept DEF OwnInv
<1>11. CASE CallbackThrows \/ Destroy
  <2>1. /\ timers_' \cup expireds' \cup deleted' \cup erased' \subseteq
             timers_ \cup expireds \cup deleted \cup erased
        /\ UNCHANGED queue
    BY <1>11 DEF CallbackThrows, Destroy
  <2>2. /\ timers_' \cap deleted' = {}
        /\ expireds' \cap (deleted' \cup timers_') = {}
        /\ erased' \cap (timers_' \cup expireds') = {}
    BY <1>11, <1>o DEF CallbackThrows, Destroy, TypeOK
  <2> QED
    BY <2>1, <2>2, QueueKept DEF OwnInv
<1>12. CASE ResetTimers
  <2>1. PICK missed : timers_' = timers_ \cup Restarted(missed)
    BY <1>12 DEF ResetTimers
  <2>2. /\ deleted' = deleted \cup {t \in expireds : ~Repeat(t)}
        /\ expireds' = {} /\ UNCHANGED <<queue, erased>>
    BY <1>12 DEF ResetTimers
  <2>3. /\ Restarted(missed) \subseteq expireds
        /\ Restarted(missed) \cap {t \in expireds : ~Repeat(t)} = {}
    BY DEF Restarted
  <2> QED
    BY <1>o, <2>1, <2>2, <2>3, QueueKept DEF OwnInv
<1>13. CASE UNCHANGED vars
  BY <1>13, <1>u DEF vars
<1> QED
  BY <1>1, <1>2, <1>3, <1>4, <1>5, <1>7, <1>8, <1>9, <1>10, <1>11, <1>12, <1>13
     DEF Next, LoopStep, Calls

\* A deleted Timer is reachable neither from timers_ nor from the vector in
\* processing nor from a queued functor, and no timer has two owners.
THEOREM TimersOwnedOnce == Spec => []OwnedOnce
<1>1. Init => OwnInv
  BY DEF Init, OwnInv
<1>2. OwnInv => OwnedOnce
  BY DEF OwnInv, AddOwns, OwnedOnce
<1> QED
  BY <1>1, <1>2, TypeCorrect, OwnStep, PTL DEF Spec

\* A cancel that finds its timer active removes it for good, also when it comes
\* from a callback or from another thread.
THEOREM ErasedStaysErased == Spec => []ErasedForGood
<1>1. Init => OwnInv
  BY DEF Init, OwnInv
<1>2. OwnInv => ErasedForGood
  BY DEF OwnInv, ErasedForGood
<1> QED
  BY <1>1, <1>2, TypeCorrect, OwnStep, PTL DEF Spec
=============================================================================
