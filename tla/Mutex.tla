-------------------------------- MODULE Mutex --------------------------------
(***************************************************************************)
(* MutexLock and Condition: a pthread mutex and condition variable (both    *)
(* external) and holder_, the thread id beside the mutex that               *)
(* IsLockedInThisThread() and AssertLocked() look at.  holder_ is written   *)
(* before the mutex is taken and after it is given back, so its writes are  *)
(* steps of their own and race with the other threads'.                     *)
(***************************************************************************)
EXTENDS Integers, FiniteSets

CONSTANTS Threads, Nobody

VARIABLES
  mutex_,   \* the thread the pthread mutex belongs to, or Nobody
  holder_,  \* a thread id, or Nobody for 0
  pc,       \* where each thread is
  written   \* ghost: holder_ has been written since the constructor left it as it was

vars == <<mutex_, holder_, pc, written>>

NANOSECONDS == 3   \* nanoseconds of a second

Init ==
  /\ mutex_ = Nobody
  /\ holder_ \in Threads \cup {Nobody}   \* not initialised
  /\ pc = [t \in Threads |-> "out"]
  /\ written = FALSE

IsLockedInThisThread(t) == holder_ = t

Go(t, from, to) == pc[t] = from /\ pc' = [pc EXCEPT ![t] = to]

assignHolder(t) == holder_' = t /\ written' = TRUE

unassignHolder == holder_' = Nobody /\ written' = TRUE

KeepHolder == UNCHANGED <<holder_, written>>

-----------------------------------------------------------------------------
(* MutexLock.                                                               *)

\* Lock(): holder_ first, then pthread_mutex_lock().
Lock(t) == Go(t, "out", "locking") /\ assignHolder(t) /\ UNCHANGED mutex_

LockReturns(t) == Go(t, "locking", "in") /\ mutex_ = Nobody /\ mutex_' = t /\ KeepHolder

\* TryLock(): EBUSY changes nothing; a success is followed by unassignHolder().
TryLock(t) ==
  /\ IF mutex_ = Nobody THEN Go(t, "out", "tried") /\ mutex_' = t
     ELSE Go(t, "out", "out") /\ UNCHANGED mutex_
  /\ KeepHolder

TryLockReturns(t) == Go(t, "tried", "in") /\ unassignHolder /\ UNCHANGED mutex_

\* Unlock(): the mutex first, then holder_.
Unlock(t) == Go(t, "in", "unlocking") /\ mutex_' = Nobody /\ KeepHolder

UnlockReturns(t) == Go(t, "unlocking", "out") /\ unassignHolder /\ UNCHANGED mutex_

\* The scope of a MutexGuard or MutexGuardT: Lock() in the constructor, Unlock() in the destructor.
MutexGuard(t) == Lock(t) \/ LockReturns(t) \/ Unlock(t) \/ UnlockReturns(t)

-----------------------------------------------------------------------------
(* Condition.                                                               *)

\* The constructor of UnassignHolder, in Wait() and WaitForSeconds().
UnassignHolder(t) == Go(t, "in", "sleeping") /\ unassignHolder /\ UNCHANGED mutex_

\* pthread_cond_wait() gives the mutex back and sleeps, in one step.
Wait(t) == Go(t, "sleeping", "asleep") /\ mutex_' = Nobody /\ KeepHolder

\* A wake-up for no reason, or the time of WaitForSeconds() is over.
Wakes(t) == Go(t, "asleep", "woken") /\ KeepHolder /\ UNCHANGED mutex_

Reacquire(t) == Go(t, "woken", "awake") /\ mutex_ = Nobody /\ mutex_' = t /\ KeepHolder

\* The destructor of UnassignHolder.
AssignAgain(t) == Go(t, "awake", "in") /\ assignHolder(t) /\ UNCHANGED mutex_

\* NotifyAll() of a thread that is not inside another call; Notify() is Wakes() of one.
NotifyAll(t) ==
  /\ pc[t] \in {"out", "in"}
  /\ pc' = [u \in Threads |-> IF pc[u] = "asleep" THEN "woken" ELSE pc[u]]
  /\ KeepHolder /\ UNCHANGED mutex_

\* WaitForSeconds(): the absolute time of a clock that shows sec and nsec, delay later.
Deadline(sec, nsec, delay) ==
  [tv_sec |-> sec + (nsec + delay) \div NANOSECONDS, tv_nsec |-> (nsec + delay) % NANOSECONDS]

Next ==
  \E t \in Threads :
    \/ MutexGuard(t)
    \/ TryLock(t) \/ TryLockReturns(t)
    \/ UnassignHolder(t) \/ Wait(t) \/ Wakes(t) \/ Reacquire(t) \/ AssignAgain(t)
    \/ NotifyAll(t)

Spec == Init /\ [][Next]_vars

-----------------------------------------------------------------------------
(* IsLockedInThisThread() has no false positive, whatever the races on      *)
(* holder_: a thread that neither holds the mutex nor is on its way into    *)
(* Lock() or out of Unlock() does not find itself in holder_, in particular *)
(* not while it sleeps in a Condition or after another thread's critical    *)
(* section (once the uninitialised holder_ has been written).  (The         *)
(* converse fails: a contender in Lock() overwrites the owner's id, and     *)
(* TryLock() clears it.)  Between the steps the mutex belongs to the one    *)
(* thread that may touch what it guards.  And the time WaitForSeconds()     *)
(* waits until is a valid timespec, the delay later.                        *)
HolderHonest ==
  /\ \A t \in Threads :
       /\ written /\ IsLockedInThisThread(t) => pc[t] \in {"locking", "tried", "in", "unlocking"}
       /\ pc[t] \in {"in", "tried", "sleeping", "awake"} <=> mutex_ = t
  /\ \A nsec \in 0..(NANOSECONDS - 1), delay \in 0..(2 * NANOSECONDS + 1) :
       LET spec == Deadline(1, nsec, delay) IN
       /\ spec.tv_nsec \in 0..(NANOSECONDS - 1)
       /\ spec.tv_sec * NANOSECONDS + spec.tv_nsec = NANOSECONDS + nsec + delay
=============================================================================
