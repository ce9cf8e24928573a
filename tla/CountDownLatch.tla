--------------------------- MODULE CountDownLatch ----------------------------
(***************************************************************************)
(* CountDownLatch over Condition: every operation holds the mutex, and a    *)
(* waiter sleeps at most once, since Wait() tests the count with an if.     *)
(* Threads make any calls in any order; in the use "once" (the start of     *)
(* AsyncLog, Connect() of the example clients) one thread waits for one     *)
(* Countdown().                                                             *)
(***************************************************************************)
EXTENDS Integers, FiniteSets

CONSTANTS
  Threads,
  Waiter,   \* the thread that waits in the use "once"
  MaxCount, \* bound: the count stays in -MaxCount..MaxCount
  MaxCalls  \* bound: the calls of the use "any"

VARIABLES
  use,      \* "once" or "any"
  count_,
  st,       \* each thread: "idle", "asleep" in cond_, "woken", or "back" from a wait
  calls,    \* calls made
  silent    \* ghost: the count was lowered to 0 or below without a notification

vars == <<use, count_, st, calls, silent>>

Asleep == {t \in Threads : st[t] = "asleep"}

Init ==
  /\ use \in {"once", "any"}
  /\ count_ \in IF use = "once" THEN {1} ELSE 0..MaxCount
  /\ st = [t \in Threads |-> "idle"]
  /\ calls = 0
  /\ silent = FALSE

\* A call of a thread that is not waiting.
Enters(t) ==
  /\ st[t] \in {"idle", "back"}
  /\ IF use = "once" THEN calls' = calls ELSE calls < MaxCalls /\ calls' = calls + 1
  /\ UNCHANGED use

Free == use = "any"

\* NotifyAll() wakes every sleeper; SetCount() assigns count_ and wakes nobody.
NotifyAll == st' = [t \in Threads |-> IF st[t] = "asleep" THEN "woken" ELSE st[t]]

SetCount(n) ==
  /\ n \in -MaxCount..MaxCount
  /\ count_' = n
  /\ silent' = (silent \/ (n <= 0 /\ Asleep # {}))

\* if (count_ > 0) cond_.Wait();
WaitIf(t, n) == st' = [st EXCEPT ![t] = IF n > 0 THEN "asleep" ELSE "back"]

Reset(t, n) == Free /\ Enters(t) /\ SetCount(n) /\ UNCHANGED st

ResetAndWait(t, n) == Free /\ Enters(t) /\ SetCount(n) /\ WaitIf(t, n)

\* Add() and Incr().
Add(t, n) == Free /\ Enters(t) /\ SetCount(count_ + n) /\ UNCHANGED st

\* AddAndWait() and IncrAndWait().
AddAndWait(t, n) == Free /\ Enters(t) /\ SetCount(count_ + n) /\ WaitIf(t, count_ + n)

\* Minus() and Decr().
Minus(t, n) == Free /\ Enters(t) /\ SetCount(count_ - n) /\ UNCHANGED st

Wait(t) ==
  /\ Enters(t)
  /\ use = "once" => t = Waiter /\ st[t] = "idle"
  /\ WaitIf(t, count_)
  /\ UNCHANGED <<count_, silent>>

\* A slip a programmer might make: one waiter is notified.
Countdown_one(t) ==
  /\ Enters(t)
  /\ use = "once" => t # Waiter /\ count_ = 1
  /\ count_ > -MaxCount
  /\ count_' = count_ - 1
  /\ IF count_' = 0 /\ Asleep # {}
     THEN \E w \in Asleep : st' = [st EXCEPT ![w] = "woken"]
     ELSE UNCHANGED st
  /\ UNCHANGED silent

Countdown(t) ==
  /\ Enters(t)
  /\ use = "once" => t # Waiter /\ count_ = 1
  /\ count_ > -MaxCount
  /\ count_' = count_ - 1
  /\ IF count_' = 0 THEN NotifyAll ELSE UNCHANGED st
  /\ UNCHANGED silent

\* pthread_cond_wait() returns: after a notification or spuriously; the count is not tested again.
Return(t) ==
  /\ st[t] = "woken"
  /\ st' = [st EXCEPT ![t] = "back"]
  /\ UNCHANGED <<use, count_, calls, silent>>

Spurious(t) ==
  /\ st[t] = "asleep"
  /\ st' = [st EXCEPT ![t] = "woken"]
  /\ UNCHANGED <<use, count_, calls, silent>>

Next ==
  \E t \in Threads :
    \/ \E n \in 1..MaxCount : Reset(t, n - 1) \/ ResetAndWait(t, n - 1) \/ Minus(t, n)
                              \/ Add(t, n) \/ AddAndWait(t, n)
    \/ Wait(t) \/ Countdown(t)
    \/ Return(t) \/ Spurious(t)

Spec == Init /\ [][Next]_vars

-----------------------------------------------------------------------------
(* No thread sleeps on a latch that is open: whatever mix of calls led to a *)
(* count of 0 or below, Countdown() has woken every sleeper, unless the     *)
(* count was lowered by Reset(), Minus() or Decr(), which notify nobody.    *)
NoSleeperAtZero == ~silent /\ Asleep # {} => count_ > 0
=============================================================================
