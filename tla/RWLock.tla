------------------------------- MODULE RWLock -------------------------------
(***************************************************************************)
(* kanon/thread/rw_lock.{h,cc}: a readers-writer lock of a mutex and two   *)
(* condition variables.                                                    *)
(*                                                                         *)
(* Every method holds mutex_ from its first to its last statement except   *)
(* inside Condition::Wait(), so the code between two waits is one action.  *)
(* A thread that was notified, or that pthread_cond_wait() let go without  *)
(* a reason, evaluates its condition again when it gets mutex_ back.       *)
(***************************************************************************)
EXTENDS Naturals, FiniteSets

CONSTANTS
    Threads,
    MaxReaderNum    \* MAX_READER_NUM

ASSUME ThreadsAssumption == IsFiniteSet(Threads)
ASSUME MaxReaderNumAssumption == MaxReaderNum \in Nat \ {0}

VARIABLES
    has_writer_,
    reader_num_,
    pc              \* where each thread is in RLock() or WLock()

vars == <<has_writer_, reader_num_, pc>>

\* Asleep on cond_w_, asleep on cond_r_, and the same threads once woken.
OnCondW == {"rwait", "wwait"}
OnCondR == {"drain"}
Woken(where) == CASE where = "rwait" -> "rwoken"
                  [] where = "wwait" -> "wwoken"
                  [] where = "drain" -> "dwoken"
                  [] OTHER -> where

Init ==
    /\ has_writer_ = FALSE
    /\ reader_num_ = 0
    /\ pc = [t \in Threads |-> "idle"]

-----------------------------------------------------------------------------
(* Notifications: pc with the notified threads woken and t moved to where. *)

NotifyNone(t, where) == pc' = [pc EXCEPT ![t] = where]

NotifyAll(t, where, cond) ==
    pc' = [u \in Threads |-> IF u = t THEN where
                             ELSE IF pc[u] \in cond THEN Woken(pc[u]) ELSE pc[u]]

Notify(t, where, cond) ==
    IF \E u \in Threads : pc[u] \in cond
      THEN \E u \in Threads :
             /\ pc[u] \in cond
             /\ pc' = [pc EXCEPT ![t] = where, ![u] = Woken(pc[u])]
      ELSE NotifyNone(t, where)

-----------------------------------------------------------------------------
\* A slip a programmer might make: a reader does not look at has_writer_.
RLockAnyway(t) ==
    /\ pc[t] \in {"idle", "rwoken"}
    /\ IF reader_num_ = MaxReaderNum
         THEN NotifyNone(t, "rwait") /\ UNCHANGED reader_num_
         ELSE NotifyNone(t, "reading") /\ reader_num_' = reader_num_ + 1
    /\ UNCHANGED has_writer_

RLock(t) ==
    /\ pc[t] \in {"idle", "rwoken"}
    /\ IF has_writer_ \/ reader_num_ = MaxReaderNum
         THEN NotifyNone(t, "rwait") /\ UNCHANGED reader_num_
         ELSE NotifyNone(t, "reading") /\ reader_num_' = reader_num_ + 1
    /\ UNCHANGED has_writer_

RUnlock(t) ==
    /\ pc[t] = "reading"
    /\ reader_num_' = reader_num_ - 1
    /\ IF has_writer_
         THEN IF reader_num_' = 0
                THEN Notify(t, "idle", OnCondR)
                ELSE NotifyNone(t, "idle")
         ELSE IF reader_num_' = MaxReaderNum - 1
                THEN Notify(t, "idle", OnCondW)
                ELSE NotifyNone(t, "idle")
    /\ UNCHANGED has_writer_

\* The loop on reader_num_ of WLock().
Drain(t) ==
    /\ pc[t] = "dwoken"
    /\ NotifyNone(t, IF reader_num_ > 0 THEN "drain" ELSE "writing")
    /\ UNCHANGED <<has_writer_, reader_num_>>

WLock(t) ==
    /\ pc[t] \in {"idle", "wwoken"}
    /\ IF has_writer_
         THEN NotifyNone(t, "wwait") /\ UNCHANGED has_writer_
         ELSE /\ has_writer_' = TRUE
              /\ NotifyNone(t, IF reader_num_ > 0 THEN "drain" ELSE "writing")
    /\ UNCHANGED reader_num_

\* A slip a programmer might make: only the writers on cond_w_ are notified.
WUnlockWriters(t) ==
    /\ pc[t] = "writing"
    /\ has_writer_' = FALSE
    /\ NotifyAll(t, "idle", {"wwait"})
    /\ UNCHANGED reader_num_

WUnlock(t) ==
    /\ pc[t] = "writing"
    /\ has_writer_' = FALSE
    /\ NotifyAll(t, "idle", OnCondW)
    /\ UNCHANGED reader_num_

\* External: pthread_cond_wait() may return without a notification.
SpuriousWakeup(t) ==
    /\ pc[t] \in OnCondW \cup OnCondR
    /\ NotifyNone(t, Woken(pc[t]))
    /\ UNCHANGED <<has_writer_, reader_num_>>

-----------------------------------------------------------------------------
Step(t) == RLock(t) \/ RUnlock(t) \/ WLock(t) \/ Drain(t) \/ WUnlock(t)

Next == \E t \in Threads : Step(t) \/ SpuriousWakeup(t)

Spec == Init /\ [][Next]_vars

\* A thread that holds the lock releases it, and one that was woken gets mutex_
\* and goes on; no thread is obliged to lock.
Fairness ==
    \A t \in Threads :
      WF_vars(pc[t] # "idle" /\ Step(t))

FairSpec == Spec /\ Fairness

-----------------------------------------------------------------------------
TypeOK ==
    /\ has_writer_ \in BOOLEAN
    /\ reader_num_ \in 0..MaxReaderNum
    /\ pc \in [Threads -> {"idle", "rwait", "rwoken", "reading", "wwait", "wwoken",
                           "drain", "dwoken", "writing"}]

Readers == {t \in Threads : pc[t] = "reading"}
Claiming == {t \in Threads : pc[t] \in {"drain", "dwoken", "writing"}}

\* A writer is alone: while a WLock() has returned and its WUnlock() was not
\* called, no other thread reads or writes.
Exclusion ==
    \A t, u \in Threads :
      pc[t] = "writing" /\ u # t => pc[u] \notin {"reading", "writing"}

\* The counter the lock decides by is the number of readers, and the flag is set
\* by exactly one thread from its claim to its WUnlock().
CountsExact ==
    /\ reader_num_ = Cardinality(Readers)
    /\ has_writer_ <=> Claiming # {}
    /\ \A t, u \in Claiming : t = u

\* "There is must no writer waiting!" of RUnlock(): without a writer no writer
\* is asleep on cond_w_, so the single Notify() there reaches a reader.
NoWriterAsleep == ~has_writer_ => \A t \in Threads : pc[t] # "wwait"

\* A writer that has claimed the lock is not asleep once the last reader left:
\* the Notify() of cond_r_ is never lost.
DrainNotLost == reader_num_ = 0 => \A t \in Threads : pc[t] # "drain"

\* What RLock(), RUnlock(), WLock() and WUnlock() promise at all times: writers are
\* alone, the fields say who holds the lock, and the single Notify() of RUnlock()
\* is neither spent on a writer nor lost for one that drains the readers.
LockSound == Exclusion /\ CountsExact /\ NoWriterAsleep /\ DrainNotLost

\* As long as the lock never has MAX_READER_NUM readers, no thread sleeps for ever
\* on a condition, and a writer that has set has_writer_ gets the lock: readers
\* that come later do not overtake it.
LockProgress ==
    [](reader_num_ < MaxReaderNum) =>
      \A t \in Threads :
        /\ pc[t] \in OnCondW \cup OnCondR ~> pc[t] \notin OnCondW \cup OnCondR
        /\ pc[t] = "drain" ~> pc[t] = "writing"
=============================================================================
