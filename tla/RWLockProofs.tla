---------------------------- MODULE RWLockProofs ----------------------------
(***************************************************************************)
(* Proofs about RWLock, for every finite set of threads and every limit.   *)
(***************************************************************************)
EXTENDS RWLock, FiniteSetTheorems, TLAPS

\* Waking a sleeping thread moves it to the matching woken place.
LEMMA WokenPlaces ==
    /\ Woken("rwait") = "rwoken" /\ Woken("wwait") = "wwoken"
    /\ Woken("drain") = "dwoken"
BY DEF Woken

\* The three ways in which an operation changes pc: t moves to where; threads
\* that sleep on cond may be woken; the others stay.
Moved(t, where, cond) ==
    /\ pc' \in [Threads -> {"idle", "rwait", "rwoken", "reading", "wwait", "wwoken",
                            "drain", "dwoken", "writing"}]
    /\ pc'[t] = where
    /\ \A u \in Threads \ {t} :
         pc'[u] = pc[u] \/ (pc[u] \in cond /\ pc'[u] = Woken(pc[u]))

Places == {"idle", "rwait", "rwoken", "reading", "wwait", "wwoken", "drain",
           "dwoken", "writing"}

\* A move without a notification.
LEMMA MoveNone ==
    ASSUME TypeOK, NEW t \in Threads, NEW where \in Places, NEW cond,
           NotifyNone(t, where)
    PROVE  Moved(t, where, cond) /\ \A u \in Threads \ {t} : pc'[u] = pc[u]
BY DEF TypeOK, Places, NotifyNone, Moved

\* A move with one notification: one of the sleepers, if any, is woken.
LEMMA MoveOne ==
    ASSUME TypeOK, NEW t \in Threads, NEW where \in Places,
           NEW cond \in {OnCondW, OnCondR}, Notify(t, where, cond), pc[t] \notin cond
    PROVE  /\ Moved(t, where, cond)
           /\ (\E u \in Threads : pc[u] \in cond) =>
                \E u \in Threads : pc[u] \in cond /\ pc'[u] = Woken(pc[u])
<1>1. CASE \E u \in Threads : pc[u] \in cond
  <2>1. PICK u \in Threads : /\ pc[u] \in cond
                             /\ pc' = [pc EXCEPT ![t] = where, ![u] = Woken(pc[u])]
    BY <1>1 DEF Notify
  <2>2. u # t /\ Woken(pc[u]) \in Places
    BY <2>1, WokenPlaces DEF OnCondW, OnCondR, Places
  <2> QED
    BY <2>1, <2>2 DEF TypeOK, Places, Moved
<1>2. CASE ~ \E u \in Threads : pc[u] \in cond
  BY <1>2, MoveNone DEF Notify
<1> QED
  BY <1>1, <1>2

\* A move with a broadcast: every sleeper is woken.
LEMMA MoveAll ==
    ASSUME TypeOK, NEW t \in Threads, NEW where \in Places,
           NotifyAll(t, where, OnCondW)
    PROVE  /\ Moved(t, where, OnCondW)
           /\ \A u \in Threads \ {t} : pc[u] \in OnCondW => pc'[u] = Woken(pc[u])
<1>1. \A u \in Threads : pc[u] \in OnCondW => Woken(pc[u]) \in Places
  BY WokenPlaces DEF OnCondW, Places
<1> QED
  BY <1>1 DEF TypeOK, Places, NotifyAll, Moved

\* What a notification can never do: make a reader, a writer or a claim appear
\* or disappear.
LEMMA MovedSets ==
    ASSUME TypeOK, NEW t \in Threads, NEW where \in Places,
           NEW cond \in {OnCondW, OnCondR}, Moved(t, where, cond)
    PROVE  /\ \A u \in Threads \ {t} : (u \in Readers') <=> (u \in Readers)
           /\ \A u \in Threads \ {t} : (u \in Claiming') <=> (u \in Claiming)
           /\ \A u \in Threads \ {t} : pc'[u] = "wwait" => pc[u] = "wwait"
           /\ \A u \in Threads \ {t} : pc'[u] = "drain" => pc[u] = "drain"
           /\ \A u \in Threads \ {t} : pc'[u] = "writing" => pc[u] = "writing"
BY WokenPlaces DEF Moved, OnCondW, OnCondR, Readers, Claiming

-----------------------------------------------------------------------------
\* The inductive invariant.  Exclusion is not inductive: it follows from the
\* exactness of reader_num_ and has_writer_, and from a writer having seen
\* reader_num_ = 0 after it had shut out new readers.
LockInv ==
    /\ TypeOK
    /\ CountsExact
    /\ NoWriterAsleep
    /\ DrainNotLost
    /\ \A t \in Threads : pc[t] = "writing" => reader_num_ = 0

\* The readers are finitely many; their number moves with the set.
LEMMA ReaderCount ==
    ASSUME LockInv
    PROVE  /\ IsFiniteSet(Readers)
           /\ reader_num_ = 0 <=> Readers = {}
           /\ \A t \in Threads \ Readers :
                Cardinality(Readers \cup {t}) = reader_num_ + 1
           /\ \A t \in Readers : Cardinality(Readers \ {t}) = reader_num_ - 1
<1>1. IsFiniteSet(Readers)
  BY ThreadsAssumption, FS_Subset DEF Readers
<1>2. reader_num_ = Cardinality(Readers)
  BY DEF LockInv, CountsExact
<1> QED
  BY <1>1, <1>2, FS_EmptySet, FS_AddElement, FS_RemoveElement

\* Steps that change neither the readers nor the claims nor the counters.
LEMMA QuietStep ==
    ASSUME LockInv, NEW t \in Threads, NEW where \in Places,
           NEW cond \in {OnCondW, OnCondR}, Moved(t, where, cond),
           UNCHANGED <<has_writer_, reader_num_>>,
           pc[t] # "reading", where # "reading",
           pc[t] \in {"drain", "dwoken", "writing"} <=> where \in {"drain", "dwoken", "writing"},
           where = "wwait" => has_writer_,
           where = "drain" => reader_num_ > 0,
           where = "writing" => reader_num_ = 0
    PROVE  LockInv'
<1> USE DEF LockInv
<1>1. TypeOK'
  BY DEF TypeOK, Moved
<1>2. Readers' = Readers /\ Claiming' = Claiming
  <2>1. (t \in Readers' <=> t \in Readers) /\ (t \in Claiming' <=> t \in Claiming)
    BY DEF Moved, Readers, Claiming
  <2>2. Readers' \subseteq Threads /\ Claiming' \subseteq Threads
    BY DEF Readers, Claiming
  <2>3. Readers \subseteq Threads /\ Claiming \subseteq Threads
    BY DEF Readers, Claiming
  <2> QED
    BY <2>1, <2>2, <2>3, MovedSets
<1>3. CountsExact'
  BY <1>2 DEF CountsExact
<1>4. NoWriterAsleep' /\ DrainNotLost'
  BY MovedSets DEF NoWriterAsleep, DrainNotLost, Moved
<1>5. \A u \in Threads : pc'[u] = "writing" => reader_num_' = 0
  BY MovedSets DEF Moved
<1> QED
  BY <1>1, <1>3, <1>4, <1>5

\* Every operation of the lock, and a spurious wakeup, preserves LockInv.
LEMMA LockStep == LockInv /\ [Next]_vars => LockInv'
<1> SUFFICES ASSUME LockInv, [Next]_vars
             PROVE  LockInv'
  OBVIOUS
<1>t. TypeOK /\ CountsExact
  BY DEF LockInv
<1>b. has_writer_ \in BOOLEAN /\ reader_num_ \in 0..MaxReaderNum
  BY <1>t DEF TypeOK
<1>m. MaxReaderNum \in Nat \ {0}
  BY MaxReaderNumAssumption
<1>c. OnCondW \in {OnCondW, OnCondR} /\ OnCondR \in {OnCondW, OnCondR}
  OBVIOUS
<1>1. ASSUME NEW t \in Threads, RLock(t)
      PROVE  LockInv'
  <2>1. CASE has_writer_ \/ reader_num_ = MaxReaderNum
    <3>1. Moved(t, "rwait", OnCondW) /\ UNCHANGED <<has_writer_, reader_num_>>
      BY <1>1, <1>t, <2>1, MoveNone DEF RLock, Places
    <3> QED
      BY <1>1, <1>c, <3>1, QuietStep DEF RLock, Places
  <2>2. CASE ~has_writer_ /\ reader_num_ # MaxReaderNum
    <3>1. /\ Moved(t, "reading", OnCondW) /\ reader_num_' = reader_num_ + 1
          /\ \A u \in Threads \ {t} : pc'[u] = pc[u]
          /\ UNCHANGED has_writer_ /\ pc'[t] = "reading"
      BY <1>1, <1>t, <2>2, MoveNone DEF RLock, Places, Moved
    <3>2. Readers' = Readers \cup {t} /\ t \notin Readers /\ Claiming' = Claiming
      BY <1>1, <3>1 DEF Readers, Claiming, RLock
    <3>3. Claiming = {}
      BY <1>t, <2>2 DEF CountsExact
    <3>4. TypeOK'
      BY <1>b, <1>m, <2>2, <3>1 DEF TypeOK, Moved
    <3>5. CountsExact'
      <4>1. reader_num_' = Cardinality(Readers')
        BY <3>1, <3>2, ReaderCount
      <4> QED
        BY <1>t, <3>1, <3>2, <4>1 DEF CountsExact
    <3>6. NoWriterAsleep' /\ DrainNotLost'
      BY <1>b, <3>1 DEF LockInv, NoWriterAsleep, DrainNotLost
    <3>7. \A u \in Threads : pc'[u] # "writing"
      BY <3>2, <3>3 DEF Claiming
    <3> QED
      BY <3>4, <3>5, <3>6, <3>7 DEF LockInv
  <2> QED
    BY <2>1, <2>2
<1>2. ASSUME NEW t \in Threads, RUnlock(t)
      PROVE  LockInv'
  <2>1. pc[t] = "reading" /\ reader_num_' = reader_num_ - 1 /\ UNCHANGED has_writer_
    BY <1>2 DEF RUnlock
  <2>2. PICK cond \in {OnCondW, OnCondR} :
          /\ Moved(t, "idle", cond)
          /\ has_writer_ /\ reader_num_' = 0 => cond = OnCondR /\ Notify(t, "idle", OnCondR)
    BY <1>2, <1>t, <2>1, MoveNone, MoveOne DEF RUnlock, Places, OnCondW, OnCondR
  <2>3. Readers' = Readers \ {t} /\ t \in Readers /\ Claiming' = Claiming
    <3>1. t \in Readers /\ t \notin Readers' /\ t \notin Claiming /\ t \notin Claiming'
      BY <2>1, <2>2 DEF Readers, Claiming, Moved
    <3>2. /\ Readers \subseteq Threads /\ Readers' \subseteq Threads
          /\ Claiming \subseteq Threads /\ Claiming' \subseteq Threads
      BY DEF Readers, Claiming
    <3> QED
      BY <1>t, <2>2, <3>1, <3>2, MovedSets DEF Places
  <2>4. reader_num_ > 0
    BY <1>b, <2>3, ReaderCount
  <2>5. TypeOK'
    BY <1>b, <1>m, <2>1, <2>2, <2>4 DEF TypeOK, Moved
  <2>6. CountsExact'
    <3>1. reader_num_' = Cardinality(Readers')
      BY <2>1, <2>3, ReaderCount
    <3> QED
      BY <1>t, <2>1, <2>3, <3>1 DEF CountsExact
  <2>7. NoWriterAsleep'
    BY <1>t, <2>1, <2>2, MovedSets DEF LockInv, NoWriterAsleep, Moved, Places
  <2>8. DrainNotLost'
    <3> SUFFICES ASSUME reader_num_' = 0, NEW u \in Threads, pc'[u] = "drain"
                 PROVE  FALSE
      BY DEF DrainNotLost
    <3>1. u # t /\ pc[u] = "drain"
      BY <1>t, <2>2, MovedSets DEF Moved, Places
    <3>2. u \in Claiming /\ has_writer_
      BY <1>t, <3>1 DEF Claiming, CountsExact
    <3>3. PICK v \in Threads : pc[v] \in OnCondR /\ pc'[v] = Woken(pc[v])
      BY <1>t, <2>1, <2>2, <3>1, <3>2, MoveOne DEF OnCondR, Places
    <3>4. v \in Claiming /\ pc'[v] = "dwoken"
      BY <3>3, WokenPlaces DEF Claiming, OnCondR
    <3>5. v = u
      BY <1>t, <3>2, <3>4 DEF CountsExact
    <3> QED
      BY <3>4, <3>5
  <2>9. \A u \in Threads : pc'[u] # "writing"
    <3>1. \A u \in Threads : pc[u] # "writing"
      BY <1>b, <2>4 DEF LockInv
    <3> QED
      BY <1>t, <2>2, <3>1, MovedSets DEF Moved, Places
  <2> QED
    BY <2>5, <2>6, <2>7, <2>8, <2>9 DEF LockInv
<1>3. ASSUME NEW t \in Threads, WLock(t)
      PROVE  LockInv'
  <2>1. CASE has_writer_
    <3>1. Moved(t, "wwait", OnCondW) /\ UNCHANGED <<has_writer_, reader_num_>>
      BY <1>3, <1>t, <2>1, MoveNone DEF WLock, Places
    <3> QED
      BY <1>3, <1>c, <2>1, <3>1, QuietStep DEF WLock, Places
  <2>2. CASE ~has_writer_
    <3> DEFINE where == IF reader_num_ > 0 THEN "drain" ELSE "writing"
    <3>1. /\ Moved(t, where, OnCondW) /\ pc[t] \in {"idle", "wwoken"}
          /\ \A u \in Threads \ {t} : pc'[u] = pc[u]
          /\ pc'[t] = where /\ UNCHANGED reader_num_
      BY <1>3, <1>t, <2>2, MoveNone DEF WLock, Places, Moved
    <3>2. has_writer_' = TRUE
      BY <1>3, <2>2, Zenon DEF WLock
    <3>3. Claiming = {}
      BY <1>t, <2>2 DEF CountsExact
    <3>4. Readers' = Readers /\ Claiming' = {t}
      BY <3>1, <3>3 DEF Readers, Claiming
    <3>5. TypeOK'
      BY <1>b, <3>1, <3>2 DEF TypeOK, Moved
    <3>6. CountsExact'
      BY <1>t, <3>1, <3>2, <3>4 DEF CountsExact
    <3>7. NoWriterAsleep'
      BY <3>2 DEF NoWriterAsleep
    <3>8. DrainNotLost' /\ \A u \in Threads : pc'[u] = "writing" => reader_num_' = 0
      BY <1>b, <3>1 DEF LockInv, DrainNotLost
    <3> QED
      BY <3>5, <3>6, <3>7, <3>8 DEF LockInv
  <2> QED
    BY <2>1, <2>2
<1>4. ASSUME NEW t \in Threads, Drain(t)
      PROVE  LockInv'
  <2> DEFINE where == IF reader_num_ > 0 THEN "drain" ELSE "writing"
  <2>1. /\ Moved(t, where, OnCondW) /\ pc[t] = "dwoken"
        /\ UNCHANGED <<has_writer_, reader_num_>>
    BY <1>4, <1>t, MoveNone DEF Drain, Places
  <2> QED
    BY <1>b, <1>c, <2>1, QuietStep DEF Places
<1>5. ASSUME NEW t \in Threads, WUnlock(t)
      PROVE  LockInv'
  <2>1. /\ Moved(t, "idle", OnCondW) /\ pc[t] = "writing" /\ UNCHANGED reader_num_
        /\ \A u \in Threads \ {t} : pc[u] \in OnCondW => pc'[u] = Woken(pc[u])
    BY <1>5, <1>t, MoveAll DEF WUnlock, Places
  <2>2. has_writer_' = FALSE
    BY <1>5 DEF WUnlock
  <2>3. Claiming = {t}
    BY <1>t, <2>1 DEF Claiming, CountsExact
  <2>4. Claiming' = {}
    <3>1. t \notin Claiming' /\ Claiming' \subseteq Threads
      BY <2>1 DEF Claiming, Moved
    <3> QED
      BY <1>c, <1>t, <2>1, <2>3, <3>1, MovedSets DEF Places
  <2>5. Readers' = Readers
    <3>1. t \notin Readers /\ t \notin Readers'
      BY <2>1 DEF Readers, Moved
    <3>2. Readers \subseteq Threads /\ Readers' \subseteq Threads
      BY DEF Readers
    <3> QED
      BY <1>c, <1>t, <2>1, <3>1, <3>2, MovedSets DEF Places
  <2>6. TypeOK'
    BY <1>b, <2>1, <2>2 DEF TypeOK, Moved
  <2>7. CountsExact'
    BY <1>t, <2>1, <2>2, <2>4, <2>5 DEF CountsExact
  <2>8. NoWriterAsleep'
    <3> SUFFICES ASSUME NEW u \in Threads, pc'[u] = "wwait"
                 PROVE  FALSE
      BY DEF NoWriterAsleep
    <3>1. u # t /\ pc[u] = "wwait"
      BY <1>c, <1>t, <2>1, MovedSets DEF Moved, Places
    <3> QED
      BY <2>1, <3>1, WokenPlaces DEF OnCondW
  <2>9. DrainNotLost' /\ \A u \in Threads : pc'[u] # "writing"
    BY <2>4 DEF DrainNotLost, Claiming
  <2> QED
    BY <2>6, <2>7, <2>8, <2>9 DEF LockInv
<1>6. ASSUME NEW t \in Threads, SpuriousWakeup(t)
      PROVE  LockInv'
  <2>1. /\ pc[t] \in {"rwait", "wwait", "drain"} /\ NotifyNone(t, Woken(pc[t]))
        /\ UNCHANGED <<has_writer_, reader_num_>>
    BY <1>6 DEF SpuriousWakeup, OnCondW, OnCondR
  <2>2. Woken(pc[t]) \in {"rwoken", "wwoken", "dwoken"} /\ (pc[t] = "drain" <=> Woken(pc[t]) = "dwoken")
    BY <2>1, WokenPlaces
  <2>3. Moved(t, Woken(pc[t]), OnCondW)
    BY <1>t, <2>1, <2>2, MoveNone DEF Places
  <2> QED
    BY <1>c, <2>1, <2>2, <2>3, QuietStep DEF Places
<1>7. CASE UNCHANGED vars
  BY <1>7 DEF vars, LockInv, TypeOK, CountsExact, NoWriterAsleep, DrainNotLost,
              Readers, Claiming
<1> QED
  BY <1>1, <1>2, <1>3, <1>4, <1>5, <1>6, <1>7 DEF Next, Step

\* LockInv holds in every reachable state.
LEMMA LockInvariant == Spec => []LockInv
<1>1. Init => LockInv
  <2> SUFFICES ASSUME Init
               PROVE  LockInv
    OBVIOUS
  <2>1. Readers = {} /\ Claiming = {}
    BY DEF Init, Readers, Claiming
  <2>2. has_writer_ \in BOOLEAN /\ ~has_writer_
    BY Zenon DEF Init
  <2>3. TypeOK
    BY <2>2, MaxReaderNumAssumption DEF Init, TypeOK
  <2>4. CountsExact
    BY <2>1, <2>2, FS_EmptySet DEF Init, CountsExact
  <2>5. NoWriterAsleep /\ DrainNotLost /\ \A t \in Threads : pc[t] # "writing"
    BY DEF Init, NoWriterAsleep, DrainNotLost
  <2> QED
    BY <2>3, <2>4, <2>5 DEF LockInv
<1> QED
  BY <1>1, LockStep, PTL DEF Spec

\* The lock excludes: a writer is alone, for any number of threads and whatever
\* the order in which mutex_ and the conditions let them through.
THEOREM MutualExclusion == Spec => []Exclusion
<1>1. LockInv => Exclusion
  <2> SUFFICES ASSUME LockInv, NEW t \in Threads, NEW u \in Threads,
                      pc[t] = "writing", u # t
               PROVE  pc[u] \notin {"reading", "writing"}
    BY DEF Exclusion
  <2>1. u \notin Readers
    BY ReaderCount DEF LockInv
  <2>2. u \notin Claiming
    BY DEF LockInv, CountsExact, Claiming
  <2> QED
    BY <2>1, <2>2 DEF Readers, Claiming
<1> QED
  BY <1>1, LockInvariant, PTL

\* reader_num_ and has_writer_ describe the holders exactly, in particular
\* reader_num_ never wraps below zero or above the limit.
THEOREM CountsAlwaysExact == Spec => [](TypeOK /\ CountsExact)
<1>1. LockInv => TypeOK /\ CountsExact
  BY DEF LockInv
<1> QED
  BY <1>1, LockInvariant, PTL

\* The two claims on which the single notifications of RUnlock() rest: without a
\* writer no writer sleeps on cond_w_, and a writer never sleeps on cond_r_ once
\* the last reader is gone.
THEOREM NotificationsSuffice == Spec => [](NoWriterAsleep /\ DrainNotLost)
<1>1. LockInv => NoWriterAsleep /\ DrainNotLost
  BY DEF LockInv
<1> QED
  BY <1>1, LockInvariant, PTL

\* All that the lock promises of a state, for any number of threads and any
\* MAX_READER_NUM: exclusion, exact fields and notifications that reach whom they
\* are meant for.
THEOREM LockIsSound == Spec => []LockSound
<1>1. Exclusion /\ TypeOK /\ CountsExact /\ NoWriterAsleep /\ DrainNotLost => LockSound
  BY DEF LockSound
<1> QED
  BY <1>1, MutualExclusion, CountsAlwaysExact, NotificationsSuffice, PTL
=============================================================================
