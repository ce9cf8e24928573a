-------------------------- MODULE EventLoopProofs --------------------------
(***************************************************************************)
(* Proofs about EventLoop, for every set of threads and functors.          *)
(***************************************************************************)
EXTENDS EventLoop, SequenceTheorems, TLAPS

-----------------------------------------------------------------------------
(* Sequences.                                                              *)

\* Pushing at the back of a concatenation pushes at the back of its last part
\* (functors_.emplace_back under lock_).
LEMMA AppendConcat ==
    ASSUME NEW S, NEW a \in Seq(S), NEW b \in Seq(S), NEW x \in S
    PROVE  a \o Append(b, x) = Append(a \o b, x)
<1>1. <<x>> \in Seq(S)
  OBVIOUS
<1>2. Append(b, x) = b \o <<x>> /\ Append(a \o b, x) = (a \o b) \o <<x>>
  BY AppendIsConcat, ConcatProperties
<1> QED
  BY <1>1, <1>2, ConcatAssociative

\* Moving the head of a sequence to the back of the one before it leaves
\* their concatenation alone (one turn of the loop of CallFunctors()).
LEMMA MoveHead ==
    ASSUME NEW S, NEW a \in Seq(S), NEW b \in Seq(S), b # <<>>
    PROVE  Append(a, Head(b)) \o Tail(b) = a \o b
<1>1. Head(b) \in S /\ Tail(b) \in Seq(S) /\ Len(Tail(b)) = Len(b) - 1
  BY HeadTailProperties
<1>2. Head(b) = b[1] /\ Len(b) \in Nat \ {0}
  BY EmptySeq
<1>3. /\ Append(a, Head(b)) \o Tail(b) \in Seq(S)
      /\ a \o b \in Seq(S)
  BY <1>1, ConcatProperties, AppendProperties
<1>4. Len(Append(a, Head(b)) \o Tail(b)) = Len(a \o b)
  BY <1>1, <1>2, ConcatProperties, AppendProperties
<1>5. ASSUME NEW i \in 1 .. Len(a \o b)
      PROVE  (Append(a, Head(b)) \o Tail(b))[i] = (a \o b)[i]
  BY <1>1, <1>2, ConcatProperties, AppendProperties, HeadTailProperties
<1> QED
  BY <1>3, <1>4, <1>5, SeqEqual

\* Dropping the first part of a concatenation leaves the second (the batch
\* destroyed by an exception).
LEMMA DropFront ==
    ASSUME NEW S, NEW a \in Seq(S), NEW b \in Seq(S)
    PROVE  SubSeq(a \o b, Len(a) + 1, Len(a \o b)) = b
BY SubSeqOfConcat2, ConcatProperties, SubSeqFull, LenProperties

-----------------------------------------------------------------------------
(* Types and control.                                                      *)

\* Every step of the loop and of its callers keeps the types and the relation
\* between the phases of StartLoop() and the flags of the loop.
LEMMA TypeStep == TypeOK /\ [Next]_vars => TypeOK'
<1> SUFFICES ASSUME TypeOK, [Next]_vars
             PROVE  TypeOK'
  OBVIOUS
<1> USE DEF TypeOK, Phases
<1>1. CASE StartLoop
  BY <1>1 DEF StartLoop, ioVars, history
<1>2. CASE CheckQuit
  BY <1>2 DEF CheckQuit, ioVars, history
<1>3. CASE Poll
  BY <1>3 DEF Poll, Ready, ioVars, history
<1>4. CASE PollInterrupted
  BY <1>4 DEF PollInterrupted, ioVars, history
<1>5. CASE EvRead
  BY <1>5 DEF EvRead, ioVars, history
<1>6. CASE HandleIo
  BY <1>6 DEF HandleIo, history
<1>7. CASE HandlerReturns
  BY <1>7 DEF HandlerReturns, ioVars, history
<1>8. CASE EventsHandled
  BY <1>8 DEF EventsHandled, ioVars, history
<1>9. CASE CallFunctors
  BY <1>9 DEF CallFunctors, ioVars, history
<1>10. CASE CallNext
  <2>1. Head(batch) \in Functors /\ Tail(batch) \in Seq(Functors)
    BY <1>10, HeadTailProperties DEF CallNext
  <2> QED
    BY <1>10, <2>1, AppendProperties DEF CallNext, ioVars
<1>11. CASE FunctorReturns
  BY <1>11 DEF FunctorReturns, ioVars, history
<1>12. CASE CallbackThrows
  BY <1>12, EmptySeq DEF CallbackThrows, ioVars, history
<1>13. CASE BatchDone
  BY <1>13 DEF BatchDone, ioVars, history
<1>14. ASSUME NEW f \in Functors, OwnerQueueToLoop(f)
       PROVE  TypeOK'
  BY <1>14, AppendProperties DEF OwnerQueueToLoop, InUserCode, ownerVars, ioVars
<1>15. ASSUME NEW f \in Functors, OwnerRunInLoop(f)
       PROVE  TypeOK'
  BY <1>15 DEF OwnerRunInLoop, ownerVars, ioVars
<1>16. CASE OwnerQuit
  BY <1>16 DEF OwnerQuit, ownerVars, ioVars, history
<1>17. ASSUME NEW t \in Threads, NEW f \in Functors, QueueToLoop(t, f)
       PROVE  TypeOK'
  BY <1>17, AppendProperties DEF QueueToLoop, ownerVars, ioVars
<1>18. ASSUME NEW t \in Threads, QuitTest(t)
       PROVE  TypeOK'
  BY <1>18 DEF QuitTest, ownerVars, ioVars, history
<1>19. ASSUME NEW t \in Threads, QuitSet(t)
       PROVE  TypeOK'
  BY <1>19 DEF QuitSet, ownerVars, ioVars, history
<1>20. ASSUME NEW t \in Threads, Wakeup(t)
       PROVE  TypeOK'
  BY <1>20 DEF Wakeup, ownerVars, ioVars, history
<1>21. CASE IoEvent
  BY <1>21 DEF IoEvent, ownerVars, history
<1>22. CASE UNCHANGED vars
  BY <1>22 DEF vars
<1> QED
  BY <1>1, <1>2, <1>3, <1>4, <1>5, <1>6, <1>7, <1>8, <1>9, <1>10, <1>11, <1>12,
     <1>13, <1>14, <1>15, <1>16, <1>17, <1>18, <1>19, <1>20, <1>21, <1>22
     DEF Next, LoopStep, OwnerCalls, ThreadStep

\* The flags of an EventLoop and its phases agree in every reachable state.
THEOREM TypeCorrect == Spec => []TypeOK
<1>1. ASSUME Init
      PROVE  TypeOK
  <2>1. /\ looping_ \in BOOLEAN
        /\ looping_ <=> phase \notin {"start", "stopped"}
        /\ calling_functors_ \in BOOLEAN
        /\ calling_functors_ <=> phase \in {"run", "functor"}
        /\ quit_ \in BOOLEAN
        /\ ioReady \in BOOLEAN
    BY <1>1 DEF Init
  <2>2. /\ functors_ \in Seq(Functors)
        /\ batch \in Seq(Functors)
        /\ queued \in Seq(Functors)
        /\ executed \in Seq(Functors)
        /\ batch = <<>>
    BY <1>1, EmptySeq DEF Init
  <2>3. /\ phase \in Phases
        /\ active = {}
        /\ eventfd \in Nat
        /\ ios \in Nat
        /\ call \in [Threads -> {"idle", "pushed", "quitting", "quitset"}]
        /\ submitted \subseteq Functors
        /\ early \subseteq Functors
    BY <1>1 DEF Init, Phases
  <2> QED
    BY <2>1, <2>2, <2>3 DEF TypeOK
<1> QED
  BY <1>1, TypeStep, PTL DEF Spec

-----------------------------------------------------------------------------
(* No functor is lost, duplicated or reordered.                            *)

\* FunctorsConserved is inductive relative to TypeOK: only a push, the swap
\* of CallFunctors(), a turn of its loop and an exception touch the four
\* sequences.
LEMMA ConservedStep ==
    TypeOK /\ FunctorsConserved /\ [Next]_vars => FunctorsConserved'
<1> SUFFICES ASSUME TypeOK, FunctorsConserved, [Next]_vars
             PROVE  FunctorsConserved'
  OBVIOUS
<1>t. /\ functors_ \in Seq(Functors)
      /\ batch \in Seq(Functors)
      /\ executed \in Seq(Functors)
      /\ executed \o batch \in Seq(Functors)
      /\ phase \notin {"run", "functor"} => batch = <<>>
  BY ConcatProperties DEF TypeOK
<1>p. ASSUME NEW f \in Functors, queued' = Append(queued, f),
             functors_' = Append(functors_, f), UNCHANGED <<phase, executed, batch>>
      PROVE  FunctorsConserved'
  <2>1. (executed \o batch) \o Append(functors_, f) = Append((executed \o batch) \o functors_, f)
    BY <1>t, AppendConcat
  <2> QED
    BY <1>p, <2>1 DEF FunctorsConserved
<1>u. ASSUME UNCHANGED <<queued, executed, batch, functors_>>,
             phase = "failed" => phase' = "failed"
      PROVE  FunctorsConserved'
  BY <1>u DEF FunctorsConserved
<1>1. CASE StartLoop
  BY <1>1, <1>u DEF StartLoop, history
<1>2. CASE CheckQuit
  BY <1>2, <1>u DEF CheckQuit, history
<1>3. CASE Poll
  BY <1>3, <1>u DEF Poll, history
<1>4. CASE PollInterrupted
  BY <1>4, <1>u DEF PollInterrupted, history
<1>5. CASE EvRead
  BY <1>5, <1>u DEF EvRead, history
<1>6. CASE HandleIo
  BY <1>6, <1>u DEF HandleIo, history
<1>7. CASE HandlerReturns
  BY <1>7, <1>u DEF HandlerReturns, history
<1>8. CASE EventsHandled
  BY <1>8, <1>u DEF EventsHandled, history
<1>9. CASE CallFunctors
  <2>1. CASE quit_
    BY <1>9, <1>u, <2>1 DEF CallFunctors, history
  <2>2. CASE ~quit_
    <3>1. queued = executed \o batch \o functors_ /\ batch = <<>>
      BY <1>9, <1>t DEF CallFunctors, FunctorsConserved
    <3>2. queued' = queued /\ executed' = executed /\ batch' = functors_ /\ functors_' = <<>>
      BY <1>9, <2>2 DEF CallFunctors, history
    <3>3. executed \o batch = executed
      BY <1>t, <3>1, ConcatEmptySeq
    <3>4. (executed \o functors_) \o <<>> = executed \o functors_
      BY <1>t, ConcatProperties, ConcatEmptySeq
    <3> QED
      BY <3>1, <3>2, <3>3, <3>4 DEF FunctorsConserved
  <2> QED
    BY <2>1, <2>2
<1>10. CASE CallNext
  <2>1. queued = executed \o batch \o functors_ /\ batch # <<>>
    BY <1>10 DEF CallNext, FunctorsConserved
  <2>2. Append(executed, Head(batch)) \o Tail(batch) = executed \o batch
    BY <1>t, <2>1, MoveHead
  <2> QED
    BY <1>10, <2>1, <2>2 DEF CallNext, FunctorsConserved
<1>11. CASE FunctorReturns
  BY <1>11, <1>u DEF FunctorReturns, history
<1>12. CASE CallbackThrows
  BY <1>12 DEF CallbackThrows, FunctorsConserved
<1>13. CASE BatchDone
  BY <1>13, <1>u DEF BatchDone, history
<1>14. ASSUME NEW f \in Functors, OwnerQueueToLoop(f)
       PROVE  FunctorsConserved'
  BY <1>14, <1>p DEF OwnerQueueToLoop, ownerVars
<1>15. ASSUME NEW f \in Functors, OwnerRunInLoop(f)
       PROVE  FunctorsConserved'
  BY <1>15, <1>u DEF OwnerRunInLoop, ownerVars
<1>16. CASE OwnerQuit
  BY <1>16, <1>u DEF OwnerQuit, ownerVars, history
<1>17. ASSUME NEW t \in Threads, NEW f \in Functors, QueueToLoop(t, f)
       PROVE  FunctorsConserved'
  BY <1>17, <1>p DEF QueueToLoop, ownerVars
<1>18. ASSUME NEW t \in Threads, QuitTest(t) \/ QuitSet(t) \/ Wakeup(t)
       PROVE  FunctorsConserved'
  BY <1>18, <1>u DEF QuitTest, QuitSet, Wakeup, ownerVars, history
<1>19. CASE IoEvent
  BY <1>19, <1>u DEF IoEvent, ownerVars, history
<1>20. CASE UNCHANGED vars
  BY <1>20, <1>u DEF vars
<1> QED
  BY <1>1, <1>2, <1>3, <1>4, <1>5, <1>6, <1>7, <1>8, <1>9, <1>10, <1>11, <1>12,
     <1>13, <1>14, <1>15, <1>16, <1>17, <1>18, <1>19, <1>20
     DEF Next, LoopStep, OwnerCalls, ThreadStep

\* Between QueueToLoop() and the call of a functor nothing is lost,
\* duplicated or reordered, whatever threads push meanwhile.
THEOREM Conserved == Spec => []FunctorsConserved
<1>1. Init => FunctorsConserved
  BY EmptySeq, ConcatEmptySeq DEF Init, FunctorsConserved
<1> QED
  BY <1>1, TypeCorrect, ConservedStep, PTL DEF Spec

-----------------------------------------------------------------------------
(* The loop never sleeps on work or on a request to quit.                  *)

\* The strengthening of NoLostWakeup.  Queued work is signalled from the
\* moment the owner can no longer fall through to CallFunctors() before it
\* polls: while it calls a batch, and from the end of the batch to Poll().
\* It does not hold in phase 2, where EvRead() consumes the signal, nor
\* after a CallFunctors() that saw quit_.
WakeInv ==
    /\ \/ phase \in {"start", "poll", "run", "functor"}
       \/ phase = "check" /\ ~quit_
    /\ functors_ # <<>>
    => WorkSignalled \/ OnlyEarly

\* WakeInv is inductive: the owner queues without a wakeup only in phase 2,
\* which falls through to CallFunctors(), and before StartLoop().
LEMMA WakeStep == TypeOK /\ WakeInv /\ [Next]_vars => WakeInv'
<1> SUFFICES ASSUME TypeOK, WakeInv, [Next]_vars
             PROVE  WakeInv'
  OBVIOUS
<1>t. /\ eventfd \in Nat
      /\ call \in [Threads -> {"idle", "pushed", "quitting", "quitset"}]
      /\ calling_functors_ <=> phase \in {"run", "functor"}
      /\ phase \in Phases
      /\ functors_ \in Seq(Functors)
  BY DEF TypeOK
<1> USE DEF WakeInv, WorkSignalled, OnlyEarly
<1>1. CASE StartLoop
  BY <1>1 DEF StartLoop, history
<1>2. CASE CheckQuit
  BY <1>2 DEF CheckQuit, history
<1>3. CASE Poll \/ PollInterrupted
  BY <1>3 DEF Poll, PollInterrupted
<1>4. CASE EvRead \/ HandleIo \/ HandlerReturns \/ EventsHandled
  BY <1>4 DEF EvRead, HandleIo, HandlerReturns, EventsHandled
<1>5. CASE CallFunctors
  BY <1>5 DEF CallFunctors
<1>6. CASE CallNext \/ FunctorReturns \/ CallbackThrows \/ BatchDone
  BY <1>6 DEF CallNext, FunctorReturns, CallbackThrows, BatchDone, history
<1>7. ASSUME NEW f \in Functors, OwnerQueueToLoop(f)
      PROVE  WakeInv'
  <2>1. CASE phase = "functor"
    BY <1>7, <1>t, <2>1 DEF OwnerQueueToLoop
  <2>2. CASE phase = "iohandler"
    BY <1>7, <2>2 DEF OwnerQueueToLoop, ownerVars
  <2>3. CASE phase = "start"
    BY <1>7, <1>t, <2>3, AppendProperties DEF OwnerQueueToLoop, ownerVars
  <2> QED
    BY <1>7, <2>1, <2>2, <2>3 DEF OwnerQueueToLoop, InUserCode
<1>8. ASSUME NEW f \in Functors, OwnerRunInLoop(f)
      PROVE  WakeInv'
  BY <1>8 DEF OwnerRunInLoop, ownerVars
<1>9. CASE OwnerQuit
  BY <1>9 DEF OwnerQuit, ownerVars, history
<1>10. ASSUME NEW t \in Threads, NEW f \in Functors, QueueToLoop(t, f)
       PROVE  WakeInv'
  BY <1>10, <1>t DEF QueueToLoop
<1>11. ASSUME NEW t \in Threads, QuitTest(t)
       PROVE  WakeInv'
  BY <1>11, <1>t DEF QuitTest, ownerVars, history
<1>12. ASSUME NEW t \in Threads, QuitSet(t)
       PROVE  WakeInv'
  BY <1>12, <1>t DEF QuitSet, ownerVars, history
<1>13. ASSUME NEW t \in Threads, Wakeup(t)
       PROVE  WakeInv'
  BY <1>13, <1>t DEF Wakeup
<1>14. CASE IoEvent
  BY <1>14 DEF IoEvent, ownerVars, history
<1>15. CASE UNCHANGED vars
  BY <1>15 DEF vars
<1> QED
  BY <1>1, <1>2, <1>3, <1>4, <1>5, <1>6, <1>7, <1>8, <1>9, <1>10, <1>11, <1>12,
     <1>13, <1>14, <1>15 DEF Next, LoopStep, OwnerCalls, ThreadStep

\* The wakeup condition of QueueToLoop() is sufficient: with any number of
\* threads pushing, the owner is never in Poll() with queued functors and
\* nothing to wake it, unless all of them are its own from before StartLoop().
THEOREM WakeupNeverLost == Spec => []NoLostWakeup
<1>1. Init => WakeInv
  BY DEF Init, WakeInv
<1>2. TypeOK /\ WakeInv /\ [Next]_vars => WakeInv'
  BY WakeStep
<1>3. WakeInv => NoLostWakeup
  BY DEF WakeInv, NoLostWakeup
<1> QED
  BY <1>1, <1>2, <1>3, TypeCorrect, PTL DEF Spec

\* QuitWakesPoll is inductive: the owner enters Poll() only if it did not see
\* quit_, and then only another thread can set it.
LEMMA QuitStep == TypeOK /\ QuitWakesPoll /\ [Next]_vars => QuitWakesPoll'
<1> SUFFICES ASSUME TypeOK, QuitWakesPoll, [Next]_vars
             PROVE  QuitWakesPoll'
  OBVIOUS
<1>t. /\ eventfd \in Nat
      /\ call \in [Threads -> {"idle", "pushed", "quitting", "quitset"}]
  BY DEF TypeOK
<1> USE DEF QuitWakesPoll
<1>1. CASE StartLoop \/ CheckQuit
  BY <1>1 DEF StartLoop, CheckQuit
<1>2. CASE Poll \/ PollInterrupted
  BY <1>2 DEF Poll, PollInterrupted
<1>3. CASE EvRead \/ HandleIo \/ HandlerReturns \/ EventsHandled
  BY <1>3 DEF EvRead, HandleIo, HandlerReturns, EventsHandled
<1>4. CASE CallFunctors
  BY <1>4 DEF CallFunctors
<1>5. CASE CallNext \/ FunctorReturns \/ CallbackThrows \/ BatchDone
  BY <1>5 DEF CallNext, FunctorReturns, CallbackThrows, BatchDone
<1>6. ASSUME NEW f \in Functors, OwnerQueueToLoop(f) \/ OwnerRunInLoop(f)
      PROVE  QuitWakesPoll'
  BY <1>6 DEF OwnerQueueToLoop, OwnerRunInLoop, InUserCode, ownerVars
<1>7. CASE OwnerQuit
  BY <1>7 DEF OwnerQuit, InUserCode, ownerVars
<1>8. ASSUME NEW t \in Threads, NEW f \in Functors, QueueToLoop(t, f)
      PROVE  QuitWakesPoll'
  BY <1>8, <1>t DEF QueueToLoop, ownerVars
<1>9. ASSUME NEW t \in Threads, QuitTest(t)
      PROVE  QuitWakesPoll'
  BY <1>9, <1>t DEF QuitTest, ownerVars
<1>10. ASSUME NEW t \in Threads, QuitSet(t)
       PROVE  QuitWakesPoll'
  BY <1>10, <1>t DEF QuitSet
<1>11. ASSUME NEW t \in Threads, Wakeup(t)
       PROVE  QuitWakesPoll'
  BY <1>11, <1>t DEF Wakeup
<1>12. CASE IoEvent
  BY <1>12 DEF IoEvent, ownerVars
<1>13. CASE UNCHANGED vars
  BY <1>13 DEF vars
<1> QED
  BY <1>1, <1>2, <1>3, <1>4, <1>5, <1>6, <1>7, <1>8, <1>9, <1>10, <1>11, <1>12,
     <1>13 DEF Next, LoopStep, OwnerCalls, ThreadStep

\* A Quit() that races with the test of while (!quit_) never leaves the owner
\* asleep in Poll(), however many threads call Quit().
THEOREM QuitNeverMissed == Spec => []QuitWakesPoll
<1>1. Init => QuitWakesPoll
  BY DEF Init, QuitWakesPoll
<1> QED
  BY <1>1, TypeCorrect, QuitStep, PTL DEF Spec

-----------------------------------------------------------------------------
(* The loop implements a serial executor.                                  *)

\* Head and tail of a concatenation whose first part is not empty.
LEMMA HeadTailConcat ==
    ASSUME NEW S, NEW a \in Seq(S), NEW b \in Seq(S), a # <<>>
    PROVE  /\ a \o b # <<>>
           /\ Head(a \o b) = Head(a)
           /\ Tail(a \o b) = Tail(a) \o b
<1>1. /\ Len(a) \in Nat \ {0} /\ Len(b) \in Nat
      /\ a \o b \in Seq(S) /\ Len(a \o b) = Len(a) + Len(b)
      /\ Tail(a) \in Seq(S) /\ Len(Tail(a)) = Len(a) - 1
  BY EmptySeq, ConcatProperties, LenProperties, HeadTailProperties
<1>2. a \o b # <<>>
  BY <1>1, EmptySeq
<1>3. Head(a \o b) = Head(a)
  BY <1>1, <1>2, ConcatProperties
<1>4. /\ Tail(a \o b) \in Seq(S)
      /\ Tail(a) \o b \in Seq(S)
      /\ Len(Tail(a \o b)) = Len(Tail(a) \o b)
  BY <1>1, <1>2, ConcatProperties, HeadTailProperties
<1>5. ASSUME NEW i \in 1 .. Len(Tail(a) \o b)
      PROVE  Tail(a \o b)[i] = (Tail(a) \o b)[i]
  <2>1. i \in 1 .. (Len(a) + Len(b) - 1)
    BY <1>1, ConcatProperties
  <2>2. Tail(a \o b)[i] = (a \o b)[i + 1]
    BY <1>1, <1>2, <1>4, HeadTailProperties
  <2>3. (a \o b)[i + 1] = IF i + 1 <= Len(a) THEN a[i + 1] ELSE b[i + 1 - Len(a)]
    BY <1>1, <2>1, ConcatProperties
  <2>4. (Tail(a) \o b)[i] = IF i <= Len(a) - 1 THEN Tail(a)[i] ELSE b[i - (Len(a) - 1)]
    BY <1>1, <2>1, ConcatProperties
  <2>5. i <= Len(a) - 1 => Tail(a)[i] = a[i + 1]
    BY <1>1, <2>1, HeadTailProperties
  <2> QED
    BY <1>1, <2>1, <2>2, <2>3, <2>4, <2>5
<1> QED
  BY <1>2, <1>3, <1>4, <1>5, SeqEqual

\* Every step of the loop is a step of the executor or leaves it unchanged.
LEMMA ExecutorStep ==
    TypeOK /\ [Next]_vars => [Executor!Next]_(Executor!vars)
<1> SUFFICES ASSUME TypeOK, [Next]_vars
             PROVE  [Executor!Next]_(Executor!vars)
  OBVIOUS
<1>t. /\ functors_ \in Seq(Functors)
      /\ batch \in Seq(Functors)
      /\ batch \o functors_ \in Seq(Functors)
      /\ phase \notin {"run", "functor"} => batch = <<>>
      /\ phase \in Phases
  BY ConcatProperties DEF TypeOK
<1>u. ASSUME UNCHANGED <<executed, batch, functors_>>,
             phase \notin {"stopped", "failed"}, phase' \notin {"stopped", "failed"}
      PROVE  UNCHANGED Executor!vars
  BY <1>u DEF Executor!vars
<1>v. ASSUME UNCHANGED <<executed, batch, functors_, phase>>
      PROVE  UNCHANGED Executor!vars
  BY <1>v DEF Executor!vars
<1>p. ASSUME NEW f \in Functors, functors_' = Append(functors_, f),
             UNCHANGED <<phase, executed, batch>>
      PROVE  Executor!Submit(f)
  BY <1>t, <1>p, AppendConcat DEF Executor!Submit
<1>1. CASE StartLoop
  BY <1>1, <1>u DEF StartLoop, history
<1>2. CASE CheckQuit
  <2>1. CASE quit_
    <3>1. batch \o functors_ = functors_
      BY <1>2, <1>t, ConcatEmptySeq DEF CheckQuit
    <3>2. SubSeq(batch \o functors_, 0 + 1, Len(batch \o functors_)) = batch \o functors_
      BY <1>t, SubSeqFull
    <3>3. 0 \in 0 .. Len(batch \o functors_)
      BY <1>t, LenProperties
    <3>4. /\ phase = "check" /\ phase' = "stopped"
          /\ UNCHANGED <<batch, functors_, executed>>
      BY <1>2, <2>1 DEF CheckQuit, history
    <3> QED
      BY <3>2, <3>3, <3>4 DEF Executor!Next, Executor!Close
  <2>2. CASE ~quit_
    BY <1>2, <2>2, <1>u DEF CheckQuit, history
  <2> QED
    BY <2>1, <2>2
<1>3. CASE Poll
  BY <1>3, <1>u DEF Poll, history
<1>4. CASE PollInterrupted
  BY <1>4, <1>u DEF PollInterrupted, history
<1>5. CASE EvRead
  BY <1>5, <1>v DEF EvRead, history
<1>6. CASE HandleIo
  BY <1>6, <1>u DEF HandleIo, history
<1>7. CASE HandlerReturns
  BY <1>7, <1>u DEF HandlerReturns, history
<1>8. CASE EventsHandled
  BY <1>8, <1>u DEF EventsHandled, history
<1>9. CASE CallFunctors
  <2>1. CASE quit_
    BY <1>9, <2>1, <1>u DEF CallFunctors, history
  <2>2. CASE ~quit_
    <3>1. batch \o functors_ = functors_ /\ functors_ \o <<>> = functors_
      BY <1>9, <1>t, ConcatEmptySeq DEF CallFunctors
    <3> QED
      BY <1>9, <2>2, <3>1 DEF CallFunctors, history, Executor!vars
  <2> QED
    BY <2>1, <2>2
<1>10. CASE CallNext
  <2>1. /\ batch \o functors_ # <<>>
        /\ Head(batch \o functors_) = Head(batch)
        /\ Tail(batch \o functors_) = Tail(batch) \o functors_
    BY <1>10, <1>t, HeadTailConcat DEF CallNext
  <2> QED
    BY <1>10, <2>1 DEF CallNext, Executor!Next, Executor!Execute
<1>11. CASE FunctorReturns
  BY <1>11, <1>u DEF FunctorReturns, history
<1>12. CASE CallbackThrows
  <2>1. SubSeq(batch \o functors_, Len(batch) + 1, Len(batch \o functors_)) = functors_
    BY <1>t, DropFront
  <2>2. Len(batch) \in 0 .. Len(batch \o functors_)
    BY <1>t, LenProperties, ConcatProperties
  <2>3. <<>> \o functors_ = functors_
    BY <1>t, ConcatEmptySeq
  <2>4. /\ phase \in {"iohandler", "functor"} /\ phase' = "failed" /\ batch' = <<>>
        /\ UNCHANGED <<functors_, executed>>
    BY <1>12 DEF CallbackThrows, history
  <2> QED
    BY <2>1, <2>2, <2>3, <2>4 DEF Executor!Next, Executor!Close
<1>13. CASE BatchDone
  BY <1>13, <1>u DEF BatchDone, history
<1>14. ASSUME NEW f \in Functors, OwnerQueueToLoop(f)
       PROVE  Executor!Next
  BY <1>14, <1>p DEF OwnerQueueToLoop, ownerVars, Executor!Next
<1>15. ASSUME NEW f \in Functors, OwnerRunInLoop(f)
       PROVE  UNCHANGED Executor!vars
  BY <1>15, <1>v DEF OwnerRunInLoop, ownerVars
<1>16. CASE OwnerQuit
  BY <1>16, <1>v DEF OwnerQuit, ownerVars, history
<1>17. ASSUME NEW t \in Threads, NEW f \in Functors, QueueToLoop(t, f)
       PROVE  Executor!Next
  BY <1>17, <1>p DEF QueueToLoop, ownerVars, Executor!Next
<1>18. ASSUME NEW t \in Threads, QuitTest(t) \/ QuitSet(t) \/ Wakeup(t)
       PROVE  UNCHANGED Executor!vars
  BY <1>18, <1>v DEF QuitTest, QuitSet, Wakeup, ownerVars, history
<1>19. CASE IoEvent
  BY <1>19, <1>v DEF IoEvent, ownerVars, history
<1>20. CASE UNCHANGED vars
  BY <1>20, <1>v DEF vars
<1> QED
  BY <1>1, <1>2, <1>3, <1>4, <1>5, <1>6, <1>7, <1>8, <1>9, <1>10, <1>11, <1>12,
     <1>13, <1>14, <1>15, <1>16, <1>17, <1>18, <1>19, <1>20
     DEF Next, LoopStep, OwnerCalls, ThreadStep

\* An EventLoop, with its two-step wakeups, its batches and its quit flag, is
\* to its users an executor that runs one functor at a time, in order, each
\* at most once, until it is closed.
THEOREM LoopImplementsExecutor == Spec => ExecutorSpec
<1>1. Init => Executor!Init
  BY EmptySeq, ConcatEmptySeq DEF Init, Executor!Init
<1> QED
  BY <1>1, TypeCorrect, ExecutorStep, PTL DEF Spec, ExecutorSpec, Executor!Spec
=============================================================================
