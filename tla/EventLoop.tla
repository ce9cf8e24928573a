----------------------------- MODULE EventLoop -----------------------------
(***************************************************************************)
(* kanon/net/event_loop.{h,cc}: one EventLoop, the thread that owns it and *)
(* the other threads that call its thread-safe API.                        *)
(*                                                                         *)
(* The owner cycles through the three phases of StartLoop(): poll, handle  *)
(* the active channels, call the queued functors.  Two channels are        *)
(* modelled: the eventfd written by Wakeup() and one user channel, whose   *)
(* handler, like any functor, may call the API of the loop.  The other     *)
(* threads call QueueToLoop() (RunInLoop() from another thread is the same *)
(* call) and Quit(); their calls are split where another thread can        *)
(* observe the difference: the push is under lock_, the write of the       *)
(* eventfd comes after the unlock.                                         *)
(*                                                                         *)
(* A functor is an identity that is handed over at most once.              *)
(***************************************************************************)
EXTENDS Naturals, Sequences

CONSTANTS
    Threads,            \* threads other than the owner of the loop
    Functors,           \* callables that may be handed over, each once
    MaxIo               \* bound: readiness events of the user channel

VARIABLES
    phase,              \* where the owner thread is
    looping_,
    quit_,
    calling_functors_,
    functors_,          \* the queue protected by lock_
    batch,              \* the local vector functors of CallFunctors()
    active,             \* activeChannels not handled yet
    eventfd,            \* counter of the eventfd
    ioReady,            \* whether the user channel is readable (level triggered)
    ios,                \* readiness events so far
    call,               \* what each other thread is doing inside the API
    submitted,          \* functors already used
    queued,             \* history: functors pushed to functors_, in order
    executed,           \* history: queued functors called, in order
    early               \* history: functors the owner queued before StartLoop()

ownerVars == <<phase, looping_, calling_functors_, batch, active>>
ioVars == <<ioReady, ios>>
history == <<submitted, queued, executed, early>>
vars == <<phase, looping_, quit_, calling_functors_, functors_, batch, active,
          eventfd, ioReady, ios, call, submitted, queued, executed, early>>

Phases == {"start", "check", "poll", "handle", "iohandler", "call", "run",
           "functor", "stopped", "failed"}

Init ==
    /\ phase = "start"
    /\ looping_ = FALSE
    /\ quit_ = FALSE
    /\ calling_functors_ = FALSE
    /\ functors_ = <<>>
    /\ batch = <<>>
    /\ active = {}
    /\ eventfd = 0
    /\ ioReady = FALSE
    /\ ios = 0
    /\ call = [t \in Threads |-> "idle"]
    /\ submitted = {}
    /\ queued = <<>>
    /\ executed = <<>>
    /\ early = {}

-----------------------------------------------------------------------------
(* The owner thread: StartLoop().                                          *)

StartLoop ==
    /\ phase = "start"
    /\ phase' = "check"
    /\ looping_' = TRUE
    /\ UNCHANGED <<quit_, calling_functors_, functors_, batch, active, eventfd,
                   ioVars, call, history>>

\* while (!quit_)
CheckQuit ==
    /\ phase = "check"
    /\ IF quit_
         THEN phase' = "stopped" /\ looping_' = FALSE
         ELSE phase' = "poll" /\ UNCHANGED looping_
    /\ UNCHANGED <<quit_, calling_functors_, functors_, batch, active, eventfd,
                   ioVars, call, history>>

Ready == {c \in {"ev", "io"} : \/ c = "ev" /\ eventfd > 0
                               \/ c = "io" /\ ioReady}

\* POLLTIME is -1: without a ready channel Poll() does not return.
Poll ==
    /\ phase = "poll"
    /\ Ready # {}
    /\ active' = Ready
    /\ phase' = "handle"
    /\ UNCHANGED <<looping_, quit_, calling_functors_, functors_, batch, eventfd,
                   ioVars, call, history>>

\* A signal interrupts the system call; the poller returns no channel.
PollInterrupted ==
    /\ phase = "poll"
    /\ active' = {}
    /\ phase' = "handle"
    /\ UNCHANGED <<looping_, quit_, calling_functors_, functors_, batch, eventfd,
                   ioVars, call, history>>

\* The read callback of ev_channel_; read(2) resets the counter.
EvRead ==
    /\ phase = "handle"
    /\ "ev" \in active
    /\ active' = active \ {"ev"}
    /\ eventfd' = 0
    /\ UNCHANGED <<phase, looping_, quit_, calling_functors_, functors_, batch,
                   ioVars, call, history>>

\* The handler of the user channel consumes its event, then runs user code.
HandleIo ==
    /\ phase = "handle"
    /\ "io" \in active
    /\ active' = active \ {"io"}
    /\ ioReady' = FALSE
    /\ phase' = "iohandler"
    /\ UNCHANGED <<looping_, quit_, calling_functors_, functors_, batch, eventfd,
                   ios, call, history>>

HandlerReturns ==
    /\ phase = "iohandler"
    /\ phase' = "handle"
    /\ UNCHANGED <<looping_, quit_, calling_functors_, functors_, batch, active,
                   eventfd, ioVars, call, history>>

EventsHandled ==
    /\ phase = "handle"
    /\ active = {}
    /\ phase' = "call"
    /\ UNCHANGED <<looping_, quit_, calling_functors_, functors_, batch, active,
                   eventfd, ioVars, call, history>>

-----------------------------------------------------------------------------
(* The owner thread: CallFunctors().                                       *)

CallFunctors ==
    /\ phase = "call"
    /\ IF quit_
         THEN /\ phase' = "check"
              /\ UNCHANGED <<calling_functors_, functors_, batch>>
         ELSE /\ batch' = functors_
              /\ functors_' = <<>>
              /\ calling_functors_' = TRUE
              /\ phase' = "run"
    /\ UNCHANGED <<looping_, quit_, active, eventfd, ioVars, call, history>>

\* A slip a programmer might make: the batch is called from its newest functor.
CallNewest ==
    /\ phase = "run"
    /\ batch # <<>>
    /\ executed' = Append(executed, batch[Len(batch)])
    /\ batch' = SubSeq(batch, 1, Len(batch) - 1)
    /\ phase' = "functor"
    /\ UNCHANGED <<looping_, quit_, calling_functors_, functors_, active, eventfd,
                   ioVars, call, submitted, queued, early>>

CallNext ==
    /\ phase = "run"
    /\ batch # <<>>
    /\ executed' = Append(executed, Head(batch))
    /\ batch' = Tail(batch)
    /\ phase' = "functor"
    /\ UNCHANGED <<looping_, quit_, calling_functors_, functors_, active, eventfd,
                   ioVars, call, submitted, queued, early>>

FunctorReturns ==
    /\ phase = "functor"
    /\ phase' = "run"
    /\ UNCHANGED <<looping_, quit_, calling_functors_, functors_, batch, active,
                   eventfd, ioVars, call, history>>

\* An exception of a functor is rethrown, one of a handler is not caught: both
\* leave StartLoop(), which does not reset looping_; unwinding destroys the
\* local vectors.  calling_functors_ is reset by the catch clauses of phase 3
\* and was never set in phase 2.
CallbackThrows ==
    /\ phase \in {"iohandler", "functor"}
    /\ calling_functors_' = FALSE
    /\ batch' = <<>>
    /\ active' = {}
    /\ phase' = "failed"
    /\ UNCHANGED <<looping_, quit_, functors_, eventfd, ioVars, call, history>>

BatchDone ==
    /\ phase = "run"
    /\ batch = <<>>
    /\ calling_functors_' = FALSE
    /\ phase' = "check"
    /\ UNCHANGED <<looping_, quit_, functors_, batch, active, eventfd, ioVars,
                   call, history>>

-----------------------------------------------------------------------------
(* The API called by the owner: before the loop (the init callback of an   *)
(* EventLoopThread, or main), from the handler of a channel (phase 2) or   *)
(* from a functor (phase 3).                                               *)

InUserCode == phase \in {"start", "iohandler", "functor"}

Unused(f) == f \notin submitted

\* A slip a programmer might make: no Wakeup() when the owner queues in phase 3.
OwnerQueueSilently(f) ==
    /\ InUserCode
    /\ Unused(f)
    /\ submitted' = submitted \cup {f}
    /\ functors_' = Append(functors_, f)
    /\ queued' = Append(queued, f)
    /\ early' = IF phase = "start" THEN early \cup {f} ELSE early
    /\ UNCHANGED <<ownerVars, quit_, eventfd, ioVars, call, executed>>

OwnerQueueToLoop(f) ==
    /\ InUserCode
    /\ Unused(f)
    /\ submitted' = submitted \cup {f}
    /\ functors_' = Append(functors_, f)
    /\ queued' = Append(queued, f)
    /\ eventfd' = IF calling_functors_ THEN eventfd + 1 ELSE eventfd
    /\ early' = IF phase = "start" THEN early \cup {f} ELSE early
    /\ UNCHANGED <<ownerVars, quit_, ioVars, call, executed>>

\* RunInLoop() in the thread of the loop calls the functor at once, whatever
\* is queued.
OwnerRunInLoop(f) ==
    /\ InUserCode
    /\ Unused(f)
    /\ submitted' = submitted \cup {f}
    /\ UNCHANGED <<ownerVars, quit_, functors_, eventfd, ioVars, call, queued,
                   executed, early>>

OwnerQuit ==
    /\ InUserCode
    /\ ~quit_
    /\ quit_' = TRUE
    /\ UNCHANGED <<ownerVars, functors_, eventfd, ioVars, call, history>>

-----------------------------------------------------------------------------
(* The API called by another thread.                                       *)

QueueToLoop(t, f) ==
    /\ call[t] = "idle"
    /\ Unused(f)
    /\ submitted' = submitted \cup {f}
    /\ functors_' = Append(functors_, f)
    /\ queued' = Append(queued, f)
    /\ call' = [call EXCEPT ![t] = "pushed"]
    /\ UNCHANGED <<ownerVars, quit_, eventfd, ioVars, executed, early>>

\* if (quit_) return;
QuitTest(t) ==
    /\ call[t] = "idle"
    /\ ~quit_
    /\ call' = [call EXCEPT ![t] = "quitting"]
    /\ UNCHANGED <<ownerVars, quit_, functors_, eventfd, ioVars, history>>

\* A slip a programmer might make: Quit() from another thread does not wake the loop up.
QuitWithoutWakeup(t) ==
    /\ call[t] = "quitting"
    /\ quit_' = TRUE
    /\ call' = [call EXCEPT ![t] = "idle"]
    /\ UNCHANGED <<ownerVars, functors_, eventfd, ioVars, history>>

QuitSet(t) ==
    /\ call[t] = "quitting"
    /\ quit_' = TRUE
    /\ call' = [call EXCEPT ![t] = "quitset"]
    /\ UNCHANGED <<ownerVars, functors_, eventfd, ioVars, history>>

\* The last step of QueueToLoop() and of Quit() from another thread.
Wakeup(t) ==
    /\ call[t] \in {"pushed", "quitset"}
    /\ eventfd' = eventfd + 1
    /\ call' = [call EXCEPT ![t] = "idle"]
    /\ UNCHANGED <<ownerVars, quit_, functors_, ioVars, history>>

\* External: the user channel becomes readable.
IoEvent ==
    /\ ios < MaxIo
    /\ ios' = ios + 1
    /\ ioReady' = TRUE
    /\ UNCHANGED <<ownerVars, quit_, functors_, eventfd, call, history>>

-----------------------------------------------------------------------------
LoopStep ==
    \/ StartLoop \/ CheckQuit \/ Poll \/ EvRead \/ HandleIo \/ HandlerReturns
    \/ EventsHandled \/ CallFunctors \/ CallNext \/ FunctorReturns
    \/ BatchDone

OwnerCalls ==
    \/ OwnerQuit
    \/ \E f \in Functors : OwnerQueueToLoop(f) \/ OwnerRunInLoop(f)

ThreadStep(t) ==
    \/ QuitTest(t) \/ QuitSet(t) \/ Wakeup(t)
    \/ \E f \in Functors : QueueToLoop(t, f)

Next ==
    \/ LoopStep \/ PollInterrupted \/ CallbackThrows
    \/ OwnerCalls
    \/ \E t \in Threads : ThreadStep(t)
    \/ IoEvent

Spec == Init /\ [][Next]_vars

\* The owner thread is scheduled and its callbacks return; a thread inside
\* the API finishes its call.  No thread is obliged to make a call.
Fairness ==
    /\ WF_vars(LoopStep)
    /\ \A t \in Threads : WF_vars(QuitSet(t) \/ Wakeup(t))

FairSpec == Spec /\ Fairness

-----------------------------------------------------------------------------
(* Properties.                                                             *)

\* Types, and how the flags of the loop follow its phases: looping_ is set
\* exactly between the entry of StartLoop() and its normal return,
\* calling_functors_ exactly while a batch is being called, and the local
\* vector of CallFunctors() is empty outside of it.
TypeOK ==
    /\ phase \in Phases
    /\ looping_ \in BOOLEAN
    /\ looping_ <=> phase \notin {"start", "stopped"}
    /\ quit_ \in BOOLEAN
    /\ calling_functors_ \in BOOLEAN
    /\ calling_functors_ <=> phase \in {"run", "functor"}
    /\ functors_ \in Seq(Functors)
    /\ batch \in Seq(Functors)
    /\ phase \notin {"run", "functor"} => batch = <<>>
    /\ active \subseteq {"ev", "io"}
    /\ phase \notin {"handle", "iohandler"} => active = {}
    /\ eventfd \in Nat
    /\ ioReady \in BOOLEAN
    /\ ios \in Nat
    /\ call \in [Threads -> {"idle", "pushed", "quitting", "quitset"}]
    /\ submitted \subseteq Functors
    /\ queued \in Seq(Functors)
    /\ executed \in Seq(Functors)
    /\ early \subseteq Functors

\* QueueToLoop() and CallFunctors() neither lose, duplicate nor reorder a
\* functor: what was pushed is what was called, then what is left of the
\* batch, then what is still queued (an exception drops the batch).
FunctorsConserved ==
    phase # "failed" => queued = executed \o batch \o functors_

\* Something will make Poll() return: the eventfd is readable or a thread
\* that has pushed is about to write it.
WorkSignalled == eventfd > 0 \/ \E t \in Threads : call[t] = "pushed"

\* All that is queued was queued by the owner before StartLoop().
OnlyEarly == \A i \in DOMAIN functors_ : functors_[i] \in early

\* The owner never blocks in Poll() on queued work: the condition
\* !IsLoopInThread() || calling_functors_ of QueueToLoop() is enough, except for
\* functors it queued itself before StartLoop(), which wait for whatever makes
\* the first Poll() return.
NoLostWakeup == phase = "poll" /\ functors_ # <<>> => WorkSignalled \/ OnlyEarly

\* The owner never blocks in Poll() after Quit(): a Quit() that was not seen
\* by the test of the while loop leaves the eventfd readable, or is about to.
QuitWakesPoll ==
    phase = "poll" /\ quit_ => \/ eventfd > 0
                              \/ \E t \in Threads : call[t] = "quitset"

\* The loop is a serial executor of the functors queued to it: SerialExecutor,
\* with what CallFunctors() has taken ahead of what is still in functors_.
Executor == INSTANCE SerialExecutor
    WITH pending <- batch \o functors_,
         open <- phase \notin {"stopped", "failed"}

\* The detailed loop implements the serial executor.
ExecutorSpec == Executor!Spec

IsIn(f, s) == \E i \in DOMAIN s : s[i] = f

\* A queued functor is called, whoever queued it and in whatever phase, unless
\* the loop is told to quit or dies of an exception (one queued by the owner
\* before StartLoop(), as soon as anything else is signalled).
FunctorCalled(f) ==
    IsIn(f, queued) /\ (f \notin early \/ WorkSignalled)
      ~> (IsIn(f, executed) \/ quit_ \/ phase = "failed")

\* After Quit(), by whichever thread, StartLoop() returns.
QuitReturns == quit_ ~> phase \in {"stopped", "failed"}
=============================================================================
