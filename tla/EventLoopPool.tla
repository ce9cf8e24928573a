---------------------------- MODULE EventLoopPool ----------------------------
(***************************************************************************)
(* kanon/net/event_loop_thread.{h,cc} and event_loop_pool.{h,cc}: a pool   *)
(* of threads that each run an EventLoop on their stack and publish its    *)
(* address in loop_.                                                       *)
(*                                                                         *)
(* The thread that owns the pool starts the IO threads one by one, hands   *)
(* out their loops round robin and destroys them one by one.  Of an        *)
(* EventLoop only what its end depends on is kept: quit_, the eventfd and  *)
(* whether the object is alive; EventLoop.tla models the rest.  loop_ is   *)
(* written under mutex_ once, and read and reset without it.               *)
(***************************************************************************)
EXTENDS Integers

CONSTANTS
    LoopNum,        \* loop_num_, a natural number
    MaxGets         \* bound: calls of GetNextLoop()

\* The indices of loop_threads_.
Ids == 0 .. LoopNum - 1

VARIABLES
    pc,         \* where the owner of the pool is
    cur,        \* the EventLoopThread it starts or destroys
    started_,
    next_,
    given,      \* how often GetNextLoop() was called
    quits,      \* which user code quits loops: "init", the ThreadInitCallback, and
                \* "callback", one set up once StartRun() has returned
    nullGiven,  \* history: whether GetNextLoop() returned a null pointer
    loop_,      \* whether loop_ of each EventLoopThread is set
    io,         \* where each IO thread is
    quit_,      \* EventLoop::quit_ of each loop
    eventfd     \* whether the eventfd of each loop is readable

ownerVars == <<pc, cur, started_, next_, given, nullGiven, quits>>
vars == <<pc, cur, started_, next_, given, nullGiven, quits, loop_, io, quit_, eventfd>>

Init ==
    /\ pc = "new"
    /\ cur = 0
    /\ started_ = FALSE
    /\ next_ = 0
    /\ given = 0
    /\ nullGiven = FALSE
    /\ quits \in SUBSET {"init", "callback"}
    /\ loop_ = [i \in Ids |-> FALSE]
    /\ io = [i \in Ids |-> "none"]
    /\ quit_ = [i \in Ids |-> FALSE]
    /\ eventfd = [i \in Ids |-> FALSE]

-----------------------------------------------------------------------------
(* The owner: EventLoopPool::StartRun() and EventLoopThread::StartRun().   *)

\* Continue with the next EventLoopThread, or leave the loop for done.
Advance(again, done) ==
    /\ cur' = cur + 1
    /\ pc' = IF cur + 1 < LoopNum THEN again ELSE done

StartRun ==
    /\ pc = "new"
    /\ started_' = TRUE
    /\ pc' = IF LoopNum = 0 THEN "running" ELSE "starting"
    /\ UNCHANGED <<cur, next_, given, nullGiven, quits, loop_, io, quit_, eventfd>>

StartThread ==
    /\ pc = "starting"
    /\ io' = [io EXCEPT ![cur] = "init"]
    /\ pc' = "wait"
    /\ UNCHANGED <<cur, started_, next_, given, nullGiven, quits, loop_, quit_, eventfd>>

\* while (loop_ == nullptr) cond_.Wait();
WaitLoop ==
    /\ pc = "wait"
    /\ IF loop_[cur]
         THEN Advance("starting", "running")
         ELSE pc' = "asleep" /\ UNCHANGED cur
    /\ UNCHANGED <<started_, next_, given, nullGiven, quits, loop_, io, quit_, eventfd>>

\* External: pthread_cond_wait() may return without a notification.
SpuriousWakeup ==
    /\ pc = "asleep"
    /\ pc' = "wait"
    /\ UNCHANGED <<cur, started_, next_, given, nullGiven, quits, loop_, io, quit_, eventfd>>

-----------------------------------------------------------------------------
\* loop_threads_[next_]->GetLoop(); with an empty pool the base loop is returned
\* and nothing changes.
GetNextLoop ==
    /\ pc = "running"
    /\ LoopNum > 0
    /\ given < MaxGets
    /\ given' = given + 1
    /\ nullGiven' = (nullGiven \/ ~loop_[next_])
    /\ next_' = IF next_ + 1 >= LoopNum THEN 0 ELSE next_ + 1
    /\ UNCHANGED <<pc, cur, started_, quits, loop_, io, quit_, eventfd>>

-----------------------------------------------------------------------------
(* The owner: the destructors.                                             *)

\* assert(started_): a pool is not destroyed before StartRun().
DestroyPool ==
    /\ pc = "running"
    /\ started_
    /\ cur' = 0
    /\ pc' = IF LoopNum = 0 THEN "gone" ELSE "dtor"
    /\ UNCHANGED <<started_, next_, given, nullGiven, quits, loop_, io, quit_, eventfd>>

\* if (loop_ != nullptr); otherwise ~Thread() detaches the thread.
DtorCheck ==
    /\ pc = "dtor"
    /\ IF loop_[cur]
         THEN pc' = "quit" /\ UNCHANGED cur
         ELSE Advance("dtor", "gone")
    /\ UNCHANGED <<started_, next_, given, nullGiven, quits, loop_, io, quit_, eventfd>>

\* loop_->Quit() reads loop_ again; a null pointer ends the process.
DtorQuit ==
    /\ pc = "quit"
    /\ IF loop_[cur]
         THEN /\ pc' = IF quit_[cur] THEN "join" ELSE "wakeup"
              /\ quit_' = [quit_ EXCEPT ![cur] = TRUE]
         ELSE pc' = "crashed" /\ UNCHANGED quit_
    /\ UNCHANGED <<cur, started_, next_, given, nullGiven, quits, loop_, io, eventfd>>

\* The counter of an eventfd is kept as whether it is above 0.
WriteEventFd(i) == eventfd' = [eventfd EXCEPT ![i] = TRUE]

ReadEventFd(i) == eventfd' = [eventfd EXCEPT ![i] = FALSE]

\* A slip a programmer might make: Quit() does not write the eventfd.
DtorNoWakeup ==
    /\ pc = "wakeup"
    /\ pc' = "join"
    /\ UNCHANGED <<cur, started_, next_, given, nullGiven, quits, loop_, io, quit_, eventfd>>

\* The Wakeup() at the end of Quit().  The EventLoop may be gone by now: then
\* the write of its descriptor fails, or the access ends the process.
DtorWakeup ==
    /\ pc = "wakeup"
    /\ IF io[cur] # "ended"
         THEN /\ WriteEventFd(cur)
              /\ pc' = "join"
         ELSE /\ pc' \in {"join", "crashed"}
              /\ UNCHANGED eventfd
    /\ UNCHANGED <<cur, started_, next_, given, nullGiven, quits, loop_, io, quit_>>

DtorJoin ==
    /\ pc = "join"
    /\ io[cur] = "ended"
    /\ Advance("dtor", "gone")
    /\ UNCHANGED <<started_, next_, given, nullGiven, quits, loop_, io, quit_, eventfd>>

-----------------------------------------------------------------------------
(* An IO thread: BackGroundStartLoop().                                    *)

Running == pc # "crashed"

\* The EventLoop is constructed and init_cb runs.
RunInitCallback(i) ==
    /\ Running
    /\ io[i] = "init"
    /\ \E q \in {FALSE, "init" \in quits} : quit_' = [quit_ EXCEPT ![i] = q]
    /\ io' = [io EXCEPT ![i] = "publish"]
    /\ UNCHANGED <<ownerVars, loop_, eventfd>>

Publish(i) ==
    /\ Running
    /\ io[i] = "publish"
    /\ loop_' = [loop_ EXCEPT ![i] = TRUE]
    /\ pc' = IF pc = "asleep" /\ cur = i THEN "wait" ELSE pc
    /\ io' = [io EXCEPT ![i] = "check"]
    /\ UNCHANGED <<cur, started_, next_, given, nullGiven, quits, quit_, eventfd>>

\* while (!quit_) of StartLoop().
CheckQuit(i) ==
    /\ Running
    /\ io[i] = "check"
    /\ io' = [io EXCEPT ![i] = IF quit_[i] THEN "stopped" ELSE "poll"]
    /\ UNCHANGED <<ownerVars, loop_, quit_, eventfd>>

\* Poll() returns because of the eventfd, which its handler reads.
WokenUp(i) ==
    /\ Running
    /\ io[i] = "poll"
    /\ eventfd[i]
    /\ ReadEventFd(i)
    /\ io' = [io EXCEPT ![i] = "check"]
    /\ UNCHANGED <<ownerVars, loop_, quit_>>

\* Poll() returns because of another channel.
EventArrives(i) ==
    /\ Running
    /\ io[i] = "poll"
    /\ io' = [io EXCEPT ![i] = "busy"]
    /\ UNCHANGED <<ownerVars, loop_, quit_, eventfd>>

\* Callbacks are set up by init_cb, or by whoever has got the loop from StartRun().
MayQuit(i) ==
    \/ "init" \in quits
    \/ "callback" \in quits /\ (pc \in {"starting", "wait", "asleep"} => i < cur)

\* Its callbacks and the functors have run; one may have called Quit().
EventHandled(i) ==
    /\ Running
    /\ io[i] = "busy"
    /\ \E q \in {FALSE, MayQuit(i)} : quit_' = [quit_ EXCEPT ![i] = @ \/ q]
    /\ io' = [io EXCEPT ![i] = "check"]
    /\ UNCHANGED <<ownerVars, loop_, eventfd>>

\* A slip a programmer might make: the loop is destroyed and loop_ keeps its address.
LoopEndsPublished(i) ==
    /\ Running
    /\ io[i] = "stopped"
    /\ io' = [io EXCEPT ![i] = "ended"]
    /\ UNCHANGED <<ownerVars, loop_, quit_, eventfd>>

\* loop_ = nullptr;
Unpublish(i) ==
    /\ Running
    /\ io[i] = "stopped"
    /\ loop_' = [loop_ EXCEPT ![i] = FALSE]
    /\ io' = [io EXCEPT ![i] = "unwinding"]
    /\ UNCHANGED <<ownerVars, quit_, eventfd>>

\* ~EventLoop() at the end of the block, and the thread ends.
DestroyLoop(i) ==
    /\ Running
    /\ io[i] = "unwinding"
    /\ io' = [io EXCEPT ![i] = "ended"]
    /\ UNCHANGED <<ownerVars, loop_, quit_, eventfd>>

-----------------------------------------------------------------------------
OwnerStep ==
    \/ StartThread \/ WaitLoop \/ DtorCheck \/ DtorQuit \/ DtorWakeup \/ DtorJoin

IoStep(i) ==
    \/ RunInitCallback(i) \/ Publish(i) \/ CheckQuit(i) \/ WokenUp(i)
    \/ EventHandled(i) \/ Unpublish(i) \/ DestroyLoop(i)

Next ==
    \/ StartRun \/ GetNextLoop \/ DestroyPool \/ SpuriousWakeup
    \/ OwnerStep
    \/ \E i \in Ids : IoStep(i) \/ EventArrives(i)

Spec == Init /\ [][Next]_vars

\* Every thread goes on with what it has begun; nobody is obliged to start or to
\* destroy the pool, no event has to arrive and no spurious wakeup to happen.
Fairness == WF_vars(OwnerStep) /\ \A i \in Ids : WF_vars(IoStep(i))

FairSpec == Spec /\ Fairness

-----------------------------------------------------------------------------
TypeOK ==
    /\ pc \in {"new", "starting", "wait", "asleep", "running", "dtor", "quit",
               "wakeup", "join", "gone", "crashed"}
    /\ cur \in 0..LoopNum
    /\ pc \in {"starting", "wait", "asleep", "dtor", "quit", "wakeup", "join"} => cur < LoopNum
    /\ started_ \in BOOLEAN /\ nullGiven \in BOOLEAN
    /\ next_ \in 0..LoopNum /\ (LoopNum > 0 => next_ < LoopNum)
    /\ given \in 0..MaxGets
    /\ loop_ \in [Ids -> BOOLEAN]
    /\ io \in [Ids -> {"none", "init", "publish", "check", "poll", "busy", "stopped",
                       "unwinding", "ended"}]
    /\ quit_ \in [Ids -> BOOLEAN]
    /\ eventfd \in [Ids -> BOOLEAN]

Destroyed(i) ==
    \/ pc = "gone"
    \/ pc \in {"dtor", "quit", "wakeup", "join"} /\ i < cur

\* A loop_ that is set points to an EventLoop that exists, whenever another
\* thread reads it through GetLoop(); and GetNextLoop(), whose result TcpServer
\* uses without a test, returns a null pointer only when user code quits loops.
PublishedAlive ==
    /\ \A i \in Ids : loop_[i] => io[i] \in {"check", "poll", "busy", "stopped"}
    /\ nullGiven => quits # {}

\* Once an EventLoopThread is destroyed, joined or detached, its IO thread no
\* longer touches loop_, mutex_ or cond_ of it.
DetachedHarmless ==
    \A i \in Ids : Destroyed(i) => io[i] \in {"none", "unwinding", "ended"}

\* The owner and the IO threads share loop_ and the EventLoopThread objects safely.
LoopsShared == PublishedAlive /\ DetachedHarmless

\* StartRun() of the pool returns, unless an init callback quits its loop, which
\* may then be gone before the starting thread looks; and the destructor ends:
\* each loop it quits leaves Poll() and is joined.
CallsReturn ==
    /\ (pc = "starting" /\ "init" \notin quits) ~> pc = "running"
    /\ pc = "dtor" ~> pc \in {"gone", "crashed"}
=============================================================================
