------------------------------- MODULE MCLoop --------------------------------
(***************************************************************************)
(* Model checking of a loop, with the wakeup that threads hand work over    *)
(* with (extended), and of a client, whose connector lives on a loop.  An   *)
(* initial state picks the part that runs and the use made of it; the other *)
(* stays in one initial state, so the state spaces add up.                  *)
(***************************************************************************)
EXTENDS EventLoop

VARIABLES
    part,   \* the part that runs
    cli_use, cli_state_, connect_, retry_interval_, timer_, channel_, polled, retry_,
    conn_, cstate, cli_added, cli_reading, fresh, open, cli_functors_, cli_batch, cli_ran,
    pc, cli_user, held, connectorGone, calling, cli_calls, connects, attempts,
    stopped, delay, overtaken, cli_crash

clientVars == <<cli_use, cli_state_, connect_, retry_interval_, timer_, channel_, polled,
               retry_, conn_, cstate, cli_added, cli_reading, fresh, open, cli_functors_,
               cli_batch, cli_ran, pc, cli_user, held, connectorGone, calling,
               cli_calls, connects, attempts, stopped, delay, overtaken, cli_crash>>
allVars == <<part, vars, clientVars>>

\* A client that connects once, retries, is disconnected and stopped.
Retrying == [api |-> {"connect", "disconnect", "stop"}, connects |-> 1,
             outcomes |-> {"progress", "soft"}, retries |-> TRUE, closes |-> FALSE]

ClientUses ==
    {Retrying,
     \* connects again
     [Retrying EXCEPT !.api = {"connect", "stop"}, !.connects = 2],
     \* does not retry, and may meet an error that ends the attempts
     [Retrying EXCEPT !.outcomes = {"progress", "soft", "fatal"}, !.retries = FALSE,
                      !.closes = TRUE],
     \* closes in the connection callback
     [Retrying EXCEPT !.closes = TRUE],
     \* is dropped at any time
     [Retrying EXCEPT !.api = {"connect", "disconnect", "stop", "release"},
                      !.outcomes = {"progress", "soft", "fatal"}, !.closes = TRUE]}

Client == INSTANCE TcpClient WITH
    Uses <- ClientUses, Fds <- {3, 4, 5}, MaxCalls <- 3, MaxAttempts <- 6,
    InitInterval <- 1, MaxInterval <- 2, IntervalMod <- 8,
    use <- cli_use, state_ <- cli_state_, added <- cli_added, reading <- cli_reading,
    functors_ <- cli_functors_, batch <- cli_batch, ran <- cli_ran, user <- cli_user,
    calls <- cli_calls, crash <- cli_crash

ASSUME InstanceAssumption == Client!ClientAssumption

-----------------------------------------------------------------------------
\* The part that does not run stays in one initial state.
PartInit ==
    /\ part \in {"functors", "client"}
    /\ Init
    /\ Client!Init /\ (part # "client" => cli_use = Retrying)

PartNext ==
    /\ UNCHANGED part
    /\ \/ part = "functors" /\ Next /\ UNCHANGED clientVars
       \/ part = "client" /\ Client!Next /\ UNCHANGED vars

Runs(p, A) == part = p /\ A

\* The fairness of each module, for the part that runs.
MCLoopSpec ==
    /\ PartInit /\ [][PartNext]_allVars
    /\ WF_vars(Runs("functors", LoopStep))
    /\ \A t \in Threads : WF_vars(Runs("functors", QuitSet(t) \/ Wakeup(t)))
    /\ WF_clientVars(Runs("client", Client!FreeStep))
    /\ WF_clientVars(Runs("client", Client!LoopGoesOn))
    /\ WF_clientVars(Runs("client", Client!NothingToFree /\ Client!UserGoesOn))
    /\ WF_clientVars(Runs("client", Client!TimerAnswers))
    /\ WF_clientVars(Runs("client", Client!NetworkAnswers))

-----------------------------------------------------------------------------
\* Functors are interchangeable: one stands for all.
SomeFunctor == CHOOSE f \in Functors : TRUE

(* A functor queued with QueueToLoop(), by whichever thread and in whatever *)
(* phase, is called, unless the loop is told to quit or dies of an          *)
(* exception (one queued by the owner before StartLoop(), as soon as        *)
(* anything else is signalled); and after Quit() StartLoop() returns.       *)
LoopProgress == FunctorCalled(SomeFunctor) /\ QuitReturns

(* Whatever the order of attempts, answers, timers and calls, no assertion  *)
(* of Connector, TcpClient or the connection fails but for the uses that    *)
(* invite it, no socket is lost and nothing freed is used.                  *)
ClientSound == Client!ClientSound

(* A failed attempt is made again after a pause within the limits of        *)
(* Retry(), until retry_interval_ has lost its last bit.                    *)
KeepsTrying == Client!KeepsTrying

(* Once StopInLoop() has run, connect() is never called again.              *)
StopIsFinal == Client!StopIsFinal

(* A connection that is down is freed and its socket closed, and after      *)
(* Stop() no attempt goes on and no timer is set.                           *)
ClientProgress == Client!ClientProgress
=============================================================================
