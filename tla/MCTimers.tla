------------------------------ MODULE MCTimers -------------------------------
(***************************************************************************)
(* Model checking of what the channels of a loop report to: its timers      *)
(* (extended, so that their assumptions are evaluated) and a connection.    *)
(* An initial state picks the part that runs and the use made of it; the    *)
(* other stays in one initial state, so the state spaces add up.            *)
(***************************************************************************)
EXTENDS MCTimerQueue

VARIABLES
    part,   \* the part that runs
    state_, output_buffer_, reading, writing, added, wire, peerGot, shut, inbound, sentIn,
    fin, rst, soerr, conn_functors_, conn_batch, ran, conn_phase, todo, user, inMap, ups,
    downs, destroyed, accepted, use, sent, th, calls, crash

connVars == <<state_, output_buffer_, reading, writing, added, wire, peerGot, shut, inbound,
              sentIn, fin, rst, soerr, conn_functors_, conn_batch, ran, conn_phase, todo,
              user, inMap, ups, downs, destroyed, accepted, use, sent, th, calls, crash>>
allVars == <<part, vars, connVars>>

\* Sends, half-closes and closes in message_callback_; sends and half-closes in
\* callbacks run as functors.
UsualCalls == {<<"events", "send">>, <<"events", "shutdown">>, <<"events", "close">>,
               <<"functors", "send">>, <<"functors", "shutdown">>}

\* Echo and proxy servers: another thread only sends.
Usual == [kinds |-> {"str", "buf"}, length |-> 2, thread |-> {"send"}, loop |-> UsualCalls,
          complete |-> FALSE]

\* The same in the IO thread, with messages of two chunks.
Long == [Usual EXCEPT !.length = 3, !.thread = {}]

\* Reading is paused, the connection is closed anywhere, chunk lists are sent and
\* write_complete_callback_ is set.
Everything == [kinds |-> {"str", "chunk"}, length |-> 2, thread |-> {},
               loop |-> {"events", "functors"} \X {"send", "shutdown", "close", "noread"},
               complete |-> TRUE]

\* Another thread half-closes and closes too.
Closers == [kinds |-> {"str"}, length |-> 2, thread |-> {"send", "shutdown", "close"},
            loop |-> {<<"events", "send">>}, complete |-> FALSE]

AllUses == {Usual, Long, Everything, Closers}

\* The other thread of a connection.
ConnThreads == {"other"}

Conn == INSTANCE Connection WITH
    CHUNK_SIZE <- 3, HEADER <- 1, Messages <- {"m1", "m2"}, SockCap <- 1, MaxIn <- 1,
    Threads <- ConnThreads, Uses <- AllUses, MaxCalls <- 1, HighWaterMark <- 1,
    PeerFin <- TRUE, PeerRst <- TRUE,
    functors_ <- conn_functors_, batch <- conn_batch, phase <- conn_phase

ASSUME InstanceAssumption == Conn!ConnectionAssumption

-----------------------------------------------------------------------------
\* The part that does not run stays in one initial state.
PartInit ==
    /\ part \in {"timers", "connection"}
    /\ Init
    /\ Conn!Init /\ (part # "connection" => use = Usual)

PartNext ==
    /\ UNCHANGED part
    /\ \/ part = "timers" /\ Next /\ UNCHANGED connVars
       \/ part = "connection" /\ Conn!Next /\ UNCHANGED vars

Runs(p, A) == part = p /\ A

\* The fairness of each module, for the part that runs.
MCTimersSpec ==
    /\ PartInit /\ [][PartNext]_allVars
    /\ WF_vars(Runs("timers", LoopStep)) /\ WF_vars(Runs("timers", PollReturns))
    /\ WF_vars(Runs("timers", Tick)) /\ WF_vars(Runs("timers", FireLate))
    /\ WF_connVars(Runs("connection", crash = "none" /\ Conn!LoopStep))
    /\ WF_connVars(Runs("connection", crash = "none" /\ Conn!PeerReads))
    /\ \A t \in ConnThreads :
          WF_connVars(Runs("connection", crash = "none" /\ Conn!ThreadGoesOn(t)))

-----------------------------------------------------------------------------
(* An assertion of the connection, of the close callback or of the poller   *)
(* fails only in a use of the connection that invites it: other threads     *)
(* that close, a pause, a chunk list sent while output is pending.          *)
AssertionsHold == Conn!AssertionsHold

(* The bytes on the wire and those in output_buffer_ are the bytes that     *)
(* Send() has taken, in order, each once; a FIN follows them.               *)
StreamIntact == Conn!StreamIntact

(* connection_callback_ and ConnectionDestroyed() are called once, in       *)
(* order, and the connection leaves the server and the poller.              *)
CloseOnce == Conn!CloseOnce

(* high_water_mark_callback_ is queued exactly when output_buffer_ rises to *)
(* the mark.                                                                *)
HighWaterRisingEdge == Conn!HighWaterRisingEdge

(* Output that the write event is enabled for is written, and after the     *)
(* peer has closed the connection is cleaned up.                            *)
ConnectionProgress == Conn!ConnectionProgress
=============================================================================
