----------------------------- MODULE MCRuntime -------------------------------
(***************************************************************************)
(* Model checking of the parts that run in several threads or processes    *)
(* and share no state with each other: the reader-writer lock (extended,   *)
(* so that its assumptions are evaluated), the pool of loop threads, the   *)
(* thread pool, the latch, the mutex with its condition, the asynchronous  *)
(* log, an RPC channel, the file transfer and a server with its acceptor   *)
(* and its loops.  An initial state picks the part that runs and the use   *)
(* made of it; the others stay in one initial state of theirs, so the      *)
(* state spaces add up.                                                    *)
(***************************************************************************)
EXTENDS RWLock

CONSTANTS Workers, Pushers, Calls, Waiter, Clients, IoLoops

VARIABLES
    part,   \* the part that runs
    pool_pc, cur, started_, next_, given, quits, nullGiven, loop_, io, quit_, eventfd,
    max_queue_size_, tasks_, thread, push, pushed, ran, owner, resized,
    latch_use, count_, st, calls, silent,
    mutex_, holder_, mutex_pc, holder_written,
    running_, current_buffer_, next_buffer_, buffers_, back_pc, buffer1, buffer2,
    buffers_dup_, signalled, stopping, written, appended, discarded, nullUsed,
    callers, kind, id_, call_pc, id, functors, outstanding_calls_, timers, requests,
    replies, working, channel, aborted, answered, expired,
    disk_use, file, client, started, armed, queue, wire, fin, lost, crash, session,
    srv_use, start_once_, srv_started_, listening_, srv_th, srv_calls, pending, refused,
    dummy, srv_other, next_conn_id, turn, connections_, state_, loopOf, srv_name,
    removed, closed, srv_functors_, srv_batch, srv_quit_, srv_pc, lock_conn_, applied,
    srv_todo, closing, srv_crash

poolVars == <<pool_pc, cur, started_, next_, given, quits, nullGiven, loop_, io, quit_,
              eventfd>>
tasksVars == <<max_queue_size_, tasks_, thread, push, pushed, ran, owner, resized>>
latchVars == <<latch_use, count_, st, calls, silent>>
mutexVars == <<mutex_, holder_, mutex_pc, holder_written>>
logVars == <<running_, current_buffer_, next_buffer_, buffers_, back_pc, buffer1, buffer2,
             buffers_dup_, signalled, stopping, written, appended, discarded, nullUsed>>
rpcVars == <<callers, kind, id_, call_pc, id, functors, outstanding_calls_, timers,
             requests, replies, working, channel, aborted, answered, expired>>
transferVars == <<disk_use, file, client, started, armed, queue, wire, fin, lost, crash,
                  session>>
serverVars == <<srv_use, start_once_, srv_started_, listening_, srv_th, srv_calls,
                pending, refused, dummy, srv_other, next_conn_id, turn, connections_,
                state_, loopOf, srv_name, removed, closed, srv_functors_, srv_batch,
                srv_quit_, srv_pc, lock_conn_, applied, srv_todo, closing, srv_crash>>
rtVars == <<part, vars, poolVars, tasksVars, latchVars, mutexVars, logVars, rpcVars,
            transferVars, serverVars>>

Pool == INSTANCE EventLoopPool WITH pc <- pool_pc, LoopNum <- 2, MaxGets <- 3

Tasks == INSTANCE ThreadPool WITH MaxTasks <- 2, QueueSizes <- {1, 2}

Latch == INSTANCE CountDownLatch WITH
    Threads <- {Waiter} \cup Workers, use <- latch_use, MaxCount <- 2, MaxCalls <- 5

Mtx == INSTANCE Mutex WITH
    Threads <- {Waiter} \cup Workers, Nobody <- "nobody", pc <- mutex_pc,
    written <- holder_written

Log == INSTANCE AsyncLog WITH
    pc <- back_pc, BufferSize <- 3, BUFFER_BOUND <- 3, MaxMessages <- 10

Rpc == INSTANCE RpcChannel WITH pc <- call_pc, ran <- answered, Wrap <- 4

Transfer == INSTANCE FileTransfer WITH
    use <- disk_use, kFileBufferSize <- 2, kMaxAcceptLength <- 7, MaxFile <- 5

ServerStarters == {"base", "t1", "t2"}

\* A server started by the owner of its base loop, with room for one connection
\* besides dummyfd_, and one with room for all.
Pooled == [pool |-> TRUE, starters |-> {"base"}, limit |-> 2, others |-> 0, closes |-> TRUE,
           applier |-> "none", destroys |-> FALSE]
Roomy == [Pooled EXCEPT !.limit = 8]

ServerUses ==
    {Pooled,
     \* the rest of the process opens descriptors
     [Pooled EXCEPT !.others = 1],
     \* one loop for everything, destroyed in the end
     [Roomy EXCEPT !.pool = FALSE, !.destroys = TRUE],
     \* started by another thread, closed by it with ApplyAllPeers()
     [Roomy EXCEPT !.starters = {"t1"}, !.applier = "app"],
     \* ApplyAllPeers() in the base loop
     [Roomy EXCEPT !.pool = FALSE, !.applier = "base"],
     [Roomy EXCEPT !.applier = "base", !.closes = FALSE],
     \* destroyed with its pool
     [Roomy EXCEPT !.destroys = TRUE],
     \* destroyed after another thread has closed its connections
     [Roomy EXCEPT !.pool = FALSE, !.applier = "app", !.destroys = TRUE, !.closes = FALSE],
     \* started by two threads
     [Roomy EXCEPT !.pool = FALSE, !.starters = {"t1", "t2"}]}

Server == INSTANCE TcpServer WITH
    Uses <- ServerUses, Starters <- ServerStarters, StartCalls <- 2, IdMod <- 3,
    use <- srv_use, started_ <- srv_started_, th <- srv_th, calls <- srv_calls,
    other <- srv_other, name <- srv_name, functors_ <- srv_functors_,
    batch <- srv_batch, quit_ <- srv_quit_, pc <- srv_pc, todo <- srv_todo,
    crash <- srv_crash

ASSUME ServerConstants == Server!ServerAssumption

Parts == {"rwlock", "pool", "tasks", "latch", "mutex", "log", "rpc", "transfer", "server"}

RtInit ==
    /\ part \in Parts
    /\ Init
    /\ Pool!Init /\ (part # "pool" => quits = {})
    /\ Tasks!Init /\ (part # "tasks" => max_queue_size_ = 1)
    /\ Latch!Init /\ (part # "latch" => latch_use = "once")
    /\ Mtx!Init /\ (part # "mutex" => holder_ = "nobody")
    /\ Log!Init
    /\ Rpc!Init /\ (part # "rpc" => /\ callers = "one" /\ id_ = 0
                                    /\ \A c \in Calls : kind[c] = "plain")
    /\ Transfer!Init /\ (part # "transfer" => disk_use = "whole" /\ file = <<>>)
    /\ Server!Init /\ (part # "server" => srv_use = Pooled)

\* Only the part p moves.
Only(p) ==
    /\ part = p /\ UNCHANGED part
    /\ p = "rwlock" \/ (p # "rwlock" /\ UNCHANGED vars)
    /\ p = "pool" \/ (p # "pool" /\ UNCHANGED poolVars)
    /\ p = "tasks" \/ (p # "tasks" /\ UNCHANGED tasksVars)
    /\ p = "latch" \/ (p # "latch" /\ UNCHANGED latchVars)
    /\ p = "mutex" \/ (p # "mutex" /\ UNCHANGED mutexVars)
    /\ p = "log" \/ (p # "log" /\ UNCHANGED logVars)
    /\ p = "rpc" \/ (p # "rpc" /\ UNCHANGED rpcVars)
    /\ p = "transfer" \/ (p # "transfer" /\ UNCHANGED transferVars)
    /\ p = "server" \/ (p # "server" /\ UNCHANGED serverVars)

RtNext ==
    \/ Only("rwlock") /\ Next
    \/ Only("pool") /\ Pool!Next
    \/ Only("tasks") /\ Tasks!Next
    \/ Only("latch") /\ Latch!Next
    \/ Only("mutex") /\ Mtx!Next
    \/ Only("log") /\ Log!Next
    \/ Only("rpc") /\ Rpc!Next
    \/ Only("transfer") /\ Transfer!Next
    \/ Only("server") /\ Server!Next

Runs(p, A) == part = p /\ A

\* The fairness of each part that has a liveness property, for the part that runs.
RtFairness ==
    /\ \A t \in Threads : WF_vars(Runs("rwlock", pc[t] # "idle" /\ Step(t)))
    /\ WF_poolVars(Runs("pool", Pool!OwnerStep))
    /\ \A i \in 0..1 : WF_poolVars(Runs("pool", Pool!IoStep(i)))
    /\ WF_logVars(Runs("log", Log!BackStep))
    /\ WF_rpcVars(Runs("rpc", Rpc!Runs))
    /\ WF_transferVars(Runs("transfer", Transfer!ClientStep))
    /\ WF_transferVars(Runs("transfer", Transfer!ReceiveStep))
    /\ WF_serverVars(Runs("server", Server!BaseStep))
    /\ \A l \in {"base"} \cup IoLoops : WF_serverVars(Runs("server", Server!LoopStep(l)))
    /\ \A t \in ServerStarters : WF_serverVars(Runs("server", Server!RunStart(t)))
    /\ WF_serverVars(Runs("server", Server!ApplyStep))

RtSpec == RtInit /\ [][RtNext]_rtVars /\ RtFairness

-----------------------------------------------------------------------------
(* EventLoopThread publishes loop_ only while its EventLoop exists, also    *)
(* when loops are quit and the pool destroyed meanwhile, and an IO thread   *)
(* does not touch an EventLoopThread that is gone.                          *)
LoopsShared == Pool!LoopsShared

(* EventLoopPool::StartRun() and the destructor return: no IO thread is     *)
(* waited for in vain.                                                      *)
CallsReturn == Pool!CallsReturn

(* ThreadPool: every task pushed is queued or was run, once, the queue has  *)
(* its bound, and one Notify() per task and per free place suffices.        *)
TasksHandedOver == Tasks!TasksHandedOver

(* CountDownLatch: nobody sleeps on an open latch unless the count was      *)
(* lowered by a call that notifies nobody.  MutexLock: holder_ never names  *)
(* a thread that sleeps in a Condition or has left its critical section,    *)
(* though it is written outside the mutex; and WaitForSeconds() waits until *)
(* a valid time.                                                            *)
WaitersSound == Latch!NoSleeperAtZero /\ Mtx!HolderHonest

(* AsyncLog: messages stay in order and complete through the exchange of    *)
(* buffers, and the back thread finds its two spare buffers again.          *)
LogSound == Log!LogSound

(* AsyncLog: when the front threads pause, all messages get to the file or  *)
(* were discarded, unless Stop() comes first; and Stop() returns.           *)
LogProgress == Log!LogProgress

(* RpcChannel: a done runs once, for its own response, and never after its  *)
(* deadline; an answer finds its entry.                                     *)
RpcAnswers == Rpc!RpcAnswers

(* RpcChannel: a call with a done is answered or erased by its deadline, or *)
(* the client stops, on an error reply or after its ids have wrapped.       *)
RpcProgress == Rpc!RpcProgress

(* The file the session of the server has on disk is a prefix of the one    *)
(* the client reads, the whole of it at the end, unless the disk failed; a  *)
(* client built with assertions gets nothing there.                         *)
FileIntact == Transfer!FileIntact

(* In a release build, a transfer the socket takes whole and no operation   *)
(* fails in is finished.                                                    *)
TransferCompletes ==
    (part = "transfer" /\ disk_use = "whole") ~> (session.ended /\ session.disk = file)

(* TcpServer: while the server stands connections_ holds exactly the        *)
(* connections that are not closed, each under its own name, and none is    *)
(* freed before its loop has removed its channel.                           *)
ConnectionsTracked == Server!ConnectionsTracked

(* TcpServer: the assertions of StartRun(), HandleClose(), the close        *)
(* callback and ConnectionDestroyed() fail, and an iterator over            *)
(* connections_ dangles, only in the uses of the server that invite it;     *)
(* that of ConnectionEstablished() never fails.                             *)
ServerAssertionsHold == Server!AssertionsHold

(* TcpServer: the acceptor deals with all clients, also when descriptors    *)
(* have run out, connections that have closed are freed, ApplyAllPeers()    *)
(* returns unless it locks itself out, and ~TcpServer() returns.            *)
ServerProgress == Server!ServerProgress
=============================================================================
