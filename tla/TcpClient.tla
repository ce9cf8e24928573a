------------------------------ MODULE TcpClient ------------------------------
(***************************************************************************)
(* kanon/net/tcp_client.{h,cc} and the Connector behind it                 *)
(* (kanon/net/connector.{h,cc}, kanon/linux/net/connector.cc): a client    *)
(* that connects, retries with a growing delay, gives the socket to a      *)
(* connection, and connects again when the peer closes.                    *)
(*                                                                         *)
(* The loop runs in its own thread; user code runs in another one and in   *)
(* connection_callback_.  Intervals are multiples of INIT_RETRY_INTERVAL;  *)
(* IntervalMod stands for the 2^32 at which retry_interval_ wraps.  A      *)
(* failed assertion or a use of a destroyed Connector ends the program;    *)
(* crash names it.                                                         *)
(***************************************************************************)
EXTENDS Integers, Sequences, SequencesExt, FiniteSets

CONSTANTS
    Fds,            \* descriptors for the sockets, the lowest free one is taken
    Uses,           \* the ways in which a client is used (see UseType)
    MaxCalls,       \* bound: calls by the user thread
    MaxAttempts,    \* bound: calls of connect()
    InitInterval, MaxInterval, IntervalMod

\* A way to use a client: what the user thread calls, how often Connect(), what
\* connect() may return, whether EnableRetry() was called, and whether
\* connection_callback_ may call ForceClose().
UseType ==
    [api : SUBSET {"connect", "disconnect", "stop", "release"}, connects : Nat,
     outcomes : SUBSET {"progress", "soft", "fatal"}, retries : BOOLEAN, closes : BOOLEAN]

ClientAssumption ==
    /\ Fds \subseteq Nat /\ {MaxCalls, MaxAttempts} \subseteq Nat
    /\ {InitInterval, MaxInterval} \subseteq Nat /\ IntervalMod \in Nat \ {0}
    /\ Uses \subseteq UseType

VARIABLES
    use,                                    \* the use made of this client
    state_, connect_, retry_interval_,      \* Connector
    timer_,                                 \* "none", "set" in this round of the loop,
                                            \* "armed", or "over": fired, cancelled
    channel_, polled,                       \* the fd of channel_ or None; in the poller
    retry_, conn_,                          \* TcpClient; conn_: a fd or None
    cstate, added, reading,                 \* the connections, by fd; in the poller,
                                            \* with the read event
    fresh,                                  \* fds registered in this round of the loop
    open,                                   \* the sockets that are open
    functors_, batch, ran, pc,              \* the loop: queued, taken, executed
    user, held, connectorGone,              \* pointers to the client: the user's, the
                                            \* loop's; ~Connector() has run
    calling,                                \* where the user thread is in Disconnect()
                                            \* or ~TcpClient(): <<>>, a label, or a
                                            \* label and the connection
    calls, connects, attempts,              \* history: calls of the user, those of
                                            \* Connect(), and of connect()
    stopped, delay,                         \* StopInLoop() has run, the last delay
    overtaken,                              \* ShutdownWrite() has overwritten
                                            \* kDisconnected
    crash

connector == <<state_, connect_, retry_interval_, timer_, channel_, polled>>
client == <<use, retry_, conn_>>
conns == <<cstate, added, reading>>
loop == <<fresh, batch, ran>>
life == <<user, held, connectorGone>>
history == <<calls, connects>>
vars == <<connector, client, conns, open, functors_, loop, pc, life, calling, history,
          attempts, stopped, delay, overtaken, crash>>

None == 0

Init ==
    /\ state_ = "disconnected" /\ connect_ = TRUE /\ retry_interval_ = InitInterval
    /\ timer_ = "none" /\ channel_ = None /\ polled = FALSE
    /\ use \in Uses /\ retry_ = use.retries /\ conn_ = None
    /\ cstate = [s \in Fds |-> "none"] /\ added = {} /\ reading = {}
    /\ fresh = {} /\ open = {}
    /\ functors_ = <<>> /\ batch = <<>> /\ ran = 0 /\ pc = <<"poll">>
    /\ user = TRUE /\ held = FALSE /\ connectorGone = FALSE
    /\ calling = <<>> /\ calls = 0 /\ connects = 0 /\ attempts = 0 /\ stopped = FALSE
    /\ delay = InitInterval /\ overtaken = FALSE
    /\ crash = "none"

At(label) == crash = "none" /\ pc[1] = label

\* A pointer to the connection of fd s is held by a functor or by the loop; the functor
\* of ShutdownWrite() holds none.
Busy(s) ==
    \/ \E f \in Range(functors_) \cup Range(batch) :
          Len(f) = 2 /\ f[2] = s /\ f[1] # "shutdown"
    \/ Len(pc) > 1 /\ pc[2] = s /\ pc[1] # "new"

\* The user thread holds mutex_ of the client; the loop waits for it.
Locked == calling # <<>> /\ calling[1] \in {"shutdown", "queue shutdown"}

TimerSet == timer_ \in {"set", "armed"}

\* The connections that exist.
Alive(s) == cstate[s] # "none" /\ (conn_ = s \/ Busy(s))

\* A functor that keeps the Connector alive; the batch is destroyed as a whole.
StopPending(queued) == \E f \in Range(queued) : f[1] = "stop"

-----------------------------------------------------------------------------
(* Connector *)

\* min(retry_interval_, MAX_RETRY_INTERVAL)
Delay(interval) == IF interval < MaxInterval THEN interval ELSE MaxInterval

\* retry_interval_ *= 2
Double(interval) == (2 * interval) % IntervalMod

\* A slip a programmer might make: no timer when the first attempt fails.
RetryOnce(s) ==
    /\ state_' = "disconnected"
    /\ open' = open \ {s}
    /\ IF connect_ /\ timer_ # "none"
       THEN /\ timer_' = "set" /\ delay' = Delay(retry_interval_)
            /\ retry_interval_' = Double(retry_interval_)
       ELSE UNCHANGED <<timer_, delay, retry_interval_>>

\* Retry(): the socket is closed and the timer set.
Retry(s) ==
    /\ state_' = "disconnected"
    /\ open' = open \ {s}
    /\ IF connect_
       THEN /\ timer_' = "set" /\ delay' = Delay(retry_interval_)
            /\ retry_interval_' = Double(retry_interval_)
       ELSE UNCHANGED <<timer_, delay, retry_interval_>>

\* The socket connect() is called on.
NewFd == CHOOSE s \in Fds \ open : \A k \in Fds \ open : s <= k

\* Connect(), with CompleteConnect() when the connection is in progress and Retry()
\* when it cannot be, from an interval and a state of the timer.
Connect(interval, timer) ==
    /\ attempts < MaxAttempts /\ Fds \ open # {}
    /\ attempts' = attempts + 1
    /\ \E result \in use.outcomes :
          \/ /\ result = "progress"
             /\ IF channel_ = None
                THEN /\ state_' = "connecting"
                     /\ channel_' = NewFd /\ polled' = TRUE
                     /\ open' = open \cup {NewFd} /\ fresh' = fresh \cup {NewFd}
                     /\ UNCHANGED crash
                ELSE /\ state_' = "disconnected"
                     /\ crash' = "CompleteConnect"
                     /\ UNCHANGED <<channel_, polled, open, fresh>>
             /\ retry_interval_' = interval
             /\ timer_' = timer /\ UNCHANGED delay
          \/ /\ result = "soft"
             /\ state_' = "disconnected"
             /\ timer_' = "set" /\ delay' = Delay(interval)
             /\ retry_interval_' = Double(interval)
             /\ UNCHANGED <<channel_, polled, open, fresh, crash>>
          \/ /\ result = "fatal"
             /\ state_' = "disconnected" /\ retry_interval_' = interval
             /\ timer_' = timer
             /\ UNCHANGED <<delay, channel_, polled, open, fresh, crash>>

\* The functor of StartRun(), which holds no pointer to the Connector.
StartInLoop(timer) ==
    \/ /\ connectorGone
       /\ crash' = "use of Connector"
       /\ UNCHANGED <<connector, open, fresh, attempts, delay>>
    \/ /\ ~connectorGone /\ state_ # "disconnected"
       /\ crash' = "StartRun"
       /\ UNCHANGED <<connector, open, fresh, attempts, delay>>
    \/ /\ ~connectorGone /\ state_ = "disconnected" /\ connect_
       /\ Connect(retry_interval_, timer)
       /\ UNCHANGED connect_
    \/ /\ ~connectorGone /\ state_ = "disconnected" /\ ~connect_
       /\ timer_' = timer
       /\ UNCHANGED <<state_, connect_, retry_interval_, channel_, polled, open, fresh,
                      attempts, delay, crash>>

\* Restrat(): connect_, state_ and the interval are reset and StartRun() runs at once.
Restart ==
    /\ connect_' = TRUE
    /\ Connect(InitInterval, timer_)

\* A slip a programmer might make: the socket is not closed.
StopInLoopLeaks ==
    /\ connect_' = FALSE /\ stopped' = TRUE
    /\ timer_' = IF TimerSet THEN "over" ELSE timer_
    /\ IF state_ = "connecting"
       THEN /\ state_' = "disconnected" /\ polled' = FALSE
            /\ functors_' = Append(functors_, <<"reset">>)
       ELSE UNCHANGED <<state_, polled, functors_>>
    /\ UNCHANGED <<open, retry_interval_, channel_>>

\* A slip a programmer might make: channel_ is never reset.
StopInLoopKeepsChannel ==
    /\ connect_' = FALSE /\ stopped' = TRUE
    /\ timer_' = IF TimerSet THEN "over" ELSE timer_
    /\ IF state_ = "connecting"
       THEN state_' = "disconnected" /\ polled' = FALSE /\ open' = open \ {channel_}
       ELSE UNCHANGED <<state_, polled, open>>
    /\ UNCHANGED <<functors_, retry_interval_, channel_>>

\* StopInLoop(): the timer is cancelled, an attempt given up.
StopInLoop ==
    /\ connect_' = FALSE /\ stopped' = TRUE
    /\ timer_' = IF TimerSet THEN "over" ELSE timer_
    /\ IF state_ = "connecting"
       THEN /\ state_' = "disconnected" /\ polled' = FALSE
            /\ open' = open \ {channel_}
            /\ functors_' = Append(functors_, <<"reset">>)
       ELSE UNCHANGED <<state_, polled, open, functors_>>
    /\ UNCHANGED <<retry_interval_, channel_>>

-----------------------------------------------------------------------------
(* The loop: events *)

\* connect() has failed: the error callback, or the write callback with SO_ERROR or
\* a connection to itself.
ConnectFails ==
    /\ At("poll") /\ polled /\ channel_ \notin fresh /\ state_ = "connecting"
    /\ Retry(channel_)
    /\ polled' = FALSE
    /\ functors_' = Append(functors_, <<"reset">>)
    /\ UNCHANGED <<connect_, channel_, client, conns, loop, pc, life, history, attempts,
                   stopped, crash>>

\* The write callback: connected, unless Stop() came first.
ConnectSucceeds ==
    /\ At("poll") /\ polled /\ channel_ \notin fresh /\ state_ = "connecting"
    /\ state_' = "connected" /\ polled' = FALSE
    /\ functors_' = Append(functors_, <<"reset">>)
    /\ IF connect_
       THEN pc' = <<"new", channel_>> /\ UNCHANGED open
       ELSE open' = open \ {channel_} /\ UNCHANGED pc
    /\ UNCHANGED <<connect_, retry_interval_, timer_, channel_, client, conns, loop, life,
                   history, attempts, stopped, delay, crash>>

\* NewConnection() up to conn_; nothing is done without a client or with a connection.
NewConnection ==
    /\ At("new") /\ ~Locked
    /\ IF (user \/ held) /\ conn_ = None
       THEN /\ conn_' = pc[2] /\ held' = TRUE
            /\ cstate' = [cstate EXCEPT ![pc[2]] = "connecting"]
            /\ pc' = <<"establish", pc[2]>>
       ELSE pc' = <<"poll">> /\ UNCHANGED <<conn_, held, cstate>>
    /\ UNCHANGED <<connector, use, retry_, added, reading, open, functors_, loop, user,
                   connectorGone, history, attempts, stopped, delay, crash>>

\* ConnectionEstablished() up to connection_callback_.
Establish ==
    /\ At("establish")
    /\ added' = added \cup {pc[2]} /\ fresh' = fresh \cup {pc[2]}
    /\ reading' = reading \cup {pc[2]}
    /\ cstate' = [cstate EXCEPT ![pc[2]] = "connected"]
    /\ pc' = <<"callback", pc[2]>>
    /\ UNCHANGED <<connector, client, open, functors_, batch, ran, life, history, attempts,
                   stopped, delay, crash>>

\* HandleClose(): the connection is down; the close callback comes next.
HandleClose(s, back) ==
    IF cstate[s] \in {"connected", "disconnecting"}
    THEN /\ cstate' = [cstate EXCEPT ![s] = "disconnected"]
         /\ reading' = reading \ {s}
         /\ pc' = <<"closed", s, back>>
         /\ UNCHANGED crash
    ELSE crash' = "HandleClose" /\ UNCHANGED <<cstate, reading, pc>>

\* What the user does in connection_callback_: nothing, or ForceClose().
ConnectionCallback ==
    /\ At("callback")
    /\ \/ pc' = <<"release", None, "poll">> /\ UNCHANGED <<cstate, reading, crash>>
       \/ use.closes /\ HandleClose(pc[2], "poll")
    /\ UNCHANGED <<connector, client, added, open, functors_, loop, life, history, attempts,
                   stopped, delay>>

PeerCloses(s) ==
    /\ At("poll") /\ s \in reading \ fresh /\ Alive(s)
    /\ attempts < MaxAttempts
    /\ HandleClose(s, "poll")
    /\ UNCHANGED <<connector, client, added, open, functors_, loop, life, history, attempts,
                   stopped, delay>>

\* CloseConnectionHandler(), if the client still exists.
CloseHandler ==
    /\ At("closed") /\ ~Locked
    /\ IF ~(user \/ held)
       THEN pc' = <<pc[3]>> /\ UNCHANGED <<conn_, held, functors_, crash>>
       ELSE IF conn_ # pc[2]
       THEN crash' = "CloseConnectionHandler" /\ UNCHANGED <<conn_, held, functors_, pc>>
       ELSE /\ conn_' = None /\ held' = TRUE
            /\ functors_' = Append(functors_, <<"destroy", pc[2]>>)
            /\ pc' = <<"retry", pc[2], pc[3]>>
            /\ UNCHANGED crash
    /\ UNCHANGED <<connector, use, retry_, conns, open, loop, user, connectorGone, history,
                   attempts, stopped, delay>>

\* if (retry_) Restrat()
RetryIfAsked ==
    /\ At("retry")
    /\ pc' = <<"release", None, pc[3]>>
    /\ IF retry_ THEN Restart ELSE UNCHANGED <<connector, open, fresh, attempts, delay, crash>>
    /\ UNCHANGED <<client, conns, functors_, batch, ran, life, history, stopped>>

\* The retry timer calls StartRun().
TimerFires ==
    /\ At("poll") /\ timer_ = "armed"
    /\ StartInLoop("over")
    /\ UNCHANGED <<client, conns, functors_, batch, ran, pc, life, history, stopped>>

-----------------------------------------------------------------------------
(* ~TcpClient(), in the thread that drops the last pointer *)

\* The client drops its pointer to the Connector: ~Connector() runs unless one of
\* these functors holds another.
DropConnector(queued) ==
    /\ connectorGone' = ~StopPending(queued)
    /\ crash' = IF ~StopPending(queued) /\ channel_ # None THEN "~Connector" ELSE crash

\* In the thread of the loop: ForceClose() and StopInLoop() run at once, and the close
\* callback finds no client; then connector_ goes.
DtorInLoop ==
    /\ IF conn_ # None
       THEN /\ cstate' = IF Busy(conn_) THEN cstate
                         ELSE [cstate EXCEPT ![conn_] = "disconnected"]
            /\ UNCHANGED <<connector, open, functors_, stopped>>
       ELSE StopInLoop /\ UNCHANGED cstate
    /\ conn_' = None
    /\ DropConnector(functors_ \o batch)

\* In another thread: Stop() is queued and keeps the Connector alive; ForceClose() of
\* the connection, if no one else has it, has read its state.
DtorElsewhere ==
    IF conn_ # None /\ ~Busy(conn_) /\ cstate[conn_] \in {"connected", "disconnecting"}
    THEN /\ calling' = <<"close", conn_>>
         /\ UNCHANGED <<conn_, functors_, connectorGone, crash>>
    ELSE /\ functors_' = IF conn_ = None THEN Append(functors_, <<"stop">>) ELSE functors_
         /\ conn_' = None
         /\ DropConnector(functors_' \o batch)
         /\ UNCHANGED calling

\* The callback ends and drops the pointer it has locked.
ReleaseHeld ==
    /\ At("release")
    /\ held' = FALSE
    /\ pc' = <<pc[3]>>
    /\ IF user
       THEN UNCHANGED <<connector, conn_, cstate, open, functors_, connectorGone, stopped,
                        crash>>
       ELSE DtorInLoop
    /\ UNCHANGED <<use, retry_, added, reading, loop, user, history, attempts, delay>>

-----------------------------------------------------------------------------
(* The loop: functors *)

\* The handlers of this round are done.
TakeFunctors ==
    /\ At("poll") /\ (functors_ # <<>> \/ timer_ = "set" \/ fresh # {})
    /\ batch' = functors_ /\ functors_' = <<>> /\ ran' = 0
    /\ pc' = <<"batch">>
    /\ UNCHANGED <<connector, fresh, client, conns, open, life, calls,
                   connects, attempts, stopped, delay, crash>>

\* The functor of ResetChannel(), which holds no pointer to the Connector either.
ResetChannel ==
    /\ crash' = IF connectorGone THEN "use of Connector" ELSE crash
    /\ channel_' = None
    /\ UNCHANGED <<state_, connect_, retry_interval_, timer_, polled>>

\* ConnectionDestroyed()
ConnectionDestroyed(s) ==
    IF cstate[s] \in {"connected", "disconnected"}
    THEN /\ cstate' = [cstate EXCEPT ![s] = "disconnected"]
         /\ added' = added \ {s} /\ reading' = reading \ {s}
         /\ UNCHANGED crash
    ELSE crash' = "ConnectionDestroyed" /\ UNCHANGED conns

\* The functor of ShutdownWrite(): the socket of the connection is shut down, if the
\* connection is still there.
ShutdownFunctor(s) == crash' = IF cstate[s] = "none" THEN "use of connection" ELSE crash

RunFunctor ==
    /\ At("batch") /\ ran < Len(batch)
    /\ LET f == batch[ran + 1]
       IN
          \/ /\ f[1] = "start" /\ StartInLoop(timer_)
             /\ UNCHANGED <<conns, functors_, pc, stopped>>
          \/ /\ f[1] = "stop" /\ StopInLoop
             /\ UNCHANGED <<fresh, conns, pc, attempts, delay, crash>>
          \/ /\ f[1] = "reset" /\ ResetChannel
             /\ UNCHANGED <<fresh, conns, open, functors_, pc, attempts, stopped, delay>>
          \/ /\ f[1] = "destroy" /\ ConnectionDestroyed(f[2])
             /\ UNCHANGED <<fresh, connector, open, functors_, pc, attempts, stopped, delay>>
          \/ /\ f[1] = "shutdown" /\ ShutdownFunctor(f[2])
             /\ UNCHANGED <<fresh, connector, conns, open, functors_, pc, attempts, stopped,
                            delay>>
          \/ /\ f[1] = "hclose" /\ HandleClose(f[2], "batch")
             /\ UNCHANGED <<fresh, connector, added, open, functors_, attempts, stopped, delay>>
    /\ ran' = ran + 1
    /\ UNCHANGED <<client, batch, life, history>>

\* The batch is destroyed, and with it perhaps the last pointer to the Connector.  The
\* next round sees the channels and the timer that were added in this one.
BatchDone ==
    /\ At("batch") /\ ran = Len(batch)
    /\ fresh' = {} /\ timer_' = IF timer_ = "set" THEN "armed" ELSE timer_
    /\ batch' = <<>> /\ ran' = 0 /\ pc' = <<"poll">>
    /\ LET last == ~user /\ ~held /\ ~connectorGone /\ ~StopPending(functors_)
       IN  /\ connectorGone' = (connectorGone \/ last)
           /\ crash' = IF last /\ channel_ # None THEN "~Connector" ELSE crash
    /\ UNCHANGED <<state_, connect_, retry_interval_, channel_, polled, client, conns, open,
                   functors_, user, held, history, attempts, stopped, delay>>

-----------------------------------------------------------------------------
(* The user thread *)

Calls(op) ==
    /\ op \in use.api /\ crash = "none" /\ user /\ calling = <<>>
    /\ calls < MaxCalls /\ calls' = calls + 1
    /\ connects' = connects + (IF op = "connect" THEN 1 ELSE 0) /\ connects' <= use.connects

UserConnect ==
    /\ Calls("connect")
    /\ functors_' = Append(functors_, <<"start">>)
    /\ UNCHANGED <<connector, client, conns, open, loop, pc, life, attempts, stopped, delay,
                   crash>>

\* Disconnect(): retry_ is reset; mutex_ comes next.
UserDisconnect ==
    /\ Calls("disconnect")
    /\ retry_' = FALSE
    /\ calling' = <<"lock">>
    /\ UNCHANGED <<connector, use, conn_, conns, open, functors_, loop, pc, life, attempts,
                   stopped, delay, overtaken, crash>>

\* mutex_ is locked, and ShutdownWrite() of the connection, if there is one, reads its
\* state.
DisconnectRead ==
    /\ crash = "none" /\ calling = <<"lock">>
    /\ calling' = IF conn_ # None /\ cstate[conn_] = "connected"
                  THEN <<"shutdown", conn_>> ELSE <<>>
    /\ UNCHANGED <<connector, client, conns, open, functors_, loop, pc, life, history,
                   attempts, stopped, delay, overtaken, crash>>

\* state_ = kDisconnecting, whatever the loop has made of it meanwhile.
ShutdownSet ==
    /\ crash = "none" /\ calling # <<>> /\ calling[1] = "shutdown"
    /\ cstate' = [cstate EXCEPT ![calling[2]] = "disconnecting"]
    /\ overtaken' = (overtaken \/ cstate[calling[2]] = "disconnected")
    /\ calling' = <<"queue shutdown", calling[2]>>
    /\ UNCHANGED <<connector, client, added, reading, open, functors_, loop, pc, life, history,
                   attempts, stopped, delay, crash>>

\* The functor is queued with a raw pointer; Disconnect() unlocks mutex_.
ShutdownQueue ==
    /\ crash = "none" /\ calling # <<>> /\ calling[1] = "queue shutdown"
    /\ functors_' = Append(functors_, <<"shutdown", calling[2]>>)
    /\ calling' = <<>>
    /\ UNCHANGED <<connector, client, conns, open, loop, pc, life, history, attempts,
                   stopped, delay, overtaken, crash>>

\* A slip a programmer might make: retry_ is left alone.
UserStopRetrying ==
    /\ Calls("stop")
    /\ functors_' = Append(functors_, <<"stop">>)
    /\ UNCHANGED <<connector, client, conns, open, loop, pc, life, attempts, stopped, delay,
                   crash>>

UserStop ==
    /\ Calls("stop")
    /\ retry_' = FALSE
    /\ functors_' = Append(functors_, <<"stop">>)
    /\ UNCHANGED <<connector, use, conn_, conns, open, loop, pc, life, attempts, stopped, delay,
                   crash>>

\* The user drops the client; a callback that has locked it destroys it later.
UserRelease ==
    /\ Calls("release")
    /\ user' = FALSE
    /\ IF held
       THEN UNCHANGED <<conn_, functors_, connectorGone, calling, crash>>
       ELSE DtorElsewhere
    /\ UNCHANGED <<connector, use, retry_, conns, open, loop, pc, held, attempts, stopped,
                   delay, overtaken>>

\* ForceClose() in ~TcpClient(): state_ is written.
DtorCloseSet ==
    /\ crash = "none" /\ calling # <<>> /\ calling[1] = "close"
    /\ cstate' = [cstate EXCEPT ![calling[2]] = "disconnecting"]
    /\ calling' = <<"queue close", calling[2]>>
    /\ UNCHANGED <<connector, client, added, reading, open, functors_, loop, pc, life, history,
                   attempts, stopped, delay, overtaken, crash>>

\* HandleClose() is queued and the members of the client go.
DtorCloseQueue ==
    /\ crash = "none" /\ calling # <<>> /\ calling[1] = "queue close"
    /\ functors_' = Append(functors_, <<"hclose", calling[2]>>)
    /\ conn_' = None
    /\ DropConnector(functors_' \o batch)
    /\ calling' = <<>>
    /\ UNCHANGED <<connector, use, retry_, conns, open, loop, pc, user, held, history,
                   attempts, stopped, delay, overtaken>>

-----------------------------------------------------------------------------
\* ~TcpConnection() runs at once when the last pointer has gone; the socket is closed.
Free(s) ==
    /\ crash = "none" /\ cstate[s] # "none" /\ ~Alive(s)
    /\ crash' = IF cstate[s] \in {"disconnecting", "disconnected"} THEN "none"
                ELSE "~ConnectionBase"
    /\ cstate' = [cstate EXCEPT ![s] = "none"]
    /\ open' = open \ {s}
    /\ UNCHANGED <<connector, client, added, reading, functors_, loop, pc, life, history,
                   attempts, stopped, delay>>

LoopStep ==
    /\ \/ ConnectFails \/ ConnectSucceeds
       \/ NewConnection \/ Establish \/ ConnectionCallback
       \/ \E s \in Fds : PeerCloses(s)
       \/ CloseHandler \/ RetryIfAsked \/ TimerFires \/ ReleaseHeld
       \/ TakeFunctors \/ RunFunctor \/ BatchDone
    /\ UNCHANGED <<calling, overtaken>>

\* The user thread calls the client, and goes on with a call it has begun.
UserCall ==
    \/ (UserConnect \/ UserStop) /\ UNCHANGED <<calling, overtaken>>
    \/ UserDisconnect \/ UserRelease

UserGoesOn ==
    DisconnectRead \/ ShutdownSet \/ ShutdownQueue \/ DtorCloseSet \/ DtorCloseQueue

\* The last pointer to a connection goes; nothing happens before the memory is freed.
FreeStep == \E s \in Fds : Free(s) /\ UNCHANGED <<calling, overtaken>>

NothingToFree == \A s \in Fds : cstate[s] # "none" => Alive(s)

Next == FreeStep \/ (NothingToFree /\ (LoopStep \/ UserCall \/ UserGoesOn))

Spec == Init /\ [][Next]_vars

\* What a loop that has begun goes on with.
LoopGoesOn ==
    /\ NothingToFree
    /\ \/ NewConnection \/ Establish \/ ConnectionCallback \/ CloseHandler \/ RetryIfAsked
       \/ ReleaseHeld \/ TakeFunctors \/ RunFunctor \/ BatchDone
    /\ UNCHANGED <<calling, overtaken>>

\* The answers of timers and of the network.
TimerAnswers == TimerFires /\ UNCHANGED <<calling, overtaken>>
NetworkAnswers == (ConnectFails \/ ConnectSucceeds) /\ UNCHANGED <<calling, overtaken>>

\* Every thread goes on with what it has begun and timers fire; the network answers
\* an attempt.  Nobody has to call the client and no peer has to close.
Fairness ==
    /\ WF_vars(FreeStep)
    /\ WF_vars(LoopGoesOn)
    /\ WF_vars(NothingToFree /\ UserGoesOn)
    /\ WF_vars(TimerAnswers)
    /\ WF_vars(NetworkAnswers)

FairSpec == Spec /\ Fairness

-----------------------------------------------------------------------------
\* No assertion of the Connector, the client or the connection fails, and no functor
\* uses a Connector or a connection that is gone, unless Connect() is called again
\* before the first call is done with, connection_callback_ closes the connection of a
\* client that then connects again, the client is dropped, or Disconnect() found the
\* connection up and wrote kDisconnecting after HandleClose() had closed it: then, and
\* only then, ConnectionDestroyed() meets a connection that is not down.
AssertionsHold ==
    \/ crash = "none"
    \/ crash \in {"StartRun", "CompleteConnect"} /\ connects > 1
    \/ crash = "CompleteConnect" /\ use.closes /\ use.retries
    \/ crash = "ConnectionDestroyed" /\ overtaken
    \/ ~user

\* As long as the client is there, each open socket is in the hands of the connector
\* that connects it, of a connection that closes it, or of the callback that passes it
\* on: none is lost.
SocketsOwned ==
    crash = "none" /\ user =>
        \A s \in open : \/ state_ = "connecting" /\ channel_ = s
                        \/ cstate[s] # "none"
                        \/ pc[1] = "new" /\ pc[2] = s

\* No timer outlives the Connector whose StartRun() it calls, and, as long as the
\* client is there, a connection is freed after its channel was removed from the
\* poller.
NothingDangles ==
    crash = "none" =>
        /\ connectorGone => ~TimerSet
        /\ user => \A s \in Fds : cstate[s] # "none" /\ ~Alive(s) => s \notin added

\* Whatever the order of attempts, answers, timers and calls: no assertion fails but for
\* the uses named above, no socket is lost and nothing that is freed is used.
ClientSound == AssertionsHold /\ SocketsOwned /\ NothingDangles

\* An attempt that failed is made again: as long as nobody has stopped the connector and
\* connect() has reported no fatal error, it is connecting, connected or waiting for its
\* timer.  The pause of Retry() is between INIT_RETRY_INTERVAL and MAX_RETRY_INTERVAL,
\* until so many attempts have failed that the doublings have shifted every bit out of
\* retry_interval_; only then it may be zero.
KeepsTrying ==
    /\ \/ delay \in InitInterval .. MaxInterval
       \/ delay = 0 /\ (InitInterval * 2^(attempts - 1)) % IntervalMod = 0
    /\ attempts > 0 /\ connect_ /\ "fatal" \notin use.outcomes /\ crash = "none" =>
          state_ # "disconnected" \/ TimerSet

\* Once StopInLoop() has run, connect() is never called again.
StopIsFinal == [][stopped => attempts' = attempts]_vars

\* The program has ended, or the bound on the attempts has.
Over == crash # "none" \/ attempts = MaxAttempts

\* Connections that are down are removed, freed and their sockets closed in the end, and
\* after Stop() the connector comes to rest: no attempt goes on and no timer is set.
ClientProgress ==
    /\ (\E s \in open : cstate[s] = "disconnected")
         ~> ((\A s \in open : cstate[s] # "disconnected") \/ Over)
    /\ StopPending(functors_)
         ~> (channel_ = None /\ ~TimerSet /\ state_ # "connecting") \/ Over
=============================================================================
