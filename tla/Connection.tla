----------------------------- MODULE Connection -----------------------------
(***************************************************************************)
(* One TCP connection of a TcpServer: ConnectionBase on Linux, level       *)
(* triggered (kanon/net/connection/connection_base.{h,cc} and              *)
(* kanon/linux/net/connection/connection_base.inl), its Channel, its place *)
(* in the Epoller and in TcpServer::connections_.                          *)
(*                                                                         *)
(* The IO thread goes through the three phases of EventLoop::StartLoop():  *)
(* it polls, runs the callbacks of the channel in the order of             *)
(* Channel::HandleEvents(), then runs the functors taken from functors_.   *)
(* User code runs inside message_callback_, connection_callback_,          *)
(* write_complete_callback_ and high_water_mark_callback_ and may call the *)
(* connection there; other threads call it at any time, reading state_,    *)
(* writing it and queueing the functor in separate steps, since state_ is  *)
(* neither atomic nor locked.                                              *)
(*                                                                         *)
(* The socket is external: a send buffer of SockCap bytes that the peer    *)
(* empties, a peer that sends, half-closes or resets.  A failed assertion  *)
(* ends the program; crash names it.                                       *)
(***************************************************************************)
EXTENDS ChunkOps, FiniteSetsExt

CONSTANTS
    Messages,       \* what users send, each at most once
    SockCap,        \* bytes the kernel buffers for this socket
    MaxIn,          \* messages the peer sends
    Threads,        \* threads other than the IO thread that hold the connection
    Uses,           \* the ways in which users may use a connection (see UseType)
    MaxCalls,       \* shutdowns and closes by other threads
    HighWaterMark,  \* high_water_mark_; 0: no high_water_mark_callback_
    PeerFin,        \* whether the peer may half-close
    PeerRst         \* whether the peer may reset

\* A way to use a connection: the overloads of Send() called and the bytes of each
\* message, what other threads call, what user code calls in the IO thread and in
\* which phase of the loop, and whether write_complete_callback_ is set.
UseType ==
    [kinds : SUBSET {"str", "buf", "chunk"},
     length : Nat \ {0},
     thread : SUBSET {"send", "shutdown", "close"},
     loop : SUBSET ({"events", "functors"} \X {"send", "shutdown", "close", "noread"}),
     complete : BOOLEAN]

ConnectionAssumption ==
    /\ SockCap \in Nat \ {0} /\ MaxIn \in Nat
    /\ Uses \subseteq UseType
    /\ MaxCalls \in Nat /\ HighWaterMark \in Nat
    /\ {PeerFin, PeerRst} \subseteq BOOLEAN

VARIABLES
    state_,                             \* ConnectionBase::state_
    output_buffer_,                     \* the chunks of output_buffer_
    reading, writing, added,            \* events_ of the channel; in the epoll set
    wire, peerGot, shut,                \* socket: bytes written, bytes the peer
                                        \* took, ShutdownWrite() done
    inbound, sentIn, fin, rst, soerr,   \* socket: what the peer has done
    functors_, batch, ran,              \* EventLoop: queued, taken, executed
    phase, todo, user,                  \* where the IO thread is
    inMap,                              \* in TcpServer::connections_
    ups, downs, destroyed,              \* calls of connection_callback_ (up, down)
                                        \* and of ConnectionDestroyed()
    accepted,                           \* bytes taken for sending, in order
    use, sent, th, calls,               \* the use made of it; messages used; the
                                        \* other threads
    crash                               \* the assertion that failed, or "none"

sockVars == <<wire, peerGot, shut, inbound, sentIn, fin, rst, soerr>>
chanVars == <<reading, writing, added>>
loopVars == <<batch, ran, phase, todo, user>>
lifeVars == <<inMap, ups, downs, destroyed>>
dataVars == <<output_buffer_, accepted>>
userVars == <<use, sent, th, calls>>
vars == <<state_, sockVars, chanVars, functors_, loopVars, lifeVars, dataVars,
          userVars, crash>>

Payload(m) == [i \in 1 .. use.length |-> <<m, i>>]

Init ==
    /\ state_ = "connecting"
    /\ output_buffer_ = <<>> /\ accepted = <<>>
    /\ reading = FALSE /\ writing = FALSE /\ added = FALSE
    /\ wire = <<>> /\ peerGot = 0 /\ shut = FALSE
    /\ inbound = 0 /\ sentIn = 0 /\ fin = FALSE /\ rst = FALSE /\ soerr = FALSE
    /\ functors_ = << <<"established">> >> /\ batch = <<>> /\ ran = 0
    /\ phase = "poll" /\ todo = <<>> /\ user = "none"
    /\ inMap = TRUE /\ ups = 0 /\ downs = 0 /\ destroyed = 0
    /\ use \in Uses /\ sent = {} /\ th = [t \in Threads |-> <<"idle">>] /\ calls = 0
    /\ crash = "none"

-----------------------------------------------------------------------------
(* The socket *)

Space == SockCap - (Len(wire) - peerGot)

\* write() or writev() on the socket fails: reset, shut down, or no room (EAGAIN).
WriteFails == rst \/ shut \/ Space = 0

\* What one write of these bytes takes.
Written(bytes) == Min({Len(bytes), Space})

\* The writing half of the socket after n of these bytes were written.
SockTakes(bytes, n) ==
    /\ wire' = wire \o SubSeq(bytes, 1, n)
    /\ UNCHANGED <<peerGot, shut, inbound, sentIn, fin, rst, soerr>>

\* A failing write reports and clears a pending error of the socket.
SockRefuses ==
    /\ soerr' = FALSE
    /\ UNCHANGED <<wire, peerGot, shut, inbound, sentIn, fin, rst>>

-----------------------------------------------------------------------------
(* Helpers of the connection *)

\* QueueToLoop(): in front of it stands what was queued before.
Queue(fs) == functors_' = functors_ \o fs

\* What is queued when a write is complete: write_complete_callback_ itself, or
\* CallWriteCompleteCallback, which looks at what it returns.
OnComplete(op) == IF use.complete THEN << <<op>> >> ELSE <<>>

\* A slip a programmer might make: the high water mark is tested against what
\* the buffer holds afterwards only.
HighWaterLevel(old, rest) ==
    IF HighWaterMark > 0 /\ old + rest >= HighWaterMark
    THEN << <<"highwater">> >> ELSE <<>>

\* high_water_mark_callback_ is queued in SendInLoop() when rest bytes are added.
HighWater(old, rest) ==
    IF HighWaterMark > 0 /\ old < HighWaterMark /\ old + rest >= HighWaterMark
    THEN << <<"highwater">> >> ELSE <<>>

\* Nothing of the loop but functors_ changes.
NoLife == UNCHANGED <<state_, reading, added, lifeVars>>

\* A slip a programmer might make: the server keeps the closed connection.
HandleCloseKeepsEntry ==
    /\ state_' = "disconnected"
    /\ reading' = FALSE /\ writing' = FALSE
    /\ downs' = downs + 1
    /\ Queue(<< <<"destroy">> >>)
    /\ UNCHANGED <<added, ups, inMap, destroyed, crash>>

\* HandleClose(), the connection_callback_ it calls (in which the connection is
\* down, so that calls on it do nothing) and the close callback of TcpServer, which
\* asserts that it has taken the connection out of connections_.
HandleClose ==
    IF state_ \in {"connected", "disconnecting"}
    THEN /\ state_' = "disconnected"
         /\ reading' = FALSE /\ writing' = FALSE
         /\ downs' = downs + 1
         /\ inMap' = FALSE
         /\ IF inMap THEN Queue(<< <<"destroy">> >>) /\ UNCHANGED crash
            ELSE crash' = "CloseCallback" /\ UNCHANGED functors_
         /\ UNCHANGED <<added, ups, destroyed>>
    ELSE /\ crash' = "HandleClose"
         /\ UNCHANGED <<state_, chanVars, lifeVars, functors_>>

-----------------------------------------------------------------------------
(* Sending, in the IO thread.  Each leaves NoLife, the loop and the users alone. *)

\* A slip a programmer might make: the socket is written to although earlier bytes
\* are still in the output buffer.
SendInLoopAhead(m) ==
    LET s == Payload(m)
        n == Written(s)
    IN  IF state_ # "connected" \/ WriteFails
        THEN UNCHANGED <<sockVars, dataVars, writing, functors_>>
        ELSE /\ SockTakes(s, n)
             /\ output_buffer_' = AppendBytes(output_buffer_, SubSeq(s, n + 1, use.length))
             /\ accepted' = accepted \o s
             /\ writing' = (writing \/ n < use.length)
             /\ Queue(HighWater(GetReadableSize(output_buffer_), use.length - n))

\* SendInLoop(): written directly when nothing waits in the output buffer (and
\* given up when that write fails), the rest appended and armed.
SendInLoop(m) ==
    LET s == Payload(m)
        direct == ~HasReadable(output_buffer_)
        n == IF direct THEN Written(s) ELSE 0
        rest == SubSeq(s, n + 1, use.length)
    IN  CASE state_ # "connected" ->
               UNCHANGED <<sockVars, dataVars, writing, functors_>>
          [] state_ = "connected" /\ direct /\ WriteFails ->
               /\ SockRefuses
               /\ UNCHANGED <<output_buffer_, accepted, writing, functors_>>
          [] state_ = "connected" /\ ~(direct /\ WriteFails) ->
               /\ SockTakes(s, n)
               /\ accepted' = accepted \o s
               /\ output_buffer_' = AppendBytes(output_buffer_, rest)
               /\ writing' = (rest # <<>>)
               /\ Queue(IF rest = <<>> THEN OnComplete("written")
                        ELSE HighWater(GetReadableSize(output_buffer_), Len(rest)))

\* What ChunkListWriteFd() leaves of the chunks and what it reports: the number of
\* bytes to advance by.  The result of a failing write() of a single chunk, -1, is
\* taken for a size, which is more than there is; a failing writev() reports 0.
WriteFdAdvance(bs) ==
    CASE bs = <<>> -> 0
      [] bs # <<>> /\ ~WriteFails -> Written(Bytes(bs))
      [] Len(bs) = 1 /\ WriteFails -> Len(Bytes(bs)) + 1
      [] Len(bs) > 1 /\ WriteFails -> 0

\* The socket after ChunkListWriteFd().
WriteFdSock(bs) ==
    IF bs = <<>> THEN UNCHANGED sockVars
    ELSE IF WriteFails THEN SockRefuses ELSE SockTakes(Bytes(bs), Written(Bytes(bs)))

\* SendInLoopForBuf(): by way of the output buffer when that is empty.
SendInLoopForBuf(m) ==
    IF state_ # "connected" \/ HasReadable(output_buffer_)
    THEN SendInLoop(m)
    ELSE LET bs == AppendBytes(<<>>, Payload(m))
             left == AdvanceRead(bs, WriteFdAdvance(bs))
             lost == WriteFails /\ Len(bs) = 1
             stuck == WriteFails /\ Len(bs) > 1
         IN  /\ WriteFdSock(bs)
             /\ output_buffer_' = left
             /\ accepted' = IF lost THEN accepted ELSE accepted \o Payload(m)
             /\ writing' = IF stuck THEN writing ELSE HasReadable(left)
             /\ Queue(CASE stuck -> <<>>
                        [] ~stuck /\ HasReadable(left) -> HighWater(0, GetReadableSize(left))
                        [] ~stuck /\ ~HasReadable(left) -> OnComplete("written"))

\* SendInLoopForChunkList(): the user's chunks are written at once, whatever
\* state_ is and whatever the output buffer holds; a rest is swapped in when the
\* output buffer is empty and spliced in (AppendChunkList, at a null position)
\* when it is not, and is not armed.
SendInLoopForChunkList(m) ==
    LET bs == AppendBytes(<<>>, Payload(m))
        n == WriteFdAdvance(bs)
        left == AdvanceRead(bs, n)
    IN  /\ WriteFdSock(bs)
        /\ crash' = IF n > 0 /\ HasReadable(left) /\ HasReadable(output_buffer_)
                    THEN "AppendChunkList" ELSE crash
        /\ output_buffer_' = IF n > 0 /\ HasReadable(left) /\ ~HasReadable(output_buffer_)
                             THEN left ELSE output_buffer_
        /\ accepted' = IF WriteFails THEN accepted ELSE accepted \o Payload(m)
        /\ writing' = (writing /\ ~(n > 0 /\ ~HasReadable(left)))
        /\ Queue(CASE n = 0 -> <<>>
                   [] n > 0 /\ HasReadable(left) ->
                        IF HighWaterMark > 0 /\ GetReadableSize(left) > HighWaterMark
                        THEN << <<"highwater">> >> ELSE <<>>
                   [] n > 0 /\ ~HasReadable(left) -> OnComplete("complete"))

\* The overload of Send() for this kind, in the IO thread.
SendKind(k, m) ==
    CASE k = "str"   -> SendInLoop(m) /\ UNCHANGED crash
      [] k = "buf"   -> SendInLoopForBuf(m) /\ UNCHANGED crash
      [] k = "chunk" -> SendInLoopForChunkList(m)

-----------------------------------------------------------------------------
(* Phase 1: Epoller::Poll() *)

\* What epoll reports: POLLHUP when both directions are closed, POLLERR while an
\* error is pending, whatever events_ is.
Hup == rst \/ (fin /\ shut)
In == reading /\ (inbound > 0 \/ fin \/ rst)
Out == writing /\ (rst \/ shut \/ Space > 0)

Ready == added /\ (Hup \/ soerr \/ In \/ Out)

\* The callbacks Channel::HandleEvents() makes of it, in its order.
Callbacks ==
    (IF Hup /\ ~In THEN <<"close">> ELSE <<>>)
      \o (IF soerr THEN <<"error">> ELSE <<>>)
      \o (IF In THEN <<"read">> ELSE <<>>)
      \o (IF Out THEN <<"write">> ELSE <<>>)

\* Poll() returns with this channel ready, or woken for functors_ only.
\* FillActiveChannels() asserts that a channel with events has asked for some.
Poll ==
    /\ phase = "poll"
    /\ Ready \/ functors_ # <<>>
    /\ IF Ready /\ ~reading /\ ~writing
       THEN crash' = "FillActiveChannels" /\ UNCHANGED loopVars
       ELSE /\ phase' = "events"
            /\ todo' = IF Ready THEN Callbacks ELSE <<>>
            /\ UNCHANGED <<batch, ran, user, crash>>
    /\ UNCHANGED <<state_, sockVars, chanVars, functors_, lifeVars, dataVars, userVars>>

-----------------------------------------------------------------------------
(* Phase 2: the callbacks of the channel *)

Event(e) == phase = "events" /\ user = "none" /\ todo # <<>> /\ Head(todo) = e

Handled == todo' = Tail(todo) /\ UNCHANGED <<batch, ran, phase>>

\* POLLHUP without POLLIN.
OnClose ==
    /\ Event("close")
    /\ HandleClose
    /\ Handled
    /\ UNCHANGED <<user, sockVars, dataVars, userVars>>

\* POLLERR: HandleError() fetches the pending error to log it, which clears it.
HandleError ==
    /\ Event("error")
    /\ soerr' = FALSE
    /\ Handled
    /\ UNCHANGED <<user, state_, wire, peerGot, shut, inbound, sentIn, fin, rst, chanVars,
                   functors_, lifeVars, dataVars, userVars, crash>>

\* A slip a programmer might make: a read of 0 bytes is only logged.
HandleLtReadIgnoresEnd ==
    /\ Event("read")
    /\ Handled
    /\ inbound' = IF soerr \/ inbound = 0 THEN inbound ELSE inbound - 1
    /\ soerr' = FALSE
    /\ UNCHANGED <<dataVars, userVars, wire, peerGot, shut, sentIn, fin, rst, user, state_,
                   chanVars, lifeVars, functors_, crash>>

\* HandleLtRead(): an error is fetched and logged, a message is handed to the user,
\* end of file closes.
HandleLtRead ==
    /\ Event("read")
    /\ Handled
    /\ UNCHANGED <<dataVars, userVars, wire, peerGot, shut, sentIn, fin, rst>>
    /\ \/ /\ soerr
          /\ soerr' = FALSE
          /\ UNCHANGED <<user, inbound, state_, chanVars, lifeVars, functors_, crash>>
       \/ /\ ~soerr /\ ~rst /\ inbound > 0
          /\ inbound' = inbound - 1
          /\ user' = "callback"
          /\ UNCHANGED <<soerr, state_, chanVars, lifeVars, functors_, crash>>
       \/ /\ ~soerr /\ (rst \/ (inbound = 0 /\ fin))
          /\ HandleClose
          /\ UNCHANGED <<user, soerr, inbound>>

\* HandleLtWrite(): writes what it can; when nothing is left it stops writing, or
\* leaves that to write_complete_callback_.  The ShutdownWrite() it then calls when
\* disconnecting does nothing, because that method only acts when connected.
HandleLtWrite ==
    /\ Event("write") /\ writing
    /\ LET n == WriteFdAdvance(output_buffer_)
           left == AdvanceRead(output_buffer_, n)
           complete == n > 0 /\ ~HasReadable(left)
       IN  /\ WriteFdSock(output_buffer_)
           /\ output_buffer_' = IF n > 0 THEN left ELSE output_buffer_
           /\ writing' = ~(complete /\ ~use.complete)
           /\ Queue(IF complete THEN OnComplete("complete") ELSE <<>>)
    /\ Handled
    /\ UNCHANGED <<user, accepted, crash, userVars>> /\ NoLife

\* HandleWrite() when an earlier callback of this round has stopped the writing:
\* only a close may have done so.
HandleWriteDown ==
    /\ Event("write") /\ ~writing
    /\ crash' = IF state_ = "disconnected" THEN crash ELSE "HandleWrite"
    /\ Handled
    /\ UNCHANGED <<user, state_, sockVars, chanVars, functors_, lifeVars, dataVars, userVars>>

\* The end of phase 2: CallFunctors() takes all functors_.
TakeFunctors ==
    /\ phase = "events" /\ user = "none" /\ todo = <<>>
    /\ phase' = "functors"
    /\ batch' = functors_ /\ functors_' = <<>> /\ ran' = 0
    /\ UNCHANGED <<todo, user, state_, sockVars, chanVars, lifeVars, dataVars, userVars, crash>>

-----------------------------------------------------------------------------
(* Phase 3: the functors *)

Functor(op) ==
    /\ phase = "functors" /\ user = "none" /\ ran < Len(batch)
    /\ batch[ran + 1][1] = op

Executed == ran' = ran + 1 /\ UNCHANGED <<batch, phase, todo>>

\* References that keep the connection: connections_, functors that bind a
\* shared_ptr (all but the lambda of ShutdownWrite(), which captures this) and
\* threads that are inside a call.
Holds(f) == f[1] # "shutdown"

Alive ==
    \/ inMap
    \/ \E i \in DOMAIN functors_ : Holds(functors_[i])
    \/ \E i \in DOMAIN batch : Holds(batch[i])
    \/ \E t \in Threads : th[t] # <<"idle">>

ConnectionEstablished ==
    /\ Functor("established")
    /\ Executed
    /\ IF state_ = "connecting"
       THEN /\ state_' = "connected"
            /\ reading' = TRUE /\ added' = TRUE
            /\ ups' = ups + 1
            /\ user' = "callback"
            /\ UNCHANGED crash
       ELSE /\ crash' = "ConnectionEstablished"
            /\ UNCHANGED <<state_, reading, added, ups, user>>
    /\ UNCHANGED <<writing, functors_, sockVars, inMap, downs, destroyed, dataVars, userVars>>

\* SendInLoopForStr and the others, queued by another thread.
RunSend ==
    /\ Functor("send")
    /\ SendKind(batch[ran + 1][2], batch[ran + 1][3])
    /\ Executed
    /\ UNCHANGED <<user, userVars>> /\ NoLife

\* HandleClose, queued by the ForceClose() of another thread.
RunClose ==
    /\ Functor("close")
    /\ HandleClose
    /\ Executed
    /\ UNCHANGED <<user, sockVars, dataVars, userVars>>

\* The lambda of ShutdownWrite(): not while bytes wait to be written.
ShutdownSocket ==
    /\ shut' = (shut \/ ~writing)
    /\ UNCHANGED <<wire, peerGot, inbound, sentIn, fin, rst, soerr>>

\* That lambda queued by another thread; it uses this.
RunShutdown ==
    /\ Functor("shutdown")
    /\ IF Alive THEN ShutdownSocket /\ UNCHANGED crash
       ELSE crash' = "Freed" /\ UNCHANGED sockVars
    /\ Executed
    /\ UNCHANGED <<user, state_, chanVars, functors_, lifeVars, dataVars, userVars>>

\* ConnectionDestroyed(): after HandleClose() it only removes the channel.
ConnectionDestroyed ==
    /\ Functor("destroy")
    /\ Executed
    /\ IF state_ \in {"connected", "disconnected"}
       THEN /\ state_' = "disconnected"
            /\ added' = FALSE
            /\ reading' = FALSE /\ writing' = FALSE
            /\ downs' = IF state_ = "connected" THEN downs + 1 ELSE downs
            /\ destroyed' = destroyed + 1
            /\ UNCHANGED crash
       ELSE /\ crash' = "ConnectionDestroyed"
            /\ UNCHANGED <<state_, chanVars, downs, destroyed>>
    /\ UNCHANGED <<user, inMap, ups, functors_, sockVars, dataVars, userVars>>

\* write_complete_callback_ and high_water_mark_callback_ bound as they are.
RunCallback ==
    /\ Functor("written") \/ Functor("highwater")
    /\ Executed
    /\ user' = "callback"
    /\ UNCHANGED <<state_, sockVars, chanVars, functors_, lifeVars, dataVars, userVars, crash>>

\* CallWriteCompleteCallback() calls write_complete_callback_.
CallWriteCompleteCallback ==
    /\ Functor("complete")
    /\ Executed
    /\ user' = "complete"
    /\ UNCHANGED <<state_, sockVars, chanVars, functors_, lifeVars, dataVars, userVars, crash>>

\* The end of phase 3: the batch is destroyed, the loop polls again.
FunctorsDone ==
    /\ phase = "functors" /\ user = "none" /\ ran = Len(batch)
    /\ phase' = "poll"
    /\ batch' = <<>> /\ ran' = 0
    /\ UNCHANGED <<todo, user, state_, sockVars, chanVars, functors_, lifeVars, dataVars,
                   userVars, crash>>

-----------------------------------------------------------------------------
(* User code in the IO thread, where RunInLoop() calls at once *)

UserMay(call) == user # "none" /\ <<phase, call>> \in use.loop

UserSend(k, m) ==
    /\ UserMay("send") /\ m \notin sent /\ state_ = "connected"
    /\ sent' = sent \cup {m}
    /\ SendKind(k, m)
    /\ user' = IF user = "callback" THEN user ELSE "continued"
    /\ UNCHANGED <<batch, ran, phase, todo, use, th, calls>> /\ NoLife

UserShutdown ==
    /\ UserMay("shutdown") /\ state_ = "connected"
    /\ state_' = "disconnecting"
    /\ ShutdownSocket
    /\ UNCHANGED <<chanVars, functors_, loopVars, lifeVars, dataVars, userVars, crash>>

\* A slip a programmer might make: ForceClose() does not look at state_.
UserForceCloseUnchecked ==
    /\ UserMay("close")
    /\ HandleClose
    /\ UNCHANGED <<sockVars, loopVars, dataVars, userVars>>

\* ForceClose() calls HandleClose() with state_ kDisconnecting.
UserForceClose ==
    /\ UserMay("close") /\ state_ \in {"connected", "disconnecting"}
    /\ HandleClose
    /\ UNCHANGED <<sockVars, loopVars, dataVars, userVars>>

DisbaleRead ==
    /\ UserMay("noread") /\ state_ = "connected" /\ reading
    /\ reading' = FALSE
    /\ UNCHANGED <<state_, writing, added, sockVars, functors_, loopVars, lifeVars, dataVars,
                   userVars, crash>>

EnableRead ==
    /\ UserMay("noread") /\ state_ = "connected" /\ ~reading
    /\ reading' = TRUE
    /\ UNCHANGED <<state_, writing, added, sockVars, functors_, loopVars, lifeVars, dataVars,
                   userVars, crash>>

\* The callback returns.  write_complete_callback_ returns true, write complete
\* really, when it has not sent anything, and CallWriteCompleteCallback() then
\* stops the writing.
UserReturn ==
    /\ user # "none"
    /\ user' = "none"
    /\ writing' = (writing /\ user # "complete")
    /\ UNCHANGED <<batch, ran, phase, todo, state_, reading, added, sockVars, functors_, lifeVars,
                   dataVars, userVars, crash>>

-----------------------------------------------------------------------------
(* Other threads.  They get the connection from its connection_callback_. *)

Idle(t) == th[t] = <<"idle">> /\ ups > 0 /\ Alive

UNCHANGED_BY_THREAD ==
    UNCHANGED <<sockVars, chanVars, loopVars, lifeVars, dataVars, crash>>

\* Send() reads state_; it will queue the message.
ThreadSend(t, k, m) ==
    /\ Idle(t) /\ "send" \in use.thread /\ m \notin sent
    /\ state_ = "connected"
    /\ sent' = sent \cup {m}
    /\ th' = [th EXCEPT ![t] = <<"queue", <<"send", k, m>> >>]
    /\ UNCHANGED <<state_, functors_, use, calls>> /\ UNCHANGED_BY_THREAD

\* ShutdownWrite() reads state_.
ThreadShutdown(t) ==
    /\ Idle(t) /\ "shutdown" \in use.thread /\ calls < MaxCalls
    /\ state_ = "connected"
    /\ calls' = calls + 1
    /\ th' = [th EXCEPT ![t] = <<"set", <<"shutdown">> >>]
    /\ UNCHANGED <<state_, functors_, use, sent>> /\ UNCHANGED_BY_THREAD

\* ForceClose() reads state_.
ThreadForceClose(t) ==
    /\ Idle(t) /\ "close" \in use.thread /\ calls < MaxCalls
    /\ state_ \in {"connected", "disconnecting"}
    /\ calls' = calls + 1
    /\ th' = [th EXCEPT ![t] = <<"set", <<"close">> >>]
    /\ UNCHANGED <<state_, functors_, use, sent>> /\ UNCHANGED_BY_THREAD

\* Either of them writes state_, whatever it is by now.
ThreadSet(t) ==
    /\ th[t][1] = "set"
    /\ state_' = "disconnecting"
    /\ th' = [th EXCEPT ![t] = <<"queue", th[t][2]>>]
    /\ UNCHANGED <<functors_, use, sent, calls>> /\ UNCHANGED_BY_THREAD

\* QueueToLoop().
ThreadQueue(t) ==
    /\ th[t][1] = "queue"
    /\ Queue(<<th[t][2]>>)
    /\ th' = [th EXCEPT ![t] = <<"idle">>]
    /\ UNCHANGED <<state_, use, sent, calls>> /\ UNCHANGED_BY_THREAD

-----------------------------------------------------------------------------
(* The peer *)

ProgramUnchanged ==
    UNCHANGED <<state_, chanVars, functors_, loopVars, lifeVars, dataVars, userVars, crash>>

PeerSends ==
    /\ sentIn < MaxIn /\ ~fin /\ ~rst
    /\ sentIn' = sentIn + 1 /\ inbound' = inbound + 1
    /\ UNCHANGED <<wire, peerGot, shut, fin, rst, soerr>> /\ ProgramUnchanged

PeerReads ==
    /\ peerGot < Len(wire) /\ ~rst
    /\ peerGot' = peerGot + 1
    /\ UNCHANGED <<wire, shut, inbound, sentIn, fin, rst, soerr>> /\ ProgramUnchanged

PeerCloses ==
    /\ PeerFin /\ ~fin /\ ~rst
    /\ fin' = TRUE
    /\ UNCHANGED <<wire, peerGot, shut, inbound, sentIn, rst, soerr>> /\ ProgramUnchanged

PeerResets ==
    /\ PeerRst /\ ~rst
    /\ rst' = TRUE /\ soerr' = TRUE
    /\ UNCHANGED <<wire, peerGot, shut, inbound, sentIn, fin>> /\ ProgramUnchanged

-----------------------------------------------------------------------------

LoopStep ==
    \/ Poll
    \/ OnClose \/ HandleError \/ HandleLtRead \/ HandleLtWrite \/ HandleWriteDown
    \/ TakeFunctors
    \/ ConnectionEstablished \/ RunSend \/ RunClose \/ RunShutdown \/ ConnectionDestroyed
    \/ RunCallback \/ CallWriteCompleteCallback
    \/ FunctorsDone
    \/ UserReturn

UserStep ==
    \/ \E k \in use.kinds, m \in Messages : UserSend(k, m)
    \/ UserShutdown \/ UserForceClose \/ DisbaleRead \/ EnableRead

ThreadCall(t) ==
    \/ \E k \in use.kinds, m \in Messages : ThreadSend(t, k, m)
    \/ ThreadShutdown(t) \/ ThreadForceClose(t)

ThreadGoesOn(t) == ThreadSet(t) \/ ThreadQueue(t)

Peer == PeerSends \/ PeerReads \/ PeerCloses \/ PeerResets

Next ==
    /\ crash = "none"
    /\ \/ LoopStep \/ UserStep \/ Peer
       \/ \E t \in Threads : ThreadCall(t) \/ ThreadGoesOn(t)

Spec == Init /\ [][Next]_vars

\* The IO thread keeps running and user callbacks return, a thread inside a call
\* goes on, and the peer keeps reading; nobody has to call, send or close.
Fairness ==
    /\ WF_vars(crash = "none" /\ LoopStep)
    /\ WF_vars(crash = "none" /\ PeerReads)
    /\ \A t \in Threads : WF_vars(crash = "none" /\ ThreadGoesOn(t))

FairSpec == Spec /\ Fairness

-----------------------------------------------------------------------------
(* Properties *)

\* Types and ranges of the variables.
TypeOK ==
    /\ state_ \in {"connecting", "connected", "disconnecting", "disconnected"}
    /\ \A i \in DOMAIN output_buffer_ :
         ChunkWritable(output_buffer_[i]) \in 0 .. CHUNK_SIZE /\ output_buffer_[i].data # <<>>
    /\ {reading, writing, added, shut, fin, rst, soerr, inMap} \subseteq BOOLEAN
    /\ peerGot \in 0 .. Len(wire) /\ Space \in 0 .. SockCap
    /\ inbound \in 0 .. sentIn /\ sentIn \in 0 .. MaxIn
    /\ ran \in 0 .. Len(batch)
    /\ phase \in {"poll", "events", "functors"}
    /\ user \in {"none", "callback", "complete", "continued"}
    /\ use \in Uses /\ sent \in SUBSET Messages

\* Whether another thread may move state_.
ThreadsClose == use.thread \cap {"shutdown", "close"} # {}

\* Whether the channel may be without events when the loop polls: reading was
\* stopped, or the connection was closed by a functor and is removed a round later.
MayPause ==
    \/ ThreadsClose
    \/ <<"functors", "close">> \in use.loop
    \/ \E p \in {"events", "functors"} : <<p, "noread">> \in use.loop

\* An assertion of the connection, of the server's close callback or of the poller
\* fails, or freed memory is used, only in a use of the connection that invites it:
\* other threads that close, a pause, a chunk list sent while output is pending.
\* When users only send, in whatever thread, and half-close and close in the
\* message callback, none ever does.
AssertionsHold ==
    \/ crash = "none"
    \/ crash \in {"HandleClose", "CloseCallback", "ConnectionDestroyed", "Freed"} /\ ThreadsClose
    \/ crash = "FillActiveChannels" /\ MayPause
    \/ crash = "AppendChunkList" /\ "chunk" \in use.kinds
    \/ crash = "HandleWrite" /\ (ThreadsClose \/ use.complete \/ "chunk" \in use.kinds)

\* Whether the write event is only ever stopped by whoever has emptied the buffer.
PlainOutput == ~use.complete /\ "chunk" \notin use.kinds

\* Bytes that nobody will write: SendInLoopForBuf() keeps a message of several chunks
\* whose writev() failed, and does not enable the write event.
Unarmed == HasReadable(output_buffer_) /\ ~writing

LongBuffers == "buf" \in use.kinds /\ use.length > CHUNK_SIZE - HEADER

\* The bytes on the wire followed by those in output_buffer_ are the bytes that
\* Send() has taken, in that order, each once, and while the connection is up a FIN
\* follows all of them that the write event was enabled for: SendInLoop() never
\* writes past what waits in the buffer, HandleLtWrite() takes out what it has
\* written, ShutdownWrite() waits for the write event.  Only SendInLoopForBuf() leaves
\* bytes without the write event, and only of a message of several chunks.
StreamIntact ==
    PlainOutput /\ ~rst =>
      /\ wire \o Bytes(output_buffer_) = accepted
      /\ downs = 0 => /\ shut => output_buffer_ = <<>> \/ Unarmed
                      /\ Unarmed => LongBuffers

PendingDestroys ==
    Len(SelectSeq(functors_, LAMBDA f : f[1] = "destroy"))
      + Len(SelectSeq(SubSeq(batch, ran + 1, Len(batch)), LAMBDA f : f[1] = "destroy"))

\* connection_callback_ is called once up and at most once down, in that order; the
\* connection leaves connections_ with the call down; from then on exactly one
\* ConnectionDestroyed() is queued or done, after which the poller no longer has
\* the channel.  It is called down a second time only where another thread closes:
\* its ForceClose() has read state_ before the first close and written it afterwards,
\* and the assertion of the close callback follows.
CloseOnce ==
    /\ ups <= 1
    /\ \/ downs <= ups
       \/ downs = 2 /\ crash = "CloseCallback" /\ "close" \in use.thread
    /\ inMap <=> downs = 0
    /\ crash = "none" => destroyed + PendingDestroys = downs
    /\ destroyed > 0 => ~added

HighWaters(fs) == Len(SelectSeq(fs, LAMBDA f : f[1] = "highwater"))

\* high_water_mark_callback_ is queued when output_buffer_ rises to the mark from
\* below, and only then; bytes left without the write event are the exception, for
\* which SendInLoopForBuf() does not look at the mark.
HighWaterRisingEdge ==
    [][LET rises == /\ GetReadableSize(output_buffer_) < HighWaterMark
                    /\ GetReadableSize(output_buffer_') >= HighWaterMark
       IN  PlainOutput =>
             (HighWaters(functors_') > HighWaters(functors_) <=> rises /\ ~Unarmed')]_vars

\* Bytes in output_buffer_ that the write event is enabled for are written out, or
\* the connection goes down; and after the peer has closed, the connection is taken
\* out of the server and the poller.
ConnectionProgress ==
    /\ (PlainOutput /\ ~MayPause /\ HasReadable(output_buffer_) /\ writing)
         ~> (~HasReadable(output_buffer_) \/ state_ = "disconnected")
    /\ (PlainOutput /\ ~MayPause /\ fin) ~> (destroyed = 1 /\ ~inMap /\ ~added)

\* After ShutdownWrite() the socket is shut down for writing, at the latest when the
\* output buffer has been written.
HalfCloseHappens ==
    state_ = "disconnecting" ~> (shut \/ state_ = "disconnected")
=============================================================================
