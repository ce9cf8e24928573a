---------------------------- MODULE EdgeTriggered ----------------------------
(***************************************************************************)
(* The connection of module Connection in a loop whose Epoller works edge   *)
(* triggered (EventLoop::SetEdgeTriggerMode(), the client of                *)
(* example/file_transfer).  epoll reports the channel once per edge: a step *)
(* of the peer, or an epoll_ctl() call.  HandleEtRead() and HandleEtWrite() *)
(* loop on the socket; an iteration is a step.                              *)
(***************************************************************************)
EXTENDS Connection

VARIABLES
    edge,   \* an edge has happened since the channel was last reported
    turn    \* the parity of the iterations of HandleEtWrite() so far

etVars == <<vars, edge, turn>>

\* Users send from message_callback_ and from connection_callback_.
EtUse == [kinds |-> {"str"}, length |-> 2, thread |-> {}, complete |-> FALSE,
          loop |-> {<<"events", "send">>, <<"functors", "send">>}]

EtUses == {EtUse}

EtInit == Init /\ edge = FALSE /\ turn = FALSE

\* Poll(): with EPOLLET only what has changed since the last report.
EtPoll ==
    /\ phase = "poll"
    /\ (Ready /\ edge) \/ functors_ # <<>>
    /\ phase' = "events"
    /\ todo' = IF Ready /\ edge THEN Callbacks ELSE <<>>
    /\ edge' = FALSE
    /\ UNCHANGED <<batch, ran, user, crash, turn>>
    /\ UNCHANGED <<state_, sockVars, chanVars, functors_, lifeVars, dataVars, userVars>>

\* One iteration of HandleEtRead(): a message goes to message_callback_ and the loop
\* reads again, whatever the callback did; EAGAIN ends it, end of file closes.  After
\* an error the callback is called too, with what is in input_buffer_.
HandleEtRead ==
    /\ Event("read")
    /\ UNCHANGED <<dataVars, userVars, wire, peerGot, shut, sentIn, fin, rst>>
    /\ \/ /\ soerr
          /\ soerr' = FALSE
          /\ user' = "callback"
          /\ UNCHANGED <<todo, batch, ran, phase, inbound, state_, chanVars, lifeVars, functors_, crash>>
       \/ /\ ~soerr /\ ~rst /\ inbound > 0
          /\ inbound' = inbound - 1
          /\ user' = "callback"
          /\ UNCHANGED <<todo, batch, ran, phase, soerr, state_, chanVars, lifeVars, functors_, crash>>
       \/ /\ ~soerr /\ (rst \/ (inbound = 0 /\ fin))
          /\ HandleClose
          /\ Handled
          /\ UNCHANGED <<user, soerr, inbound>>
       \/ /\ ~soerr /\ ~rst /\ inbound = 0 /\ ~fin
          /\ Handled
          /\ UNCHANGED <<user, soerr, inbound, state_, chanVars, lifeVars, functors_, crash>>

\* saved_errno is EAGAIN after ChunkListWriteFd(): only writev() reports it.
WriteFdAgain(bs) == Len(bs) > 1 /\ Space = 0 /\ ~rst /\ ~shut

\* One iteration of HandleEtWrite(): the loop is left when nothing is readable and
\* the same write reported EAGAIN.  (A connection of this use is never disconnecting,
\* so the shutdown behind the loop does not arise.)
HandleEtWrite ==
    /\ Event("write") /\ writing
    /\ LET left == AdvanceRead(output_buffer_, WriteFdAdvance(output_buffer_))
           leave == ~HasReadable(left) /\ WriteFdAgain(output_buffer_)
       IN  /\ WriteFdSock(output_buffer_)
           /\ output_buffer_' = left
           /\ IF leave THEN Handled ELSE UNCHANGED <<todo, batch, ran, phase>>
           /\ Queue(IF leave THEN OnComplete("complete") ELSE <<>>)
    /\ turn' = ~turn
    /\ UNCHANGED <<edge, user, writing, accepted, crash, userVars>> /\ NoLife

EtLoopStep ==
    \/ EtPoll
    \/ HandleEtWrite
    \/ /\ \/ OnClose \/ HandleError \/ HandleEtRead \/ HandleWriteDown
          \/ TakeFunctors
          \/ ConnectionEstablished \/ ConnectionDestroyed
          \/ FunctorsDone
          \/ UserReturn
       /\ edge' = (edge \/ chanVars' # chanVars)
       /\ UNCHANGED turn

EtUserStep ==
    /\ \E k \in use.kinds, m \in Messages : UserSend(k, m)
    /\ edge' = (edge \/ chanVars' # chanVars)
    /\ UNCHANGED turn

EtPeer == Peer /\ edge' = TRUE /\ UNCHANGED turn

EtNext == crash = "none" /\ (EtLoopStep \/ EtUserStep \/ EtPeer)

\* The IO thread keeps running and the peer keeps reading.
EtSpec ==
    /\ EtInit /\ [][EtNext]_etVars
    /\ WF_etVars(crash = "none" /\ EtLoopStep)
    /\ WF_etVars(crash = "none" /\ PeerReads /\ edge' = TRUE /\ UNCHANGED turn)

-----------------------------------------------------------------------------
\* HandleEtWrite() returns to the loop: "To write entire message, we need resigter
\* write event again", says its comment about what is left when it stops writing.
EtWriteReturns == Event("write") ~> ~Event("write")
=============================================================================
