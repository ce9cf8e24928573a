----------------------------- MODULE FileTransfer -----------------------------
(***************************************************************************)
(* The file transfer example: the client cuts a file into numbered chunks,  *)
(* sends each as a frame of the length header codec when the one before it  *)
(* has been written, and marks the last; the session of the server parses   *)
(* the frames and rebuilds the file.  A field of a frame is one unit of the *)
(* stream, as is a byte of the file.                                        *)
(***************************************************************************)
EXTENDS Integers, Sequences, SequencesExt

CONSTANTS
  kFileBufferSize,   \* bytes of a chunk
  kMaxAcceptLength,  \* the longest frame the session's codec takes
  MaxFile            \* bound: the bytes of the file

VARIABLES
  use,      \* what this behaviour meets: "whole" writes, "short" writes, a "fault", or
            \* whole writes in a "debug" build, whose assertions are evaluated
  file,     \* ghost: the local file
  client,   \* [pos, seq]: the read position (-1: no file_) and seq_
  started,  \* SendFile() was called
  armed,    \* the connection has a write complete callback
  queue,    \* functors of the client's loop
  wire,     \* units in the sockets, and whether the end of the stream follows
  fin,
  lost,     \* the connection broke
  crash,    \* an empty std::function was called
  session   \* the server's session, input buffer and file, see NewSession

vars == <<use, file, client, started, armed, queue, wire, fin, lost, crash, session>>

-----------------------------------------------------------------------------
(* The client.                                                              *)

\* File::Read(): up to kFileBufferSize bytes from the read position.
Read == SubSeq(file, client.pos + 1,
               IF client.pos + kFileBufferSize < Len(file)
               THEN client.pos + kFileBufferSize ELSE Len(file))

LastChunk == Len(Read) < kFileBufferSize

\* The message of OnWriteComplete() behind the header of LengthHeaderCodec::Send(), whose
\* assert(buffer.Read32() == len) takes the header out again where it is evaluated.
Frame ==
  LET body == << <<"op", IF LastChunk THEN 1 ELSE 0>>, <<"seq", client.seq>>, <<"nlen", 1>>,
                 <<"name", 1>>, <<"size", Len(Read)>> >>
              \o [i \in DOMAIN Read |-> <<"data", Read[i]>>]
  IN  IF use = "debug" THEN body ELSE << <<"len", Len(body)>> >> \o body

\* Reset() after the last chunk, else the next position and sequence number.
Advance ==
  client' = IF LastChunk THEN [pos |-> -1, seq |-> 0]
            ELSE [pos |-> client.pos + Len(Read), seq |-> client.seq + 1]

\* A slip a programmer might make: like the other sends, refuse once Disconnect() was called.
SendInLoopForChunkList_checked(f, q, on) ==
  IF <<"shutdown">> \in Range(q)
  THEN wire' = wire /\ queue' = q
  ELSE wire' = wire \o f /\ queue' = IF on THEN Append(q, <<"complete">>) ELSE q

\* SendInLoopForChunkList(): f is written at once, with the functors q behind it.  A short
\* write leaves the rest in the output buffer with no interest in writing; a refused one drops f.
SendInLoopForChunkList(f, q, on) ==
  \E n \in 0..Len(f) :
    /\ use # "short" => n = Len(f)
    /\ wire' = wire \o SubSeq(f, 1, n)
    /\ queue' = IF n = Len(f) /\ on THEN Append(q, <<"complete">>) ELSE q

Init ==
  /\ use \in {"whole", "short", "fault", "debug"}
  /\ file \in {[i \in 1..n |-> i] : n \in 0..MaxFile}
  /\ client = [pos |-> 0, seq |-> 0]
  /\ started = FALSE /\ armed = FALSE
  /\ queue = <<>> /\ wire = <<>> /\ fin = FALSE
  /\ lost = FALSE /\ crash = FALSE
  /\ session = [buf |-> <<>>, path |-> 0, seq |-> 0, open |-> FALSE, disk |-> <<>>,
                ended |-> FALSE, faulty |-> FALSE, desync |-> FALSE]

\* A failed fread() sends nothing, and nothing calls OnWriteComplete() again.
ReadFails == use = "fault" /\ UNCHANGED <<client, armed, queue>>

\* SendFile() on the main thread: the frame, and after the last one the shutdown of
\* Disconnect(), are queued to the loop.
SendFile ==
  /\ ~started
  /\ started' = TRUE
  /\ \/ ReadFails
     \/ /\ armed' = ~LastChunk
        /\ queue' = queue \o << <<"send", Frame>> >> \o IF LastChunk THEN << <<"shutdown">> >> ELSE <<>>
        /\ Advance
  /\ UNCHANGED <<use, file, wire, fin, lost, crash, session>>

RunSend ==
  /\ queue # <<>> /\ Head(queue)[1] = "send"
  /\ IF lost THEN queue' = Tail(queue) /\ UNCHANGED wire
     ELSE SendInLoopForChunkList(Head(queue)[2], Tail(queue), armed)
  /\ UNCHANGED <<use, file, client, started, armed, fin, lost, crash, session>>

\* CallWriteCompleteCallback(): OnWriteComplete() on the loop, which sends at once.
OnWriteComplete ==
  /\ queue # <<>> /\ Head(queue)[1] = "complete"
  /\ IF ~armed
     THEN crash' = TRUE /\ queue' = Tail(queue) /\ UNCHANGED <<client, armed, wire>>
     ELSE /\ UNCHANGED crash
          /\ \/ /\ use = "fault"
                /\ queue' = Tail(queue)
                /\ UNCHANGED <<client, armed, wire>>
             \/ /\ armed' = ~LastChunk
                /\ SendInLoopForChunkList(Frame,
                     Tail(queue) \o IF LastChunk THEN << <<"shutdown">> >> ELSE <<>>, ~LastChunk)
                /\ Advance
  /\ UNCHANGED <<use, file, started, fin, lost, session>>

\* The functor of ShutdownWrite().
RunShutdown ==
  /\ queue # <<>> /\ Head(queue)[1] = "shutdown"
  /\ queue' = Tail(queue)
  /\ fin' = ~lost
  /\ UNCHANGED <<use, file, client, started, armed, wire, lost, crash, session>>

\* The connection breaks: the connection callback takes the write complete callback away.
Lose ==
  /\ use = "fault"
  /\ ~lost
  /\ lost' = TRUE
  /\ wire' = <<>>
  /\ armed' = FALSE
  /\ UNCHANGED <<use, file, client, started, queue, fin, crash, session>>

-----------------------------------------------------------------------------
(* The server.                                                              *)

\* OnLengthMessage() on the units behind the header; f says which file operation fails.  Where
\* it returns early it leaves the rest of the frame unread, and the codec goes on in the middle.
OnLengthMessage(s, f) ==
  LET last == s.buf[1][2] = 1
      n == s.buf[5][2]
      data == [i \in 1..n |-> s.buf[5 + i][2]]
      rest == SubSeq(s.buf, 6 + n, Len(s.buf))
      numbered == [s EXCEPT !.seq = s.buf[2][2] + 1, !.path = s.buf[4][2]]
      old == IF s.open THEN s.disk ELSE <<>>
  IN  IF \/ s.buf[2][2] # s.seq
         \/ s.path \notin {0, s.buf[4][2]}
         \/ n > kFileBufferSize
      THEN [s EXCEPT !.desync = TRUE]
      ELSE IF ~s.open /\ f = "open" THEN [numbered EXCEPT !.desync = TRUE, !.faulty = TRUE]
      ELSE IF f = "write"
      THEN [numbered EXCEPT !.buf = rest, !.open = TRUE, !.disk = old, !.faulty = TRUE]
      ELSE IF last \* Reset()
      THEN [s EXCEPT !.buf = rest, !.path = 0, !.seq = 0, !.open = FALSE,
                     !.disk = old \o data, !.ended = TRUE]
      ELSE [numbered EXCEPT !.buf = rest, !.open = TRUE, !.disk = old \o data]

\* A slip a programmer might make: a frame that has only begun is parsed.
RECURSIVE OnMessage_eager(_, _)
OnMessage_eager(s, f) ==
  IF s.desync \/ Len(s.buf) < 7 \/ Head(s.buf)[1] # "len" THEN s
  ELSE OnMessage_eager(OnLengthMessage(
         [s EXCEPT !.buf = Tail(s.buf) \o [i \in 1..s.buf[1][2] |-> <<"data", 0>>]], f), f)

\* An invalid length: 0x80 in the first byte of what is no header, or more than accepted.
InvalidLength(unit) == unit[1] # "len" \/ unit[2] > kMaxAcceptLength

\* LengthHeaderCodec::OnMessage(): while a whole frame is there.
RECURSIVE OnMessage(_, _)
OnMessage(s, f) ==
  IF s.desync \/ s.buf = <<>> THEN s
  ELSE IF InvalidLength(Head(s.buf)) THEN [s EXCEPT !.desync = TRUE]
  ELSE IF Len(s.buf) >= 1 + Head(s.buf)[2]
  THEN OnMessage(OnLengthMessage([s EXCEPT !.buf = Tail(s.buf)], f), f)
  ELSE s

\* n units arrive.  Once the session has met an invalid length it finds the same one again
\* and again; once it is out of step with the frames, it reads lengths and fields from the
\* middle of a chunk, and nothing more is said of it.
Receive(n, f) ==
  /\ ~session.desync
  /\ n \in 1..Len(wire)
  /\ f # "none" => use = "fault"
  /\ wire' = SubSeq(wire, n + 1, Len(wire))
  /\ session' = OnMessage([session EXCEPT !.buf = @ \o SubSeq(wire, 1, n)], f)
  /\ UNCHANGED <<use, file, client, started, armed, queue, fin, lost, crash>>

ClientStep == SendFile \/ RunSend \/ OnWriteComplete \/ RunShutdown

ReceiveStep == \E n \in 1..Len(wire) : Receive(n, "none")

Next ==
  \/ ClientStep
  \/ Lose
  \/ \E n \in 1..Len(wire), f \in {"none", "open", "write"} : Receive(n, f)

Spec == Init /\ [][Next]_vars

\* The main thread, the client's loop and the server's loop run.
FairSpec == Spec /\ WF_vars(ClientStep) /\ WF_vars(ReceiveStep)

-----------------------------------------------------------------------------
(* However the stream is cut, and whatever the writes, the disk and the     *)
(* connection do, the session gets out of step with the frames only when it *)
(* cannot open its file, or in a debug build, of which it takes no byte;    *)
(* what it has on disk is a prefix of the file unless a write failed, and   *)
(* the whole file once the last chunk was handled; and as long as the       *)
(* connection holds, the write complete callback is there when it is        *)
(* called.                                                                  *)
FileIntact ==
  /\ session.desync => session.faulty \/ use = "debug"
  /\ use = "debug" => session.disk = <<>> /\ ~session.ended
  /\ ~session.faulty => IsPrefix(session.disk, file)
  /\ session.ended /\ ~session.faulty => session.disk = file
  /\ crash => lost

(* In a release build, a file whose chunks the socket takes whole, with no  *)
(* failing file operation and no broken connection, is on the server's disk *)
(* in the end, the empty file and one of whole chunks only included.        *)
TransferCompletes == (use = "whole") ~> (session.ended /\ session.disk = file)
=============================================================================
