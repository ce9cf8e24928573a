------------------------------ MODULE PbCodec --------------------------------
(***************************************************************************)
(* The two protobuf codecs: GenericPbCodec (a size header of fixed length)  *)
(* and ProtobufCodec2 (a varint size header).  A frame is size, tag,        *)
(* payload, checksum of tag and payload; the sender serialises into the     *)
(* chunks of a ChunkStream, the byte stream arrives in arbitrary pieces,    *)
(* and every piece runs the whole message handler.  A unit of the stream    *)
(* stands for a byte; numbers are written in base Radix.                    *)
(***************************************************************************)
EXTENDS Integers, Sequences, SequencesExt, FiniteSetsExt

CONSTANTS
  ChunkSize,  \* the writable units of a new chunk
  MaxLen,     \* kMaxMessageLength, max_size_
  MaxRead,    \* bound: the units one read delivers
  MaxMsgs,    \* bound: the messages sent
  Bad         \* the frames of a peer that does not follow the format, from Kinds

VARIABLES
  codec,      \* "fixed" or "varint"
  sent,       \* the frames sent: [kind, payload]
  wire,       \* the units on their way
  inbuf,      \* the connection's input buffer
  delivered,  \* the payloads given to message_callback_
  errors,     \* the error codes given to error_callback_
  shut,       \* the default error callback called ShutdownWrite()
  flooded,    \* ghost: a buffer of MaxLen units or more was thrown away
  asserted    \* ghost: KANON_ASSERT of ProtobufCodec2 failed (debug builds stop there)

vars == <<codec, sent, wire, inbuf, delivered, errors, shut, flooded, asserted>>

Radix == 4

tag_ == <<1>>

otherTag == <<2>>

SizeLength == 2      \* kSizeLength

ChecksumLength == 1  \* kChecksumLength, CHECKSUM_LENGTH

Payloads == {<<>>, <<0>>, <<2, 3>>}

\* Message::ParseFromArray(): a payload that is no message of the type is refused.
ParseFromArray(payload) == payload # <<0>>

Kinds == {"good", "tag", "sum", "size"}

GetCheckSum(s) == (3 * Len(s) + FoldLeft(LAMBDA a, x : a + x, 0, s)) % Radix

-----------------------------------------------------------------------------
(* ChunkStream over a list of chunks, and Send().                           *)

\* Next(): the last chunk is handed out whole, or a new one when it has no room; the
\* result is the chunks and the room.
StreamNext(chunks) ==
  IF chunks = <<>> \/ Len(Last(chunks)) = ChunkSize
  THEN [chunks |-> Append(chunks, <<>>), room |-> ChunkSize]
  ELSE [chunks |-> chunks, room |-> ChunkSize - Len(Last(chunks))]

\* SerializeToZeroCopyStream(): fill what Next() returns, BackUp() over the rest.
RECURSIVE Serialize(_, _)
Serialize(chunks, s) ==
  IF s = <<>> THEN chunks
  ELSE LET got == StreamNext(chunks)
           n == Min({got.room, Len(s)})
           filled == [got.chunks EXCEPT ![Len(got.chunks)] = @ \o SubSeq(s, 1, n)]
       IN  Serialize(filled, SubSeq(s, n + 1, Len(s)))

\* The size header as the two codecs write it.
Header(n) ==
  IF codec = "fixed" THEN <<n \div Radix, n % Radix>>
  ELSE IF n < Radix THEN <<n>> ELSE <<Radix + (n % Radix), n \div Radix>>

\* The frame Send() makes; the checksum runs over the chunks one by one.
Frame(kind, payload) ==
  LET body == FlattenSeq(Serialize(<<IF kind = "tag" THEN otherTag ELSE tag_>>, payload))
      sum == IF kind = "sum" THEN (GetCheckSum(body) + 1) % Radix ELSE GetCheckSum(body)
  IN  Header(IF kind = "size" THEN 0 ELSE Len(body) + ChecksumLength) \o body \o <<sum>>

Init ==
  /\ codec \in {"fixed", "varint"}
  /\ sent = <<>>
  /\ wire = <<>>
  /\ inbuf = <<>>
  /\ delivered = <<>>
  /\ errors = <<>>
  /\ shut = FALSE
  /\ flooded = FALSE
  /\ asserted = FALSE

Send(kind, payload) ==
  /\ Len(sent) < MaxMsgs
  /\ sent' = Append(sent, [kind |-> kind, payload |-> payload])
  /\ wire' = wire \o Frame(kind, payload)
  /\ UNCHANGED <<codec, inbuf, delivered, errors, shut, flooded, asserted>>

-----------------------------------------------------------------------------
(* The message handlers: the state they leave, as a record.                 *)

Outcome(buf, got, err, bug) == [buf |-> buf, got |-> got, err |-> err, bug |-> bug]

Advance(buf, n) == SubSeq(buf, n + 1, Len(buf))

\* CheckCheckSum(): the last unit of a body is the checksum of the others.
CheckCheckSum(body) ==
  GetCheckSum(SubSeq(body, 1, Len(body) - ChecksumLength)) = body[Len(body)]

PayloadOf(body) == SubSeq(body, Len(tag_) + 1, Len(body) - ChecksumLength)

\* Parse(): the checksum, then the tag, then the payload, of a body of the given size.
Parse(body) ==
  IF ~CheckCheckSum(body) THEN "kInvalidChecksum"
  ELSE IF SubSeq(body, 1, Len(tag_)) # tag_ THEN "kInvalidMessage"
  ELSE IF ~ParseFromArray(PayloadOf(body)) THEN "kParseError" ELSE "kNoError"

\* A slip a programmer might make: handle one message per read.
OnMessageLoop_once(buf, got) ==
  LET size == Radix * buf[1] + buf[2]
      body == SubSeq(buf, SizeLength + 1, SizeLength + size)
  IN  IF Len(buf) < SizeLength + ChecksumLength THEN Outcome(buf, got, <<>>, FALSE)
      ELSE IF size < ChecksumLength + Len(tag_) \/ size >= MaxLen
      THEN Outcome(buf, got, <<"kInvalidLength">>, FALSE)
      ELSE IF Len(buf) < SizeLength + size THEN Outcome(buf, got, <<>>, FALSE)
      ELSE IF Parse(body) # "kNoError" THEN Outcome(buf, got, <<Parse(body)>>, FALSE)
      ELSE Outcome(Advance(buf, SizeLength + size), Append(got, PayloadOf(body)), <<>>, FALSE)

\* GenericPbCodec::OnMessage(): a frame that fails is not taken out of the buffer.
RECURSIVE OnMessageLoop(_, _)
OnMessageLoop(buf, got) ==
  LET size == Radix * buf[1] + buf[2]
      body == SubSeq(buf, SizeLength + 1, SizeLength + size)
  IN  IF Len(buf) < SizeLength + ChecksumLength THEN Outcome(buf, got, <<>>, FALSE)
      ELSE IF size < ChecksumLength + Len(tag_) \/ size >= MaxLen
      THEN Outcome(buf, got, <<"kInvalidLength">>, FALSE)
      ELSE IF Len(buf) < SizeLength + size THEN Outcome(buf, got, <<>>, FALSE)
      ELSE IF Parse(body) # "kNoError" THEN Outcome(buf, got, <<Parse(body)>>, FALSE)
      ELSE OnMessageLoop(Advance(buf, SizeLength + size), Append(got, PayloadOf(body)))

\* kvarint_decode32(): how it ended, the length of the header and its value.
kvarint_decode32(buf) ==
  LET result(ret, len, size) == [ret |-> ret, len |-> len, size |-> size] IN
  IF buf = <<>> THEN result("short", 0, 0)
  ELSE IF buf[1] < Radix THEN result("ok", 1, buf[1])
  ELSE IF Len(buf) = 1 THEN result("short", 0, 0)
  ELSE IF buf[2] < Radix THEN result("ok", 2, buf[1] - Radix + Radix * buf[2])
  ELSE result("invalid", 0, 0)

\* VerifyCheckSum(): the same of the first size units of the buffer.
VerifyCheckSum(buf, size) ==
  GetCheckSum(SubSeq(buf, 1, size - ChecksumLength)) = buf[size]

\* The handler ProtobufCodec2::SetUpConnection() installs: the size header is taken out
\* before the frame is verified, and the callback takes the payload.
RECURSIVE SetUpConnection(_, _, _)
SetUpConnection(buf, got, bug) ==
  LET h == kvarint_decode32(buf)
      rest == Advance(buf, h.len)
      body == SubSeq(rest, 1, h.size)
      failed == bug \/ Len(buf) <= h.len
  IN  IF h.ret = "invalid" THEN Outcome(buf, got, <<"E_INVALID_MESSAGE">>, bug)
      ELSE IF h.ret = "short" THEN Outcome(buf, got, <<>>, bug)
      ELSE IF h.size < Len(tag_) + ChecksumLength \/ h.size >= MaxLen - h.len
      THEN Outcome(buf, got, <<"E_INVALID_SIZE_HEADER">>, bug)
      ELSE IF Len(rest) < h.size THEN Outcome(buf, got, <<>>, failed)
      ELSE IF ~VerifyCheckSum(rest, h.size)
      THEN Outcome(rest, got, <<"E_INVALID_CHECKSUM">>, failed)
      ELSE IF SubSeq(rest, 1, Len(tag_)) # tag_
      THEN Outcome(rest, got, <<"E_INVALID_MESSAGE">>, failed)
      ELSE SetUpConnection(Advance(rest, h.size), Append(got, PayloadOf(body)), failed)

\* The default error_callback_ shuts the write side down.
error_callback_(err) == shut' = (shut \/ err # <<>>)

\* A piece of the stream arrives in the buffer and the handler runs; a buffer of MaxLen
\* or more is thrown away first.
OnMessage(n) ==
  LET buf == inbuf \o SubSeq(wire, 1, n)
      large == IF codec = "fixed" THEN "kInvalidLength" ELSE "E_INVALID_SIZE_HEADER"
      out == IF Len(buf) >= MaxLen THEN Outcome(<<>>, <<>>, <<large>>, FALSE)
             ELSE IF codec = "fixed" THEN OnMessageLoop(buf, <<>>)
             ELSE SetUpConnection(buf, <<>>, FALSE)
  IN  /\ n <= Len(wire)
      /\ wire' = Advance(wire, n)
      /\ inbuf' = out.buf
      /\ delivered' = delivered \o out.got
      /\ errors' = IF errors = <<>> THEN out.err ELSE errors
      /\ error_callback_(out.err)
      /\ flooded' = (flooded \/ Len(buf) >= MaxLen)
      /\ asserted' = (asserted \/ out.bug)
      /\ UNCHANGED <<codec, sent>>

\* The connection ends; the next one starts with empty buffers.
Reconnect ==
  /\ wire = <<>>
  /\ sent # <<>>
  /\ sent' = <<>>
  /\ inbuf' = <<>>
  /\ delivered' = <<>>
  /\ errors' = <<>>
  /\ shut' = FALSE
  /\ flooded' = FALSE
  /\ asserted' = FALSE
  /\ UNCHANGED <<codec, wire>>

Next ==
  \/ \E kind \in {"good"} \cup Bad, p \in Payloads : Send(kind, p)
  \/ \E n \in 1..MaxRead : OnMessage(n)
  \/ Reconnect

Spec == Init /\ [][Next]_vars

-----------------------------------------------------------------------------
\* A frame that follows the format; ProtobufCodec2 leaves the payload to its callback.
WellFormed(frame) ==
  frame.kind = "good" /\ (codec = "fixed" => ParseFromArray(frame.payload))

\* The frames before the first one that breaks the format.
GoodSent ==
  LET k == CHOOSE j \in 0..Len(sent) :
             /\ \A i \in 1..j : WellFormed(sent[i])
             /\ j < Len(sent) => ~WellFormed(sent[j + 1])
  IN  SubSeq(sent, 1, k)

Encoded(frames) ==
  FlattenSeq([i \in 1..Len(frames) |-> Frame(frames[i].kind, frames[i].payload)])

(* However the stream is cut into reads, and until an error is reported:    *)
(* what was delivered is the sent payloads in order, each once; what is     *)
(* buffered and on its way is exactly the rest of the stream; and a message *)
(* that arrived whole does not wait in the buffer for the next read.  A     *)
(* frame with a wrong size, tag, checksum or payload is never delivered: it *)
(* reports an error and the default callback shuts the write side down.  A  *)
(* stream of good frames reports an error only when a read leaves MaxLen    *)
(* units or more in the buffer, several frames that are thrown away         *)
(* together.                                                                *)
CodecDelivers ==
  LET k == Len(delivered) IN
  /\ errors = <<>> =>
       /\ ~flooded /\ k <= Len(GoodSent)
       /\ delivered = [i \in 1..k |-> sent[i].payload]
       /\ inbuf \o wire = Encoded(SubSeq(sent, k + 1, Len(sent)))
       /\ k < Len(sent) => Len(inbuf) < Len(Frame(sent[k + 1].kind, sent[k + 1].payload))
  /\ errors # <<>> => shut /\ (GoodSent # sent \/ flooded)

(* What protobuf_codec2.cc:93-95 asserts of every header it decodes:        *)
(* "Buffer's readable size must be >= the length of size_header".           *)
HeaderAssertion == ~asserted
=============================================================================
