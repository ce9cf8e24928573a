------------------------------ MODULE FmtStream ------------------------------
(***************************************************************************)
(* FmtStream: Serialize(fmt, args...) parses the format from the left,      *)
(* copies its text into a FixedBuffer, writes % for %% and the next         *)
(* argument for every other %.  A piece that does not fit is dropped by the *)
(* buffer.  Characters are small numbers.  An argument is an integer or a   *)
(* float, which ask for more room than they need, a pointer, which may ask  *)
(* for less (a C string is one: the overload for void const* is the better  *)
(* match), a bool, or a text with a length.                                 *)
(***************************************************************************)
EXTENDS Integers, Sequences, SequencesExt, FiniteSetsExt

CONSTANTS
  SZ,           \* the size of the buffer
  kMaxIntSize,  \* the room appendInt() asks for
  kMaxFloatingSize,  \* and appendFloat()
  PtrRoom,      \* and appendPtr() (10)
  PtrDigits,    \* hexadecimal digits of a pointer (16)
  MaxFmt,       \* bound: the length of a format
  MaxArgs,      \* bound: the arguments of a call
  MaxCalls      \* bound: the calls between two Reset()

VARIABLES
  stream_,   \* the contents of the buffer
  expected,  \* history: what the calls describe, until one comes close to the end
  calls,     \* history: the calls since the last Reset()
  tight,     \* history: a call came close to the end of the buffer
  stopped,   \* the assertion that failed: "arguments" in the parser, "room" in
             \* AdvanceRead(), or "no"
  mismatch   \* history: a call had too few or too many arguments

fmtVars == <<stream_, expected, calls, tight, stopped, mismatch>>

Percent == 0
Plain == 1

Formats == UNION {[1..n -> {Percent, Plain}] : n \in 0..MaxFmt}

Text(n, char) == [i \in 1..n |-> char]

Arguments ==
  {[kind |-> "int", text |-> Text(2, 2)],
   [kind |-> "float", text |-> Text(3, 3)],
   [kind |-> "ptr", text |-> Text(PtrDigits + 2, 4)],
   [kind |-> "null", text |-> Text(6, 5)],
   [kind |-> "bool", text |-> Text(4, 6)],
   [kind |-> "text", text |-> Text(1, 7)]}

ArgLists == UNION {[1..n -> Arguments] : n \in 0..MaxArgs}

avali(stream) == SZ - Len(stream)

Append_(stream, str) == IF Len(str) < avali(stream) THEN stream \o str ELSE stream

appendInt(stream, str) == IF avali(stream) > kMaxIntSize THEN stream \o str ELSE stream

appendFloat(stream, str) ==
  IF avali(stream) > kMaxFloatingSize THEN stream \o str ELSE stream

\* "(null)", or the digits, which need more room than is asked for.
appendPtr(stream, null, str) ==
  IF avali(stream) > IF null THEN Len(str) ELSE PtrRoom THEN stream \o str ELSE stream

\* The overloads; appendBool(), appendChar() and the texts are Append().
SerializeOne(stream, arg) ==
  CASE arg.kind = "int" -> appendInt(stream, arg.text)
    [] arg.kind = "float" -> appendFloat(stream, arg.text)
    [] arg.kind \in {"ptr", "null"} -> appendPtr(stream, arg.kind = "null", arg.text)
    [] OTHER -> Append_(stream, arg.text)

\* find('%'), 0-based; the length of the format stands for npos.
FindPercent(fmt) ==
  IF \E i \in DOMAIN fmt : fmt[i] = Percent
  THEN Min({i \in DOMAIN fmt : fmt[i] = Percent}) - 1 ELSE Len(fmt)

\* fmt[pos + 1] = '%'; past the end of the literal is its NUL.
Doubled(fmt, pos) == pos + 2 <= Len(fmt) /\ fmt[pos + 2] = Percent

Result(stream, stop) == [stream |-> stream, stop |-> stop]

\* ParseAndSerialize(fmt) without arguments: every % must be doubled.
RECURSIVE ParseRest(_, _)
ParseRest(stream, fmt) ==
  LET pos == FindPercent(fmt)
  IN  IF pos = Len(fmt) THEN Result(Append_(stream, fmt), "no")
      ELSE IF ~Doubled(fmt, pos) THEN Result(stream, "arguments")
      ELSE ParseRest(Append_(stream, SubSeq(fmt, 1, pos + 1)), SubSeq(fmt, pos + 3, Len(fmt)))

\* ParseAndSerialize(fmt, args...).
RECURSIVE ParseAndSerialize(_, _, _)
ParseAndSerialize(stream, fmt, args) ==
  LET pos == FindPercent(fmt)
      copied == Append_(stream, SubSeq(fmt, 1, pos))
      one == SerializeOne(copied, Head(args))
  IN  IF args = <<>> THEN ParseRest(stream, fmt)
      ELSE IF pos = Len(fmt) THEN Result(copied, "arguments")
      ELSE IF Doubled(fmt, pos)
           THEN ParseAndSerialize(Append_(copied, <<Percent>>), SubSeq(fmt, pos + 3, Len(fmt)), args)
      ELSE IF Len(one) >= SZ THEN Result(one, "room")
      ELSE ParseAndSerialize(one, SubSeq(fmt, pos + 2, Len(fmt)), Tail(args))

-----------------------------------------------------------------------------
(* What a format means, told position by position: a % is the second of a  *)
(* pair when an odd number of % stands directly before it.                  *)

Before(fmt, i) == Max({k \in 0..(i - 1) : \A j \in (i - k)..(i - 1) : fmt[j] = Percent})

Second(fmt, i) == fmt[i] = Percent /\ Before(fmt, i) % 2 = 1

First(fmt, i) == i < Len(fmt) /\ fmt[i] = Percent /\ ~Second(fmt, i) /\ fmt[i + 1] = Percent

Placeholders(fmt) ==
  {i \in DOMAIN fmt : fmt[i] = Percent /\ ~Second(fmt, i) /\ ~First(fmt, i)}

Rendered(fmt, args) ==
  FlattenSeq([i \in DOMAIN fmt |->
    IF First(fmt, i) THEN <<>>
    ELSE IF i \in Placeholders(fmt)
         THEN args[Cardinality({j \in Placeholders(fmt) : j <= i})].text
    ELSE <<fmt[i]>>])

Matches(fmt, args) == Cardinality(Placeholders(fmt)) = Len(args)

-----------------------------------------------------------------------------
Init ==
  /\ stream_ = <<>> /\ expected = <<>> /\ calls = 0
  /\ tight = FALSE /\ stopped = "no" /\ mismatch = FALSE

\* The most room an argument may ask for.
MaxRoom == Max({kMaxIntSize, kMaxFloatingSize, PtrRoom, PtrDigits + 2, 6})

\* Serialize(fmt, args...) and the constructor, which is its first call.
Serialize(fmt, args) ==
  LET result == ParseAndSerialize(stream_, fmt, args)
      near == Len(stream_) + Len(Rendered(fmt, args)) + MaxRoom >= SZ
  IN  /\ stopped = "no" /\ calls < MaxCalls
      /\ stream_' = result.stream
      /\ stopped' = result.stop
      /\ calls' = calls + 1
      /\ mismatch' = ~Matches(fmt, args)
      /\ IF Matches(fmt, args)
         THEN /\ tight' = (tight \/ near)
              /\ expected' = IF tight' THEN <<>> ELSE expected \o Rendered(fmt, args)
         ELSE UNCHANGED <<expected, tight>>

Reset ==
  /\ stopped = "no"
  /\ stream_' = <<>> /\ expected' = <<>> /\ calls' = 0 /\ tight' = FALSE
  /\ UNCHANGED <<stopped, mismatch>>

Next ==
  \/ \E fmt \in Formats, args \in ArgLists : Serialize(fmt, args)
  \/ Reset

Spec == Init /\ [][Next]_fmtVars

(* The stream holds what its calls describe, whatever mixture of %%, % and  *)
(* text the formats are, as long as it did not come near the end of the     *)
(* buffer; it never fills the buffer, whose last byte is the NUL; and the   *)
(* assertions of the parser fail exactly for a call whose arguments are not *)
(* as many as the placeholders of its format.  Only appendPtr() can write   *)
(* past the end, where the assertion of AdvanceRead() stops the program:    *)
(* with more room than it asks for and less than it needs.                  *)
FormatsExact ==
  /\ stopped # "room" => Len(stream_) < SZ /\ (stopped = "arguments" <=> mismatch)
  /\ stopped = "room" => Len(stream_) \in SZ .. (SZ + PtrDigits + 1 - PtrRoom)
  /\ ~tight /\ stopped = "no" => stream_ = expected
=============================================================================
