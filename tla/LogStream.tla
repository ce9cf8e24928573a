------------------------------ MODULE LogStream -------------------------------
(***************************************************************************)
(* One thread's log statements: a macro that compares levels, the Logger    *)
(* object that writes time, thread and level into a fixed buffer, the       *)
(* values the user streams into it, and the destructor that appends the     *)
(* source line and hands the record over.  A value that does not fit is     *)
(* left out.  A character is a digit, or one of Minus, Letter and Newline.  *)
(***************************************************************************)
EXTENDS Integers, Sequences

CONSTANTS
  SZ,                \* bytes of the fixed buffer
  kMaxIntSize,       \* room appendInt() asks for
  kMaxFloatingSize,  \* room appendFloat() asks for, and the longest text it may write
  PtrRoom,           \* room appendPtr() asks for (10)
  PtrDigits,         \* hexadecimal digits of a pointer (16)
  MaxTime,           \* bound: the clock's seconds
  MaxValues          \* bound: values streamed into one record

VARIABLES
  log_level_,    \* the level in force
  level,         \* the record's level, or "none" between two statements
  data_,         \* the record's text: len_ is its length
  want,          \* ghost: the texts of the values that were not left out
  stamp,         \* the second printed in the record, and the second it was begun in
  values,        \* values streamed so far
  now,           \* the clock, in seconds
  t_lastSecond,  \* thread-local cache of the time text: its second
  t_timebuf,     \* and the second it shows
  tight,         \* ghost: a pointer was streamed with less room than its text
  aborted

vars == <<log_level_, level, data_, want, stamp, values, now, t_lastSecond, t_timebuf, tight,
          aborted>>

KANON_LL_TRACE == 0
KANON_LL_INFO == 2
KANON_LL_SYS_ERROR == 5
KANON_LL_FATAL == 6
KANON_LL_SYS_FATAL == 7
KANON_LL_OFF == 9

Levels == {KANON_LL_TRACE, KANON_LL_INFO, KANON_LL_SYS_ERROR, KANON_LL_FATAL, KANON_LL_SYS_FATAL}

Fatal == {KANON_LL_FATAL, KANON_LL_SYS_FATAL}

NoRecord == -1

Minus == 10
Letter == 11
Newline == 12

\* The integers streamed: the ends of a signed char, 0, and one digit more or less.
Ints == {-128, -10, 0, 7, 127}

Text(n) == [i \in 1..n |-> Letter]

-----------------------------------------------------------------------------
(* The conversions.                                                         *)

\* integer % 10 and integer / 10 of C: the quotient is rounded to 0.
Rem(n) == IF n < 0 THEN 0 - ((0 - n) % 10) ELSE n % 10

Quot(n) == IF n < 0 THEN 0 - ((0 - n) \div 10) ELSE n \div 10

Abs(n) == IF n < 0 THEN 0 - n ELSE n

Reversed(s) == [i \in DOMAIN s |-> s[Len(s) + 1 - i]]

\* The do-while loop of int2Str(): digits from the last one on.
RECURSIVE Digits(_)
Digits(n) == <<Abs(Rem(n))>> \o IF Quot(n) = 0 THEN <<>> ELSE Digits(Quot(n))

int2Str(n) == Reversed(Digits(n) \o IF n < 0 THEN <<Minus>> ELSE <<>>)

\* ptrToHexStr() behind "0x": PtrDigits digits whatever the pointer (shown as 0).
ptrToHexStr == [i \in 1..PtrDigits |-> 0]

-----------------------------------------------------------------------------
(* FixedBuffer.                                                             *)

avali == SZ - Len(data_)

\* The values left out change nothing; the others are put behind data_.
Out(fits, text) ==
  /\ data_' = IF fits THEN data_ \o text ELSE data_
  /\ want' = IF fits THEN want \o text ELSE want

\* Append(): strictly less than the room, for the terminating NUL.
Append_(text) == Out(Len(text) < avali, text)

appendInt(n, text) ==
  /\ data_' = IF avali > kMaxIntSize THEN data_ \o int2Str(n) ELSE data_
  /\ want' = IF avali > kMaxIntSize THEN want \o text ELSE want

appendBool(b) == Append_(Text(IF b THEN 4 ELSE 5))

\* snprintf() of "%.12g" into kMaxFloatingSize bytes.
appendFloat(n) == n < kMaxFloatingSize /\ Out(avali > kMaxFloatingSize, Text(n))

appendPtr(null) ==
  /\ IF null /\ avali > 6 THEN Append_(Text(6)) ELSE Out(avali > PtrRoom, Text(2) \o ptrToHexStr)
  /\ tight' = (tight \/ (~(null /\ avali > 6) /\ avali > PtrRoom /\ avali <= PtrDigits + 2))

\* The text of the integer n, by the value of its digits.
RefText(n) ==
  LET size == CHOOSE k \in 1..5 : Abs(n) < 10 ^ k /\ (k > 1 => Abs(n) >= 10 ^ (k - 1))
  IN  (IF n < 0 THEN <<Minus>> ELSE <<>>)
      \o [i \in 1..size |-> (Abs(n) \div (10 ^ (size - i))) % 10]

-----------------------------------------------------------------------------
Init ==
  /\ log_level_ \in Levels \cup {KANON_LL_OFF}
  /\ level = NoRecord
  /\ data_ = <<>> /\ want = <<>> /\ stamp = <<0, 0>> /\ values = 0
  /\ now \in 1..MaxTime
  /\ t_lastSecond = 0 /\ t_timebuf = 0
  /\ tight = FALSE /\ aborted = FALSE

\* A slip a programmer might make: the text is not made anew when the second changes.
FormatTime_stale ==
  /\ t_lastSecond' = now
  /\ t_timebuf' = IF t_timebuf = 0 THEN now ELSE t_timebuf
  /\ stamp' = <<t_timebuf', now>>

\* FormatTime(): the text of the second is cached per thread.
FormatTime ==
  IF now # t_lastSecond
  THEN t_lastSecond' = now /\ t_timebuf' = now /\ stamp' = <<now, now>>
  ELSE stamp' = <<t_timebuf, now>> /\ UNCHANGED <<t_lastSecond, t_timebuf>>

\* LOG_TRACE to LOG_SYSFATAL: the macros of the fatal levels do not ask for the level in force.
Enabled(l) == log_level_ <= l \/ l \in Fatal

\* What the constructor for LOG_SYSERROR and LOG_SYSFATAL adds: the text of errno, or whatever
\* error_buf holds when errno is 0.
SysText(l) ==
  IF l \in {KANON_LL_SYS_ERROR, KANON_LL_SYS_FATAL} THEN {Text(n) : n \in 0..2} ELSE {<<>>}

\* The constructor of Logger.
Log(l) ==
  /\ level = NoRecord /\ ~aborted
  /\ Enabled(l)
  /\ level' = l
  /\ FormatTime
  /\ \E text \in SysText(l) : data_' = Text(1) \o text /\ want' = Text(1) \o text
  /\ values' = 0
  /\ tight' = FALSE
  /\ UNCHANGED <<log_level_, now, aborted>>

\* operator<< of a value.
Stream ==
  /\ level # NoRecord /\ ~aborted
  /\ values < MaxValues
  /\ values' = values + 1
  /\ \/ \E n \in 0..5 : Append_(Text(n)) /\ UNCHANGED tight
     \/ \E n \in Ints : appendInt(n, RefText(n)) /\ UNCHANGED tight
     \/ \E b \in BOOLEAN : appendBool(b) /\ UNCHANGED tight
     \/ \E n \in 1..3 : appendFloat(n) /\ UNCHANGED tight
     \/ \E null \in BOOLEAN : appendPtr(null)
  /\ UNCHANGED <<log_level_, level, stamp, now, t_lastSecond, t_timebuf, aborted>>

\* The destructor streams " - ", the file, ":", the line and "\n", any of which may be left out,
\* and calls output_callback_; a fatal record is flushed and aborts the program.
Fit(d, room, text) == IF room < SZ - Len(d) THEN d \o text ELSE d

SourceLine(d, line) ==
  LET file == Fit(Fit(Fit(d, 1, Text(1)), 1, Text(1)), 1, Text(1))
  IN  Fit(Fit(file, kMaxIntSize, line), 1, <<Newline>>)

Done ==
  /\ level # NoRecord /\ ~aborted
  /\ data_' = SourceLine(data_, int2Str(7))
  /\ want' = SourceLine(want, RefText(7))
  /\ level' = NoRecord
  /\ aborted' = (level \in Fatal)
  /\ UNCHANGED <<log_level_, stamp, values, now, t_lastSecond, t_timebuf, tight>>

SetLogLevel(l) ==
  /\ level = NoRecord /\ ~aborted
  /\ log_level_' = l
  /\ UNCHANGED <<level, data_, want, stamp, values, now, t_lastSecond, t_timebuf, tight, aborted>>

\* The clock goes on, or is set back.
Clock ==
  /\ level = NoRecord /\ ~aborted
  /\ now' \in 1..MaxTime
  /\ UNCHANGED <<log_level_, level, data_, want, stamp, values, t_lastSecond, t_timebuf, tight,
                 aborted>>

Next ==
  \/ \E l \in Levels : Log(l)
  \/ Stream
  \/ Done
  \/ \E l \in Levels \cup {KANON_LL_OFF} : SetLogLevel(l)
  \/ Clock

Spec == Init /\ [][Next]_vars

-----------------------------------------------------------------------------
(* A record is always sound: it shows the second it was begun in, whatever  *)
(* the cache of the thread holds and even when the clock was set back; it   *)
(* consists of the whole texts of the values that fitted, integers with     *)
(* their sign and digits; and it and its NUL stay inside the buffer, unless *)
(* a pointer was streamed with more than 10 but less than 19 bytes left,    *)
(* which appendPtr() takes for enough.                                      *)
RecordSound ==
  /\ stamp[1] = stamp[2]
  /\ data_ = want
  /\ ~tight => Len(data_) < SZ
=============================================================================
