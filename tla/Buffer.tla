------------------------------- MODULE Buffer --------------------------------
(***************************************************************************)
(* The contiguous input buffer of a connection: a reserved array with a     *)
(* prepend region of Prefix bytes, a readable and a writable region, filled *)
(* by readv() through a second stack buffer.  Sizes are size_t: they wrap   *)
(* at Wrap.  The ghost `content` is the byte queue the caller sees.         *)
(***************************************************************************)
EXTENDS Integers, Sequences, SequencesExt

CONSTANTS
  Prefix,    \* BUFFER_PREFIX_SIZE
  InitSize,  \* BUFFER_INIT_SIZE
  Extra,     \* sizeof extra_buf in BufferReadFromFd()
  Wrap,      \* 2^(bits of size_t)
  MaxSize,   \* bound: the largest array
  MaxOp,     \* bound: the bytes one call moves
  MayShrink  \* whether the caller uses Shrink(), as the message codecs do

VARIABLES
  data_,         \* the array: a sequence of bytes
  read_index_,
  write_index_,
  oob,           \* ghost: a call wrote outside the array
  risky,         \* ghost: Shrink() was called, or an append after a prepend
  misread,       \* ghost: a call returned other bytes than the queue's first
  content        \* ghost: the bytes put in and not yet taken out

vars == <<data_, read_index_, write_index_, oob, risky, misread, content>>

Lf == 1

Byte == {0, Lf}

Strings(n) == UNION {[1..k -> Byte] : k \in 0..n}

Minus(a, b) == (a - b + Wrap) % Wrap

size == Len(data_)

GetReadableSize == Minus(write_index_, read_index_)

GetWritableSize == Minus(size, write_index_)

\* What the region getters read: n bytes from the read index.
GetReadBegin(n) == SubSeq(data_, read_index_ + 1, read_index_ + n)

ToStringView == SubSeq(data_, read_index_ + 1, write_index_)

\* The integer of a string of bytes in network byte order (Byte has two values).
ToHostByteOrder(s) == FoldLeft(LAMBDA v, b : 2 * v + b, 0, s)

\* std::copy() to position i; bytes past the end of the array are lost (see oob).
CopyTo(d, i, s) ==
  [k \in 1..Len(d) |-> IF k > i /\ k <= i + Len(s) THEN s[k - i] ELSE d[k]]

\* ReservedArray: a larger block keeps the old bytes and default-constructs the rest.
Grow(d, n) == IF n <= Len(d) THEN d ELSE d \o [k \in 1..(n - Len(d)) |-> 0]

ArrayShrink(d, n) == IF n >= Len(d) THEN d ELSE SubSeq(d, 1, n)

-----------------------------------------------------------------------------
(* ReserveWriteSpace(len): a new layout [d, r, w].                          *)

Layout(d, r, w) == [d |-> d, r |-> r, w |-> w]

ReserveWriteSpace(len) ==
  IF len <= GetWritableSize THEN Layout(data_, read_index_, write_index_)
  ELSE IF len > (Minus(read_index_, Prefix) + GetWritableSize) % Wrap
       THEN Layout(Grow(data_, write_index_ + len), read_index_, write_index_)
       ELSE Layout(CopyTo(data_, Prefix, ToStringView), Prefix, Prefix + GetReadableSize)

\* The layout l with s copied behind its write index.
Put(l, s) ==
  /\ data_' = CopyTo(l.d, l.w, s)
  /\ read_index_' = l.r
  /\ write_index_' = l.w + Len(s)
  /\ oob' = (l.w + Len(s) > Len(l.d))

Init ==
  /\ data_ = Grow(<<>>, Prefix + InitSize)
  /\ read_index_ = Prefix
  /\ write_index_ = Prefix
  /\ oob = FALSE
  /\ risky = FALSE
  /\ misread = FALSE
  /\ content = <<>>

\* Append(): the 8 to 64 bit integers are appended as their bytes.
Append_(s) ==
  /\ ~oob
  /\ write_index_ + Len(s) <= MaxSize
  /\ Put(ReserveWriteSpace(Len(s)), s)
  /\ content' = content \o s
  /\ risky' = (risky \/ read_index_ < Prefix)
  /\ UNCHANGED misread

\* Prepend(), under its two assertions.
Prepend(s) ==
  /\ ~oob
  /\ read_index_ >= Prefix /\ Len(s) <= read_index_
  /\ read_index_' = read_index_ - Len(s)
  /\ data_' = CopyTo(data_, read_index_ - Len(s), s)
  /\ oob' = (read_index_ > size)
  /\ content' = s \o content
  /\ UNCHANGED <<write_index_, risky, misread>>

\* AdvanceRead(), under its assertion: all of it is AdvanceAll().
AdvanceRead(n) ==
  /\ ~oob
  /\ n <= GetReadableSize
  /\ read_index_' = IF n = GetReadableSize THEN Prefix ELSE read_index_ + n
  /\ write_index_' = IF n = GetReadableSize THEN Prefix ELSE write_index_
  /\ content' = SubSeq(content, n + 1, Len(content))
  /\ UNCHANGED <<data_, oob, risky>>

\* Read8() to Read64(): the integer at the read index, then an advance over its n bytes.
ReadInt(n) ==
  /\ AdvanceRead(n)
  /\ misread' = (ToHostByteOrder(GetReadBegin(n)) # ToHostByteOrder(SubSeq(content, 1, n)))

\* RetrieveAsString(), RetrieveAsVector() and their All variants.
Retrieve(n) ==
  /\ AdvanceRead(n)
  /\ misread' = (GetReadBegin(n) # SubSeq(content, 1, n))

\* The first line feed of the readable bytes, or -1.
Find(s) ==
  IF \E i \in DOMAIN s : s[i] = Lf
  THEN (CHOOSE i \in DOMAIN s : s[i] = Lf /\ \A j \in 1..(i - 1) : s[j] # Lf) - 1
  ELSE -1

\* FindLf(string&): takes the line out, and leaves its line feed in.
FindLf ==
  /\ ~oob
  /\ Find(ToStringView) >= 0
  /\ Retrieve(Find(ToStringView))

\* AdvanceWrite(): the bytes were written in place.
AdvanceWrite(n) == write_index_' = write_index_ + n

\* BufferReadFromFd(): readv() filled the writable region and then extra_buf.
BufferReadFromFd(s) ==
  LET room == GetWritableSize
      iov == IF room < Extra THEN room + Extra ELSE room
      rest == SubSeq(s, room + 1, Len(s))
      full == CopyTo(data_, write_index_, s)
  IN  /\ ~oob
      /\ Len(s) <= iov
      /\ write_index_ + Len(s) <= MaxSize
      /\ IF Len(s) <= room
         THEN /\ data_' = full
              /\ AdvanceWrite(Len(s))
              /\ oob' = (write_index_ + Len(s) > size)
              /\ UNCHANGED read_index_
         ELSE \* SetWriteIndex(GetCapacity()), then Append(extra_buf, rest)
              LET all == SubSeq(full, read_index_ + 1, size)
                  moved == Len(rest) <= Minus(read_index_, Prefix)
              IN  Put(IF moved THEN Layout(CopyTo(full, Prefix, all), Prefix, Prefix + Len(all))
                      ELSE Layout(Grow(full, size + Len(rest)), read_index_, size),
                      rest)
      /\ content' = content \o s
      /\ risky' = (risky \/ read_index_ < Prefix)
      /\ UNCHANGED misread

\* Shrink(): the codecs call it with nothing readable, so its copy moves nothing; the
\* array shrinks to the readable size without the prefix, and the indices stay.
Shrink ==
  /\ MayShrink
  /\ ~oob
  /\ GetReadableSize = 0
  /\ data_' = ArrayShrink(data_, GetReadableSize)
  /\ risky' = TRUE
  /\ UNCHANGED <<read_index_, write_index_, oob, misread, content>>

\* The connection and its buffer are destroyed; the next connection has a new one.
Renew ==
  /\ data_' = Grow(<<>>, Prefix + InitSize)
  /\ read_index_' = Prefix
  /\ write_index_' = Prefix
  /\ oob' = FALSE
  /\ risky' = FALSE
  /\ misread' = FALSE
  /\ content' = <<>>

Next ==
  \/ \E s \in Strings(MaxOp) : Append_(s) \/ Prepend(s) \/ BufferReadFromFd(s)
  \/ \E n \in 0..MaxSize : Retrieve(n)
  \/ \E n \in 1..MaxOp : ReadInt(n)
  \/ FindLf
  \/ Shrink
  \/ Renew

Spec == Init /\ [][Next]_vars

-----------------------------------------------------------------------------
(* Whatever the order of appends, reads from the socket, prepends and       *)
(* advances, the readable region holds exactly the bytes put in and not yet *)
(* taken out, every read returns the first of them, the three regions stay  *)
(* inside the array, and no call writes past its end, as long as the caller *)
(* prepends last (no append behind a prepended header) and does not call    *)
(* Shrink().                                                                *)
BufferIsByteQueue ==
  ~risky =>
    /\ ~oob /\ ~misread
    /\ read_index_ <= write_index_ /\ write_index_ <= size
    /\ ToStringView = content
=============================================================================
