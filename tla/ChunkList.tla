------------------------------ MODULE ChunkList ------------------------------
(***************************************************************************)
(* A ChunkList (kanon/buffer/chunk_list.h, chunk_list.cc) under any        *)
(* sequence of calls, beside the byte sequence it stands for.  It is owned *)
(* by one thread, so a call is one step.                                   *)
(***************************************************************************)
EXTENDS ChunkOps, FiniteSetsExt

CONSTANTS
    MaxBytes,      \* bytes ever put into the list
    MaxReserve     \* free chunks Shrink() and ReserveFreeChunk() are asked for

ASSUME BoundAssumption == MaxBytes \in Nat /\ MaxReserve \in Nat

VARIABLES
    buffers_,      \* the chunks in use
    free_,         \* the number of chunks in free_buffers_
    content,       \* the bytes appended or prepended and not yet read
    put            \* how many bytes have been put into the list

vars == <<buffers_, free_, content, put>>

Less(a, b) == IF b < a THEN a - b ELSE 0

\* The next n bytes a caller hands over, all different.
Fresh(n) == [i \in 1 .. n |-> put + i]

Init ==
    /\ buffers_ = <<>>
    /\ free_ = 0
    /\ content = <<>>
    /\ put = 0

\* Append(): AddChunk() takes its chunks from free_buffers_ while there are any.
DoAppend(n) ==
    /\ n > 0 /\ put + n <= MaxBytes
    /\ buffers_' = AppendBytes(buffers_, Fresh(n))
    /\ free_' = Less(free_, Len(buffers_') - Len(buffers_))
    /\ content' = content \o Fresh(n)
    /\ put' = put + n

\* Prepend(), where its assertions on the first chunk hold.
DoPrepend(n) ==
    /\ n \in 1 .. HEADER /\ put + n <= MaxBytes
    /\ HasReadable(buffers_) => Head(buffers_).read >= HEADER
    /\ buffers_' = PrependBytes(buffers_, Fresh(n))
    /\ free_' = Less(free_, Len(buffers_') - Len(buffers_))
    /\ content' = Fresh(n) \o content
    /\ put' = put + n

\* GetReadBegin##size(): the integer is taken from the first chunk, which its assertion
\* wants to hold all n bytes of it; here the bytes stand for the integer.
InFirstChunk(n) == HasReadable(buffers_) /\ Len(Head(buffers_).data) >= n

GetReadBegin(n) == SubSeq(Head(buffers_).data, 1, n)

\* AdvanceRead(), Read##size() and AdvanceReadAll(): chunks left behind are free.
DoAdvanceRead(n) ==
    /\ n \in 1 .. Len(content)
    /\ buffers_' = AdvanceRead(buffers_, n)
    /\ free_' = free_ + (Len(buffers_) - Len(buffers_'))
    /\ content' = SubSeq(content, n + 1, Len(content))
    /\ UNCHANGED put

\* Shrink(): only chunks of free_buffers_ are released.
Shrink(n) ==
    /\ n < free_
    /\ free_' = n
    /\ UNCHANGED <<buffers_, content, put>>

ReserveFreeChunk(n) ==
    /\ n > free_
    /\ free_' = n
    /\ UNCHANGED <<buffers_, content, put>>

\* ReserveWriteSpace(): how many free chunks it asks for; 0 when the chunks in
\* use have the room.
FreeChunksFor(bs, size) ==
    LET rest == Less(size, MapThenSumSet(LAMBDA i : ChunkWritable(bs[i]), DOMAIN bs))
    IN  (rest + CHUNK_SIZE - 1) \div CHUNK_SIZE

ReserveWriteSpace(size) == ReserveFreeChunk(FreeChunksFor(buffers_, size))

Next ==
    \/ \E n \in 1 .. MaxBytes :
          DoAppend(n) \/ DoPrepend(n) \/ DoAdvanceRead(n) \/ ReserveWriteSpace(n)
    \/ \E n \in 0 .. MaxReserve : Shrink(n) \/ ReserveFreeChunk(n)

Spec == Init /\ [][Next]_vars

-----------------------------------------------------------------------------

\* The indices of every chunk are in range: the assertions of Chunk::AdvanceRead,
\* AdvanceWrite, Append and Prepend.
TypeOK ==
    /\ \A i \in DOMAIN buffers_ :
         /\ buffers_[i].read \in 0 .. CHUNK_SIZE
         /\ ChunkWritable(buffers_[i]) \in 0 .. CHUNK_SIZE
    /\ free_ \in Nat
    /\ put \in 0 .. MaxBytes

\* The list is a byte queue: read in order it holds exactly the bytes appended
\* and prepended and not yet read, whatever chunk boundaries they crossed.
\* GetReadableSize() is exact although it takes every chunk between the second and
\* the last for full, and HasReadable(), which only asks whether there is a chunk,
\* says whether there is a byte: the connection decides by it what is left to write.
\* An integer read where GetReadBegin##size() allows it is made of the next bytes of
\* the queue (one that straddles two chunks fails its assertion).
IsByteQueue ==
    /\ Bytes(buffers_) = content
    /\ GetReadableSize(buffers_) = Len(content)
    /\ HasReadable(buffers_) <=> content # <<>>
    /\ \A n \in 1 .. CHUNK_SIZE : InFirstChunk(n) => GetReadBegin(n) = SubSeq(content, 1, n)

\* After ReserveWriteSpace(n) on a list in use an Append of n bytes finds its chunks in
\* free_buffers_: it allocates nothing.
ReservedSpaceSuffices ==
    HasReadable(buffers_) =>
        \A n \in 1 .. MaxBytes :
            Len(AppendBytes(buffers_, Fresh(n))) - Len(buffers_)
              <= IF FreeChunksFor(buffers_, n) > free_
                 THEN FreeChunksFor(buffers_, n) ELSE free_
=============================================================================
