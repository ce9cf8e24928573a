------------------------------- MODULE ChunkOps -------------------------------
(***************************************************************************)
(* The algorithms of ChunkList (kanon/buffer/chunk_list.h, chunk_list.cc), *)
(* the output buffer of a connection, as operators on the sequence         *)
(* buffers_ of chunks in use.                                              *)
(*                                                                         *)
(* A chunk is [read |-> read_index_, data |-> the readable bytes]; its     *)
(* write_index_ is read + Len(data) and its max_size_ is CHUNK_SIZE.  A    *)
(* byte is any value.                                                      *)
(***************************************************************************)
EXTENDS Integers, Sequences, SequencesExt

CONSTANTS
    CHUNK_SIZE,    \* max_size_ of every chunk
    HEADER         \* sizeof(size_t): the room kept before the first chunk

ASSUME ChunkAssumption ==
    CHUNK_SIZE \in Nat /\ HEADER \in Nat /\ HEADER < CHUNK_SIZE

-----------------------------------------------------------------------------
(* Chunk *)

ChunkWritable(c) == CHUNK_SIZE - (c.read + Len(c.data))

ChunkAppend(c, bytes) == [c EXCEPT !.data = @ \o bytes]

ChunkAdvanceRead(c, n) ==
    [read |-> c.read + n, data |-> SubSeq(c.data, n + 1, Len(c.data))]

\* Prepend() copies in front of read_index_.
ChunkPrepend(c, bytes) == [read |-> c.read - Len(bytes), data |-> bytes \o c.data]

-----------------------------------------------------------------------------
(* ChunkList *)

\* The bytes a reader of the list sees.
Bytes(buffers) == FlattenSeq([i \in DOMAIN buffers |-> buffers[i].data])

\* AddChunk(): a fresh or a reset free chunk; the first one is the header chunk.
AddChunk(buffers) ==
    Append(buffers, [read |-> IF buffers = <<>> THEN HEADER ELSE 0, data |-> <<>>])

\* Append(): fills the last chunk, then new chunks, the first of an empty list
\* behind the header.
AppendBytes(buffers, bytes) ==
    LET room == IF buffers = <<>> THEN 0 ELSE ChunkWritable(Last(buffers))
        header == IF buffers = <<>> THEN HEADER ELSE 0
        \* where the bytes of the i-th new chunk start
        Start(i) == IF i = 1 THEN room ELSE room + (i - 1) * CHUNK_SIZE - header
        Cut(from, to) == SubSeq(bytes, from + 1, Min({to, Len(bytes)}))
        more == Cardinality({i \in DOMAIN bytes : Start(i) < Len(bytes)})
    IN  [i \in DOMAIN buffers |->
           IF i = Len(buffers) THEN ChunkAppend(buffers[i], Cut(0, room)) ELSE buffers[i]]
        \o [i \in 1 .. more |->
              [read |-> IF i = 1 THEN header ELSE 0, data |-> Cut(Start(i), Start(i + 1))]]

\* A slip a programmer might make: the rest is not reduced by a dropped chunk.
AdvanceReadTwice(buffers, n) ==
    LET Step(acc, c) ==
          IF acc.kept = <<>> /\ acc.n >= Len(c.data)
          THEN acc
          ELSE [n |-> 0, kept |-> Append(acc.kept, ChunkAdvanceRead(c, acc.n))]
    IN  FoldLeft(Step, [n |-> n, kept |-> <<>>], buffers).kept

\* AdvanceRead(): chunks read to their end leave buffers_ (PutToFreeChunk), the
\* first one that is not advances its read_index_, the others stay as they are.
AdvanceRead(buffers, n) ==
    LET Step(acc, c) ==
          IF acc.kept = <<>> /\ acc.n >= Len(c.data)
          THEN [acc EXCEPT !.n = @ - Len(c.data)]
          ELSE [n |-> 0, kept |-> Append(acc.kept, ChunkAdvanceRead(c, acc.n))]
    IN  FoldLeft(Step, [n |-> n, kept |-> <<>>], buffers).kept

\* Prepend(): in front of the first chunk, made when there is none.
PrependBytes(buffers, bytes) ==
    LET bs == IF buffers = <<>> THEN AddChunk(buffers) ELSE buffers
    IN  ReplaceAt(bs, 1, ChunkPrepend(Head(bs), bytes))

\* GetReadableSize(): every chunk between the second and the last counts as full.
GetReadableSize(buffers) ==
    CASE buffers = <<>>    -> 0
      [] Len(buffers) = 1  -> Len(buffers[1].data)
      [] Len(buffers) = 2  -> Len(buffers[1].data) + Len(buffers[2].data)
      [] Len(buffers) >= 3 -> Len(buffers[1].data) + Len(buffers[2].data)
                              + (Len(buffers) - 3) * CHUNK_SIZE
                              + Len(Last(buffers).data)

\* HasReadable(): whether there is a chunk.
HasReadable(buffers) == buffers # <<>>
=============================================================================
