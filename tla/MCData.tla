------------------------------- MODULE MCData --------------------------------
(***************************************************************************)
(* Model checking of the data structures and of the parts whose properties *)
(* are about states only: ChunkList (extended, so that its assumptions are *)
(* evaluated), Buffer, ReservedArray, ForwardList, the two memory pools,   *)
(* the Any types, StringView, FmtStream, InetAddr, the protobuf codecs,    *)
(* LogStream, LogFile and the two demultiplexers.  As in MCRuntime an      *)
(* initial state picks the part that runs and the others keep one initial  *)
(* state.                                                                  *)
(***************************************************************************)
EXTENDS ChunkList

CONSTANTS Null, Nodes, Arrays, Blocks, Loops, Base, Anys, Uniques, Raws, Addrs

VARIABLES
    part,
    data_, read_index_, write_index_, oob, risky, misread, buffer_content,
    arr, array_heap, array_want, array_fault,
    mem, seqs,
    pool_use, status, next, free_chunk_header_, block_chain_, pool_pc, header, held,
    blocks, gone, broken,
    pool_, size_, free_hset_, live, system, lost,
    any_heap, holder_, any_want, wrong,
    in,
    stream_, expected, calls, fmt_tight, stopped, mismatch,
    text,
    codec, sent, wire, inbuf, delivered, errors, shut, flooded, codec_asserted,
    log_level_, level, log_data, log_want, stamp, values, log_now, t_lastSecond,
    t_timebuf, tight, aborted,
    now, file_, writtenBytes_, unflushed, start_of_period_, last_roll_, last_flush_,
    log_files_, log_files_dup_, writer, remover_pc, names, quit_remove_thr_, disk, opened,
    pollfds_, mapped, events_, index_, active, failed,
    table, interest, index, size, ready, fatal, asserted

bufferVars == <<data_, read_index_, write_index_, oob, risky, misread, buffer_content>>
arrayVars == <<arr, array_heap, array_want, array_fault>>
listVars == <<mem, seqs>>
poolVars == <<pool_use, status, next, free_chunk_header_, block_chain_, pool_pc, header,
              held, blocks, gone, broken>>
linearVars == <<pool_, size_, free_hset_, live, system, lost>>
anyVars == <<any_heap, holder_, any_want, wrong>>
fmtVars == <<stream_, expected, calls, fmt_tight, stopped, mismatch>>
codecVars == <<codec, sent, wire, inbuf, delivered, errors, shut, flooded, codec_asserted>>
streamVars == <<log_level_, level, log_data, log_want, stamp, values, log_now,
                t_lastSecond, t_timebuf, tight, aborted>>
fileVars == <<now, file_, writtenBytes_, unflushed, start_of_period_, last_roll_,
              last_flush_, log_files_, log_files_dup_, writer, remover_pc, names,
              quit_remove_thr_, disk, opened>>
pollVars == <<pollfds_, mapped, events_, index_, active, failed>>
epollVars == <<table, interest, index, size, ready, fatal, asserted>>
dataVars == <<part, vars, bufferVars, arrayVars, listVars, poolVars, linearVars, anyVars,
              in, fmtVars, text, codecVars, streamVars, fileVars, pollVars, epollVars>>

Flat == INSTANCE Buffer WITH content <- buffer_content,
    Prefix <- 2, InitSize <- 2, Extra <- 3, Wrap <- 64, MaxSize <- 8, MaxOp <- 3,
    MayShrink <- TRUE
Array == INSTANCE ReservedArray WITH heap <- array_heap, want <- array_want, MaxN <- 2
List == INSTANCE ForwardList WITH Vals <- {1, 2, 3}
Pool == INSTANCE MemoryPool WITH Threads <- Loops, use <- pool_use, pc <- pool_pc,
    PerBlock <- 2, MaxBlocks <- 3, PoolUses <- {"alone", "shrink"}
Linear == INSTANCE LinearPool WITH MaxAddr <- 6, MaxSize <- 3
Anything == INSTANCE AnyHolder WITH heap <- any_heap, want <- any_want,
    Types <- {"int", "string"}
View == INSTANCE StringView WITH MaxLen <- 4, MaxPattern <- 2
Format == INSTANCE FmtStream WITH tight <- fmt_tight,
    SZ <- 16, kMaxIntSize <- 3, kMaxFloatingSize <- 4, PtrRoom <- 7, PtrDigits <- 7,
    MaxFmt <- 4, MaxArgs <- 2, MaxCalls <- 2
Address == INSTANCE InetAddr WITH Byte <- 4, U32Mod <- 32, ULongMod <- 64, BufSize <- 4,
    MaxHead <- 3, MaxTail <- 2
Codec == INSTANCE PbCodec WITH asserted <- codec_asserted,
    ChunkSize <- 2, MaxLen <- 9, MaxRead <- 5, MaxMsgs <- 3, Bad <- {"tag", "sum", "size"}
Record == INSTANCE LogStream WITH data_ <- log_data, want <- log_want, now <- log_now,
    SZ <- 24, kMaxIntSize <- 6, kMaxFloatingSize <- 8, PtrRoom <- 10, PtrDigits <- 16,
    MaxTime <- 2, MaxValues <- 3
Files == INSTANCE LogFile WITH pc <- remover_pc,
    roll_size_ <- 2, roll_interval_ <- 3, flush_interval_ <- 1, log_file_num_ <- 3,
    MaxTime <- 6
Poll == INSTANCE Poller WITH Fds <- {3, 4, 5}, Events <- {"read", "write"}
Epoll == INSTANCE Epoller WITH Fds <- {3, 4, 5}, Events <- {"read", "write"},
    kEventInitNums <- 1, MaxSize <- 4

Parts == {"chunks", "buffer", "array", "list", "pool", "linear", "any", "view", "format",
          "address", "codec", "record", "files", "poll", "epoll"}

DataInit ==
    /\ part \in Parts
    /\ Init
    /\ Flat!Init /\ Array!Init /\ List!Init
    /\ Pool!Init /\ (part # "pool" => pool_use = "alone")
    /\ Linear!Init /\ (part # "linear" => size_ = 1)
    /\ Anything!Init
    /\ IF part = "view" THEN View!Init ELSE in = [s |-> <<>>, v |-> <<>>, pos |-> 0]
    /\ Format!Init
    /\ IF part = "address" THEN Address!Init ELSE text = <<>>
    /\ Codec!Init /\ (part # "codec" => codec = "fixed")
    /\ Record!Init /\ (part # "record" => log_level_ = 0 /\ log_now = 1)
    /\ Files!Init /\ Poll!Init /\ Epoll!Init

\* Only the part p moves.
Only(p) ==
    /\ part = p /\ UNCHANGED part
    /\ p = "chunks" \/ (p # "chunks" /\ UNCHANGED vars)
    /\ p = "buffer" \/ (p # "buffer" /\ UNCHANGED bufferVars)
    /\ p = "array" \/ (p # "array" /\ UNCHANGED arrayVars)
    /\ p = "list" \/ (p # "list" /\ UNCHANGED listVars)
    /\ p = "pool" \/ (p # "pool" /\ UNCHANGED poolVars)
    /\ p = "linear" \/ (p # "linear" /\ UNCHANGED linearVars)
    /\ p = "any" \/ (p # "any" /\ UNCHANGED anyVars)
    /\ p = "view" \/ (p # "view" /\ UNCHANGED in)
    /\ p = "format" \/ (p # "format" /\ UNCHANGED fmtVars)
    /\ p = "address" \/ (p # "address" /\ UNCHANGED text)
    /\ p = "codec" \/ (p # "codec" /\ UNCHANGED codecVars)
    /\ p = "record" \/ (p # "record" /\ UNCHANGED streamVars)
    /\ p = "files" \/ (p # "files" /\ UNCHANGED fileVars)
    /\ p = "poll" \/ (p # "poll" /\ UNCHANGED pollVars)
    /\ p = "epoll" \/ (p # "epoll" /\ UNCHANGED epollVars)

DataNext ==
    \/ Only("chunks") /\ Next
    \/ Only("buffer") /\ Flat!Next
    \/ Only("array") /\ Array!Next
    \/ Only("list") /\ List!Next
    \/ Only("pool") /\ Pool!Next
    \/ Only("linear") /\ Linear!Next
    \/ Only("any") /\ Anything!Next
    \/ Only("view") /\ View!Next
    \/ Only("format") /\ Format!Next
    \/ Only("address") /\ Address!Next
    \/ Only("codec") /\ Codec!Next
    \/ Only("record") /\ Record!Next
    \/ Only("files") /\ Files!Next
    \/ Only("poll") /\ Poll!Next
    \/ Only("epoll") /\ Epoll!Next

DataSpec == DataInit /\ [][DataNext]_dataVars

-----------------------------------------------------------------------------
\* What is asked of the part p: the parts that do not run stay as they began.
Of(p, P) == part = p => P

(* ChunkList and Buffer: whatever was appended, prepended, reserved, read   *)
(* and shrunk, in whatever order, the readable bytes are the ones put in    *)
(* and not yet read, in order, and the sizes the callers decide by are      *)
(* exact; space reserved in a ChunkList suffices for what it is asked for.  *)
BuffersAreByteQueues ==
    /\ Of("chunks", IsByteQueue /\ ReservedSpaceSuffices)
    /\ Of("buffer", Flat!BufferIsByteQueue)

(* Every block of ReservedArray, chunk of a memory pool and object of the   *)
(* Any types has one owner, and no owner is left with one given back or     *)
(* shared, whatever copies, moves, failed allocations and Shrink() calls    *)
(* came before.                                                             *)
MemoryOwned ==
    /\ Of("array", Array!ArraysOwnBlocks) /\ Of("pool", Pool!PoolSound)
    /\ Of("linear", Linear!LinearSound) /\ Of("any", Anything!HoldersOwned)

(* ForwardList with its cached tail and count is the sequence its           *)
(* operations describe, also after splices, extractions, swaps and moves.   *)
ListsAreSequences == Of("list", List!ListsAreSequences)

(* StringView's searches but find_last_of(), split() and orders agree with  *)
(* their definitions, StrAppend() appends in order, FmtStream writes what   *)
(* its formats describe, and InetAddr reads the addresses it and others     *)
(* print, from their parts those without dots in an IPv6 address.           *)
TextExact ==
    /\ Of("view", View!SearchesFind /\ View!SplitAndCompare /\ View!AppendsInOrder)
    /\ Of("format", Format!FormatsExact)
    /\ Of("address", Address!PrintedAddressesRead /\ Address!AddressesRead)

(* The protobuf codecs deliver the messages sent, once and in order,        *)
(* however the stream is cut, and never one that is malformed.              *)
CodecDelivers == Of("codec", Codec!CodecDelivers)

(* A log record has the time of its statement and the whole values that fit *)
(* into its buffer.                                                         *)
RecordSound == Of("record", Record!RecordSound)

(* LogFile: the file being written is never removed and no name used twice. *)
OpenFileKept == Of("files", Files!OpenFileKept)

(* Poller's array and index_, and Epoller's index_ and the kernel's table,  *)
(* describe each other through all updates and removals.                    *)
DemultiplexersSound ==
    /\ Of("poll", Poll!IndexExact /\ Poll!UpdateWorks)
    /\ Of("epoll", Epoll!EpollConsistent)

(* The Poller and the Epoller implement the Demultiplexer: UpdateChannel()  *)
(* and RemoveChannel() change what the kernel is asked for on the fd of     *)
(* that channel, to what it wants, and on no other; Poll() reports only     *)
(* fds that are watched; neither fails without a channel that wants nothing. *)
DemuxSpec == Poll!DemuxSpec /\ Epoll!DemuxSpec
=============================================================================
