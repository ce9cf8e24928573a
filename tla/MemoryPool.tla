----------------------------- MODULE MemoryPool ------------------------------
(***************************************************************************)
(* FixedChunkMemoryPool: blocks of PerBlock equal chunks, a chain of blocks *)
(* and a free list threaded through the chunks.  It is what the allocator   *)
(* of a TcpServer with EnablePool(true) hands out connections from:         *)
(* allocated on the base loop's thread, deallocated on the thread that      *)
(* drops the last reference.  The pool has no lock, so one call is several  *)
(* steps; `use` says whether the threads' calls may overlap.                *)
(***************************************************************************)
EXTENDS Integers, Sequences, FiniteSets

CONSTANTS
  Threads,    \* the loops' threads
  Base,       \* the one among them that accepts connections
  Null,
  PerBlock,   \* chunk_per_block_
  MaxBlocks,  \* bound: the blocks malloc() ever returns
  PoolUses    \* which of "alone", "shrink", "shared" are explored

VARIABLES
  use,
  status,             \* of every chunk
  next,
  free_chunk_header_,
  block_chain_,       \* the blocks, newest first
  pc, header,         \* where a thread is inside a call, and the chunk it is about
  held,               \* ghost: how many connections live in a chunk
  blocks,             \* ghost: the blocks malloc() ever returned
  gone,               \* ghost: the blocks given back with free()
  broken              \* ghost: Shrink() dereferenced null or left a dangling free list

vars == <<use, status, next, free_chunk_header_, block_chain_, pc, header, held,
          blocks, gone, broken>>

Chunk == (1..MaxBlocks) \X (1..PerBlock)

Init ==
  /\ use \in PoolUses
  /\ status = [c \in Chunk |-> "none"]
  /\ next = [c \in Chunk |-> Null]
  /\ free_chunk_header_ = Null
  /\ block_chain_ = <<>>
  /\ pc = [t \in Threads |-> "idle"]
  /\ header = [t \in Threads |-> Null]
  /\ held = [c \in Chunk |-> 0]
  /\ blocks = 0
  /\ gone = {}
  /\ broken = FALSE

\* Only the shared use lets a call start while another thread is inside one.
MayStart(t) ==
  /\ ~broken
  /\ pc[t] = "idle"
  /\ use # "shared" => \A u \in Threads : pc[u] = "idle"

AllocBlock ==
  LET b == blocks + 1 IN
  /\ blocks < MaxBlocks
  /\ blocks' = b
  /\ block_chain_' = <<b>> \o block_chain_
  /\ free_chunk_header_' = <<b, 1>>
  /\ status' = [c \in Chunk |-> IF c[1] = b THEN "FREE" ELSE status[c]]
  /\ next' = [c \in Chunk |->
               IF c[1] = b THEN IF c[2] < PerBlock THEN <<b, c[2] + 1>> ELSE Null
               ELSE next[c]]

\* Malloc() on the base loop, first half: read the header of the free list, or make a block.
Malloc(t) ==
  /\ t = Base
  /\ MayStart(t)
  /\ IF free_chunk_header_ = Null
     THEN /\ AllocBlock
          /\ header' = [header EXCEPT ![t] = <<blocks + 1, 1>>]
     ELSE /\ header' = [header EXCEPT ![t] = free_chunk_header_]
          /\ UNCHANGED <<status, next, free_chunk_header_, block_chain_, blocks>>
  /\ pc' = [pc EXCEPT ![t] = "take"]
  /\ UNCHANGED <<use, held, gone, broken>>

\* malloc() of a block fails: Malloc() returns null.
MallocFails(t) ==
  /\ t = Base
  /\ MayStart(t)
  /\ free_chunk_header_ = Null
  /\ UNCHANGED vars

\* Malloc(), second half: free_chunk_header_ is read again, then the chunk returned and
\* an object constructed over its link.
MallocTake(t) ==
  /\ pc[t] = "take"
  /\ IF free_chunk_header_ = Null
     THEN broken' = TRUE /\ UNCHANGED free_chunk_header_
     ELSE free_chunk_header_' = next[free_chunk_header_] /\ UNCHANGED broken
  /\ next' = [next EXCEPT ![header[t]] = Null]
  /\ status' = [status EXCEPT ![header[t]] = "ALLOCATED"]
  /\ held' = [held EXCEPT ![header[t]] = @ + 1]
  /\ pc' = [pc EXCEPT ![t] = "idle"]
  /\ header' = [header EXCEPT ![t] = Null]
  /\ UNCHANGED <<use, block_chain_, blocks, gone>>

\* Free() where the last reference to a connection is dropped, first half: the
\* assertion, the status and the link to the header.
Free(t, c) ==
  /\ MayStart(t)
  /\ held[c] > 0
  /\ status[c] = "ALLOCATED"
  /\ status' = [status EXCEPT ![c] = "FREE"]
  /\ next' = [next EXCEPT ![c] = free_chunk_header_]
  /\ held' = [held EXCEPT ![c] = @ - 1]
  /\ pc' = [pc EXCEPT ![t] = "link"]
  /\ header' = [header EXCEPT ![t] = c]
  /\ UNCHANGED <<use, free_chunk_header_, block_chain_, blocks, gone, broken>>

FreeLink(t) ==
  /\ pc[t] = "link"
  /\ free_chunk_header_' = header[t]
  /\ pc' = [pc EXCEPT ![t] = "idle"]
  /\ header' = [header EXCEPT ![t] = Null]
  /\ UNCHANGED <<use, status, next, block_chain_, held, blocks, gone, broken>>

IsBlockFree(b) == \A i \in 1..PerBlock : status[<<b, i>>] # "ALLOCATED"

\* The second loop of Shrink() from block i: a free block behind i is unlinked and the
\* block after that one is not looked at; unlinking the last one makes the loop read
\* a null pointer.
RECURSIVE Sweep(_, _)
Sweep(chain, i) ==
  IF i = Len(chain) THEN [chain |-> chain, null |-> FALSE]
  ELSE IF ~IsBlockFree(chain[i + 1]) THEN Sweep(chain, i + 1)
  ELSE LET cut == SubSeq(chain, 1, i) \o SubSeq(chain, i + 2, Len(chain))
       IN  IF i = Len(cut) THEN [chain |-> cut, null |-> TRUE] ELSE Sweep(cut, i + 1)

BlocksOf(chain) == {chain[i] : i \in DOMAIN chain}

\* The chunks the free list reaches from c, a set of chunks.
RECURSIVE Reach(_, _)
Reach(c, seen) == IF c = Null \/ c \in seen THEN seen ELSE Reach(next[c], seen \cup {c})

\* Shrink(): drop the free blocks at the head of the chain, then some of the others;
\* their chunks stay on the free list.
Shrink(t) ==
  LET lead == CHOOSE k \in 0..Len(block_chain_) :
                /\ \A i \in 1..k : IsBlockFree(block_chain_[i])
                /\ k < Len(block_chain_) => ~IsBlockFree(block_chain_[k + 1])
      rest == SubSeq(block_chain_, lead + 1, Len(block_chain_))
      end == IF rest = <<>> THEN [chain |-> rest, null |-> TRUE] ELSE Sweep(rest, 1)
      dropped == BlocksOf(block_chain_) \ BlocksOf(end.chain)
  IN  /\ use = "shrink"
      /\ MayStart(t)
      /\ block_chain_' = end.chain
      /\ gone' = gone \cup dropped
      /\ broken' = (end.null \/ \E c \in Reach(free_chunk_header_, {}) : c[1] \in dropped)
      /\ UNCHANGED <<use, status, next, free_chunk_header_, pc, header, held, blocks>>

\* GetFreeChunkNum(): what the blocks' headers say.
GetFreeChunkNum ==
  Cardinality({c \in Chunk : c[1] \in BlocksOf(block_chain_) /\ status[c] = "FREE"})

\* The server and its pool are destroyed, or the program fails; the next has its own.
Renew ==
  /\ \A t \in Threads : pc[t] = "idle"
  /\ broken \/ \A c \in Chunk : held[c] = 0
  /\ status' = [c \in Chunk |-> "none"]
  /\ next' = [c \in Chunk |-> Null]
  /\ free_chunk_header_' = Null
  /\ block_chain_' = <<>>
  /\ held' = [c \in Chunk |-> 0]
  /\ blocks' = 0
  /\ gone' = {}
  /\ broken' = FALSE
  /\ UNCHANGED <<use, pc, header>>

Next ==
  \/ \E t \in Threads :
       \/ Malloc(t) \/ MallocFails(t) \/ MallocTake(t) \/ FreeLink(t) \/ Shrink(t)
       \/ \E c \in Chunk : Free(t, c)
  \/ Renew

Spec == Init /\ [][Next]_vars

-----------------------------------------------------------------------------
Idle == \A t \in Threads : pc[t] = "idle"

Used == {c \in Chunk : held[c] > 0}

(* As long as two threads are never inside the pool together: a chunk has   *)
(* one owner, what is handed out is marked ALLOCATED and lies in a block    *)
(* that was not given back (Shrink() never frees a block in use), and the   *)
(* free list of Malloc() and Free() reaches every FREE chunk of the chain,  *)
(* so the count of GetFreeChunkNum() can be handed out without a new block. *)
(* Malloc() and Free() alone never ruin the pool; a Shrink() does only when *)
(* it gives a block back or finds none (ShrinkSupported).                   *)
PoolSound ==
  use # "shared" =>
    /\ broken => use = "shrink" /\ (gone # {} \/ block_chain_ = <<>>)
    /\ \A c \in Used : held[c] = 1 /\ status[c] = "ALLOCATED" /\ c[1] \notin gone
    /\ Idle /\ ~broken =>
         /\ Used \cap Reach(free_chunk_header_, {}) = {}
         /\ Cardinality(Reach(free_chunk_header_, {})) = GetFreeChunkNum

(* fixed_chunk_memory_pool.h:12 says that "The memory pool also can support *)
(* shrink" and line 95 that Shrink() will "Check the free block and free    *)
(* it": after a Shrink() between any calls of Malloc() and Free(), on the   *)
(* one thread of the pool and with a chunk in use, the free list holds only *)
(* chunks of blocks the pool still has, and no null block was read.         *)
ShrinkSupported == use = "shrink" /\ Used # {} => ~broken
=============================================================================
