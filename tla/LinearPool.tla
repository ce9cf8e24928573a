----------------------------- MODULE LinearPool ------------------------------
(***************************************************************************)
(* LinearFixedMemoryPool: one array of objects with a set of free           *)
(* positions, and malloc() once the set is empty.  Free() tells the two     *)
(* apart by the address.  Reserve() may move the array (reallocarray()), or *)
(* lose it for NULL when there is no memory.  Addresses are numbers, an     *)
(* object takes one; the positions of NULL are negative.                    *)
(***************************************************************************)
EXTENDS Integers, FiniteSets

CONSTANTS
  MaxAddr,  \* bound: the addresses are 0..MaxAddr
  MaxSize   \* bound: the size asked of the constructor and of Reserve()

VARIABLES
  pool_, size_, free_hset_,
  live,     \* ghost: the addresses handed out and not given back
  system,   \* ghost: the ones among them that come from malloc()
  lost      \* ghost: "moved" when Reserve() moved the array away from objects in it,
            \* "null" when it failed, or "no"

vars == <<pool_, size_, free_hset_, live, system, lost>>

NULL == -MaxSize

Array(base, size) == base..(base + size - 1)

\* What the C library has given out, apart from the array; one that was lost for NULL is
\* not given back.
Taken == IF pool_ = NULL THEN live ELSE system

\* Where malloc() and reallocarray() may put size objects; the old array may be reused.
Places(size) == {base \in 0..MaxAddr : base + size - 1 <= MaxAddr
                                       /\ Array(base, size) \cap Taken = {}}

Start(size) ==
  /\ pool_ = 0
  /\ size_ = size
  /\ free_hset_ = 0..(size - 1)

Init == (\E n \in 1..MaxSize : Start(n)) /\ live = {} /\ system = {} /\ lost = "no"

\* The element begin() of the unordered set is any of its elements.
Malloc ==
  /\ lost # "moved"
  /\ \/ /\ free_hset_ # {}
        /\ \E ret \in free_hset_ :
             /\ free_hset_' = free_hset_ \ {ret}
             /\ live' = live \cup {pool_ + ret}
        /\ UNCHANGED system
     \/ /\ free_hset_ = {}
        /\ \E p \in 0..MaxAddr :
             /\ p \notin Array(pool_, size_) \cup Taken
             /\ live' = live \cup {p}
             /\ system' = system \cup {p}
        /\ UNCHANGED free_hset_
  /\ UNCHANGED <<pool_, size_, lost>>

\* After a failed Reserve() an object of the array is no block free() knows.
Free(ptr) ==
  /\ lost = "no" \/ (lost = "null" /\ (ptr < 0 \/ ptr \in system))
  /\ live' = live \ {ptr}
  /\ IF ptr >= pool_ /\ ptr < pool_ + size_
     THEN free_hset_' = free_hset_ \cup {ptr - pool_} /\ UNCHANGED system
     ELSE system' = system \ {ptr} /\ UNCHANGED free_hset_
  /\ UNCHANGED <<pool_, size_, lost>>

\* The positions that are new are free, at whatever address the array is then; the
\* result of reallocarray() is not tested.
Reserve(sz) ==
  /\ lost # "moved" /\ size_ < sz
  /\ pool_' \in Places(sz) \cup {NULL}
  /\ free_hset_' = free_hset_ \cup (size_..(sz - 1))
  /\ size_' = sz
  /\ lost' = IF pool_' = NULL THEN "null"
             ELSE IF pool_' # pool_ /\ live \ system # {} THEN "moved" ELSE "no"
  /\ UNCHANGED <<live, system>>

\* The destructor, and the next pool.
Renew(size) ==
  /\ live = {} \/ lost # "no"
  /\ pool_' = 0 /\ size_' = size /\ free_hset_' = 0..(size - 1)
  /\ live' = {} /\ system' = {} /\ lost' = "no"

freesize == Cardinality(free_hset_)

Next ==
  \/ Malloc
  \/ \E ptr \in live : Free(ptr)
  \/ \E n \in 1..MaxSize : Reserve(n) \/ Renew(n)

Spec == Init /\ [][Next]_vars

-----------------------------------------------------------------------------
(* As long as Reserve() did not fail or move the array away from objects in *)
(* it: every position of the array is free or holds one object handed out,  *)
(* never both, so freesize() more calls are served from the array; and no   *)
(* address that came from malloc() is ever inside the array, also after it  *)
(* grew or moved, so Free() gives every block back where it came from.      *)
(* After a Reserve() that failed, the pool goes on with positions of NULL;  *)
(* even then the blocks of malloc() are told from them.                     *)
LinearSound ==
  /\ lost = "no" =>
       /\ free_hset_ \subseteq 0..(size_ - 1)
       /\ {pool_ + i : i \in free_hset_} \cap live = {}
       /\ freesize + Cardinality(live \ system) = size_
  /\ lost # "moved" => system \subseteq live \ Array(pool_, size_)
  /\ lost = "no" => live \subseteq 0..MaxAddr
=============================================================================
