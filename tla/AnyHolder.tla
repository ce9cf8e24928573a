----------------------------- MODULE AnyHolder -------------------------------
(***************************************************************************)
(* Any, UniqueAny and RawAny: type-erased values.  Any and UniqueAny own a  *)
(* heap-allocated holder, Any clones it on copy and UniqueAny cannot be     *)
(* copied; RawAny is a bare pointer to an object somebody else owns, as the *)
(* context of a connection is.  `want` is the value each variable should    *)
(* hold, as its user sees it.                                               *)
(***************************************************************************)
EXTENDS Integers, FiniteSets

CONSTANTS
  Anys, Uniques, Raws,  \* the variables of each class
  Addrs,                \* the addresses new may return
  Types,                \* the types of the values stored
  Null

VARIABLES
  heap,     \* [address -> the value of the holder there, or Null]
  holder_,  \* [variable -> address or Null]; for a RawAny, obj_
  want,     \* ghost: [variable -> value, Empty, or Moved when unspecified]
  wrong     \* ghost: a holder was deleted twice or a stale one was read

vars == <<heap, holder_, want, wrong>>

Owners == Anys \cup Uniques

Vals == {<<t>> : t \in Types}

TypeOf(v) == v[1]

Empty == <<"empty">>

Moved == <<"moved">>

Init ==
  /\ heap = [p \in Addrs |-> Null]
  /\ holder_ = [x \in Owners \cup Raws |-> Null]
  /\ want = [x \in Owners |-> Empty]
  /\ wrong = FALSE

\* new Holder<V>{v}, and delete, as functions of the heap.
New(h, v) == LET p == CHOOSE q \in Addrs : h[q] = Null IN <<[h EXCEPT ![p] = v], p>>

Delete(h, p) == IF p = Null THEN h ELSE [h EXCEPT ![p] = Null]

Room == \E p \in Addrs : heap[p] = Null

\* A slip a programmer might make: the copy shares the holder.
clone_shallow(p) == <<heap, p>>

\* HolderBase::clone(): a holder of its own for the same value.
clone(p) == New(heap, heap[p])

\* x = v: a temporary is built and swapped in, and takes the old holder with it.
Assign(x, v) ==
  /\ Room
  /\ LET new == New(heap, v) IN
     /\ heap' = Delete(new[1], holder_[x])
     /\ holder_' = [holder_ EXCEPT ![x] = new[2]]
  /\ want' = [want EXCEPT ![x] = v]
  /\ UNCHANGED wrong

\* x = y for two Anys: a clone is swapped in (y = y included).
CopyAssign(x, y) ==
  /\ {x, y} \subseteq Anys
  /\ Room
  /\ LET copy == IF holder_[y] = Null THEN <<heap, Null>> ELSE clone(holder_[y]) IN
     /\ heap' = Delete(copy[1], holder_[x])
     /\ holder_' = [holder_ EXCEPT ![x] = copy[2]]
  /\ want' = [want EXCEPT ![x] = want[y]]
  /\ UNCHANGED wrong

\* x = std::move(y): the two holders change places.
MoveAssign(x, y) ==
  /\ x # y
  /\ {x, y} \subseteq Anys \/ {x, y} \subseteq Uniques
  /\ holder_' = [holder_ EXCEPT ![x] = holder_[y], ![y] = holder_[x]]
  /\ want' = [want EXCEPT ![x] = want[y], ![y] = Moved]
  /\ UNCHANGED <<heap, wrong>>

\* x is destroyed and constructed again by moving from y, which is left empty.
MoveConstruct(x, y) ==
  /\ x # y
  /\ {x, y} \subseteq Anys \/ {x, y} \subseteq Uniques
  /\ heap' = Delete(heap, holder_[x])
  /\ holder_' = [holder_ EXCEPT ![x] = holder_[y], ![y] = Null]
  /\ want' = [want EXCEPT ![x] = want[y], ![y] = Empty]
  /\ UNCHANGED wrong

\* clear(), and the destructor.
clear(x) ==
  /\ heap' = Delete(heap, holder_[x])
  /\ wrong' = (wrong \/ (holder_[x] # Null /\ heap[holder_[x]] = Null))
  /\ holder_' = [holder_ EXCEPT ![x] = Null]
  /\ want' = [want EXCEPT ![x] = Empty]

\* SafeAnyCast<V>(x), under the precondition that x holds something: the value, or
\* null when its type is another one.
SafeAnyCast(x, type) ==
  IF TypeOf(heap[holder_[x]]) = type THEN heap[holder_[x]] ELSE Null

\* UnsafeAnyCast<V>(x) does not look at the type; AnyCast is the one or the other, by the build.
UnsafeAnyCast(x) == heap[holder_[x]]

\* The same two of UniqueAny.
UniqueAnyCast(x, type, debug) == IF debug THEN SafeAnyCast(x, type) ELSE UnsafeAnyCast(x)

\* RawAny: r = object, r = r2, r = std::move(r2) and clear().
RawAssign(r, x) ==
  /\ holder_[x] # Null
  /\ holder_' = [holder_ EXCEPT ![r] = holder_[x]]
  /\ UNCHANGED <<heap, want, wrong>>

RawCopy(r, s) ==
  /\ holder_' = [holder_ EXCEPT ![r] = holder_[s]]
  /\ UNCHANGED <<heap, want, wrong>>

RawMove(r, s) ==
  /\ r # s
  /\ holder_' = [holder_ EXCEPT ![r] = holder_[s], ![s] = holder_[r]]
  /\ UNCHANGED <<heap, want, wrong>>

RawClear(r) ==
  /\ holder_' = [holder_ EXCEPT ![r] = Null]
  /\ UNCHANGED <<heap, want, wrong>>

Next ==
  \/ \E x \in Owners :
       \/ \E v \in Vals : Assign(x, v)
       \/ \E y \in Owners : CopyAssign(x, y) \/ MoveAssign(x, y) \/ MoveConstruct(x, y)
       \/ clear(x)
  \/ \E r \in Raws :
       \/ \E x \in Owners : RawAssign(r, x)
       \/ \E s \in Raws : RawCopy(r, s) \/ RawMove(r, s)
       \/ RawClear(r)

Spec == Init /\ [][Next]_vars

-----------------------------------------------------------------------------
(* After any mix of copies, moves, self-assignments and destructions, every *)
(* live holder has exactly one owner and every owner a live holder (nothing *)
(* leaks, nothing is deleted twice, no RawAny owns), and a cast to the type *)
(* stored gives the value last assigned or moved in, to another type null;  *)
(* in both builds for the type stored.                                      *)
HoldersOwned ==
  /\ ~wrong
  /\ \A p \in Addrs : heap[p] # Null => Cardinality({x \in Owners : holder_[x] = p}) = 1
  /\ \A x \in Owners :
       /\ holder_[x] # Null => heap[holder_[x]] # Null
       /\ want[x] = Empty => holder_[x] = Null
       /\ want[x] \in Vals =>
            /\ holder_[x] # Null
            /\ \A v \in Vals :
                 SafeAnyCast(x, TypeOf(v)) = IF TypeOf(v) = TypeOf(want[x]) THEN want[x] ELSE Null
            /\ \A debug \in BOOLEAN : UniqueAnyCast(x, TypeOf(want[x]), debug) = want[x]
=============================================================================
