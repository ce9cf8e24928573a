---------------------------- MODULE ReservedArray ----------------------------
(***************************************************************************)
(* The array under every Buffer: one malloc() block and its end, grown and  *)
(* shrunk with realloc(), copied, moved and destroyed.  T is trivial, as    *)
(* the char of Buffer: an element that was never written is "raw".          *)
(***************************************************************************)
EXTENDS Integers, Sequences

CONSTANTS
  Arrays,  \* variables of the program that may hold an array
  Blocks,  \* addresses malloc() can return
  Null,
  MaxN     \* bound: the elements of an array

VARIABLES
  arr,      \* each variable: not constructed, or its [data_, end_ - data_]
  heap,     \* each allocated block's elements
  want,     \* ghost: the elements each array stands for
  array_fault  \* ghost: "emptied" when a size 0 array was assigned to one of another
               \* size, "copy" when a copy was written through NULL, or "none"

vars == <<arr, heap, want, array_fault>>

Dead == [data |-> Null, size |-> -1]

Arr(b, n) == [data |-> b, size |-> n]

Live(a) == arr[a] # Dead

Free == Blocks \ DOMAIN heap

Raw(n) == [i \in 1..n |-> "raw"]

Take(s, n) == IF Len(s) <= n THEN s \o Raw(n - Len(s)) ELSE SubSeq(s, 1, n)

\* The heap h without block b, and with block b holding s.
Drop(h, b) == [x \in DOMAIN h \ {b} |-> h[x]]

Put(h, b, s) == [x \in DOMAIN h \cup {b} |-> IF x = b THEN s ELSE h[x]]

Elements(a) == IF arr[a].data = Null THEN <<>> ELSE heap[arr[a].data]

\* malloc(n): a block, or NULL.
allocate(n) == {[p |-> b, h |-> Put(heap, b, Raw(n))] : b \in Free} \cup {[p |-> Null, h |-> heap]}

\* realloc(p, n) of the C library: grows in place or moves; NULL keeps p, but n = 0 frees p
\* and returns NULL.
reallocate(p, n) ==
  IF p = Null THEN allocate(n)
  ELSE IF n = 0 THEN {[p |-> Null, h |-> Drop(heap, p)]}
  ELSE {[p |-> b, h |-> Put(Drop(heap, p), b, Take(heap[p], n))] : b \in Free \cup {p}}
         \cup {[p |-> Null, h |-> heap]}

Set(a, r) == arr' = [arr EXCEPT ![a] = r]

Want(a, s) == want' = [want EXCEPT ![a] = s]

-----------------------------------------------------------------------------
Init ==
  /\ arr = [a \in Arrays |-> Dead]
  /\ heap = [b \in {} |-> <<>>]
  /\ want = [a \in Arrays |-> <<>>]
  /\ array_fault = "none"

Default(a) ==
  /\ ~Live(a)
  /\ Set(a, Arr(Null, 0))
  /\ Want(a, <<>>)
  /\ UNCHANGED <<heap, array_fault>>

\* ReservedArray(n): throws when malloc() fails.
Construct(a, n) ==
  /\ ~Live(a)
  /\ \E m \in allocate(n) :
       /\ m.p # Null
       /\ heap' = m.h
       /\ Set(a, Arr(m.p, n))
       /\ Want(a, Raw(n))
  /\ UNCHANGED array_fault

\* The copy constructor does not test for NULL: the elements, if there are any, are then
\* written through it and the program ends.
Copy(a, o) ==
  /\ ~Live(a) /\ Live(o)
  /\ \E m \in allocate(arr[o].size) :
       IF m.p = Null /\ arr[o].size > 0
       THEN array_fault' = "copy" /\ UNCHANGED <<arr, heap, want>>
       ELSE /\ heap' = IF m.p = Null THEN heap ELSE Put(m.h, m.p, Elements(o))
            /\ Set(a, Arr(m.p, arr[o].size))
            /\ Want(a, want[o])
            /\ UNCHANGED array_fault

\* The move constructor.
Move(a, o) ==
  /\ ~Live(a) /\ Live(o)
  /\ arr' = [arr EXCEPT ![a] = arr[o], ![o] = Arr(Null, 0)]
  /\ want' = [want EXCEPT ![a] = want[o], ![o] = <<>>]
  /\ UNCHANGED <<heap, array_fault>>

\* CopyAssignmentForSizeNotEqual(): NULL throws and leaves data_ and end_ alone.
CopyAssignmentForSizeNotEqual(a, o) ==
  \E m \in reallocate(arr[a].data, arr[o].size) :
    IF m.p = Null
    THEN /\ heap' = m.h
         /\ array_fault' = IF arr[o].size = 0 /\ arr[a].data # Null THEN "emptied" ELSE "none"
         /\ UNCHANGED <<arr, want>>
    ELSE /\ heap' = Put(m.h, m.p, Elements(o))
         /\ Set(a, Arr(m.p, arr[o].size))
         /\ Want(a, want[o])
         /\ UNCHANGED array_fault

CopyAssign(a, o) ==
  /\ Live(a) /\ Live(o)
  /\ a # o
  /\ IF arr[a].size = arr[o].size
     THEN /\ heap' = IF arr[a].data = Null THEN heap ELSE Put(heap, arr[a].data, Elements(o))
          /\ Want(a, want[o])
          /\ UNCHANGED <<arr, array_fault>>
     ELSE CopyAssignmentForSizeNotEqual(a, o)

\* Move assignment and swap().
MoveAssign(a, o) ==
  /\ Live(a) /\ Live(o)
  /\ arr' = [arr EXCEPT ![a] = arr[o], ![o] = arr[a]]
  /\ want' = [want EXCEPT ![a] = want[o], ![o] = want[a]]
  /\ UNCHANGED <<heap, array_fault>>

Destroy(a) ==
  /\ Live(a)
  /\ heap' = IF arr[a].data = Null THEN heap ELSE Drop(heap, arr[a].data)
  /\ Set(a, Dead)
  /\ Want(a, <<>>)
  /\ UNCHANGED array_fault

\* Reallocate(): a failed realloc() throws with the array as it was.
Reallocate(a, n) ==
  \E m \in reallocate(arr[a].data, n) :
    /\ m.p # Null
    /\ heap' = m.h
    /\ Set(a, Arr(m.p, n))
    /\ Want(a, Take(want[a], n))

Grow(a, n) ==
  /\ Live(a)
  /\ n > arr[a].size
  /\ Reallocate(a, n)
  /\ UNCHANGED array_fault

Shrink_impl(a, n) ==
  \E m \in reallocate(arr[a].data, n) :
    /\ heap' = m.h
    /\ Set(a, IF n = 0 THEN Arr(Null, 0) ELSE IF m.p = Null THEN arr[a] ELSE Arr(m.p, n))
    /\ Want(a, IF m.p = Null /\ n # 0 THEN want[a] ELSE Take(want[a], n))

Shrink(a, n) ==
  /\ Live(a)
  /\ n < arr[a].size
  /\ Shrink_impl(a, n)
  /\ UNCHANGED array_fault

\* operator[] assigned through, under its assertion.
Write(a, i, v) ==
  /\ Live(a)
  /\ i <= arr[a].size
  /\ heap' = [heap EXCEPT ![arr[a].data][i] = v]
  /\ Want(a, [want[a] EXCEPT ![i] = v])
  /\ UNCHANGED <<arr, array_fault>>

Next ==
  /\ array_fault = "none"
  /\ \/ \E a \in Arrays : Default(a) \/ Destroy(a)
     \/ \E a \in Arrays, n \in 0..MaxN : Construct(a, n) \/ Grow(a, n) \/ Shrink(a, n)
     \/ \E a, o \in Arrays : Copy(a, o) \/ Move(a, o) \/ CopyAssign(a, o) \/ MoveAssign(a, o)
     \/ \E a \in Arrays, i \in 1..MaxN : Write(a, i, "x")

Spec == Init /\ [][Next]_vars

-----------------------------------------------------------------------------
(* Through every construction, copy, move, growth, shrinking and failed     *)
(* realloc(), an array's block is allocated, is no other array's, and holds *)
(* exactly the array's elements; and no block is left without an array.     *)
(* Two cases are excepted.  The copy assignment from an empty array to one  *)
(* that is not: realloc(p, 0) frees the block, and its NULL is taken for a  *)
(* failure that left the block alone.  The copy of elements into the NULL   *)
(* of a failed malloc(), where the program ends with every other array      *)
(* intact.                                                                  *)
ArraysOwnBlocks ==
  array_fault # "emptied" =>
    /\ \A a \in Arrays : Live(a) /\ arr[a].data # Null => arr[a].data \in DOMAIN heap
    /\ \A a \in Arrays : Live(a) => Elements(a) = want[a] /\ Len(want[a]) = arr[a].size
    /\ \A a, o \in Arrays : arr[a].data = arr[o].data /\ arr[a].data # Null => a = o
    /\ DOMAIN heap = {arr[a].data : a \in Arrays} \ {Null}
=============================================================================
