----------------------------- MODULE ForwardList -----------------------------
(***************************************************************************)
(* zstl::ForwardList, the singly linked list with an O(1) tail that holds   *)
(* the chunks of every output buffer: the link surgery of                   *)
(* forward_list/algorithm.cc, the member functions built from it and two    *)
(* lists that exchange nodes.  The ghost `seqs` is what each list should    *)
(* hold; the model computes both and ListsAreSequences compares them.       *)
(***************************************************************************)
EXTENDS Naturals, Sequences, FiniteSets, SequencesExt

CONSTANTS
  Nodes,   \* bound: the nodes the allocator can hand out
  Vals,    \* the values stored, a set of naturals
  Null

VARIABLES
  mem,     \* the heap: next, val and live of the nodes; next, prev, count of headers
  seqs     \* ghost: the contents each list should have

vars == <<mem, seqs>>

Lists == {"a", "b"}

\* The local lists of sort() (list, lists[0..2]) and sort2(); empty between calls.
Temps == {"list", "l0", "l1", "l2", "less", "equal", "larger"}

Headers == Lists \cup Temps

Other(h) == CHOOSE g \in Lists : g # h

Zero == CHOOSE v \in Vals : TRUE

RECURSIVE Walk(_, _)
Walk(m, p) == IF m.next[p] = Null THEN <<>> ELSE <<m.next[p]>> \o Walk(m, m.next[p])

Contents(m, h) == [i \in DOMAIN Walk(m, h) |-> m.val[Walk(m, h)[i]]]

\* before_begin() advanced i times.
RECURSIVE Advance(_, _, _)
Advance(m, p, i) == IF i = 0 THEN p ELSE Advance(m, m.next[p], i - 1)

-----------------------------------------------------------------------------
(* forward_list/algorithm.cc: the links only.                               *)

push_front(m, h, n) ==
  [m EXCEPT !.prev[h] = IF m.next[h] = Null THEN n ELSE @,
            !.next[n] = m.next[h], !.next[h] = n]

\* A slip a programmer might make: the tail is left where it was.
push_back_stale(m, h, n) == [m EXCEPT !.next[m.prev[h]] = n]

\* Leaves n's own link alone: create_node() and the extractions cleared it.
push_back(m, h, n) == [m EXCEPT !.next[m.prev[h]] = n, !.prev[h] = n]

extract_front(m, h) ==
  LET n == m.next[h]
  IN  [m EXCEPT !.prev[h] = IF m.next[n] = Null THEN h ELSE @,
                !.next[h] = m.next[n], !.next[n] = Null]

insert_after(m, h, p, n) ==
  [m EXCEPT !.prev[h] = IF p = @ THEN n ELSE @,
            !.next[n] = m.next[p], !.next[p] = n]

extract_after(m, h, p) ==
  LET n == m.next[p]
  IN  [m EXCEPT !.prev[h] = IF n = @ THEN p ELSE @,
                !.next[p] = m.next[n], !.next[n] = Null]

extract_range(m, h, first, last) ==
  IF m.next[first] = last THEN m
  ELSE [m EXCEPT !.prev[h] = IF last = Null THEN first ELSE @, !.next[first] = last]

RECURSIVE Flip(_, _, _)
Flip(m, cur, prev) ==
  IF cur = Null THEN m ELSE Flip([m EXCEPT !.next[cur] = prev], m.next[cur], cur)

reverse_links(m, h) ==
  Flip([m EXCEPT !.next[h] = m.prev[h], !.prev[h] = m.next[h]], m.next[h], Null)

-----------------------------------------------------------------------------
(* forward_list.h and forward_list_impl.h: nodes, counts and loops.         *)

create_node(m, n, v) == [m EXCEPT !.live = @ \cup {n}, !.next[n] = Null, !.val[n] = v]

drop_node(m, n) == [m EXCEPT !.live = @ \ {n}, !.next[n] = Null, !.val[n] = Zero]

Fresh(m) == CHOOSE n \in Nodes \ m.live : TRUE

Room(k) == Cardinality(Nodes \ mem.live) >= k

reset(m, h) == [m EXCEPT !.prev[h] = h, !.next[h] = Null, !.count[h] = 0]

list_push_front(m, h, n) == [push_front(m, h, n) EXCEPT !.count[h] = @ + 1]

list_push_back(m, h, n) == [push_back(m, h, n) EXCEPT !.count[h] = @ + 1]

list_insert_after(m, h, p, n) == [insert_after(m, h, p, n) EXCEPT !.count[h] = @ + 1]

extract_front_node(m, h) == [extract_front(m, h) EXCEPT !.count[h] = @ - 1]

extract_after_node(m, h, p) == [extract_after(m, h, p) EXCEPT !.count[h] = @ - 1]

push_back_value(m, h, v) == LET n == Fresh(m) IN list_push_back(create_node(m, n, v), h, n)

push_front_value(m, h, v) == LET n == Fresh(m) IN list_push_front(create_node(m, n, v), h, n)

erase_after(m, h, p) == drop_node(extract_after_node(m, h, p), m.next[p])

RECURSIVE DropUntil(_, _, _, _)
DropUntil(m, h, n, last) ==
  IF n = last THEN m
  ELSE DropUntil([drop_node(m, n) EXCEPT !.count[h] = @ - 1], h, m.next[n], last)

erase_range(m, h, first, last) ==
  DropUntil(extract_range(m, h, first, last), h, m.next[first], last)

RECURSIVE EraseTail(_, _, _)
EraseTail(m, h, p) == IF m.next[p] = Null THEN m ELSE EraseTail(erase_after(m, h, p), h, p)

RECURSIVE PushBackAll(_, _, _)
PushBackAll(m, h, s) ==
  IF s = <<>> THEN m ELSE PushBackAll(push_back_value(m, h, Head(s)), h, Tail(s))

RECURSIVE InsertAll(_, _, _, _)
InsertAll(m, h, p, s) ==
  IF s = <<>> THEN m
  ELSE LET n == Fresh(m)
       IN  InsertAll(list_insert_after(create_node(m, n, Head(s)), h, p, n), h, n, Tail(s))

RECURSIVE PushFrontAll(_, _, _)
PushFrontAll(m, h, s) ==
  IF s = <<>> THEN m ELSE PushFrontAll(push_front_value(m, h, Head(s)), h, Tail(s))

RECURSIVE Overwrite(_, _, _)
Overwrite(m, p, s) ==
  IF s = <<>> \/ m.next[p] = Null THEN m
  ELSE Overwrite([m EXCEPT !.val[m.next[p]] = Head(s)], m.next[p], Tail(s))

resize(m, h, n, v) ==
  IF m.count[h] <= n THEN PushBackAll(m, h, [i \in 1..(n - m.count[h]) |-> v])
  ELSE EraseTail(m, h, Advance(m, h, n))

\* `count < 0` is never true of a size_t: a longer list keeps its tail.
assign_count(m, h, n, v) ==
  LET s == [i \in 1..n |-> v]
  IN  PushFrontAll(Overwrite(m, h, s), h, SubSeq(s, m.count[h] + 1, n))

assign_range(m, h, s) ==
  LET o == Overwrite(m, h, s)
  IN  IF Len(s) >= m.count[h] THEN PushBackAll(o, h, SubSeq(s, m.count[h] + 1, Len(s)))
      ELSE EraseTail(o, h, Advance(o, h, Len(s)))

RECURSIVE clear(_, _)
clear(m, h) ==
  IF m.next[h] = Null THEN reset(m, h)
  ELSE clear(drop_node([m EXCEPT !.next[h] = m.next[m.next[h]]], m.next[h]), h)

RECURSIVE search_before(_, _, _)
search_before(m, v, p) ==
  IF m.next[p] = Null THEN Null
  ELSE IF m.val[m.next[p]] = v THEN p ELSE search_before(m, v, m.next[p])

RECURSIVE RemoveFrom(_, _, _, _)
RemoveFrom(m, h, v, p) ==
  LET it == search_before(m, v, p)
  IN  IF it = Null THEN m ELSE RemoveFrom(erase_after(m, h, it), h, v, it)

splice_one(m, h, p, g, it) == list_insert_after(extract_after_node(m, g, it), h, p, m.next[it])

RECURSIVE splice_range(_, _, _, _, _, _)
splice_range(m, h, p, g, first, last) ==
  IF m.next[first] = last THEN m
  ELSE splice_range(splice_one(m, h, p, g, first), h, p, g, first, last)

splice_all(m, h, p, g) ==
  IF m.count[g] = 0 THEN m
  ELSE reset([m EXCEPT !.prev[h] = IF p = @ THEN m.prev[g] ELSE @,
                       !.next[p] = m.next[g],
                       !.next[m.prev[g]] = m.next[p],
                       !.count[h] = @ + m.count[g]], g)

RECURSIVE MergeFrom(_, _, _, _)
MergeFrom(m, h, beg, g) ==
  IF m.next[beg] = Null THEN splice_all(m, h, m.prev[h], g)
  ELSE IF m.next[g] = Null THEN m
  ELSE IF m.val[m.next[g]] < m.val[m.next[beg]]
       THEN MergeFrom(splice_one(m, h, beg, g, g), h, m.next[g], g)
       ELSE MergeFrom(m, h, m.next[beg], g)

merge(m, h, g) == IF m.count[g] = 0 THEN m ELSE reset(MergeFrom(m, h, h, g), g)

swap(m, h, g) ==
  [m EXCEPT !.count[h] = m.count[g], !.count[g] = m.count[h],
            !.next[h] = m.next[g], !.next[g] = m.next[h],
            !.prev[h] = IF m.count[g] = 0 THEN h ELSE m.prev[g],
            !.prev[g] = IF m.count[h] = 0 THEN g ELSE m.prev[h]]

reverse(m, h) ==
  CASE m.count[h] < 2 -> m
    [] m.count[h] = 2 -> list_push_back(extract_front_node(m, h), h, m.next[h])
    [] m.count[h] > 2 -> reverse_links(m, h)

RECURSIVE UniqueFrom(_, _, _)
UniqueFrom(m, h, beg) ==
  IF m.next[beg] = Null \/ m.next[m.next[beg]] = Null THEN m
  ELSE IF m.val[m.next[beg]] = m.val[m.next[m.next[beg]]]
       THEN UniqueFrom(erase_after(m, h, m.next[beg]), h, beg)
       ELSE UniqueFrom(m, h, m.next[beg])

Run(i) == <<"l0", "l1", "l2">>[i]

\* The carry of the bottom-up merge sort: "list" is merged into lists[i], lists[i+1], ...
RECURSIVE Carry(_, _)
Carry(m, i) ==
  IF m.count[Run(i)] = 0 THEN swap(m, "list", Run(i))
  ELSE IF m.count[Run(i)] > m.count["list"]
       THEN Carry(swap(merge(m, Run(i), "list"), "list", Run(i)), i + 1)
       ELSE Carry(merge(m, "list", Run(i)), i + 1)

RECURSIVE SortRuns(_, _)
SortRuns(m, h) ==
  IF m.count[h] = 0 THEN m
  ELSE SortRuns(Carry(list_push_front(extract_front_node(m, h), "list", m.next[h]), 1), h)

\* Merging the runs past end_of_lists, which are empty, changes nothing.
sort(m, h) ==
  LET r == SortRuns(m, h)
  IN  swap(merge(merge(merge(r, "list", "l2"), "list", "l1"), "list", "l0"), h, "list")

RECURSIVE Partition(_, _, _)
Partition(m, h, pivot) ==
  IF m.count[h] = 0 THEN m
  ELSE LET n == m.next[h]
           part == CASE m.val[n] < pivot -> "less"
                     [] m.val[n] > pivot -> "larger"
                     [] OTHER -> "equal"
       IN  Partition(list_push_back(extract_front_node(m, h), part, n), h, pivot)

sort2(m, h) ==
  LET n == m.next[h]
      p == sort(sort(Partition(m, h, m.val[n]), "less"), "larger")
      q == splice_all(p, "less", p.prev["less"], "equal")
      r == splice_all(q, "less", q.prev["less"], "larger")
  IN  CASE m.count[h] < 2 -> m
        [] m.count[h] = 2 ->
             IF m.val[n] < m.val[m.next[n]] THEN m
             ELSE list_push_back(extract_front_node(m, h), h, n)
        [] m.count[h] > 2 -> swap(r, h, "less")

-----------------------------------------------------------------------------
(* The calls, each with the sequence it should produce.                     *)

Init ==
  /\ mem = [next |-> [p \in Nodes \cup Headers |-> Null],
            prev |-> [h \in Headers |-> h],
            count |-> [h \in Headers |-> 0],
            val |-> [n \in Nodes |-> Zero],
            live |-> {}]
  /\ seqs = [h \in Lists |-> <<>>]

\* The list's memory becomes m, its contents should be s.
Becomes(m, h, s) == mem' = m /\ seqs' = [seqs EXCEPT ![h] = s]

Positions(h) == 0..Len(seqs[h])

Node(h, i) == Advance(mem, h, i)

First(s, i) == SubSeq(s, 1, i)

Rest(s, i) == SubSeq(s, i + 1, Len(s))

Copies(n, v) == [i \in 1..n |-> v]

Ascending(s) == \A i \in 1..(Len(s) - 1) : s[i] <= s[i + 1]

SortedSeq(s) == SortSeq(s, LAMBDA x, y : x < y)

PushFront(h, v) ==
  Room(1) /\ Becomes(push_front_value(mem, h, v), h, <<v>> \o seqs[h])

PushBack(h, v) ==
  Room(1) /\ Becomes(push_back_value(mem, h, v), h, Append(seqs[h], v))

InsertAfter(h, i, n, v) ==
  /\ Room(n)
  /\ Becomes(InsertAll(mem, h, Node(h, i), Copies(n, v)), h,
             First(seqs[h], i) \o Copies(n, v) \o Rest(seqs[h], i))

\* insert_after(pos, other.begin(), other.end()), and the copy constructor.
InsertRange(h, i) ==
  LET s == seqs[Other(h)]
  IN  /\ Room(Len(s))
      /\ Becomes(InsertAll(mem, h, Node(h, i), Contents(mem, Other(h))), h,
                 First(seqs[h], i) \o s \o Rest(seqs[h], i))

PopFront(h) ==
  /\ seqs[h] # <<>>
  /\ Becomes(drop_node(extract_front_node(mem, h), mem.next[h]), h, Tail(seqs[h]))

\* extract_front() and the reuse of its node in the other list.
MoveFront(h, back) ==
  LET n == mem.next[h]
      m == extract_front_node(mem, h)
      g == Other(h)
  IN  /\ seqs[h] # <<>>
      /\ mem' = IF back THEN list_push_back(m, g, n) ELSE list_push_front(m, g, n)
      /\ seqs' = [seqs EXCEPT ![h] = Tail(@),
                              ![g] = IF back THEN Append(@, Head(seqs[h]))
                                     ELSE <<Head(seqs[h])>> \o @]

EraseAfter(h, i) ==
  /\ i < Len(seqs[h])
  /\ Becomes(erase_after(mem, h, Node(h, i)), h, First(seqs[h], i) \o Rest(seqs[h], i + 1))

\* Erases the open range (i, j); j past the last element is end().
EraseRange(h, i, j) ==
  /\ i < j
  /\ Becomes(erase_range(mem, h, Node(h, i), Node(h, j)), h,
             First(seqs[h], i) \o Rest(seqs[h], j - 1))

Clear(h) == Becomes(clear(mem, h), h, <<>>)

Resize(h, n, v) ==
  /\ Room(n)
  /\ Becomes(resize(mem, h, n, v), h,
             IF n <= Len(seqs[h]) THEN First(seqs[h], n)
             ELSE seqs[h] \o Copies(n - Len(seqs[h]), v))

\* A list longer than n keeps the elements past n, and is followed as the code leaves it
\* (AssignShortens is about that).
AssignCount(h, n, v) ==
  /\ Room(n)
  /\ Becomes(assign_count(mem, h, n, v), h, Copies(n, v) \o Rest(seqs[h], n))

\* operator=(Self const&) is assign(begin, end).
AssignRange(h) ==
  /\ Room(Len(seqs[Other(h)]))
  /\ Becomes(assign_range(mem, h, Contents(mem, Other(h))), h, seqs[Other(h)])

RemoveValue(h, v) ==
  Becomes(RemoveFrom(mem, h, v, h), h, SelectSeq(seqs[h], LAMBDA x : x # v))

ReverseList(h) == Becomes(reverse(mem, h), h, Reverse(seqs[h]))

UniqueList(h) ==
  Becomes(UniqueFrom(mem, h, h), h,
          FoldLeft(LAMBDA s, x : IF s # <<>> /\ Last(s) = x THEN s ELSE Append(s, x),
                   <<>>, seqs[h]))

Sort(h) == Becomes(sort(mem, h), h, SortedSeq(seqs[h]))

Sort2(h) == Becomes(sort2(mem, h), h, SortedSeq(seqs[h]))

\* The other list ends up empty.
Drains(m, h, s) == mem' = m /\ seqs' = [seqs EXCEPT ![h] = s, ![Other(h)] = <<>>]

\* merge() is for ascending lists.
Merge(h) ==
  /\ Ascending(seqs[h]) /\ Ascending(seqs[Other(h)])
  /\ Drains(merge(mem, h, Other(h)), h, SortedSeq(seqs[h] \o seqs[Other(h)]))

SpliceAll(h, i) ==
  Drains(splice_all(mem, h, Node(h, i), Other(h)), h,
         First(seqs[h], i) \o seqs[Other(h)] \o Rest(seqs[h], i))

\* Each node of (j, k) goes right behind the position: the range arrives reversed.
SpliceRange(h, i, j, k) ==
  LET g == Other(h)
  IN  /\ j < k
      /\ mem' = splice_range(mem, h, Node(h, i), g, Node(g, j), Node(g, k))
      /\ seqs' = [seqs EXCEPT
                   ![h] = First(@, i) \o Reverse(SubSeq(seqs[g], j + 1, k - 1)) \o Rest(@, i),
                   ![g] = First(@, j) \o Rest(@, k - 1)]

\* std::move assignment is a swap.
Swap ==
  /\ mem' = swap(mem, "a", "b")
  /\ seqs' = [seqs EXCEPT !["a"] = seqs["b"], !["b"] = seqs["a"]]

Next ==
  \/ \E h \in Lists, v \in Vals :
       \/ PushFront(h, v)
       \/ PushBack(h, v)
       \/ RemoveValue(h, v)
       \/ \E n \in 0..2 : AssignCount(h, n, v) \/ Resize(h, n, v)
       \/ \E i \in Positions(h), n \in 1..2 : InsertAfter(h, i, n, v)
  \/ \E h \in Lists :
       \/ PopFront(h)
       \/ \E back \in BOOLEAN : MoveFront(h, back)
       \/ Clear(h)
       \/ AssignRange(h)
       \/ ReverseList(h)
       \/ UniqueList(h)
       \/ Sort(h)
       \/ Sort2(h)
       \/ Merge(h)
       \/ \E i \in Positions(h) :
            \/ InsertRange(h, i)
            \/ EraseAfter(h, i)
            \/ SpliceAll(h, i)
            \/ \E j \in 1..(Len(seqs[h]) + 1) : EraseRange(h, i, j)
            \/ \E j \in Positions(Other(h)), k \in 1..(Len(seqs[Other(h)]) + 1) :
                 SpliceRange(h, i, j, k)
  \/ Swap

Spec == Init /\ [][Next]_vars

-----------------------------------------------------------------------------
(* After any sequence of calls each list's links spell exactly the values   *)
(* it should hold, its tail pointer and count agree with them, no node is   *)
(* in two lists, leaked or freed while linked, and the local lists of the   *)
(* sorts are empty: the link surgery of algorithm.cc never loses the tail   *)
(* that push_back() trusts.  What a call should leave is not taken from its *)
(* code, but for assign(count, value): the elements it keeps are those of   *)
(* AssignShortens.                                                          *)
ListsAreSequences ==
  /\ \A h \in Lists :
       /\ Contents(mem, h) = seqs[h]
       /\ mem.count[h] = Len(seqs[h])
       /\ mem.prev[h] = Last(<<h>> \o Walk(mem, h))
  /\ \A h \in Temps : mem.count[h] = 0 /\ mem.next[h] = Null /\ mem.prev[h] = h
  /\ mem.live = UNION {ToSet(Walk(mem, h)) : h \in Lists}
  /\ Cardinality(mem.live) = mem.count["a"] + mem.count["b"]

(* What forward_list_impl.h:57 says of assign(count, value), "count <       *)
(* size()", before it erases the rest: after it the list holds count copies *)
(* of the value and nothing else, however long it was.                      *)
AssignShortens ==
  \A h \in Lists, n \in 0..2, v \in Vals :
    Room(n) => Contents(assign_count(mem, h, n, v), h) = Copies(n, v)
=============================================================================
