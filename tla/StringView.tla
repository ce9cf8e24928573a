----------------------------- MODULE StringView ------------------------------
(***************************************************************************)
(* The searches, comparisons and split() of StringView, as operators over   *)
(* sequences of characters with the 0-based positions of the code, checked  *)
(* against what the names promise for every small input.  The character 0   *)
(* is the NUL that strncmp() stops at, and 3 a byte above 0x7f, which       *)
(* memcmp() takes for the greatest and a comparison of chars for negative.  *)
(***************************************************************************)
EXTENDS Integers, Sequences, SequencesExt, FiniteSetsExt

CONSTANTS
  MaxLen,     \* bound: the length of the string searched
  MaxPattern  \* bound: the length of the pattern

VARIABLE in   \* the string, the pattern or set of characters, and the position

Char == 0..3

High == 3

\* A char as the number it is to < and >.
Signed(c) == IF c = High THEN -1 ELSE c

Words(n) == UNION {[1..k -> Char] : k \in 0..n}

npos == -1

\* No result: the function does not return.
Diverges == -2

at(s, i) == s[i + 1]

\* substr(pos, count) for pos <= size().
substr(s, pos, count) ==
  SubSeq(s, pos + 1, pos + IF count = npos \/ count > Len(s) - pos THEN Len(s) - pos ELSE count)

substr_range(s, begin, end) == substr(s, begin, end - begin)

remove_prefix(s, n) == SubSeq(s, n + 1, Len(s))

remove_suffix(s, n) == SubSeq(s, 1, Len(s) - n)

\* strncmp() of as many characters as v has: equal up to the first NUL of both.
strncmpEqual(s, v) ==
  \A i \in DOMAIN v : (\A j \in 1..(i - 1) : v[j] # 0) => s[i] = v[i]

\* memcmp() of s at i with v.
memcmpEqual(s, i, v) == substr(s, i, Len(v)) = v

\* The first index of lo, lo+1 .. hi-1 that is in S, or npos: an upward loop.
Upward(lo, hi, S) == IF \E i \in lo..(hi - 1) : i \in S
                     THEN Min({i \in lo..(hi - 1) : i \in S}) ELSE npos

\* A downward loop from hi to 0.
Downward(hi, S) == IF \E i \in 0..hi : i \in S THEN Max({i \in 0..hi : i \in S}) ELSE npos

\* A slip a programmer might make: the last position is not tried.
find_short(s, v, pos) ==
  IF Len(v) > Len(s) THEN npos
  ELSE Upward(pos, Len(s) - Len(v),
              {i \in 0..(Len(s) - Len(v)) : strncmpEqual(substr(s, i, Len(v)), v)})

find(s, v, pos) ==
  IF Len(v) > Len(s) THEN npos
  ELSE Upward(pos, Len(s) - Len(v) + 1,
              {i \in 0..(Len(s) - Len(v)) : strncmpEqual(substr(s, i, Len(v)), v)})

findChar(s, c, pos) == Upward(pos, Len(s), {i \in 0..(Len(s) - 1) : at(s, i) = c})

\* rfind(v, pos) of a string that is not empty.
rfind(s, v, pos) ==
  IF v = <<>> THEN npos
  ELSE Downward(IF pos < Len(s) - 1 THEN pos ELSE Len(s) - 1,
                {i \in 0..(Len(s) - 1) :
                   /\ at(s, i) = v[1]
                   /\ Len(s) - i >= Len(v)
                   /\ memcmpEqual(s, i, v)})

rfindChar(s, c, pos) ==
  Downward(IF pos < Len(s) - 1 THEN pos ELSE Len(s) - 1,
           {i \in 0..(Len(s) - 1) : at(s, i) = c})

contains(s, v) == find(s, v, 0) # npos

starts_with(s, v) == Len(s) >= Len(v) /\ memcmpEqual(s, 0, v)

ends_with(s, v) == Len(s) >= Len(v) /\ memcmpEqual(s, Len(s) - Len(v), v)

startsWithChar(s, c) == Len(s) >= 1 /\ at(s, 0) = c

endsWithChar(s, c) == Len(s) >= 1 /\ at(s, Len(s) - 1) = c

charInRange(c, v) == \E i \in DOMAIN v : v[i] = c

find_first_of(s, v, pos) ==
  Upward(pos, Len(s), {i \in 0..(Len(s) - 1) : charInRange(at(s, i), v)})

find_first_not_of(s, v, pos) ==
  Upward(pos, Len(s), {i \in 0..(Len(s) - 1) : ~charInRange(at(s, i), v)})

findFirstOfChar(s, c, pos) == Upward(pos, Len(s), {i \in 0..(Len(s) - 1) : at(s, i) = c})

findFirstNotOfChar(s, c, pos) == Upward(pos, Len(s), {i \in 0..(Len(s) - 1) : at(s, i) # c})

\* Where the downward searches start.
From(s, pos) == IF pos < Len(s) - 1 THEN pos ELSE Len(s) - 1

\* The loop of find_last_of(v) has no decrement: it returns at its first character or never.
find_last_of(s, v, pos) ==
  IF s = <<>> \/ From(s, pos) = 0 THEN npos
  ELSE IF charInRange(at(s, From(s, pos)), v) THEN From(s, pos) ELSE Diverges

\* find_last_of(c) returns pos, not the position it found; position 0 is not looked at.
findLastOfChar(s, c, pos) ==
  IF s # <<>> /\ \E i \in 1..From(s, pos) : at(s, i) = c THEN pos ELSE npos

find_last_not_of(s, v, pos) ==
  IF s = <<>> THEN npos
  ELSE Downward(From(s, pos), {i \in 1..(Len(s) - 1) : ~charInRange(at(s, i), v)})

\* memcmp() of the common length, then the lengths.
compare(s, v) ==
  LET n == IF Len(s) < Len(v) THEN Len(s) ELSE Len(v)
      diff == {i \in 1..n : s[i] # v[i]}
  IN  IF diff # {} THEN IF s[Min(diff)] < v[Min(diff)] THEN -1 ELSE 1
      ELSE IF Len(s) < Len(v) THEN -1 ELSE IF Len(s) > Len(v) THEN 1 ELSE 0

compareChar(s, c) ==
  IF s = <<>> \/ (s # <<>> /\ Signed(at(s, 0)) < Signed(c)) THEN -1
  ELSE IF Signed(at(s, 0)) > Signed(c) THEN 1 ELSE IF Len(s) = 1 THEN 0 ELSE 1

\* tolower(): the characters 1 and 2 are one letter in its two cases.
Lower(c) == IF c = 1 THEN 2 ELSE c

ToLowerString(s) == [i \in DOMAIN s |-> Lower(s[i])]

\* StrNCaseCompare() of the common length, which stops at a NUL of both, then the lengths.
caseCompare(s, v) ==
  LET a == ToLowerString(s)
      b == ToLowerString(v)
      n == IF Len(s) < Len(v) THEN Len(s) ELSE Len(v)
      diff == {i \in 1..n : a[i] # b[i] /\ \A j \in 1..(i - 1) : a[j] # 0}
  IN  IF diff # {} THEN IF a[Min(diff)] < b[Min(diff)] THEN -1 ELSE 1
      ELSE IF Len(s) < Len(v) THEN -1 ELSE IF Len(s) > Len(v) THEN 1 ELSE 0

\* The relational operators.
eq(s, v) == Len(s) = Len(v) /\ memcmpEqual(s, 0, v)

lt(s, v) == compare(s, v) < 0

gt(s, v) == lt(v, s)

ge(s, v) == ~lt(s, v)

le(s, v) == ~gt(s, v)

\* split(), from indicator_begin on, for a separator that is not empty.
RECURSIVE SplitFrom(_, _, _)
SplitFrom(s, sep, begin) ==
  LET found == find(s, sep, begin)
      end == IF found = npos THEN Len(s) ELSE found
      piece == substr(s, begin, end - begin)
  IN  IF end = Len(s) THEN <<piece>> ELSE <<piece>> \o SplitFrom(s, sep, end + Len(sep))

split(s, sep) == SplitFrom(s, sep, 0)

\* Logger's SourceFile of a full name that is not empty; the character 1 is the slash.
Slash == 1

SourceFile(fullname) ==
  LET found == rfindChar(fullname, Slash, Len(fullname))
  IN  IF found # npos THEN substr(fullname, found + 1, npos) ELSE fullname

\* A C string ends at its first NUL; the other kinds of piece have a length.
Piece(kind, text) == [kind |-> kind, text |-> text]

Chars(piece) ==
  IF piece.kind = "cstr" /\ 0 \in Range(piece.text)
  THEN SubSeq(piece.text, 1, Min({i \in DOMAIN piece.text : piece.text[i] = 0}) - 1)
  ELSE piece.text

\* resize(), which fills with NUL.
Resized(str, n) == [i \in 1..n |-> IF i <= Len(str) THEN str[i] ELSE 0]

\* memcpy() of chars to the 0-based index.
Copied(str, index, chars) ==
  [i \in DOMAIN str |-> IF i \in (index + 1)..(index + Len(chars)) THEN chars[i - index]
                        ELSE str[i]]

\* StrAppend_impl(): the sizes add up on the way to the last piece, where the string is
\* resized, and the pieces are copied from the back on the way out.
RECURSIVE StrAppend_impl(_, _, _)
StrAppend_impl(str, size, strs) ==
  LET head == Chars(Head(strs))
      inner == IF Len(strs) = 1
               THEN [str |-> Resized(str, size + Len(head)), index |-> size + Len(head), ok |-> TRUE]
               ELSE StrAppend_impl(str, size + Len(head), Tail(strs))
      index == inner.index - Len(head)
  IN  [str |-> Copied(inner.str, index, head),
       index |-> index,
       ok |-> inner.ok /\ inner.index >= Len(head)]   \* the assertion

StrAppend(str, strs) == StrAppend_impl(str, Len(str), strs)

StrCat(strs) == StrAppend(<<>>, strs)

Init == in \in [s : Words(MaxLen), v : Words(MaxPattern), pos : 0..MaxLen]

Next == UNCHANGED in

Spec == Init /\ [][Next]_in

-----------------------------------------------------------------------------
Occurs(s, v, i) == i + Len(v) <= Len(s) /\ \A k \in DOMAIN v : s[i + k] = v[k]

HasNul(v) == \E k \in DOMAIN v : v[k] = 0

\* The least or greatest position in S, or npos.
Least(S) == IF S = {} THEN npos ELSE Min(S)

Greatest(S) == IF S = {} THEN npos ELSE Max(S)

(* find(), rfind(), contains(), the prefix and suffix tests and the         *)
(* find_first functions return the position their documentation describes,  *)
(* for every start position up to the end, patterns longer than the string  *)
(* and empty ones included; find() does so for patterns without a NUL, and  *)
(* rfind() for strings that are not empty.  Of the find_last functions      *)
(* less is true: a position they find is right (find_last_of(c) answers     *)
(* with pos, so only that c is there); what find_last_of() does not find is *)
(* the subject of LastOfFound.                                              *)
SearchesFind ==
  LET s == in.s
      v == in.v
      pos == in.pos
      here == {i \in 0..(Len(s) - 1) : i >= pos}
      upTo == {i \in 0..(Len(s) - 1) : i <= pos}
  IN  pos <= Len(s) =>
        /\ ~HasNul(v) =>
             /\ find(s, v, pos) = Least({i \in pos..Len(s) : Occurs(s, v, i)})
             /\ contains(s, v) <=> \E i \in 0..Len(s) : Occurs(s, v, i)
        /\ s # <<>> /\ v # <<>> =>
             rfind(s, v, pos) = Greatest({i \in 0..pos : Occurs(s, v, i)})
        /\ starts_with(s, v) <=> Occurs(s, v, 0)
        /\ ends_with(s, v) <=> Len(v) <= Len(s) /\ Occurs(s, v, Len(s) - Len(v))
        /\ starts_with(s, v) => v \o remove_prefix(s, Len(v)) = s
        /\ ends_with(s, v) => remove_suffix(s, Len(v)) \o v = s
        /\ substr_range(s, 0, pos) \o substr(s, pos, npos) = s
        /\ find_first_of(s, v, pos) = Least({i \in here : at(s, i) \in Range(v)})
        /\ find_first_not_of(s, v, pos) = Least({i \in here : at(s, i) \notin Range(v)})
        /\ find_last_of(s, v, pos) \notin {npos, Diverges} =>
             find_last_of(s, v, pos) = Greatest({i \in upTo : at(s, i) \in Range(v)})
        /\ find_last_not_of(s, v, pos) # npos =>
             find_last_not_of(s, v, pos) = Greatest({i \in upTo : at(s, i) \notin Range(v)})
        /\ \A c \in Char :
             /\ findChar(s, c, pos) = find_first_of(s, <<c>>, pos)
             /\ s # <<>> => rfindChar(s, c, pos) = rfind(s, <<c>>, pos)
             /\ findFirstOfChar(s, c, pos) = find_first_of(s, <<c>>, pos)
             /\ findFirstNotOfChar(s, c, pos) = find_first_not_of(s, <<c>>, pos)
             /\ startsWithChar(s, c) = starts_with(s, <<c>>)
             /\ endsWithChar(s, c) = ends_with(s, <<c>>)
             /\ findLastOfChar(s, c, pos) # npos => \E i \in upTo : at(s, i) = c

(* What string_view.h:349-354 says of find_last_of(v): "the index of the    *)
(* last occurrence of any character of the sequence, if not found, return   *)
(* npos"; string_view_test.cc:102 expects npos where no character of v is   *)
(* in the string.                                                           *)
LastOfFound ==
  find_last_of(in.s, in.v, in.pos) =
    Greatest({i \in 0..(Len(in.s) - 1) : i <= in.pos /\ at(in.s, i) \in Range(in.v)})

\* The pieces with the separator between them.
Join(pieces, sep) ==
  FoldLeft(LAMBDA acc, p : acc \o sep \o p, Head(pieces), Tail(pieces))

(* split() terminates and loses nothing: its pieces joined with a separator *)
(* without NUL are the string, and no piece contains the separator.         *)
(* compare() and the relational operators are the total order the           *)
(* containers keyed by views rely on; compare() with a character agrees     *)
(* with it, but for a byte above 0x7f met by one that is not.               *)
(* caseCompare() is an order of the strings up to the case of their letters *)
(* (for strings without NUL).                                               *)
(* The SourceFile of a log record is what follows the last slash.           *)
SplitAndCompare ==
  LET s == in.s
      v == in.v
  IN  /\ v # <<>> /\ ~HasNul(v) =>
           /\ Join(split(s, v), v) = s
           /\ \A k \in DOMAIN split(s, v) :
                \A i \in 0..Len(s) : ~Occurs(split(s, v)[k], v, i)
      /\ (compare(s, v) = 0) <=> (s = v)
      /\ compare(v, s) = 0 - compare(s, v)
      /\ eq(s, v) <=> le(s, v) /\ ge(s, v)
      /\ gt(s, v) <=> ge(s, v) /\ ~eq(s, v)
      /\ \A c \in Char :
           compareChar(s, c) = compare(s, <<c>>)
             <=> s = <<>> \/ at(s, 0) = c \/ High \notin {at(s, 0), c}
      /\ ~HasNul(s) /\ ~HasNul(v) =>
           /\ caseCompare(s, v) = compare(ToLowerString(s), ToLowerString(v))
           /\ caseCompare(v, s) = 0 - caseCompare(s, v)
      /\ s # <<>> =>
           /\ ~contains(SourceFile(s), <<Slash>>)
           /\ ends_with(s, SourceFile(s))
           /\ contains(s, <<Slash>>) => ends_with(s, <<Slash>> \o SourceFile(s))

(* StrAppend() leaves the string it appends to as it was, and after it the  *)
(* pieces of every kind in their order, although it writes them from the    *)
(* back; its assertions hold and its index ends where the string was.       *)
(* StrCat() is the pieces alone.                                            *)
AppendsInOrder ==
  LET s == in.s
      v == in.v
      strs == <<Piece("view", v), Piece("cstr", s), Piece("char", <<1>>), Piece("cstr", v)>>
      all == v \o Chars(strs[2]) \o <<1>> \o Chars(strs[4])
  IN  /\ StrAppend(s, strs) = [str |-> s \o all, index |-> Len(s), ok |-> TRUE]
      /\ StrCat(strs).str = all
=============================================================================
