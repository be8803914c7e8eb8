-------------------------------- MODULE Intset --------------------------------
(***************************************************************************)
(* The sorted array of integers behind small sets                          *)
(* (src/redis-stable/src/intset.c). Every integer has the width of the     *)
(* widest one ever added: an addition that does not fit upgrades the array *)
(* in place, and tails are moved over one another. Memory is an array of   *)
(* cells; a value of width w is spread over w of them.                     *)
(***************************************************************************)
EXTENDS Integers, FiniteSets, FiniteSetsExt

CONSTANTS
  Values,      \* the integers added and removed
  Half         \* Half[w]: how many of those that fit in w cells are not negative

Widths == {1, 2, 4}

Fits(w) == -Half[w] .. Half[w] - 1

VARIABLES
  is,          \* encoding, length and contents (cells)
  members      \* history: the integers added and not removed

vars == <<is, members>>

Garbage == [value |-> 0, width |-> 0, part |-> 0]

ValueEncoding(v) == Min({w \in Widths : v \in Fits(w)})

(* What is read at a position as a value of a width: an integer nobody      *)
(* wrote if the cells come from different writes.                           *)
Torn == Half[4]

GetEncoded(cells, pos, w) ==
  LET at(n) == cells[w * pos + n]
  IN  IF \A n \in 0 .. w - 1 : at(n) = [value |-> at(0).value, width |-> w, part |-> n]
      THEN at(0).value ELSE Torn

Set(cells, pos, w, v) ==
  [i \in DOMAIN cells |-> IF i \in w * pos .. w * pos + w - 1
                          THEN [value |-> v, width |-> w, part |-> i - w * pos] ELSE cells[i]]

Get(s, pos) == GetEncoded(s.contents, pos, s.encoding)

Resize(s, len) ==
  [s EXCEPT !.contents = [i \in 0 .. len * s.encoding - 1 |-> IF i \in DOMAIN @ THEN @[i] ELSE Garbage]]

(* The binary search: b has its bounds, and where it found the value. One  *)
(* turn of the loop, which leaves at most half of the positions;           *)
Halve(s, v, b) ==
  LET mid == (b.min + b.max) \div 2
      cur == Get(s, mid)
  IN  CASE b.found \/ b.max < b.min -> b
        [] ~b.found /\ b.max >= b.min /\ v > cur -> [b EXCEPT !.min = mid + 1]
        [] ~b.found /\ b.max >= b.min /\ v < cur -> [b EXCEPT !.max = mid - 1]
        [] OTHER -> [b EXCEPT !.found = TRUE, !.min = mid]

(* the loop, which ends after no more turns than there are values; and     *)
(* whether the value is there, and its position or where to insert it.     *)
Bisect(s, v) ==
  LET turn[i \in 0 .. s.length] ==
        IF i = 0 THEN [min |-> 0, max |-> s.length - 1, found |-> FALSE] ELSE Halve(s, v, turn[i - 1])
      b == turn[s.length]
  IN  [found |-> b.found, pos |-> b.min]

Search(s, v) ==
  CASE s.length = 0 -> [found |-> FALSE, pos |-> 0]
    [] s.length > 0 /\ v > Get(s, s.length - 1) -> [found |-> FALSE, pos |-> s.length]
    [] s.length > 0 /\ v < Get(s, 0) -> [found |-> FALSE, pos |-> 0]
    [] OTHER -> Bisect(s, v)

(* Mutant: the values are widened from the front. *)
Widen_Forward(cells, n, from, to, shift) ==
  LET done[i \in 0 .. n] ==
        IF i = 0 THEN cells
        ELSE Set(done[i - 1], i - 1 + shift, to, GetEncoded(done[i - 1], i - 1, from))
  IN  done[n]

(* The first n values widened in place, the last one first. *)
Widen(cells, n, from, to, shift) ==
  LET done[i \in 0 .. n] ==
        IF i = 0 THEN cells
        ELSE Set(done[i - 1], n - i + shift, to, GetEncoded(done[i - 1], n - i, from))
  IN  done[n]

(* intsetUpgradeAndAdd: a value that does not fit lies at one of the ends. *)
UpgradeAndAdd(s, v) ==
  LET w == ValueEncoding(v)
      prepend == IF v < 0 THEN 1 ELSE 0
      big == Resize([s EXCEPT !.encoding = w], s.length + 1)
      wide == Widen(big.contents, s.length, s.encoding, w, prepend)
  IN  [big EXCEPT !.contents = Set(wide, IF v < 0 THEN 0 ELSE s.length, w, v), !.length = @ + 1]

(* memmove *)
MoveTail(s, from, to) ==
  LET bytes == (s.length - from) * s.encoding
  IN  [s EXCEPT !.contents = [i \in DOMAIN @ |-> IF i \in to * s.encoding .. to * s.encoding + bytes - 1
                                                 THEN @[i + (from - to) * s.encoding] ELSE @[i]]]

Added(s, v) ==
  LET found == Search(s, v)
      big == Resize(s, s.length + 1)
      gap == IF found.pos < s.length THEN MoveTail(big, found.pos, found.pos + 1) ELSE big
  IN  IF ValueEncoding(v) > s.encoding THEN UpgradeAndAdd(s, v)
      ELSE IF found.found THEN s
      ELSE [gap EXCEPT !.contents = Set(@, found.pos, s.encoding, v), !.length = @ + 1]

Find(s, v) == ValueEncoding(v) <= s.encoding /\ Search(s, v).found

Removed(s, v) ==
  LET pos == Search(s, v).pos
      closed == IF pos < s.length - 1 THEN MoveTail(s, pos + 1, pos) ELSE s
  IN  IF Find(s, v) THEN [Resize(closed, s.length - 1) EXCEPT !.length = @ - 1] ELSE s

Add(v) == is' = Added(is, v) /\ members' = members \cup {v}

Remove(v) == is' = Removed(is, v) /\ members' = members \ {v}

Init == is = [encoding |-> 1, length |-> 0, contents |-> [i \in 0 .. -1 |-> Garbage]] /\ members = {}

Next == \E v \in Values : Add(v) \/ Remove(v)

Spec == Init /\ [][Next]_vars

-----------------------------------------------------------------------------
(* Properties. *)

(* The array holds exactly the members, in order, at the width of the       *)
(* encoding, and the binary search finds exactly them: no upgrade or move   *)
(* of a tail overwrites a value it still needs.                             *)
HoldsMembers ==
  /\ is.length = Cardinality(members)
  /\ {Get(is, pos) : pos \in 0 .. is.length - 1} = members
  /\ \A p, q \in 0 .. is.length - 1 : p < q => Get(is, p) < Get(is, q)
  /\ \A v \in Values : Find(is, v) <=> v \in members

=============================================================================
