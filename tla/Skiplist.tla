------------------------------- MODULE Skiplist -------------------------------
(***************************************************************************)
(* The skiplist and the dict of a sorted set (src/redis-stable/src/        *)
(* t_zset.c). Every link of the skiplist carries its span, the elements it *)
(* passes over, so that ranks are read off the search path; a node's level *)
(* is drawn at random. Elements are numbers, ordered as sdscmp orders      *)
(* strings.                                                                *)
(***************************************************************************)
EXTENDS Integers, Sequences, FiniteSets, FiniteSetsExt, SequencesExt, TLC

CONSTANTS
  Elements, Scores,  \* numbers, the elements above 0
  MaxLevel,          \* ZSKIPLIST_MAXLEVEL
  MaxSearch          \* ZSKIPLIST_MAX_SEARCH

Header == 0

Null == -1

VARIABLES
  z,        \* the skiplist: level, length, tail and its nodes
  dict      \* the dict of the sorted set: the elements and their scores

vars == <<z, dict>>

Levels == 0 .. MaxLevel - 1

Unused == [score |-> 0, forward |-> [i \in Levels |-> Null], span |-> [i \in Levels |-> 0], backward |-> Null]

Forward(zsl, x, i) == zsl.node[x].forward[i]

Span(zsl, x, i) == zsl.node[x].span[i]

Before(zsl, x, score, e) == zsl.node[x].score < score \/ (zsl.node[x].score = score /\ x < e)

-----------------------------------------------------------------------------
(* Search paths. *)

(* Level i followed from x while the next node is one of those to pass,     *)
(* the rank growing by the spans.                                           *)
RECURSIVE Walk(_, _, _, _, _)
Walk(zsl, i, x, rank, pass) ==
  LET next == Forward(zsl, x, i)
  IN  IF next # Null /\ next \in pass
      THEN Walk(zsl, i, next, rank + Span(zsl, x, i), pass)
      ELSE [at |-> x, rank |-> rank]

(* update[i] and rank[i], from level i down. *)
RECURSIVE PathFrom(_, _, _, _, _)
PathFrom(zsl, i, x, rank, pass) ==
  LET w == Walk(zsl, i, x, rank, pass)
  IN  IF i = 0 THEN (0 :> w) ELSE PathFrom(zsl, i - 1, w.at, w.rank, pass) @@ (i :> w)

Path(zsl, pass) == PathFrom(zsl, zsl.level - 1, Header, 0, pass)

RECURSIVE WalkRank(_, _, _, _, _)
WalkRank(zsl, i, x, traversed, limit) ==
  LET next == Forward(zsl, x, i)
  IN  IF next # Null /\ traversed + Span(zsl, x, i) <= limit
      THEN WalkRank(zsl, i, next, traversed + Span(zsl, x, i), limit)
      ELSE [at |-> x, rank |-> traversed]

RECURSIVE RankPathFrom(_, _, _, _, _)
RankPathFrom(zsl, i, x, traversed, limit) ==
  LET w == WalkRank(zsl, i, x, traversed, limit)
  IN  IF i = 0 THEN (0 :> w) ELSE RankPathFrom(zsl, i - 1, w.at, w.rank, limit) @@ (i :> w)

-----------------------------------------------------------------------------
(* Updates. *)

(* Mutant: a link that passes over a new node keeps its span. *)
Longer_Same(span) == span

(* "increment span for untouched levels" *)
Longer(span) == span + 1

(* zslInsert: the path is where the node is linked in, at the levels it has; *)
(* levels the list did not have start at the header with the whole length,   *)
(* and the links that pass over the node grow.                               *)
Insert(zsl, score, e, level) ==
  LET short == Path(zsl, {x \in Elements : Before(zsl, x, score, e)})
      path == [i \in 0 .. Max({level, zsl.level}) - 1 |->
                 IF i < zsl.level THEN short[i] ELSE [at |-> Header, rank |-> 0]]
      tall == [x \in DOMAIN zsl.node |->
                 IF x = Header
                 THEN [zsl.node[x] EXCEPT !.span = [i \in Levels |-> IF i \in zsl.level .. level - 1 THEN zsl.length ELSE @[i]]]
                 ELSE zsl.node[x]]
      skipped(i) == path[0].rank - path[i].rank
      below(x) == {i \in DOMAIN path : path[i].at = x}
      node == [score |-> score,
               forward |-> [i \in Levels |-> IF i < level THEN tall[path[i].at].forward[i] ELSE Null],
               span |-> [i \in Levels |-> IF i < level THEN tall[path[i].at].span[i] - skipped(i) ELSE 0],
               backward |-> IF path[0].at = Header THEN Null ELSE path[0].at]
      after == node.forward[0]
  IN  [level |-> Max({level, zsl.level}), length |-> zsl.length + 1,
       tail |-> IF after = Null THEN e ELSE zsl.tail,
       node |-> [x \in DOMAIN tall |->
                   IF x = e THEN node
                   ELSE [tall[x] EXCEPT
                           !.forward = [i \in Levels |-> IF i \in below(x) /\ i < level THEN e ELSE @[i]],
                           !.span = [i \in Levels |-> IF i \notin below(x) THEN @[i]
                                                      ELSE IF i < level THEN skipped(i) + 1 ELSE Longer(@[i])],
                           !.backward = IF x = after THEN e ELSE @]]]

(* zslDeleteNode; empty levels at the top go. *)
DeleteNode(zsl, e, update) ==
  LET x == zsl.node[e]
      at(y) == {i \in 0 .. zsl.level - 1 : update[i].at = y}
      node == [y \in DOMAIN zsl.node |->
                 IF y = e THEN Unused
                 ELSE [zsl.node[y] EXCEPT
                         !.forward = [i \in Levels |-> IF i \in at(y) /\ @[i] = e THEN x.forward[i] ELSE @[i]],
                         !.span = [i \in Levels |-> IF i \notin at(y) THEN @[i]
                                                    ELSE IF Forward(zsl, y, i) = e THEN @[i] + x.span[i] - 1 ELSE @[i] - 1],
                         !.backward = IF y = x.forward[0] THEN x.backward ELSE @]]
      used == {i \in 0 .. zsl.level - 1 : node[Header].forward[i] # Null}
  IN  [level |-> IF used = {} THEN 1 ELSE Max(used) + 1, length |-> zsl.length - 1,
       tail |-> IF x.forward[0] = Null THEN x.backward ELSE zsl.tail, node |-> node]

(* zslUpdateScore: in place if the node stays where it is. *)
UpdateScore(zsl, cur, e, new, level) ==
  LET x == zsl.node[e]
      stays == /\ x.backward = Null \/ zsl.node[x.backward].score < new
               /\ x.forward[0] = Null \/ zsl.node[x.forward[0]].score > new
      path == Path(zsl, {y \in Elements : Before(zsl, y, cur, e)})
  IN  IF stays THEN [zsl EXCEPT !.node[e].score = new]
      ELSE Insert(DeleteNode(zsl, e, path), new, e, level)

(* The nodes after a path deleted one after the other, n of them. *)
RECURSIVE DeleteAfter(_, _, _)
DeleteAfter(zsl, path, n) ==
  IF n = 0 THEN zsl ELSE DeleteAfter(DeleteNode(zsl, Forward(zsl, path[0].at, 0), path), path, n - 1)

-----------------------------------------------------------------------------
(* Lookups. *)

RECURSIVE GetRankFrom(_, _, _, _, _)
GetRankFrom(i, x, rank, score, e) ==
  LET w == Walk(z, i, x, rank, {y \in Elements : Before(z, y, score, e) \/ y = e})
  IN  IF w.at = e THEN w.rank ELSE IF i = 0 THEN 0 ELSE GetRankFrom(i - 1, w.at, w.rank, score, e)

GetRank(score, e) == GetRankFrom(z.level - 1, Header, 0, score, e)

RECURSIVE ByRankFrom(_, _, _, _)
ByRankFrom(i, x, traversed, rank) ==
  LET w == WalkRank(z, i, x, traversed, rank)
  IN  IF w.rank = rank THEN w.at ELSE IF i = 0 THEN Null ELSE ByRankFrom(i - 1, w.at, w.rank, rank)

GetElementByRank(rank) == ByRankFrom(z.level - 1, Header, 0, rank)

(* A range: its bounds and whether each is excluded. *)
GteMin(score, r) == IF r.minex THEN score > r.min ELSE score >= r.min

LteMax(score, r) == IF r.maxex THEN score < r.max ELSE score <= r.max

IsInRange(r) ==
  /\ ~(r.min > r.max \/ (r.min = r.max /\ (r.minex \/ r.maxex)))
  /\ z.tail # Null /\ GteMin(z.node[z.tail].score, r)
  /\ LteMax(z.node[Forward(z, Header, 0)].score, r)

RECURSIVE Steps(_, _, _)
Steps(x, n, back) ==
  IF n = 0 \/ x = Null THEN x
  ELSE Steps(IF back THEN z.node[x].backward ELSE Forward(z, x, 0), n - 1, back)

(* A big offset is reached from the last node of the highest level.         *)
FromHighest(high, rank) == ByRankFrom(z.level - 1, high.at, 0, rank - high.rank)

(* zslNthInRange: small offsets step by step. *)
NthInRange(r, n) ==
  LET out == {x \in Elements : ~GteMin(z.node[x].score, r)}
      in == {x \in Elements : LteMax(z.node[x].score, r)}
      high == Walk(z, z.level - 1, Header, 0, out)
      first == IF z.level = 1 THEN high ELSE PathFrom(z, z.level - 2, high.at, high.rank, out)[0]
      last == PathFrom(z, z.level - 1, high.at, high.rank, in)[0]
      x == IF n >= 0
           THEN IF n < MaxSearch THEN Steps(first.at, n + 1, FALSE) ELSE FromHighest(high, first.rank + 1 + n)
           ELSE IF n + 1 > -MaxSearch THEN Steps(last.at, -n - 1, TRUE) ELSE FromHighest(high, last.rank + 1 + n)
  IN  CASE ~IsInRange(r) -> Null
        [] IsInRange(r) /\ n >= 0 ->
             IF first.rank + n >= z.length \/ x = Null \/ ~LteMax(z.node[x].score, r) THEN Null ELSE x
        [] OTHER -> IF last.rank < -n \/ x = Null \/ ~GteMin(z.node[x].score, r) THEN Null ELSE x

-----------------------------------------------------------------------------
(* Operations on the sorted set. *)

(* zsetAdd; NX, XX, GT and LT only keep it from doing anything. *)
Add(e, score) ==
  \E level \in 1 .. MaxLevel :
    IF e \notin DOMAIN dict
    THEN z' = Insert(z, score, e, level) /\ dict' = (e :> score) @@ dict
    ELSE /\ score # dict[e]
         /\ z' = UpdateScore(z, dict[e], e, score, level)
         /\ dict' = [dict EXCEPT ![e] = score]

Without(es) == dict' = [e \in DOMAIN dict \ es |-> dict[e]]

(* zsetRemoveFromSkiplist *)
Delete(e) ==
  /\ e \in DOMAIN dict
  /\ z' = DeleteNode(z, e, Path(z, {x \in Elements : Before(z, x, dict[e], e)}))
  /\ Without({e})

Present == {x \in Elements : \E i \in 1 .. z.length : Steps(Header, i, FALSE) = x}

DeleteRangeByScore(r) ==
  LET path == Path(z, {x \in Elements : ~GteMin(z.node[x].score, r)})
      gone == {x \in Present : GteMin(z.node[x].score, r) /\ LteMax(z.node[x].score, r)}
  IN  z' = DeleteAfter(z, path, Cardinality(gone)) /\ Without(gone)

(* 1-based and inclusive. *)
DeleteRangeByRank(start, end) ==
  LET path == RankPathFrom(z, z.level - 1, Header, 0, start - 1)
      n == Max({0, Min({end, z.length}) - path[0].rank})
  IN  /\ z' = DeleteAfter(z, path, n)
      /\ Without({Steps(path[0].at, k, FALSE) : k \in 1 .. n})

-----------------------------------------------------------------------------
Ranges == [min: Scores, max: Scores, minex: BOOLEAN, maxex: BOOLEAN]

Init ==
  /\ z = [level |-> 1, length |-> 0, tail |-> Null, node |-> [x \in Elements \cup {Header} |-> Unused]]
  /\ dict = [e \in {} |-> 0]

Next ==
  \/ \E e \in Elements : Delete(e) \/ \E score \in Scores : Add(e, score)
  \/ \E r \in Ranges : r.min <= r.max /\ DeleteRangeByScore(r)
  \/ \E start, end \in 1 .. Cardinality(Elements) : start <= end /\ DeleteRangeByRank(start, end)

Spec == Init /\ [][Next]_vars

-----------------------------------------------------------------------------
(* Properties. *)

(* The elements in the order of the sorted set, from the dict. *)
Sorted == SetToSortSeq(DOMAIN dict, LAMBDA x, y : dict[x] < dict[y] \/ (dict[x] = dict[y] /\ x < y))

(* The skiplist and the dict agree after any updates: following the lowest *)
(* level gives the dict's elements in order, backwards the same; the rank  *)
(* of an element and the element at a rank, which add up spans on the way  *)
(* down, are its position; and the n-th element of a range of scores, from *)
(* either end, near or far, is the one a scan of the elements finds.       *)
RanksExact ==
  /\ z.length = Cardinality(DOMAIN dict)
  /\ z.tail = IF z.length = 0 THEN Null ELSE Sorted[z.length]
  /\ \A n \in 1 .. z.length :
       /\ Steps(Header, n, FALSE) = Sorted[n] /\ z.node[Sorted[n]].score = dict[Sorted[n]]
       /\ z.node[Sorted[n]].backward = IF n = 1 THEN Null ELSE Sorted[n - 1]
       /\ GetRank(dict[Sorted[n]], Sorted[n]) = n /\ GetElementByRank(n) = Sorted[n]
  /\ \A r \in Ranges :
       LET inside == SelectSeq(Sorted, LAMBDA e : GteMin(dict[e], r) /\ LteMax(dict[e], r))
           m == Len(inside)
       IN  \A n \in -Cardinality(Elements) .. Cardinality(Elements) - 1 :
             NthInRange(r, n) = CASE n >= 0 /\ n < m -> inside[n + 1]
                                  [] n < 0 /\ -n <= m -> inside[m + 1 + n]
                                  [] OTHER -> Null

=============================================================================
