--------------------------------- MODULE Dict ---------------------------------
(***************************************************************************)
(* The hash table of Redis (src/redis-stable/src/dict.c): two tables while *)
(* it is being resized, the buckets moved from the old to the new one a    *)
(* few at a time by every operation, the cursor of SCAN that survives any  *)
(* resize between two calls, and the safe iterator that pauses the moves.  *)
(***************************************************************************)
EXTENDS Integers, Sequences, FiniteSets, FiniteSetsExt, SequencesExt

CONSTANTS
  Keys, Hash(_),           \* the keys and their hashes
  Bits,                    \* width of a hash and of a cursor
  InitialExp,              \* DICT_HT_INITIAL_EXP
  MinFill, ForceRatio,     \* HASHTABLE_MIN_FILL, dict_force_resize_ratio
  EmptyVisits,             \* empty buckets a step of rehashing passes over
  Sizes,                   \* sizes the callers of dictExpand and dictShrink ask for
  Policies,                \* values of dict_can_resize
  Nobody                   \* no entry

VARIABLES
  d,         \* the dict: table, exp, used (of tables 0 and 1), rehashidx, pauserehash
  policy,    \* dict_can_resize
  keys,      \* history: the keys added and not deleted
  user,      \* the scan or the iteration in progress
  owed,      \* history: keys in the dict ever since it began and not returned yet
  got,       \* history: keys the iteration returned that were not deleted since
  twice      \* history: the iteration returned one of them again

vars == <<d, policy, keys, user, owed, got, twice>>

Size(e) == IF e = -1 THEN 0 ELSE 2^e

Index(h, e) == IF e = -1 THEN 0 ELSE h % Size(e)

Table(e) == [i \in 0 .. Size(e) - 1 |-> <<>>]

Empty ==
  [table |-> [t \in 0 .. 1 |-> Table(-1)], exp |-> [t \in 0 .. 1 |-> -1],
   used |-> [t \in 0 .. 1 |-> 0], rehashidx |-> -1, pauserehash |-> 0]

IsRehashing(c) == c.rehashidx # -1

DictSize(c) == c.used[0] + c.used[1]

-----------------------------------------------------------------------------
(* Resizing. *)

NextExp(size) == IF size <= Size(InitialExp) THEN InitialExp ELSE Min({e \in 0 .. Bits : Size(e) >= size})

(* A table with nothing in it is replaced at once. *)
Resize(c, size) ==
  LET e == NextExp(size)
  IN  IF e = c.exp[0] THEN c
      ELSE IF c.used[0] = 0
      THEN [c EXCEPT !.table[0] = Table(e), !.exp[0] = e]
      ELSE [c EXCEPT !.table[1] = Table(e), !.exp[1] = e, !.used[1] = 0, !.rehashidx = 0]

Expand(c, size) ==
  IF IsRehashing(c) \/ c.used[0] > size \/ Size(c.exp[0]) >= size THEN c ELSE Resize(c, size)

Shrink(c, size) ==
  IF IsRehashing(c) \/ c.used[0] > size \/ Size(c.exp[0]) <= size THEN c ELSE Resize(c, size)

ExpandIfNeeded(c) ==
  LET full == \/ policy = "enable" /\ c.used[0] >= Size(c.exp[0])
              \/ policy # "forbid" /\ c.used[0] >= ForceRatio * Size(c.exp[0])
  IN  CASE ~IsRehashing(c) /\ Size(c.exp[0]) = 0 -> Expand(c, Size(InitialExp))
        [] ~IsRehashing(c) /\ Size(c.exp[0]) # 0 /\ full -> Expand(c, c.used[0] + 1)
        [] OTHER -> c

ShrinkIfNeeded(c) ==
  IF /\ ~IsRehashing(c) /\ Size(c.exp[0]) > Size(InitialExp)
     /\ \/ policy = "enable" /\ c.used[0] * MinFill <= Size(c.exp[0])
        \/ policy # "forbid" /\ c.used[0] * MinFill * ForceRatio <= Size(c.exp[0])
  THEN Shrink(c, c.used[0]) ELSE c

-----------------------------------------------------------------------------
(* Incremental rehashing. *)

(* Mutant: the index is masked when the table grows, too. *)
MoveBucket_Masked(c, i) ==
  LET moved == c.table[0][i]
  IN  [c EXCEPT !.table[0][i] = <<>>, !.table[1][Index(i, c.exp[1])] = Reverse(moved) \o @,
                !.used[0] = @ - Len(moved), !.used[1] = @ + Len(moved)]

(* rehashEntriesInBucketAtIndex: each entry goes to the head of its new     *)
(* bucket; when shrinking, the index itself is masked.                      *)
MoveBucket(c, i) ==
  LET moved == c.table[0][i]
      to(k) == IF c.exp[1] > c.exp[0] THEN Index(Hash(k), c.exp[1]) ELSE Index(i, c.exp[1])
  IN  [c EXCEPT !.table[0][i] = <<>>,
                !.table[1] = [j \in DOMAIN @ |-> Reverse(SelectSeq(moved, LAMBDA k : to(k) = j)) \o @[j]],
                !.used[0] = @ - Len(moved), !.used[1] = @ + Len(moved)]

CheckRehashingCompleted(c) ==
  IF c.used[0] # 0 THEN c
  ELSE [c EXCEPT !.table = (0 :> c.table[1] @@ 1 :> Table(-1)), !.exp = (0 :> c.exp[1] @@ 1 :> -1),
                 !.used = (0 :> c.used[1] @@ 1 :> 0), !.rehashidx = -1]

(* While a child process shares the memory, only a resize by a large factor *)
(* goes on.                                                                 *)
MayRehash(c) ==
  LET s0 == Size(c.exp[0])
      s1 == Size(c.exp[1])
  IN  /\ IsRehashing(c) /\ policy # "forbid"
      /\ policy = "avoid" => /\ ~(s1 > s0 /\ s1 < ForceRatio * s0)
                             /\ ~(s1 < s0 /\ s0 < MinFill * ForceRatio * s1)

(* dictRehash(d, 1). *)
Rehash(c) ==
  LET from == c.rehashidx
      filled == {i \in from .. from + EmptyVisits - 1 : i \in DOMAIN c.table[0] /\ c.table[0][i] # <<>>}
  IN  IF ~MayRehash(c) THEN c
      ELSE IF c.used[0] = 0 THEN CheckRehashingCompleted(c)
      ELSE IF filled = {} THEN [c EXCEPT !.rehashidx = from + EmptyVisits]
      ELSE CheckRehashingCompleted([MoveBucket(c, Min(filled)) EXCEPT !.rehashidx = Min(filled) + 1])

(* Mutant: the pause is not looked at. *)
RehashStep_Unpaused(c) == Rehash(c)

RehashStep(c) == IF c.pauserehash = 0 THEN Rehash(c) ELSE c

BucketRehash(c, i) == IF MayRehash(c) THEN CheckRehashingCompleted(MoveBucket(c, i)) ELSE c

(* The bucket about to be visited is moved if it has entries. *)
RehashStepIfNeeded(c, i) ==
  CASE ~IsRehashing(c) \/ c.pauserehash # 0 -> c
    [] IsRehashing(c) /\ c.pauserehash = 0 /\ i >= c.rehashidx /\ c.table[0][i] # <<>> -> BucketRehash(c, i)
    [] OTHER -> Rehash(c)

-----------------------------------------------------------------------------
(* Lookups. i is the key's index in table 0 before the rehashing step.      *)

(* The tables a lookup finds the key in: an index below rehashidx is not    *)
(* looked up in table 0.                                                    *)
TablesWith(c, k, i) ==
  {t \in 0 .. 1 : /\ t = 0 => i >= c.rehashidx /\ c.exp[0] # -1
                  /\ t = 1 => IsRehashing(c)
                  /\ k \in ToSet(c.table[t][Index(Hash(k), c.exp[t])])}

First(k) == Index(Hash(k), d.exp[0])

Visited(k) == IF DictSize(d) = 0 THEN d ELSE RehashStepIfNeeded(d, First(k))

Found(k) == DictSize(d) # 0 /\ TablesWith(Visited(k), k, First(k)) # {}

Unlink(c, k, t) ==
  ShrinkIfNeeded([c EXCEPT !.table[t][Index(Hash(k), c.exp[t])] = SelectSeq(@, LAMBDA x : x # k),
                           !.used[t] = @ - 1])

-----------------------------------------------------------------------------
(* Operations. *)

Added(k) == keys' = keys \cup {k} /\ UNCHANGED <<policy, user, owed, got, twice>>

Gone(k) ==
  /\ keys' = keys \ {k} /\ owed' = owed \ {k} /\ got' = got \ {k}
  /\ UNCHANGED <<policy, twice>>

(* dictFindPositionForInsert: a step of rehashing, then room for one more. *)
FindPositionForInsert(k) == ExpandIfNeeded(RehashStepIfNeeded(d, First(k)))

(* The entry goes to the head of its bucket, in the new table if there is one. *)
InsertAtPosition(c, k) ==
  LET t == IF IsRehashing(c) THEN 1 ELSE 0
  IN  [c EXCEPT !.table[t][Index(Hash(k), c.exp[t])] = <<k>> \o @, !.used[t] = @ + 1]

(* dictAddRaw *)
Add(k) ==
  LET c == FindPositionForInsert(k)
  IN  /\ d' = IF TablesWith(c, k, First(k)) # {} THEN c ELSE InsertAtPosition(c, k)
      /\ Added(k)

Find(k) == d' = Visited(k) /\ UNCHANGED <<policy, keys, user, owed, got, twice>>

(* Whoever iterates deletes only the entry the iterator is at. *)
Deletable(k) == user.kind = "iterate" => user.entry = k

Forget(k) == user' = IF user.kind = "iterate" THEN [user EXCEPT !.entry = Nobody] ELSE user

GenericDelete(k) ==
  LET c == Visited(k)
      t == TablesWith(c, k, First(k))
  IN  /\ Deletable(k)
      /\ d' = IF DictSize(d) = 0 \/ t = {} THEN c ELSE Unlink(c, k, Min(t))
      /\ Forget(k) /\ Gone(k)

(* dictTwoPhaseUnlinkFind and dictTwoPhaseUnlinkFree, which nothing comes   *)
(* between: the pause they share is over when they are.                     *)
TwoPhaseUnlink(k) ==
  LET c == IF IsRehashing(d) THEN RehashStep(d) ELSE d
      t == TablesWith(c, k, Index(Hash(k), c.exp[0]))
  IN  /\ Deletable(k) /\ DictSize(d) # 0
      /\ d' = IF t = {} THEN c ELSE Unlink(c, k, Min(t))
      /\ Forget(k) /\ Gone(k)

(* dictRehashMicroseconds from the cron: some number of steps. *)
Cron == d' = RehashStep(d) /\ UNCHANGED <<policy, keys, user, owed, got, twice>>

ResizeRequest(size) ==
  /\ user.kind # "iterate"
  /\ d' \in {Expand(d, size), Shrink(d, size)}
  /\ UNCHANGED <<policy, keys, user, owed, got, twice>>

(* updateDictResizePolicy *)
SetPolicy(p) == policy' = p /\ UNCHANGED <<d, keys, user, owed, got, twice>>

Idle == [kind |-> "none", cursor |-> 0, table |-> 0, index |-> -1, entry |-> Nobody, next |-> Nobody]

Clear ==
  /\ user.kind # "iterate"
  /\ d' = Empty /\ keys' = {} /\ owed' = {} /\ UNCHANGED <<policy, user, got, twice>>

-----------------------------------------------------------------------------
(* dictScan. *)

Rev(v) == SumSet({IF (v \div 2^i) % 2 = 1 THEN 2^(Bits - 1 - i) ELSE 0 : i \in 0 .. Bits - 1})

(* Mutant: the cursor counts upwards. *)
NextCursor_Forward(v, e) == ((v % Size(e)) + 1) % Size(e)

(* The bits outside the mask set, the reversed cursor incremented. *)
NextCursor(v, e) ==
  LET masked == (v % Size(e)) + (2^Bits - Size(e))
  IN  Rev((Rev(masked) + 1) % 2^Bits)

(* The buckets of the larger table that expand the one at the cursor in the *)
(* smaller, and the cursor after them.                                      *)
RECURSIVE Expansions(_, _, _)
Expansions(v, small, large) ==
  LET next == NextCursor(v, large)
      rest == Expansions(next, small, large)
  IN  IF (next % Size(large)) \div Size(small) = 0
      THEN [indexes |-> <<v % Size(large)>>, cursor |-> next]
      ELSE [rest EXCEPT !.indexes = <<v % Size(large)>> \o @]

(* What one call emits, and the cursor it returns. *)
ScanCall(v) ==
  LET s == IF d.exp[0] > d.exp[1] THEN 1 ELSE 0
      l == 1 - s
      x == Expansions(v, d.exp[s], d.exp[l])
  IN  CASE DictSize(d) = 0 -> [emit |-> <<>>, cursor |-> 0]
        [] DictSize(d) # 0 /\ ~IsRehashing(d) ->
             [emit |-> d.table[0][v % Size(d.exp[0])], cursor |-> NextCursor(v, d.exp[0])]
        [] OTHER ->
             [emit |-> d.table[s][v % Size(d.exp[s])]
                         \o FlattenSeq([n \in DOMAIN x.indexes |-> d.table[l][x.indexes[n]]]),
              cursor |-> x.cursor]

Begin(kind) ==
  /\ user.kind = "none"
  /\ user' = [Idle EXCEPT !.kind = kind]
  /\ owed' = keys /\ got' = {} /\ twice' = FALSE
  /\ UNCHANGED <<d, policy, keys>>

Over(kind) == [Idle EXCEPT !.kind = kind]

Scan ==
  LET call == ScanCall(user.cursor)
  IN  /\ user.kind = "scan"
      /\ owed' = owed \ ToSet(call.emit)
      /\ user' = IF call.cursor = 0 THEN Over("scanned") ELSE [user EXCEPT !.cursor = call.cursor]
      /\ UNCHANGED <<d, policy, keys, got, twice>>

-----------------------------------------------------------------------------
(* The safe iterator. *)

(* The first non-empty bucket from an index on, in the order of the tables. *)
Later(table, index) ==
  {p \in (0 .. 1) \X (0 .. 2^Bits - 1) :
     /\ (p[1] = table /\ p[2] >= index) \/ (p[1] = 1 /\ table = 0 /\ IsRehashing(d))
     /\ p[2] < Size(d.exp[p[1]]) /\ d.table[p[1]][p[2]] # <<>>}

Earliest(ps) == CHOOSE p \in ps : \A q \in ps : p[1] < q[1] \/ (p[1] = q[1] /\ p[2] <= q[2])

Places(k) == {p \in (0 .. 1) \X (0 .. 2^Bits - 1) :
                p[2] \in DOMAIN d.table[p[1]] /\ k \in ToSet(d.table[p[1]][p[2]])}

(* The entry after the one a pointer points to, whatever chain it is in.    *)
EntryAfter(k) ==
  LET p == CHOOSE p \in Places(k) : TRUE
      chain == d.table[p[1]][p[2]]
      n == CHOOSE n \in DOMAIN chain : chain[n] = k
  IN  IF n < Len(chain) THEN chain[n + 1] ELSE Nobody

(* dictNext: the first call pauses rehashing and skips the buckets moved.   *)
NextEntry(u) ==
  LET first == u.index = -1 /\ u.table = 0
      ps == Later(u.table, IF first /\ IsRehashing(d) THEN d.rehashidx ELSE u.index + 1)
      p == Earliest(ps)
      chain == d.table[p[1]][p[2]]
  IN  IF u.next # Nobody
      THEN [u EXCEPT !.entry = u.next, !.next = EntryAfter(u.next)]
      ELSE IF ps = {} THEN Over("iterated")
      ELSE [u EXCEPT !.table = p[1], !.index = p[2], !.entry = Head(chain),
                     !.next = EntryAfter(Head(chain))]

DictNext ==
  LET u == NextEntry(user)
      started == ~(user.index = -1 /\ user.table = 0)
  IN  /\ user.kind = "iterate"
      /\ user' = u
      /\ owed' = owed \ {u.entry}
      /\ got' = got \cup ({u.entry} \ {Nobody})
      /\ twice' = (twice \/ u.entry \in got)
      /\ d' = [d EXCEPT !.pauserehash = CASE u.kind = "iterated" /\ started -> @ - 1
                                          [] u.kind = "iterate" /\ ~started -> @ + 1
                                          [] OTHER -> @]
      /\ UNCHANGED <<policy, keys>>

(* dictReleaseIterator before the end. *)
Release ==
  /\ user.kind = "iterate"
  /\ user' = Idle
  /\ d' = [d EXCEPT !.pauserehash = IF user.index = -1 /\ user.table = 0 THEN @ ELSE @ - 1]
  /\ owed' = {} /\ got' = {} /\ twice' = FALSE
  /\ UNCHANGED <<policy, keys>>

Finish ==
  /\ user.kind \in {"scanned", "iterated"}
  /\ user' = Idle /\ owed' = {} /\ got' = {} /\ twice' = FALSE
  /\ UNCHANGED <<d, policy, keys>>

-----------------------------------------------------------------------------
Init ==
  /\ d = Empty /\ policy = "enable" /\ keys = {}
  /\ user = Idle /\ owed = {} /\ got = {} /\ twice = FALSE

Next ==
  \/ \E k \in Keys : Add(k) \/ Find(k) \/ GenericDelete(k) \/ TwoPhaseUnlink(k)
  \/ \E size \in Sizes : ResizeRequest(size)
  \/ \E p \in Policies \ {policy} : SetPolicy(p)
  \/ \E kind \in {"scan", "iterate"} : Begin(kind)
  \/ Cron \/ Clear \/ Scan \/ DictNext \/ Release \/ Finish

Spec == Init /\ [][Next]_vars

-----------------------------------------------------------------------------
(* Properties. *)

(* A lookup finds exactly the keys that were added and not deleted, at      *)
(* whatever point a resize is, the step of rehashing the lookup itself      *)
(* makes included; each has one entry, and the counters are exact.          *)
LookupsFind ==
  /\ \A k \in Keys : (k \in keys <=> Found(k)) /\ Cardinality(Places(k)) = IF k \in keys THEN 1 ELSE 0
  /\ DictSize(d) = Cardinality(keys)

(* A scan that is over has returned every key that was in the dict from its *)
(* start to its end, however the table was resized between its calls.       *)
ScanComplete == user.kind = "scanned" => owed = {}

(* A safe iteration returns every key that stayed in the dict, and none     *)
(* twice, although entries are added, found and deleted meanwhile.          *)
IterationExact == ~twice /\ (user.kind = "iterated" => owed = {})

=============================================================================
