-------------------------------- MODULE KVStore --------------------------------
(***************************************************************************)
(* The keyspace of Redis as an array of dicts, one for each cluster slot   *)
(* (src/redis-stable/src/kvstore.c): the binary indexed tree of cumulative *)
(* key counts that finds the next dict with keys, the dicts created and    *)
(* freed as keys come and go, the cursor that scans across dicts and the   *)
(* iterator over all of them. A dict is the set of its keys; what one call *)
(* of dictScan returns is left open, a scan of one dict being complete     *)
(* (module Dict).                                                          *)
(***************************************************************************)
EXTENDS Integers, FiniteSets, FiniteSetsExt

CONSTANTS
  DictBits,          \* num_dicts_bits
  Keys, DictOf(_),   \* the keys, and the dict each belongs in
  Nobody

NumDicts == 2^DictBits

Indexes == 0 .. NumDicts - 1

VARIABLES
  dicts,     \* each dict: its keys, whether it is allocated, whether rehashing is paused
  index,     \* dict_size_index
  counts,    \* key_count, non_empty_dicts, allocated_dicts
  scan,      \* the scan in progress: the dict, and what is left of it, in its cursor
  iter,      \* the iterator in progress
  owed       \* history: keys in the store ever since the scan or iteration began, not returned

vars == <<dicts, index, counts, scan, iter, owed>>

-----------------------------------------------------------------------------
(* The binary indexed tree. *)

LowBit(i) == Max({p \in {2^n : n \in 0 .. DictBits} : i % p = 0})

RECURSIVE Down(_)
Down(i) == IF i <= 0 THEN {} ELSE {i} \cup Down(i - LowBit(i))

RECURSIVE Up(_)
Up(i) == IF i > NumDicts THEN {} ELSE {i} \cup Up(i + LowBit(i))

CumulativeKeyCountRead(didx) ==
  IF NumDicts = 1 THEN counts.keys ELSE MapThenSumSet(LAMBDA i : index[i], Down(didx + 1))

RECURSIVE Descend(_, _, _)
Descend(result, i, target) ==
  IF i = 0 THEN result
  ELSE IF target > index[result + i]
  THEN Descend(result + i, i \div 2, target - index[result + i])
  ELSE Descend(result, i \div 2, target)

FindDictIndexByKeyIndex(target) ==
  IF NumDicts = 1 \/ counts.keys = 0 THEN 0 ELSE Descend(0, NumDicts, target)

GetNextNonEmptyDictIndex(didx) ==
  LET next == CumulativeKeyCountRead(didx) + 1
  IN  IF NumDicts = 1 \/ next > counts.keys THEN -1 ELSE FindDictIndexByKeyIndex(next)

-----------------------------------------------------------------------------
(* Keys come and go. *)

Freed(ds, didx) ==
  ds[didx].keys = {} /\ ds[didx].allocated /\ ~ds[didx].paused

FreeDictIfNeeded(ds, didx) == IF Freed(ds, didx) THEN [ds EXCEPT ![didx].allocated = FALSE] ELSE ds

CumulativeKeyCountAdd(c, ds, didx, delta) ==
  LET n == Cardinality(ds[didx].keys)
  IN  [c EXCEPT !.keys = @ + delta,
                !.nonEmpty = @ + IF n = 1 /\ delta > 0 THEN 1 ELSE IF n = 0 THEN -1 ELSE 0]

IndexAdd(didx, delta) ==
  index' = [i \in DOMAIN index |-> IF NumDicts > 1 /\ i \in Up(didx + 1) THEN index[i] + delta ELSE index[i]]

(* kvstoreDictAddRaw *)
Add(k) ==
  LET n == DictOf(k)
      ds == [dicts EXCEPT ![n].allocated = TRUE, ![n].keys = @ \cup {k}]
      c == [counts EXCEPT !.allocated = @ + IF dicts[n].allocated THEN 0 ELSE 1]
  IN  /\ dicts' = ds
      /\ IF k \in dicts[n].keys THEN counts' = c /\ UNCHANGED index
         ELSE counts' = CumulativeKeyCountAdd(c, ds, n, 1) /\ IndexAdd(n, 1)
      /\ UNCHANGED <<scan, iter, owed>>

(* kvstoreDictDelete and the two-phase unlink; whoever iterates deletes     *)
(* only the key the iterator is at.                                         *)
Delete(k) ==
  LET n == DictOf(k)
      ds == [dicts EXCEPT ![n].keys = @ \ {k}]
      c == CumulativeKeyCountAdd(counts, ds, n, -1)
  IN  /\ k \in dicts[n].keys /\ (iter.active => iter.at = k)
      /\ dicts' = FreeDictIfNeeded(ds, n)
      /\ counts' = [c EXCEPT !.allocated = @ - IF Freed(ds, n) THEN 1 ELSE 0]
      /\ IndexAdd(n, -1)
      /\ owed' = owed \ {k}
      /\ iter' = [iter EXCEPT !.at = Nobody]
      /\ UNCHANGED scan

NoCounts == [keys |-> 0, nonEmpty |-> 0, allocated |-> 0]

(* kvstoreEmpty *)
Clear ==
  /\ ~iter.active
  /\ dicts' = [n \in Indexes |-> [keys |-> {}, allocated |-> FALSE, paused |-> FALSE]]
  /\ index' = [i \in DOMAIN index |-> 0]
  /\ counts' = NoCounts /\ owed' = {}
  /\ UNCHANGED <<scan, iter>>

-----------------------------------------------------------------------------
(* The scan across dicts. The cursor is 0 when the scan begins and ends;    *)
(* between calls it holds the dict's index, and dictScan's position there.  *)

NoScan == [active |-> FALSE, done |-> FALSE, didx |-> 0, middle |-> FALSE]

NoIter == [active |-> FALSE, done |-> FALSE, didx |-> -1, next |-> -1, at |-> Nobody, left |-> {}]

ScanBegin ==
  /\ scan = NoScan /\ iter = NoIter
  /\ scan' = [NoScan EXCEPT !.active = TRUE]
  /\ owed' = UNION {dicts[n].keys : n \in Indexes}
  /\ UNCHANGED <<dicts, index, counts, iter>>

(* Mutant: a dict that is gone ends the scan. *)
NextScan_Gone(n) ==
  LET next == GetNextNonEmptyDictIndex(n)
  IN  IF next = -1 \/ ~dicts[n].allocated
      THEN [NoScan EXCEPT !.done = TRUE] ELSE [NoScan EXCEPT !.active = TRUE, !.didx = next]

NextScan(n) ==
  LET next == GetNextNonEmptyDictIndex(n)
  IN  IF next = -1 THEN [NoScan EXCEPT !.done = TRUE] ELSE [NoScan EXCEPT !.active = TRUE, !.didx = next]

(* kvstoreScan: one call of dictScan, which goes on in the same dict or     *)
(* ends it; a dict that is gone is skipped.                                 *)
Scan ==
  LET n == scan.didx
  IN  /\ scan.active
      /\ \/ /\ dicts[n].allocated /\ ~scan.middle /\ dicts[n].keys # {}
            /\ \E some \in SUBSET dicts[n].keys : owed' = owed \ some
            /\ scan' = [scan EXCEPT !.middle = TRUE]
         \/ /\ dicts[n].allocated
            /\ owed' = owed \ dicts[n].keys
            /\ scan' = NextScan(n)
         \/ /\ ~dicts[n].allocated
            /\ scan' = NextScan(n) /\ UNCHANGED owed
      /\ UNCHANGED <<dicts, index, counts, iter>>

-----------------------------------------------------------------------------
(* The iterator over all dicts. *)

IterBegin ==
  /\ scan = NoScan /\ iter = NoIter
  /\ iter' = [NoIter EXCEPT !.active = TRUE, !.next = FindDictIndexByKeyIndex(1)]
  /\ owed' = UNION {dicts[n].keys : n \in Indexes}
  /\ UNCHANGED <<dicts, index, counts, scan>>

Reset(ds, didx) ==
  IF didx = -1 THEN ds ELSE FreeDictIfNeeded([ds EXCEPT ![didx].paused = FALSE], didx)

Dropped(didx) == didx # -1 /\ Freed([dicts EXCEPT ![didx].paused = FALSE], didx)

(* The next entry of the dict the iterator is in (it stays paused). *)
IterNextEntry ==
  /\ iter.active /\ iter.left # {}
  /\ \E k \in iter.left :
       iter' = [iter EXCEPT !.at = k, !.left = @ \ {k}] /\ owed' = owed \ {k}
  /\ UNCHANGED <<dicts, index, counts, scan>>

(* kvstoreIteratorNextDict: the dict left may now be freed, and the one     *)
(* after the next is looked up; a next dict that is gone ends the walk.     *)
IterNextDict ==
  LET n == iter.next
      ds == IF iter.didx # -1 /\ dicts[iter.didx].allocated THEN Reset(dicts, iter.didx) ELSE dicts
  IN  /\ iter.active /\ iter.left = {} /\ n # -1
      /\ counts' = [counts EXCEPT !.allocated = @ - IF Dropped(iter.didx) THEN 1 ELSE 0]
      /\ IF ds[n].allocated
         THEN /\ dicts' = [ds EXCEPT ![n].paused = TRUE]
              /\ IF ds[n].keys = {}
                 THEN iter' = [iter EXCEPT !.didx = n, !.next = GetNextNonEmptyDictIndex(n), !.at = Nobody]
                 ELSE \E k \in ds[n].keys :
                        iter' = [iter EXCEPT !.didx = n, !.next = GetNextNonEmptyDictIndex(n),
                                             !.at = k, !.left = ds[n].keys \ {k}]
              /\ owed' = owed \ {iter'.at}
         ELSE dicts' = ds /\ iter' = [NoIter EXCEPT !.done = TRUE] /\ UNCHANGED owed
      /\ UNCHANGED <<index, scan>>

(* kvstoreIteratorRelease, at the end. *)
IterRelease ==
  /\ iter.active /\ iter.left = {} /\ iter.next = -1
  /\ dicts' = Reset(dicts, iter.didx)
  /\ counts' = [counts EXCEPT !.allocated = @ - IF Dropped(iter.didx) THEN 1 ELSE 0]
  /\ iter' = [NoIter EXCEPT !.done = TRUE]
  /\ UNCHANGED <<index, scan, owed>>

Finish ==
  /\ scan.done \/ iter.done
  /\ scan' = NoScan /\ iter' = NoIter /\ owed' = {}
  /\ UNCHANGED <<dicts, index, counts>>

-----------------------------------------------------------------------------
Init ==
  /\ dicts = [n \in Indexes |-> [keys |-> {}, allocated |-> FALSE, paused |-> FALSE]]
  /\ index = [i \in 1 .. NumDicts |-> 0]
  /\ counts = NoCounts
  /\ scan = NoScan /\ iter = NoIter /\ owed = {}

Next ==
  \/ \E k \in Keys : Add(k) \/ Delete(k)
  \/ Clear \/ ScanBegin \/ Scan \/ IterBegin \/ IterNextEntry \/ IterNextDict \/ IterRelease \/ Finish

Spec == Init /\ [][Next]_vars

-----------------------------------------------------------------------------
(* Properties. *)

NonEmpty == {n \in Indexes : dicts[n].keys # {}}

(* The store's counters and its binary indexed tree agree with the dicts   *)
(* through any adds and deletes, dicts that are created, emptied while an  *)
(* iterator pauses them and freed later: looking a key up by its position  *)
(* among all keys finds the dict that holds it, and the dict after a given *)
(* one is the next that has keys. So a scan across the dicts that is over  *)
(* has returned every key that was there from its start to its end, and an *)
(* iteration too.                                                          *)
KeyspaceExact ==
  /\ counts.keys = MapThenSumSet(LAMBDA n : Cardinality(dicts[n].keys), Indexes)
  /\ counts.nonEmpty = Cardinality(NonEmpty)
  /\ counts.allocated = Cardinality({n \in Indexes : dicts[n].allocated})
  /\ \A target \in 1 .. counts.keys :
       LET n == FindDictIndexByKeyIndex(target)
           before == MapThenSumSet(LAMBDA m : Cardinality(dicts[m].keys), 0 .. n - 1)
       IN  before < target /\ target <= before + Cardinality(dicts[n].keys)
  /\ \A n \in Indexes : LET later == {m \in NonEmpty : m > n}
                        IN  GetNextNonEmptyDictIndex(n) = IF later = {} THEN -1 ELSE Min(later)
  /\ scan.done \/ iter.done => owed = {}

=============================================================================
