------------------------------ MODULE MemoryCache ------------------------------
(***************************************************************************)
(* MemoryCacheService with the operations it inherits from CacheService    *)
(* (src/src/infrastructure/services/CacheService.ts). Operations started   *)
(* together interleave at their awaits; a timer fires only when none is    *)
(* under way, since all of their awaits are of settled promises. Entries   *)
(* are numbered, and their values and the statistics are left out.         *)
(***************************************************************************)
EXTENDS Integers, FiniteSets

CONSTANTS
  Keys, Tags,
  Ttls,                  \* times to live that callers give; 0 for none
  MaxSets, MaxTime,      \* bounds
  Operations             \* operations that may be under way at once

VARIABLES
  now,
  cache,      \* the entry of each key, or NoEntry
  tagIndex,   \* the keys recorded under each tag
  timers,     \* expiry timers: the key and when it is due
  op,         \* the operations under way
  sets        \* entries made so far

vars == <<now, cache, tagIndex, timers, op, sets>>

NoEntry == [id |-> 0, tags |-> {}, expires |-> 0]

Idle == [pc |-> "idle", key |-> "none", tags |-> {}, expired |-> FALSE, keys |-> {}, owed |-> {}]

Quiet == \A o \in Operations : op[o] = Idle

Becomes(o, new) == op' = [op EXCEPT ![o] = new]

-----------------------------------------------------------------------------
(* Mutant: a tag's whole set is removed with one of its keys. *)
Untag_All(k) == [t \in Tags |-> IF t \in cache[k].tags THEN {} ELSE tagIndex[t]]

Untag(k) == [t \in Tags |-> IF t \in cache[k].tags THEN tagIndex[t] \ {k} ELSE tagIndex[t]]

(* doDelete: the tags are those of the entry that is there now. *)
DoDelete(k) ==
  /\ tagIndex' = Untag(k)
  /\ cache' = [cache EXCEPT ![k] = NoEntry]

(* set up to the await of doSet. *)
Set(o, k, tags, ttl) ==
  /\ op[o] = Idle /\ sets < MaxSets /\ sets' = sets + 1
  /\ cache' = [cache EXCEPT ![k] = [id |-> sets', tags |-> tags,
                                    expires |-> IF ttl = 0 THEN 0 ELSE now + ttl]]
  /\ timers' = IF ttl = 0 THEN timers ELSE timers \cup {<<k, now + ttl>>}
  /\ Becomes(o, [Idle EXCEPT !.pc = "tag", !.key = k, !.tags = tags])
  /\ UNCHANGED <<now, tagIndex>>

TagKeys(o) ==
  /\ op[o].pc = "tag"
  /\ tagIndex' = [t \in Tags |-> IF t \in op[o].tags THEN tagIndex[t] \cup {op[o].key} ELSE tagIndex[t]]
  /\ Becomes(o, Idle)
  /\ UNCHANGED <<now, cache, timers, sets>>

(* get: the entry is read, and checked after an await; a key whose entry   *)
(* had expired is deleted, whatever entry it has by then.                  *)
Get(o, k) ==
  /\ op[o] = Idle /\ cache[k] # NoEntry
  /\ Becomes(o, [Idle EXCEPT !.pc = "check", !.key = k,
                             !.expired = cache[k].expires # 0 /\ cache[k].expires < now])
  /\ UNCHANGED <<now, cache, tagIndex, timers, sets>>

CheckExpiration(o) ==
  /\ op[o].pc = "check"
  /\ IF op[o].expired THEN DoDelete(op[o].key) ELSE UNCHANGED <<cache, tagIndex>>
  /\ Becomes(o, Idle)
  /\ UNCHANGED <<now, timers, sets>>

Delete(k) ==
  /\ DoDelete(k)
  /\ UNCHANGED <<now, timers, op, sets>>

Clear ==
  /\ cache' = [k \in Keys |-> NoEntry] /\ tagIndex' = [t \in Tags |-> {}]
  /\ UNCHANGED <<now, timers, op, sets>>

(* The entries of a tag whose set has returned. *)
Settled(t) ==
  {cache[k].id : k \in {k \in Keys : /\ t \in cache[k].tags
                                     /\ \A o \in Operations : op[o].pc = "tag" => op[o].key # k}}

(* invalidateByTags for one tag: the keys are read, then deleted one by one. *)
InvalidateByTags(o, t) ==
  /\ op[o] = Idle
  /\ Becomes(o, [Idle EXCEPT !.pc = "invalidate", !.keys = tagIndex[t], !.owed = Settled(t)])
  /\ UNCHANGED <<now, cache, tagIndex, timers, sets>>

InvalidateNext(o) ==
  /\ op[o].pc = "invalidate"
  /\ \/ \E k \in op[o].keys :
          DoDelete(k) /\ Becomes(o, [op[o] EXCEPT !.keys = @ \ {k}])
     \/ op[o].keys = {} /\ Becomes(o, [op[o] EXCEPT !.pc = "invalidated"]) /\ UNCHANGED <<cache, tagIndex>>
  /\ UNCHANGED <<now, timers, sets>>

Return(o) ==
  /\ op[o].pc = "invalidated" /\ Becomes(o, Idle)
  /\ UNCHANGED <<now, cache, tagIndex, timers, sets>>

(* The timer of an entry deletes its key, whatever entry it has by then. *)
TimerFires ==
  /\ Quiet
  /\ \E m \in timers : m[2] <= now /\ DoDelete(m[1]) /\ timers' = timers \ {m}
  /\ UNCHANGED <<now, op, sets>>

Tick ==
  /\ Quiet /\ now < MaxTime /\ now' = now + 1
  /\ UNCHANGED <<cache, tagIndex, timers, op, sets>>

Init ==
  /\ now = 1 /\ cache = [k \in Keys |-> NoEntry] /\ tagIndex = [t \in Tags |-> {}]
  /\ timers = {} /\ op = [o \in Operations |-> Idle] /\ sets = 0

Next ==
  \/ \E o \in Operations :
       \/ \E k \in Keys, tags \in SUBSET Tags, ttl \in Ttls : Set(o, k, tags, ttl)
       \/ \E k \in Keys : Get(o, k)
       \/ \E t \in Tags : InvalidateByTags(o, t)
       \/ TagKeys(o) \/ CheckExpiration(o) \/ InvalidateNext(o) \/ Return(o)
  \/ \E k \in Keys : Delete(k)
  \/ Clear \/ TimerFires \/ Tick

Spec == Init /\ [][Next]_vars

-----------------------------------------------------------------------------
(* Properties. *)

(* invalidateByTags reaches every entry of the tag that was completely set *)
(* when it began: when it returns none of them is cached, although sets,   *)
(* deletions and expiries of the same keys interleave with it and came     *)
(* before it in any order.                                                 *)
InvalidationComplete ==
  \A o \in Operations : op[o].pc = "invalidated" => \A k \in Keys : cache[k].id \notin op[o].owed

=============================================================================
