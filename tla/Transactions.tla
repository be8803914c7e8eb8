----------------------------- MODULE Transactions -----------------------------
(***************************************************************************)
(* MULTI, EXEC, DISCARD, WATCH and UNWATCH of the vendored Redis server    *)
(* (multi.c), with what touches watched keys: writes, deletions, expiry,   *)
(* FLUSHDB and SWAPDB (db.c). Commands run one at a time, in the server's  *)
(* main thread.                                                            *)
(***************************************************************************)
EXTENDS Integers, Sequences, FiniteSets

CONSTANTS
  Clients, Dbs, Keys,
  Roles,            \* "master", "replica" (read only): the role is fixed for a run
  MaxWrites,        \* bound: writes, that is versions of the values
  MaxSent           \* bound: commands sent in one transaction

Places == Dbs \X Keys

VARIABLES
  role,
  data,       \* at each place: the version of the value (0: no key), and whether its TTL is over
  watched,    \* db->watched_keys: at each place a list of watchedKey
  client,     \* the flags and the queue of each client
  writes,
  swapped,    \* history: whether SWAPDB has been called
  sent,       \* history: commands sent since MULTI
  changed     \* history: whether a watched key has changed, for readers, since WATCH

vars == <<role, data, watched, client, writes, swapped, sent, changed>>

NoKey == [version |-> 0, expired |-> FALSE]

Fresh == [multi |-> FALSE, dirtyCas |-> FALSE, dirtyExec |-> FALSE, queue |-> <<>>]

(* What the keyspace, the watchers and the clients are, as one value. *)
Server == [data |-> data, watched |-> watched, client |-> client, writes |-> writes]

Exists(s, p) == s.data[p].version # 0

(* What a reader sees: an expired key is not there. *)
Logical(d, p) == IF d[p].expired THEN 0 ELSE d[p].version

-----------------------------------------------------------------------------
(* watched keys *)

Watchers(s, p) == {s.watched[p][i].client : i \in DOMAIN s.watched[p]}

(* The entries of a list that are not of the clients in cs. *)
Others(list, cs) ==
  LET kept[i \in 0 .. Len(list)] ==
        IF i = 0 THEN <<>>
        ELSE IF list[i].client \in cs THEN kept[i - 1] ELSE Append(kept[i - 1], list[i])
  IN  kept[Len(list)]

UnwatchAllKeys(s, cs) == [s EXCEPT !.watched = [p \in Places |-> Others(s.watched[p], cs)]]

MarkDirty(s, cs) ==
  [s EXCEPT !.client = [c \in Clients |-> IF c \in cs THEN [s.client[c] EXCEPT !.dirtyCas = TRUE]
                                          ELSE s.client[c]]]

(* An entry made when the key was already expired stops the loop, unless   *)
(* the key is gone: then only its flag is cleared.                         *)
TouchWatchedKey(s, p) ==
  LET list == s.watched[p]
      reached == {i \in DOMAIN list : Exists(s, p) => \A j \in 1 .. i : ~list[j].expired}
      touched == {list[i].client : i \in {j \in reached : ~list[j].expired}}
      cleared == [s EXCEPT !.watched[p] =
                    [i \in DOMAIN list |-> IF i \in reached THEN [list[i] EXCEPT !.expired = FALSE]
                                           ELSE list[i]]]
  IN  UnwatchAllKeys(MarkDirty(cleared, touched), touched)

(* touchAllWatchedKeysInDb: the entry of a watched place of a database     *)
(* that is replaced by other, or emptied (other = {}).                     *)
Replaced(s, w, here, other) ==
  LET there == \E p \in other : Exists(s, p)
      expiredThere == \E p \in other : s.data[p].expired
  IN  CASE ~Exists(s, here) /\ ~there -> "same"
        [] w.expired /\ Exists(s, here) /\ ~there -> "deleted"
        [] w.expired /\ expiredThere -> "same"
        [] ~w.expired /\ ~Exists(s, here) /\ expiredThere -> "expired"
        [] OTHER -> "touched"

TouchAllWatchedKeysInDb(s, db, other) ==
  LET At(p, w) == Replaced(s, w, p, {<<o, p[2]>> : o \in other})
      Entry(p, w) == CASE At(p, w) = "deleted" -> [w EXCEPT !.expired = FALSE]
                       [] At(p, w) = "expired" -> [w EXCEPT !.expired = TRUE]
                       [] OTHER -> w
      touched == {c \in Clients : \E p \in {db} \X Keys : \E i \in DOMAIN s.watched[p] :
                    s.watched[p][i].client = c /\ At(p, s.watched[p][i]) = "touched"}
  IN  [MarkDirty(s, touched) EXCEPT !.watched =
         [p \in Places |-> IF p[1] # db THEN s.watched[p]
                           ELSE [i \in DOMAIN s.watched[p] |-> Entry(p, s.watched[p][i])]]]

-----------------------------------------------------------------------------
(* The keyspace. Every write and deletion ends with signalModifiedKey. *)

DbDelete(s, p) ==
  IF Exists(s, p) THEN TouchWatchedKey([s EXCEPT !.data[p] = NoKey], p) ELSE s

(* Mutant: an expired key is never deleted before it is written. *)
ExpireIfNeeded_Never(s, p) == s

(* A replica leaves the deletion of an expired key to its master. *)
ExpireIfNeeded(s, p) == IF s.data[p].expired /\ role = "master" THEN DbDelete(s, p) ELSE s

(* setKey, which looks the key up for writing first. *)
SetKey(s, p) ==
  LET t == ExpireIfNeeded(s, p)
  IN  TouchWatchedKey([t EXCEPT !.data[p] = [version |-> t.writes + 1, expired |-> FALSE],
                                !.writes = @ + 1], p)

FlushDb(s, db) ==
  LET t == TouchAllWatchedKeysInDb(s, db, {})
  IN  [t EXCEPT !.data = [p \in Places |-> IF p[1] = db THEN NoKey ELSE t.data[p]]]

DbSwapDatabases(s, d1, d2) ==
  LET t == TouchAllWatchedKeysInDb(TouchAllWatchedKeysInDb(s, d1, {d2}), d2, {d1})
      Other(d) == CASE d = d1 -> d2 [] d = d2 -> d1 [] OTHER -> d
  IN  [t EXCEPT !.data = [p \in Places |-> t.data[<<Other(p[1]), p[2]>>]]]

-----------------------------------------------------------------------------
(* Transactions *)

DiscardTransaction(s, c) == UnwatchAllKeys([s EXCEPT !.client[c] = Fresh], {c})

IsWatchedKeyExpired(s, c) ==
  \E p \in Places : /\ s.data[p].expired
                    /\ \E i \in DOMAIN s.watched[p] :
                         s.watched[p][i] = [client |-> c, expired |-> FALSE]

(* EXEC would run the queued commands. *)
Runs(s, c) == ~(s.client[c].dirtyCas \/ s.client[c].dirtyExec \/ IsWatchedKeyExpired(s, c))

(* The loop of execCommand over the queue. *)
Call(s, places) ==
  LET ran[i \in 0 .. Len(places)] == IF i = 0 THEN s ELSE SetKey(ran[i - 1], places[i])
  IN  ran[Len(places)]

(* The new state of the server, and the histories: those of the clients in *)
(* over start again.                                                       *)
Becomes(s, over) ==
  /\ data' = s.data /\ watched' = s.watched /\ client' = s.client /\ writes' = s.writes
  /\ changed' = [c \in Clients |->
                   /\ c \notin over
                   /\ \/ changed[c]
                      \/ \E p \in Places : c \in Watchers(Server, p) /\ Logical(data, p) # Logical(s.data, p)]
  /\ sent' = [c \in Clients |-> IF c \in over THEN <<>> ELSE sent[c]]
  /\ UNCHANGED role

Become(s, over) == Becomes(s, over) /\ UNCHANGED swapped

Multi(c) ==
  /\ ~client[c].multi
  /\ Become([Server EXCEPT !.client[c].multi = TRUE], {})

QueueMultiCommand(c, p) ==
  IF client[c].dirtyCas \/ client[c].dirtyExec THEN client[c]
  ELSE [client[c] EXCEPT !.queue = Append(@, p)]

(* rejectCommand, in MULTI: flagTransaction *)
RejectCommand(c) == [client[c] EXCEPT !.dirtyExec = TRUE]

(* A command inside MULTI, SET for definiteness, is queued by              *)
(* processCommand, or rejected, as a write is on a replica, which flags    *)
(* the transaction.                                                        *)
ProcessCommand(c, p) ==
  /\ client[c].multi /\ Len(sent[c]) < MaxSent
  /\ \/ role = "master" /\ client' = [client EXCEPT ![c] = QueueMultiCommand(c, p)]
     \/ client' = [client EXCEPT ![c] = RejectCommand(c)]
  /\ sent' = [sent EXCEPT ![c] = Append(@, p)]
  /\ UNCHANGED <<role, data, watched, writes, swapped, changed>>

Exec(c) ==
  /\ client[c].multi
  /\ writes + Len(client[c].queue) <= MaxWrites
  /\ IF Runs(Server, c)
     THEN Become(DiscardTransaction(Call(UnwatchAllKeys(Server, {c}), client[c].queue), c), {c})
     ELSE Become(DiscardTransaction(Server, c), {c})

(* DISCARD, RESET, and the end of the connection; the latter two also      *)
(* outside of MULTI.                                                       *)
Discard(c) == Become(DiscardTransaction(Server, c), {c})

WatchForKey(s, c, p) ==
  IF c \in Watchers(s, p) THEN s
  ELSE [s EXCEPT !.watched[p] = Append(@, [client |-> c, expired |-> s.data[p].expired])]

Watch(c, p) ==
  /\ ~client[c].multi /\ ~client[c].dirtyCas
  /\ Become(WatchForKey(Server, c, p), {})

(* Inside MULTI, UNWATCH is queued like other commands. *)
Unwatch(c) ==
  /\ ~client[c].multi
  /\ Become([UnwatchAllKeys(Server, {c}) EXCEPT !.client[c].dirtyCas = FALSE], {c})

-----------------------------------------------------------------------------
(* Everybody else: commands of clients outside of MULTI and, on a replica, *)
(* of the master.                                                          *)

Write(p) == writes < MaxWrites /\ Become(SetKey(Server, p), {})

Delete(p) == Exists(Server, p) /\ Become(DbDelete(Server, p), {})

(* Time passes the TTL of a key. *)
TtlPasses(p) ==
  /\ Exists(Server, p) /\ ~data[p].expired
  /\ Become([Server EXCEPT !.data[p].expired = TRUE], {})

(* Active expiry, or a read of the key. *)
Expire(p) == data[p].expired /\ role = "master" /\ Become(ExpireIfNeeded(Server, p), {})

Flush(db) == Become(FlushDb(Server, db), {})

SwapDb(d1, d2) == d1 # d2 /\ Becomes(DbSwapDatabases(Server, d1, d2), {}) /\ swapped' = TRUE

Init ==
  /\ role \in Roles
  /\ data = [p \in Places |-> NoKey]
  /\ watched = [p \in Places |-> <<>>]
  /\ client = [c \in Clients |-> Fresh]
  /\ writes = 0
  /\ swapped = FALSE
  /\ sent = [c \in Clients |-> <<>>]
  /\ changed = [c \in Clients |-> FALSE]

Next ==
  \/ \E c \in Clients : Multi(c) \/ Exec(c) \/ Discard(c) \/ Unwatch(c)
  \/ \E c \in Clients, p \in Places : ProcessCommand(c, p) \/ Watch(c, p)
  \/ \E p \in Places : Write(p) \/ Delete(p) \/ TtlPasses(p) \/ Expire(p)
  \/ \E db \in Dbs : Flush(db)
  \/ \E d1, d2 \in Dbs : SwapDb(d1, d2)

Spec == Init /\ [][Next]_vars

-----------------------------------------------------------------------------
(* Properties. *)

(* EXEC is exact. It would run only with every command the client sent,    *)
(* and on a master only if no key the client watches has changed for       *)
(* readers since WATCH, not even and back, by any mix of writes,           *)
(* deletions, expiry and FLUSHDB (not so on a replica, or after SWAPDB:    *)
(* see TouchedByWrites). And it is refused as dirty only if such a key has *)
(* changed: one that expired before and is now deleted has not.            *)
CheckAndSet ==
  \A c \in Clients :
    /\ Runs(Server, c) => client[c].queue = sent[c] /\ (role = "master" /\ ~swapped => ~changed[c])
    /\ client[c].dirtyCas => changed[c]

-----------------------------------------------------------------------------
(* What multi.c says and the code does not do. *)

(* A key is touched "so that if this key is being WATCHed by some client   *)
(* the next EXEC will fail".                                               *)
TouchedByWrites == \A c \in Clients : Runs(Server, c) => ~changed[c]

=============================================================================
