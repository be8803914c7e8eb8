------------------------------- MODULE Tracking -------------------------------
(***************************************************************************)
(* Server-assisted client side caching of the vendored Redis server        *)
(* (tracking.c). Commands run one at a time in the main thread; a command  *)
(* is a transaction of any number of reads and writes. The messages of one *)
(* connection arrive in order, so a client is described by the copies it   *)
(* holds once it has read all that was sent to it. RESP3 clients without   *)
(* REDIRECT.                                                               *)
(***************************************************************************)
EXTENDS Integers, Sequences, FiniteSets

CONSTANTS
  Clients, Keys,
  Trackers,         \* the clients that ever call CLIENT TRACKING
  Prefixes,         \* each prefix as the set of keys it matches
  PrefixLists,      \* the PREFIX options of CLIENT TRACKING
  TableMaxKeys,     \* tracking-table-max-keys
  MaxVersion,       \* bound: versions of a key
  Nobody, NotDue      \* no client; a key that waits for no broadcast

ASSUME TrackingAssumption ==
  /\ Nobody \notin Clients /\ NotDue \notin Clients /\ Nobody # NotDue
  /\ Trackers \subseteq Clients
  /\ Prefixes \subseteq SUBSET Keys /\ Keys \in Prefixes
  /\ PrefixLists \subseteq Seq(Prefixes)
  /\ MaxVersion \in Nat /\ TableMaxKeys \in Nat

VARIABLES
  version,    \* of the value of each key; a deletion is a version too
  table,      \* TrackingTable: the clients that may hold a copy of a key
  bcast,      \* PrefixTable: per prefix, the keys to broadcast and who changed each last
  client,     \* the tracking flags and prefixes of each client
  copy,       \* the version each client holds of each key, 0 for none
  current,    \* server.current_client
  executing,  \* its CLIENT_EXECUTING_COMMAND flag
  used,       \* the keys it has read or written; none of them expires meanwhile
  pending,    \* server.tracking_pending_keys
  skipped     \* history: clients left out by NOLOOP of a change that was not theirs

vars == <<version, table, bcast, client, copy, current, executing, used, pending, skipped>>

Modes == {"off", "default", "optin", "optout", "bcast"}

Off == [mode |-> "off", noloop |-> FALSE, caching |-> FALSE, prefixes |-> {}]

Tracks(c) == client[c].mode # "off"

-----------------------------------------------------------------------------
(* CLIENT TRACKING and CLIENT CACHING *)

Overlap(p, q) == p \cap q # {}

(* checkPrefixCollisionsOrReply returns the index, from 0, of a prefix     *)
(* that overlaps another of the same call, and 0 stands for a collision.   *)
Collides(c, ps) ==
  \E i \in DOMAIN ps :
    /\ \A h \in 1 .. i - 1 : \A j \in h + 1 .. Len(ps) : ~Overlap(ps[h], ps[j])
    /\ \/ \E p \in client[c].prefixes : Overlap(p, ps[i])
       \/ i = 1 /\ \E j \in 2 .. Len(ps) : Overlap(ps[1], ps[j])

(* Not while tracking with, or without, BCAST; nor from OPTIN to OPTOUT. *)
Compatible(c, mode) ==
  /\ Tracks(c) => (mode = "bcast") = (client[c].mode = "bcast")
  /\ {mode, client[c].mode} # {"optin", "optout"}

(* A client that asks for NOLOOP answers for its own writes from then on:  *)
(* it drops its copies of the keys it was the last to change.              *)
EnableTracking(c, mode, noloop, ps) ==
  /\ current = Nobody
  /\ mode # "off" /\ (mode = "bcast" \/ ps = <<>>)
  /\ Compatible(c, mode)
  /\ mode = "bcast" => ~Collides(c, ps)
  /\ client' = [client EXCEPT
       ![c] = [mode |-> mode, noloop |-> noloop, caching |-> client[c].caching,
               prefixes |-> IF mode # "bcast" THEN {}
                            ELSE client[c].prefixes \cup
                                 (IF ps = <<>> THEN {Keys} ELSE {ps[i] : i \in DOMAIN ps})]]
  /\ copy' = [copy EXCEPT ![c] = [k \in Keys |-> IF noloop /\ \E p \in Prefixes : bcast[p][k] = c
                                                 THEN 0 ELSE @[k]]]
  /\ UNCHANGED <<version, table, bcast, current, executing, used, pending, skipped>>

(* CLIENT TRACKING off: the client empties its cache. Its entries in the   *)
(* table stay; a prefix nobody follows any more is removed.                *)
DisableTracking(c) ==
  /\ current = Nobody /\ Tracks(c)
  /\ client' = [client EXCEPT ![c] = Off]
  /\ copy' = [copy EXCEPT ![c] = [k \in Keys |-> 0]]
  /\ bcast' = [p \in Prefixes |-> IF \E d \in Clients \ {c} : p \in client[d].prefixes
                                  THEN bcast[p] ELSE [k \in Keys |-> NotDue]]
  /\ skipped' = skipped \ {c}
  /\ UNCHANGED <<version, table, current, executing, used, pending>>

(* CLIENT CACHING: for the next command or transaction only. *)
ClientCaching(c) ==
  /\ current = Nobody /\ client[c].mode \in {"optin", "optout"}
  /\ client' = [client EXCEPT ![c].caching = TRUE]
  /\ UNCHANGED <<version, table, bcast, copy, current, executing, used, pending, skipped>>

-----------------------------------------------------------------------------
(* Invalidation *)

(* The copies left once every client of cs[k] has been told of key k. *)
Told(cs) == [c \in Clients |-> [k \in Keys |-> IF c \in cs[k] THEN 0 ELSE copy[c][k]]]

Remembered(k) == {c \in table[k] : client[c].mode \in {"default", "optin", "optout"}}

(* The message for the client that executes comes after its reply. *)
Scheduled(c) == c = current /\ executing

Silent(c) == c = current /\ client[c].noloop

(* trackingInvalidateKey for each key of ks, without broadcast; and the    *)
(* copies as they are once own has dropped its copies of ks.               *)
InvalidateKeys(ks, own) ==
  LET told == [k \in Keys |->
                 IF k \notin ks THEN {}
                 ELSE {c \in Remembered(k) : ~Silent(c) /\ ~Scheduled(c)} \cup own]
  IN  /\ copy' = Told(told)
      /\ pending' = pending \cup {k \in ks : \E c \in Remembered(k) : ~Silent(c) /\ Scheduled(c)}
      /\ table' = [k \in Keys |-> IF k \in ks THEN {} ELSE table[k]]
      /\ skipped' = skipped \cup ((UNION {{c \in Remembered(k) : Silent(c)} : k \in ks}) \ own)

(* Mutant: a key is added to the broadcast of the first prefix only. *)
RememberKeyToBroadcast_One(by, k) ==
  LET some == CHOOSE p \in Prefixes : k \in p
  IN  bcast' = [bcast EXCEPT ![some] = [@ EXCEPT ![k] = by]]

RememberKeyToBroadcast(by, k) ==
  bcast' = [p \in Prefixes |->
              IF k \in p /\ \E c \in Clients : p \in client[c].prefixes
              THEN [bcast[p] EXCEPT ![k] = by] ELSE bcast[p]]

(* A write of the client that executes. A client with NOLOOP knows what it *)
(* wrote and drops its own copy.                                           *)
Write(k) ==
  /\ executing /\ version[k] < MaxVersion
  /\ version' = [version EXCEPT ![k] = @ + 1]
  /\ RememberKeyToBroadcast(current, k)
  /\ InvalidateKeys({k}, IF client[current].noloop THEN {current} ELSE {})
  /\ used' = used \cup {k}
  /\ UNCHANGED <<client, current, executing>>

(* A key expires or is evicted: in serverCron, before a command or during  *)
(* one; no client made the change.                                         *)
KeyDeleted(k) ==
  /\ version[k] < MaxVersion /\ k \notin used
  /\ version' = [version EXCEPT ![k] = @ + 1]
  /\ RememberKeyToBroadcast(Nobody, k)
  /\ InvalidateKeys({k}, {})
  /\ UNCHANGED <<client, current, executing, used>>

(* FLUSHALL: everyone is told to drop everything; the client that executes *)
(* after its reply.                                                        *)
Flush ==
  /\ executing /\ \A k \in Keys : version[k] < MaxVersion
  /\ version' = [k \in Keys |-> version[k] + 1]
  /\ copy' = Told([k \in Keys |-> {c \in Clients : Tracks(c) /\ c # current}])
  /\ pending' = IF Tracks(current) THEN Keys ELSE pending
  /\ table' = [k \in Keys |-> {}]
  /\ used' = Keys
  /\ UNCHANGED <<bcast, client, current, executing, skipped>>

(* trackingLimitUsedSlots: random keys leave the table, and the clients    *)
(* that may hold them are told.                                            *)
InTable == {k \in Keys : table[k] # {}}

TrackingLimitUsedSlots(ks) ==
  /\ ks \subseteq InTable
  /\ IF Cardinality(InTable) > TableMaxKeys
     THEN Cardinality(InTable \ ks) = TableMaxKeys ELSE ks = {}
  /\ InvalidateKeys(ks, {})

-----------------------------------------------------------------------------
(* A command of a client *)

(* processCommand, up to the eviction of keys. *)
ProcessCommand(c) ==
  /\ current = Nobody
  /\ current' = c
  /\ UNCHANGED <<version, table, bcast, client, copy, executing, used, pending, skipped>>

Call(ks) ==
  /\ current # Nobody /\ ~executing
  /\ TrackingLimitUsedSlots(ks)
  /\ executing' = TRUE
  /\ UNCHANGED <<version, bcast, client, current, used>>

(* The client keeps what it reads if its mode says the server follows it. *)
Caches(c) ==
  \/ client[c].mode \in {"default", "bcast"}
  \/ client[c].mode = "optin" /\ client[c].caching
  \/ client[c].mode = "optout" /\ ~client[c].caching

(* trackingRememberKeys and its caller: the same test on the server. *)
RemembersKeys(c) == Caches(c)

Followed(c, k) == client[c].mode = "bcast" => \E p \in client[c].prefixes : k \in p

(* A read, and trackingRememberKeys. *)
Read(k) ==
  /\ executing
  /\ copy' = IF Caches(current) /\ Followed(current, k)
             THEN [copy EXCEPT ![current][k] = version[k]] ELSE copy
  /\ table' = IF RemembersKeys(current) /\ client[current].mode # "bcast"
              THEN [table EXCEPT ![k] = @ \cup {current}] ELSE table
  /\ used' = used \cup {k}
  /\ UNCHANGED <<version, bcast, client, current, executing, pending, skipped>>

(* afterCommand and resetClient. *)
AfterCommand ==
  /\ executing
  /\ copy' = [copy EXCEPT ![current] = [k \in Keys |-> IF k \in pending THEN 0 ELSE @[k]]]
  /\ pending' = {}
  /\ client' = [client EXCEPT ![current].caching = FALSE]
  /\ current' = Nobody /\ executing' = FALSE /\ used' = {}
  /\ UNCHANGED <<version, table, bcast, skipped>>

(* serverCron *)
ServerCron(ks) ==
  /\ current = Nobody /\ ks # {}
  /\ TrackingLimitUsedSlots(ks)
  /\ UNCHANGED <<version, bcast, client, current, executing, used>>

(* beforeSleep: one array of keys per prefix; NOLOOP leaves out the keys   *)
(* the client itself was the last to change.                               *)
Due(c, p, k) == p \in client[c].prefixes /\ bcast[p][k] # NotDue /\ ~(client[c].noloop /\ bcast[p][k] = c)

BroadcastInvalidationMessages ==
  /\ current = Nobody /\ \E c \in Clients : Tracks(c)
  /\ copy' = Told([k \in Keys |-> {c \in Clients : \E p \in Prefixes : Due(c, p, k)}])
  /\ bcast' = [p \in Prefixes |-> [k \in Keys |-> NotDue]]
  /\ UNCHANGED <<version, table, client, current, executing, used, pending, skipped>>

-----------------------------------------------------------------------------
Init ==
  /\ version = [k \in Keys |-> 1]
  /\ table = [k \in Keys |-> {}]
  /\ bcast = [p \in Prefixes |-> [k \in Keys |-> NotDue]]
  /\ client = [c \in Clients |-> Off]
  /\ copy = [c \in Clients |-> [k \in Keys |-> 0]]
  /\ current = Nobody /\ executing = FALSE /\ used = {}
  /\ pending = {}
  /\ skipped = {}

Next ==
  \/ \E c \in Trackers, m \in Modes, n \in BOOLEAN, ps \in PrefixLists : EnableTracking(c, m, n, ps)
  \/ \E c \in Clients : DisableTracking(c) \/ ClientCaching(c) \/ ProcessCommand(c)
  \/ \E k \in Keys : Write(k) \/ KeyDeleted(k) \/ Read(k)
  \/ \E ks \in SUBSET Keys : Call(ks) \/ ServerCron(ks)
  \/ Flush \/ AfterCommand \/ BroadcastInvalidationMessages

Spec == Init /\ [][Next]_vars

-----------------------------------------------------------------------------
(* Properties. *)

(* Every variable keeps its type. *)
TypeOK ==
  /\ version \in [Keys -> Nat] /\ table \in [Keys -> SUBSET Clients]
  /\ bcast \in [Prefixes -> [Keys -> Clients \cup {Nobody, NotDue}]]
  /\ client \in [Clients -> [mode: Modes, noloop: BOOLEAN, caching: BOOLEAN,
                             prefixes: SUBSET Prefixes]]
  /\ copy \in [Clients -> [Keys -> Nat]]
  /\ current \in Clients \cup {Nobody} /\ executing \in BOOLEAN
  /\ used \subseteq Keys /\ pending \subseteq Keys /\ skipped \subseteq Clients
  /\ executing => current # Nobody

Informed(c, k) ==
  \/ copy[c][k] \in {0, version[k]}
  \/ c = current /\ k \in pending
  \/ \E p \in Prefixes : Due(c, p, k)

(* A client that tracks holds no copy of an old value of a key, unless the *)
(* message that invalidates it is due: after the reply of the command it   *)
(* is executing, or before the event loop sleeps. Clients that NOLOOP left *)
(* out of a change they did not make are excepted.                         *)
CacheCoherent ==
  \A c \in Clients, k \in Keys : Tracks(c) /\ c \notin skipped => Informed(c, k)

(* The table never loses a client that may hold a copy: whoever holds one  *)
(* and tracks by key is remembered for the key, or has a message due.      *)
HoldersRemembered ==
  \A c \in Clients, k \in Keys :
    /\ client[c].mode \in {"default", "optin", "optout"}
    /\ copy[c][k] # 0 /\ c \notin skipped
    => c \in table[k] \/ (c = current /\ k \in pending)

=============================================================================
