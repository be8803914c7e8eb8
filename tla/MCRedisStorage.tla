----------------------------- MODULE MCRedisStorage -----------------------------
(***************************************************************************)
(* Redis' data structures, the tracking table that follows their keys, the *)
(* append only file and the I/O threads for TLC. One of them runs in each  *)
(* behaviour: they share no state, and "which" names the one that runs.    *)
(***************************************************************************)
EXTENDS RedisStorage, TLC

CONSTANTS c1, c2

VARIABLES
  which,
  dD, dPolicy, dKeys, dUser, dOwed, dGot, dTwice,
  kDicts, kIndex, kCounts, kScan, kIter, kOwed,
  zZ, zDict,
  aS, aDisk, aBio, aChild, aBudget,
  oCl, oList, oWake, oPaused, oIo, oMain, oClientsNum, oBudget

dict == <<dD, dPolicy, dKeys, dUser, dOwed, dGot, dTwice>>
store == <<kDicts, kIndex, kCounts, kScan, kIter, kOwed>>
intset == <<iIs, iMembers>>
skiplist == <<zZ, zDict>>
aof == <<aS, aDisk, aBio, aChild, aBudget>>
threads == <<oCl, oList, oWake, oPaused, oIo, oMain, oClientsNum, oBudget>>

-----------------------------------------------------------------------------
(* Hashes of three bits, two of which collide in every table but the       *)
(* largest; four dicts; integers of one, two and four cells.               *)
DictHash(k) == k

DictOfKey(k) == k % 4

MCIntsetValues == {-5, -3, -2, 0, 1, 3, 6}

MCIntsetHalf == 1 :> 2 @@ 2 :> 4 @@ 4 :> 8

(* The prefixes and the PREFIX options of clients that track two keys. *)
TrackedPrefixes == {{"a"}, {"b"}, {"a", "b"}}

TrackedPrefixLists == {<<>>, <<{"a"}>>, <<{"b"}>>}

(* What the operator does and what goes wrong around the append only file, *)
(* a few events at a time.                                                 *)
NoFault ==
  [what \in {"write", "torn", "persist", "dirsync", "fork", "child", "fsync", "kill", "power",
             "rewrite", "start", "stop"} |-> 0]

Everysec(b) == b @@ [policy |-> "everysec"] @@ NoFault

Always(b) == b @@ [policy |-> "always"] @@ NoFault

AofScenarios ==
  {Everysec([rewrite |-> 2, kill |-> 1, child |-> 1]),
   Everysec([rewrite |-> 1, start |-> 1, stop |-> 2, child |-> 1]),
   Everysec([write |-> 1, persist |-> 1, kill |-> 1]),
   Everysec([torn |-> 1, kill |-> 1]),
   Everysec([rewrite |-> 1, persist |-> 1, kill |-> 1]),
   Everysec([start |-> 1, stop |-> 1, kill |-> 1, persist |-> 1]),
   Everysec([rewrite |-> 1, fsync |-> 1]),
   Everysec([stop |-> 1, start |-> 1, power |-> 1, kill |-> 1]),
   Everysec([rewrite |-> 2, fork |-> 1]),
   Everysec([dirsync |-> 1, stop |-> 1]),
   Always([rewrite |-> 1, power |-> 1]),
   Always([write |-> 1, torn |-> 1, fsync |-> 1, kill |-> 1])}

(* Two clients, a request or two from each, and what may happen to them. *)
NoEvent ==
  [what \in {"partial", "broken", "error", "hangup", "quit", "special", "limit", "kill", "async"} |-> 0]

Load(input, always, b) ==
  b @@ [threads |-> 2, clients |-> 2, input |-> input, always |-> always] @@ NoEvent

IOScenarios ==
  {Load(1, FALSE, [kill |-> 1]),
   Load(1, TRUE, [special |-> 1, async |-> 1]),
   Load(2, FALSE, [special |-> 1]),
   Load(1, FALSE, [partial |-> 1, hangup |-> 1, error |-> 1]),
   Load(1, FALSE, [broken |-> 1, quit |-> 1, limit |-> 1]),
   Load(1, FALSE, [special |-> 1, kill |-> 1, quit |-> 1]),
   Load(1, FALSE, [threads |-> 1, special |-> 1, kill |-> 1]),
   Load(2, FALSE, [threads |-> 1, async |-> 1, partial |-> 1])}

-----------------------------------------------------------------------------
Di == INSTANCE Dict WITH
  Keys <- {0, 4, 7}, Hash <- DictHash, Bits <- 3, InitialExp <- 1, MinFill <- 2, ForceRatio <- 2,
  EmptyVisits <- 2, Sizes <- {2, 8}, Policies <- {"enable", "avoid", "forbid"},
  d <- dD, policy <- dPolicy, keys <- dKeys, user <- dUser, owed <- dOwed, got <- dGot, twice <- dTwice

Kv == INSTANCE KVStore WITH
  Keys <- {0, 1, 5, 3}, DictOf <- DictOfKey, DictBits <- 2,
  dicts <- kDicts, index <- kIndex, counts <- kCounts, scan <- kScan, iter <- kIter, owed <- kOwed

Sk == INSTANCE Skiplist WITH
  Elements <- {1, 2, 3}, Scores <- {1, 2, 3}, MaxLevel <- 3, MaxSearch <- 1, z <- zZ, dict <- zDict

Ao == INSTANCE AOF WITH
  Scenarios <- AofScenarios, MaxWrites <- 3,
  s <- aS, disk <- aDisk, bio <- aBio, child <- aChild, budget <- aBudget

IO == INSTANCE IOThreads WITH
  Clients <- {c1, c2}, Threads <- {1, 2}, Scenarios <- IOScenarios,
  cl <- oCl, list <- oList, wake <- oWake, paused <- oPaused, io <- oIo, main <- oMain,
  clientsNum <- oClientsNum, budget <- oBudget

-----------------------------------------------------------------------------
(* The scenarios of the part that runs; the others stay in one state. *)
MCInit ==
  /\ which \in {"tracking", "dict", "store", "intset", "skiplist", "aof", "threads"}
  /\ Init /\ Di!Init /\ Kv!Init /\ In!Init /\ Sk!Init /\ Ao!Init /\ IO!Init
  /\ which # "aof" => aBudget = CHOOSE b \in AofScenarios : TRUE
  /\ which # "threads" => oBudget = CHOOSE b \in IOScenarios : TRUE

MCNext ==
  /\ UNCHANGED which
  /\ \/ which = "tracking" /\ Next /\ UNCHANGED <<dict, store, intset, skiplist, aof, threads>>
     \/ which = "dict" /\ Di!Next /\ UNCHANGED <<vars, store, intset, skiplist, aof, threads>>
     \/ which = "store" /\ Kv!Next /\ UNCHANGED <<vars, dict, intset, skiplist, aof, threads>>
     \/ which = "intset" /\ In!Next /\ UNCHANGED <<vars, dict, store, skiplist, aof, threads>>
     \/ which = "skiplist" /\ Sk!Next /\ UNCHANGED <<vars, dict, store, intset, aof, threads>>
     \/ which = "aof" /\ Ao!Next /\ UNCHANGED <<vars, dict, store, intset, skiplist, threads>>
     \/ which = "threads" /\ IO!Next /\ UNCHANGED <<vars, dict, store, intset, skiplist, aof>>

MCVars == <<which, vars, dict, store, intset, skiplist, aof, threads>>

MCSpec == MCInit /\ [][MCNext]_MCVars /\ (which = "threads" => IO!Fairness)

-----------------------------------------------------------------------------
(* The properties of Tracking and of the integer sets are those of         *)
(* RedisStorage; those of the other parts are named for the configuration, *)
(* and each is stated and explained in its own module.                     *)

(* A lookup finds exactly the keys that are in the dict. *)
LookupsFind == which = "dict" => Di!LookupsFind

(* A scan returns what was there all along. *)
ScanComplete == which = "dict" => Di!ScanComplete

(* A safe iteration returns each key once. *)
IterationExact == which = "dict" => Di!IterationExact

(* Counters, index and walks of the store agree with its dicts. *)
KeyspaceExact == which = "store" => Kv!KeyspaceExact

(* Ranks and ranges of a skiplist are those of its elements in order. *)
RanksExact == which = "skiplist" => Sk!RanksExact

(* A restart loads the first writes, and all of them while AOF is on. *)
RecoversPrefix == which = "aof" => Ao!RecoversPrefix

(* What is reported as synced survives a loss of power. *)
ClaimsDurable == which = "aof" => Ao!ClaimsDurable

(* What a restart would load is never forgotten. *)
NothingForgotten == Ao!NothingForgotten

(* A client is in the hands of one thread. *)
OnePlace == which = "threads" => IO!OnePlace

(* Every request is read, every closed client freed. *)
EveryoneServed == which = "threads" => IO!EveryoneServed

=============================================================================
