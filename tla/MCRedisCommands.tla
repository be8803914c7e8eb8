--------------------------- MODULE MCRedisCommands ---------------------------
(***************************************************************************)
(* What the main thread of the vendored Redis server does for its clients, *)
(* for TLC: Pub/Sub, transactions, blocking commands and streams. A        *)
(* behaviour is one of one of them; the others stay in an initial state.   *)
(***************************************************************************)
EXTENDS RedisCommands, TLC

CONSTANTS c1, c2, k1, NoConsumer

VARIABLES
  which,
  blVal, blBlocking, blNokey, blReady, blClient, blInput, blUnblocked, blItems,
  stMaster, stReplica

(* The pattern matches the channel; the shard channel is in slot 1. *)
MCMatch(p) == {"x"}

MCSlotOf(s) == 1

Sym == Permutations({c1, c2})

-----------------------------------------------------------------------------
(* One write, or two of one key in an EXEC. *)
BlWrites ==
  {[op |-> op, key |-> k, to |-> k] : op \in {"push", "lpop", "xgroup", "xadd", "del", "set"},
                                      k \in {"a", "b"}}
    \cup {[op |-> "rename", key |-> "a", to |-> "b"], [op |-> "rename", key |-> "b", to |-> "a"]}

BlUnits ==
  {<<w>> : w \in BlWrites}
    \cup {u \in {<<v, w>> : v, w \in BlWrites} : {u[1].key, u[1].to} \cap {u[2].key, u[2].to} # {}}

Bl == INSTANCE BlockedClients WITH
        Clients <- {c1, c2}, Keys <- {"a", "b"}, MaxItems <- 2, MaxInput <- 1,
        Commands <- {[kind |-> "list", keys |-> <<"a">>, to |-> {}],
                     [kind |-> "list", keys |-> <<"a", "b">>, to |-> {}],
                     [kind |-> "list", keys |-> <<"a">>, to |-> {"b"}],
                     [kind |-> "list", keys |-> <<"b">>, to |-> {"a"}],
                     [kind |-> "stream", keys |-> <<"a">>, to |-> {}]},
        Units <- BlUnits,
        val <- blVal, blocking <- blBlocking, nokey <- blNokey, ready <- blReady,
        client <- blClient, input <- blInput, unblocked <- blUnblocked, items <- blItems

St == INSTANCE Streams WITH
        MaxId <- 3, NodeMax <- 2, Consumers <- {c1, c2}, Counts <- {0, 1, 2}, Nobody <- NoConsumer,
        master <- stMaster, replica <- stReplica

-----------------------------------------------------------------------------
txVars == <<txRole, txData, txWatched, txClient, txWrites, txSwapped, txSent, txChanged>>
blVars == <<blVal, blBlocking, blNokey, blReady, blClient, blInput, blUnblocked, blItems>>
stVars == <<stMaster, stReplica>>

MCInit ==
  /\ which \in {"pubsub", "transactions", "blocking", "streams"}
  /\ Init /\ Tx!Init /\ Bl!Init /\ St!Init
  /\ txRole = "master" \/ which = "transactions"

MCNext ==
  /\ UNCHANGED which
  /\ \/ which = "pubsub" /\ Next /\ UNCHANGED <<txVars, blVars, stVars>>
     \/ which = "transactions" /\ Tx!Next /\ UNCHANGED <<vars, blVars, stVars>>
     \/ which = "blocking" /\ Bl!Next /\ UNCHANGED <<vars, txVars, stVars>>
     \/ which = "streams" /\ St!Next /\ UNCHANGED <<vars, txVars, blVars>>

MCSpec == MCInit /\ [][MCNext]_<<which, vars, txVars, blVars, stVars>>

-----------------------------------------------------------------------------
(* The properties of Pub/Sub and of transactions are those of RedisCommands; *)
(* of the others:                                                            *)

(* No client waits for what is already there. *)
NobodyWaitsInVain == which = "blocking" => Bl!NobodyWaitsInVain

(* A replica and a rewritten file hold the stream of the master. *)
CopiesAgree == which = "streams" => St!CopiesAgree
(* The lag that XINFO reports is the number of entries left to read. *)
LagExact == which = "streams" => St!LagExact
=============================================================================
