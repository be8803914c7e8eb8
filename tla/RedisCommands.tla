----------------------------- MODULE RedisCommands -----------------------------
(***************************************************************************)
(* Parts of the vendored Redis server's command execution side by side:    *)
(* Pub/Sub, whose names are those of its module, and transactions. They    *)
(* share no state; a module that checks or proves something of them        *)
(* extends this one.                                                       *)
(***************************************************************************)
EXTENDS PubSub

CONSTANTS Dbs, Keys, Roles, MaxWrites, MaxSent

VARIABLES txRole, txData, txWatched, txClient, txWrites, txSwapped, txSent, txChanged

Tx == INSTANCE Transactions WITH
  role <- txRole, data <- txData, watched <- txWatched, client <- txClient,
  writes <- txWrites, swapped <- txSwapped, sent <- txSent, changed <- txChanged

(* EXEC runs, whole, exactly when no watched key has changed: see          *)
(* Transactions.                                                           *)
CheckAndSet == Tx!CheckAndSet

=============================================================================
