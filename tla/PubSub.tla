-------------------------------- MODULE PubSub --------------------------------
(***************************************************************************)
(* Pub/Sub of the vendored Redis server (pubsub.c): global channels,       *)
(* patterns and the shard channels of the cluster's slots. The server and  *)
(* its clients keep the subscriptions twice, each from its side.           *)
(***************************************************************************)
EXTENDS Integers, FiniteSets

CONSTANTS
  Clients,
  Channels, Shards, Patterns,   \* names, as disjoint sets
  Match(_),         \* the channels a pattern matches
  SlotOf(_),        \* the hash slot of a shard channel
  MaxMessages       \* bound: messages published

Names == Channels \cup Shards \cup Patterns

VARIABLES
  subscribers,      \* pubsub_channels, pubsubshard_channels, pubsub_patterns of the server
  subscriptions,    \* the same of each client
  marked,           \* the clients with the CLIENT_PUBSUB flag
  inbox,            \* what was delivered to each client, <<message, name>>
  published         \* the number of messages published

vars == <<subscribers, subscriptions, marked, inbox, published>>

ClientTotalPubSubSubscriptionCount(s, c) == Cardinality(s[c])

(* unmarkClientAsPubSub, for each client of cs that has nothing left. *)
Unmark(cs) == marked' = {c \in marked : c \in cs => ClientTotalPubSubSubscriptionCount(subscriptions', c) # 0}

(* pubsubSubscribeChannel and pubsubSubscribePattern, for each argument. *)
Subscribe(c, ns) ==
  LET new == ns \ subscriptions[c]
  IN  /\ subscriptions' = [subscriptions EXCEPT ![c] = @ \cup new]
      /\ subscribers' = [n \in Names |-> IF n \in new THEN subscribers[n] \cup {c} ELSE subscribers[n]]
      /\ marked' = marked \cup {c}
      /\ UNCHANGED <<inbox, published>>

(* Mutant: the server keeps a client that is not the last of the channel. *)
Removed_Last(c, ns) ==
  [n \in Names |-> IF n \in ns \cap subscriptions[c] /\ Cardinality(subscribers[n]) = 1
                   THEN {} ELSE subscribers[n]]

Removed(c, ns) ==
  [n \in Names |-> IF n \in ns \cap subscriptions[c] THEN subscribers[n] \ {c} ELSE subscribers[n]]

(* UNSUBSCRIBE, SUNSUBSCRIBE or PUNSUBSCRIBE, with names or without. *)
Unsubscribe(c, ns) ==
  /\ subscriptions' = [subscriptions EXCEPT ![c] = @ \ ns]
  /\ subscribers' = Removed(c, ns)
  /\ Unmark({c})
  /\ UNCHANGED <<inbox, published>>

UnsubscribeAll(c, kind) == Unsubscribe(c, kind)

(* freeClient, and RESET: the three kinds, without notice. *)
FreeClient(c) ==
  /\ subscriptions' = [subscriptions EXCEPT ![c] = {}]
  /\ subscribers' = Removed(c, Names)
  /\ marked' = marked \ {c}
  /\ UNCHANGED <<inbox, published>>

(* The slot has moved to another node: its channels go, from the server    *)
(* and from every client that follows them.                                *)
ShardUnsubscribeAllChannelsInSlot(slot) ==
  LET gone == {n \in Shards : SlotOf(n) = slot}
      cs == UNION {subscribers[n] : n \in gone}
  IN  /\ subscriptions' = [c \in Clients |-> IF c \in cs THEN subscriptions[c] \ gone ELSE subscriptions[c]]
      /\ subscribers' = [n \in Names |-> IF n \in gone THEN {} ELSE subscribers[n]]
      /\ Unmark(cs)
      /\ UNCHANGED <<inbox, published>>

(* The subscriptions a message on a channel goes to. *)
Matching(n, channel) == n = channel \/ (n \in Patterns /\ channel \in Channels /\ channel \in Match(n))

(* Mutant: a client is sent a message once, by channel or by pattern. *)
PublishMessageInternal_Once(channel) ==
  [c \in Clients |->
     inbox[c] \cup {<<published, n>> : n \in {m \in Names : c \in subscribers[m] /\ Matching(m, channel)
                                                        /\ (m \in Patterns => c \notin subscribers[channel])}}]

(* By channel, then, unless the channel is a shard channel, by pattern. *)
PublishMessageInternal(channel) ==
  [c \in Clients |->
     inbox[c] \cup {<<published, n>> : n \in {m \in Names : c \in subscribers[m] /\ Matching(m, channel)}}]

Publish(channel) ==
  /\ published < MaxMessages
  /\ published' = published + 1
  /\ inbox' = PublishMessageInternal(channel)
  /\ UNCHANGED <<subscribers, subscriptions, marked>>

-----------------------------------------------------------------------------
Init ==
  /\ subscribers = [n \in Names |-> {}]
  /\ subscriptions = [c \in Clients |-> {}]
  /\ marked = {}
  /\ inbox = [c \in Clients |-> {}]
  /\ published = 0

(* The arguments of a command: one or more names. *)
Arguments(kind) == {ns \in SUBSET kind : ns # {} /\ IsFiniteSet(ns)}

Next ==
  \/ \E c \in Clients, kind \in {Channels, Shards, Patterns} :
       \/ \E ns \in Arguments(kind) : Subscribe(c, ns) \/ Unsubscribe(c, ns)
       \/ UnsubscribeAll(c, kind)
  \/ \E c \in Clients : FreeClient(c)
  \/ \E n \in Shards : ShardUnsubscribeAllChannelsInSlot(SlotOf(n))
  \/ \E channel \in Channels \cup Shards : Publish(channel)

Spec == Init /\ [][Next]_vars

-----------------------------------------------------------------------------
(* Properties. *)

(* Every variable keeps its type. *)
TypeOK ==
  /\ subscribers \in [Names -> SUBSET Clients] /\ subscriptions \in [Clients -> SUBSET Names]
  /\ marked \subseteq Clients
  /\ inbox \in [Clients -> SUBSET (Nat \X Names)] /\ published \in Nat

(* The three records of who is subscribed agree: the server lists a client *)
(* for exactly the names the client lists, and the client is in Pub/Sub    *)
(* mode exactly while it has one of some kind, whoever dropped the last:   *)
(* the client, its connection or the loss of a slot.                       *)
TablesAgree ==
  \A c \in Clients :
    /\ \A n \in Names : c \in subscribers[n] <=> n \in subscriptions[c]
    /\ c \in marked <=> subscriptions[c] # {}

(* Pub/Sub implements the message bus: what a client's own table says it   *)
(* follows, and nothing else, is delivered to it from the server's tables. *)
Bus == INSTANCE MessageBus WITH
         Subs <- Names, Messages <- 0 .. MaxMessages, wants <- subscriptions

ImplementsBus == Bus!Spec
=============================================================================
