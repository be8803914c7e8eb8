----------------------------- MODULE PubSubProofs -----------------------------
(***************************************************************************)
(* The records of Pub/Sub subscriptions agree for any number of clients,   *)
(* channels, shard channels and patterns, and Pub/Sub implements the       *)
(* message bus.                                                            *)
(***************************************************************************)
EXTENDS PubSub, FiniteSetTheorems, TLAPS

(* A leaf that needs arithmetic, or much of set theory, names its prover. *)
USE ZenonT(20)

(* Unmarking counts subscriptions, and a client has finitely many. *)
FiniteSubscriptions == \A c \in Clients : IsFiniteSet(subscriptions[c])

IInv == TypeOK /\ FiniteSubscriptions /\ TablesAgree

(* The count of a finite set of subscriptions is zero only if it is empty. *)
LEMMA CountZero ==
  ASSUME NEW s, NEW c, IsFiniteSet(s[c])
  PROVE  ClientTotalPubSubSubscriptionCount(s, c) # 0 <=> s[c] # {}
BY FS_EmptySet DEF ClientTotalPubSubSubscriptionCount

LEMMA InitIInv == Init => IInv
BY SMTT(30), FS_EmptySet DEF Init, IInv, TypeOK, FiniteSubscriptions, TablesAgree

(* SUBSCRIBE, SSUBSCRIBE and PSUBSCRIBE: a new name is entered in both     *)
(* tables.                                                                 *)
LEMMA SubscribeIInv ==
  ASSUME IInv, NEW c \in Clients, NEW ns \in SUBSET Names, ns # {}, IsFiniteSet(ns), Subscribe(c, ns)
  PROVE  IInv'
<1> DEFINE new == ns \ subscriptions[c]
<1>1. /\ subscriptions' = [subscriptions EXCEPT ![c] = @ \cup new]
      /\ subscribers' = [n \in Names |-> IF n \in new THEN subscribers[n] \cup {c} ELSE subscribers[n]]
      /\ marked' = marked \cup {c}
      /\ UNCHANGED <<inbox, published>>
  BY DEF Subscribe
<1>2. TypeOK'
  BY <1>1 DEF IInv, TypeOK
<1>3. FiniteSubscriptions'
  <2>1. IsFiniteSet(new)
    BY FS_Difference
  <2>2. IsFiniteSet(subscriptions[c] \cup new)
    BY <2>1, FS_Union DEF IInv, FiniteSubscriptions
  <2> QED BY <1>1, <2>2 DEF IInv, FiniteSubscriptions, TypeOK
<1>4. TablesAgree'
  <2>1. subscriptions'[c] = subscriptions[c] \cup ns
    BY <1>1 DEF IInv, TypeOK
  <2> QED BY <1>1, <2>1 DEF IInv, TablesAgree, TypeOK
<1> QED BY <1>2, <1>3, <1>4 DEF IInv

(* Whoever drops subscriptions: the names ns go from the tables of the     *)
(* clients cs, which are all the server lists for the names it drops.      *)
LEMMA DropIInv ==
  ASSUME IInv, NEW cs \in SUBSET Clients, NEW ns \in SUBSET Names,
         subscriptions' = [c \in Clients |-> IF c \in cs THEN subscriptions[c] \ ns ELSE subscriptions[c]],
         subscribers' = [n \in Names |-> IF n \in ns THEN subscribers[n] \ cs ELSE subscribers[n]],
         Unmark(cs), UNCHANGED <<inbox, published>>
  PROVE  IInv'
<1>1. TypeOK'
  BY DEF IInv, TypeOK, Unmark
<1>2. FiniteSubscriptions'
  <2>1. \A c \in Clients : IsFiniteSet(subscriptions[c] \ ns)
    BY FS_Difference DEF IInv, FiniteSubscriptions
  <2> QED BY <2>1 DEF IInv, FiniteSubscriptions
<1>3. \A c \in Clients : ClientTotalPubSubSubscriptionCount(subscriptions', c) # 0
                           <=> subscriptions'[c] # {}
  BY <1>2, CountZero DEF FiniteSubscriptions
<1>4. \A c \in Clients : c \in marked' <=> subscriptions'[c] # {}
  BY <1>3 DEF Unmark, IInv, TablesAgree, TypeOK
<1>5. \A c \in Clients, n \in Names : c \in subscribers'[n] <=> n \in subscriptions'[c]
  BY DEF IInv, TablesAgree, TypeOK
<1> QED BY <1>1, <1>2, <1>4, <1>5 DEF IInv, TablesAgree

(* UNSUBSCRIBE and its variants, with names or without. *)
LEMMA UnsubscribeIInv ==
  ASSUME IInv, NEW c \in Clients, NEW ns \in SUBSET Names, Unsubscribe(c, ns)
  PROVE  IInv'
<1>1. subscriptions' = [d \in Clients |-> IF d \in {c} THEN subscriptions[d] \ ns ELSE subscriptions[d]]
  BY DEF Unsubscribe, IInv, TypeOK
<1>2. subscribers' = [n \in Names |-> IF n \in ns THEN subscribers[n] \ {c} ELSE subscribers[n]]
  <2>1. \A n \in Names : n \notin subscriptions[c] => subscribers[n] \ {c} = subscribers[n]
    BY DEF IInv, TablesAgree
  <2> QED BY <2>1 DEF Unsubscribe, Removed
<1>3. Unmark({c}) /\ UNCHANGED <<inbox, published>>
  BY DEF Unsubscribe
<1> QED BY <1>1, <1>2, <1>3, DropIInv

(* freeClient: the same for all names, and the flag goes at once. *)
LEMMA FreeClientIInv ==
  ASSUME IInv, NEW c \in Clients, FreeClient(c)
  PROVE  IInv'
<1>1. subscriptions' = [d \in Clients |-> IF d \in {c} THEN subscriptions[d] \ Names ELSE subscriptions[d]]
  BY DEF FreeClient, IInv, TypeOK
<1>2. subscribers' = [n \in Names |-> IF n \in Names THEN subscribers[n] \ {c} ELSE subscribers[n]]
  <2>1. \A n \in Names : n \notin subscriptions[c] => subscribers[n] \ {c} = subscribers[n]
    BY DEF IInv, TablesAgree
  <2> QED BY <2>1 DEF FreeClient, Removed
<1>3. Unmark({c})
  <2>1. subscriptions'[c] = {}
    BY DEF FreeClient, IInv, TypeOK
  <2>2. ~(ClientTotalPubSubSubscriptionCount(subscriptions', c) # 0)
    BY <2>1, FS_EmptySet DEF ClientTotalPubSubSubscriptionCount
  <2> QED BY <2>2 DEF FreeClient, Unmark
<1>4. UNCHANGED <<inbox, published>>
  BY DEF FreeClient
<1> QED BY <1>1, <1>2, <1>3, <1>4, DropIInv

(* A slot is lost: every client the server lists for one of its channels   *)
(* loses all of them.                                                      *)
LEMMA SlotLostIInv ==
  ASSUME IInv, NEW slot, ShardUnsubscribeAllChannelsInSlot(slot)
  PROVE  IInv'
<1> DEFINE gone == {n \in Shards : SlotOf(n) = slot}
           cs == UNION {subscribers[n] : n \in gone}
<1>1. gone \in SUBSET Names /\ cs \in SUBSET Clients
  BY SMTT(30) DEF Names, IInv, TypeOK
<1>2. subscriptions' = [c \in Clients |-> IF c \in cs THEN subscriptions[c] \ gone ELSE subscriptions[c]]
  BY DEF ShardUnsubscribeAllChannelsInSlot
<1>3. subscribers' = [n \in Names |-> IF n \in gone THEN subscribers[n] \ cs ELSE subscribers[n]]
  <2>1. \A n \in gone : subscribers[n] \ cs = {}
    OBVIOUS
  <2> QED BY <2>1 DEF ShardUnsubscribeAllChannelsInSlot
<1>4. Unmark(cs) /\ UNCHANGED <<inbox, published>>
  BY DEF ShardUnsubscribeAllChannelsInSlot
<1> HIDE DEF gone, cs
<1> QED BY <1>1, <1>2, <1>3, <1>4, DropIInv

LEMMA PublishIInv ==
  ASSUME IInv, NEW channel \in Channels \cup Shards, Publish(channel)
  PROVE  IInv'
<1>1. inbox' \in [Clients -> SUBSET (Nat \X Names)]
  BY SMTT(30) DEF Publish, PublishMessageInternal, IInv, TypeOK
<1>2. TypeOK'
  BY SMTT(30), <1>1 DEF Publish, IInv, TypeOK
<1> QED BY <1>2 DEF Publish, IInv, FiniteSubscriptions, TablesAgree

LEMMA NextIInv == IInv /\ [Next]_vars => IInv'
<1> SUFFICES ASSUME IInv, [Next]_vars PROVE IInv'
  OBVIOUS
<1>1. ASSUME NEW c \in Clients, NEW kind \in {Channels, Shards, Patterns},
             NEW ns \in Arguments(kind), Subscribe(c, ns) \/ Unsubscribe(c, ns)
      PROVE  IInv'
  <2>1. ns \in SUBSET Names /\ ns # {} /\ IsFiniteSet(ns)
    BY DEF Arguments, Names
  <2> QED BY <1>1, <2>1, SubscribeIInv, UnsubscribeIInv
<1>2. ASSUME NEW c \in Clients, NEW kind \in {Channels, Shards, Patterns}, UnsubscribeAll(c, kind)
      PROVE  IInv'
  <2>1. kind \in SUBSET Names
    BY DEF Names
  <2> QED BY <1>2, <2>1, UnsubscribeIInv DEF UnsubscribeAll
<1>3. ASSUME NEW c \in Clients, FreeClient(c) PROVE IInv'
  BY <1>3, FreeClientIInv
<1>4. ASSUME NEW n \in Shards, ShardUnsubscribeAllChannelsInSlot(SlotOf(n)) PROVE IInv'
  BY <1>4, SlotLostIInv
<1>5. ASSUME NEW channel \in Channels \cup Shards, Publish(channel) PROVE IInv'
  BY <1>5, PublishIInv
<1>6. CASE UNCHANGED vars
  BY <1>6 DEF vars, IInv, TypeOK, FiniteSubscriptions, TablesAgree
<1> QED BY <1>1, <1>2, <1>3, <1>4, <1>5, <1>6 DEF Next

LEMMA Invariant == Spec => []IInv
BY InitIInv, NextIInv, PTL DEF Spec

(* Subscribing, unsubscribing, freeing a client, losing a slot and         *)
(* publishing keep the types.                                              *)
THEOREM TypeCorrect == Spec => []TypeOK
<1>1. IInv => TypeOK
  BY DEF IInv
<1> QED BY <1>1, Invariant, PTL

(* The table of the server, the tables of the clients and the CLIENT_PUBSUB *)
(* flags agree at all times, for any number of clients and names: also     *)
(* after the loss of a slot, where the server finds the clients in its own *)
(* table and must empty theirs.                                            *)
THEOREM TablesAlwaysAgree == Spec => []TablesAgree
<1>1. IInv => TablesAgree
  BY DEF IInv
<1> QED BY <1>1, Invariant, PTL

-----------------------------------------------------------------------------
(* The refinement. *)

LEMMA InitBus == Init => Bus!Init
BY DEF Init, Bus!Init

LEMMA StepBus ==
  ASSUME MaxMessages \in Nat, IInv, [Next]_vars
  PROVE  [Bus!Next]_(Bus!vars)
<1>1. ASSUME NEW c \in Clients, NEW kind \in {Channels, Shards, Patterns},
             NEW ns \in Arguments(kind), Subscribe(c, ns)
      PROVE  Bus!Next
  <2>1. ns \in SUBSET Names
    BY DEF Arguments, Names
  <2>2. Bus!Subscribe(c, ns)
    BY <1>1 DEF Subscribe, Bus!Subscribe, IInv, TypeOK
  <2> QED BY <2>1, <2>2 DEF Bus!Next
<1>2. ASSUME NEW c \in Clients, NEW ns \in SUBSET Names, Unsubscribe(c, ns)
      PROVE  Bus!Next
  <2>1. Bus!Withdraw(ns, {c})
    BY <1>2 DEF Unsubscribe, Bus!Withdraw, IInv, TypeOK
  <2> QED BY <2>1 DEF Bus!Next
<1>3. ASSUME NEW c \in Clients, FreeClient(c) PROVE Bus!Next
  <2>1. Bus!Withdraw(Names, {c})
    BY <1>3 DEF FreeClient, Bus!Withdraw, IInv, TypeOK
  <2> QED BY <2>1 DEF Bus!Next
<1>4. ASSUME NEW slot, ShardUnsubscribeAllChannelsInSlot(slot) PROVE Bus!Next
  <2> DEFINE gone == {n \in Shards : SlotOf(n) = slot}
             cs == UNION {subscribers[n] : n \in gone}
  <2>1. gone \in SUBSET Names /\ cs \in SUBSET Clients
    BY SMTT(30) DEF Names, IInv, TypeOK
  <2>2. Bus!Withdraw(gone, cs)
    BY <1>4 DEF ShardUnsubscribeAllChannelsInSlot, Bus!Withdraw
  <2> HIDE DEF gone, cs
  <2> QED BY <2>1, <2>2 DEF Bus!Next
<1>5. ASSUME NEW channel \in Channels \cup Shards, Publish(channel) PROVE Bus!Next
  <2>1. \A c \in Clients : {m \in Names : c \in subscribers[m] /\ Matching(m, channel)}
                             = {t \in subscriptions[c] : Matching(t, channel)}
    BY DEF IInv, TablesAgree, TypeOK
  <2>2. Bus!Publish(published, channel)
    BY <1>5, <2>1 DEF Publish, PublishMessageInternal, Bus!Publish
  <2>3. published \in 0 .. MaxMessages /\ channel \in Names
    BY SMTT(30), <1>5 DEF Publish, Names, IInv, TypeOK
  <2> QED BY <2>2, <2>3 DEF Bus!Next
<1>6. ASSUME UNCHANGED vars PROVE UNCHANGED Bus!vars
  BY <1>6 DEF vars, Bus!vars
<1>7. \A kind \in {Channels, Shards, Patterns} :
        kind \in SUBSET Names /\ \A ns \in Arguments(kind) : ns \in SUBSET Names
  BY DEF Arguments, Names
<1> QED BY <1>1, <1>2, <1>3, <1>4, <1>5, <1>6, <1>7 DEF Next, UnsubscribeAll

(* PUBLISH, which reads the tables of the server, delivers exactly what    *)
(* the tables of the clients entitle them to, in every state Pub/Sub can   *)
(* reach: the detailed specification implements the message bus.           *)
THEOREM Refinement == ASSUME MaxMessages \in Nat PROVE Spec => ImplementsBus
<1>1. IInv /\ [Next]_vars => [Bus!Next]_(Bus!vars)
  BY StepBus
<1> QED BY <1>1, InitBus, Invariant, PTL DEF Spec, ImplementsBus, Bus!Spec

=============================================================================
