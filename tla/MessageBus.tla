------------------------------ MODULE MessageBus ------------------------------
(***************************************************************************)
(* What Pub/Sub promises: a message published on a channel reaches, at     *)
(* that moment and once for each matching subscription, the clients that   *)
(* asked for it and have not withdrawn; no other client.                   *)
(***************************************************************************)
CONSTANTS Clients, Subs, Messages, Matching(_, _)

VARIABLES
  wants,      \* the subscriptions of each client
  inbox       \* the deliveries to each client, <<message, subscription>>

vars == <<wants, inbox>>

Subscribe(c, ss) == wants' = [wants EXCEPT ![c] = @ \cup ss] /\ UNCHANGED inbox

Withdraw(ss, cs) ==
  /\ wants' = [c \in Clients |-> IF c \in cs THEN wants[c] \ ss ELSE wants[c]]
  /\ UNCHANGED inbox

Publish(m, channel) ==
  /\ inbox' = [c \in Clients |-> inbox[c] \cup {<<m, s>> : s \in {t \in wants[c] : Matching(t, channel)}}]
  /\ UNCHANGED wants

Init == wants = [c \in Clients |-> {}] /\ inbox = [c \in Clients |-> {}]

Next ==
  \/ \E c \in Clients, ss \in SUBSET Subs : Subscribe(c, ss)
  \/ \E ss \in SUBSET Subs, cs \in SUBSET Clients : Withdraw(ss, cs)
  \/ \E m \in Messages, channel \in Subs : Publish(m, channel)

Spec == Init /\ [][Next]_vars
=============================================================================
