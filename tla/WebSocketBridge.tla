---------------------------- MODULE WebSocketBridge ----------------------------
(***************************************************************************)
(* The clients and task subscriptions of WebSocketBridge                   *)
(* (src/src/websocket/websocket-bridge.ts). A handler runs until its first *)
(* await; between the awaits clients come and go. A client is a socket id, *)
(* which socket.io never reuses. The orchestrator and the learning module  *)
(* are represented by how their calls may end. The counters, which are     *)
(* only reported, are left out.                                            *)
(***************************************************************************)
EXTENDS Naturals

CONSTANTS
  Clients, Tasks,
  MaxRequests     \* bound on the requests

VARIABLES
  connected,      \* keys of connectedClients
  gone,           \* clients that have disconnected
  subscriptions,  \* taskSubscriptions: the tasks that have a set, and its members
  request,        \* the requests in progress
  closed          \* shutdown has run

vars == <<connected, gone, subscriptions, request, closed>>

Requests == 1 .. MaxRequests

Free == {r \in Requests : request[r].pc = "none"}

-----------------------------------------------------------------------------
HandleConnection(c) ==
  /\ c \notin connected \cup gone /\ ~closed
  /\ connected' = connected \cup {c}
  /\ UNCHANGED <<gone, subscriptions, request, closed>>

Subscribed(c, t) ==
  [u \in DOMAIN subscriptions \cup {t} |->
     (IF u \in DOMAIN subscriptions THEN subscriptions[u] ELSE {}) \cup (IF u = t THEN {c} ELSE {})]

(* A set that becomes empty is removed. *)
Unsubscribed(c, ts) ==
  LET rest(u) == IF u \in ts THEN subscriptions[u] \ {c} ELSE subscriptions[u]
  IN  [u \in {t \in DOMAIN subscriptions : rest(t) # {}} |-> rest(u)]

SubscribeToTask(c, t) ==
  /\ c \in connected
  /\ subscriptions' = Subscribed(c, t)
  /\ UNCHANGED <<connected, gone, request, closed>>

UnsubscribeFromTask(c, t) ==
  /\ c \in connected
  /\ subscriptions' = Unsubscribed(c, {t})
  /\ UNCHANGED <<connected, gone, request, closed>>

HandleDisconnect(c) ==
  /\ c \in connected
  /\ connected' = connected \ {c} /\ gone' = gone \cup {c}
  /\ subscriptions' = Unsubscribed(c, DOMAIN subscriptions)
  /\ UNCHANGED <<request, closed>>

(* The rate limited handler awaits the limiter of the client. *)
TaskExecute(c, t) ==
  /\ c \in connected
  /\ \E r \in Free : request' = [request EXCEPT ![r] = [pc |-> "limiter", client |-> c, task |-> t]]
  /\ UNCHANGED <<connected, gone, subscriptions, closed>>

End(r) == request' = [request EXCEPT ![r].pc = "ended"]

(* Mutant: the client is not looked up again after the await. *)
Registered_Unchecked(c) == TRUE

Registered(c) == c \in connected

(* handleTaskExecute up to the call of the orchestrator: the request is    *)
(* over the limit, its client is gone, it is invalid, or it is accepted.   *)
HandleTaskExecute(r) ==
  LET c == request[r].client
  IN  /\ request[r].pc = "limiter"
      /\ \/ End(r) /\ UNCHANGED subscriptions
         \/ /\ Registered(c)
            /\ subscriptions' = Subscribed(c, request[r].task)
            /\ request' = [request EXCEPT ![r].pc = "running"]
      /\ UNCHANGED <<connected, gone, closed>>

(* processMessage and recordFeedback have returned or thrown. *)
TaskEnds(r) ==
  /\ request[r].pc = "running" /\ End(r)
  /\ UNCHANGED <<connected, gone, subscriptions, closed>>

(* shutdown: io.close has disconnected every socket before it calls back. *)
Shutdown ==
  /\ ~closed /\ connected = {}
  /\ closed' = TRUE
  /\ subscriptions' = [t \in {} |-> {}]
  /\ UNCHANGED <<connected, gone, request>>

Init ==
  /\ connected = {} /\ gone = {} /\ closed = FALSE
  /\ subscriptions = [t \in {} |-> {}]
  /\ request = [r \in Requests |-> [pc |-> "none", client |-> "none", task |-> "none"]]

Next ==
  \/ \E c \in Clients : HandleConnection(c) \/ HandleDisconnect(c)
  \/ \E c \in Clients, t \in Tasks : SubscribeToTask(c, t) \/ UnsubscribeFromTask(c, t) \/ TaskExecute(c, t)
  \/ \E r \in Requests : HandleTaskExecute(r) \/ TaskEnds(r)
  \/ Shutdown

Spec == Init /\ [][Next]_vars

-----------------------------------------------------------------------------
(* Properties. *)

(* Only connected clients are subscribed to tasks, and no task keeps an    *)
(* empty set: a client that disconnects while its request awaits the rate  *)
(* limiter is not subscribed when the request goes on.                     *)
SubscribersConnected ==
  \A t \in DOMAIN subscriptions : subscriptions[t] # {} /\ subscriptions[t] \subseteq connected

=============================================================================
