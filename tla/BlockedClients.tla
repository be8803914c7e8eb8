---------------------------- MODULE BlockedClients ----------------------------
(***************************************************************************)
(* Clients of the vendored Redis server that block on keys (blocked.c):    *)
(* BLPOP and BLMOVE on lists (t_list.c), XREADGROUP on the one group of a  *)
(* stream. A command, or the commands of one EXEC, and the serving of the  *)
(* clients they wake are one step of the main thread.                      *)
(***************************************************************************)
EXTENDS Integers, Sequences, FiniteSets, SequencesExt

CONSTANTS
  Clients, Keys,
  Commands,       \* the blocking commands clients send: the keys, and where a popped
                  \* element goes if it is moved
  Units,          \* the units of work that other clients send: sequences of writes
  MaxItems,       \* bound: elements pushed
  MaxInput        \* bound: commands sent while blocked or queued

VARIABLES
  val,        \* the value of each key
  blocking,   \* db->blocking_keys: for each key the list of clients blocked on it
  nokey,      \* db->blocking_keys_unblock_on_nokey: a count for each key
  ready,      \* server.ready_keys (and db->ready_keys, the same keys as a set)
  client,     \* whether a client is blocked, and in which command
  input,      \* commands in the query buffer of each client
  unblocked,  \* server.unblocked_clients
  items       \* history: the number of elements pushed so far

vars == <<val, blocking, nokey, ready, client, input, unblocked, items>>

None == [type |-> "none", items |-> <<>>]

Idle == [kind |-> "list", keys |-> <<>>, to |-> {}]

Server == [val |-> val, blocking |-> blocking, nokey |-> nokey, ready |-> ready, client |-> client,
           unblocked |-> unblocked, items |-> items]

IsBlocked(s, c) == s.client[c] # Idle

-----------------------------------------------------------------------------
(* Signals. *)

(* Mutant: a key that is deleted wakes nobody. *)
SignalKeyAsReadyLogic_NotDeleted(s, k, type, deleted) ==
  IF deleted \/ s.blocking[k] = <<>> \/ k \in ToSet(s.ready) THEN s
  ELSE [s EXCEPT !.ready = Append(@, k)]

SignalKeyAsReadyLogic(s, k, type, deleted) ==
  IF \/ \A c \in Clients : s.client[c] = Idle \/ s.client[c].kind # type
     \/ deleted /\ s.nokey[k] = 0
     \/ ~deleted /\ s.blocking[k] = <<>>
     \/ k \in ToSet(s.ready)
  THEN s
  ELSE [s EXCEPT !.ready = Append(@, k)]

SignalKeyAsReady(s, k, type) == SignalKeyAsReadyLogic(s, k, type, FALSE)

SignalDeletedKeyAsReady(s, k, type) == SignalKeyAsReadyLogic(s, k, type, TRUE)

-----------------------------------------------------------------------------
(* Writes. *)

DbAdd(s, k, v) == SignalKeyAsReady([s EXCEPT !.val[k] = v], k, v.type)

DbDelete(s, k) ==
  IF s.val[k] = None THEN s
  ELSE [SignalDeletedKeyAsReady(s, k, s.val[k].type) EXCEPT !.val[k] = None]

(* setKey: overwriting a key is signalled like its deletion. *)
SetKey(s, k) ==
  LET v == [type |-> "string", items |-> <<>>]
  IN  IF s.val[k] = None THEN DbAdd(s, k, v)
      ELSE [SignalDeletedKeyAsReady(s, k, s.val[k].type) EXCEPT !.val[k] = v]

(* RPUSH and the push of LMOVE: the key is signalled only when it is made. *)
Push(s, k, x) ==
  LET t == IF s.val[k] = None THEN DbAdd(s, k, [type |-> "list", items |-> <<>>]) ELSE s
  IN  [t EXCEPT !.val[k].items = Append(@, x)]

(* LPOP, without its reply; an empty list is deleted. *)
ListPop(s, k) ==
  IF Len(s.val[k].items) = 1 THEN DbDelete(s, k) ELSE [s EXCEPT !.val[k].items = Tail(@)]

Rename(s, j, k) ==
  IF s.val[j] = None THEN s
  ELSE LET t == DbAdd(DbDelete(s, k), k, s.val[j]) IN DbDelete(t, j)

(* One write; an element is the next of a count. Commands against a key of *)
(* the wrong type fail and change nothing.                                 *)
Write(s, w) ==
  LET k == w.key
      type == s.val[k].type
      x == s.items + 1
  IN  CASE w.op = "push" /\ type \in {"none", "list"} -> Push([s EXCEPT !.items = x], k, x)
        [] w.op = "lpop" /\ type = "list" -> ListPop(s, k)
        [] w.op = "xgroup" /\ type = "none" -> DbAdd(s, k, [type |-> "stream", items |-> <<>>])
        [] w.op = "xadd" /\ type = "stream" ->
             SignalKeyAsReady([s EXCEPT !.val[k].items = Append(@, x), !.items = x], k, "stream")
        [] w.op = "del" -> DbDelete(s, k)
        [] w.op = "set" -> SetKey(s, k)
        [] w.op = "rename" /\ w.to # k -> Rename(s, k, w.to)
        [] OTHER -> s

-----------------------------------------------------------------------------
(* Blocking and unblocking. *)

BlockForKeys(s, c, cmd) ==
  LET keys == ToSet(cmd.keys)
  IN  [s EXCEPT !.client[c] = cmd,
                !.blocking = [k \in Keys |-> IF k \in keys THEN Append(@[k], c) ELSE @[k]],
                !.nokey = [k \in Keys |-> IF k \in keys /\ cmd.kind = "stream" THEN @[k] + 1 ELSE @[k]]]

(* unblockClient with releaseBlockedEntry for each of the client's keys:   *)
(* the count of a key goes with its last client.                           *)
UnblockClient(s, c) ==
  LET left == [k \in Keys |-> SelectSeq(s.blocking[k], LAMBDA d : d # c)]
      keys == ToSet(s.client[c].keys)
  IN  [s EXCEPT !.client[c] = Idle,
                !.blocking = left,
                !.nokey = [k \in Keys |->
                             CASE k \in keys /\ left[k] = <<>> -> 0
                               [] k \in keys /\ left[k] # <<>> /\ s.client[c].kind = "stream" -> @[k] - 1
                               [] OTHER -> @[k]]]

QueueClientForReprocessing(s, c) ==
  IF c \in ToSet(s.unblocked) THEN s ELSE [s EXCEPT !.unblocked = Append(@, c)]

(* The key a BLPOP takes its element from: the first that is there. *)
FirstKey(s, keys) == SelectInSeq(keys, LAMBDA k : s.val[k] # None)

LMove(s, j, k, x) ==
  IF j = k THEN [s EXCEPT !.val[k].items = Append(Tail(@), x)] ELSE ListPop(Push(s, k, x), j)

(* The command of a client that is not blocked: it is answered, by an      *)
(* element or an error, or blocks.                                         *)
Call(s, c, cmd) ==
  LET i == FirstKey(s, cmd.keys)
      k == cmd.keys[i]
      v == s.val[k]
      x == Head(v.items)
      dst == CHOOSE d \in cmd.to : TRUE
  IN  CASE i = 0 /\ cmd.kind = "list" -> BlockForKeys(s, c, cmd)
        [] i = 0 /\ cmd.kind = "stream" -> s
        [] i # 0 /\ v.type # cmd.kind -> s
        [] i # 0 /\ v.type = "stream" /\ cmd.kind = "stream" ->
             IF v.items = <<>> THEN BlockForKeys(s, c, cmd)
             ELSE [s EXCEPT !.val[k].items = <<>>]
        [] OTHER ->
             IF cmd.to = {} THEN ListPop(s, k)
             ELSE IF s.val[dst].type \notin {"none", "list"} THEN s
             ELSE LMove(s, k, dst, x)

(* unblockClientOnKey: the command is processed again, and the client's    *)
(* input after it, unless it blocks again.                                 *)
UnblockClientOnKey(s, c) ==
  LET t == Call(UnblockClient(s, c), c, s.client[c])
  IN  IF IsBlocked(t, c) THEN t ELSE QueueClientForReprocessing(t, c)

Serve(s, k, c) ==
  IF s.val[k].type = s.client[c].kind \/ s.client[c].kind = "stream"
  THEN UnblockClientOnKey(s, c) ELSE s

(* For the clients that were in the queue when it began. *)
HandleClientsBlockedOnKey(s, k) == FoldLeft(LAMBDA t, c : Serve(t, k, c), s, s.blocking[k])

RECURSIVE HandleClientsBlockedOnKeys(_)
HandleClientsBlockedOnKeys(s) ==
  IF s.ready = <<>> THEN s
  ELSE HandleClientsBlockedOnKeys(HandleClientsBlockedOnKey([s EXCEPT !.ready = Tail(@)], Head(s.ready)))

-----------------------------------------------------------------------------
(* Steps. *)

Become(s) ==
  /\ val' = s.val /\ blocking' = s.blocking /\ nokey' = s.nokey /\ ready' = s.ready
  /\ client' = s.client /\ unblocked' = s.unblocked /\ items' = s.items

(* A command of a client that never blocks, or an EXEC of several. *)
Execute(unit) ==
  /\ items + Len(unit) <= MaxItems
  /\ Become(HandleClientsBlockedOnKeys(FoldLeft(Write, Server, unit)))
  /\ UNCHANGED input

(* A client sends a blocking command. *)
Send(c, cmd) ==
  /\ ~IsBlocked(Server, c) /\ input[c] = 0
  /\ Become(HandleClientsBlockedOnKeys(Call(Server, c, cmd)))
  /\ UNCHANGED input

(* Commands that arrive while the client is blocked stay in its buffer. *)
Receive(c) ==
  /\ IsBlocked(Server, c) /\ input[c] < MaxInput
  /\ input' = [input EXCEPT ![c] = @ + 1]
  /\ UNCHANGED <<val, blocking, nokey, ready, client, unblocked, items>>

(* A timeout, CLIENT UNBLOCK, or a change of role. *)
UnblockClientOnTimeout(c) ==
  /\ IsBlocked(Server, c)
  /\ Become(QueueClientForReprocessing(UnblockClient(Server, c), c))
  /\ UNCHANGED input

(* processUnblockedClients, for the first of them: its input is processed, *)
(* up to a command that blocks.                                            *)
ProcessUnblockedClients ==
  /\ unblocked # <<>>
  /\ LET c == Head(unblocked)
         s == [Server EXCEPT !.unblocked = Tail(@)]
     IN  IF IsBlocked(s, c) THEN Become(s) /\ UNCHANGED input
         ELSE \/ Become(s) /\ input' = [input EXCEPT ![c] = 0]
              \/ \E cmd \in Commands :
                   /\ input[c] > 0
                   /\ LET t == Call(s, c, cmd)
                      IN  /\ IsBlocked(t, c)
                          /\ Become(HandleClientsBlockedOnKeys(t))
                          /\ input' = [input EXCEPT ![c] = @ - 1]

FreeClient(c) ==
  /\ IsBlocked(Server, c) \/ c \in ToSet(unblocked)
  /\ Become([IF IsBlocked(Server, c) THEN UnblockClient(Server, c) ELSE Server
               EXCEPT !.unblocked = SelectSeq(@, LAMBDA d : d # c)])
  /\ input' = [input EXCEPT ![c] = 0]

Init ==
  /\ val = [k \in Keys |-> None]
  /\ blocking = [k \in Keys |-> <<>>]
  /\ nokey = [k \in Keys |-> 0]
  /\ ready = <<>>
  /\ client = [c \in Clients |-> Idle]
  /\ input = [c \in Clients |-> 0]
  /\ unblocked = <<>>
  /\ items = 0

Next ==
  \/ \E unit \in Units : Execute(unit)
  \/ \E c \in Clients : \/ \E cmd \in Commands : Send(c, cmd)
                        \/ Receive(c) \/ UnblockClientOnTimeout(c) \/ FreeClient(c)
  \/ ProcessUnblockedClients

Spec == Init /\ [][Next]_vars

-----------------------------------------------------------------------------
(* Properties. *)

(* No wakeup is lost: between two steps nobody waits for a list that is    *)
(* there, or on a stream that is not, has changed its type or has entries  *)
(* to read, whatever the commands of one EXEC did to the key on the way;   *)
(* and a client with commands in its buffer is blocked or on its way to be *)
(* processed: it need not send another one to be heard.                    *)
NobodyWaitsInVain ==
  \A c \in Clients :
    /\ IsBlocked(Server, c) =>
         \A i \in DOMAIN client[c].keys :
           LET v == val[client[c].keys[i]]
           IN  IF client[c].kind = "list" THEN v.type # "list"
               ELSE v.type = "stream" /\ v.items = <<>>
    /\ input[c] > 0 => IsBlocked(Server, c) \/ c \in ToSet(unblocked)

=============================================================================
