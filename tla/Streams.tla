------------------------------- MODULE Streams -------------------------------
(***************************************************************************)
(* Streams and consumer groups (t_stream.c): one stream with one consumer  *)
(* group, on a master and on a replica that applies what the master        *)
(* propagates. Most commands are not propagated as they were given:        *)
(* XREADGROUP and the claims are propagated as the XCLAIM and XGROUP       *)
(* SETID they amount to, approximate trimming as exact trimming. The link  *)
(* is first in first out, so the replica is shown caught up. The rewrite   *)
(* of the stream into the append only file (aof.c) is applied too.         *)
(***************************************************************************)
EXTENDS Integers, Sequences, FiniteSets, FiniteSetsExt, SequencesExt

CONSTANTS
  MaxId,          \* bound: the IDs are 1 .. MaxId; 0 is 0-0
  NodeMax,        \* stream_node_max_entries
  Consumers,
  Counts,         \* the COUNT and MAXLEN arguments that are used
  Nobody

VARIABLES
  master,     \* the stream on the master
  replica     \* the stream on the replica

vars == <<master, replica>>

Ids == 1 .. MaxId

LastPossible == MaxId + 1       \* UINT64_MAX-UINT64_MAX

Unknown == -1                   \* SCG_INVALID_ENTRIES_READ

NoGroup == [exists |-> FALSE, last |-> 0, read |-> 0, pel |-> <<>>, own |-> <<>>]

(* A node is a listpack: the IDs it holds, and those not deleted. *)
Empty == [nodes |-> <<>>, last |-> 0, first |-> 0, maxDeleted |-> 0, added |-> 0, group |-> NoGroup]

Live(s) == UNION {s.nodes[i].live : i \in DOMAIN s.nodes}

Length(s) == Cardinality(Live(s))

-----------------------------------------------------------------------------
(* The stream. *)

(* streamAppendItem *)
Appended(s, id) ==
  LET n == Len(s.nodes)
      nodes == IF n = 0 \/ Cardinality(s.nodes[n].ids) >= NodeMax
               THEN Append(s.nodes, [ids |-> {id}, live |-> {id}])
               ELSE [s.nodes EXCEPT ![n] = [ids |-> @.ids \cup {id}, live |-> @.live \cup {id}]]
  IN  [s EXCEPT !.nodes = nodes, !.last = id, !.added = @ + 1,
                !.first = IF Length(s) = 0 THEN id ELSE @]

(* streamGetEdgeID for the first entry. *)
Edge(s, ids) == IF ids = {} THEN LastPossible ELSE Min(ids)

(* What streamTrim leaves of the nodes: whole nodes are removed, and with  *)
(* exact trimming the first entries of the next one; limit 0 is no limit.  *)
RECURSIVE Kept(_, _, _)
Kept(nodes, t, deleted) ==
  LET node == Head(nodes)
      length == FoldSeq(LAMBDA n, k : Cardinality(n.live) + k, 0, nodes)
      entries == Cardinality(node.live)
      whole == IF t.strategy = "maxlen" THEN length - entries >= t.arg ELSE Max(node.ids) < t.arg
      old == IF t.strategy = "maxlen"
             THEN {i \in node.live : Cardinality({j \in node.live : j < i}) < length - t.arg}
             ELSE {i \in node.live : i < t.arg}
  IN  IF nodes = <<>> THEN nodes
      ELSE IF t.strategy = "maxlen" /\ length <= t.arg THEN nodes
      ELSE IF t.limit > 0 /\ deleted + entries > t.limit THEN nodes
      ELSE IF whole THEN Kept(Tail(nodes), t, deleted + entries)
      ELSE IF t.approx THEN nodes
      ELSE <<[node EXCEPT !.live = @ \ old]>> \o Tail(nodes)

(* streamTrim *)
Trim(s, t) ==
  LET k == [s EXCEPT !.nodes = Kept(s.nodes, t, 0)]
  IN  IF t.strategy = "none" THEN s
      ELSE IF Length(k) = 0 THEN [k EXCEPT !.first = 0]
      ELSE IF Length(k) < Length(s) THEN [k EXCEPT !.first = Edge(k, Live(k))]
      ELSE k

NoTrim == [strategy |-> "none", arg |-> 0, approx |-> FALSE, limit |-> 0]

Exactly(strategy, arg) == [strategy |-> strategy, arg |-> arg, approx |-> FALSE, limit |-> 0]

(* Mutant: the argument is propagated as it was given. *)
RewriteTrimArgument_Same(s, t) == Exactly(t.strategy, t.arg)

(* streamRewriteTrimArgument: the trimming that the replica is to do. The  *)
(* first ID it looks for may be that of a deleted entry.                   *)
RewriteTrimArgument(s, t) ==
  IF ~t.approx THEN t
  ELSE Exactly(t.strategy,
               IF t.strategy = "maxlen" THEN Length(s)
               ELSE Edge(s, UNION {s.nodes[i].ids : i \in DOMAIN s.nodes}))

(* streamDeleteItem: a node that has no entry left is removed. *)
Removed(s, id) ==
  [s EXCEPT !.nodes = SelectSeq([i \in DOMAIN s.nodes |-> [s.nodes[i] EXCEPT !.live = @ \ {id}]],
                                LAMBDA n : n.live # {})]

(* xdelCommand, for one ID. *)
XDel(s, id) ==
  LET d == Removed(s, id)
      e == [d EXCEPT !.maxDeleted = IF id > @ THEN id ELSE @]
  IN  IF id \notin Live(s) THEN s
      ELSE IF Length(e) = 0 THEN [e EXCEPT !.first = 0]
      ELSE IF id = s.first THEN [e EXCEPT !.first = Edge(e, Live(e))]
      ELSE e

(* streamRangeHasTombstones, from an ID to the end. *)
HasTombstones(s, start) ==
  Length(s) > 0 /\ s.maxDeleted # 0 /\ start <= s.maxDeleted

(* streamEstimateDistanceFromFirstEverEntry *)
EstimateDistance(s, id) ==
  IF s.added = 0 THEN 0
  ELSE IF Length(s) = 0 /\ id <= s.last THEN s.added
  ELSE IF id # 0 /\ id < s.maxDeleted THEN Unknown
  ELSE IF id = s.last THEN s.added
  ELSE IF id > s.last THEN Unknown
  ELSE IF (s.maxDeleted = 0 \/ s.maxDeleted < s.first) /\ id < s.first THEN s.added - Length(s)
  ELSE IF (s.maxDeleted = 0 \/ s.maxDeleted < s.first) /\ id = s.first THEN s.added - Length(s) + 1
  ELSE Unknown

(* streamReplyWithCGLag *)
Lag(s) ==
  LET g == s.group
      distance == EstimateDistance(s, g.last)
  IN  IF s.added = 0 \/ Length(s) = 0 THEN 0
      ELSE IF g.last < s.first /\ s.maxDeleted < s.first THEN Length(s)
      ELSE IF g.read # Unknown /\ ~HasTombstones(s, g.last) THEN s.added - g.read
      ELSE IF distance # Unknown THEN s.added - distance
      ELSE Unknown

-----------------------------------------------------------------------------
(* The group. pel is the group's pending entries list, which has the       *)
(* consumer of every NACK; own has the list each consumer keeps.           *)

CreateConsumer(s, c) ==
  IF c \in DOMAIN s.group.own THEN s
  ELSE [s EXCEPT !.group.own = [d \in DOMAIN @ \cup {c} |-> IF d = c THEN {} ELSE @[d]]]

Owner(s, id) == IF id \in DOMAIN s.group.pel THEN s.group.pel[id] ELSE Nobody

(* The NACK of an entry is created, or moved to another consumer. *)
Assign(s, id, c) ==
  [s EXCEPT !.group.pel = [i \in DOMAIN @ \cup {id} |-> IF i = id THEN c ELSE @[i]],
            !.group.own = [d \in DOMAIN @ |-> IF d = c THEN @[d] \cup {id} ELSE @[d] \ {id}]]

Release(s, id) ==
  IF Owner(s, id) = Nobody THEN s
  ELSE [s EXCEPT !.group.pel = [i \in DOMAIN @ \ {id} |-> @[i]],
                 !.group.own[Owner(s, id)] = @ \ {id}]

(* streamDelConsumer *)
DelConsumer(s, c) ==
  IF c \notin DOMAIN s.group.own THEN s
  ELSE [s EXCEPT !.group.pel = [i \in DOMAIN @ \ s.group.own[c] |-> @[i]],
                 !.group.own = [d \in DOMAIN @ \ {c} |-> @[d]]]

-----------------------------------------------------------------------------
(* Commands as they are propagated, and what a command does: a stream, and *)
(* the commands that are propagated.                                       *)

Xclaim(s, id, c) == [op |-> "xclaim", id |-> id, consumer |-> c, last |-> s.group.last]

Setid(s) == [op |-> "setid", last |-> s.group.last, read |-> s.group.read]

Done(s, out) == [s |-> s, out |-> out]

(* xclaimCommand for one ID that is old enough: cleared if the entry is    *)
(* gone, else moved; FORCE creates the NACK. The LASTID is set before.     *)
Claim(s, id, c, force) ==
  IF id \notin Live(s)
  THEN Done(Release(s, id),
            IF Owner(s, id) = Nobody THEN <<>> ELSE <<Xclaim(s, id, Owner(s, id))>>)
  ELSE IF Owner(s, id) = Nobody /\ ~force THEN Done(s, <<>>)
  ELSE Done(Assign(s, id, c), <<Xclaim(s, id, c)>>)

(* What the replica does, for one command of the link. *)
Apply(s, cmd) ==
  CASE cmd.op = "xadd" -> Trim(Appended(s, cmd.id), cmd.trim)
    [] cmd.op = "xtrim" -> Trim(s, cmd.trim)
    [] cmd.op = "xdel" -> XDel(s, cmd.id)
    [] cmd.op = "create" ->
         [s EXCEPT !.group = [NoGroup EXCEPT !.exists = TRUE, !.last = cmd.last, !.read = cmd.read]]
    [] cmd.op = "destroy" -> [s EXCEPT !.group = NoGroup]
    [] cmd.op = "consumer" -> CreateConsumer(s, cmd.consumer)
    [] cmd.op = "delconsumer" -> DelConsumer(s, cmd.consumer)
    [] cmd.op = "xack" -> Release(s, cmd.id)
    [] cmd.op = "setid" -> [s EXCEPT !.group.last = cmd.last, !.group.read = cmd.read]
    [] cmd.op = "xsetid" ->
         [s EXCEPT !.last = cmd.last, !.added = cmd.added,
                   !.maxDeleted = IF cmd.deleted = 0 THEN @ ELSE cmd.deleted]
    [] cmd.op = "xclaim" ->
         LET t == [s EXCEPT !.group.last = IF cmd.last > @ THEN cmd.last ELSE @]
         IN  Claim(CreateConsumer(t, cmd.consumer), cmd.id, cmd.consumer, TRUE).s

ApplyAll(s, cmds) == FoldLeft(Apply, s, cmds)

Runs(d) ==
  /\ master' = d.s
  /\ replica' = ApplyAll(replica, d.out)

(* A command that is propagated as it is. *)
Verbatim(cmd) == Runs(Done(Apply(master, cmd), <<cmd>>))

-----------------------------------------------------------------------------
(* The commands of clients of the master. *)

TrimArguments ==
  {NoTrim} \cup
  [strategy: {"maxlen"}, arg: Counts, approx: {FALSE}, limit: {0}] \cup
  [strategy: {"maxlen"}, arg: Counts, approx: {TRUE}, limit: {0, 1}] \cup
  [strategy: {"minid"}, arg: Ids, approx: {FALSE}, limit: {0}] \cup
  [strategy: {"minid"}, arg: Ids, approx: {TRUE}, limit: {0, 1}]

(* xaddCommand: with approximate trimming, the argument is rewritten after *)
(* the trimming.                                                           *)
XAdd(id, t) ==
  /\ id > master.last
  /\ LET s == Trim(Appended(master, id), t)
     IN  Runs(Done(s, <<[op |-> "xadd", id |-> id, trim |-> RewriteTrimArgument(s, t)]>>))

(* xtrimCommand *)
XTrim(t) ==
  /\ t.strategy # "none"
  /\ LET s == Trim(master, t)
     IN  /\ Length(s) < Length(master)
         /\ Runs(Done(s, <<[op |-> "xtrim", trim |-> RewriteTrimArgument(s, t)]>>))

XDelCommand(id) == id \in Live(master) /\ Verbatim([op |-> "xdel", id |-> id])

(* xgroupCommand. The read counter is "internal use" and not given. *)
XGroupCreate(id) ==
  ~master.group.exists /\ Verbatim([op |-> "create", last |-> id, read |-> Unknown])

XGroupSetid(id) ==
  master.group.exists /\ Verbatim([op |-> "setid", last |-> id, read |-> Unknown])

XGroupDestroy == master.group.exists /\ Verbatim([op |-> "destroy"])

XGroupConsumer(c) ==
  /\ master.group.exists
  /\ IF c \in DOMAIN master.group.own THEN Verbatim([op |-> "delconsumer", consumer |-> c])
     ELSE Verbatim([op |-> "consumer", consumer |-> c])

XAck(id) == id \in DOMAIN master.group.pel /\ Verbatim([op |-> "xack", id |-> id])

(* Mutant: the counter is increased whatever was deleted ahead. *)
EntriesRead_Blind(s, id) ==
  IF s.group.read # Unknown THEN s.group.read + 1 ELSE EstimateDistance(s, id)

(* The read counter of the group after the delivery of an entry. *)
EntriesRead(s, id) ==
  IF s.group.read # Unknown /\ s.group.last >= s.first /\ ~HasTombstones(s, s.group.last)
  THEN s.group.read + 1
  ELSE EstimateDistance(s, id)

(* streamReplyWithRange delivers one entry to a consumer of a group. *)
Deliver(d, id, c, noack) ==
  LET t == [d.s EXCEPT !.group.read = EntriesRead(d.s, id), !.group.last = id]
  IN  IF noack THEN Done(t, d.out)
      ELSE Done(Assign(t, id, c), Append(d.out, Xclaim(t, id, c)))

(* XREADGROUP with ">": the entries after the last one delivered. *)
XReadGroup(c, count, noack) ==
  /\ master.group.exists
  /\ LET new == c \notin DOMAIN master.group.own
         s == CreateConsumer(master, c)
         out == IF new /\ noack THEN <<[op |-> "consumer", consumer |-> c]>> ELSE <<>>
         ids == SetToSortSeq({i \in Live(s) : i > s.group.last}, <)
         some == SubSeq(ids, 1, IF count < Len(ids) THEN count ELSE Len(ids))
         d == FoldLeft(LAMBDA e, id : Deliver(e, id, c, noack), Done(s, out), some)
     IN  Runs(IF some = <<>> THEN d ELSE Done(d.s, Append(d.out, Setid(d.s))))

(* xclaimCommand by a client, for one entry that is old enough. *)
XClaim(c, id, force) ==
  /\ master.group.exists
  /\ Runs(Claim(CreateConsumer(master, c), id, c, force))

(* xautoclaimCommand: the entries of the group's list, in order, from a    *)
(* start; those that are gone count too. The idle ones are old enough.     *)
XAutoClaim(c, start, count, idle) ==
  /\ master.group.exists
  /\ LET s == CreateConsumer(master, c)
         ids == SetToSortSeq({i \in DOMAIN s.group.pel :
                                i >= start /\ (i \in idle \/ i \notin Live(s))}, <)
         some == SubSeq(ids, 1, IF count < Len(ids) THEN count ELSE Len(ids))
         Step(e, id) == LET k == Claim(e.s, id, c, FALSE) IN Done(k.s, e.out \o k.out)
     IN  Runs(FoldLeft(Step, Done(s, <<>>), some))

-----------------------------------------------------------------------------
(* rewriteStreamObject: the commands that rebuild the stream. An empty     *)
(* stream is made by adding an entry and trimming it away.                 *)

Contents(s) ==
  IF Length(s) > 0
  THEN LET ids == SetToSortSeq(Live(s), <)
       IN  [i \in DOMAIN ids |-> [op |-> "xadd", id |-> ids[i], trim |-> NoTrim]]
  ELSE <<[op |-> "xadd", id |-> 1, trim |-> Exactly("maxlen", 0)]>>

Pending(s, c) ==
  LET ids == SetToSortSeq(s.group.own[c], <)
  IN  IF ids = <<>> THEN <<[op |-> "consumer", consumer |-> c]>>
      ELSE [i \in DOMAIN ids |-> [op |-> "xclaim", id |-> ids[i], consumer |-> c, last |-> 0]]

RewriteStreamObject(s) ==
  Contents(s) \o
  <<[op |-> "xsetid", last |-> s.last, added |-> s.added, deleted |-> s.maxDeleted]>> \o
  (IF ~s.group.exists THEN <<>>
   ELSE <<[op |-> "create", last |-> s.group.last, read |-> s.group.read]>>
          \o FlattenSeq([i \in 1 .. Cardinality(DOMAIN s.group.own) |->
               Pending(s, SetToSeq(DOMAIN s.group.own)[i])]))

-----------------------------------------------------------------------------
Init == master = Empty /\ replica = Empty

Next ==
  \/ \E id \in Ids, t \in TrimArguments : XAdd(id, t)
  \/ \E t \in TrimArguments : XTrim(t)
  \/ \E id \in Ids : XDelCommand(id) \/ XAck(id)
  \/ \E id \in 0 .. MaxId : XGroupCreate(id) \/ XGroupSetid(id)
  \/ XGroupDestroy
  \/ \E c \in Consumers : XGroupConsumer(c)
  \/ \E c \in Consumers, count \in Counts \ {0}, noack \in BOOLEAN : XReadGroup(c, count, noack)
  \/ \E c \in Consumers, id \in Ids, force \in BOOLEAN : XClaim(c, id, force)
  \/ \E c \in Consumers, start \in Ids, count \in Counts \ {0}, idle \in {{}, Ids} :
       XAutoClaim(c, start, count, idle)

Spec == Init /\ [][Next]_vars

-----------------------------------------------------------------------------
(* Properties. *)

(* The lag of the group, when it is reported at all, is "the number of     *)
(* messages in the stream that are yet to be delivered", through any       *)
(* trimming, deletion and change of the last delivered ID.                 *)
LagExact ==
  master.group.exists =>
    Lag(master) \in {Unknown, Cardinality({id \in Live(master) : id > master.group.last})}

(* What is compared of two copies of a stream: all but how its entries are *)
(* laid out in nodes and which consumers have nothing pending.             *)
View(s) ==
  <<Live(s), s.last, s.first, s.maxDeleted, s.added, s.group.exists, s.group.last, s.group.read>>

(* The replica ends up with the master's entries, IDs, counters and        *)
(* pending entries, although it never sees the commands clients gave, and  *)
(* so does a server that loads the rewritten append only file, which keeps *)
(* of the pending entries those whose message still exists. On each side   *)
(* the group's list of pending entries and the lists of its consumers hold *)
(* the same ("NACK half-created. Should not be possible.").                *)
CopiesAgree ==
  LET loaded == ApplyAll(Empty, RewriteStreamObject(master))
      pel == master.group.pel
  IN  /\ View(replica) = View(master) /\ replica.group.pel = pel
      /\ View(loaded) = View(master)
      /\ loaded.group.pel = [id \in DOMAIN pel \cap Live(master) |-> pel[id]]
      /\ \A s \in {master, replica, loaded} :
           /\ DOMAIN s.group.pel = UNION {s.group.own[c] : c \in DOMAIN s.group.own}
           /\ \A c \in DOMAIN s.group.own : \A id \in s.group.own[c] : s.group.pel[id] = c

=============================================================================
