------------------------------ MODULE Replication ------------------------------
(***************************************************************************)
(* Redis replication (src/redis-stable/src/replication.c): replication     *)
(* IDs, offsets and the backlog, partial and full resynchronization,       *)
(* chained replicas, promotion, the cached master, restarts from an RDB    *)
(* file, WAIT and the coordinated FAILOVER. The append only file is off.   *)
(*                                                                         *)
(* A data set is the sequence of the writes that made it, and the stream   *)
(* counts one byte per write. A replica has at most one connection, to its *)
(* host; its fields slave .. ack are that connection.                      *)
(***************************************************************************)
EXTENDS Integers, Sequences, FiniteSets, SequencesExt, TLC

CONSTANTS
  Nodes, Nobody,
  BacklogSize,       \* repl_backlog_size, in writes
  Scenarios,         \* bound: what a run starts from, the REPLICAOF commands
                     \* given in it, how often operations and faults happen
  MaxWrites          \* bound: writes

VARIABLES
  node,              \* the servers
  disk,              \* their RDB files
  ids,               \* replication IDs drawn so far
  writes,            \* writes so far
  waiting,           \* the client blocked in WAIT, or Nobody
  admin,             \* the REPLICAOF commands still to come, <<server, host>>
  budget             \* the operations and faults still to come

vars == <<node, disk, ids, writes, waiting, admin, budget>>

None == [id |-> 0, off |-> -1]        \* no replication ID, no position

NoBacklog == [off |-> 0, cmds |-> <<>>]

Position(id, off) == [id |-> id, off |-> off]

-----------------------------------------------------------------------------
(* The connection of a replica. *)

Closed == [slave |-> "none", req |-> None, failing |-> FALSE, chan |-> <<>>, buf |-> <<>>,
           init |-> 0, ack |-> 0]

Attached == {"wait_start", "wait_end", "online"}

Slaves(N, m) == {r \in Nodes : N[r].host = m /\ N[r].slave \in Attached}

CloseLink(N, r) == [N EXCEPT ![r] = Closed @@ @]

(* disconnectSlaves: what was sent can still be read, what was not is lost. *)
DisconnectSlaves(N, m) ==
  [r \in Nodes |-> IF r \in Slaves(N, m) THEN [N[r] EXCEPT !.slave = "gone", !.buf = <<>>] ELSE N[r]]

-----------------------------------------------------------------------------
(* Replication IDs and the backlog. *)

CreateReplicationBacklog(N, n) == [N EXCEPT ![n].backlog = [off |-> N[n].offset + 1, cmds |-> <<>>]]

FreeReplicationBacklog(N, n) == [N EXCEPT ![n].backlog = NoBacklog]

(* changeReplicationId with clearReplicationId2. *)
NewHistory(N, n, id) == [N EXCEPT ![n].replid = id, ![n].replid2 = None]

(* Mutant: the second ID is valid for one more offset. *)
ShiftReplicationId_OffByOne(N, n, id) ==
  [N EXCEPT ![n].replid2 = Position(N[n].replid, N[n].offset + 2), ![n].replid = id]

(* Mutant: the promoted replica keeps its replication ID. *)
ShiftReplicationId_Kept(N, n, id) ==
  [N EXCEPT ![n].replid2 = Position(N[n].replid, N[n].offset + 1)]

ShiftReplicationId(N, n, id) ==
  [N EXCEPT ![n].replid2 = Position(N[n].replid, N[n].offset + 1), ![n].replid = id]

(* feedReplicationBuffer: the backlog and the attached replicas get w. *)
Feed(N, m, w) ==
  LET fed == {r \in Slaves(N, m) : N[r].slave # "wait_start"}
  IN  [n \in Nodes |->
         CASE n = m -> [N[n] EXCEPT !.offset = @ + 1, !.backlog.cmds = Append(@, w)]
           [] n \in fed /\ N[n].slave = "wait_end" -> [N[n] EXCEPT !.buf = Append(@, w)]
           [] n \in fed /\ N[n].slave = "online" ->
                [N[n] EXCEPT !.chan = Append(@, [type |-> "cmd", w |-> w])]
           [] OTHER -> N[n]]

(* rdbPopulateSaveInfo: what an RDB file says of its position. *)
SaveInfo(n) ==
  LET s == node[n]
  IN  IF \/ s.host = Nobody /\ s.backlog # NoBacklog
         \/ s.host # Nobody /\ (s.master # None \/ s.cached # None)
      THEN Position(s.replid, s.offset) ELSE None

Rdb(n) == [data |-> node[n].data, info |-> SaveInfo(n)]

-----------------------------------------------------------------------------
(* Becoming a master and a replica. *)

Freed(s) == IF s.master # None THEN [s EXCEPT !.cached = s.master, !.master = None] ELSE s

(* replicationUnsetMaster *)
UnsetMaster(N, n, id) ==
  LET alone == CloseLink([N EXCEPT ![n].host = Nobody, ![n].state = "none",
                                   ![n].master = None, ![n].cached = None], n)
  IN  DisconnectSlaves(ShiftReplicationId(alone, n, id), n)

CacheMasterUsingMyself(s) == [s EXCEPT !.cached = Position(s.replid, s.offset)]

(* replicationSetMaster: the replicas stay attached. *)
SetMaster(N, n, h) ==
  LET s == IF N[n].host = Nobody THEN CacheMasterUsingMyself(N[n]) ELSE Freed(N[n])
  IN  CloseLink([N EXCEPT ![n] = [s EXCEPT !.host = h, !.state = "connect"]], n)

ClearFailoverState(N, n) == [N EXCEPT ![n].failover = "no", ![n].goal = Nobody]

AbortFailover(N, n, id) ==
  ClearFailoverState(IF N[n].failover = "progress" THEN UnsetMaster(N, n, id) ELSE N, n)

Spend(f) == budget[f] > 0 /\ budget' = [budget EXCEPT ![f] = @ - 1]

(* SetMaster disconnects the blocked clients. *)
Unblocked(n) == IF waiting # Nobody /\ waiting.at = n THEN Nobody ELSE waiting

ReplicaofCommand(n, h) ==
  /\ admin # <<>> /\ Head(admin) = <<n, h>> /\ admin' = Tail(admin)
  /\ node[n].failover = "no" /\ node[n].host # h
  /\ IF h = Nobody
     THEN node' = UnsetMaster(node, n, ids + 1) /\ ids' = ids + 1 /\ UNCHANGED waiting
     ELSE node' = SetMaster(node, n, h) /\ waiting' = Unblocked(n) /\ UNCHANGED ids
  /\ UNCHANGED <<disk, writes, budget>>

-----------------------------------------------------------------------------
(* Writes, and the stream. *)

(* replicationFeedSlaves: without backlog and replicas nothing is fed. *)
Write(m) ==
  /\ node[m].host = Nobody /\ node[m].failover = "no"
  /\ writes < MaxWrites /\ writes' = writes + 1
  /\ LET N == [node EXCEPT ![m].data = Append(@, writes')]
     IN  node' = IF node[m].backlog = NoBacklog THEN N ELSE Feed(N, m, writes')
  /\ UNCHANGED <<disk, ids, waiting, budget, admin>>

(* The replica applies the next write and passes it on to its own replicas. *)
ApplyStream(r) ==
  LET s == node[r]
  IN  /\ s.state = "connected" /\ s.chan # <<>> /\ Head(s.chan).type = "cmd"
      /\ LET w == Head(s.chan).w
         IN  node' = Feed([node EXCEPT ![r].chan = Tail(@), ![r].data = Append(@, w),
                                       ![r].master.off = @ + 1], r, w)
      /\ UNCHANGED <<disk, ids, writes, waiting, budget, admin>>

IncrementalTrimReplicationBacklog(n) ==
  /\ Len(node[n].backlog.cmds) > BacklogSize
  /\ node' = [node EXCEPT ![n].backlog = [off |-> @.off + 1, cmds |-> Tail(@.cmds)]]
  /\ UNCHANGED <<disk, ids, writes, waiting, budget, admin>>

(* The cron of a master that had no replicas for repl_backlog_time_limit. *)
BacklogTimeout(m) ==
  /\ node[m].host = Nobody /\ Slaves(node, m) = {} /\ node[m].backlog # NoBacklog
  /\ Spend("free")
  /\ ids' = ids + 1
  /\ node' = FreeReplicationBacklog(NewHistory(node, m, ids'), m)
  /\ UNCHANGED <<disk, writes, waiting, admin>>

-----------------------------------------------------------------------------
(* Resynchronization, on the side of the master. *)

KnownHistory(s, p) == p.id = s.replid \/ (p.id = s.replid2.id /\ p.off <= s.replid2.off)

InBacklog(s, p) ==
  /\ s.backlog # NoBacklog
  /\ p.off >= s.backlog.off
  /\ p.off <= s.backlog.off + Len(s.backlog.cmds)

(* masterTryPartialResynchronization, when it succeeds: +CONTINUE and the  *)
(* rest of the backlog.                                                    *)
Continue(N, m, r) ==
  LET s == N[m]
      rest == SubSeq(s.backlog.cmds, N[r].req.off - s.backlog.off + 1, Len(s.backlog.cmds))
  IN  [N EXCEPT ![r].slave = "online", ![r].req = None,
                ![r].chan = <<[type |-> "continue", id |-> s.replid]>>
                              \o [i \in DOMAIN rest |-> [type |-> "cmd", w |-> rest[i]]]]

(* replicationSetupSlaveForFullResync *)
FullResync(N, m, r, off, buf) ==
  [N EXCEPT ![r].slave = "wait_end", ![r].init = off, ![r].buf = buf,
            ![r].chan = Append(@, [type |-> "fullresync", pos |-> Position(N[m].replid, off)])]

(* startBgsaveForReplication: every waiting replica takes part. *)
StartBgsave(N, m) ==
  LET starts == {r \in Slaves(N, m) : N[r].slave = "wait_start"}
      forked == [N EXCEPT ![m].child = <<[data |-> N[m].data, info |-> Position(N[m].replid, N[m].offset)]>>]
  IN  [n \in Nodes |-> IF n \in starts THEN FullResync(forked, m, n, N[m].offset, <<>>)[n] ELSE forked[n]]

(* createReplicationBacklogIfNeeded *)
BacklogIfNeeded(N, m, id) ==
  IF N[m].backlog = NoBacklog THEN CreateReplicationBacklog(NewHistory(N, m, id), m) ELSE N

(* The replica waits for a BGSAVE, joins the one that another replica      *)
(* waits for with a copy of its buffer, or has one started.                *)
FullSync(N, m, r, id) ==
  LET A == BacklogIfNeeded([N EXCEPT ![r].slave = "wait_start", ![r].req = None], m, id)
      others == {q \in Slaves(A, m) : A[q].slave = "wait_end"}
  IN  IF A[m].child = <<>> THEN StartBgsave(A, m)
      ELSE IF others = {} THEN A
      ELSE LET q == CHOOSE q \in others : TRUE IN FullResync(A, m, r, A[q].init, A[q].buf)

Refuse(N, r) == [N EXCEPT ![r].req = None, ![r].chan = <<[type |-> "error"]>>]

(* syncCommand *)
SyncCommand(r) ==
  LET m == node[r].host
      req == node[r].req
      promoted == node[r].failing /\ node[m].host # Nobody /\ req.id = node[m].replid
      N == IF promoted THEN UnsetMaster(node, m, ids + 1) ELSE node
      drawn == IF promoted THEN ids + 1 ELSE ids
  IN  /\ node[r].slave = "handshake" /\ node[r].chan = <<>>
      /\ node' = IF \/ node[r].failing /\ ~promoted
                    \/ N[m].failover # "no"
                    \/ N[m].host # Nobody /\ N[m].state # "connected"
                 THEN Refuse(N, r)
                 ELSE IF KnownHistory(N[m], req) /\ InBacklog(N[m], req) THEN Continue(N, m, r)
                 ELSE FullSync(N, m, r, drawn + 1)
      /\ ids' = IF node'[m].replid > drawn THEN drawn + 1 ELSE drawn
      /\ UNCHANGED <<disk, writes, waiting, budget, admin>>

(* The cron: replicationStartPendingFork. *)
StartPendingFork(m) ==
  /\ node[m].child = <<>> /\ \E r \in Slaves(node, m) : node[r].slave = "wait_start"
  /\ node' = StartBgsave(node, m)
  /\ UNCHANGED <<disk, ids, writes, waiting, budget, admin>>

(* sendBulkToSlave: the file, then the writes gathered since the fork. *)
SendBulkToSlave(s, rdb) ==
  [s EXCEPT !.slave = "online", !.buf = <<>>,
            !.chan = @ \o <<[type |-> "rdb", rdb |-> rdb]>> \o
                       [i \in DOMAIN s.buf |-> [type |-> "cmd", w |-> s.buf[i]]]]

(* updateSlavesWaitingBgsave *)
BgsaveDone(m) ==
  /\ node[m].child # <<>>
  /\ LET rdb == node[m].child[1]
     IN  /\ node' = [n \in Nodes |->
               CASE n = m -> [node[n] EXCEPT !.child = <<>>]
                 [] n \in Slaves(node, m) /\ node[n].slave = "wait_end" -> SendBulkToSlave(node[n], rdb)
                 [] OTHER -> node[n]]
         /\ disk' = [disk EXCEPT ![m] = rdb]
  /\ UNCHANGED <<ids, writes, waiting, budget, admin>>

BgsaveFails(m) ==
  /\ node[m].child # <<>> /\ Spend("bgsave_fails")
  /\ node' = [n \in Nodes |->
        CASE n = m -> [node[n] EXCEPT !.child = <<>>]
          [] n \in Slaves(node, m) /\ node[n].slave = "wait_end" ->
               [node[n] EXCEPT !.slave = "gone", !.buf = <<>>]
          [] OTHER -> node[n]]
  /\ UNCHANGED <<disk, ids, writes, waiting, admin>>

-----------------------------------------------------------------------------
(* Resynchronization, on the side of the replica. *)

(* connectWithMaster, the handshake, and the PSYNC request that ends it. *)
SendPsync(r) ==
  LET s == node[r]
      ask == IF s.cached # None THEN Position(s.cached.id, s.cached.off + 1) ELSE Position(-1, -1)
  IN  /\ s.state = "connect"
      /\ node' = [node EXCEPT ![r] = [Closed EXCEPT !.slave = "handshake", !.req = ask,
                                                    !.failing = s.failover = "progress"]
                                     @@ [s EXCEPT !.state = "psync"]]
      /\ UNCHANGED <<disk, ids, writes, waiting, budget, admin>>

(* slaveTryPartialResynchronization, the reply +CONTINUE. *)
Resurrected(N, r, id) ==
  LET s == N[r]
      moved == IF id = s.cached.id THEN N
               ELSE DisconnectSlaves([N EXCEPT ![r].replid2 = Position(s.cached.id, s.offset + 1),
                                               ![r].replid = id], r)
      back == [moved EXCEPT ![r].master = Position(id, s.cached.off), ![r].cached = None,
                            ![r].state = "connected", ![r].chan = Tail(@)]
  IN  IF s.backlog = NoBacklog THEN CreateReplicationBacklog(back, r) ELSE back

(* syncWithMaster on the reply to PSYNC. *)
ReadPsyncReply(r) ==
  LET s == node[r]
      N == IF s.failover = "progress" THEN ClearFailoverState(node, r) ELSE node
  IN  /\ s.state = "psync" /\ s.chan # <<>>
      /\ CASE Head(s.chan).type = "error" ->
                /\ node' = IF s.failover = "progress" THEN AbortFailover(node, r, ids + 1)
                           ELSE CloseLink([node EXCEPT ![r].state = "connect"], r)
                /\ ids' = IF s.failover = "progress" THEN ids + 1 ELSE ids
           [] Head(s.chan).type = "continue" ->
                node' = Resurrected(N, r, Head(s.chan).id) /\ UNCHANGED ids
           [] Head(s.chan).type = "fullresync" ->
                /\ node' = [N EXCEPT ![r].target = Head(s.chan).pos, ![r].state = "transfer",
                                     ![r].chan = Tail(@)]
                /\ UNCHANGED ids
      /\ UNCHANGED <<disk, writes, waiting, budget, admin>>

(* replicationAttachToNewMaster, with the BGSAVE in progress killed. *)
AttachToNewMaster(N, r) ==
  FreeReplicationBacklog(DisconnectSlaves([N EXCEPT ![r].cached = None, ![r].child = <<>>], r), r)

(* readSyncBulkPayload, once the whole file has arrived. *)
LoadRdb(r) ==
  LET s == node[r]
      rdb == Head(s.chan).rdb
      N == AttachToNewMaster(node, r)
  IN  /\ s.state = "transfer" /\ s.chan # <<>> /\ Head(s.chan).type = "rdb"
      /\ node' = CreateReplicationBacklog(
                   [N EXCEPT ![r].chan = Tail(@), ![r].data = rdb.data, ![r].state = "connected",
                             ![r].master = s.target, ![r].replid = s.target.id,
                             ![r].offset = s.target.off, ![r].replid2 = None], r)
      /\ disk' = [disk EXCEPT ![r] = rdb]
      /\ UNCHANGED <<ids, writes, waiting, budget, admin>>

(* The file cannot be loaded: the data set is gone, the IDs are not. *)
LoadRdbFails(r) ==
  LET s == node[r]
  IN  /\ s.state = "transfer" /\ s.chan # <<>> /\ Head(s.chan).type = "rdb"
      /\ Spend("load_fails")
      /\ node' = CloseLink([AttachToNewMaster(node, r) EXCEPT ![r].data = <<>>, ![r].state = "connect"], r)
      /\ UNCHANGED <<disk, ids, writes, waiting, admin>>

(* replicationCacheMaster and cancelReplicationHandshake: the connection   *)
(* is lost, or times out; or the replica reads that it was closed.         *)
LoseLink(r) ==
  /\ node[r].slave # "none"
  /\ IF node[r].slave = "gone" THEN UNCHANGED budget ELSE Spend("drop")
  /\ node' = CloseLink([node EXCEPT ![r] = [Freed(@) EXCEPT !.state = "connect"]], r)
  /\ UNCHANGED <<disk, ids, writes, waiting, admin>>

-----------------------------------------------------------------------------
(* Restarts. *)

Save(n) ==
  /\ Spend("save")
  /\ disk' = [disk EXCEPT ![n] = Rdb(n)]
  /\ UNCHANGED <<node, ids, writes, waiting, admin>>

Fresh(h, id) ==
  [host |-> h, state |-> IF h = Nobody THEN "none" ELSE "connect", replid |-> id, replid2 |-> None,
   offset |-> 0, backlog |-> NoBacklog, data |-> <<>>, master |-> None, cached |-> None,
   target |-> None, child |-> <<>>, failover |-> "no", goal |-> Nobody] @@ Closed

(* loadDataFromDisk: the saved position becomes the second ID of a master, *)
(* the ID and the cached master of a replica.                              *)
Loaded(h, rdb, id) ==
  LET s == [Fresh(h, id) EXCEPT !.data = rdb.data]
  IN  IF rdb.info = None THEN s
      ELSE IF h = Nobody
      THEN [s EXCEPT !.replid2 = Position(rdb.info.id, rdb.info.off + 1), !.offset = rdb.info.off,
                     !.backlog = [off |-> rdb.info.off + 1, cmds |-> <<>>]]
      ELSE [s EXCEPT !.replid = rdb.info.id, !.offset = rdb.info.off, !.cached = rdb.info]

(* A crash and a restart, with the host the configuration file names. *)
Restart(n) ==
  /\ Spend("restart")
  /\ \E h \in {Nobody, node[n].host} :
       node' = [DisconnectSlaves(node, n) EXCEPT ![n] = Loaded(h, disk[n], ids + 1)]
  /\ ids' = ids + 1
  /\ waiting' = Unblocked(n)
  /\ UNCHANGED <<disk, writes, admin>>

-----------------------------------------------------------------------------
(* Acknowledgements, WAIT and FAILOVER. *)

(* replicationSendAck and the ACK branch of replconfCommand; only while    *)
(* somebody waits for it.                                                  *)
Ack(r) ==
  /\ node[r].state = "connected" /\ node[r].slave = "online"
  /\ node[node[r].host].failover = "wait" \/ (waiting # Nobody /\ waiting.at = node[r].host)
  /\ node[r].ack < node[r].master.off
  /\ node' = [node EXCEPT ![r].ack = node[r].master.off]
  /\ UNCHANGED <<disk, ids, writes, waiting, budget, admin>>

(* Mutant: replicas that are not online are counted. *)
CountAcks_Any(m, off) == Cardinality({r \in Slaves(node, m) : off <= 0 \/ node[r].ack >= off - 1})

(* replicationCountAcksByOffset *)
CountAcks(m, off) == Cardinality({r \in Slaves(node, m) : node[r].slave = "online" /\ node[r].ack >= off})

(* waitCommand by the client that wrote last, when it has to block. *)
WaitCommand(m, k) ==
  /\ node[m].host = Nobody /\ waiting = Nobody /\ node[m].data # <<>>
  /\ CountAcks(m, node[m].offset) < k
  /\ Spend("wait")
  /\ waiting' = [at |-> m, off |-> node[m].offset, replicas |-> k, w |-> node[m].data[Len(node[m].data)]]
  /\ UNCHANGED <<node, disk, ids, writes, admin>>

(* processClientsWaitingReplicas *)
WaitReturns ==
  /\ waiting # Nobody /\ CountAcks(waiting.at, waiting.off) >= waiting.replicas
  /\ waiting' = Nobody
  /\ UNCHANGED <<node, disk, ids, writes, budget, admin>>

(* failoverCommand without FORCE: writes are paused from here on. *)
FailoverCommand(m) ==
  /\ node[m].failover = "no" /\ node[m].host = Nobody /\ Slaves(node, m) # {}
  /\ Spend("failover")
  /\ node' = [node EXCEPT ![m].failover = "wait"]
  /\ UNCHANGED <<disk, ids, writes, waiting, admin>>

(* Mutant: a replica that is one write behind has caught up. *)
CaughtUp_Almost(m, r) == node[r].ack >= node[m].offset - 1

CaughtUp(m, r) == node[r].ack = node[m].offset

(* updateFailoverStatus, once a replica has caught up. *)
UpdateFailoverStatus(m) ==
  /\ node[m].failover = "wait"
  /\ \E r \in Slaves(node, m) :
       /\ CaughtUp(m, r)
       /\ node' = SetMaster([node EXCEPT ![m].failover = "progress", ![m].goal = r], m, r)
  /\ waiting' = Unblocked(m)
  /\ UNCHANGED <<disk, ids, writes, budget, admin>>

(* FAILOVER ABORT, or the timeout of the failover. *)
FailoverAbort(m) ==
  /\ node[m].failover # "no" /\ Spend("abort")
  /\ node' = AbortFailover(node, m, ids + 1) /\ ids' = ids + 1
  /\ UNCHANGED <<disk, writes, waiting, admin>>

-----------------------------------------------------------------------------
(* A replica of a topology is in sync with its host; every server has the  *)
(* ID of the one master.                                                   *)
Init ==
  /\ \E sc \in Scenarios :
       /\ node = [n \in Nodes |->
                    IF sc.hosts[n] = Nobody
                    THEN [Fresh(Nobody, 1) EXCEPT !.backlog = [off |-> 1, cmds |-> <<>>]]
                    ELSE [Fresh(sc.hosts[n], 1) EXCEPT
                            !.state = "connected", !.master = Position(1, 0), !.slave = "online",
                            !.backlog = [off |-> 1, cmds |-> <<>>]]]
       /\ admin = sc.admin /\ budget = sc.budget
  /\ disk = [n \in Nodes |-> [data |-> <<>>, info |-> None]]
  /\ ids = 1 /\ writes = 0 /\ waiting = Nobody

Next ==
  \/ \E n \in Nodes :
       \/ Write(n) \/ ApplyStream(n) \/ IncrementalTrimReplicationBacklog(n) \/ BacklogTimeout(n)
       \/ SyncCommand(n) \/ StartPendingFork(n) \/ BgsaveDone(n) \/ BgsaveFails(n)
       \/ SendPsync(n) \/ ReadPsyncReply(n) \/ LoadRdb(n) \/ LoadRdbFails(n) \/ LoseLink(n)
       \/ Save(n) \/ Restart(n) \/ Ack(n)
       \/ FailoverCommand(n) \/ UpdateFailoverStatus(n) \/ FailoverAbort(n)
       \/ \E k \in 1 .. Cardinality(Nodes) - 1 : WaitCommand(n, k)
  \/ \E n \in Nodes, h \in Nodes \cup {Nobody} : ReplicaofCommand(n, h)
  \/ WaitReturns

Spec == Init /\ [][Next]_vars

-----------------------------------------------------------------------------
(* Properties. *)

(* What the replica's data set is once it has read all that was sent. *)
Due(r) ==
  LET chan == node[r].chan
      files == {i \in DOMAIN chan : chan[i].type = "rdb"}
      base == IF files = {} THEN node[r].data ELSE chan[CHOOSE i \in files : TRUE].rdb.data
      cmds == SelectSeq(chan, LAMBDA msg : msg.type = "cmd")
  IN  base \o [i \in DOMAIN cmds |-> cmds[i].w]

(* An attached replica gets exactly the data set of its host, whatever     *)
(* promotions, partial resyncs, chains, lost links, restarts and failed    *)
(* loads came before: a PSYNC is never accepted for another history, at    *)
(* another offset, or from a backlog that lacks a write.                   *)
ReplicasConverge ==
  \A r \in Nodes :
    LET m == node[r].host
    IN  /\ node[r].slave = "online" => Due(r) = node[m].data
        /\ node[r].slave = "wait_end" => node[m].child[1].data \o node[r].buf = node[m].data

(* Servers that can be asked to continue from their position. *)
Positioned(n) ==
  LET s == node[n]
  IN  IF s.host = Nobody THEN s.backlog # NoBacklog ELSE s.master # None \/ s.cached # None

(* A replication ID and an offset name one data set: of two servers with   *)
(* the same ID, the one with the smaller offset lacks only the writes      *)
(* between the two offsets. PSYNC relies on it when it compares nothing    *)
(* else. And what a replica would ask to continue from is its own ID and   *)
(* offset, so that an RDB file may name them (the comment in               *)
(* rdbPopulateSaveInfo).                                                   *)
SameHistory ==
  /\ \A m, n \in Nodes :
       /\ Positioned(m) /\ Positioned(n)
       /\ node[m].replid = node[n].replid /\ node[m].offset <= node[n].offset
       => /\ IsPrefix(node[m].data, node[n].data)
          /\ Len(node[n].data) - Len(node[m].data) = node[n].offset - node[m].offset
  /\ \A n \in Nodes :
       LET s == node[n]
       IN  /\ s.master = None \/ s.cached = None
           /\ s.master # None => s.state = "connected" /\ s.master = Position(s.replid, s.offset)
           /\ s.host # Nobody /\ s.cached # None => s.cached = Position(s.replid, s.offset)

(* WAIT answers only when that many replicas have the client's write. *)
WaitHonest ==
  [][WaitReturns => Cardinality({r \in Nodes \ {waiting.at} : waiting.w \in Range(node[r].data)})
                      >= waiting.replicas]_vars

(* A coordinated failover that completes loses no write: the new master    *)
(* has all that the old one had when its writes were paused.               *)
FailoverLosesNothing ==
  [][\A m \in Nodes :
       node[m].failover = "progress" /\ node'[m].failover = "no" /\ node'[m].host # Nobody
         => IsPrefix(node[m].data, node[node[m].host].data)]_vars

=============================================================================
