-------------------------------- MODULE Cluster --------------------------------
(***************************************************************************)
(* Redis Cluster (src/redis-stable/src/cluster_legacy.c): the epochs and   *)
(* votes by which a replica is elected in the place of its master, the     *)
(* packets that spread who serves which slot, the configuration epochs     *)
(* that decide between two claims, and their persistence. Every node knows *)
(* every other, and a shard is a master and its replicas. A PING or PONG   *)
(* may be handled at any time and as often as one likes; when a node is    *)
(* flagged FAIL, and which timeouts have passed, is left open.             *)
(***************************************************************************)
EXTENDS Integers, FiniteSets, FiniteSetsExt

CONSTANTS
  Nodes,         \* numbers: node IDs are compared
  MasterOf,      \* the master each node follows at first, itself if it is a master
  Nobody,        \* no master: the node is one
  Scenarios      \* bounds: how often each event may happen, the nodes that are
                 \* flagged FAIL at first, and those between which PINGs pass

VARIABLES
  node,      \* the state of each node: its view of the cluster
  disk,      \* the nodes.conf of each
  net,       \* packets on their way, other than prompt PINGs and PONGs
  budget,    \* what is left of the bounds
  up,        \* the nodes that PING each other; the others are cut off from that
  cast,      \* history: the votes, <<voter, epoch, candidate>>
  won,       \* history: the elections won
  orderly,   \* history: every epoch was voted on, and no packet was overtaken
  punctual   \* history: no answer was counted before or after the election it is for

vars == <<node, disk, net, budget, up, cast, won, orderly, punctual>>

Slots == {MasterOf[n] : n \in Nodes}       \* a slot for each master, named after it

NoElection == [sent |-> FALSE, epoch |-> 0, count |-> 0]

-----------------------------------------------------------------------------
(* The view r of node p. *)

IsMaster(r, n) == r.slaveof[n] = Nobody

SlotsOf(r, n) == {s \in Slots : r.slots[s] = n}

SameShard(m, n) == MasterOf[m] = MasterOf[n]

(* clusterGetMaxEpoch *)
MaxEpoch(r) == Max({r.config[n] : n \in Nodes} \cup {r.epoch})

(* clusterUpdateState: the masters that serve slots. *)
Size(r) == Cardinality({n \in Nodes : IsMaster(r, n) /\ SlotsOf(r, n) # {}})

(* clusterBuildMessageHdr: a replica sends the slots and the configuration *)
(* epoch of its master.                                                    *)
Header(p, r) ==
  LET m == IF IsMaster(r, p) THEN p ELSE r.slaveof[p]
  IN  [from |-> p, slaveof |-> r.slaveof[p], epoch |-> r.epoch, config |-> r.config[m],
       slots |-> SlotsOf(r, m)]

(* clusterSetNodeAsMaster *)
SetNodeAsMaster(r, n) == [r EXCEPT !.slaveof[n] = Nobody]

(* resetManualFailover, and the replication target. *)
SetMaster(p, r, n) == [r EXCEPT !.slaveof[p] = n, !.manual = FALSE]

(* clusterDelSlot and clusterAddSlot *)
MoveSlots(r, moved, n) ==
  [r EXCEPT !.slots = [s \in Slots |-> IF s \in moved THEN n ELSE @[s]], !.unclaimed = @ \ moved]

(* Mutant: the claim is compared with what is known of the claimant. *)
Rebound_Claimant(r, n, config, slots) ==
  {s \in slots : r.slots[s] # n /\ (s \in r.unclaimed \/ r.config[n] < config)}

(* The slots a claim takes: those nobody claims or with an older epoch. *)
Rebound(r, n, config, slots) ==
  {s \in slots : r.slots[s] # n /\ (s \in r.unclaimed \/ r.config[r.slots[s]] < config)}

(* clusterUpdateSlotsConfigWith at p; the node that lost its last slot, or *)
(* its replica, follows the one that took it.                              *)
UpdateSlotsConfigWith(p, r, n, config, slots) ==
  LET cur == IF IsMaster(r, p) THEN p ELSE r.slaveof[p]
      taken == Rebound(r, n, config, slots)
      a == MoveSlots([r EXCEPT !.unclaimed = (@ \ {s \in slots : r.slots[s] = n})
                                             \cup (SlotsOf(r, n) \ slots)], taken, n)
      over == a.slaveof[p] # Nobody /\ a.slaveof[a.slaveof[p]] \notin {Nobody, p}
  IN  CASE n = p -> r
        [] n # p /\ (\E s \in taken : r.slots[s] = cur) /\ SlotsOf(a, cur) = {} -> SetMaster(p, a, n)
        [] n # p /\ ~((\E s \in taken : r.slots[s] = cur) /\ SlotsOf(a, cur) = {}) /\ over ->
             SetMaster(p, a, a.slaveof[a.slaveof[p]])
        [] OTHER -> a

-----------------------------------------------------------------------------
(* clusterProcessPacket: what p makes of a packet with header h. *)

(* Every packet: newer epochs are taken over. *)
Heard(r, h) ==
  [r EXCEPT !.epoch = Max({@, h.epoch}), !.config[h.from] = Max({@, h.config})]

(* The role of the sender. A master that became a replica of a node of its *)
(* shard takes its slots along.                                            *)
RoleSwitch(r, h) ==
  LET n == h.from
      m == h.slaveof
      lost == SlotsOf(r, n)
      handed == SetNodeAsMaster(MoveSlots(r, lost, m), m)
      b == IF IsMaster(r, n) /\ SameShard(m, n) /\ r.config[n] <= h.config
           THEN [handed EXCEPT !.config[m] = h.config]
           ELSE r
  IN  IF m = Nobody THEN SetNodeAsMaster(r, n) ELSE [b EXCEPT !.slaveof[n] = m]

Dirty(r, h) ==
  SlotsOf(r, IF IsMaster(r, h.from) THEN h.from ELSE r.slaveof[h.from]) # h.slots

ServedSlots(p, r, h) ==
  IF IsMaster(r, h.from) /\ Dirty(r, h)
  THEN UpdateSlotsConfigWith(p, r, h.from, h.config, h.slots) ELSE r

(* An UPDATE tells the sender of the first slot it should not claim; the   *)
(* slots its new owner stopped claiming are left out.                      *)
Stale(r, h) ==
  {s \in h.slots : r.slots[s] # h.from /\ s \notin r.unclaimed /\ r.config[r.slots[s]] > h.config}

Update(p, r, to, n) ==
  [type |-> "UPDATE", to |-> to, hdr |-> Header(p, r), node |-> n, config |-> r.config[n],
   slots |-> SlotsOf(r, n) \ r.unclaimed]

(* clusterHandleConfigEpochCollision: the node with the smaller ID moves. *)
HandleConfigEpochCollision(p, r, h) ==
  IF /\ IsMaster(r, p) /\ IsMaster(r, h.from)
     /\ h.config = r.config[p] /\ r.config[h.from] = r.config[p]
     /\ h.from > p
  THEN [r EXCEPT !.epoch = @ + 1, !.config[p] = r.epoch + 1]
  ELSE r

(* A PING or PONG: the new view, and the UPDATE it is answered with. *)
Ping(p, r, h) ==
  LET b == RoleSwitch(Heard(r, h), h)
      c == ServedSlots(p, b, h)
      stale == IF Dirty(b, h) THEN Stale(c, h) ELSE {}
  IN  [view |-> HandleConfigEpochCollision(p, c, h),
       send |-> IF stale = {} THEN {} ELSE {Update(p, c, h.from, c.slots[Min(stale)])}]

-----------------------------------------------------------------------------
(* What is saved: nodes.conf. A currentEpoch that was only heard of is not *)
(* written until the next change.                                          *)
Saved(r) == [epoch |-> r.epoch, vote |-> r.vote, config |-> r.config, slaveof |-> r.slaveof,
             slots |-> r.slots]

Changed(r, b) == Saved(r) # Saved([b EXCEPT !.epoch = r.epoch])

Save(p, b) == disk' = [disk EXCEPT ![p] = Saved(b)]

(* clusterBeforeSleep: the file is written before the packets of the same  *)
(* event are.                                                              *)
Become(p, b) ==
  /\ node' = [node EXCEPT ![p] = b]
  /\ IF Changed(node[p], b) THEN Save(p, b) ELSE UNCHANGED disk

Spend(what) == budget[what] > 0 /\ budget' = [budget EXCEPT ![what] = @ - 1]

(* A PING or PONG of n as it is now. *)
ProcessPing(p, n) ==
  LET o == Ping(p, node[p], Header(n, node[n]))
  IN  /\ n # p /\ {n, p} \subseteq up
      /\ o.view # node[p] \/ ~(o.send \subseteq net)
      /\ Become(p, o.view)
      /\ net' = net \cup o.send
      /\ UNCHANGED <<budget, up, cast, won>>

(* One that is on its way for long, while others overtake it. *)
Delay(n, p) ==
  /\ n # p /\ {n, p} \subseteq up
  /\ Spend("delay")
  /\ net' = net \cup {[type |-> "PING", to |-> p, hdr |-> Header(n, node[n])]}
  /\ UNCHANGED <<node, disk, up, cast, won>>

ProcessLatePing(m) ==
  LET o == Ping(m.to, node[m.to], m.hdr)
  IN  /\ m.type = "PING"
      /\ Become(m.to, o.view)
      /\ net' = (net \ {m}) \cup o.send
      /\ UNCHANGED <<budget, up, cast, won>>

Updated(r, m) ==
  LET b == Heard(r, m.hdr)
      c == [SetNodeAsMaster(b, m.node) EXCEPT !.config[m.node] = m.config]
  IN  IF b.config[m.node] >= m.config THEN b
      ELSE UpdateSlotsConfigWith(m.to, c, m.node, m.config, m.slots)

ProcessUpdate(m) ==
  /\ m.type = "UPDATE"
  /\ Become(m.to, Updated(node[m.to], m))
  /\ net' = net \ {m}
  /\ UNCHANGED <<budget, up, cast, won>>

-----------------------------------------------------------------------------
(* The election. *)

(* clusterSendFailoverAuthIfNeeded *)
MayVote(p, r, m) ==
  LET n == m.hdr.from
  IN  /\ IsMaster(r, p) /\ SlotsOf(r, p) # {}
      /\ m.hdr.epoch >= r.epoch
      /\ r.vote # r.epoch
      /\ ~IsMaster(r, n) /\ (r.slaveof[n] \in r.fail \/ m.force)
      /\ \A s \in m.hdr.slots : s \in r.unclaimed \/ r.config[r.slots[s]] <= m.hdr.config

(* Mutant: the vote is not remembered. *)
Vote_Forgotten(r) == r

Vote(r) == [r EXCEPT !.vote = r.epoch]

ProcessAuthRequest(m) ==
  LET p == m.to
      b == Heard(node[p], m.hdr)
      v == Vote(b)
  IN  /\ m.type = "AUTH_REQUEST"
      /\ IF MayVote(p, b, m)
         THEN /\ Become(p, v)
              /\ net' = (net \ {m}) \cup {[type |-> "AUTH_ACK", to |-> m.hdr.from, hdr |-> Header(p, v)]}
              /\ cast' = cast \cup {<<p, b.epoch, m.hdr.from>>}
         ELSE Become(p, b) /\ net' = net \ {m} /\ UNCHANGED cast
      /\ UNCHANGED <<budget, up, won>>

(* Between the end of an election and the next, an answer that is late for *)
(* all of the retry time still counts, and is not forgotten.               *)
ProcessAuthAck(m) ==
  LET p == m.to
      b == Heard(node[p], m.hdr)
      n == m.hdr.from
      counts == IsMaster(b, n) /\ SlotsOf(b, n) # {} /\ m.hdr.epoch >= b.auth.epoch
  IN  /\ m.type = "AUTH_ACK"
      /\ Become(p, IF counts THEN [b EXCEPT !.auth.count = @ + 1] ELSE b)
      /\ net' = net \ {m}
      /\ IF counts /\ ~b.auth.sent THEN Spend("late") ELSE UNCHANGED budget
      /\ UNCHANGED <<up, cast, won>>

(* clusterHandleSlaveFailover: its preconditions, *)
MayFailover(p, r) ==
  /\ ~IsMaster(r, p)
  /\ r.slaveof[p] \in r.fail \/ r.manual
  /\ SlotsOf(r, r.slaveof[p]) # {}

(* the first election, or the next after the retry time,                   *)
Schedule(p) ==
  /\ MayFailover(p, node[p]) /\ node[p].auth.sent
  /\ Spend("retry")
  /\ node' = [node EXCEPT ![p].auth = [@ EXCEPT !.sent = FALSE, !.count = 0]]
  /\ UNCHANGED <<disk, net, up, cast, won>>

(* its start,                                                              *)
StartElection(p) ==
  LET r == node[p]
      b == [r EXCEPT !.epoch = @ + 1, !.auth = [@ EXCEPT !.sent = TRUE, !.epoch = r.epoch + 1]]
  IN  /\ MayFailover(p, r) /\ ~r.auth.sent
      /\ Spend("election")
      /\ node' = [node EXCEPT ![p] = b]
      /\ Save(p, b)
      /\ net' = net \cup {[type |-> "AUTH_REQUEST", to |-> n, hdr |-> Header(p, b), force |-> r.manual]
                           : n \in {q \in Nodes \ {p} : IsMaster(r, q) /\ SlotsOf(r, q) # {}}}
      /\ UNCHANGED <<up, cast, won>>

(* clusterFailoverReplaceYourMaster *)
ReplaceYourMaster(p, r) ==
  [MoveSlots(SetNodeAsMaster(r, p), SlotsOf(r, r.slaveof[p]), p) EXCEPT !.manual = FALSE]

NeededQuorum(r) == Size(r) \div 2 + 1

(* and its end: the replica takes over.                                    *)
WinElection(p) ==
  LET r == node[p]
      b == [r EXCEPT !.config[p] = Max({@, r.auth.epoch})]
  IN  /\ MayFailover(p, r) /\ r.auth.sent /\ r.auth.count >= NeededQuorum(r)
      /\ node' = [node EXCEPT ![p] = ReplaceYourMaster(p, b)]
      /\ Save(p, ReplaceYourMaster(p, b))
      /\ won' = won \cup {[who |-> p, epoch |-> r.auth.epoch, size |-> Size(r)]}
      /\ UNCHANGED <<net, budget, up, cast>>

-----------------------------------------------------------------------------
(* What the administrator does, and what goes wrong. *)

(* clusterBumpConfigEpochWithoutConsensus *)
BumpConfigEpoch(p, r) ==
  IF r.config[p] = 0 \/ r.config[p] # MaxEpoch(r)
  THEN [r EXCEPT !.epoch = @ + 1, !.config[p] = r.epoch + 1] ELSE r

(* CLUSTER BUMPEPOCH *)
BumpEpochCommand(p) ==
  /\ Spend("bump")
  /\ BumpConfigEpoch(p, node[p]) # node[p]
  /\ Become(p, BumpConfigEpoch(p, node[p]))
  /\ UNCHANGED <<net, up, cast, won>>

(* CLUSTER FAILOVER, with FORCE or once the replica has caught up: the     *)
(* retry time does not have to pass if no election was held.               *)
FailoverCommand(p) ==
  /\ ~IsMaster(node[p], p)
  /\ Spend("manual")
  /\ node' = [node EXCEPT ![p].manual = TRUE]
  /\ UNCHANGED <<disk, net, up, cast, won>>

(* CLUSTER FAILOVER TAKEOVER *)
TakeoverCommand(p) ==
  /\ ~IsMaster(node[p], p)
  /\ Spend("takeover")
  /\ Become(p, ReplaceYourMaster(p, BumpConfigEpoch(p, node[p])))
  /\ UNCHANGED <<net, up, cast, won>>

(* clearNodeFailureIfNeeded, manualFailoverCheckTimeout *)
Clear(p) ==
  /\ Spend("clear")
  /\ \/ \E n \in node[p].fail : node' = [node EXCEPT ![p].fail = @ \ {n}]
     \/ node[p].manual /\ node' = [node EXCEPT ![p].manual = FALSE]
  /\ UNCHANGED <<disk, net, up, cast, won>>

(* The majority of the masters reported n: markNodeAsFailingIfNeeded, or a *)
(* FAIL packet.                                                            *)
MarkNodeAsFailing(p, n) ==
  /\ n # p /\ n \notin node[p].fail
  /\ Spend("fail")
  /\ node' = [node EXCEPT ![p].fail = @ \cup {n}]
  /\ UNCHANGED <<disk, net, up, cast, won>>

View(d, fail) ==
  [epoch |-> d.epoch, vote |-> d.vote, config |-> d.config, slaveof |-> d.slaveof,
   slots |-> d.slots, unclaimed |-> {}, fail |-> fail, auth |-> NoElection, manual |-> FALSE]

(* clusterLoadConfig: a replica has no configuration epoch of its own. The *)
(* flags are in the file as well.                                          *)
Loaded(d, fail) ==
  LET r == [View(d, fail) EXCEPT !.config = [n \in Nodes |-> IF d.slaveof[n] = Nobody THEN @[n] ELSE 0]]
  IN  [r EXCEPT !.epoch = MaxEpoch(r)]

Restart(p) ==
  /\ Spend("restart")
  /\ node' = [node EXCEPT ![p] = Loaded(disk[p], @.fail)]
  /\ net' = {m \in net : m.to # p}
  /\ UNCHANGED <<disk, up, cast, won>>

-----------------------------------------------------------------------------
(* The cluster was created with a configuration epoch for each master. *)
FirstConfig ==
  [epoch |-> Max(Nodes), vote |-> 0, config |-> MasterOf,
   slaveof |-> [n \in Nodes |-> IF MasterOf[n] = n THEN Nobody ELSE MasterOf[n]],
   slots |-> [s \in Slots |-> s]]

Init ==
  /\ disk = [p \in Nodes |-> FirstConfig]
  /\ \E c \in Scenarios :
       /\ budget = c.budget /\ up = c.up
       /\ node = [p \in Nodes |-> View(FirstConfig, c.fail \ {p})]
  /\ net = {} /\ cast = {} /\ won = {} /\ orderly = TRUE /\ punctual = TRUE

Step ==
  \/ \E p \in Nodes :
       \/ Schedule(p) \/ StartElection(p) \/ WinElection(p)
       \/ BumpEpochCommand(p) \/ FailoverCommand(p) \/ TakeoverCommand(p)
       \/ Clear(p) \/ Restart(p)
       \/ \E n \in Nodes : ProcessPing(p, n) \/ Delay(n, p) \/ MarkNodeAsFailing(p, n)
  \/ \E m \in net : ProcessLatePing(m) \/ ProcessUpdate(m) \/ ProcessAuthRequest(m) \/ ProcessAuthAck(m)

Next ==
  /\ Step
  /\ orderly' = (orderly /\ \A w \in {"delay", "bump", "takeover"} : budget'[w] = budget[w])
  /\ punctual' = (punctual /\ budget'["late"] = budget["late"])

Spec == Init /\ [][Next]_vars

-----------------------------------------------------------------------------
(* Properties. *)

Voters(epoch) == {v[1] : v \in {x \in cast : x[2] = epoch}}

(* Two replicas never win the same epoch, as long as no answer outlives    *)
(* the retry time and no more nodes voted than either took the cluster to  *)
(* have masters: a master votes once in an epoch, also if it restarts, and *)
(* its answer is counted once.                                             *)
OneWinnerPerEpoch ==
  punctual =>
    \A v, w \in won :
      v.epoch = w.epoch /\ Cardinality(Voters(v.epoch)) <= Min({v.size, w.size}) => v.who = w.who

(* No packet tells anybody anything new, whether it is on its way or yet   *)
(* to be sent.                                                             *)
Quiet ==
  LET idle(m) == m.type = "UPDATE" /\ Updated(node[m.to], m) = node[m.to]
  IN  /\ \A m \in net : idle(m)
      /\ \A p, n \in up : p # n =>
           LET o == Ping(p, node[p], Header(n, node[n])) IN o.view = node[p] /\ \A m \in o.send : idle(m)

(* The nodes that hear of each other agree on who serves every slot, and   *)
(* that node agrees too.                                                   *)
Agreement ==
  \A s \in Slots : \E n \in Nodes : \A p \in up : node[p].slots[s] = n /\ IsMaster(node[p], n)

(* When the nodes have nothing new to tell each other they agree, however  *)
(* often masters were failed over and nodes restarted, if every failover   *)
(* was voted on and no packet overtook another.                            *)
Convergence == Quiet /\ orderly => Agreement

=============================================================================
