----------------------------- MODULE ClusterProofs -----------------------------
(***************************************************************************)
(* The elections of Redis Cluster, for any number of nodes and shards and  *)
(* any number of elections, restarts, takeovers and late packets.          *)
(*                                                                         *)
(* A vote that anybody may know of is on disk (Persisted), so that a       *)
(* master never votes twice in an epoch (VotesOnce). A vote has at most    *)
(* one answer on its way (Acknowledged), and a candidate asks only in      *)
(* epochs later than all it has asked in (Asked), so that what it counts   *)
(* are votes of the present election (Counted). A winner therefore has the *)
(* votes of a majority (Elected), and two of them share a voter.           *)
(***************************************************************************)
EXTENDS RedisHA, FiniteSetTheorems, WellFoundedInduction, TLAPS

(* A leaf that needs arithmetic, or much of set theory, names its prover. *)
USE ZenonT(20)

(* Types *)

Masterships == [Nodes -> Nodes \cup {Nobody}]

Auths == [sent: BOOLEAN, epoch: Nat, count: Nat]

Views ==
  [epoch: Nat, vote: Nat, config: [Nodes -> Nat], slaveof: Masterships, slots: [Cl!Slots -> Nodes],
   unclaimed: SUBSET Cl!Slots, fail: SUBSET Nodes, auth: Auths, manual: BOOLEAN]

Files ==
  [epoch: Nat, vote: Nat, config: [Nodes -> Nat], slaveof: Masterships, slots: [Cl!Slots -> Nodes]]

Headers ==
  [from: Nodes, slaveof: Nodes \cup {Nobody}, epoch: Nat, config: Nat, slots: SUBSET Cl!Slots]

Pings == [type: {"PING"}, to: Nodes, hdr: Headers]

Updates ==
  [type: {"UPDATE"}, to: Nodes, hdr: Headers, node: Nodes, config: Nat, slots: SUBSET Cl!Slots]

Requests == [type: {"AUTH_REQUEST"}, to: Nodes, hdr: Headers, force: BOOLEAN]

Acks == [type: {"AUTH_ACK"}, to: Nodes, hdr: Headers]

TypeOK ==
  /\ cNode \in [Nodes -> Views]
  /\ cDisk \in [Nodes -> Files]
  /\ cNet \subseteq Pings \cup Updates \cup Requests \cup Acks
  /\ cBudget \in [ClusterEvents -> Nat]
  /\ cCast \subseteq Nodes \X Nat \X Nodes
  /\ cWon \subseteq [who: Nodes, epoch: Nat, size: Nat]
  /\ cPunctual \in BOOLEAN

(* A vote is on disk when it is known to anybody, and no vote is for an    *)
(* epoch to come.                                                          *)
Persisted ==
  \A p \in Nodes :
    /\ cDisk[p].vote = cNode[p].vote
    /\ cDisk[p].vote <= cDisk[p].epoch /\ cDisk[p].epoch <= cNode[p].epoch

(* The epoch is not later than what p has on disk, nor than its election.  *)
Past(p, e) ==
  /\ e <= cDisk[p].epoch
  /\ cNode[p].auth.sent => e <= cNode[p].auth.epoch

(* A candidate knows the epochs of its elections, and asks again only in   *)
(* a later one.                                                            *)
Asked ==
  /\ \A m \in cNet : m.type = "AUTH_REQUEST" => Past(m.hdr.from, m.hdr.epoch)
  /\ \A v \in cCast : Past(v[3], v[2])

(* A vote is not later than the last vote its voter remembers.             *)
Voted == \A v \in cCast : v[2] <= cNode[v[1]].vote

(* No master votes twice in an epoch. *)
VotesOnce == \A v, w \in cCast : v[1] = w[1] /\ v[2] = w[2] => v = w

(* The answer m is for the vote v. *)
IsAck(m, v) == m.type = "AUTH_ACK" /\ m.hdr.from = v[1] /\ m.hdr.epoch = v[2] /\ m.to = v[3]

(* An answer is for a vote, and is on its way once. *)
Acknowledged ==
  /\ \A m \in cNet : m.type = "AUTH_ACK" => <<m.hdr.from, m.hdr.epoch, m.to>> \in cCast
  /\ \A m, n \in cNet : m.type = "AUTH_ACK" /\ IsAck(n, <<m.hdr.from, m.hdr.epoch, m.to>>) => m = n

VotersFor(votes, e, p) == {q \in Nodes : <<q, e, p>> \in votes}

(* The voters whose answer has been received. *)
Received(packets, votes, e, p) ==
  {q \in VotersFor(votes, e, p) : \A m \in packets : ~IsAck(m, <<q, e, p>>)}

(* A candidate has counted no answer twice, and none before its election. *)
CountedAt(a, packets, votes, p) ==
  IF a.sent THEN a.count <= Cardinality(Received(packets, votes, a.epoch, p)) ELSE a.count = 0

Counted == \A p \in Nodes : CountedAt(cNode[p].auth, cNet, cCast, p)

(* Most of the masters the winner knew of voted for it.                    *)
Majority(v) == Cardinality(VotersFor(cCast, v.epoch, v.who)) >= v.size \div 2 + 1

Elected == \A v \in cWon : Majority(v)

(* The inductive invariant. *)
IInv ==
  /\ TypeOK /\ Persisted /\ Asked /\ Voted /\ VotesOnce /\ Acknowledged
  /\ cPunctual => Counted /\ Elected
-----------------------------------------------------------------------------
(* Numbers *)

(* The cardinality that Cluster takes from FiniteSets is this module's. *)
LEMMA SameCardinality ==
  ASSUME NEW T
  PROVE  Cl!Cardinality(T) = Cardinality(T)
BY DEF Cl!Cardinality, Cardinality

(* A nonempty set of natural numbers has a least element. *)
LEMMA Least ==
  ASSUME NEW T, T \subseteq Nat, T # {}
  PROVE  \E n \in T : \A m \in T : n <= m
<1> DEFINE R == OpToRel(<, Nat)
<1>0. R = {ss \in Nat \X Nat : ss[1] < ss[2]}
  BY DEF OpToRel
<1>1. IsWellFoundedOn(R, Nat)
  BY NatLessThanWellFounded
<1> HIDE DEF R
<1>2. PICK n \in T : \A m \in T : ~(<<m, n>> \in R)
  BY <1>1, WFMin
<1>3. ASSUME NEW m \in Nat, NEW k \in Nat, m < k PROVE <<m, k>> \in R
  BY <1>0, <1>3
<1>4. ASSUME NEW m \in T PROVE n <= m
  <2>1. n \in Nat /\ m \in Nat
    OBVIOUS
  <2>2. ~(<<m, n>> \in R)
    BY <1>2
  <2>3. ~(m < n)
    BY <2>1, <2>2, <1>3
  <2> QED BY SMTT(30), <2>1, <2>3
<1> QED BY <1>4

(* A set with 0, and with the successor of each of its numbers, has all. *)
LEMMA Induction ==
  ASSUME NEW S, 0 \in S, \A n \in Nat : n \in S => n + 1 \in S
  PROVE  \A n \in Nat : n \in S
<1> SUFFICES ASSUME NEW k \in Nat, k \notin S PROVE FALSE
  OBVIOUS
<1> DEFINE T == Nat \ S
<1>1. T \subseteq Nat /\ T # {}
  OBVIOUS
<1> HIDE DEF T
<1>2. PICK n \in T : \A m \in T : n <= m
  BY <1>1, Least
<1>3. n \in Nat /\ n \notin S /\ n # 0
  BY <1>2 DEF T
<1>4. n - 1 \in Nat /\ n - 1 \in S
  <2>1. n - 1 \in Nat /\ ~(n <= n - 1)
    BY SMTT(30), <1>3
  <2>2. n - 1 \notin T
    BY <1>2, <2>1
  <2> QED BY <2>1, <2>2 DEF T
<1>5. (n - 1) + 1 = n
  BY SMTT(30), <1>3
<1> QED BY <1>3, <1>4, <1>5

(* The larger of two numbers. *)
LEMMA MaxPair ==
  ASSUME NEW a \in Nat, NEW b \in Nat
  PROVE  Cl!Max({a, b}) \in Nat /\ Cl!Max({a, b}) >= a /\ Cl!Max({a, b}) >= b /\ Cl!Max({a, b}) \in {a, b}
<1>1. \E x \in {a, b} : \A y \in {a, b} : x >= y
  <2>1. CASE a >= b
    BY SMTT(30), <2>1
  <2>2. CASE b >= a
    BY SMTT(30), <2>2
  <2> QED BY SMTT(30), <2>1, <2>2
<1> QED BY <1>1 DEF Cl!Max

(* The smallest number of a set is in it. *)
LEMMA MinOf ==
  ASSUME NEW T, T \subseteq Nat, T # {}
  PROVE  Cl!Min(T) \in T /\ \A m \in T : Cl!Min(T) <= m
<1>1. \E n \in T : \A m \in T : n <= m
  BY Least
<1> QED BY <1>1 DEF Cl!Min

(* A finite set of numbers has a largest one. *)
LEMMA MaxOf ==
  ASSUME NEW T, T \subseteq Nat, T # {}, IsFiniteSet(T)
  PROVE  Cl!Max(T) \in T /\ \A m \in T : Cl!Max(T) >= m
<1> DEFINE Top(U) == \E x \in U : \A y \in U : x >= y
           S == {n \in Nat : \A U \in SUBSET Nat : IsFiniteSet(U) /\ Cardinality(U) = n + 1 => Top(U)}
<1>1. 0 \in S
  <2> SUFFICES ASSUME NEW U \in SUBSET Nat, IsFiniteSet(U), Cardinality(U) = 1 PROVE Top(U)
    BY SMTT(30)
  <2>1. PICK x : U = {x}
    BY FS_Singleton
  <2> QED BY SMTT(30), <2>1
<1>2. ASSUME NEW n \in Nat, n \in S PROVE n + 1 \in S
  <2> SUFFICES ASSUME NEW U \in SUBSET Nat, IsFiniteSet(U), Cardinality(U) = n + 2 PROVE Top(U)
    BY SMTT(30)
  <2>0. U # {}
    <3>1. n + 2 # 0
      BY SMTT(30)
    <3> QED BY <3>1, FS_EmptySet
  <2>1. PICK a \in U : TRUE
    BY <2>0
  <2>2. IsFiniteSet(U \ {a}) /\ Cardinality(U \ {a}) = n + 1
    BY SMTT(30), FS_RemoveElement
  <2>3. PICK x \in U \ {a} : \A y \in U \ {a} : x >= y
    BY <1>2, <2>2
  <2>4. CASE a >= x
    BY SMTT(30), <2>3, <2>4
  <2>5. CASE x >= a
    BY <2>3, <2>5
  <2> QED BY SMTT(30), <2>4, <2>5
<1>3. \A n \in Nat : n \in S
  <2>1. \A n \in Nat : n \in S => n + 1 \in S
    BY <1>2
  <2> HIDE DEF S
  <2> QED BY <1>1, <2>1, Induction
<1>4. Cardinality(T) \in Nat /\ Cardinality(T) # 0
  BY FS_CardinalityType, FS_EmptySet
<1>5. Cardinality(T) - 1 \in S /\ (Cardinality(T) - 1) + 1 = Cardinality(T)
  BY SMTT(30), <1>3, <1>4
<1>6. Top(T)
  BY <1>5
<1> QED BY <1>6 DEF Cl!Max

-----------------------------------------------------------------------------
(* Views. What handling a packet makes of a view: it is one, its epoch is  *)
(* no smaller, and neither vote nor election is touched.                   *)
Evolves(r, b) == b \in Views /\ b.epoch >= r.epoch /\ b.vote = r.vote /\ b.auth = r.auth

(* Views evolve in steps. *)
LEMMA EvolvesTwice ==
  ASSUME NEW r \in Views, NEW b, NEW c, Evolves(r, b), Evolves(b, c)
  PROVE  Evolves(r, c)
BY SMTT(30) DEF Evolves, Views

(* Every slot is named after a node. *)
LEMMA SlotsAre ==
  Cl!Slots \subseteq Nodes /\ Cl!Slots \subseteq Nat
BY ClusterAssumption DEF Cl!Slots

(* The header of a packet. *)
LEMMA HeaderType ==
  ASSUME NEW p \in Nodes, NEW r \in Views
  PROVE  Cl!Header(p, r) \in Headers /\ Cl!Header(p, r).from = p /\ Cl!Header(p, r).epoch = r.epoch
<1> DEFINE m == IF Cl!IsMaster(r, p) THEN p ELSE r.slaveof[p]
<1>1. m \in Nodes /\ r.slaveof[p] \in Nodes \cup {Nobody} /\ r.config \in [Nodes -> Nat] /\ r.epoch \in Nat
  BY DEF Views, Masterships, Cl!IsMaster
<1>2. r.config[m] \in Nat
  BY <1>1
<1>3. Cl!SlotsOf(r, m) \in SUBSET Cl!Slots
  BY DEF Cl!SlotsOf
<1> HIDE DEF m
<1> QED BY <1>1, <1>2, <1>3 DEF Cl!Header, Headers, m

(* Every packet: newer epochs are taken over. *)
LEMMA HeardOk ==
  ASSUME NEW r \in Views, NEW h \in Headers
  PROVE  Evolves(r, Cl!Heard(r, h)) /\ Cl!Heard(r, h).epoch \in {r.epoch, h.epoch} /\ Cl!Heard(r, h).epoch >= h.epoch
<1>1. r.epoch \in Nat /\ h.epoch \in Nat /\ h.config \in Nat /\ h.from \in Nodes /\ r.config \in [Nodes -> Nat]
  BY DEF Views, Headers
<1> DEFINE e == Cl!Max({r.epoch, h.epoch})
           x == Cl!Max({r.config[h.from], h.config})
           f == [r.config EXCEPT ![h.from] = x]
<1>2. e \in Nat /\ e >= r.epoch /\ e >= h.epoch /\ e \in {r.epoch, h.epoch}
  BY <1>1, MaxPair
<1>3. x \in Nat
  BY <1>1, MaxPair
<1>4. f \in [Nodes -> Nat]
  BY <1>1, <1>3
<1>5. Cl!Heard(r, h) = [r EXCEPT !.epoch = e, !.config = f]
  BY DEF Cl!Heard
<1> HIDE DEF e, f
<1> QED BY <1>2, <1>4, <1>5 DEF Evolves, Views

(* Slots change hands. *)
LEMMA MoveSlotsOk ==
  ASSUME NEW r \in Views, NEW moved, NEW n \in Nodes
  PROVE  Evolves(r, Cl!MoveSlots(r, moved, n))
<1> DEFINE f == [s \in Cl!Slots |-> IF s \in moved THEN n ELSE r.slots[s]]
           u == r.unclaimed \ moved
<1>1. f \in [Cl!Slots -> Nodes] /\ u \in SUBSET Cl!Slots
  BY DEF Views
<1>2. Cl!MoveSlots(r, moved, n) = [r EXCEPT !.slots = f, !.unclaimed = u]
  BY DEF Cl!MoveSlots
<1> HIDE DEF f, u
<1>3. PICK b : b = [r EXCEPT !.slots = f, !.unclaimed = u]
  OBVIOUS
<1>4. b \in Views
  BY <1>1, <1>3 DEF Views
<1>5. b.epoch = r.epoch /\ b.vote = r.vote /\ b.auth = r.auth /\ r.epoch \in Nat
  BY <1>3 DEF Views
<1> QED BY SMTT(30), <1>2, <1>3, <1>4, <1>5 DEF Evolves

(* A node follows another, or nobody. *)
Following(r, p, n) == [r EXCEPT !.slaveof[p] = n]

(* The view in which p follows n is one. *)
LEMMA SlaveofOk ==
  ASSUME NEW r \in Views, NEW p \in Nodes, NEW n \in Nodes \cup {Nobody}
  PROVE  Evolves(r, Following(r, p, n)) /\ Evolves(r, Cl!SetMaster(p, r, n))
<1> DEFINE f == [r.slaveof EXCEPT ![p] = n]
<1>1. f \in Masterships
  BY DEF Views, Masterships
<1>2. /\ Following(r, p, n) = [r EXCEPT !.slaveof = f]
      /\ Cl!SetMaster(p, r, n) = [r EXCEPT !.slaveof = f, !.manual = FALSE]
  BY DEF Following, Cl!SetMaster
<1> HIDE DEF f
<1>3. [r EXCEPT !.slaveof = f] \in Views /\ [r EXCEPT !.slaveof = f, !.manual = FALSE] \in Views
  BY <1>1 DEF Views
<1>4. Evolves(r, [r EXCEPT !.slaveof = f])
  BY SMTT(30), <1>3 DEF Evolves, Views
<1>5. Evolves(r, [r EXCEPT !.slaveof = f, !.manual = FALSE])
  BY SMTT(30), <1>3 DEF Evolves, Views
<1> QED BY <1>2, <1>4, <1>5

(* A configuration epoch is learned. *)
LEMMA ConfigOk ==
  ASSUME NEW r \in Views, NEW n \in Nodes, NEW config \in Nat
  PROVE  Evolves(r, [r EXCEPT !.config[n] = config])
<1> DEFINE f == [r.config EXCEPT ![n] = config]
<1>1. f \in [Nodes -> Nat]
  BY DEF Views
<1>2. [r EXCEPT !.config[n] = config] = [r EXCEPT !.config = f]
  OBVIOUS
<1> HIDE DEF f
<1> QED BY SMTT(30), <1>1, <1>2 DEF Evolves, Views

(* A node stops claiming slots. *)
LEMMA UnclaimedOk ==
  ASSUME NEW r \in Views, NEW u \in SUBSET Cl!Slots
  PROVE  Evolves(r, [r EXCEPT !.unclaimed = u])
<1>1. [r EXCEPT !.unclaimed = u] \in Views
  BY DEF Views
<1> QED BY SMTT(30), <1>1 DEF Evolves, Views

(* clusterUpdateSlotsConfigWith *)
LEMMA UpdateSlotsOk ==
  ASSUME NEW p \in Nodes, NEW r \in Views, NEW n \in Nodes, NEW config, NEW slots
  PROVE  Evolves(r, Cl!UpdateSlotsConfigWith(p, r, n, config, slots))
<1> DEFINE cur == IF Cl!IsMaster(r, p) THEN p ELSE r.slaveof[p]
           taken == Cl!Rebound(r, n, config, slots)
           u == (r.unclaimed \ {s \in slots : r.slots[s] = n}) \cup (Cl!SlotsOf(r, n) \ slots)
           b == [r EXCEPT !.unclaimed = u]
           a == Cl!MoveSlots(b, taken, n)
           over == a.slaveof[p] # Nobody /\ a.slaveof[a.slaveof[p]] \notin {Nobody, p}
           lost == (\E s \in taken : r.slots[s] = cur) /\ Cl!SlotsOf(a, cur) = {}
           new == Cl!UpdateSlotsConfigWith(p, r, n, config, slots)
<1>1. u \in SUBSET Cl!Slots
  BY DEF Views, Cl!SlotsOf
<1> HIDE DEF u
<1>2. Evolves(r, b) /\ b \in Views
  BY <1>1, UnclaimedOk DEF Evolves
<1> HIDE DEF b
<1>3. Evolves(r, a) /\ a \in Views
  BY SMTT(30), <1>2, MoveSlotsOk, EvolvesTwice DEF Evolves
<1>4. new = CASE n = p -> r
              [] n # p /\ lost -> Cl!SetMaster(p, a, n)
              [] n # p /\ ~lost /\ over -> Cl!SetMaster(p, a, a.slaveof[a.slaveof[p]])
              [] OTHER -> a
  BY DEF Cl!UpdateSlotsConfigWith, b, u
<1> HIDE DEF a, lost, new
<1>5. CASE n = p
  <2>1. new = r
    BY <1>4, <1>5
  <2> QED BY SMTT(30), <2>1 DEF Evolves, Views, new
<1>6. CASE n # p /\ lost
  <2>1. new = Cl!SetMaster(p, a, n)
    BY <1>4, <1>6
  <2>2. Evolves(a, Cl!SetMaster(p, a, n))
    BY <1>3, SlaveofOk
  <2> QED BY <1>3, <2>1, <2>2, EvolvesTwice DEF new
<1>7. CASE n # p /\ ~lost /\ over
  <2>1. new = Cl!SetMaster(p, a, a.slaveof[a.slaveof[p]])
    BY <1>4, <1>7
  <2>2. a.slaveof[p] \in Nodes /\ a.slaveof[a.slaveof[p]] \in Nodes \cup {Nobody}
    BY <1>3, <1>7 DEF Views, Masterships
  <2>3. Evolves(a, Cl!SetMaster(p, a, a.slaveof[a.slaveof[p]]))
    BY <1>3, <2>2, SlaveofOk
  <2> QED BY <1>3, <2>1, <2>3, EvolvesTwice DEF new
<1>8. CASE n # p /\ ~lost /\ ~over
  <2>1. new = a
    BY <1>4, <1>8
  <2> QED BY <1>3, <2>1 DEF new
<1> QED BY <1>5, <1>6, <1>7, <1>8

(* The sender of a packet has changed its role. *)
LEMMA RoleSwitchOk ==
  ASSUME NEW r \in Views, NEW h \in Headers
  PROVE  Evolves(r, Cl!RoleSwitch(r, h))
<1>1. h.from \in Nodes /\ h.slaveof \in Nodes \cup {Nobody} /\ h.config \in Nat
  BY DEF Headers
<1>2. CASE h.slaveof = Nobody
  <2>1. Cl!RoleSwitch(r, h) = Following(r, h.from, Nobody)
    BY <1>2 DEF Cl!RoleSwitch, Cl!SetNodeAsMaster, Following
  <2> QED BY <1>1, <2>1, SlaveofOk
<1>3. CASE h.slaveof # Nobody
  <2>0. h.slaveof \in Nodes
    BY <1>1, <1>3
  <2> DEFINE moved == Cl!MoveSlots(r, Cl!SlotsOf(r, h.from), h.slaveof)
             handed == Following(moved, h.slaveof, Nobody)
             given == [handed EXCEPT !.config[h.slaveof] = h.config]
             b == IF Cl!IsMaster(r, h.from) /\ Cl!SameShard(h.slaveof, h.from) /\ r.config[h.from] <= h.config
                  THEN given ELSE r
  <2>1. Cl!RoleSwitch(r, h) = Following(b, h.from, h.slaveof)
    BY <1>3 DEF Cl!RoleSwitch, Cl!SetNodeAsMaster, Following
  <2>2. Evolves(r, moved) /\ moved \in Views
    BY <2>0, MoveSlotsOk DEF Evolves
  <2> HIDE DEF moved
  <2>3. Evolves(r, handed) /\ handed \in Views
    BY SMTT(30), <2>0, <2>2, SlaveofOk, EvolvesTwice DEF Evolves
  <2> HIDE DEF handed
  <2>4. Evolves(r, given)
    BY <1>1, <2>0, <2>3, ConfigOk, EvolvesTwice
  <2> HIDE DEF given
  <2>5. Evolves(r, r)
    BY SMTT(30) DEF Evolves, Views
  <2>6. Evolves(r, b) /\ b \in Views
    BY <2>4, <2>5 DEF Evolves
  <2> HIDE DEF b
  <2> QED BY <1>1, <2>1, <2>6, SlaveofOk, EvolvesTwice
<1> QED BY <1>2, <1>3

(* A node takes a configuration epoch of its own. *)
Bumped(p, r) == [r EXCEPT !.epoch = @ + 1, !.config[p] = r.epoch + 1]

(* An epoch that was bumped is a later one. *)
LEMMA BumpedOk ==
  ASSUME NEW p \in Nodes, NEW r \in Views
  PROVE  Evolves(r, Bumped(p, r))
<1> DEFINE e == r.epoch + 1
           f == [r.config EXCEPT ![p] = e]
<1>1. e \in Nat /\ e >= r.epoch /\ f \in [Nodes -> Nat]
  BY SMTT(30) DEF Views
<1>2. Bumped(p, r) = [r EXCEPT !.epoch = e, !.config = f]
  BY DEF Bumped
<1> HIDE DEF e, f
<1> QED BY <1>1, <1>2 DEF Evolves, Views

(* clusterHandleConfigEpochCollision *)
LEMMA CollisionOk ==
  ASSUME NEW p \in Nodes, NEW r \in Views, NEW h
  PROVE  Evolves(r, Cl!HandleConfigEpochCollision(p, r, h))
<1>1. Cl!HandleConfigEpochCollision(p, r, h) \in {r, Bumped(p, r)}
  BY DEF Cl!HandleConfigEpochCollision, Bumped
<1>2. Evolves(r, r)
  BY SMTT(30) DEF Evolves, Views
<1> QED BY <1>1, <1>2, BumpedOk

(* CLUSTER BUMPEPOCH *)
LEMMA BumpOk ==
  ASSUME NEW p \in Nodes, NEW r \in Views
  PROVE  Evolves(r, Cl!BumpConfigEpoch(p, r))
<1>1. Cl!BumpConfigEpoch(p, r) \in {r, Bumped(p, r)}
  BY DEF Cl!BumpConfigEpoch, Bumped
<1>2. Evolves(r, r)
  BY SMTT(30) DEF Evolves, Views
<1> QED BY <1>1, <1>2, BumpedOk

(* clusterFailoverReplaceYourMaster *)
LEMMA ReplaceOk ==
  ASSUME NEW p \in Nodes, NEW r \in Views
  PROVE  Evolves(r, Cl!ReplaceYourMaster(p, r))
<1> DEFINE a == Following(r, p, Nobody)
           b == Cl!MoveSlots(a, Cl!SlotsOf(r, r.slaveof[p]), p)
<1>1. Evolves(r, a) /\ a \in Views
  BY SlaveofOk DEF Evolves
<1>2. Cl!ReplaceYourMaster(p, r) = [b EXCEPT !.manual = FALSE]
  BY DEF Cl!ReplaceYourMaster, Cl!SetNodeAsMaster, Following
<1> HIDE DEF a
<1>3. Evolves(r, b) /\ b \in Views
  BY SMTT(30), <1>1, MoveSlotsOk, EvolvesTwice DEF Evolves
<1> HIDE DEF b
<1> QED BY <1>2, <1>3 DEF Evolves, Views

(* What a PING or PONG does, and the UPDATE it is answered with. *)
LEMMA PingOk ==
  ASSUME NEW p \in Nodes, NEW r \in Views, NEW h \in Headers
  PROVE  Evolves(r, Cl!Ping(p, r, h).view) /\ Cl!Ping(p, r, h).send \subseteq Updates
<1> DEFINE a == Cl!Heard(r, h)
           b == Cl!RoleSwitch(a, h)
           c == Cl!ServedSlots(p, b, h)
           stale == IF Cl!Dirty(b, h) THEN Cl!Stale(c, h) ELSE {}
           send == IF stale = {} THEN {} ELSE {Cl!Update(p, c, h.from, c.slots[Cl!Min(stale)])}
<1>0. h.from \in Nodes /\ h.slots \in SUBSET Cl!Slots
  BY DEF Headers
<1>1. Evolves(r, a) /\ a \in Views
  BY HeardOk DEF Evolves
<1>2. Cl!Ping(p, r, h) = [view |-> Cl!HandleConfigEpochCollision(p, c, h), send |-> send]
  BY DEF Cl!Ping
<1> HIDE DEF a
<1>3. Evolves(r, b) /\ b \in Views
  BY <1>1, RoleSwitchOk, EvolvesTwice DEF Evolves
<1> HIDE DEF b
<1>4. Evolves(r, c) /\ c \in Views
  <2>1. c = b \/ c = Cl!UpdateSlotsConfigWith(p, b, h.from, h.config, h.slots)
    BY DEF Cl!ServedSlots
  <2>2. Evolves(b, Cl!UpdateSlotsConfigWith(p, b, h.from, h.config, h.slots))
    BY <1>0, <1>3, UpdateSlotsOk
  <2> QED BY SMTT(30), <1>3, <2>1, <2>2, EvolvesTwice DEF Evolves
<1> HIDE DEF c
<1>5. send \subseteq Updates
  <2> SUFFICES ASSUME stale # {} PROVE Cl!Update(p, c, h.from, c.slots[Cl!Min(stale)]) \in Updates
    OBVIOUS
  <2>1. stale \subseteq Cl!Slots /\ stale \subseteq Nat
    BY <1>0, SlotsAre DEF Cl!Stale
  <2> HIDE DEF stale
  <2>2. Cl!Min(stale) \in Cl!Slots
    BY <2>1, MinOf
  <2> DEFINE n == c.slots[Cl!Min(stale)]
  <2>3. n \in Nodes
    BY <1>4, <2>2 DEF Views
  <2> HIDE DEF n
  <2>4. c.config[n] \in Nat
    BY <1>4, <2>3 DEF Views
  <2>5. Cl!SlotsOf(c, n) \ c.unclaimed \in SUBSET Cl!Slots
    BY DEF Cl!SlotsOf
  <2>6. Cl!Header(p, c) \in Headers
    BY <1>4, HeaderType
  <2>7. Cl!Update(p, c, h.from, n) \in Updates
    BY <1>0, <2>3, <2>4, <2>5, <2>6 DEF Cl!Update, Updates
  <2> QED BY <2>7 DEF n
<1>6. Evolves(r, Cl!HandleConfigEpochCollision(p, c, h))
  BY <1>4, CollisionOk, EvolvesTwice
<1> HIDE DEF send
<1> QED BY SMTT(30), <1>2, <1>5, <1>6

(* What an UPDATE does. *)
LEMMA UpdatedOk ==
  ASSUME NEW r \in Views, NEW m \in Updates
  PROVE  Evolves(r, Cl!Updated(r, m))
<1>1. m.to \in Nodes /\ m.hdr \in Headers /\ m.node \in Nodes /\ m.config \in Nat
  BY DEF Updates
<1> DEFINE b == Cl!Heard(r, m.hdr)
           a == Following(b, m.node, Nobody)
           c == [a EXCEPT !.config[m.node] = m.config]
           d == Cl!UpdateSlotsConfigWith(m.to, c, m.node, m.config, m.slots)
<1>2. Cl!Updated(r, m) \in {b, d}
  BY DEF Cl!Updated, Cl!SetNodeAsMaster, Following
<1>3. Evolves(r, b) /\ b \in Views
  BY <1>1, HeardOk DEF Evolves
<1> HIDE DEF b
<1>4. Evolves(r, a) /\ a \in Views
  <2>1. Evolves(b, a)
    BY <1>1, <1>3, SlaveofOk
  <2> QED BY <1>3, <2>1, EvolvesTwice DEF Evolves
<1> HIDE DEF a
<1>5. Evolves(r, c) /\ c \in Views
  <2>1. Evolves(a, c)
    BY <1>1, <1>4, ConfigOk
  <2> QED BY <1>4, <2>1, EvolvesTwice DEF Evolves
<1> HIDE DEF c
<1>6. Evolves(r, d)
  BY <1>1, <1>5, UpdateSlotsOk, EvolvesTwice
<1> QED BY <1>2, <1>3, <1>6

(* nodes.conf *)
LEMMA SavedOk ==
  ASSUME NEW r \in Views
  PROVE  Cl!Saved(r) \in Files /\ Cl!Saved(r).epoch = r.epoch /\ Cl!Saved(r).vote = r.vote
BY DEF Cl!Saved, Files, Views

(* clusterLoadConfig: no epoch is forgotten, and no vote. *)
LEMMA LoadedOk ==
  ASSUME NEW d \in Files, NEW fail \in SUBSET Nodes
  PROVE  /\ Cl!Loaded(d, fail) \in Views /\ Cl!Loaded(d, fail).auth = Cl!NoElection
         /\ Cl!Loaded(d, fail).vote = d.vote /\ Cl!Loaded(d, fail).epoch >= d.epoch
<1> DEFINE f == [n \in Nodes |-> IF d.slaveof[n] = Nobody THEN d.config[n] ELSE 0]
           v == Cl!View(d, fail)
           r == [v EXCEPT !.config = f]
           T == {f[n] : n \in Nodes} \cup {d.epoch}
<1>1. d.epoch \in Nat /\ d.vote \in Nat /\ f \in [Nodes -> Nat]
  BY DEF Files
<1>2. v \in Views /\ v.config = d.config /\ v.epoch = d.epoch /\ v.vote = d.vote /\ v.auth = Cl!NoElection
  BY DEF Cl!View, Files, Views, Cl!NoElection, Auths
<1> HIDE DEF v
<1>3. Cl!Loaded(d, fail) = [r EXCEPT !.epoch = Cl!Max(T)] /\ r \in Views /\ r.auth = Cl!NoElection /\ r.vote = d.vote
  <2> HIDE DEF f
  <2>1. r \in Views /\ r.config = f /\ r.epoch = d.epoch /\ r.auth = Cl!NoElection /\ r.vote = d.vote
    BY <1>1, <1>2 DEF Views
  <2>2. Cl!MaxEpoch(r) = Cl!Max(T)
    BY <2>1 DEF Cl!MaxEpoch
  <2>3. Cl!Loaded(d, fail) = [r EXCEPT !.epoch = Cl!MaxEpoch(r)]
    BY <1>2, Zenon DEF Cl!Loaded, v, f
  <2> QED BY <2>1, <2>2, <2>3
<1> HIDE DEF f, r
<1>4. T \subseteq Nat /\ T # {} /\ IsFiniteSet(T)
  <2> DEFINE U == {f[n] : n \in Nodes}
  <2>1. f \in Surjection(Nodes, U)
    BY <1>1 DEF Surjection
  <2>2. U \subseteq Nat
    BY <1>1
  <2> HIDE DEF U
  <2>3. IsFiniteSet(U)
    BY <2>1, ClusterAssumption, FS_Surjection
  <2>4. IsFiniteSet(U \cup {d.epoch})
    BY <2>3, FS_AddElement
  <2> QED BY <1>1, <2>2, <2>4 DEF U
<1>5. Cl!Max(T) \in Nat /\ Cl!Max(T) >= d.epoch
  BY <1>1, <1>4, MaxOf
<1> HIDE DEF T
<1> QED BY <1>2, <1>3, <1>5 DEF Views

-----------------------------------------------------------------------------
(* Votes *)

(* Only nodes vote. *)
LEMMA VotersAre ==
  ASSUME NEW packets, NEW votes, NEW e, NEW p
  PROVE  /\ IsFiniteSet(VotersFor(votes, e, p)) /\ IsFiniteSet(Received(packets, votes, e, p))
         /\ Cardinality(VotersFor(votes, e, p)) \in Nat /\ Cardinality(Received(packets, votes, e, p)) \in Nat
         /\ Cardinality(Received(packets, votes, e, p)) <= Cardinality(VotersFor(votes, e, p))
<1>1. VotersFor(votes, e, p) \in SUBSET Nodes /\ Received(packets, votes, e, p) \in SUBSET VotersFor(votes, e, p)
  BY DEF VotersFor, Received
<1>2. IsFiniteSet(VotersFor(votes, e, p))
  BY <1>1, ClusterAssumption, FS_Subset
<1>3. /\ IsFiniteSet(Received(packets, votes, e, p))
      /\ Cardinality(Received(packets, votes, e, p)) <= Cardinality(VotersFor(votes, e, p))
  BY <1>1, <1>2, FS_Subset
<1> QED BY <1>2, <1>3, FS_CardinalityType

(* More votes, and no new answer to a vote that was there. *)
LEMMA AnsweredGrows ==
  ASSUME NEW packets, NEW votes, NEW e, NEW p, NEW packets2, NEW votes2, votes \subseteq votes2,
         \A m \in packets2 : m \in packets \/ m.type # "AUTH_ACK" \/ <<m.hdr.from, m.hdr.epoch, m.to>> \notin votes
  PROVE  /\ Cardinality(Received(packets, votes, e, p)) <= Cardinality(Received(packets2, votes2, e, p))
         /\ Cardinality(VotersFor(votes, e, p)) <= Cardinality(VotersFor(votes2, e, p))
<1>1. VotersFor(votes, e, p) \in SUBSET VotersFor(votes2, e, p)
  BY DEF VotersFor
<1>2. Received(packets, votes, e, p) \in SUBSET Received(packets2, votes2, e, p)
  <2> SUFFICES ASSUME NEW q \in Received(packets, votes, e, p), NEW m \in packets2, IsAck(m, <<q, e, p>>)
               PROVE  FALSE
    BY <1>1 DEF Received
  <2>1. <<q, e, p>> \in votes /\ m \notin packets
    BY DEF Received, VotersFor
  <2>2. m.type = "AUTH_ACK" /\ m.hdr.from = q /\ m.hdr.epoch = e /\ m.to = p
    BY DEF IsAck
  <2> QED BY <2>1, <2>2
<1> QED BY <1>1, <1>2, VotersAre, FS_Subset

(* An answer is received: one voter more has been heard. *)
LEMMA AnswerReceived ==
  ASSUME NEW packets, NEW votes, NEW m \in packets, m.type = "AUTH_ACK", m.hdr.from \in Nodes,
         <<m.hdr.from, m.hdr.epoch, m.to>> \in votes,
         \A n \in packets : IsAck(n, <<m.hdr.from, m.hdr.epoch, m.to>>) => m = n
  PROVE  Cardinality(Received(packets \ {m}, votes, m.hdr.epoch, m.to))
           >= Cardinality(Received(packets, votes, m.hdr.epoch, m.to)) + 1
<1> DEFINE q == m.hdr.from
           e == m.hdr.epoch
           p == m.to
           A == Received(packets, votes, e, p)
           B == Received(packets \ {m}, votes, e, p)
<1>1. IsAck(m, <<q, e, p>>)
  BY DEF IsAck
<1>2. q \notin A
  BY <1>1 DEF Received
<1>3. q \in B
  BY DEF Received, VotersFor
<1>4. A \cup {q} \in SUBSET B
  BY <1>3 DEF Received
<1>5. IsFiniteSet(A) /\ IsFiniteSet(B) /\ Cardinality(A) \in Nat
  BY VotersAre
<1> HIDE DEF A, B, q
<1>6. Cardinality(A \cup {q}) = Cardinality(A) + 1
  BY <1>2, <1>5, FS_AddElement
<1>7. Cardinality(A \cup {q}) <= Cardinality(B)
  BY <1>4, <1>5, FS_Subset
<1>8. Cardinality(A) + 1 <= Cardinality(B)
  BY <1>6, <1>7
<1>9. IsFiniteSet(B) /\ Cardinality(B) \in Nat
  BY <1>5, FS_CardinalityType
<1> QED BY <1>5, <1>8, <1>9 DEF A, B

-----------------------------------------------------------------------------
(* Steps *)

(* A request that p sends at the start of an election, once the epoch of   *)
(* the election is on disk.                                                *)
IsOwnRequest(m, p, b) ==
  /\ m \in Requests /\ m.hdr.from = p
  /\ m.hdr.epoch = b.epoch /\ b.epoch = b.auth.epoch /\ cDisk' = [cDisk EXCEPT ![p] = Cl!Saved(b)]

(* A step of node p without a vote. It goes on from a view whose epoch is  *)
(* no older than the file; an election goes on or is later than the ones   *)
(* before.                                                                 *)
Goes(p, b) ==
  /\ cNode' = [cNode EXCEPT ![p] = b]
  /\ b \in Views /\ b.vote = cNode[p].vote /\ b.epoch >= cDisk[p].epoch
  /\ b.auth.sent => \/ cNode[p].auth.sent /\ b.auth.epoch = cNode[p].auth.epoch
                    \/ b.auth.epoch >= cDisk[p].epoch
  /\ cDisk' = cDisk \/ cDisk' = [cDisk EXCEPT ![p] = Cl!Saved(b)]
  /\ \A m \in cNet' : m \in cNet \/ m \in Pings \cup Updates \/ IsOwnRequest(m, p, b)
  /\ cBudget' \in [ClusterEvents -> Nat]
  /\ cCast' = cCast
  /\ cPunctual' \in BOOLEAN /\ (cPunctual' => cPunctual)

(* A step without an answer or a new election either. *)
Moves(p, b) ==
  /\ cNode' = [cNode EXCEPT ![p] = b]
  /\ b \in Views /\ b.vote = cNode[p].vote /\ b.epoch >= cDisk[p].epoch
  /\ b.auth = cNode[p].auth \/ (~b.auth.sent /\ b.auth.count = 0)
  /\ cDisk' = cDisk \/ cDisk' = [cDisk EXCEPT ![p] = Cl!Saved(b)]
  /\ cNet' \subseteq cNet \cup Pings \cup Updates
  /\ cBudget' \in [ClusterEvents -> Nat]
  /\ cCast' = cCast
  /\ cPunctual' \in BOOLEAN /\ (cPunctual' => cPunctual)

(* Packets of these kinds are neither requests nor answers. *)
LEMMA NoAnswers ==
  ASSUME NEW m \in Pings \cup Updates
  PROVE  m.type # "AUTH_ACK" /\ m.type # "AUTH_REQUEST"
BY DEF Pings, Updates

(* What was counted stays counted. *)
LEMMA CountedStill ==
  ASSUME NEW packets, NEW votes, NEW p, NEW packets2, NEW votes2, votes \subseteq votes2, NEW a \in Auths,
         \A m \in packets2 : m \in packets \/ m.type # "AUTH_ACK" \/ <<m.hdr.from, m.hdr.epoch, m.to>> \notin votes,
         CountedAt(a, packets, votes, p)
  PROVE  CountedAt(a, packets2, votes2, p)
<1>1. Cardinality(Received(packets, votes, a.epoch, p)) <= Cardinality(Received(packets2, votes2, a.epoch, p))
  BY AnsweredGrows
<1>2. /\ Cardinality(Received(packets, votes, a.epoch, p)) \in Nat
      /\ Cardinality(Received(packets2, votes2, a.epoch, p)) \in Nat
  BY VotersAre
<1>3. a.count \in Nat
  BY DEF Auths
<1> QED BY SMTT(30), <1>1, <1>2, <1>3 DEF CountedAt

(* Whatever else it does, such a step keeps the invariant if p counts only *)
(* answers.                                                                *)
LEMMA GoesKeeps ==
  ASSUME IInv, NEW p \in Nodes, NEW b, Goes(p, b), cPunctual' => CountedAt(b.auth, cNet', cCast, p),
         cWon' \subseteq [who: Nodes, epoch: Nat, size: Nat],
         cPunctual => \A v \in cWon' : Majority(v)
  PROVE  IInv'
<1>1. /\ cNode \in [Nodes -> Views] /\ cDisk \in [Nodes -> Files] /\ cCast \subseteq Nodes \X Nat \X Nodes
      /\ cNet \subseteq Pings \cup Updates \cup Requests \cup Acks
  BY DEF IInv, TypeOK
<1>2. /\ cNode'[p] = b /\ cNode' \in [Nodes -> Views]
      /\ \A q \in Nodes \ {p} : cNode'[q] = cNode[q]
  BY <1>1 DEF Goes
<1>3. /\ cDisk' \in [Nodes -> Files]
      /\ cDisk'[p] = cDisk[p] \/ cDisk'[p] = Cl!Saved(b)
      /\ \A q \in Nodes \ {p} : cDisk'[q] = cDisk[q]
  <2>1. Cl!Saved(b) \in Files
    BY SavedOk DEF Goes
  <2> QED BY <1>1, <2>1 DEF Goes
<1>4. b \in Views /\ b.vote = cNode[p].vote /\ b.epoch >= cDisk[p].epoch
  BY DEF Goes
<1>n. cNet' \subseteq Pings \cup Updates \cup Requests \cup Acks
  BY <1>1 DEF Goes, IsOwnRequest
<1>5. TypeOK'
  BY <1>1, <1>2, <1>3, <1>n DEF TypeOK, Goes
<1>6. \A q \in Nodes : /\ cNode[q].vote \in Nat /\ cNode[q].epoch \in Nat /\ cNode[q].auth \in Auths
                       /\ cDisk[q].vote \in Nat /\ cDisk[q].epoch \in Nat
  BY <1>1 DEF Views, Files
<1>7. Cl!Saved(b).vote = b.vote /\ Cl!Saved(b).epoch = b.epoch /\ b.epoch \in Nat
  BY <1>4, SavedOk DEF Views
<1>8. Persisted'
  <2>1. ASSUME NEW q \in Nodes
        PROVE  /\ cDisk'[q].vote = cNode'[q].vote
               /\ cDisk'[q].vote <= cDisk'[q].epoch /\ cDisk'[q].epoch <= cNode'[q].epoch
    <3>0. cDisk[q].vote = cNode[q].vote /\ cDisk[q].vote <= cDisk[q].epoch /\ cDisk[q].epoch <= cNode[q].epoch
      BY DEF IInv, Persisted
    <3>1. CASE q # p
      BY <1>2, <1>3, <3>0, <3>1
    <3>2. CASE q = p
      BY SMTT(30), <1>2, <1>3, <1>4, <1>6, <1>7, <3>0, <3>2
    <3> QED BY <3>1, <3>2
  <2> QED BY <2>1 DEF Persisted
<1>9. \A q \in Nodes : cDisk[q].epoch <= cDisk'[q].epoch
  BY SMTT(30), <1>3, <1>4, <1>6, <1>7
<1>10. \A q \in Nodes : cNode'[q].auth.sent => \/ cNode[q].auth.sent /\ cNode'[q].auth.epoch = cNode[q].auth.epoch
                                               \/ cNode'[q].auth.epoch >= cDisk[q].epoch
  BY <1>2 DEF Goes
<1>11. ASSUME NEW q \in Nodes, NEW e \in Nat, Past(q, e) PROVE Past(q, e)'
  <2>1. e <= cDisk'[q].epoch
    BY SMTT(30), <1>3, <1>6, <1>9, <1>11 DEF Past, Files
  <2>2. cNode'[q].auth.sent => e <= cNode'[q].auth.epoch
    <3>1. cNode'[q].auth.epoch \in Nat
      BY <1>2 DEF Views, Auths
    <3> QED BY SMTT(30), <1>6, <1>10, <1>11, <3>1 DEF Past
  <2> QED BY <2>1, <2>2 DEF Past
<1>12. Asked'
  <2>1. ASSUME NEW m \in cNet', m.type = "AUTH_REQUEST" PROVE Past(m.hdr.from, m.hdr.epoch)'
    <3>1. CASE IsOwnRequest(m, p, b)
      <4>1. m.hdr.from = p /\ m.hdr.epoch = b.epoch /\ b.epoch = b.auth.epoch /\ cDisk'[p] = Cl!Saved(b)
        BY <1>1, <3>1 DEF IsOwnRequest
      <4>2. m.hdr.epoch <= cDisk'[p].epoch /\ m.hdr.epoch <= cNode'[p].auth.epoch
        BY SMTT(30), <1>2, <1>7, <4>1
      <4> QED BY <4>1, <4>2 DEF Past
    <3> SUFFICES ASSUME ~IsOwnRequest(m, p, b) PROVE Past(m.hdr.from, m.hdr.epoch)'
      BY <3>1
    <3>s. m \in cNet
      BY <2>1, NoAnswers DEF Goes
    <3>2. m.hdr.from \in Nodes /\ m.hdr.epoch \in Nat
      BY <1>1, <3>s DEF Pings, Updates, Requests, Acks, Headers
    <3>3. Past(m.hdr.from, m.hdr.epoch)
      BY <2>1, <3>s DEF IInv, Asked
    <3> QED BY <1>11, <3>2, <3>3
  <2>2. ASSUME NEW v \in cCast' PROVE Past(v[3], v[2])'
    <3>1. v \in cCast /\ v[3] \in Nodes /\ v[2] \in Nat
      BY <1>1 DEF Goes
    <3>2. Past(v[3], v[2])
      BY <3>1 DEF IInv, Asked
    <3> QED BY <1>11, <3>1, <3>2
  <2> QED BY <2>1, <2>2 DEF Asked
<1>13. Voted'
  <2>1. ASSUME NEW v \in cCast' PROVE v[2] <= cNode'[v[1]].vote
    <3>1. v \in cCast /\ v[1] \in Nodes
      BY <1>1 DEF Goes
    <3> QED BY <1>2, <1>4, <3>1 DEF IInv, Voted
  <2> QED BY <2>1 DEF Voted
<1>14. VotesOnce'
  BY DEF IInv, VotesOnce, Goes
<1>15. \A m \in cNet' : m \in cNet \/ m.type # "AUTH_ACK"
  BY NoAnswers DEF Goes, IsOwnRequest, Requests
<1>16. Acknowledged'
  <2>1. \A m \in cNet' : m.type = "AUTH_ACK" => <<m.hdr.from, m.hdr.epoch, m.to>> \in cCast'
    BY <1>15 DEF IInv, Acknowledged, Goes
  <2>2. \A m, n \in cNet' : m.type = "AUTH_ACK" /\ IsAck(n, <<m.hdr.from, m.hdr.epoch, m.to>>) => m = n
    BY <1>15 DEF IInv, Acknowledged, IsAck
  <2> QED BY <2>1, <2>2 DEF Acknowledged
<1>17. ASSUME cPunctual' PROVE Counted' /\ Elected'
  <2>1. cPunctual /\ cCast' = cCast
    BY <1>17 DEF Goes
  <2>2. ASSUME NEW q \in Nodes PROVE CountedAt(cNode'[q].auth, cNet', cCast', q)
    <3>1. CASE q = p
      BY <1>2, <1>17, <2>1, <3>1
    <3>2. CASE q # p
      <4>1. cNode'[q] = cNode[q] /\ cNode[q].auth \in Auths /\ CountedAt(cNode[q].auth, cNet, cCast, q)
        BY <1>2, <1>6, <2>1, <3>2 DEF IInv, Counted
      <4> QED BY SMTT(30), <1>15, <2>1, <4>1, CountedStill
    <3> QED BY <3>1, <3>2
  <2>3. Elected'
    BY <2>1 DEF Elected, Majority
  <2> QED BY <2>2, <2>3 DEF Counted
<1> QED BY <1>5, <1>8, <1>12, <1>13, <1>14, <1>16, <1>17 DEF IInv

(* Such a step keeps the invariant, if its winners have a majority. *)
LEMMA MovesKeeps ==
  ASSUME IInv, NEW p \in Nodes, NEW b, Moves(p, b),
         cWon' \subseteq [who: Nodes, epoch: Nat, size: Nat],
         cPunctual => \A v \in cWon' : Majority(v)
  PROVE  IInv'
<1>1. Goes(p, b)
  BY DEF Moves, Goes
<1>2. ASSUME cPunctual' PROVE CountedAt(b.auth, cNet', cCast, p)
  <2>1. CASE ~b.auth.sent /\ b.auth.count = 0
    BY <2>1 DEF CountedAt
  <2>2. CASE b.auth = cNode[p].auth
    <3>1. b.auth \in Auths /\ CountedAt(b.auth, cNet, cCast, p)
      BY <1>2, <2>2 DEF IInv, Counted, Moves, Views
    <3>2. \A m \in cNet' : m \in cNet \/ m.type # "AUTH_ACK" \/ <<m.hdr.from, m.hdr.epoch, m.to>> \notin cCast
      BY NoAnswers DEF Moves
    <3> QED BY <3>1, <3>2, CountedStill
  <2> QED BY <2>1, <2>2 DEF Moves
<1> QED BY <1>1, <1>2, GoesKeeps

(* Such a step in which nobody wins. *)
LEMMA QuietKeeps ==
  ASSUME IInv, NEW p \in Nodes, NEW b, Moves(p, b), cWon' = cWon
  PROVE  IInv'
<1>1. cWon' \subseteq [who: Nodes, epoch: Nat, size: Nat]
  BY DEF IInv, TypeOK
<1>2. cPunctual => \A v \in cWon' : Majority(v)
  BY DEF IInv, Elected
<1> QED BY <1>1, <1>2, MovesKeeps

(* An event uses up its bound. *)
LEMMA SpendOk ==
  ASSUME IInv, NEW what \in ClusterEvents, Cl!Spend(what)
  PROVE  cBudget' \in [ClusterEvents -> Nat] /\ cBudget'[what] # cBudget[what]
<1>1. cBudget \in [ClusterEvents -> Nat]
  BY DEF IInv, TypeOK
<1>2. cBudget[what] \in Nat /\ cBudget[what] - 1 \in Nat
  BY SMTT(30), <1>1 DEF Cl!Spend
<1> QED BY SMTT(30), <1>1, <1>2 DEF Cl!Spend

(* The view of a node, and its file. *)
LEMMA NodeNow ==
  ASSUME IInv, NEW p \in Nodes
  PROVE  /\ cNode[p] \in Views /\ cNode[p].epoch \in Nat /\ cNode[p].vote \in Nat /\ cNode[p].auth \in Auths
         /\ cDisk[p] \in Files /\ cDisk[p].epoch \in Nat /\ cDisk[p].epoch <= cNode[p].epoch
         /\ cDisk[p].vote = cNode[p].vote /\ cNode[p].vote <= cNode[p].epoch
         /\ cBudget \in [ClusterEvents -> Nat] /\ Evolves(cNode[p], cNode[p])
<1>1. cNode[p] \in Views /\ cDisk[p] \in Files /\ cBudget \in [ClusterEvents -> Nat]
  BY DEF IInv, TypeOK
<1>2. cDisk[p].vote = cNode[p].vote /\ cDisk[p].vote <= cDisk[p].epoch /\ cDisk[p].epoch <= cNode[p].epoch
  BY DEF IInv, Persisted
<1>3. /\ cNode[p].epoch \in Nat /\ cNode[p].vote \in Nat /\ cNode[p].auth \in Auths
      /\ cDisk[p].epoch \in Nat /\ cDisk[p].vote \in Nat
  BY <1>1 DEF Views, Files
<1> QED BY SMTT(30), <1>1, <1>2, <1>3 DEF Evolves

(* A view has evolved, and was saved or not. *)
LEMMA SilentMoves ==
  ASSUME IInv, NEW p \in Nodes, NEW b, Evolves(cNode[p], b), cNode' = [cNode EXCEPT ![p] = b],
         cDisk' = cDisk \/ cDisk' = [cDisk EXCEPT ![p] = Cl!Saved(b)],
         cNet' \subseteq cNet \cup Pings \cup Updates, cBudget' \in [ClusterEvents -> Nat], cCast' = cCast,
         cPunctual' \in BOOLEAN, cPunctual' => cPunctual
  PROVE  Moves(p, b)
<1>1. b \in Views /\ b.vote = cNode[p].vote /\ b.auth = cNode[p].auth /\ b.epoch >= cDisk[p].epoch
  <2>1. b.epoch \in Nat /\ cNode[p].epoch \in Nat /\ cDisk[p].epoch \in Nat /\ cDisk[p].epoch <= cNode[p].epoch
    BY NodeNow DEF Evolves, Views
  <2> QED BY SMTT(30), <2>1 DEF Evolves
<1> QED BY <1>1 DEF Moves

(* clusterBeforeSleep saves it if it has changed. *)
LEMMA BecomeMoves ==
  ASSUME IInv, NEW p \in Nodes, NEW b, Evolves(cNode[p], b), Cl!Become(p, b),
         cNet' \subseteq cNet \cup Pings \cup Updates, cBudget' \in [ClusterEvents -> Nat], cCast' = cCast,
         cPunctual' \in BOOLEAN, cPunctual' => cPunctual
  PROVE  Moves(p, b)
<1>1. cNode' = [cNode EXCEPT ![p] = b] /\ (cDisk' = cDisk \/ cDisk' = [cDisk EXCEPT ![p] = Cl!Saved(b)])
  BY DEF Cl!Become, Cl!Save
<1> QED BY <1>1, SilentMoves

Ticks == cPunctual' \in BOOLEAN /\ (cPunctual' => cPunctual)

(* What is on its way. *)
LEMMA PacketType ==
  ASSUME IInv, NEW m \in cNet
  PROVE  /\ m.to \in Nodes /\ m.hdr \in Headers /\ m.hdr.from \in Nodes /\ m.hdr.epoch \in Nat
         /\ m.type = "UPDATE" => m \in Updates
         /\ m.type = "AUTH_REQUEST" => m \in Requests
         /\ m.type = "AUTH_ACK" => m \in Acks
<1>1. m \in Pings \cup Updates \cup Requests \cup Acks
  BY DEF IInv, TypeOK
<1> QED BY <1>1 DEF Pings, Updates, Requests, Acks, Headers

(* A PING or PONG. *)
LEMMA PingKeeps ==
  ASSUME IInv, Ticks, NEW p \in Nodes, NEW n \in Nodes, Cl!ProcessPing(p, n)
  PROVE  IInv'
<1>1. PICK o : o = Cl!Ping(p, cNode[p], Cl!Header(n, cNode[n]))
  OBVIOUS
<1>2. Cl!Header(n, cNode[n]) \in Headers
  BY NodeNow, HeaderType
<1>3. Evolves(cNode[p], o.view) /\ o.send \subseteq Updates
  BY <1>1, <1>2, NodeNow, PingOk
<1>4. /\ Cl!Become(p, o.view) /\ cNet' = cNet \cup o.send /\ cBudget' = cBudget /\ cCast' = cCast /\ cWon' = cWon
  BY <1>1 DEF Cl!ProcessPing
<1>5. Moves(p, o.view)
  BY <1>3, <1>4, NodeNow, BecomeMoves DEF Ticks
<1> QED BY <1>4, <1>5, QuietKeeps

(* A PING or PONG that is sent and will be late. *)
LEMMA DelayKeeps ==
  ASSUME IInv, Ticks, NEW p \in Nodes, NEW n \in Nodes, Cl!Delay(n, p)
  PROVE  IInv'
<1>1. Cl!Header(n, cNode[n]) \in Headers
  BY NodeNow, HeaderType
<1>2. [type |-> "PING", to |-> p, hdr |-> Cl!Header(n, cNode[n])] \in Pings
  BY <1>1 DEF Pings
<1>3. /\ cNode' = cNode /\ cDisk' = cDisk /\ cCast' = cCast /\ cWon' = cWon
      /\ cNet' \subseteq cNet \cup Pings \cup Updates
  BY <1>2 DEF Cl!Delay
<1>4. cBudget' \in [ClusterEvents -> Nat]
  BY SpendOk DEF Cl!Delay, ClusterEvents
<1>5. cNode' = [cNode EXCEPT ![p] = cNode[p]]
  BY <1>3 DEF IInv, TypeOK
<1>6. Moves(p, cNode[p])
  BY <1>3, <1>4, <1>5, NodeNow, SilentMoves DEF Ticks
<1> QED BY <1>3, <1>6, QuietKeeps

(* And its arrival. *)
LEMMA LatePingKeeps ==
  ASSUME IInv, Ticks, NEW m \in cNet, Cl!ProcessLatePing(m)
  PROVE  IInv'
<1>1. PICK o : o = Cl!Ping(m.to, cNode[m.to], m.hdr)
  OBVIOUS
<1>2. m.to \in Nodes /\ m.hdr \in Headers
  BY PacketType
<1>3. Evolves(cNode[m.to], o.view) /\ o.send \subseteq Updates
  BY <1>1, <1>2, NodeNow, PingOk
<1>4. /\ Cl!Become(m.to, o.view) /\ cNet' = (cNet \ {m}) \cup o.send /\ cBudget' = cBudget /\ cCast' = cCast /\ cWon' = cWon
  BY <1>1 DEF Cl!ProcessLatePing
<1>5. Moves(m.to, o.view)
  BY <1>2, <1>3, <1>4, NodeNow, BecomeMoves DEF Ticks
<1> QED BY <1>2, <1>4, <1>5, QuietKeeps

(* An UPDATE. *)
LEMMA UpdateKeeps ==
  ASSUME IInv, Ticks, NEW m \in cNet, Cl!ProcessUpdate(m)
  PROVE  IInv'
<1>1. m \in Updates /\ m.to \in Nodes
  BY PacketType DEF Cl!ProcessUpdate
<1>2. PICK b : b = Cl!Updated(cNode[m.to], m)
  OBVIOUS
<1>3. Evolves(cNode[m.to], b)
  BY <1>1, <1>2, NodeNow, UpdatedOk
<1>4. /\ Cl!Become(m.to, b) /\ cNet' = cNet \ {m} /\ cBudget' = cBudget /\ cCast' = cCast /\ cWon' = cWon
  BY <1>2 DEF Cl!ProcessUpdate
<1>5. Moves(m.to, b)
  BY <1>1, <1>3, <1>4, NodeNow, BecomeMoves DEF Ticks
<1> QED BY <1>1, <1>4, <1>5, QuietKeeps

(* CLUSTER BUMPEPOCH *)
LEMMA BumpKeeps ==
  ASSUME IInv, Ticks, NEW p \in Nodes, Cl!BumpEpochCommand(p)
  PROVE  IInv'
<1>1. PICK b : b = Cl!BumpConfigEpoch(p, cNode[p])
  OBVIOUS
<1>2. Evolves(cNode[p], b)
  BY <1>1, NodeNow, BumpOk
<1>3. /\ Cl!Become(p, b) /\ cNet' = cNet /\ cCast' = cCast /\ cWon' = cWon
  BY <1>1 DEF Cl!BumpEpochCommand
<1>4. cBudget' \in [ClusterEvents -> Nat]
  BY SpendOk DEF Cl!BumpEpochCommand, ClusterEvents
<1>5. Moves(p, b)
  BY <1>2, <1>3, <1>4, BecomeMoves DEF Ticks
<1> QED BY <1>3, <1>5, QuietKeeps

(* CLUSTER FAILOVER TAKEOVER *)
LEMMA TakeoverKeeps ==
  ASSUME IInv, Ticks, NEW p \in Nodes, Cl!TakeoverCommand(p)
  PROVE  IInv'
<1>1. PICK a : a = Cl!BumpConfigEpoch(p, cNode[p])
  OBVIOUS
<1>2. PICK b : b = Cl!ReplaceYourMaster(p, a)
  OBVIOUS
<1>3. Evolves(cNode[p], a) /\ a \in Views
  BY <1>1, NodeNow, BumpOk DEF Evolves
<1>4. Evolves(cNode[p], b)
  BY <1>2, <1>3, NodeNow, ReplaceOk, EvolvesTwice
<1>5. /\ Cl!Become(p, b) /\ cNet' = cNet /\ cCast' = cCast /\ cWon' = cWon
  BY <1>1, <1>2 DEF Cl!TakeoverCommand
<1>6. cBudget' \in [ClusterEvents -> Nat]
  BY SpendOk DEF Cl!TakeoverCommand, ClusterEvents
<1>7. Moves(p, b)
  BY <1>4, <1>5, <1>6, BecomeMoves DEF Ticks
<1> QED BY <1>5, <1>7, QuietKeeps

(* Flags: a change that is not saved. *)
LEMMA FlagsOk ==
  ASSUME NEW r \in Views, NEW manual \in BOOLEAN, NEW fail \in SUBSET Nodes
  PROVE  Evolves(r, [r EXCEPT !.manual = manual]) /\ Evolves(r, [r EXCEPT !.fail = fail])
<1>1. [r EXCEPT !.manual = manual] \in Views /\ [r EXCEPT !.fail = fail] \in Views
  BY DEF Views
<1> QED BY SMTT(30), <1>1 DEF Evolves, Views

(* A step that sets a flag. *)
LEMMA FlagKeeps ==
  ASSUME IInv, Ticks, NEW p \in Nodes, NEW what \in ClusterEvents, Cl!Spend(what), NEW b, Evolves(cNode[p], b),
         cNode' = [cNode EXCEPT ![p] = b], UNCHANGED <<cDisk, cNet, cCast, cWon>>
  PROVE  IInv'
<1>1. cBudget' \in [ClusterEvents -> Nat]
  BY SpendOk
<1>2. Moves(p, b)
  BY <1>1, SilentMoves DEF Ticks
<1> QED BY <1>2, QuietKeeps

(* CLUSTER FAILOVER *)
LEMMA FailoverKeeps ==
  ASSUME IInv, Ticks, NEW p \in Nodes, Cl!FailoverCommand(p)
  PROVE  IInv'
<1>1. PICK b : b = [cNode[p] EXCEPT !.manual = TRUE]
  OBVIOUS
<1>2. Evolves(cNode[p], b)
  BY <1>1, NodeNow, FlagsOk
<1>3. cNode' = [cNode EXCEPT ![p] = b] /\ UNCHANGED <<cDisk, cNet, cCast, cWon>> /\ Cl!Spend("manual")
  BY <1>1 DEF Cl!FailoverCommand
<1>4. "manual" \in ClusterEvents
  BY DEF ClusterEvents
<1> QED BY <1>2, <1>3, <1>4, FlagKeeps

(* A flag is cleared. *)
LEMMA ClearKeeps ==
  ASSUME IInv, Ticks, NEW p \in Nodes, Cl!Clear(p)
  PROVE  IInv'
<1>1. UNCHANGED <<cDisk, cNet, cCast, cWon>> /\ Cl!Spend("clear") /\ "clear" \in ClusterEvents
  BY DEF Cl!Clear, ClusterEvents
<1>2. cNode[p] \in Views /\ cNode[p].fail \in SUBSET Nodes
  BY NodeNow DEF Views
<1>3. CASE \E n \in cNode[p].fail : cNode' = [cNode EXCEPT ![p].fail = @ \ {n}]
  <2>1. PICK n \in cNode[p].fail : cNode' = [cNode EXCEPT ![p].fail = @ \ {n}]
    BY <1>3
  <2>2. PICK f : f = cNode[p].fail \ {n}
    OBVIOUS
  <2>3. PICK b : b = [cNode[p] EXCEPT !.fail = f]
    OBVIOUS
  <2>4. cNode' = [cNode EXCEPT ![p] = b]
    BY <2>1, <2>2, <2>3
  <2>5. Evolves(cNode[p], b)
    BY <1>2, <2>2, <2>3, FlagsOk
  <2> QED BY <1>1, <2>4, <2>5, FlagKeeps
<1>4. CASE cNode' = [cNode EXCEPT ![p].manual = FALSE]
  <2>1. PICK b : b = [cNode[p] EXCEPT !.manual = FALSE]
    OBVIOUS
  <2>2. cNode' = [cNode EXCEPT ![p] = b]
    BY <1>4, <2>1
  <2>3. Evolves(cNode[p], b)
    BY <1>2, <2>1, FlagsOk
  <2> QED BY <1>1, <2>2, <2>3, FlagKeeps
<1> QED BY <1>3, <1>4 DEF Cl!Clear

(* A node is flagged FAIL. *)
LEMMA FailKeeps ==
  ASSUME IInv, Ticks, NEW p \in Nodes, NEW n \in Nodes, Cl!MarkNodeAsFailing(p, n)
  PROVE  IInv'
<1>1. UNCHANGED <<cDisk, cNet, cCast, cWon>> /\ Cl!Spend("fail") /\ "fail" \in ClusterEvents
  BY DEF Cl!MarkNodeAsFailing, ClusterEvents
<1>2. cNode[p] \in Views /\ cNode[p].fail \in SUBSET Nodes
  BY NodeNow DEF Views
<1>3. PICK f : f = cNode[p].fail \cup {n}
  OBVIOUS
<1>4. PICK b : b = [cNode[p] EXCEPT !.fail = f]
  OBVIOUS
<1>5. cNode' = [cNode EXCEPT ![p] = b]
  BY <1>3, <1>4 DEF Cl!MarkNodeAsFailing
<1>6. Evolves(cNode[p], b)
  BY <1>2, <1>3, <1>4, FlagsOk
<1> QED BY <1>1, <1>5, <1>6, FlagKeeps

(* The election failed; the next one is scheduled. *)
LEMMA ScheduleKeeps ==
  ASSUME IInv, Ticks, NEW p \in Nodes, Cl!Schedule(p)
  PROVE  IInv'
<1>1. cNode[p] \in Views /\ cNode[p].auth \in Auths /\ cDisk[p].epoch <= cNode[p].epoch
  BY NodeNow
<1>2. PICK a : a = [cNode[p].auth EXCEPT !.sent = FALSE, !.count = 0]
  OBVIOUS
<1>3. a \in Auths /\ ~a.sent /\ a.count = 0
  BY <1>1, <1>2 DEF Auths
<1>4. PICK b : b = [cNode[p] EXCEPT !.auth = a]
  OBVIOUS
<1>5. b \in Views /\ b.vote = cNode[p].vote /\ b.epoch = cNode[p].epoch /\ b.auth = a
  BY <1>1, <1>3, <1>4 DEF Views
<1>6. cNode' = [cNode EXCEPT ![p] = b] /\ UNCHANGED <<cDisk, cNet, cCast, cWon>>
  BY <1>2, <1>4 DEF Cl!Schedule
<1>7. cBudget' \in [ClusterEvents -> Nat]
  BY SpendOk DEF Cl!Schedule, ClusterEvents
<1>8. b.epoch >= cDisk[p].epoch
  BY <1>5, NodeNow
<1>9. Moves(p, b)
  BY <1>3, <1>5, <1>6, <1>7, <1>8 DEF Moves, Ticks
<1> QED BY <1>6, <1>9, QuietKeeps

(* A restart: the vote and every epoch of an election are on disk. *)
LEMMA RestartKeeps ==
  ASSUME IInv, Ticks, NEW p \in Nodes, Cl!Restart(p)
  PROVE  IInv'
<1>1. cNode[p] \in Views /\ cDisk[p] \in Files /\ cNode[p].fail \in SUBSET Nodes
  BY NodeNow DEF Views
<1>2. PICK b : b = Cl!Loaded(cDisk[p], cNode[p].fail)
  OBVIOUS
<1>3. b \in Views /\ b.auth = Cl!NoElection /\ b.vote = cDisk[p].vote /\ b.epoch >= cDisk[p].epoch
  BY <1>1, <1>2, LoadedOk
<1>4. ~b.auth.sent /\ b.auth.count = 0
  BY SMTT(30), <1>3 DEF Cl!NoElection
<1>5. /\ cNode' = [cNode EXCEPT ![p] = b] /\ cDisk' = cDisk /\ cCast' = cCast /\ cWon' = cWon /\ cNet' \subseteq cNet
  BY <1>2 DEF Cl!Restart
<1>6. cBudget' \in [ClusterEvents -> Nat]
  BY SpendOk DEF Cl!Restart, ClusterEvents
<1>7. Moves(p, b)
  BY <1>3, <1>4, <1>5, <1>6, NodeNow DEF Moves, Ticks
<1> QED BY <1>5, <1>7, QuietKeeps

(* The end of an election that is won: enough masters have voted for it. *)
LEMMA WinKeeps ==
  ASSUME IInv, Ticks, NEW p \in Nodes, Cl!WinElection(p)
  PROVE  IInv'
<1>1. PICK r : r = cNode[p]
  OBVIOUS
<1>2. r \in Views /\ r.auth \in Auths
  BY <1>1, NodeNow
<1>3. PICK x : x = Cl!Max({r.config[p], r.auth.epoch})
  OBVIOUS
<1>4. x \in Nat
  BY <1>2, <1>3, MaxPair DEF Views, Auths
<1>5. PICK b : b = [r EXCEPT !.config[p] = x]
  OBVIOUS
<1>6. Evolves(r, b) /\ b \in Views
  BY <1>2, <1>4, <1>5, ConfigOk DEF Evolves
<1>7. PICK c : c = Cl!ReplaceYourMaster(p, b)
  OBVIOUS
<1>8. Evolves(r, c)
  <2>1. Evolves(b, c)
    BY <1>6, <1>7, ReplaceOk
  <2> QED BY <1>2, <1>6, <2>1, EvolvesTwice
<1>9. /\ cNode' = [cNode EXCEPT ![p] = c] /\ cDisk' = [cDisk EXCEPT ![p] = Cl!Saved(c)]
      /\ cWon' = cWon \cup {[who |-> p, epoch |-> r.auth.epoch, size |-> Cl!Size(r)]}
      /\ UNCHANGED <<cNet, cBudget, cCast>> /\ r.auth.sent /\ r.auth.count >= Cl!NeededQuorum(r)
  BY <1>1, <1>3, <1>5, <1>7 DEF Cl!WinElection, Cl!Save
<1>10. Moves(p, c)
  BY <1>1, <1>8, <1>9, NodeNow, SilentMoves DEF Ticks
<1>11. Cl!Size(r) \in Nat
  <2>1. {n \in Nodes : Cl!IsMaster(r, n) /\ Cl!SlotsOf(r, n) # {}} \in SUBSET Nodes
    OBVIOUS
  <2> QED BY <2>1, ClusterAssumption, FS_Subset, FS_CardinalityType, SameCardinality DEF Cl!Size
<1>12. PICK v : v = [who |-> p, epoch |-> r.auth.epoch, size |-> Cl!Size(r)]
  OBVIOUS
<1>13. v \in [who: Nodes, epoch: Nat, size: Nat] /\ v.who = p /\ v.epoch = r.auth.epoch /\ v.size = Cl!Size(r)
  BY <1>2, <1>11, <1>12 DEF Auths
<1>14. cWon' \subseteq [who: Nodes, epoch: Nat, size: Nat]
  BY <1>9, <1>12, <1>13 DEF IInv, TypeOK
<1>15. ASSUME cPunctual PROVE Majority(v)
  <2>1. r.auth.count <= Cardinality(Received(cNet, cCast, r.auth.epoch, p))
    BY <1>1, <1>9, <1>15 DEF IInv, Counted, CountedAt
  <2>2. /\ Cardinality(Received(cNet, cCast, r.auth.epoch, p)) <= Cardinality(VotersFor(cCast, r.auth.epoch, p))
        /\ Cardinality(Received(cNet, cCast, r.auth.epoch, p)) \in Nat
        /\ Cardinality(VotersFor(cCast, r.auth.epoch, p)) \in Nat
    BY VotersAre
  <2>3. r.auth.count \in Nat /\ r.auth.count >= v.size \div 2 + 1
    BY <1>2, <1>9, <1>13 DEF Auths, Cl!NeededQuorum
  <2>4. v.size \div 2 + 1 \in Nat
    BY SMTT(30), <1>11, <1>13
  <2> QED BY SMTT(30), <1>13, <2>1, <2>2, <2>3, <2>4 DEF Majority
<1>16. cPunctual => \A w \in cWon' : Majority(w)
  BY <1>9, <1>12, <1>15 DEF IInv, Elected
<1> QED BY <1>10, <1>14, <1>16, MovesKeeps

(* The start of an election: its epoch is on disk before any request is    *)
(* sent, and no answer has been counted.                                   *)
LEMMA StartKeeps ==
  ASSUME IInv, Ticks, NEW p \in Nodes, Cl!StartElection(p)
  PROVE  IInv'
<1>1. PICK r : r = cNode[p]
  OBVIOUS
<1>2. r \in Views /\ r.auth \in Auths /\ r.epoch \in Nat /\ cDisk[p].epoch \in Nat /\ cDisk[p].epoch <= r.epoch
  BY <1>1, NodeNow
<1>3. PICK e : e = r.epoch + 1
  OBVIOUS
<1>4. PICK a : a = [r.auth EXCEPT !.sent = TRUE, !.epoch = e]
  OBVIOUS
<1>5. e \in Nat /\ e >= cDisk[p].epoch /\ a \in Auths /\ a.sent /\ a.epoch = e /\ a.count = r.auth.count
  <2>1. e \in Nat /\ e >= cDisk[p].epoch
    BY SMTT(30), <1>2, <1>3
  <2>2. a \in Auths /\ a.sent /\ a.epoch = e /\ a.count = r.auth.count
    BY <1>2, <1>4, <2>1 DEF Auths
  <2> QED BY <2>1, <2>2
<1>6. PICK b : b = [r EXCEPT !.epoch = e, !.auth = a]
  OBVIOUS
<1>7. b \in Views /\ b.epoch = e /\ b.auth = a /\ b.vote = r.vote
  BY <1>2, <1>5, <1>6 DEF Views
<1>8. PICK asked \in SUBSET Nodes :
        cNet' = cNet \cup {[type |-> "AUTH_REQUEST", to |-> n, hdr |-> Cl!Header(p, b), force |-> r.manual] : n \in asked}
  <2>1. PICK asked : asked = {q \in Nodes \ {p} : Cl!IsMaster(r, q) /\ Cl!SlotsOf(r, q) # {}}
    OBVIOUS
  <2>2. cNet' = cNet \cup {[type |-> "AUTH_REQUEST", to |-> n, hdr |-> Cl!Header(p, b), force |-> r.manual] : n \in asked}
    BY <1>1, <1>3, <1>4, <1>6, <2>1, Zenon DEF Cl!StartElection
  <2>3. asked \in SUBSET Nodes
    BY <2>1
  <2> QED BY <2>2, <2>3
<1>9. /\ cNode' = [cNode EXCEPT ![p] = b] /\ cDisk' = [cDisk EXCEPT ![p] = Cl!Saved(b)] /\ Cl!Spend("election")
      /\ UNCHANGED <<cCast, cWon>> /\ ~r.auth.sent
  BY <1>1, <1>3, <1>4, <1>6 DEF Cl!StartElection, Cl!Save
<1>10. Cl!Header(p, b) \in Headers /\ Cl!Header(p, b).from = p /\ Cl!Header(p, b).epoch = e
  BY <1>7, HeaderType
<1>11. ASSUME NEW n \in Nodes
       PROVE  IsOwnRequest([type |-> "AUTH_REQUEST", to |-> n, hdr |-> Cl!Header(p, b), force |-> r.manual], p, b)
  <2>1. r.manual \in BOOLEAN
    BY <1>2 DEF Views
  <2>2. [type |-> "AUTH_REQUEST", to |-> n, hdr |-> Cl!Header(p, b), force |-> r.manual] \in Requests
    BY <1>10, <2>1 DEF Requests
  <2> QED BY <1>5, <1>7, <1>9, <1>10, <2>2 DEF IsOwnRequest
<1>12. \A m \in cNet' : m \in cNet \/ m \in Pings \cup Updates \/ IsOwnRequest(m, p, b)
  BY <1>8, <1>11
<1>13. cBudget' \in [ClusterEvents -> Nat]
  BY <1>9, SpendOk DEF ClusterEvents
<1>14. Goes(p, b)
  BY <1>1, <1>5, <1>7, <1>9, <1>12, <1>13 DEF Goes, Ticks
<1>15. ASSUME cPunctual' PROVE CountedAt(b.auth, cNet', cCast, p)
  <2>1. r.auth.count = 0
    BY <1>1, <1>9, <1>15 DEF IInv, Counted, CountedAt, Ticks
  <2>2. Cardinality(Received(cNet', cCast, a.epoch, p)) \in Nat
    BY VotersAre
  <2> QED BY SMTT(30), <1>5, <1>7, <2>1, <2>2 DEF CountedAt
<1>16. cWon' \subseteq [who: Nodes, epoch: Nat, size: Nat]
  BY <1>9 DEF IInv, TypeOK
<1>17. cPunctual => \A v \in cWon' : Majority(v)
  BY <1>9 DEF IInv, Elected
<1> QED BY <1>14, <1>15, <1>16, <1>17, GoesKeeps

(* An answer: it is counted once, and for the election it was given in.    *)
LEMMA AckKeeps ==
  ASSUME IInv, Ticks, NEW m \in cNet, Cl!ProcessAuthAck(m),
         cPunctual' => cBudget'["late"] = cBudget["late"]
  PROVE  IInv'
<1>1. PICK p : p = m.to
  OBVIOUS
<1>2. PICK b : b = Cl!Heard(cNode[p], m.hdr)
  OBVIOUS
<1>3. m.type = "AUTH_ACK" /\ p \in Nodes /\ m.hdr \in Headers /\ m.hdr.from \in Nodes /\ m.hdr.epoch \in Nat
  BY <1>1, PacketType DEF Cl!ProcessAuthAck
<1>4. Evolves(cNode[p], b) /\ b \in Views /\ b.auth = cNode[p].auth /\ b.auth \in Auths
  BY <1>2, <1>3, NodeNow, HeardOk DEF Evolves
<1>5. PICK counts \in BOOLEAN :
        /\ counts => m.hdr.epoch >= b.auth.epoch
        /\ Cl!Become(p, IF counts THEN [b EXCEPT !.auth.count = @ + 1] ELSE b)
        /\ IF counts /\ ~b.auth.sent THEN Cl!Spend("late") ELSE UNCHANGED cBudget
  <2> DEFINE n == m.hdr.from
             counts == Cl!IsMaster(b, n) /\ Cl!SlotsOf(b, n) # {} /\ m.hdr.epoch >= b.auth.epoch
  <2>1. counts \in BOOLEAN
    BY DEF Cl!IsMaster
  <2>2. /\ counts => m.hdr.epoch >= b.auth.epoch
        /\ Cl!Become(p, IF counts THEN [b EXCEPT !.auth.count = @ + 1] ELSE b)
        /\ IF counts /\ ~b.auth.sent THEN Cl!Spend("late") ELSE UNCHANGED cBudget
    BY <1>1, <1>2 DEF Cl!ProcessAuthAck
  <2> QED BY <2>1, <2>2
<1>6. cNet' = cNet \ {m} /\ UNCHANGED <<cCast, cWon>>
  BY DEF Cl!ProcessAuthAck
<1>7. cBudget' \in [ClusterEvents -> Nat]
  BY <1>3, <1>5, NodeNow, SpendOk DEF ClusterEvents
<1>8. CASE ~counts
  <2>1. Cl!Become(p, b)
    BY <1>5, <1>8
  <2>2. Moves(p, b)
    BY <1>3, <1>4, <1>6, <1>7, <2>1, BecomeMoves DEF Ticks
  <2> QED BY <1>3, <1>6, <2>2, QuietKeeps
<1>9. CASE counts
  <2>1. PICK a : a = [b.auth EXCEPT !.count = b.auth.count + 1]
    OBVIOUS
  <2>2. a \in Auths /\ a.sent = b.auth.sent /\ a.epoch = b.auth.epoch /\ a.count = b.auth.count + 1
    BY SMTT(30), <1>4, <2>1 DEF Auths
  <2>3. PICK c : c = [b EXCEPT !.auth = a]
    OBVIOUS
  <2>4. c \in Views /\ c.epoch = b.epoch /\ c.vote = b.vote /\ c.auth = a
    BY <1>4, <2>2, <2>3 DEF Views
  <2>5. Cl!Become(p, c)
    BY <1>5, <1>9, <2>1, <2>3
  <2>6. cNode' = [cNode EXCEPT ![p] = c] /\ (cDisk' = cDisk \/ cDisk' = [cDisk EXCEPT ![p] = Cl!Saved(c)])
    BY <2>5 DEF Cl!Become, Cl!Save
  <2>7. c.epoch >= cDisk[p].epoch /\ c.vote = cNode[p].vote
    <3>1. b.epoch \in Nat /\ cNode[p].epoch \in Nat /\ cDisk[p].epoch \in Nat /\ cDisk[p].epoch <= cNode[p].epoch
      BY <1>3, <1>4, NodeNow DEF Views
    <3> QED BY SMTT(30), <1>4, <2>4, <3>1 DEF Evolves
  <2>8. Goes(p, c)
    BY <1>3, <1>4, <1>6, <1>7, <2>2, <2>4, <2>6, <2>7 DEF Goes, Ticks
  <2>9. ASSUME cPunctual' PROVE CountedAt(c.auth, cNet', cCast, p)
    <3>1. b.auth.sent
      <4>1. Cl!Spend("late") => cBudget'["late"] # cBudget["late"]
        BY SpendOk DEF ClusterEvents
      <4> QED BY <1>5, <1>9, <2>9, <4>1
    <3>2. <<m.hdr.from, m.hdr.epoch, p>> \in cCast
      BY <1>1, <1>3 DEF IInv, Acknowledged
    <3>3. m.hdr.epoch <= cNode[p].auth.epoch
      <4>1. Past(p, m.hdr.epoch)
        BY <3>2 DEF IInv, Asked
      <4> QED BY <1>4, <3>1, <4>1 DEF Past
    <3>4. m.hdr.epoch = b.auth.epoch /\ b.auth.epoch \in Nat /\ b.auth.count \in Nat
      BY SMTT(30), <1>3, <1>4, <1>5, <1>9, <3>3 DEF Auths
    <3>5. b.auth.count <= Cardinality(Received(cNet, cCast, m.hdr.epoch, p))
      BY <1>3, <1>4, <2>9, <3>1, <3>4 DEF IInv, Counted, CountedAt, Ticks
    <3>6. \A n \in cNet : IsAck(n, <<m.hdr.from, m.hdr.epoch, m.to>>) => m = n
      BY <1>3 DEF IInv, Acknowledged
    <3>7. Cardinality(Received(cNet', cCast, m.hdr.epoch, p)) >= Cardinality(Received(cNet, cCast, m.hdr.epoch, p)) + 1
      BY <1>1, <1>3, <1>6, <3>2, <3>6, AnswerReceived
    <3>8. /\ Cardinality(Received(cNet', cCast, m.hdr.epoch, p)) \in Nat
          /\ Cardinality(Received(cNet, cCast, m.hdr.epoch, p)) \in Nat
      BY VotersAre
    <3>9. a.count <= Cardinality(Received(cNet', cCast, m.hdr.epoch, p))
      BY SMTT(30), <2>2, <3>4, <3>5, <3>7, <3>8
    <3> QED BY <2>2, <2>4, <3>1, <3>4, <3>9 DEF CountedAt
  <2>10. cWon' \subseteq [who: Nodes, epoch: Nat, size: Nat]
    BY <1>6 DEF IInv, TypeOK
  <2>11. cPunctual => \A v \in cWon' : Majority(v)
    BY <1>6 DEF IInv, Elected
  <2> QED BY <1>3, <2>8, <2>9, <2>10, <2>11, GoesKeeps
<1> QED BY <1>8, <1>9

(* A vote: it is on disk before it is sent, and later than all others of   *)
(* the voter.                                                              *)
LEMMA VoteKeeps ==
  ASSUME IInv, Ticks, NEW m \in cNet, m.type = "AUTH_REQUEST", NEW b, b = Cl!Heard(cNode[m.to], m.hdr),
         Cl!MayVote(m.to, b, m), Cl!Become(m.to, Cl!Vote(b)),
         cNet' = (cNet \ {m}) \cup {[type |-> "AUTH_ACK", to |-> m.hdr.from, hdr |-> Cl!Header(m.to, Cl!Vote(b))]},
         cCast' = cCast \cup {<<m.to, b.epoch, m.hdr.from>>}, UNCHANGED <<cBudget, cWon>>
  PROVE  IInv'
<1>1. PICK p, c, e : p = m.to /\ c = m.hdr.from /\ e = m.hdr.epoch
  OBVIOUS
<1>2. p \in Nodes /\ m.hdr \in Headers /\ c \in Nodes /\ e \in Nat
  BY <1>1, PacketType
<1>3. Evolves(cNode[p], b) /\ b \in Views /\ b.epoch \in Nat /\ b.epoch >= e
  BY SMTT(30), <1>1, <1>2, NodeNow, HeardOk DEF Evolves, Views
<1>4. b.epoch = e /\ b.vote # e
  BY SMTT(30), <1>1, <1>2, <1>3 DEF Cl!MayVote
<1>5. b.vote = cNode[p].vote /\ cNode[p].vote \in Nat /\ cNode[p].vote < e /\ b.auth = cNode[p].auth
  <2>1. /\ cNode[p].vote \in Nat /\ cNode[p].vote <= cNode[p].epoch /\ cNode[p].epoch \in Nat
        /\ b.epoch >= cNode[p].epoch /\ b.vote = cNode[p].vote
    BY <1>2, <1>3, NodeNow DEF Evolves
  <2>2. cNode[p].vote < e
    BY SMTT(30), <1>2, <1>4, <2>1
  <2> QED BY <1>3, <2>1, <2>2 DEF Evolves
<1>6. PICK v : v = Cl!Vote(b)
  OBVIOUS
<1>7. v \in Views /\ v.epoch = e /\ v.vote = e /\ v.auth = cNode[p].auth
  BY <1>3, <1>4, <1>5, <1>6 DEF Cl!Vote, Views
<1>8. cNode' = [cNode EXCEPT ![p] = v] /\ cDisk' = [cDisk EXCEPT ![p] = Cl!Saved(v)]
  <2>1. Cl!Changed(cNode[p], v)
    <3>1. PICK x : x = [v EXCEPT !.epoch = cNode[p].epoch]
      OBVIOUS
    <3>2. x.vote = e
      BY <1>7, <3>1 DEF Views
    <3>3. Cl!Saved(x).vote # Cl!Saved(cNode[p]).vote
      BY SMTT(30), <1>2, <1>5, <3>2 DEF Cl!Saved
    <3> QED BY <3>1, <3>3 DEF Cl!Changed
  <2> QED BY <1>1, <1>6, <2>1 DEF Cl!Become, Cl!Save
<1>9. PICK ack : ack = [type |-> "AUTH_ACK", to |-> c, hdr |-> Cl!Header(p, v)]
  OBVIOUS
<1>10. ack \in Acks /\ ack.type = "AUTH_ACK" /\ ack.hdr.from = p /\ ack.hdr.epoch = e /\ ack.to = c
  <2>1. Cl!Header(p, v) \in Headers /\ Cl!Header(p, v).from = p /\ Cl!Header(p, v).epoch = e
    BY <1>2, <1>7, HeaderType
  <2> QED BY <1>2, <1>9, <2>1 DEF Acks
<1>11. cNet' = (cNet \ {m}) \cup {ack} /\ cCast' = cCast \cup {<<p, e, c>>}
  BY <1>1, <1>4, <1>6, <1>9
<1>12. /\ cNode \in [Nodes -> Views] /\ cDisk \in [Nodes -> Files] /\ cCast \subseteq Nodes \X Nat \X Nodes
       /\ cNet \subseteq Pings \cup Updates \cup Requests \cup Acks
  BY DEF IInv, TypeOK
<1>13. Cl!Saved(v) \in Files /\ Cl!Saved(v).vote = e /\ Cl!Saved(v).epoch = e
  BY <1>7, SavedOk
<1>14. /\ cNode' \in [Nodes -> Views] /\ cNode'[p] = v /\ \A q \in Nodes \ {p} : cNode'[q] = cNode[q]
       /\ cDisk' \in [Nodes -> Files] /\ cDisk'[p] = Cl!Saved(v) /\ \A q \in Nodes \ {p} : cDisk'[q] = cDisk[q]
  BY <1>2, <1>7, <1>8, <1>12, <1>13
<1>15. TypeOK'
  <2>1. cNet' \subseteq Pings \cup Updates \cup Requests \cup Acks /\ cCast' \subseteq Nodes \X Nat \X Nodes
    BY SMTT(30), <1>2, <1>10, <1>11, <1>12
  <2> QED BY <1>14, <2>1 DEF IInv, TypeOK, Ticks
<1>16. Persisted'
  <2>1. ASSUME NEW q \in Nodes
        PROVE  /\ cDisk'[q].vote = cNode'[q].vote
               /\ cDisk'[q].vote <= cDisk'[q].epoch /\ cDisk'[q].epoch <= cNode'[q].epoch
    <3>1. CASE q = p
      BY SMTT(30), <1>2, <1>7, <1>13, <1>14, <3>1
    <3>2. CASE q # p
      BY <1>14, <3>2 DEF IInv, Persisted
    <3> QED BY <3>1, <3>2
  <2> QED BY <2>1 DEF Persisted
<1>17. \A q \in Nodes : /\ cDisk[q].epoch \in Nat /\ cDisk'[q].epoch \in Nat /\ cDisk[q].epoch <= cDisk'[q].epoch
                        /\ cNode'[q].auth = cNode[q].auth
  <2>1. cDisk[p].epoch \in Nat /\ cDisk[p].epoch <= cNode[p].epoch /\ cNode[p].epoch \in Nat /\ b.epoch >= cNode[p].epoch
    BY <1>2, <1>3, NodeNow DEF Evolves
  <2>2. cDisk[p].epoch <= e
    BY SMTT(30), <1>2, <1>4, <2>1
  <2>3. \A q \in Nodes : cDisk[q].epoch \in Nat
    BY <1>12 DEF Files
  <2> QED BY SMTT(30), <1>2, <1>7, <1>13, <1>14, <2>2, <2>3
<1>18. ASSUME NEW q \in Nodes, NEW f \in Nat, Past(q, f) PROVE Past(q, f)'
  BY SMTT(30), <1>17, <1>18 DEF Past
<1>19. Asked'
  <2>1. ASSUME NEW n \in cNet', n.type = "AUTH_REQUEST" PROVE Past(n.hdr.from, n.hdr.epoch)'
    <3>1. n \in cNet
      BY <1>10, <1>11, <2>1
    <3>2. n.hdr.from \in Nodes /\ n.hdr.epoch \in Nat
      BY <3>1, PacketType
    <3>3. Past(n.hdr.from, n.hdr.epoch)
      BY <2>1, <3>1 DEF IInv, Asked
    <3> QED BY <1>18, <3>2, <3>3
  <2>2. ASSUME NEW w \in cCast' PROVE Past(w[3], w[2])'
    <3>1. CASE w \in cCast
      <4>1. w[3] \in Nodes /\ w[2] \in Nat /\ Past(w[3], w[2])
        BY <1>12, <3>1 DEF IInv, Asked
      <4> QED BY <1>18, <4>1
    <3>2. CASE w = <<p, e, c>>
      <4>1. Past(c, e)
        BY <1>1 DEF IInv, Asked
      <4>2. Past(c, e)'
        BY <1>2, <1>18, <4>1
      <4> QED BY <3>2, <4>2
    <3> QED BY <1>11, <3>1, <3>2
  <2> QED BY <2>1, <2>2 DEF Asked
<1>20. \A w \in cCast : w[1] = p => w[2] < e
  <2> SUFFICES ASSUME NEW w \in cCast, w[1] = p PROVE w[2] < e
    OBVIOUS
  <2>1. w[2] <= cNode[p].vote /\ w[2] \in Nat
    BY <1>12 DEF IInv, Voted
  <2> QED BY SMTT(30), <1>2, <1>5, <2>1
<1>21. Voted'
  <2>1. ASSUME NEW w \in cCast' PROVE w[2] <= cNode'[w[1]].vote
    <3>1. CASE w \in cCast
      <4>1. w[1] \in Nodes /\ w[2] \in Nat /\ w[2] <= cNode[w[1]].vote
        BY <1>12, <3>1 DEF IInv, Voted
      <4>2. CASE w[1] = p
        <5>1. w[2] < e
          BY <1>20, <3>1, <4>2
        <5> QED BY SMTT(30), <1>2, <1>7, <1>14, <4>1, <4>2, <5>1
      <4>3. CASE w[1] # p
        BY <1>14, <4>1, <4>3
      <4> QED BY <4>2, <4>3
    <3>2. CASE w = <<p, e, c>>
      <4>1. w[1] = p /\ w[2] = e
        BY <3>2
      <4> QED BY SMTT(30), <1>2, <1>7, <1>14, <4>1
    <3> QED BY <1>11, <3>1, <3>2
  <2> QED BY <2>1 DEF Voted
<1>22. <<p, e, c>> \notin cCast /\ \A f : <<p, e, f>> \notin cCast
  BY SMTT(30), <1>2, <1>20
<1>23. VotesOnce'
  <2>1. ASSUME NEW w \in cCast PROVE ~(w[1] = p /\ w[2] = e)
    BY SMTT(30), <1>2, <1>20
  <2>2. \A w, x \in cCast : w[1] = x[1] /\ w[2] = x[2] => w = x
    BY DEF IInv, VotesOnce
  <2>3. <<p, e, c>>[1] = p /\ <<p, e, c>>[2] = e
    OBVIOUS
  <2>4. \A w, x \in cCast' : w[1] = x[1] /\ w[2] = x[2] => w = x
    BY <1>11, <2>1, <2>2, <2>3
  <2> QED BY <2>4 DEF VotesOnce
<1>24. \A n \in cNet : n.type = "AUTH_ACK" => <<n.hdr.from, n.hdr.epoch, n.to>> \in cCast
  BY DEF IInv, Acknowledged
<1>25. Acknowledged'
  <2>1. \A n \in cNet' : n.type = "AUTH_ACK" => <<n.hdr.from, n.hdr.epoch, n.to>> \in cCast'
    BY <1>10, <1>11, <1>24
  <2>2. ASSUME NEW n \in cNet', NEW o \in cNet', n.type = "AUTH_ACK", IsAck(o, <<n.hdr.from, n.hdr.epoch, n.to>>)
        PROVE  n = o
    <3>0. o.type = "AUTH_ACK" /\ o.hdr.from = n.hdr.from /\ o.hdr.epoch = n.hdr.epoch /\ o.to = n.to
      BY <2>2 DEF IsAck
    <3>1. CASE n \in cNet /\ o \in cNet
      BY <2>2, <3>1 DEF IInv, Acknowledged
    <3>2. CASE n = ack /\ o # ack
      <4>1. <<p, e, c>> \in cCast
        BY <1>10, <1>11, <1>24, <3>0, <3>2
      <4> QED BY <1>22, <4>1
    <3>3. CASE n # ack /\ o = ack
      <4>1. <<p, e, c>> \in cCast
        BY <1>10, <1>11, <1>24, <2>2, <3>0, <3>3
      <4> QED BY <1>22, <4>1
    <3> QED BY <1>11, <3>1, <3>2, <3>3
  <2> QED BY <2>1, <2>2 DEF Acknowledged
<1>26. \A n \in cNet' : n \in cNet \/ n.type # "AUTH_ACK" \/ <<n.hdr.from, n.hdr.epoch, n.to>> \notin cCast
  BY <1>10, <1>11, <1>22
<1>27. ASSUME cPunctual' PROVE Counted' /\ Elected'
  <2>0. cPunctual /\ cCast \subseteq cCast'
    BY <1>11, <1>27 DEF Ticks
  <2>1. ASSUME NEW q \in Nodes PROVE CountedAt(cNode'[q].auth, cNet', cCast', q)
    <3>1. cNode'[q].auth = cNode[q].auth /\ cNode[q].auth \in Auths /\ CountedAt(cNode[q].auth, cNet, cCast, q)
      BY <1>17, <2>0, NodeNow DEF IInv, Counted
    <3> QED BY SMTT(30), <1>26, <2>0, <3>1, CountedStill
  <2>2. ASSUME NEW w \in cWon' PROVE Majority(w)'
    <3>1. Majority(w) /\ w.size \in Nat
      BY <2>0 DEF IInv, Elected, TypeOK
    <3>2. Cardinality(VotersFor(cCast, w.epoch, w.who)) <= Cardinality(VotersFor(cCast', w.epoch, w.who))
      BY <1>26, <2>0, AnsweredGrows
    <3>3. Cardinality(VotersFor(cCast, w.epoch, w.who)) \in Nat /\ Cardinality(VotersFor(cCast', w.epoch, w.who)) \in Nat
      BY VotersAre
    <3>4. w.size \div 2 + 1 \in Nat
      BY SMTT(30), <3>1
    <3> QED BY SMTT(30), <3>1, <3>2, <3>3, <3>4 DEF Majority
  <2> QED BY <2>1, <2>2 DEF Counted, Elected
<1> QED BY <1>15, <1>16, <1>19, <1>21, <1>23, <1>25, <1>27 DEF IInv

(* A request is granted or dropped. *)
LEMMA RequestKeeps ==
  ASSUME IInv, Ticks, NEW m \in cNet, Cl!ProcessAuthRequest(m)
  PROVE  IInv'
<1>1. PICK b : b = Cl!Heard(cNode[m.to], m.hdr)
  OBVIOUS
<1>2. m.type = "AUTH_REQUEST" /\ UNCHANGED <<cBudget, cWon>>
  BY DEF Cl!ProcessAuthRequest
<1>3. CASE Cl!MayVote(m.to, b, m)
  <2>1. /\ Cl!Become(m.to, Cl!Vote(b)) /\ cCast' = cCast \cup {<<m.to, b.epoch, m.hdr.from>>}
        /\ cNet' = (cNet \ {m}) \cup {[type |-> "AUTH_ACK", to |-> m.hdr.from, hdr |-> Cl!Header(m.to, Cl!Vote(b))]}
    BY <1>1, <1>3 DEF Cl!ProcessAuthRequest
  <2> QED BY <1>1, <1>2, <1>3, <2>1, VoteKeeps
<1>4. CASE ~Cl!MayVote(m.to, b, m)
  <2>1. Cl!Become(m.to, b) /\ cNet' = cNet \ {m} /\ cCast' = cCast
    BY <1>1, <1>4 DEF Cl!ProcessAuthRequest
  <2>2. m.to \in Nodes /\ m.hdr \in Headers
    BY PacketType
  <2>3. Evolves(cNode[m.to], b) /\ cBudget' \in [ClusterEvents -> Nat]
    BY <1>1, <1>2, <2>2, NodeNow, HeardOk
  <2>4. Moves(m.to, b)
    BY <2>1, <2>2, <2>3, BecomeMoves DEF Ticks
  <2> QED BY <1>2, <2>2, <2>4, QuietKeeps
<1> QED BY <1>3, <1>4

-----------------------------------------------------------------------------
(* The induction. *)

(* Nobody has voted when the cluster was just created. *)
LEMMA InitOk ==
  ASSUME Cl!Init
  PROVE  IInv
<1>1. Cl!Max(Nodes) \in Nat
  BY MaxOf, ClusterAssumption
<1>2. MasterOf \in [Nodes -> Nat] /\ Cl!Slots \subseteq Nodes
  BY ClusterAssumption, SlotsAre
<1>3. Cl!FirstConfig \in Files /\ Cl!FirstConfig.vote = 0 /\ Cl!FirstConfig.epoch = Cl!Max(Nodes)
  <2>1. [n \in Nodes |-> IF MasterOf[n] = n THEN Nobody ELSE MasterOf[n]] \in Masterships
    BY ClusterAssumption DEF Masterships
  <2>2. [s \in Cl!Slots |-> s] \in [Cl!Slots -> Nodes]
    BY <1>2
  <2> QED BY <1>1, <1>2, <2>1, <2>2 DEF Cl!FirstConfig, Files
<1>4. ASSUME NEW fail \in SUBSET Nodes
      PROVE  /\ Cl!View(Cl!FirstConfig, fail) \in Views
             /\ Cl!View(Cl!FirstConfig, fail).vote = 0 /\ Cl!View(Cl!FirstConfig, fail).epoch = Cl!Max(Nodes)
             /\ Cl!View(Cl!FirstConfig, fail).auth = Cl!NoElection
  <2>1. Cl!NoElection \in Auths
    BY DEF Cl!NoElection, Auths
  <2> QED BY <1>3, <2>1 DEF Cl!View, Views, Files
<1>5. PICK c \in ClusterScenarios : cBudget = c.budget /\ cNode = [p \in Nodes |-> Cl!View(Cl!FirstConfig, c.fail \ {p})]
  BY DEF Cl!Init
<1>6. cBudget \in [ClusterEvents -> Nat] /\ \A p \in Nodes : c.fail \ {p} \in SUBSET Nodes
  BY <1>5, ClusterAssumption
<1>7. cNode \in [Nodes -> Views] /\ \A p \in Nodes : cNode[p].vote = 0 /\ cNode[p].epoch = Cl!Max(Nodes) /\ cNode[p].auth = Cl!NoElection
  BY <1>4, <1>5, <1>6
<1>8. cDisk \in [Nodes -> Files] /\ \A p \in Nodes : cDisk[p].vote = 0 /\ cDisk[p].epoch = Cl!Max(Nodes)
  BY <1>3 DEF Cl!Init
<1>9. cNet = {} /\ cCast = {} /\ cWon = {} /\ cPunctual = TRUE
  BY DEF Cl!Init
<1>10. TypeOK
  BY <1>6, <1>7, <1>8, <1>9 DEF TypeOK
<1>11. Persisted
  BY SMTT(30), <1>1, <1>7, <1>8 DEF Persisted
<1>12. Asked /\ Voted /\ VotesOnce /\ Acknowledged /\ Elected
  BY <1>9 DEF Asked, Voted, VotesOnce, Acknowledged, Elected
<1>13. Counted
  BY SMTT(30), <1>7 DEF Counted, CountedAt, Cl!NoElection
<1> QED BY <1>10, <1>11, <1>12, <1>13 DEF IInv

(* Nothing happens. *)
LEMMA StutterOk ==
  ASSUME IInv, UNCHANGED Cl!vars
  PROVE  IInv'
<1>1. /\ cNode' = cNode /\ cDisk' = cDisk /\ cNet' = cNet /\ cBudget' = cBudget
      /\ cCast' = cCast /\ cWon' = cWon /\ cPunctual' = cPunctual
  BY DEF Cl!vars
<1>2. TypeOK' /\ Persisted'
  BY <1>1 DEF IInv, TypeOK, Persisted
<1>3. Asked' /\ Voted' /\ VotesOnce' /\ Acknowledged'
  BY <1>1 DEF IInv, Asked, Past, Voted, VotesOnce, Acknowledged
<1>4. cPunctual' => Counted' /\ Elected'
  BY <1>1 DEF IInv, Counted, Elected, Majority
<1> QED BY <1>2, <1>3, <1>4 DEF IInv

(* Every step keeps the invariant. *)
LEMMA StepOk ==
  ASSUME IInv, [Cl!Next]_Cl!vars
  PROVE  IInv'
<1>1. CASE Cl!Next
  <2>1. Ticks /\ (cPunctual' => cBudget'["late"] = cBudget["late"])
    <3>1. cPunctual \in BOOLEAN
      BY DEF IInv, TypeOK
    <3>2. cPunctual' = (cPunctual /\ cBudget'["late"] = cBudget["late"])
      BY <1>1 DEF Cl!Next
    <3> QED BY <3>1, <3>2 DEF Ticks
  <2>2. ASSUME NEW p \in Nodes,
               \/ Cl!Schedule(p) \/ Cl!StartElection(p) \/ Cl!WinElection(p)
               \/ Cl!BumpEpochCommand(p) \/ Cl!FailoverCommand(p) \/ Cl!TakeoverCommand(p)
               \/ Cl!Clear(p) \/ Cl!Restart(p)
        PROVE  IInv'
    BY <2>1, <2>2, ScheduleKeeps, StartKeeps, WinKeeps, BumpKeeps, FailoverKeeps, TakeoverKeeps,
       ClearKeeps, RestartKeeps
  <2>3. ASSUME NEW p \in Nodes, NEW n \in Nodes, Cl!ProcessPing(p, n) \/ Cl!Delay(n, p) \/ Cl!MarkNodeAsFailing(p, n)
        PROVE  IInv'
    BY <2>1, <2>3, PingKeeps, DelayKeeps, FailKeeps
  <2>4. ASSUME NEW m \in cNet,
               Cl!ProcessLatePing(m) \/ Cl!ProcessUpdate(m) \/ Cl!ProcessAuthRequest(m) \/ Cl!ProcessAuthAck(m)
        PROVE  IInv'
    BY <2>1, <2>4, LatePingKeeps, UpdateKeeps, RequestKeeps, AckKeeps
  <2>5. Cl!Step
    BY <1>1 DEF Cl!Next
  <2> QED BY <2>2, <2>3, <2>4, <2>5 DEF Cl!Step
<1> QED BY <1>1, StutterOk

(* The votes, their answers on their way and what the candidates made of   *)
(* them agree in every state of every cluster.                             *)
THEOREM ElectionSound == Cl!Spec => []IInv
<1>1. Cl!Init => IInv
  BY InitOk
<1>2. IInv /\ [Cl!Next]_Cl!vars => IInv'
  BY StepOk
<1> QED BY <1>1, <1>2, PTL DEF Cl!Spec

(* A master gives its vote for an epoch to one candidate only, however     *)
(* often it restarts and however many candidates ask: the vote is in       *)
(* nodes.conf before clusterSendFailoverAuth leaves it.                    *)
THEOREM OneVote == Cl!Spec => []VotesOnce
<1>1. IInv => VotesOnce
  BY DEF IInv
<1> QED BY <1>1, ElectionSound, PTL

(* Two winners of an epoch have a voter in common. *)
LEMMA SameWinner ==
  ASSUME IInv
  PROVE  OneWinnerPerEpoch
<1> SUFFICES ASSUME cPunctual, NEW v \in cWon, NEW w \in cWon, v.epoch = w.epoch,
                    Cardinality(Cl!Voters(v.epoch)) <= Cl!Min({v.size, w.size})
             PROVE  v.who = w.who
  BY SameCardinality DEF OneWinnerPerEpoch, Cl!OneWinnerPerEpoch
<1>1. PICK V : V = VotersFor(cCast, v.epoch, v.who)
  OBVIOUS
<1>2. PICK W : W = VotersFor(cCast, v.epoch, w.who)
  OBVIOUS
<1>3. PICK U : U = Cl!Voters(v.epoch)
  OBVIOUS
<1>4. v.size \in Nat /\ w.size \in Nat
  BY DEF IInv, TypeOK
<1>5. Cardinality(V) >= v.size \div 2 + 1 /\ Cardinality(W) >= w.size \div 2 + 1
  BY <1>1, <1>2 DEF IInv, Elected, Majority
<1>6. Cardinality(V) \in Nat /\ Cardinality(W) \in Nat
  BY <1>1, <1>2, VotersAre
<1>7. V \subseteq U /\ W \subseteq U
  <2>1. ASSUME NEW q, NEW n, <<q, v.epoch, n>> \in cCast PROVE q \in U
    <3>1. <<q, v.epoch, n>>[1] = q /\ <<q, v.epoch, n>>[2] = v.epoch
      OBVIOUS
    <3> QED BY <1>3, <2>1, <3>1 DEF Cl!Voters
  <2> QED BY <1>1, <1>2, <2>1 DEF VotersFor
<1>8. IsFiniteSet(U) /\ Cardinality(U) \in Nat
  <2>1. U \in SUBSET Nodes
    BY SMTT(30), <1>3 DEF Cl!Voters, IInv, TypeOK
  <2> QED BY <2>1, FS_Subset, FS_CardinalityType, ClusterAssumption
<1>9. Cardinality(U) <= v.size /\ Cardinality(U) <= w.size
  <2>1. {v.size, w.size} \subseteq Nat /\ {v.size, w.size} # {}
    BY <1>4
  <2>2. PICK k : k = Cl!Min({v.size, w.size})
    OBVIOUS
  <2>3. k \in {v.size, w.size} /\ k <= v.size /\ k <= w.size
    BY <2>1, <2>2, MinOf
  <2>4. k \in Nat /\ Cardinality(U) <= k
    BY <1>3, <1>4, <2>2, <2>3
  <2> QED BY SMTT(30), <1>4, <1>8, <2>3, <2>4
<1>10. Cardinality(V) + Cardinality(W) > Cardinality(U)
  <2>1. ASSUME NEW k \in Nat PROVE 2 * (k \div 2) + 2 > k /\ k \div 2 \in Nat
    BY SMTT(30)
  <2>2. 2 * Cardinality(V) > v.size /\ 2 * Cardinality(W) > w.size
    BY SMTT(30), <1>4, <1>5, <1>6, <2>1
  <2> QED BY SMTT(30), <1>4, <1>6, <1>8, <1>9, <2>2
<1>11. PICK q : q \in V /\ q \in W
  BY <1>7, <1>8, <1>10, FS_MajoritiesIntersect
<1>12. <<q, v.epoch, v.who>> \in cCast /\ <<q, v.epoch, w.who>> \in cCast
  BY <1>1, <1>2, <1>11 DEF VotersFor
<1>13. <<q, v.epoch, v.who>> = <<q, v.epoch, w.who>>
  BY <1>12 DEF IInv, VotesOnce
<1> QED BY <1>13

(* Two replicas never win the same epoch, for every number of nodes and    *)
(* however many elections, restarts and takeovers there are, if no answer  *)
(* outlived the retry time and no more nodes voted than either of the two  *)
(* took the cluster to have masters: clusterHandleSlaveFailover takes over *)
(* with a majority, clusterProcessPacket counts an answer once, and        *)
(* clusterSendFailoverAuthIfNeeded votes once in an epoch.                 *)
THEOREM OneWinner == Cl!Spec => []OneWinnerPerEpoch
<1>1. IInv => OneWinnerPerEpoch
  BY SameWinner
<1> QED BY <1>1, ElectionSound, PTL

=============================================================================
