------------------------------- MODULE MCRedisHA -------------------------------
(***************************************************************************)
(* Redis replication, Sentinel and Redis Cluster for TLC. One of them runs *)
(* in each behaviour: they share no state, and "which" names the one that  *)
(* runs.                                                                   *)
(***************************************************************************)
EXTENDS RedisHA, TLC

CONSTANTS s1, s2, s3, r1, r2

VARIABLES
  which,
  rNode, rDisk, rIds, rWrites, rWaiting, rAdmin, rBudget

replication == <<rNode, rDisk, rIds, rWrites, rWaiting, rAdmin, rBudget>>
cluster == <<cNode, cDisk, cNet, cBudget, cUp, cCast, cWon, cOrderly, cPunctual>>

-----------------------------------------------------------------------------
(* Three servers in a chain or in a star, the REPLICAOF commands an        *)
(* administrator gives them, and what else happens.                        *)
Servers == {"n1", "n2", "n3"}

Chain == [n \in Servers |-> CASE n = "n1" -> Nobody [] n = "n2" -> "n1" [] OTHER -> "n2"]

Star == [n \in Servers |-> IF n = "n1" THEN Nobody ELSE "n1"]

NoFault ==
  [what \in {"free", "bgsave_fails", "load_fails", "drop", "save", "restart", "wait", "failover",
             "abort"} |-> 0]

Replicas(hosts, admin, b) == [hosts |-> hosts, admin |-> admin, budget |-> b @@ NoFault]

Promote == <<"n2", Nobody>>

Demote == <<"n1", "n2">>

ReplicationScenarios ==
  {Replicas(Star, <<Promote, Demote, <<"n3", "n2">>>>, [drop |-> 1]),
   Replicas(Chain, <<Promote, Demote, <<"n1", Nobody>>>>, [free |-> 1, drop |-> 1]),
   Replicas(Chain, <<Promote>>, [restart |-> 1, save |-> 1]),
   Replicas(Chain, <<Promote, <<"n2", "n1">>, Promote>>, [load_fails |-> 1]),
   Replicas(Star, <<<<"n3", "n2">>, Promote, Demote>>, [bgsave_fails |-> 1]),
   Replicas(Chain, <<>>, [failover |-> 1, drop |-> 1]),
   Replicas(Star, <<>>, [failover |-> 1, abort |-> 1, wait |-> 1]),
   Replicas(Star, <<>>, [failover |-> 1, abort |-> 1, drop |-> 1]),
   Replicas(Chain, <<<<"n3", "n1">>, Promote>>, [wait |-> 1, drop |-> 1])}

(* Three sentinels that watch a master and two slaves. *)
NoEvent == [what \in {"forced", "elsewhere", "restart", "recover", "drop", "fix"} |-> 0]

Watch(down, epochs, a, b, c, more) ==
  [down |-> down, starts |-> (s1 :> a @@ s2 :> b @@ s3 :> c),
   budget |-> more @@ [epochs |-> epochs] @@ NoEvent]

SentinelScenarios ==
  {Watch(FALSE, 1, 0, 0, 1, <<>>),
   Watch(TRUE, 1, 1, 1, 0, <<>>),
   Watch(TRUE, 2, 0, 0, 1, [elsewhere |-> 1]),
   Watch(TRUE, 1, 1, 1, 0, [restart |-> 1]),
   Watch(TRUE, 2, 0, 0, 0, [forced |-> 1]),
   Watch(TRUE, 1, 0, 0, 1, [fix |-> 1, recover |-> 1]),
   Watch(TRUE, 1, 0, 0, 1, [drop |-> 1]),
   Watch(TRUE, 2, 0, 0, 1, [restart |-> 1])}

(* Masters 2, 3 and 4, and two replicas of 3. *)
Masters == (1 :> 3 @@ 2 :> 2 @@ 3 :> 3 @@ 4 :> 4 @@ 5 :> 3)

NoChange == [what \in ClusterEvents |-> 0]

Shards(fail, up, b) == [fail |-> fail, up |-> up, budget |-> b @@ NoChange]

MCClusterScenarios ==
  {Shards({3}, {}, [election |-> 3, retry |-> 1]),
   Shards({3}, {}, [election |-> 2, restart |-> 1]),
   Shards({3}, {}, [election |-> 1, late |-> 1]),
   Shards({3}, {1, 3}, [election |-> 2, restart |-> 1]),
   Shards({3}, {1, 2, 3}, [election |-> 2, manual |-> 1]),
   Shards({3}, {1, 3, 5}, [election |-> 1, restart |-> 1]),
   Shards({}, {1, 2, 3}, [takeover |-> 1, bump |-> 1, restart |-> 1]),
   Shards({}, {1, 2, 3}, [takeover |-> 1, delay |-> 1]),
   Shards({}, {1, 3}, [fail |-> 1, clear |-> 1, takeover |-> 1]),
   Shards({3}, {1, 3, 5}, [election |-> 1])}

-----------------------------------------------------------------------------
Re == INSTANCE Replication WITH
  Nodes <- Servers, BacklogSize <- 1, MaxWrites <- 2, Scenarios <- ReplicationScenarios,
  node <- rNode, disk <- rDisk, ids <- rIds, writes <- rWrites, waiting <- rWaiting,
  admin <- rAdmin, budget <- rBudget

Sym == Permutations({r1, r2}) \cup Permutations({s1, s2})

-----------------------------------------------------------------------------
(* The scenarios of the part that runs; the others stay in one state. *)
MCInit ==
  /\ which \in {"replication", "sentinel", "cluster"}
  /\ Re!Init /\ Init /\ Cl!Init
  /\ which # "replication" =>
       [hosts |-> [n \in Servers |-> rNode[n].host], admin |-> rAdmin, budget |-> rBudget]
         = CHOOSE x \in ReplicationScenarios : TRUE
  /\ which # "sentinel" =>
       LET x == CHOOSE y \in SentinelScenarios : TRUE
       IN  budget = x.budget /\ starts = x.starts /\ \A s \in Sentinels : sentinel[s].sdown = x.down
  /\ which # "cluster" =>
       LET x == CHOOSE y \in ClusterScenarios : TRUE IN cBudget = x.budget /\ cUp = x.up

MCNext ==
  /\ UNCHANGED which
  /\ \/ which = "replication" /\ Re!Next /\ UNCHANGED <<vars, cluster>>
     \/ which = "sentinel" /\ Next /\ UNCHANGED <<replication, cluster>>
     \/ which = "cluster" /\ Cl!Next /\ UNCHANGED <<replication, vars>>

MCSpec == MCInit /\ [][MCNext]_<<which, replication, vars, cluster>>

-----------------------------------------------------------------------------
(* The properties of Sentinel, and of the elections of the cluster, are    *)
(* those of RedisHA; those of the other parts are named for the            *)
(* configuration, and each is stated and explained in its own module.      *)

(* An attached replica gets exactly the data set of its host. *)
ReplicasConverge == which = "replication" => Re!ReplicasConverge

(* A replication ID and an offset name one data set. *)
SameHistory == which = "replication" => Re!SameHistory

(* WAIT answers only when that many replicas have the write. *)
WaitHonest == Re!WaitHonest

(* A coordinated failover that completes loses no write. *)
FailoverLosesNothing == Re!FailoverLosesNothing

(* When every message has arrived the nodes agree on the slots. *)
Convergence == which = "cluster" => Cl!Convergence

=============================================================================
