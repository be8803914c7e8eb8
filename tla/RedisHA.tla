-------------------------------- MODULE RedisHA --------------------------------
(***************************************************************************)
(* The two ways in which Redis replaces a failed master, side by side:     *)
(* Sentinel, whose names are those of its module, and Redis Cluster. They  *)
(* share no state; a module that checks or proves something of them        *)
(* extends this one.                                                       *)
(***************************************************************************)
EXTENDS Sentinel

CONSTANTS Nodes, MasterOf, ClusterScenarios

VARIABLES cNode, cDisk, cNet, cBudget, cUp, cCast, cWon, cOrderly, cPunctual

Cl == INSTANCE Cluster WITH
  Scenarios <- ClusterScenarios,
  node <- cNode, disk <- cDisk, net <- cNet, budget <- cBudget, up <- cUp, cast <- cCast,
  won <- cWon, orderly <- cOrderly, punctual <- cPunctual

ClusterEvents ==
  {"delay", "late", "retry", "election", "bump", "manual", "takeover", "clear", "fail", "restart"}

(* Node IDs are numbers, which are never the null pointer; a node follows  *)
(* a node of the cluster. Of the bounds, that they are numbers.            *)
ASSUME ClusterAssumption ==
  /\ Nodes \subseteq Nat /\ Nodes # {} /\ IsFiniteSet(Nodes)
  /\ MasterOf \in [Nodes -> Nodes]
  /\ Nobody \notin Nodes
  /\ \A c \in ClusterScenarios : c.budget \in [ClusterEvents -> Nat] /\ c.fail \subseteq Nodes

(* No two replicas win an election of the same epoch: see Cluster. *)
OneWinnerPerEpoch == Cl!OneWinnerPerEpoch

=============================================================================
