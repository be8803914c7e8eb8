---------------------- MODULE MCDistributedOrchestrator ----------------------
(* Instances of DistributedOrchestrator for TLC. *)
EXTENDS DistributedOrchestrator, TLC

NoFaults == [f \in Faults |-> 0]

Once(fs) == [f \in Faults |-> IF f \in fs THEN 1 ELSE 0]

ThrowAndCrash == {Once({"throw", "crash"})}
CrashAndRestart == {Once({"crash", "restart"})}

(* What happens to a task while it is executed, or to the cluster around   *)
(* it, one kind of trouble at a time.                                      *)
ClusterFaults ==
  {Once({"throw", "redis", "claimTTL", "taskTTL", "crash"}), Once({"throw", "resubmit"}),
   Once({"shutdown", "restart"}), Once({"slow", "lost"}), Once({"priority"}),
   [NoFaults EXCEPT !["rebalance"] = 2]}

NodeSymmetry == Permutations(Nodes)

=============================================================================
