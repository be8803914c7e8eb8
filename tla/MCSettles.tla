------------------------------- MODULE MCSettles -------------------------------
(***************************************************************************)
(* DistributedOrchestrator for TLC, twice over one set of variables: in a  *)
(* behaviour either executions throw while each node overlaps two jobs, or *)
(* a node crashes, under the health checks and failover handlers of the    *)
(* others. The second activity of a node, a2, is a job in the one and a    *)
(* health check in the other, which no property tells apart. "which" names *)
(* the instance.                                                           *)
(***************************************************************************)
EXTENDS DistributedOrchestrator, TLC

CONSTANTS j1, a2

VARIABLE which

Times(fault, n) == {[f \in Faults |-> IF f = fault THEN n ELSE 0]}

Throws == Times("throw", 3)

Cr == INSTANCE DistributedOrchestrator WITH
  Jobs <- {j1}, Monitors <- {a2}, MaxRetries <- 3, Budgets <- Times("crash", 1)

MCInit == (which = "crash" /\ Cr!Init) \/ (which = "throws" /\ Init)

MCNext ==
  /\ UNCHANGED which
  /\ (which = "crash" /\ Cr!Next) \/ (which = "throws" /\ Next)

MCSpec ==
  /\ MCInit /\ [][MCNext]_<<which, vars>>
  /\ which = "crash" => Cr!Fairness
  /\ which = "throws" => Fairness

=============================================================================
