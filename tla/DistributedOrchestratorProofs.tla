-------------------- MODULE DistributedOrchestratorProofs --------------------
(***************************************************************************)
(* Proofs about DistributedOrchestrator, for any number of nodes, tasks    *)
(* and overlapping activities and for any number of faults of every kind.  *)
(***************************************************************************)
EXTENDS DistributedOrchestrator, FiniteSetTheorems, TLAPS

(* A leaf that needs arithmetic, or much of set theory, names its prover. *)
USE ZenonT(20)

(* The awaits at which an activity works for a task. *)
WithTask == {"begin", "load", "run", "publish", "end", "unclaim", "priority"}
              \cup SharedPCs

(* What holds of the activity f in slot i at each of its awaits. *)
FiberInv(f, i) ==
  /\ f.pc \in WithTask => f.task \in Tasks
  /\ f.pc = "requeueSet" => f.data \in TaskData /\ f.data.retryCount < MaxRetries
  /\ f.op \in {"processing", "completed"} => f.pc \in {"statusGet", "statusSet"} /\ i \in Jobs
  /\ i \notin Jobs => f.pc \notin JobPCs

FiberOK == \A n \in Nodes : \A i \in Slots : FiberInv(fiber[n][i], i)

(* The inductive invariant. TypeOK needs LoadCountsJobs for currentLoad to *)
(* stay a natural number, and FiberOK for the retry counts to stay within  *)
(* their bound; LoadCountsJobs needs FiberOK to know which jobs count.     *)
IInv == TypeOK /\ FiberOK /\ LoadCountsJobs

Weight(f) == IF f.pc \in Loaded THEN 1 ELSE 0

-----------------------------------------------------------------------------
(* The jobs that count are finitely many. *)
LEMMA ExecutingFinite ==
  ASSUME NEW n \in Nodes
  PROVE  /\ IsFiniteSet(Executing(n)) /\ IsFiniteSet(Executing(n)')
         /\ Cardinality(Executing(n)) \in Nat /\ Cardinality(Executing(n)') \in Nat
<1>1. Executing(n) \subseteq Jobs /\ Executing(n)' \subseteq Jobs
  BY DEF Executing
<1>2. QED
  BY <1>1, FS_Subset, FS_CardinalityType, ConstantsAssumption

(* An activity that moves keeps the other activities as they are. *)
LEMMA BecomeFiber ==
  ASSUME TypeOK, NEW n \in Nodes, NEW i \in Slots, NEW f \in Fiber, Become(n, i, f)
  PROVE  /\ fiber' \in [Nodes -> [Slots -> Fiber]]
         /\ \A m \in Nodes : \A j \in Slots :
              fiber'[m][j] = IF m = n /\ j = i THEN f ELSE fiber[m][j]
  BY DEF TypeOK, Become

(* How a move of one activity changes the number of executing jobs. *)
LEMMA BecomeExecuting ==
  ASSUME TypeOK, NEW n \in Nodes, NEW i \in Slots, NEW f \in Fiber, Become(n, i, f)
  PROVE  \A m \in Nodes :
           Cardinality(Executing(m)') =
             IF m = n /\ i \in Jobs
             THEN Cardinality(Executing(m)) + Weight(f) - Weight(fiber[n][i])
             ELSE Cardinality(Executing(m))
<1> SUFFICES ASSUME NEW m \in Nodes
             PROVE  Cardinality(Executing(m)') =
                      IF m = n /\ i \in Jobs
                      THEN Cardinality(Executing(m)) + Weight(f) - Weight(fiber[n][i])
                      ELSE Cardinality(Executing(m))
  OBVIOUS
<1>1. \A j \in Slots : fiber'[m][j] = IF m = n /\ j = i THEN f ELSE fiber[m][j]
  BY SMTT(30), BecomeFiber
<1>2. Jobs \subseteq Slots
  BY DEF Slots
<1>3. IsFiniteSet(Executing(m)) /\ Cardinality(Executing(m)) \in Nat
  BY ExecutingFinite
<1>4. CASE ~(m = n /\ i \in Jobs)
  <2>1. Executing(m)' = Executing(m)
    BY <1>1, <1>2, <1>4 DEF Executing
  <2>2. QED
    BY <2>1, <1>4
<1>5. CASE m = n /\ i \in Jobs
  <2>1. CASE f.pc \in Loaded
    <3>1. Executing(m)' = Executing(m) \cup {i}
      BY <1>1, <1>2, <1>5, <2>1 DEF Executing
    <3>2. i \in Executing(m) <=> fiber[n][i].pc \in Loaded
      BY <1>5 DEF Executing
    <3>3. Cardinality(Executing(m)') =
            IF i \in Executing(m) THEN Cardinality(Executing(m))
                                  ELSE Cardinality(Executing(m)) + 1
      BY <3>1, <1>3, FS_AddElement
    <3>4. QED
      BY SMTT(30), <3>2, <3>3, <1>3, <1>5, <2>1 DEF Weight
  <2>2. CASE f.pc \notin Loaded
    <3>1. Executing(m)' = Executing(m) \ {i}
      BY <1>1, <1>2, <1>5, <2>2 DEF Executing
    <3>2. i \in Executing(m) <=> fiber[n][i].pc \in Loaded
      BY <1>5 DEF Executing
    <3>3. Cardinality(Executing(m)') =
            IF i \in Executing(m) THEN Cardinality(Executing(m)) - 1
                                  ELSE Cardinality(Executing(m))
      BY <3>1, <1>3, FS_RemoveElement
    <3>4. QED
      BY SMTT(30), <3>2, <3>3, <1>3, <1>5, <2>2 DEF Weight
  <2>3. QED
    BY <2>1, <2>2
<1>6. QED
  BY <1>4, <1>5

(* An activity that moves to an await where FiberInv holds keeps FiberOK. *)
LEMMA BecomeFiberOK ==
  ASSUME TypeOK, FiberOK, NEW n \in Nodes, NEW i \in Slots, NEW f \in Fiber,
         FiberInv(f, i), Become(n, i, f)
  PROVE  FiberOK'
<1>1. \A m \in Nodes : \A j \in Slots :
        fiber'[m][j] = IF m = n /\ j = i THEN f ELSE fiber[m][j]
  BY SMTT(30), BecomeFiber
<1>2. QED
  BY SMTT(30), <1>1 DEF FiberOK, FiberInv

(* A move that neither starts nor ends an execution keeps the accounts. *)
LEMMA SameLoad ==
  ASSUME TypeOK, LoadCountsJobs, NEW n \in Nodes, NEW i \in Slots, NEW f \in Fiber,
         Become(n, i, f), i \in Jobs => Weight(f) = Weight(fiber[n][i]),
         UNCHANGED <<currentLoad, leaked>>
  PROVE  LoadCountsJobs'
<1>1. \A m \in Nodes : Cardinality(Executing(m)') = Cardinality(Executing(m))
  <2>1. Weight(f) \in Int /\ Weight(fiber[n][i]) \in Int
    BY SMTT(30) DEF Weight
  <2>2. \A m \in Nodes : Cardinality(Executing(m)) \in Nat
    BY ExecutingFinite
  <2>3. QED
    BY SMTT(30), <2>1, <2>2, BecomeExecuting
<1>2. QED
  BY <1>1 DEF LoadCountsJobs

(* The finally block takes one execution off the account; there is one to  *)
(* take off, so currentLoad stays a natural number.                        *)
LEMMA FinallyLoad ==
  ASSUME IInv, NEW n \in Nodes, NEW i \in Jobs, fiber[n][i].pc \in Loaded,
         Finally(n, i), UNCHANGED leaked
  PROVE  /\ fiber' \in [Nodes -> [Slots -> Fiber]]
         /\ currentLoad' \in [Nodes -> Nat]
         /\ FiberOK' /\ LoadCountsJobs'
<1> DEFINE f == [Idle EXCEPT !.pc = "end", !.task = fiber[n][i].task]
<1>1. i \in Slots
  BY DEF Slots
<1>2. fiber[n][i] \in Fiber /\ FiberInv(fiber[n][i], i)
  BY <1>1 DEF IInv, TypeOK, FiberOK
<1>3. fiber[n][i].task \in Tasks
  BY <1>2 DEF FiberInv, Loaded, WithTask, SharedPCs
<1>4. f \in Fiber
  BY <1>3 DEF Idle, Fiber, JobPCs
<1>5. FiberInv(f, i)
  BY <1>3 DEF FiberInv, Idle
<1>6. Become(n, i, f)
  BY DEF Finally
<1>7. fiber' \in [Nodes -> [Slots -> Fiber]] /\ FiberOK'
  BY <1>1, <1>4, <1>5, <1>6, BecomeFiber, BecomeFiberOK DEF IInv
<1>8. Weight(f) = 0 /\ Weight(fiber[n][i]) = 1
  BY DEF Weight, Loaded, SharedPCs, Idle
<1>9. \A m \in Nodes : Cardinality(Executing(m)') =
        IF m = n THEN Cardinality(Executing(m)) - 1 ELSE Cardinality(Executing(m))
  <2>1. \A m \in Nodes : Cardinality(Executing(m)) \in Nat
    BY ExecutingFinite
  <2>2. \A m \in Nodes : Cardinality(Executing(m)') =
          IF m = n /\ i \in Jobs
          THEN Cardinality(Executing(m)) + Weight(f) - Weight(fiber[n][i])
          ELSE Cardinality(Executing(m))
    BY <1>1, <1>4, <1>6, BecomeExecuting DEF IInv
  <2>3. QED
    BY SMTT(30), <2>1, <2>2, <1>8
<1>10. \A m \in Nodes : /\ Cardinality(Executing(m)) \in Nat
                        /\ Cardinality(Executing(m)') \in Nat
                        /\ leaked[m] \in Nat /\ currentLoad[m] \in Nat
  BY ExecutingFinite DEF IInv, TypeOK
<1>11. currentLoad' = [currentLoad EXCEPT ![n] = @ - 1] /\ currentLoad \in [Nodes -> Nat]
  BY DEF Finally, IInv, TypeOK
<1>12. \A m \in Nodes : currentLoad'[m] = Cardinality(Executing(m)') + leaked[m]
  BY SMTT(30), <1>9, <1>10, <1>11 DEF IInv, LoadCountsJobs
<1>13. currentLoad' \in [Nodes -> Nat]
  BY SMTT(30), <1>10, <1>11, <1>12
<1>14. LoadCountsJobs'
  BY <1>12 DEF LoadCountsJobs
<1>15. QED
  BY <1>7, <1>13, <1>14

-----------------------------------------------------------------------------
(* Moves that leave the accounts alone, in the form the actions use. *)
LEMMA QuietStep ==
  ASSUME IInv, NEW n \in Nodes, NEW i \in Slots, NEW f \in Fiber, FiberInv(f, i),
         Become(n, i, f), i \in Jobs => (f.pc \in Loaded <=> fiber[n][i].pc \in Loaded),
         UNCHANGED <<currentLoad, leaked>>
  PROVE  fiber' \in [Nodes -> [Slots -> Fiber]] /\ FiberOK' /\ LoadCountsJobs'
<1>1. i \in Jobs => Weight(f) = Weight(fiber[n][i])
  BY DEF Weight
<1>2. QED
  BY <1>1, BecomeFiber, BecomeFiberOK, SameLoad DEF IInv

LEMMA FiberAt ==
  ASSUME IInv, NEW n \in Nodes, NEW i \in Slots
  PROVE  fiber[n][i] \in Fiber /\ FiberInv(fiber[n][i], i)
  BY DEF IInv, TypeOK, FiberOK

LEMMA IdleOK ==
  /\ Idle \in Fiber /\ Idle.pc \notin Loaded
  /\ \A i \in Slots : FiberInv(Idle, i)
  BY DEF Idle, Fiber, FiberInv, Loaded, SharedPCs, WithTask, JobPCs

-----------------------------------------------------------------------------
(* Steps of a job. *)

LEMMA ProcessNextTaskInv ==
  ASSUME IInv, NEW n \in Nodes, NEW i \in Jobs, ProcessNextTask(n, i)
  PROVE  IInv'
<1> DEFINE f == [fiber[n][i] EXCEPT !.pc = "claim"]
<1>1. i \in Slots
  BY DEF Slots
<1>2. fiber[n][i] \in Fiber /\ FiberInv(fiber[n][i], i) /\ fiber[n][i].pc = "idle"
  BY <1>1, FiberAt DEF ProcessNextTask, At
<1>3. f \in Fiber /\ FiberInv(f, i) /\ f.pc = "claim"
  BY <1>2 DEF Fiber, FiberInv, JobPCs, WithTask, SharedPCs
<1>4. Become(n, i, f) /\ UNCHANGED <<currentLoad, leaked>>
  BY DEF ProcessNextTask, Goto, OnlyFiber
<1>5. fiber' \in [Nodes -> [Slots -> Fiber]] /\ FiberOK' /\ LoadCountsJobs'
  BY <1>1, <1>2, <1>3, <1>4, QuietStep, ZenonT(30) DEF Loaded, SharedPCs
<1>6. TypeOK'
  BY SMTT(30), <1>5 DEF IInv, TypeOK, ProcessNextTask, OnlyFiber, redis
<1>7. QED
  BY <1>5, <1>6 DEF IInv

LEMMA ClaimTaskInv ==
  ASSUME IInv, NEW n \in Nodes, NEW i \in Jobs, ClaimTask(n, i)
  PROVE  IInv'
<1>1. i \in Slots
  BY DEF Slots
<1>2. fiber[n][i] \in Fiber /\ FiberInv(fiber[n][i], i) /\ fiber[n][i].pc = "claim"
  BY <1>1, FiberAt, ZenonT(30) DEF ClaimTask, At
<1>3. CASE Become(n, i, Idle) /\ UNCHANGED <<queue, claim, claimed, currentLoad>>
  <2>1. fiber' \in [Nodes -> [Slots -> Fiber]] /\ FiberOK' /\ LoadCountsJobs'
    BY <1>1, <1>2, <1>3, IdleOK, QuietStep, ZenonT(30) DEF ClaimTask, Unchanged_Local, Loaded, SharedPCs
  <2>2. TypeOK'
    BY <1>3, <2>1 DEF IInv, TypeOK, ClaimTask, Unchanged_Local, Unchanged_Cluster
  <2>3. QED
    BY <2>1, <2>2 DEF IInv
<1>4. ASSUME NEW t \in queue,
             queue' = Popped(t),
             claim' = [claim EXCEPT ![t] = n],
             claimed' = [claimed EXCEPT ![t] = @ + 1],
             currentLoad' = [currentLoad EXCEPT ![n] = @ + 1],
             Become(n, i, [Idle EXCEPT !.pc = "begin", !.task = t])
      PROVE  IInv'
  <2> DEFINE f == [Idle EXCEPT !.pc = "begin", !.task = t]
  <2>1. t \in Tasks
    BY DEF IInv, TypeOK
  <2>2. f \in Fiber /\ FiberInv(f, i)
    BY <2>1 DEF Idle, Fiber, FiberInv, JobPCs
  <2>3. Weight(f) = 1 /\ Weight(fiber[n][i]) = 0
    BY <1>2 DEF Weight, Idle, Loaded, SharedPCs
  <2>4. Become(n, i, f)
    BY <1>4
  <2>5. fiber' \in [Nodes -> [Slots -> Fiber]] /\ FiberOK'
    BY <1>1, <2>2, <2>4, BecomeFiber, BecomeFiberOK DEF IInv
  <2>6. \A m \in Nodes : Cardinality(Executing(m)') =
          IF m = n /\ i \in Jobs
          THEN Cardinality(Executing(m)) + Weight(f) - Weight(fiber[n][i])
          ELSE Cardinality(Executing(m))
    BY <1>1, <2>2, <2>4, BecomeExecuting DEF IInv
  <2>7. \A m \in Nodes : Cardinality(Executing(m)) \in Nat /\ leaked[m] \in Nat
    BY ExecutingFinite DEF IInv, TypeOK
  <2>8. currentLoad \in [Nodes -> Nat] /\ leaked' = leaked
    BY DEF IInv, TypeOK, ClaimTask, Unchanged_Local
  <2>9. LoadCountsJobs'
    BY SMTT(30), <1>4, <2>3, <2>6, <2>7, <2>8 DEF IInv, LoadCountsJobs
  <2>10. TypeOK'
    <3>1. UNCHANGED <<store, enqueued, nodeKey, nodesActive, inbox, phase, maxConcurrency,
                      budget, leaked>>
      BY DEF ClaimTask, Unchanged_Local, Unchanged_Cluster
    <3>2. queue' \in SUBSET Tasks /\ claim' \in [Tasks -> Nodes \cup {None}]
      BY <1>4, <2>1 DEF IInv, TypeOK, Popped
    <3>3. claimed' \in [Tasks -> Nat] /\ currentLoad' \in [Nodes -> Nat]
      BY SMTT(30), <1>4, <2>1 DEF IInv, TypeOK
    <3>4. QED
      BY <3>1, <3>2, <3>3, <2>5, SMTT(30) DEF IInv, TypeOK
  <2>11. QED
    BY <2>5, <2>9, <2>10 DEF IInv
<1>5. QED
  BY <1>3, <1>4 DEF ClaimTask

LEMMA LoadTaskInv ==
  ASSUME IInv, NEW n \in Nodes, NEW i \in Jobs, LoadTask(n, i)
  PROVE  IInv'
<1>1. i \in Slots
  BY DEF Slots
<1>2. fiber[n][i] \in Fiber /\ FiberInv(fiber[n][i], i) /\ fiber[n][i].pc = "load"
  BY <1>1, FiberAt DEF LoadTask, At
<1>3. PICK op \in {"failed", "processing"} : Become(n, i, UpdateStatus(fiber[n][i], op))
  BY DEF LoadTask
<1> DEFINE f == UpdateStatus(fiber[n][i], op)
<1>4. f \in Fiber /\ FiberInv(f, i) /\ f.pc = "statusGet"
  BY <1>2 DEF UpdateStatus, Fiber, FiberInv, JobPCs, WithTask, SharedPCs
<1>5. fiber' \in [Nodes -> [Slots -> Fiber]] /\ FiberOK' /\ LoadCountsJobs'
  BY <1>1, <1>2, <1>3, <1>4, QuietStep DEF LoadTask, OnlyFiber, Loaded, SharedPCs
<1>6. TypeOK'
  BY <1>5 DEF IInv, TypeOK, LoadTask, OnlyFiber, redis
<1>7. QED
  BY <1>5, <1>6 DEF IInv

LEMMA SpendOK ==
  ASSUME TypeOK, NEW fault \in Faults, Spend(fault)
  PROVE  budget' \in [Faults -> Nat]
  BY SMTT(30) DEF TypeOK, Spend

LEMMA ExecuteInv ==
  ASSUME IInv, NEW n \in Nodes, NEW i \in Jobs, Execute(n, i)
  PROVE  IInv'
<1>1. i \in Slots
  BY DEF Slots
<1>2. fiber[n][i] \in Fiber /\ FiberInv(fiber[n][i], i) /\ fiber[n][i].pc = "run"
  BY <1>1, FiberAt DEF Execute, At
<1>3. budget' \in [Faults -> Nat]
  BY SpendOK DEF Execute, Faults, IInv, TypeOK
<1>4. PICK f : /\ Become(n, i, f)
               /\ \/ \E r \in {"success", "failure"} :
                       f = [UpdateStatus(fiber[n][i], "completed") EXCEPT !.result = r]
                  \/ f = UpdateStatus(fiber[n][i], "failed")
  BY DEF Execute
<1>5. f \in Fiber /\ FiberInv(f, i) /\ f.pc = "statusGet"
  BY <1>2, <1>4 DEF UpdateStatus, Fiber, FiberInv, JobPCs, WithTask, SharedPCs
<1>6. fiber' \in [Nodes -> [Slots -> Fiber]] /\ FiberOK' /\ LoadCountsJobs'
  BY <1>1, <1>2, <1>4, <1>5, QuietStep DEF Execute, Loaded, SharedPCs
<1>7. TypeOK'
  BY <1>3, <1>6 DEF IInv, TypeOK, Execute, Unchanged_Queue, Unchanged_Cluster
<1>8. QED
  BY <1>6, <1>7 DEF IInv

LEMMA PublishCompletedInv ==
  ASSUME IInv, NEW n \in Nodes, NEW i \in Jobs, PublishCompleted(n, i)
  PROVE  IInv'
<1>1. fiber[n][i].pc \in Loaded /\ Finally(n, i) /\ UNCHANGED leaked
  BY DEF PublishCompleted, At, Loaded, Unchanged_Local
<1>2. /\ fiber' \in [Nodes -> [Slots -> Fiber]] /\ currentLoad' \in [Nodes -> Nat]
      /\ FiberOK' /\ LoadCountsJobs'
  BY <1>1, FinallyLoad
<1>3. TypeOK'
  BY <1>2 DEF IInv, TypeOK, PublishCompleted, Unchanged_Queue, Unchanged_Cluster, Unchanged_Local
<1>4. QED
  BY <1>2, <1>3 DEF IInv

LEMMA ReleaseClaimInv ==
  ASSUME IInv, NEW n \in Nodes, NEW i \in Jobs, ReleaseClaim(n, i)
  PROVE  IInv'
<1>1. i \in Slots /\ fiber[n][i].pc = "unclaim"
  BY DEF Slots, ReleaseClaim, At
<1>2. fiber' \in [Nodes -> [Slots -> Fiber]] /\ FiberOK' /\ LoadCountsJobs'
  BY <1>1, IdleOK, QuietStep DEF ReleaseClaim, Unchanged_Local, Loaded, SharedPCs
<1>3. TypeOK'
  BY <1>2 DEF IInv, TypeOK, ReleaseClaim, Unchanged_Cluster, Unchanged_Local
<1>4. QED
  BY <1>2, <1>3 DEF IInv

-----------------------------------------------------------------------------
(* Steps that jobs, health checks and message handlers share. *)

LEMMA UpdateNodeStatusInv ==
  ASSUME IInv, NEW n \in Nodes, NEW i \in Slots, UpdateNodeStatus(n, i)
  PROVE  IInv'
<1> DEFINE f == [fiber[n][i] EXCEPT !.pc = AfterHeartbeat(fiber[n][i].pc)]
<1>1. fiber[n][i] \in Fiber /\ FiberInv(fiber[n][i], i)
  BY FiberAt
<1>2. fiber[n][i].pc \in {"begin", "end", "beat", "rebalanced"}
  BY DEF UpdateNodeStatus
<1>3. /\ f \in Fiber /\ FiberInv(f, i)
      /\ i \in Jobs => (f.pc \in Loaded <=> fiber[n][i].pc \in Loaded)
  <2>1. CASE fiber[n][i].pc = "begin"
    BY <1>1, <2>1 DEF AfterHeartbeat, Fiber, FiberInv, JobPCs, WithTask, SharedPCs, Loaded
  <2>2. CASE fiber[n][i].pc = "end"
    BY <1>1, <2>2 DEF AfterHeartbeat, Fiber, FiberInv, JobPCs, WithTask, SharedPCs, Loaded
  <2>3. CASE fiber[n][i].pc = "beat"
    BY SMTT(30), <1>1, <2>3 DEF AfterHeartbeat, Fiber, FiberInv, JobPCs, MonitorPCs, WithTask, SharedPCs,
                      Loaded
  <2>4. CASE fiber[n][i].pc = "rebalanced"
    BY SMTT(30), <1>1, <2>4 DEF AfterHeartbeat, Fiber, FiberInv, JobPCs, WithTask, SharedPCs, Loaded
  <2>5. QED
    BY <1>2, <2>1, <2>2, <2>3, <2>4
<1>4. fiber' \in [Nodes -> [Slots -> Fiber]] /\ FiberOK' /\ LoadCountsJobs'
  BY <1>3, QuietStep DEF UpdateNodeStatus, Goto, Unchanged_Local
<1>5. TypeOK'
  BY <1>4 DEF IInv, TypeOK, UpdateNodeStatus, Unchanged_Queue, Unchanged_Local
<1>6. QED
  BY <1>4, <1>5 DEF IInv

(* What AfterRequeue does to the node's memory. *)
LEMMA AfterRequeueOK ==
  ASSUME IInv, NEW n \in Nodes, NEW i \in Slots, fiber[n][i].pc \in SharedPCs,
         AfterRequeue(n, i), UNCHANGED leaked
  PROVE  /\ fiber' \in [Nodes -> [Slots -> Fiber]]
         /\ currentLoad' \in [Nodes -> Nat]
         /\ FiberOK' /\ LoadCountsJobs'
<1>1. CASE i \in Jobs
  BY <1>1, FinallyLoad DEF AfterRequeue, Loaded
<1>2. CASE i \notin Jobs
  <2> DEFINE f == IF fiber[n][i].todo = {} THEN Idle
                  ELSE [Idle EXCEPT !.pc = "holder", !.node = fiber[n][i].node,
                                    !.todo = fiber[n][i].todo]
  <2>1. fiber[n][i] \in Fiber
    BY FiberAt
  <2>2. f \in Fiber /\ FiberInv(f, i)
    <3>1. CASE fiber[n][i].todo = {}
      BY <3>1, IdleOK
    <3>2. CASE fiber[n][i].todo # {}
      BY <2>1, <3>2, ZenonT(30) DEF Idle, Fiber, FiberInv, HandlerPCs, JobPCs, WithTask, SharedPCs
    <3>3. QED
      BY <3>1, <3>2
  <2>3. Become(n, i, f) /\ UNCHANGED currentLoad
    BY <1>2 DEF AfterRequeue
  <2>4. QED
    BY <1>2, <2>2, <2>3, QuietStep DEF IInv, TypeOK
<1>3. QED
  BY <1>1, <1>2

(* What AfterStatus does to the node's memory. *)
LEMMA AfterStatusOK ==
  ASSUME IInv, NEW n \in Nodes, NEW i \in Slots,
         fiber[n][i].pc \in {"statusGet", "statusSet"},
         AfterStatus(n, i), UNCHANGED leaked
  PROVE  /\ fiber' \in [Nodes -> [Slots -> Fiber]]
         /\ currentLoad' \in [Nodes -> Nat]
         /\ FiberOK' /\ LoadCountsJobs'
<1> DEFINE f(pc) == [fiber[n][i] EXCEPT !.op = "none", !.data = NoData, !.pc = pc]
<1>2. /\ fiber[n][i] \in Fiber /\ FiberInv(fiber[n][i], i)
      /\ fiber[n][i].op \in {"processing", "completed"} => i \in Jobs
  BY FiberAt DEF FiberInv
<1>3. ASSUME NEW pc \in {"run", "publish", "requeueGet"}, i \notin Jobs => pc = "requeueGet",
             Become(n, i, f(pc)), UNCHANGED currentLoad
      PROVE  /\ fiber' \in [Nodes -> [Slots -> Fiber]]
             /\ currentLoad' \in [Nodes -> Nat]
             /\ FiberOK' /\ LoadCountsJobs'
  <2>1. f(pc) \in Fiber /\ FiberInv(f(pc), i) /\ f(pc).pc \in Loaded
    BY <1>2, <1>3, ZenonT(30) DEF Fiber, FiberInv, JobPCs, WithTask, SharedPCs, Loaded
  <2>2. QED
    BY <1>3, <2>1, QuietStep DEF IInv, TypeOK, Loaded, SharedPCs
<1>4. CASE fiber[n][i].op = "processing"
  BY <1>2, <1>3, <1>4 DEF AfterStatus
<1>5. CASE fiber[n][i].op = "completed"
  BY <1>2, <1>3, <1>5 DEF AfterStatus
<1>6. CASE fiber[n][i].op = "failed"
  BY <1>3, <1>6 DEF AfterStatus
<1>7. CASE fiber[n][i].op \notin {"processing", "completed", "failed"}
  <2>1. AfterRequeue(n, i)
    BY <1>7 DEF AfterStatus
  <2>2. QED
    BY <2>1, AfterRequeueOK DEF SharedPCs
<1>8. QED
  BY <1>4, <1>5, <1>6, <1>7

LEMMA UpdateTaskStatusGetInv ==
  ASSUME IInv, NEW n \in Nodes, NEW i \in Slots, UpdateTaskStatusGet(n, i)
  PROVE  IInv'
<1> DEFINE d == store[fiber[n][i].task]
           f == [fiber[n][i] EXCEPT !.pc = "statusSet", !.data = d]
<1>1. fiber[n][i] \in Fiber /\ FiberInv(fiber[n][i], i) /\ fiber[n][i].pc = "statusGet"
  BY FiberAt DEF UpdateTaskStatusGet, At
<1>2. UNCHANGED leaked
  BY DEF UpdateTaskStatusGet, Unchanged_Local
<1>3. /\ fiber' \in [Nodes -> [Slots -> Fiber]] /\ currentLoad' \in [Nodes -> Nat]
      /\ FiberOK' /\ LoadCountsJobs'
  <2>1. CASE d = NoData
    BY <1>1, <1>2, <2>1, AfterStatusOK DEF UpdateTaskStatusGet
  <2>2. CASE d # NoData
    <3>1. Become(n, i, f) /\ UNCHANGED currentLoad
      BY <2>2 DEF UpdateTaskStatusGet
    <3>2. d \in TaskData \cup {NoData}
      BY <1>1 DEF IInv, TypeOK, FiberInv, WithTask, SharedPCs
    <3>3. f \in Fiber /\ FiberInv(f, i) /\ f.pc \in Loaded
      BY <1>1, <3>2 DEF Fiber, FiberInv, JobPCs, WithTask, SharedPCs, Loaded
    <3>4. fiber[n][i].pc \in Loaded
      BY <1>1 DEF Loaded, SharedPCs
    <3>5. fiber' \in [Nodes -> [Slots -> Fiber]] /\ FiberOK' /\ LoadCountsJobs'
      BY <1>2, <3>1, <3>3, <3>4, QuietStep
    <3>6. QED
      BY <3>1, <3>5 DEF IInv, TypeOK
  <2>3. QED
    BY <2>1, <2>2
<1>4. TypeOK'
  BY <1>3 DEF IInv, TypeOK, UpdateTaskStatusGet, Unchanged_Queue, Unchanged_Cluster,
              Unchanged_Local
<1>5. QED
  BY <1>3, <1>4 DEF IInv

LEMMA UpdatedOK ==
  ASSUME NEW f \in Fiber
  PROVE  Updated(f) \in TaskData
<1>1. f.data \in TaskData \cup {NoData} /\ f.result \in {"none", "success", "failure"}
  BY DEF Fiber
<1>2. f.data.retryCount \in 0..MaxRetries /\ f.data.result \in {"none", "success", "failure"}
  BY SMTT(30), <1>1, ConstantsAssumption DEF TaskData, NoData
<1>3. f.data = [status |-> f.data.status, retryCount |-> f.data.retryCount,
                result |-> f.data.result]
  BY <1>1 DEF TaskData, NoData
<1>4. QED
  BY <1>1, <1>2, <1>3 DEF Updated, TaskData

LEMMA UpdateTaskStatusSetInv ==
  ASSUME IInv, NEW n \in Nodes, NEW i \in Slots, UpdateTaskStatusSet(n, i)
  PROVE  IInv'
<1>1. fiber[n][i] \in Fiber /\ FiberInv(fiber[n][i], i) /\ fiber[n][i].pc = "statusSet"
  BY FiberAt DEF UpdateTaskStatusSet, At
<1>2. AfterStatus(n, i) /\ UNCHANGED leaked
  BY DEF UpdateTaskStatusSet, Unchanged_Local
<1>3. /\ fiber' \in [Nodes -> [Slots -> Fiber]] /\ currentLoad' \in [Nodes -> Nat]
      /\ FiberOK' /\ LoadCountsJobs'
  BY <1>1, <1>2, AfterStatusOK
<1>4. store' \in [Tasks -> TaskData \cup {NoData}]
  BY <1>1, UpdatedOK DEF UpdateTaskStatusSet, IInv, TypeOK
<1>5. TypeOK'
  BY <1>3, <1>4 DEF IInv, TypeOK, UpdateTaskStatusSet, Unchanged_Queue, Unchanged_Cluster,
                    Unchanged_Local
<1>6. QED
  BY <1>3, <1>5 DEF IInv

LEMMA RequeueTaskGetInv ==
  ASSUME IInv, NEW n \in Nodes, NEW i \in Slots, RequeueTaskGet(n, i)
  PROVE  IInv'
<1> DEFINE d == store[fiber[n][i].task]
           f == IF MaxRetriesExceeded(d) THEN UpdateStatus(fiber[n][i], "exceeded")
                ELSE [fiber[n][i] EXCEPT !.pc = "requeueSet", !.data = d]
<1>1. fiber[n][i] \in Fiber /\ FiberInv(fiber[n][i], i) /\ fiber[n][i].pc = "requeueGet"
  BY FiberAt DEF RequeueTaskGet, At
<1>2. UNCHANGED leaked
  BY DEF RequeueTaskGet, Unchanged_Local
<1>3. /\ fiber' \in [Nodes -> [Slots -> Fiber]] /\ currentLoad' \in [Nodes -> Nat]
      /\ FiberOK' /\ LoadCountsJobs'
  <2>1. CASE d = NoData
    BY <1>1, <1>2, <2>1, AfterRequeueOK DEF RequeueTaskGet, SharedPCs
  <2>2. CASE d # NoData
    <3>1. Become(n, i, f) /\ UNCHANGED currentLoad
      BY <2>2 DEF RequeueTaskGet
    <3>2. d \in TaskData /\ d.retryCount \in 0..MaxRetries
      BY <1>1, <2>2 DEF IInv, TypeOK, FiberInv, WithTask, SharedPCs, TaskData
    <3>3. f \in Fiber /\ FiberInv(f, i) /\ f.pc \in Loaded
      <4>1. CASE MaxRetriesExceeded(d)
        BY <1>1, <4>1 DEF UpdateStatus, Fiber, FiberInv, JobPCs, WithTask, SharedPCs, Loaded
      <4>2. CASE ~MaxRetriesExceeded(d)
        <5>1. d.retryCount < MaxRetries
          BY SMTT(30), <3>2, <4>2, ConstantsAssumption DEF MaxRetriesExceeded
        <5>2. QED
          BY <1>1, <3>2, <4>2, <5>1 DEF Fiber, FiberInv, JobPCs, WithTask, SharedPCs, Loaded
      <4>3. QED
        BY <4>1, <4>2
    <3>4. QED
      BY <1>1, <1>2, <3>1, <3>3, QuietStep DEF Loaded, SharedPCs, IInv, TypeOK
  <2>3. QED
    BY <2>1, <2>2
<1>4. TypeOK'
  BY <1>3 DEF IInv, TypeOK, RequeueTaskGet, Unchanged_Queue, Unchanged_Cluster, Unchanged_Local
<1>5. QED
  BY <1>3, <1>4 DEF IInv

(* The record requeueTask writes back stays within the retry bound. *)
LEMMA RequeuedOK ==
  ASSUME NEW d \in TaskData, d.retryCount < MaxRetries
  PROVE  [d EXCEPT !.status = "queued", !.retryCount = @ + 1] \in TaskData
<1>1. d.retryCount + 1 \in 0..MaxRetries
  BY SMTT(30), ConstantsAssumption DEF TaskData
<1>2. QED
  BY <1>1 DEF TaskData

LEMMA RequeueTaskSetInv ==
  ASSUME IInv, NEW n \in Nodes, NEW i \in Slots, RequeueTaskSet(n, i)
  PROVE  IInv'
<1> DEFINE f == fiber[n][i]
           d == [f.data EXCEPT !.status = "queued", !.retryCount = @ + 1]
<1>1. f \in Fiber /\ FiberInv(f, i) /\ f.pc = "requeueSet"
  BY FiberAt DEF RequeueTaskSet, At
<1>2. AfterRequeue(n, i) /\ UNCHANGED leaked
  BY DEF RequeueTaskSet, Unchanged_Local
<1>3. /\ fiber' \in [Nodes -> [Slots -> Fiber]] /\ currentLoad' \in [Nodes -> Nat]
      /\ FiberOK' /\ LoadCountsJobs'
  BY <1>1, <1>2, AfterRequeueOK DEF SharedPCs
<1>4. f.task \in Tasks /\ f.data \in TaskData /\ f.data.retryCount < MaxRetries
  BY <1>1 DEF FiberInv, WithTask, SharedPCs
<1>5. d \in TaskData
  BY <1>4, RequeuedOK
<1>6. store' = [store EXCEPT ![f.task] = d] /\ Enqueue(f.task)
  BY DEF RequeueTaskSet
<1>7. store' \in [Tasks -> TaskData \cup {NoData}]
  BY <1>5, <1>6 DEF IInv, TypeOK
<1>8. queue' \in SUBSET Tasks /\ enqueued' \in [Tasks -> Nat]
  BY SMTT(30), <1>4, <1>6 DEF Enqueue, IInv, TypeOK
<1>9. TypeOK'
  BY <1>3, <1>7, <1>8 DEF IInv, TypeOK, RequeueTaskSet, Unchanged_Cluster, Unchanged_Local
<1>10. QED
  BY <1>3, <1>9 DEF IInv

-----------------------------------------------------------------------------
(* Steps of health checks and message handlers. They are no jobs, so the   *)
(* accounts do not see them.                                               *)

LEMMA NotJobs ==
  /\ \A i \in Monitors : i \in Slots /\ i \notin Jobs
  /\ \A i \in Handlers : i \in Slots /\ i \notin Jobs
  BY ConstantsAssumption DEF Slots

LEMMA ProbeOK ==
  ASSUME NEW peers \in SUBSET Nodes, NEW i \in Slots
  PROVE  Probe(peers) \in Fiber /\ FiberInv(Probe(peers), i)
<1>1. CASE peers = {}
  BY <1>1, IdleOK DEF Probe
<1>2. CASE peers # {}
  BY <1>2 DEF Probe, Idle, Fiber, FiberInv, MonitorPCs, JobPCs, WithTask, SharedPCs
<1>3. QED
  BY <1>1, <1>2

(* Publishing keeps the inboxes bags of messages. *)
LEMMA DeliveriesOK ==
  ASSUME TypeOK, NEW m
  PROVE  Deliveries(m) \in [Nodes -> [Messages -> Nat]]
<1>1. \A n \in Nodes : inbox[n] \in [Messages -> Nat]
  BY DEF TypeOK
<1>2. \A n \in Nodes : [inbox[n] EXCEPT ![m] = @ + 1] \in [Messages -> Nat]
  <2>1. CASE m \in Messages
    BY SMTT(30), <1>1, <2>1
  <2>2. CASE m \notin Messages
    BY <1>1, <2>2
  <2>3. QED
    BY <2>1, <2>2
<1>3. QED
  BY <1>1, <1>2 DEF Deliveries

LEMMA MonitorInv ==
  ASSUME IInv, NEW n \in Nodes, NEW i \in Monitors, HealthCheck(n, i) \/ MonitorStep(n, i)
  PROVE  IInv'
<1>1. i \in Slots /\ i \notin Jobs
  BY NotJobs
<1>2. fiber[n][i] \in Fiber /\ FiberInv(fiber[n][i], i)
  BY <1>1, FiberAt
<1>3. CASE HealthCheck(n, i)
  <2> DEFINE f == [fiber[n][i] EXCEPT !.pc = "beat"]
  <2>1. f \in Fiber /\ FiberInv(f, i)
    BY SMTT(30), <1>2, <1>3 DEF HealthCheck, At, Fiber, FiberInv, MonitorPCs, JobPCs, WithTask, SharedPCs
  <2>2. fiber' \in [Nodes -> [Slots -> Fiber]] /\ FiberOK' /\ LoadCountsJobs'
    BY <1>1, <1>3, <2>1, QuietStep DEF HealthCheck, Goto, OnlyFiber
  <2>3. TypeOK'
    BY <1>3, <2>2 DEF IInv, TypeOK, HealthCheck, OnlyFiber, redis
  <2>4. QED
    BY <2>2, <2>3 DEF IInv
<1>4. CASE ListNodes(n, i)
  <2>1. Probe(nodesActive \ {n}) \in Fiber /\ FiberInv(Probe(nodesActive \ {n}), i)
    BY <1>1, ProbeOK, ZenonT(30) DEF IInv, TypeOK
  <2>2. fiber' \in [Nodes -> [Slots -> Fiber]] /\ FiberOK' /\ LoadCountsJobs'
    BY <1>1, <1>4, <2>1, QuietStep DEF ListNodes, OnlyFiber
  <2>3. TypeOK'
    BY <1>4, <2>2 DEF IInv, TypeOK, ListNodes, OnlyFiber, redis
  <2>4. QED
    BY <2>2, <2>3 DEF IInv
<1>5. CASE ProbeNode(n, i)
  <2>1. PICK m \in fiber[n][i].peers :
          Become(n, i, IF m \in nodeKey
                       THEN Probe(fiber[n][i].peers \ {m})
                       ELSE [Idle EXCEPT !.pc = "failNode", !.node = m,
                                         !.peers = fiber[n][i].peers \ {m}])
    BY <1>5 DEF ProbeNode
  <2> DEFINE f == IF m \in nodeKey
                  THEN Probe(fiber[n][i].peers \ {m})
                  ELSE [Idle EXCEPT !.pc = "failNode", !.node = m,
                                    !.peers = fiber[n][i].peers \ {m}]
  <2>2. fiber[n][i].peers \in SUBSET Nodes /\ m \in Nodes
    BY <1>2, <2>1 DEF Fiber
  <2>3. f \in Fiber /\ FiberInv(f, i)
    <3>1. CASE m \in nodeKey
      BY <1>1, <2>2, <3>1, ProbeOK
    <3>2. CASE m \notin nodeKey
      BY <2>2, <3>2, ZenonT(30) DEF Idle, Fiber, FiberInv, MonitorPCs, JobPCs, WithTask, SharedPCs
    <3>3. QED
      BY <3>1, <3>2
  <2>4. fiber' \in [Nodes -> [Slots -> Fiber]] /\ FiberOK' /\ LoadCountsJobs'
    BY <1>1, <1>5, <2>1, <2>3, QuietStep DEF ProbeNode, OnlyFiber
  <2>5. TypeOK'
    BY <1>5, <2>4 DEF IInv, TypeOK, ProbeNode, OnlyFiber, redis
  <2>6. QED
    BY SMTT(30), <2>4, <2>5 DEF IInv
<1>6. CASE HandleNodeFailure(n, i)
  <2>1. Probe(fiber[n][i].peers) \in Fiber /\ FiberInv(Probe(fiber[n][i].peers), i)
    BY <1>1, <1>2, ProbeOK DEF Fiber
  <2>2. fiber' \in [Nodes -> [Slots -> Fiber]] /\ FiberOK' /\ LoadCountsJobs'
    BY <1>1, <1>6, <2>1, QuietStep DEF HandleNodeFailure, Unchanged_Local
  <2>3. inbox' \in [Nodes -> [Messages -> Nat]]
    BY <1>6, DeliveriesOK DEF HandleNodeFailure, IInv
  <2>4. TypeOK'
    BY <1>6, <2>2, <2>3 DEF IInv, TypeOK, HandleNodeFailure, Unchanged_Queue, Unchanged_Local
  <2>5. QED
    BY <2>2, <2>4 DEF IInv
<1>7. QED
  BY <1>3, <1>4, <1>5, <1>6 DEF MonitorStep

LEMMA HandleRedisMessageInv ==
  ASSUME IInv, NEW n \in Nodes, NEW i \in Handlers, HandleRedisMessage(n, i)
  PROVE  IInv'
<1>1. i \in Slots /\ i \notin Jobs
  BY NotJobs
<1>2. PICK m \in Messages, f \in Fiber : Receive(n, m) /\ Become(n, i, f) /\ FiberInv(f, i)
  <2>1. ASSUME NEW x \in Nodes, Receive(n, <<"failover", x>>),
               Become(n, i, IF x = n THEN Idle ELSE [Idle EXCEPT !.pc = "keys", !.node = x])
        PROVE  \E m \in Messages, f \in Fiber :
                 Receive(n, m) /\ Become(n, i, f) /\ FiberInv(f, i)
    <3> DEFINE g == [Idle EXCEPT !.pc = "keys", !.node = x]
    <3>1. <<"failover", x>> \in Messages
      BY DEF Messages
    <3>2. g \in Fiber /\ FiberInv(g, i)
      BY DEF Idle, Fiber, FiberInv, HandlerPCs, JobPCs, WithTask, SharedPCs
    <3>3. QED
      BY <1>1, <2>1, <3>1, <3>2, IdleOK
  <2>2. ASSUME NEW t \in Tasks, Receive(n, <<"priority", t>>),
               Become(n, i, [Idle EXCEPT !.pc = "priority", !.task = t])
        PROVE  \E m \in Messages, f \in Fiber :
                 Receive(n, m) /\ Become(n, i, f) /\ FiberInv(f, i)
    <3> DEFINE g == [Idle EXCEPT !.pc = "priority", !.task = t]
    <3>1. <<"priority", t>> \in Messages
      BY DEF Messages
    <3>2. g \in Fiber /\ FiberInv(g, i)
      BY DEF Idle, Fiber, FiberInv, HandlerPCs, JobPCs, WithTask, SharedPCs
    <3>3. QED
      BY <2>2, <3>1, <3>2
  <2>3. ASSUME Receive(n, <<"rebalance", None>>), Become(n, i, [Idle EXCEPT !.pc = "rebalance"])
        PROVE  \E m \in Messages, f \in Fiber :
                 Receive(n, m) /\ Become(n, i, f) /\ FiberInv(f, i)
    <3> DEFINE g == [Idle EXCEPT !.pc = "rebalance"]
    <3>1. <<"rebalance", None>> \in Messages
      BY DEF Messages
    <3>2. g \in Fiber /\ FiberInv(g, i)
      BY DEF Idle, Fiber, FiberInv, HandlerPCs, JobPCs, WithTask, SharedPCs
    <3>3. QED
      BY <2>3, <3>1, <3>2
  <2>4. QED
    BY <2>1, <2>2, <2>3 DEF HandleRedisMessage
<1>3. fiber' \in [Nodes -> [Slots -> Fiber]] /\ FiberOK' /\ LoadCountsJobs'
  BY <1>1, <1>2, QuietStep DEF HandleRedisMessage, Unchanged_Local
<1>4. inbox' \in [Nodes -> [Messages -> Nat]]
  BY <1>2, SMTT(30) DEF Receive, IInv, TypeOK
<1>5. TypeOK'
  BY <1>3, <1>4 DEF IInv, TypeOK, HandleRedisMessage, Unchanged_Queue, Unchanged_Local
<1>6. QED
  BY <1>3, <1>5 DEF IInv

LEMMA TargetConcurrencyOK ==
  ASSUME TypeOK, NEW n \in Nodes, nodesActive # {}
  PROVE  TargetConcurrency(n) \in Nat \ {0}
<1>1. Cardinality(nodesActive) \in Nat /\ Cardinality(nodesActive) # 0
  <2>1. IsFiniteSet(nodesActive)
    BY FS_Subset, ConstantsAssumption DEF TypeOK
  <2>2. QED
    BY <2>1, FS_CardinalityType, FS_EmptySet
<1>2. maxConcurrency[n] \in Nat
  BY DEF TypeOK
<1>3. maxConcurrency[n] \div Cardinality(nodesActive) \in Int
  BY SMTT(30), <1>1, <1>2
<1>4. QED
  BY SMTT(30), <1>3 DEF TargetConcurrency

LEMMA HandlerInv ==
  ASSUME IInv, NEW n \in Nodes, NEW i \in Handlers, HandlerStep(n, i)
  PROVE  IInv'
<1>1. i \in Slots /\ i \notin Jobs
  BY NotJobs
<1>2. fiber[n][i] \in Fiber /\ FiberInv(fiber[n][i], i)
  BY <1>1, FiberAt
<1>3. CASE ListClaims(n, i)
  <2> DEFINE keys == {t \in Tasks : claim[t] # None}
             f == [fiber[n][i] EXCEPT !.pc = "holder", !.todo = keys]
  <2>1. fiber[n][i].pc = "keys" /\ (Become(n, i, Idle) \/ Become(n, i, f))
    BY <1>3, SMTT(30) DEF ListClaims, At
  <2>2. f \in Fiber /\ FiberInv(f, i)
    BY <1>2, <2>1, ZenonT(30) DEF Fiber, FiberInv, HandlerPCs, JobPCs, WithTask, SharedPCs
  <2>3. fiber' \in [Nodes -> [Slots -> Fiber]] /\ FiberOK' /\ LoadCountsJobs'
    BY <1>1, <1>3, <2>1, <2>2, IdleOK, QuietStep DEF ListClaims, OnlyFiber
  <2>4. TypeOK'
    BY <1>3, <2>3 DEF IInv, TypeOK, ListClaims, OnlyFiber, redis
  <2>5. QED
    BY <2>3, <2>4 DEF IInv
<1>4. CASE CheckHolder(n, i)
  <2>1. PICK t \in fiber[n][i].todo :
          LET f == fiber[n][i]
              g == [f EXCEPT !.todo = f.todo \ {t}]
          IN  \/ Become(n, i, [g EXCEPT !.pc = "requeueGet", !.task = t])
              \/ Become(n, i, Idle) \/ Become(n, i, g)
    BY <1>4 DEF CheckHolder
  <2> DEFINE g == [fiber[n][i] EXCEPT !.todo = fiber[n][i].todo \ {t}]
             h == [g EXCEPT !.pc = "requeueGet", !.task = t]
  <2>2. t \in Tasks /\ fiber[n][i].pc = "holder"
    BY <1>2, <1>4, <2>1 DEF Fiber, CheckHolder, At
  <2>3. g \in Fiber /\ FiberInv(g, i)
    BY SMTT(30), <1>2, <2>2 DEF Fiber, FiberInv, WithTask, SharedPCs
  <2>4. h \in Fiber /\ FiberInv(h, i)
    BY <1>1, <1>2, <2>2, ZenonT(30) DEF Fiber, FiberInv, WithTask, SharedPCs, JobPCs
  <2>5. fiber' \in [Nodes -> [Slots -> Fiber]] /\ FiberOK' /\ LoadCountsJobs'
    BY <1>1, <1>4, <2>1, <2>3, <2>4, IdleOK, QuietStep DEF CheckHolder, OnlyFiber
  <2>6. TypeOK'
    BY <1>4, <2>5 DEF IInv, TypeOK, CheckHolder, OnlyFiber, redis
  <2>7. QED
    BY <2>5, <2>6 DEF IInv
<1>5. CASE HandlePriorityUpdate(n, i)
  <2>1. fiber' \in [Nodes -> [Slots -> Fiber]] /\ FiberOK' /\ LoadCountsJobs'
    BY <1>1, <1>5, IdleOK, QuietStep DEF HandlePriorityUpdate, Unchanged_Local
  <2>2. fiber[n][i].task \in Tasks
    BY <1>2, <1>5 DEF HandlePriorityUpdate, At, FiberInv, WithTask
  <2>3. queue' \in SUBSET Tasks /\ enqueued' \in [Tasks -> Nat]
    BY SMTT(30), <1>5, <2>2 DEF HandlePriorityUpdate, Enqueue, IInv, TypeOK
  <2>4. TypeOK'
    BY <1>5, <2>1, <2>3 DEF IInv, TypeOK, HandlePriorityUpdate, Unchanged_Cluster, Unchanged_Local
  <2>5. QED
    BY <2>1, <2>4 DEF IInv
<1>6. CASE HandleClusterRebalance(n, i)
  <2> DEFINE f == [fiber[n][i] EXCEPT !.pc = "rebalanced"]
  <2>1. fiber[n][i].pc = "rebalance" /\ (Become(n, i, Idle) \/ Become(n, i, f))
    BY <1>6 DEF HandleClusterRebalance, At, Goto
  <2>2. f \in Fiber /\ FiberInv(f, i)
    BY SMTT(30), <1>2, <2>1 DEF Fiber, FiberInv, HandlerPCs, JobPCs, WithTask, SharedPCs
  <2>3. fiber' \in [Nodes -> [Slots -> Fiber]] /\ FiberOK' /\ LoadCountsJobs'
    BY <1>1, <1>6, <2>1, <2>2, IdleOK, QuietStep DEF HandleClusterRebalance
  <2>4. maxConcurrency' \in [Nodes -> Nat \ {0}]
    <3>1. CASE nodesActive = {}
      BY <1>6, <3>1 DEF HandleClusterRebalance, IInv, TypeOK
    <3>2. CASE nodesActive # {}
      BY <1>6, <3>2, TargetConcurrencyOK DEF HandleClusterRebalance, IInv, TypeOK
    <3>3. QED
      BY <3>1, <3>2
  <2>5. TypeOK'
    BY <1>6, <2>3, <2>4 DEF IInv, TypeOK, HandleClusterRebalance, Unchanged_Queue,
                            Unchanged_Cluster
  <2>6. QED
    BY <2>3, <2>5 DEF IInv
<1>7. QED
  BY <1>3, <1>4, <1>5, <1>6 DEF HandlerStep

-----------------------------------------------------------------------------
(* Steps of processes and of the environment. *)

(* What does not touch the activities and the accounts keeps both. *)
LEMMA AccountsKept ==
  ASSUME IInv, UNCHANGED <<currentLoad, fiber, leaked>>
  PROVE  FiberOK' /\ LoadCountsJobs'
<1>1. \A n \in Nodes : Executing(n)' = Executing(n)
  BY DEF Executing
<1>2. QED
  BY <1>1 DEF IInv, FiberOK, LoadCountsJobs

LEMMA HaltOK ==
  ASSUME IInv, NEW n \in Nodes, Halt(n)
  PROVE  /\ fiber' \in [Nodes -> [Slots -> Fiber]] /\ currentLoad' \in [Nodes -> Nat]
         /\ maxConcurrency' \in [Nodes -> Nat \ {0}] /\ leaked' \in [Nodes -> Nat]
         /\ phase' \in [Nodes -> Phases] /\ inbox' \in [Nodes -> [Messages -> Nat]]
         /\ FiberOK' /\ LoadCountsJobs'
<1>1. /\ fiber' \in [Nodes -> [Slots -> Fiber]]
      /\ \A m \in Nodes : \A i \in Slots :
           fiber'[m][i] = IF m = n THEN Idle ELSE fiber[m][i]
  BY IdleOK DEF Halt, IInv, TypeOK
<1>2. FiberOK'
  BY <1>1, IdleOK DEF FiberOK, IInv
<1>3. /\ currentLoad' \in [Nodes -> Nat] /\ maxConcurrency' \in [Nodes -> Nat \ {0}]
      /\ leaked' \in [Nodes -> Nat]
      /\ phase' \in [Nodes -> Phases] /\ inbox' \in [Nodes -> [Messages -> Nat]]
  BY ConstantsAssumption DEF Halt, IInv, TypeOK, Phases, NoMessages
<1>4. Jobs \subseteq Slots
  BY DEF Slots
<1>5. Executing(n)' = {} /\ Cardinality({}) = 0
  BY <1>1, <1>4, IdleOK, FS_EmptySet DEF Executing
<1>6. \A m \in Nodes \ {n} : Executing(m)' = Executing(m)
  BY <1>1, <1>4 DEF Executing
<1>7. currentLoad'[n] = 0 /\ leaked'[n] = 0
  BY DEF Halt, IInv, TypeOK
<1>8. \A m \in Nodes \ {n} : currentLoad'[m] = currentLoad[m] /\ leaked'[m] = leaked[m]
  BY DEF Halt, IInv, TypeOK
<1>9. ASSUME NEW m \in Nodes
      PROVE  currentLoad'[m] = Cardinality(Executing(m)') + leaked'[m]
  <2>1. CASE m = n
    BY SMTT(30), <1>5, <1>7, <2>1
  <2>2. CASE m # n
    BY <1>6, <1>8, <2>2 DEF IInv, LoadCountsJobs
  <2>3. QED
    BY <2>1, <2>2
<1>10. LoadCountsJobs'
  BY <1>9 DEF LoadCountsJobs
<1>11. QED
  BY <1>1, <1>2, <1>3, <1>10

LEMMA LifecycleInv ==
  ASSUME IInv, NEW n \in Nodes, Lifecycle(n)
  PROVE  IInv'
<1>1. CASE RegisterNode(n)
  <2>1. budget' \in [Faults -> Nat]
    BY <1>1, SpendOK DEF RegisterNode, Faults, IInv, TypeOK
  <2>2. TypeOK'
    BY <1>1, <2>1 DEF IInv, TypeOK, RegisterNode, Phases, Unchanged_Queue
  <2>3. QED
    BY <1>1, <2>2, AccountsKept DEF IInv, RegisterNode
<1>2. CASE SubscribeToChannels(n)
  <2>1. TypeOK'
    BY <1>2 DEF IInv, TypeOK, SubscribeToChannels, Phases, redis
  <2>2. QED
    BY <1>2, <2>1, AccountsKept DEF IInv, SubscribeToChannels
<1>3. CASE Started(n)
  <2>1. TypeOK'
    BY <1>3 DEF IInv, TypeOK, Started, Phases, Unchanged_Queue
  <2>2. QED
    BY <1>3, <2>1, AccountsKept DEF IInv, Started
<1>4. CASE Shutdown(n)
  <2>1. budget' \in [Faults -> Nat]
    BY <1>4, SpendOK DEF Shutdown, Faults, IInv
  <2>2. TypeOK'
    BY <1>4, <2>1 DEF IInv, TypeOK, Shutdown, Phases, redis
  <2>3. QED
    BY <1>4, <2>2, AccountsKept DEF IInv, Shutdown
<1>5. CASE UnregisterNode(n)
  <2>1. TypeOK'
    BY <1>5 DEF IInv, TypeOK, UnregisterNode, Phases, Unchanged_Queue
  <2>2. QED
    BY <1>5, <2>1, AccountsKept DEF IInv, UnregisterNode
<1>6. CASE Quit(n)
  <2>1. Halt(n) /\ UNCHANGED <<redis, budget, enqueued, claimed>>
    BY <1>6 DEF Quit
  <2>2. TypeOK'
    BY <2>1, HaltOK DEF IInv, TypeOK, redis
  <2>3. QED
    BY <2>1, <2>2, HaltOK DEF IInv
<1>7. CASE Crash(n)
  <2>1. Halt(n) /\ UNCHANGED <<redis, enqueued, claimed>>
    BY <1>7 DEF Crash
  <2>2. budget' \in [Faults -> Nat]
    BY <1>7, SpendOK DEF Crash, Faults, IInv
  <2>3. TypeOK'
    BY <2>1, <2>2, HaltOK DEF IInv, TypeOK, redis
  <2>4. QED
    BY <2>1, <2>3, HaltOK DEF IInv
<1>8. CASE NodeKeyExpires(n)
  <2>1. budget' \in [Faults -> Nat]
    BY <1>8, SpendOK DEF NodeKeyExpires, Faults, IInv, TypeOK
  <2>2. TypeOK'
    BY <1>8, <2>1 DEF IInv, TypeOK, NodeKeyExpires, Unchanged_Queue
  <2>3. QED
    BY <1>8, <2>2, AccountsKept DEF IInv, NodeKeyExpires
<1>9. QED
  BY <1>1, <1>2, <1>3, <1>4, <1>5, <1>6, <1>7, <1>8 DEF Lifecycle

LEMMA SubmitTaskInv ==
  ASSUME IInv, NEW n \in Nodes, NEW t \in Tasks, SubmitTask(n, t)
  PROVE  IInv'
<1>1. budget' \in [Faults -> Nat]
  BY SpendOK DEF SubmitTask, Faults, IInv, TypeOK
<1>2. store' \in [Tasks -> TaskData \cup {NoData}]
  BY SMTT(30), ConstantsAssumption DEF SubmitTask, TaskData, IInv, TypeOK
<1>3. queue' \in SUBSET Tasks /\ enqueued' \in [Tasks -> Nat]
  BY SMTT(30) DEF SubmitTask, Enqueue, IInv, TypeOK
<1>4. TypeOK'
  BY <1>1, <1>2, <1>3 DEF SubmitTask, IInv, TypeOK, Unchanged_Cluster
<1>5. QED
  BY <1>4, AccountsKept, SMTT(30) DEF SubmitTask, IInv

LEMMA EnvironmentInv ==
  ASSUME IInv, Environment
  PROVE  IInv'
<1>1. ASSUME NEW t \in Tasks, ClaimExpires(t)
      PROVE  IInv'
  <2>1. budget' \in [Faults -> Nat]
    BY <1>1, SpendOK DEF ClaimExpires, Faults, IInv
  <2>2. TypeOK'
    BY <1>1, <2>1 DEF IInv, TypeOK, ClaimExpires
  <2>3. QED
    BY <1>1, <2>2, AccountsKept DEF IInv, ClaimExpires
<1>2. ASSUME NEW t \in Tasks, TaskExpires(t)
      PROVE  IInv'
  <2>1. budget' \in [Faults -> Nat]
    BY <1>2, SpendOK DEF TaskExpires, Faults, IInv
  <2>2. TypeOK'
    BY <1>2, <2>1 DEF IInv, TypeOK, TaskExpires, Unchanged_Queue
  <2>3. QED
    BY <1>2, <2>2, AccountsKept DEF IInv, TaskExpires
<1>3. ASSUME NEW m \in Messages, OperatorPublishes(m)
      PROVE  IInv'
  <2>1. m[1] \in Faults
    BY SMTT(30), <1>3 DEF OperatorPublishes, Messages, Faults
  <2>2. budget' \in [Faults -> Nat] /\ inbox' \in [Nodes -> [Messages -> Nat]]
    BY <1>3, <2>1, SpendOK, DeliveriesOK DEF OperatorPublishes, IInv
  <2>3. TypeOK'
    BY <1>3, <2>2 DEF IInv, TypeOK, OperatorPublishes, redis
  <2>4. QED
    BY <1>3, <2>3, AccountsKept DEF IInv, OperatorPublishes
<1>4. ASSUME NEW m \in Messages, NEW n \in Nodes, LoseMessage(n, m)
      PROVE  IInv'
  <2>1. budget' \in [Faults -> Nat]
    BY <1>4, SpendOK DEF LoseMessage, Faults, IInv
  <2>2. inbox' \in [Nodes -> [Messages -> Nat]]
    BY SMTT(30), <1>4 DEF LoseMessage, Receive, IInv, TypeOK
  <2>3. TypeOK'
    BY <1>4, <2>1, <2>2 DEF IInv, TypeOK, LoseMessage, redis
  <2>4. QED
    BY <1>4, <2>3, AccountsKept DEF IInv, LoseMessage
<1>5. QED
  BY <1>1, <1>2, <1>3, <1>4 DEF Environment

(* A rejected command: the only await whose rejection loses a decrement is *)
(* the one before executeTask's try block, and leaked counts it.           *)
LEMMA RedisErrorInv ==
  ASSUME IInv, NEW n \in Nodes, NEW i \in Slots, RedisError(n, i)
  PROVE  IInv'
<1> DEFINE f == fiber[n][i]
           inTry == f.pc \in {"load", "publish"} \/ f.op \in {"processing", "completed"}
           inCatch == f.pc \in SharedPCs /\ ~inTry
<1>1. f \in Fiber /\ FiberInv(f, i)
  BY FiberAt
<1>2. budget' \in [Faults -> Nat]
  BY SpendOK DEF RedisError, Faults, IInv
<1>3. UNCHANGED <<redis, inbox, phase, maxConcurrency, enqueued, claimed>>
  BY DEF RedisError
<1>4. SUFFICES /\ fiber' \in [Nodes -> [Slots -> Fiber]] /\ currentLoad' \in [Nodes -> Nat]
               /\ leaked' \in [Nodes -> Nat] /\ FiberOK' /\ LoadCountsJobs'
  BY <1>2, <1>3 DEF IInv, TypeOK, redis
<1>5. CASE /\ i \in Jobs /\ inTry
           /\ Become(n, i, UpdateStatus([Idle EXCEPT !.task = f.task], "failed"))
           /\ UNCHANGED <<currentLoad, leaked>>
  <2> DEFINE g == UpdateStatus([Idle EXCEPT !.task = f.task], "failed")
  <2>1. f.pc \in Loaded /\ f.task \in Tasks
    BY <1>1, <1>5 DEF FiberInv, Loaded, SharedPCs, WithTask
  <2>2. g \in Fiber /\ FiberInv(g, i) /\ g.pc \in Loaded
    BY <1>5, <2>1, ZenonT(30) DEF UpdateStatus, Idle, Fiber, FiberInv, SharedPCs, WithTask, JobPCs, Loaded
  <2>3. fiber' \in [Nodes -> [Slots -> Fiber]] /\ FiberOK' /\ LoadCountsJobs'
    BY <1>5, <2>1, <2>2, QuietStep
  <2>4. QED
    BY <1>5, <2>3 DEF IInv, TypeOK
<1>6. CASE i \in Jobs /\ inCatch /\ Finally(n, i) /\ UNCHANGED leaked
  <2>1. f.pc \in Loaded
    BY SMTT(30), <1>6 DEF Loaded
  <2>2. QED
    BY <1>6, <2>1, FinallyLoad DEF IInv, TypeOK
<1>7. CASE /\ i \in Jobs => ~inTry /\ ~inCatch
           /\ Become(n, i, Idle)
           /\ leaked' = [leaked EXCEPT ![n] = IF f.pc = "begin" THEN @ + 1 ELSE @]
           /\ UNCHANGED currentLoad
  <2>1. currentLoad' \in [Nodes -> Nat]
    BY <1>7 DEF IInv, TypeOK
  <2>2. CASE f.pc = "begin"
    <3>1. i \in Jobs
      BY <1>1, <2>2, SMTT(30) DEF FiberInv, JobPCs
    <3>2. fiber' \in [Nodes -> [Slots -> Fiber]] /\ FiberOK'
      BY <1>7, IdleOK, BecomeFiber, BecomeFiberOK DEF IInv
    <3>3. Weight(Idle) = 0 /\ Weight(f) = 1
      BY <2>2, IdleOK, SMTT(30) DEF Weight, Loaded
    <3>4. \A m \in Nodes : Cardinality(Executing(m)') =
            IF m = n /\ i \in Jobs
            THEN Cardinality(Executing(m)) + Weight(Idle) - Weight(f)
            ELSE Cardinality(Executing(m))
      BY <1>7, IdleOK, BecomeExecuting DEF IInv
    <3>5. leaked' = [leaked EXCEPT ![n] = @ + 1] /\ leaked' \in [Nodes -> Nat]
      BY SMTT(30), <1>7, <2>2 DEF IInv, TypeOK
    <3>6. \A m \in Nodes : /\ Cardinality(Executing(m)) \in Nat /\ leaked[m] \in Nat
                           /\ leaked'[m] = IF m = n THEN leaked[m] + 1 ELSE leaked[m]
      BY <3>5, ExecutingFinite, SMTT(30) DEF IInv, TypeOK
    <3>7. LoadCountsJobs'
      BY SMTT(30), <1>7, <3>1, <3>3, <3>4, <3>6 DEF IInv, LoadCountsJobs
    <3>8. QED
      BY <2>1, <3>2, <3>5, <3>7
  <2>3. CASE f.pc # "begin"
    <3>1. leaked' = leaked
      BY <1>7, <2>3 DEF IInv, TypeOK
    <3>2. i \in Jobs => f.pc \notin Loaded
      BY <1>7, <2>3, SMTT(30) DEF Loaded, RedisError, At
    <3>3. fiber' \in [Nodes -> [Slots -> Fiber]] /\ FiberOK' /\ LoadCountsJobs'
      BY <1>7, <3>1, <3>2, IdleOK, QuietStep
    <3>4. QED
      BY <2>1, <3>1, <3>3 DEF IInv, TypeOK
  <2>4. QED
    BY <2>2, <2>3
<1>8. QED
  BY <1>5, <1>6, <1>7 DEF RedisError

-----------------------------------------------------------------------------
LEMMA InitInv == Init => IInv
<1> SUFFICES ASSUME Init PROVE IInv
  OBVIOUS
<1>1. TypeOK
  BY IdleOK, ConstantsAssumption DEF Init, TypeOK, Phases, NoMessages
<1>2. FiberOK
  BY IdleOK DEF Init, FiberOK
<1>3. \A n \in Nodes : Executing(n) = {}
  BY IdleOK DEF Init, Executing, Slots
<1>4. LoadCountsJobs
  <2>1. Cardinality({}) = 0
    BY FS_EmptySet
  <2>2. \A n \in Nodes : currentLoad[n] = 0 /\ leaked[n] = 0
    BY DEF Init
  <2>3. \A n \in Nodes : Cardinality(Executing(n)) = 0
    BY <1>3, <2>1
  <2>4. QED
    BY SMTT(30), <2>2, <2>3 DEF LoadCountsJobs
<1>5. QED
  BY <1>1, <1>2, <1>4 DEF IInv

LEMMA NextInv == IInv /\ [Next]_vars => IInv'
<1> SUFFICES ASSUME IInv, [Next]_vars PROVE IInv'
  OBVIOUS
<1>1. ASSUME NEW n \in Nodes, NEW i \in Jobs, JobStep(n, i)
      PROVE  IInv'
  BY <1>1, ClaimTaskInv, LoadTaskInv, ExecuteInv, PublishCompletedInv, ReleaseClaimInv DEF JobStep
<1>2. ASSUME NEW n \in Nodes, NEW i \in Slots, SharedStep(n, i)
      PROVE  IInv'
  BY SMTT(30), <1>2, UpdateNodeStatusInv, UpdateTaskStatusGetInv, UpdateTaskStatusSetInv,
     RequeueTaskGetInv, RequeueTaskSetInv DEF SharedStep
<1>3. CASE UNCHANGED vars
  BY <1>3, AccountsKept DEF vars, redis, IInv, TypeOK
<1>4. CASE Next
  BY <1>1, <1>2, <1>4, LifecycleInv, SubmitTaskInv, ProcessNextTaskInv, MonitorInv,
     HandleRedisMessageInv, HandlerInv, RedisErrorInv, EnvironmentInv DEF Next
<1>5. QED
  BY <1>3, <1>4

LEMMA Inductive == Spec => []IInv
  BY InitInv, NextInv, PTL DEF Spec

(* Every variable keeps its type. In particular the retry count of a task, *)
(* stored or copied into an activity, never exceeds MaxRetries, whatever   *)
(* crashes, stalls, lost messages and rejected commands happen.            *)
THEOREM TypeCorrect == Spec => []TypeOK
<1>1. IInv => TypeOK
  BY DEF IInv
<1>2. QED
  BY <1>1, Inductive, PTL

(* The load a node reports, and checks against its capacity, is the number *)
(* of tasks it is executing plus the decrements lost to a rejected first   *)
(* heartbeat.                                                              *)
THEOREM LoadAccounting == Spec => []LoadCountsJobs
<1>1. IInv => LoadCountsJobs
  BY SMTT(30) DEF IInv
<1>2. QED
  BY <1>1, Inductive, PTL

-----------------------------------------------------------------------------
(* A step adds a task to the queue, removes it with a claim, or leaves the *)
(* queue and its history alone.                                            *)
LEMMA QueueStep ==
  ASSUME IInv, [Next]_vars
  PROVE  \/ UNCHANGED <<queue, enqueued, claimed>>
         \/ \E t \in Tasks : Enqueue(t) /\ UNCHANGED claimed
         \/ \E t \in queue : /\ queue' = Popped(t) /\ UNCHANGED enqueued
                             /\ claimed' = [claimed EXCEPT ![t] = @ + 1]
<1> DEFINE Goal == \/ UNCHANGED <<queue, enqueued, claimed>>
                   \/ \E t \in Tasks : Enqueue(t) /\ UNCHANGED claimed
                   \/ \E t \in queue : /\ queue' = Popped(t) /\ UNCHANGED enqueued
                                       /\ claimed' = [claimed EXCEPT ![t] = @ + 1]
<1>1. CASE UNCHANGED vars
  BY <1>1, SMTT(30) DEF vars, redis
<1>2. ASSUME NEW n \in Nodes, Lifecycle(n)
      PROVE  Goal
  BY <1>2 DEF Lifecycle, RegisterNode, SubscribeToChannels, Started, Shutdown, UnregisterNode,
              Quit, Crash, NodeKeyExpires, Unchanged_Queue, redis
<1>3. ASSUME NEW n \in Nodes, NEW t \in Tasks, SubmitTask(n, t)
      PROVE  Goal
  BY <1>3, SMTT(30) DEF SubmitTask
<1>4. ASSUME NEW n \in Nodes, NEW i \in Jobs, ProcessNextTask(n, i) \/ JobStep(n, i)
      PROVE  Goal
  BY <1>4, ZenonT(30) DEF ProcessNextTask, JobStep, ClaimTask, LoadTask, Execute, PublishCompleted,
              ReleaseClaim, OnlyFiber, Unchanged_Queue, redis
<1>5. ASSUME NEW n \in Nodes, NEW i \in Monitors, HealthCheck(n, i) \/ MonitorStep(n, i)
      PROVE  Goal
  BY <1>5, ZenonT(30) DEF HealthCheck, MonitorStep, ListNodes, ProbeNode, HandleNodeFailure, OnlyFiber,
              Unchanged_Queue, redis
<1>6. ASSUME NEW n \in Nodes, NEW i \in Handlers, HandleRedisMessage(n, i) \/ HandlerStep(n, i)
      PROVE  Goal
  <2>1. i \in Slots
    BY NotJobs
  <2>2. CASE HandlePriorityUpdate(n, i)
    <3>1. fiber[n][i].task \in Tasks
      BY <2>1, <2>2, FiberAt DEF HandlePriorityUpdate, At, FiberInv, WithTask
    <3>2. QED
      BY <2>2, <3>1, SMTT(30) DEF HandlePriorityUpdate
  <2>3. QED
    BY <1>6, <2>2 DEF HandleRedisMessage, HandlerStep, ListClaims, CheckHolder,
                      HandleClusterRebalance, OnlyFiber, Unchanged_Queue, redis
<1>7. ASSUME NEW n \in Nodes, NEW i \in Slots, SharedStep(n, i) \/ RedisError(n, i)
      PROVE  Goal
  <2>1. CASE RequeueTaskSet(n, i)
    <3>1. fiber[n][i].task \in Tasks
      BY <2>1, FiberAt DEF RequeueTaskSet, At, FiberInv, WithTask, SharedPCs
    <3>2. QED
      BY <2>1, <3>1 DEF RequeueTaskSet
  <2>2. QED
    BY <1>7, <2>1 DEF SharedStep, RedisError, UpdateNodeStatus, UpdateTaskStatusGet,
                      UpdateTaskStatusSet, RequeueTaskGet, Unchanged_Queue, redis
<1>8. CASE Environment
  BY <1>8 DEF Environment, ClaimExpires, TaskExpires, OperatorPublishes, LoseMessage,
              Unchanged_Queue, redis
<1>9. QED
  BY <1>1, <1>2, <1>3, <1>4, <1>5, <1>6, <1>7, <1>8 DEF Next

(* A task is executed at most once for each time it was put in the queue,  *)
(* on any number of nodes and under every fault of the model: executions   *)
(* are duplicated only by putting the task back in the queue.              *)
THEOREM ClaimsBounded == Spec => []ClaimedOncePerEnqueue
<1>1. Init => ClaimedOncePerEnqueue
  BY SMTT(30) DEF Init, ClaimedOncePerEnqueue
<1>2. IInv /\ ClaimedOncePerEnqueue /\ [Next]_vars => ClaimedOncePerEnqueue'
  <2> SUFFICES ASSUME IInv, ClaimedOncePerEnqueue, [Next]_vars
               PROVE  ClaimedOncePerEnqueue'
    OBVIOUS
  <2>1. /\ enqueued \in [Tasks -> Nat] /\ claimed \in [Tasks -> Nat] /\ queue \subseteq Tasks
    BY SMTT(30) DEF IInv, TypeOK
  <2>2. CASE UNCHANGED <<queue, enqueued, claimed>>
    BY <2>2 DEF ClaimedOncePerEnqueue
  <2>3. ASSUME NEW t \in Tasks, Enqueue(t), UNCHANGED claimed
        PROVE  ClaimedOncePerEnqueue'
    BY SMTT(30), <2>1, <2>3 DEF ClaimedOncePerEnqueue, Enqueue
  <2>4. ASSUME NEW t \in queue, queue' = Popped(t), UNCHANGED enqueued,
               claimed' = [claimed EXCEPT ![t] = @ + 1]
        PROVE  ClaimedOncePerEnqueue'
    BY SMTT(30), <2>1, <2>4 DEF ClaimedOncePerEnqueue, Popped
  <2>5. QED
    BY <2>2, <2>3, <2>4, QueueStep
<1>3. QED
  BY <1>1, <1>2, Inductive, PTL DEF Spec

-----------------------------------------------------------------------------
(* A cluster whose nodes are neither lost nor suspected: what a task goes  *)
(* through when only executions, commands, messages and keys fail.         *)

(* Faults that put a task back while it may be executing, or stop a node.  *)
(* A restart needs a node that is down.                                    *)
Disturbances == {"crash", "shutdown", "slow", "resubmit", "priority"}

Never(faults) == \A b \in Budgets : \A f \in faults : b[f] = 0

Spared(faults) == \A f \in faults : budget[f] = 0

(* Where an activity is only after a failure or a priority update. *)
Disturbed == {"failNode", "keys", "holder", "priority"}

CalmFiber(n, i, f) ==
  /\ f.pc \notin Disturbed
  /\ f.pc # "idle" => Running(n)
  /\ f.pc \in Loaded => i \in Jobs
  /\ f.peers \subseteq nodeKey

NoAlarm ==
  \A n \in Nodes : /\ \A m \in Nodes : inbox[n][<<"failover", m>>] = 0
                   /\ \A t \in Tasks : inbox[n][<<"priority", t>>] = 0

(* Every node that has started keeps its key, so no failure is announced   *)
(* and no activity handles one.                                            *)
NodesUp ==
  /\ NoAlarm
  /\ \A n \in Nodes :
       /\ phase[n] \in {"new", "registered", "starting", "active"}
       /\ n \in nodeKey <=> phase[n] # "new"
       /\ n \in nodesActive => n \in nodeKey
       /\ \A i \in Slots : CalmFiber(n, i, fiber[n][i])

Holds(n, i, t) == fiber[n][i].task = t /\ fiber[n][i].pc \in Loaded

(* A task that was submitted is in one place: in the queue, or with one    *)
(* activity.                                                               *)
OnePlace ==
  \A t \in Tasks :
    /\ t \in queue => enqueued[t] > 0
    /\ \A n \in Nodes : \A i \in Slots : Holds(n, i, t) =>
         /\ t \notin queue /\ enqueued[t] > 0
         /\ \A m \in Nodes : \A j \in Slots : Holds(m, j, t) => m = n /\ j = i

CalmInv == Spared(Disturbances) /\ NodesUp /\ OnePlace

(* Where a task is agrees with its status: an unfinished one is somewhere, *)
(* a completed one is at most with the activity that announces it.         *)
StatusAgrees ==
  \A t \in Tasks :
    /\ enqueued[t] = 0 => store[t] = NoData
    /\ store[t].status \in {"queued", "processing"} => t \in queue \/ Handled(t)
    /\ store[t].status = "completed" => t \notin queue
    /\ \A n \in Nodes : \A i \in Slots : Holds(n, i, t) =>
         /\ store[t].status = "completed" => fiber[n][i].pc = "publish"
         /\ fiber[n][i].pc = "publish" => store[t].status \in {"completed", "missing"}

SteadyInv == Spared({"redis"}) /\ StatusAgrees

(* No step gives a fault back. *)
LEMMA StaysSpared ==
  ASSUME IInv, [Next]_vars, NEW faults \in SUBSET Faults, Spared(faults)
  PROVE  Spared(faults)'
<1>1. budget' = budget \/ \E f \in Faults : Spend(f)
  <2>1. CASE UNCHANGED vars
    BY <2>1 DEF vars
  <2>2. ASSUME NEW n \in Nodes, Lifecycle(n)
        PROVE  budget' = budget \/ \E f \in Faults : Spend(f)
    BY <2>2 DEF Lifecycle, RegisterNode, SubscribeToChannels, Started, Shutdown, UnregisterNode, Quit,
                Crash, NodeKeyExpires, Faults
  <2>3. ASSUME NEW n \in Nodes, NEW t \in Tasks, SubmitTask(n, t)
        PROVE  budget' = budget \/ \E f \in Faults : Spend(f)
    BY <2>3 DEF SubmitTask, Faults
  <2>4. ASSUME NEW n \in Nodes, NEW i \in Jobs, ProcessNextTask(n, i) \/ JobStep(n, i)
        PROVE  budget' = budget \/ \E f \in Faults : Spend(f)
    <3>1. CASE ClaimTask(n, i)
      BY <3>1, Zenon DEF ClaimTask, Unchanged_Local
    <3>2. CASE Execute(n, i)
      BY <3>2 DEF Execute, Faults
    <3> QED BY <2>4, <3>1, <3>2 DEF ProcessNextTask, JobStep, LoadTask, PublishCompleted, ReleaseClaim,
                                    OnlyFiber, Unchanged_Local
  <2>5. ASSUME NEW n \in Nodes, NEW i \in Monitors, HealthCheck(n, i) \/ MonitorStep(n, i)
        PROVE  budget' = budget
    <3>1. CASE HandleNodeFailure(n, i)
      BY <3>1, Zenon DEF HandleNodeFailure, Unchanged_Local
    <3> QED BY <2>5, <3>1, Zenon DEF HealthCheck, MonitorStep, ListNodes, ProbeNode, OnlyFiber
  <2>6. ASSUME NEW n \in Nodes, NEW i \in Handlers, HandleRedisMessage(n, i) \/ HandlerStep(n, i)
        PROVE  budget' = budget
    <3>1. CASE HandleRedisMessage(n, i)
      BY <3>1, Zenon DEF HandleRedisMessage, Unchanged_Local
    <3>2. CASE HandlePriorityUpdate(n, i)
      BY <3>2, Zenon DEF HandlePriorityUpdate, Unchanged_Local
    <3>3. CASE ListClaims(n, i) \/ CheckHolder(n, i)
      BY <3>3, Zenon DEF ListClaims, CheckHolder, OnlyFiber
    <3> QED BY <2>6, <3>1, <3>2, <3>3, Zenon DEF HandlerStep, HandleClusterRebalance
  <2>7. ASSUME NEW n \in Nodes, NEW i \in Slots, SharedStep(n, i) \/ RedisError(n, i)
        PROVE  budget' = budget \/ \E f \in Faults : Spend(f)
    BY <2>7 DEF SharedStep, RedisError, UpdateNodeStatus, UpdateTaskStatusGet, UpdateTaskStatusSet,
                RequeueTaskGet, RequeueTaskSet, Unchanged_Local, Faults
  <2>8. CASE Environment
    <3>1. ASSUME NEW m \in Messages, OperatorPublishes(m)
          PROVE  \E f \in Faults : Spend(f)
      BY SMTT(30), <3>1 DEF OperatorPublishes, Messages, Faults
    <3> QED BY <2>8, <3>1 DEF Environment, ClaimExpires, TaskExpires, LoseMessage, Faults
  <2> QED BY <2>1, <2>2, <2>3, <2>4, <2>5, <2>6, <2>7, <2>8 DEF Next
<1>2. budget \in [Faults -> Nat]
  BY DEF IInv, TypeOK
<1> QED BY SMTT(30), <1>1, <1>2 DEF Spared, Spend

LEMMA Moved ==
  ASSUME IInv, NEW n \in Nodes, NEW i \in Slots, NEW f, Become(n, i, f)
  PROVE  \A m \in Nodes : \A j \in Slots :
           fiber'[m][j] = IF m = n /\ j = i THEN f ELSE fiber[m][j]
BY DEF IInv, TypeOK, Become

(* The activity in slot i goes on as f, with the task it had if with any,  *)
(* and touches neither the queue nor the nodes.                            *)
MovesTo(n, i, f) ==
  /\ Become(n, i, f)
  /\ CalmFiber(n, i, f)
  /\ f.pc \in Loaded => fiber[n][i].pc \in Loaded /\ f.task = fiber[n][i].task
  /\ NoAlarm'
  /\ UNCHANGED <<queue, enqueued, phase, nodeKey, nodesActive>>

LEMMA MoveCalm ==
  ASSUME IInv, NodesUp, OnePlace, NEW n \in Nodes, NEW i \in Slots, NEW f, MovesTo(n, i, f)
  PROVE  NodesUp' /\ OnePlace'
<1>1. \A m \in Nodes : \A j \in Slots :
        fiber'[m][j] = IF m = n /\ j = i THEN f ELSE fiber[m][j]
  BY SMTT(30), Moved DEF MovesTo
<1>2. NodesUp'
  BY SMTT(30), <1>1 DEF NodesUp, MovesTo, CalmFiber, Running
<1>3. \A m \in Nodes : \A j \in Slots : \A t \in Tasks : Holds(m, j, t)' => Holds(m, j, t)
  BY <1>1 DEF MovesTo, Holds
<1>4. OnePlace'
  BY SMTT(30), <1>3 DEF OnePlace, MovesTo
<1> QED BY <1>2, <1>4

(* What an activity with a task must respect, when it goes on as f and     *)
(* leaves the stored status alone, for the status to agree.                *)
Proper(n, i, f) ==
  fiber[n][i].pc \in Loaded =>
    /\ f.pc \notin Loaded => store[fiber[n][i].task].status \notin {"queued", "processing"}
    /\ f.pc = "publish" => store[fiber[n][i].task].status = "missing"
    /\ f.pc \in Loaded => fiber[n][i].pc # "publish"

LEMMA MoveSteady ==
  ASSUME IInv, OnePlace, StatusAgrees, NEW n \in Nodes, NEW i \in Slots, NEW f, MovesTo(n, i, f),
         Proper(n, i, f), UNCHANGED store
  PROVE  StatusAgrees'
<1>1. \A m \in Nodes : \A j \in Slots :
        fiber'[m][j] = IF m = n /\ j = i THEN f ELSE fiber[m][j]
  BY SMTT(30), Moved DEF MovesTo
<1>2. UNCHANGED <<store, queue, enqueued>>
  BY DEF MovesTo
<1> SUFFICES ASSUME NEW t \in Tasks
             PROVE  /\ store[t].status \in {"queued", "processing"} => t \in queue \/ Handled(t)'
                    /\ \A m \in Nodes : \A j \in Slots : Holds(m, j, t)' =>
                         /\ store[t].status = "completed" => fiber'[m][j].pc = "publish"
                         /\ fiber'[m][j].pc = "publish" => store[t].status \in {"completed", "missing"}
  BY <1>2 DEF StatusAgrees
<1>3. ASSUME store[t].status \in {"queued", "processing"}, t \notin queue
      PROVE  Handled(t)'
  <2>1. PICK m \in Nodes, j \in Slots : fiber[m][j].task = t /\ fiber[m][j].pc \in Loaded
    BY <1>3 DEF StatusAgrees, Handled
  <2>2. fiber'[m][j].task = t /\ fiber'[m][j].pc \in Loaded
    BY <1>1, <1>3, <2>1 DEF Proper, MovesTo
  <2> QED BY <2>2 DEF Handled
<1>4. ASSUME NEW m \in Nodes, NEW j \in Slots, Holds(m, j, t)'
      PROVE  /\ store[t].status = "completed" => fiber'[m][j].pc = "publish"
             /\ fiber'[m][j].pc = "publish" => store[t].status \in {"completed", "missing"}
  BY SMTT(30), <1>1, <1>4 DEF StatusAgrees, Proper, MovesTo, Holds
<1> QED BY <1>3, <1>4

(* A step of one activity that changes only what it holds in memory. *)
Quiet(n, i) ==
  UNCHANGED store /\ \E f : MovesTo(n, i, f) /\ (StatusAgrees => Proper(n, i, f))

Elsewhere == UNCHANGED <<store, queue, enqueued, inbox, phase, nodeKey, nodesActive>>

LEMMA Goes ==
  ASSUME NodesUp, NEW n \in Nodes, NEW i \in Slots, NEW f, Become(n, i, f),
         f.pc \notin Disturbed, f.pc # "idle" => Running(n), f.peers \subseteq nodeKey,
         f.pc \in Loaded => i \in Jobs /\ fiber[n][i].pc \in Loaded /\ f.task = fiber[n][i].task,
         StatusAgrees => Proper(n, i, f), Elsewhere
  PROVE  Quiet(n, i)
<1>1. NoAlarm'
  BY DEF NodesUp, NoAlarm, Elsewhere
<1>2. MovesTo(n, i, f)
  BY <1>1 DEF MovesTo, CalmFiber, Elsewhere
<1> QED BY <1>2 DEF Quiet, Elsewhere

LEMMA Here ==
  ASSUME IInv, NodesUp, NEW n \in Nodes, NEW i \in Slots
  PROVE  fiber[n][i] \in Fiber /\ FiberInv(fiber[n][i], i) /\ CalmFiber(n, i, fiber[n][i])
BY FiberAt DEF NodesUp

(* What StatusAgrees says of an activity that holds a task. *)
LEMMA HeldStatus ==
  ASSUME IInv, StatusAgrees, NEW n \in Nodes, NEW i \in Slots, fiber[n][i].pc \in Loaded
  PROVE  LET s == store[fiber[n][i].task].status
         IN  /\ s = "completed" => fiber[n][i].pc = "publish"
             /\ fiber[n][i].pc = "publish" => s \in {"completed", "missing"}
<1>1. fiber[n][i].task \in Tasks
  BY FiberAt DEF FiberInv, WithTask, Loaded
<1> QED BY <1>1 DEF StatusAgrees, Holds

LEMMA EndsQuietly ==
  ASSUME IInv, NodesUp, NEW n \in Nodes, NEW i \in Slots, fiber[n][i].pc \in Loaded, Finally(n, i),
         StatusAgrees => store[fiber[n][i].task].status \notin {"queued", "processing"},
         Elsewhere
  PROVE  Quiet(n, i)
<1> DEFINE f == [Idle EXCEPT !.pc = "end", !.task = fiber[n][i].task]
<1>1. f.pc = "end" /\ f.peers = {}
  BY DEF Idle
<1>2. Become(n, i, f)
  BY DEF Finally
<1>3. CalmFiber(n, i, fiber[n][i]) /\ fiber[n][i].pc # "idle"
  BY Here DEF Loaded, SharedPCs
<1> HIDE DEF f
<1>4. StatusAgrees => Proper(n, i, f)
  BY <1>1 DEF Proper, Loaded, SharedPCs
<1> QED BY <1>1, <1>2, <1>3, <1>4, Goes DEF CalmFiber, Disturbed, Loaded, SharedPCs

LEMMA JobQuiet ==
  ASSUME IInv, NodesUp, NEW n \in Nodes, NEW i \in Jobs,
         \/ ProcessNextTask(n, i) \/ LoadTask(n, i) \/ Execute(n, i)
         \/ PublishCompleted(n, i) \/ ReleaseClaim(n, i)
  PROVE  Quiet(n, i)
<1>1. i \in Slots
  BY DEF Slots
<1>2. fiber[n][i] \in Fiber /\ FiberInv(fiber[n][i], i) /\ CalmFiber(n, i, fiber[n][i])
  BY <1>1, Here
<1>3. CASE ProcessNextTask(n, i)
  <2> DEFINE f == [fiber[n][i] EXCEPT !.pc = "claim"]
  <2>1. f.pc = "claim" /\ f.peers = fiber[n][i].peers
    BY <1>2 DEF Fiber
  <2>2. Become(n, i, f) /\ Running(n) /\ fiber[n][i].pc = "idle" /\ Elsewhere
    BY <1>3 DEF ProcessNextTask, Goto, At, OnlyFiber, redis, Elsewhere
  <2> HIDE DEF f
  <2>3. Proper(n, i, f)
    BY <2>2 DEF Proper, Loaded, SharedPCs
  <2> QED BY <1>1, <1>2, <2>1, <2>2, <2>3, Goes DEF CalmFiber, Disturbed, Loaded, SharedPCs
<1>4. CASE LoadTask(n, i)
  <2>1. PICK op : Become(n, i, UpdateStatus(fiber[n][i], op))
    BY <1>4 DEF LoadTask
  <2> DEFINE f == UpdateStatus(fiber[n][i], op)
  <2>2. f.pc = "statusGet" /\ f.peers = fiber[n][i].peers /\ f.task = fiber[n][i].task
    BY <1>2 DEF Fiber, UpdateStatus
  <2>3. Become(n, i, f) /\ fiber[n][i].pc = "load" /\ Elsewhere
    BY <1>4, <2>1 DEF LoadTask, At, OnlyFiber, redis, Elsewhere
  <2> HIDE DEF f
  <2>4. Proper(n, i, f)
    BY <2>2, <2>3 DEF Proper, Loaded, SharedPCs
  <2> QED BY <1>1, <1>2, <2>2, <2>3, <2>4, Goes DEF CalmFiber, Disturbed, Loaded, SharedPCs
<1>5. CASE Execute(n, i)
  <2>1. PICK f : /\ Become(n, i, f)
                 /\ \/ \E r \in {"success", "failure"} :
                         f = [UpdateStatus(fiber[n][i], "completed") EXCEPT !.result = r]
                    \/ f = UpdateStatus(fiber[n][i], "failed")
    BY <1>5 DEF Execute
  <2>2. f.pc = "statusGet" /\ f.peers = fiber[n][i].peers /\ f.task = fiber[n][i].task
    <3>1. CASE f = UpdateStatus(fiber[n][i], "failed")
      BY <1>2, <3>1 DEF Fiber, UpdateStatus
    <3>2. ASSUME NEW r \in {"success", "failure"},
                 f = [UpdateStatus(fiber[n][i], "completed") EXCEPT !.result = r]
          PROVE  f.pc = "statusGet" /\ f.peers = fiber[n][i].peers /\ f.task = fiber[n][i].task
      BY <1>2, <3>2 DEF Fiber, UpdateStatus
    <3> QED BY <2>1, <3>1, <3>2
  <2>3. fiber[n][i].pc = "run" /\ Elsewhere
    BY <1>5 DEF Execute, At, Unchanged_Queue, Unchanged_Cluster, Elsewhere
  <2>4. Proper(n, i, f)
    BY <2>2, <2>3 DEF Proper, Loaded, SharedPCs
  <2> QED BY <1>1, <1>2, <2>1, <2>2, <2>3, <2>4, Goes DEF CalmFiber, Disturbed, Loaded, SharedPCs
<1>6. CASE PublishCompleted(n, i)
  <2>1. fiber[n][i].pc = "publish" /\ Finally(n, i) /\ Elsewhere
    BY <1>6 DEF PublishCompleted, At, Unchanged_Queue, Unchanged_Cluster, Unchanged_Local, Elsewhere
  <2>2. fiber[n][i].pc \in Loaded
    BY <2>1 DEF Loaded
  <2> QED BY <1>1, <2>1, <2>2, EndsQuietly, HeldStatus
<1>7. CASE ReleaseClaim(n, i)
  <2>1. Idle.pc = "idle" /\ Idle.peers = {}
    BY DEF Idle
  <2>2. Become(n, i, Idle) /\ fiber[n][i].pc = "unclaim" /\ Elsewhere
    BY <1>7 DEF ReleaseClaim, At, Unchanged_Cluster, Unchanged_Local, Elsewhere
  <2>3. Proper(n, i, Idle)
    BY <2>2 DEF Proper, Loaded, SharedPCs
  <2> QED BY <1>1, <2>1, <2>2, <2>3, Goes DEF Disturbed, Loaded, SharedPCs
<1> QED BY <1>3, <1>4, <1>5, <1>6, <1>7

(* Where updateTaskStatus leaves a job, for each of its callers. *)
LEMMA AfterStatusMoves ==
  ASSUME IInv, NodesUp, NEW n \in Nodes, NEW i \in Slots,
         fiber[n][i].pc \in {"statusGet", "statusSet"}, AfterStatus(n, i)
  PROVE  \/ Finally(n, i) /\ fiber[n][i].op \notin {"processing", "completed", "failed"}
         \/ \E f : /\ Become(n, i, f)
                   /\ f.peers = fiber[n][i].peers /\ f.task = fiber[n][i].task
                   /\ \/ fiber[n][i].op = "processing" /\ f.pc = "run"
                      \/ fiber[n][i].op = "completed" /\ f.pc = "publish"
                      \/ fiber[n][i].op = "failed" /\ f.pc = "requeueGet"
<1> DEFINE f(pc) == [fiber[n][i] EXCEPT !.op = "none", !.data = NoData, !.pc = pc]
<1>1. fiber[n][i] \in Fiber /\ CalmFiber(n, i, fiber[n][i])
  BY Here
<1>2. i \in Jobs
  BY <1>1 DEF CalmFiber, Loaded, SharedPCs
<1>3. \A pc : f(pc).pc = pc /\ f(pc).peers = fiber[n][i].peers /\ f(pc).task = fiber[n][i].task
  BY <1>1 DEF Fiber
<1>4. CASE fiber[n][i].op = "processing"
  <2>1. Become(n, i, f("run"))
    BY <1>4 DEF AfterStatus
  <2> HIDE DEF f
  <2> QED BY <1>3, <1>4, <2>1
<1>5. CASE fiber[n][i].op = "completed"
  <2>1. Become(n, i, f("publish"))
    BY <1>5 DEF AfterStatus
  <2> HIDE DEF f
  <2> QED BY <1>3, <1>5, <2>1
<1>6. CASE fiber[n][i].op = "failed"
  <2>1. Become(n, i, f("requeueGet"))
    BY <1>6 DEF AfterStatus
  <2> HIDE DEF f
  <2> QED BY <1>3, <1>6, <2>1
<1>7. CASE fiber[n][i].op \notin {"processing", "completed", "failed"}
  BY <1>2, <1>7 DEF AfterStatus, AfterRequeue
<1> QED BY <1>4, <1>5, <1>6, <1>7

LEMMA UpdateNodeStatusQuiet ==
  ASSUME IInv, NodesUp, NEW n \in Nodes, NEW i \in Slots, UpdateNodeStatus(n, i)
  PROVE  Quiet(n, i)
<1> DEFINE f == [fiber[n][i] EXCEPT !.pc = AfterHeartbeat(fiber[n][i].pc)]
<1>1. fiber[n][i] \in Fiber /\ CalmFiber(n, i, fiber[n][i])
  BY Here
<1>2. f.pc = AfterHeartbeat(fiber[n][i].pc) /\ f.peers = fiber[n][i].peers /\ f.task = fiber[n][i].task
  BY <1>1 DEF Fiber
<1>3. Become(n, i, f) /\ fiber[n][i].pc \in {"begin", "end", "beat", "rebalanced"}
  BY DEF UpdateNodeStatus, Goto
<1> HIDE DEF f
<1>4. Running(n)
  BY <1>1, <1>3 DEF CalmFiber
<1>5. Elsewhere
  <2>1. n \in nodeKey
    BY <1>4 DEF NodesUp, Running
  <2> QED BY <2>1 DEF UpdateNodeStatus, Unchanged_Queue, Unchanged_Local, Elsewhere
<1>6. CASE fiber[n][i].pc = "begin"
  <2>1. f.pc = "load"
    BY <1>2, <1>6 DEF AfterHeartbeat
  <2>2. Proper(n, i, f)
    BY <1>6, <2>1 DEF Proper, Loaded
  <2> QED BY <1>1, <1>2, <1>3, <1>4, <1>5, <1>6, <2>1, <2>2, Goes DEF CalmFiber, Disturbed, Loaded
<1>7. CASE fiber[n][i].pc # "begin"
  <2>1. f.pc \in {"unclaim", "members", "idle"}
    BY <1>2, <1>3, <1>7 DEF AfterHeartbeat
  <2>2. Proper(n, i, f)
    BY <1>3, <1>7 DEF Proper, Loaded, SharedPCs
  <2> QED BY <1>1, <1>2, <1>3, <1>4, <1>5, <2>1, <2>2, Goes DEF CalmFiber, Disturbed, Loaded, SharedPCs
<1> QED BY <1>6, <1>7

LEMMA UpdateTaskStatusGetQuiet ==
  ASSUME IInv, NodesUp, NEW n \in Nodes, NEW i \in Slots, UpdateTaskStatusGet(n, i)
  PROVE  Quiet(n, i)
<1> DEFINE d == store[fiber[n][i].task]
<1>1. fiber[n][i] \in Fiber /\ CalmFiber(n, i, fiber[n][i])
  BY Here
<1>2. fiber[n][i].pc = "statusGet" /\ Elsewhere
  BY DEF UpdateTaskStatusGet, At, Unchanged_Queue, Unchanged_Cluster, Unchanged_Local, Elsewhere
<1>3. fiber[n][i].pc \in Loaded /\ i \in Jobs /\ Running(n)
  BY <1>1, <1>2 DEF CalmFiber, Loaded, SharedPCs
<1>4. CASE d = NoData
  <2>1. d.status = "missing"
    BY SMTT(30), <1>4 DEF NoData
  <2>2. AfterStatus(n, i)
    BY <1>4 DEF UpdateTaskStatusGet
  <2> HIDE DEF d
  <2>3. CASE Finally(n, i)
    <3>1. store[fiber[n][i].task].status \notin {"queued", "processing"}
      BY <2>1 DEF d
    <3> QED BY <1>2, <1>3, <2>3, <3>1, EndsQuietly
  <2>4. ASSUME NEW f, Become(n, i, f), f.peers = fiber[n][i].peers, f.task = fiber[n][i].task,
               f.pc \in {"run", "publish", "requeueGet"}
        PROVE  Quiet(n, i)
    <3>1. Proper(n, i, f)
      BY <1>2, <2>1, <2>4 DEF Proper, Loaded, SharedPCs, d
    <3> QED BY <1>1, <1>2, <1>3, <2>4, <3>1, Goes DEF CalmFiber, Disturbed, Loaded, SharedPCs
  <2> QED BY <1>2, <2>2, <2>3, <2>4, AfterStatusMoves
<1>5. CASE d # NoData
  <2> DEFINE f == [fiber[n][i] EXCEPT !.pc = "statusSet", !.data = d]
  <2>1. Become(n, i, f)
    BY <1>5 DEF UpdateTaskStatusGet
  <2>2. f.pc = "statusSet" /\ f.peers = fiber[n][i].peers /\ f.task = fiber[n][i].task
    BY <1>1 DEF Fiber
  <2> HIDE DEF f
  <2>3. Proper(n, i, f)
    BY <1>2, <2>2 DEF Proper, Loaded, SharedPCs
  <2> QED BY <1>1, <1>2, <1>3, <2>1, <2>2, <2>3, Goes DEF CalmFiber, Disturbed, Loaded, SharedPCs
<1> QED BY <1>4, <1>5

LEMMA RequeueTaskGetQuiet ==
  ASSUME IInv, NodesUp, NEW n \in Nodes, NEW i \in Slots, RequeueTaskGet(n, i)
  PROVE  Quiet(n, i)
<1> DEFINE d == store[fiber[n][i].task]
<1>1. fiber[n][i] \in Fiber /\ CalmFiber(n, i, fiber[n][i])
  BY Here
<1>2. fiber[n][i].pc = "requeueGet" /\ Elsewhere
  BY DEF RequeueTaskGet, At, Unchanged_Queue, Unchanged_Cluster, Unchanged_Local, Elsewhere
<1>3. fiber[n][i].pc \in Loaded /\ i \in Jobs /\ Running(n)
  BY <1>1, <1>2 DEF CalmFiber, Loaded, SharedPCs
<1>4. CASE d = NoData
  <2>1. store[fiber[n][i].task].status \notin {"queued", "processing"}
    BY SMTT(30), <1>4 DEF NoData
  <2>2. Finally(n, i)
    BY <1>3, <1>4 DEF RequeueTaskGet, AfterRequeue
  <2> QED BY <1>2, <1>3, <2>1, <2>2, EndsQuietly
<1>5. CASE d # NoData
  <2> DEFINE f == IF MaxRetriesExceeded(d) THEN UpdateStatus(fiber[n][i], "exceeded")
                  ELSE [fiber[n][i] EXCEPT !.pc = "requeueSet", !.data = d]
  <2>1. Become(n, i, f)
    BY <1>5 DEF RequeueTaskGet
  <2>2. f.pc \in {"statusGet", "requeueSet"} /\ f.peers = fiber[n][i].peers /\ f.task = fiber[n][i].task
    BY <1>1 DEF Fiber, UpdateStatus
  <2> HIDE DEF f
  <2>3. Proper(n, i, f)
    BY <1>2, <2>2 DEF Proper, Loaded, SharedPCs
  <2> QED BY <1>1, <1>2, <1>3, <2>1, <2>2, <2>3, Goes DEF CalmFiber, Disturbed, Loaded, SharedPCs
<1> QED BY <1>4, <1>5

LEMMA GoesLight ==
  ASSUME NodesUp, NEW n \in Nodes, NEW i \in Slots, NEW f, Become(n, i, f), fiber[n][i].pc \notin Loaded,
         f.pc \notin Disturbed \cup Loaded, f.pc # "idle" => Running(n), f.peers \subseteq nodeKey, Elsewhere
  PROVE  Quiet(n, i)
<1>1. Proper(n, i, f)
  BY DEF Proper
<1> QED BY <1>1, Goes

LEMMA MonitorQuiet ==
  ASSUME IInv, NodesUp, NEW n \in Nodes, NEW i \in Monitors, HealthCheck(n, i) \/ MonitorStep(n, i)
  PROVE  Quiet(n, i)
<1>1. i \in Slots
  BY DEF Slots
<1>2. fiber[n][i] \in Fiber /\ CalmFiber(n, i, fiber[n][i])
  BY <1>1, Here
<1>3. \A peers : Probe(peers).pc \in {"idle", "probe"} /\ Probe(peers).peers = peers
  BY DEF Probe, Idle
<1>4. nodesActive \subseteq nodeKey
  BY DEF NodesUp, IInv, TypeOK
<1>5. CASE HealthCheck(n, i)
  <2> DEFINE f == [fiber[n][i] EXCEPT !.pc = "beat"]
  <2>1. f.pc = "beat" /\ f.peers = fiber[n][i].peers
    BY <1>2 DEF Fiber
  <2>2. Become(n, i, f) /\ Running(n) /\ fiber[n][i].pc = "idle" /\ Elsewhere
    BY <1>5 DEF HealthCheck, Goto, At, OnlyFiber, redis, Elsewhere
  <2> HIDE DEF f
  <2> QED BY <1>1, <1>2, <2>1, <2>2, GoesLight DEF CalmFiber, Disturbed, Loaded, SharedPCs
<1>6. CASE ListNodes(n, i)
  <2> DEFINE f == Probe(nodesActive \ {n})
  <2>1. Become(n, i, f) /\ fiber[n][i].pc = "members" /\ Elsewhere
    BY <1>6 DEF ListNodes, At, OnlyFiber, redis, Elsewhere
  <2>2. f.pc \in {"idle", "probe"} /\ f.peers = nodesActive \ {n}
    BY <1>3
  <2> HIDE DEF f
  <2> QED BY <1>1, <1>2, <1>4, <2>1, <2>2, GoesLight DEF CalmFiber, Disturbed, Loaded, SharedPCs
<1>7. CASE ProbeNode(n, i)
  <2>1. fiber[n][i].pc = "probe" /\ Elsewhere /\ fiber[n][i].peers \subseteq nodeKey
    BY <1>2, <1>7 DEF ProbeNode, At, OnlyFiber, redis, Elsewhere, CalmFiber
  <2>2. PICK m \in fiber[n][i].peers : Become(n, i, Probe(fiber[n][i].peers \ {m}))
    BY <1>7, <2>1 DEF ProbeNode
  <2> DEFINE f == Probe(fiber[n][i].peers \ {m})
  <2>3. Become(n, i, f) /\ f.pc \in {"idle", "probe"} /\ f.peers = fiber[n][i].peers \ {m}
    BY <1>3, <2>2
  <2> HIDE DEF f
  <2> QED BY <1>1, <1>2, <2>1, <2>3, GoesLight DEF CalmFiber, Disturbed, Loaded, SharedPCs
<1>8. CASE HandleNodeFailure(n, i)
  BY <1>2, <1>8 DEF HandleNodeFailure, At, CalmFiber, Disturbed
<1> QED BY <1>5, <1>6, <1>7, <1>8 DEF MonitorStep

(* The only messages on their way are rebalances. *)
LEMMA OnlyRebalances ==
  ASSUME TypeOK, NoAlarm, NEW n \in Nodes, NEW m \in Messages, Receive(n, m)
  PROVE  m = <<"rebalance", None>> /\ NoAlarm'
<1>1. m = <<"rebalance", None>>
  BY SMTT(30) DEF Messages, NoAlarm, Receive
<1>2. \A k \in Nodes : \A x \in Messages : x # m => inbox'[k][x] = inbox[k][x]
  BY DEF TypeOK, Receive
<1>3. \A k \in Nodes : <<"failover", k>> \in Messages /\ <<"failover", k>> # m
  BY <1>1 DEF Messages
<1>4. \A t \in Tasks : <<"priority", t>> \in Messages /\ <<"priority", t>> # m
  BY <1>1 DEF Messages
<1> QED BY SMTT(30), <1>1, <1>2, <1>3, <1>4 DEF NoAlarm

LEMMA HandlerQuiet ==
  ASSUME IInv, NodesUp, NEW n \in Nodes, NEW i \in Handlers,
         HandleRedisMessage(n, i) \/ HandlerStep(n, i)
  PROVE  Quiet(n, i)
<1>1. i \in Slots
  BY DEF Slots
<1>2. fiber[n][i] \in Fiber /\ CalmFiber(n, i, fiber[n][i])
  BY <1>1, Here
<1>3. TypeOK /\ NoAlarm
  BY DEF IInv, NodesUp
<1>4. CASE HandleRedisMessage(n, i)
  <2> DEFINE f == [Idle EXCEPT !.pc = "rebalance"]
  <2>1. f.pc = "rebalance" /\ f.peers = {}
    BY DEF Idle
  <2>2. ASSUME NEW k \in Nodes, Receive(n, <<"failover", k>>)
        PROVE  FALSE
    <3>1. inbox[n][<<"failover", k>>] > 0
      BY <2>2 DEF Receive
    <3> QED BY SMTT(30), <1>3, <3>1 DEF NoAlarm
  <2>3. ASSUME NEW t \in Tasks, Receive(n, <<"priority", t>>)
        PROVE  FALSE
    <3>1. inbox[n][<<"priority", t>>] > 0
      BY <2>3 DEF Receive
    <3> QED BY SMTT(30), <1>3, <3>1 DEF NoAlarm
  <2>4. Receive(n, <<"rebalance", None>>) /\ Become(n, i, f) /\ fiber[n][i].pc = "idle" /\ Subscribed(n)
    BY <1>4, <2>2, <2>3, Zenon DEF HandleRedisMessage, At
  <2>5. UNCHANGED <<store, queue, enqueued, phase, nodeKey, nodesActive>>
    BY <1>4, Zenon DEF HandleRedisMessage, Unchanged_Queue, Unchanged_Local
  <2> HIDE DEF f
  <2>6. NoAlarm'
    <3>1. <<"rebalance", None>> \in Messages
      BY DEF Messages
    <3> QED BY <1>3, <2>4, <3>1, OnlyRebalances
  <2>7. Running(n)
    BY <2>4 DEF NodesUp, Subscribed, Running
  <2>8. MovesTo(n, i, f)
    BY <2>1, <2>4, <2>5, <2>6, <2>7 DEF MovesTo, CalmFiber, Disturbed, Loaded, SharedPCs
  <2>9. Proper(n, i, f)
    BY <2>4 DEF Proper, Loaded, SharedPCs
  <2> QED BY <2>5, <2>8, <2>9 DEF Quiet
<1>5. CASE HandleClusterRebalance(n, i)
  <2> DEFINE f == [fiber[n][i] EXCEPT !.pc = "rebalanced"]
  <2>1. f.pc = "rebalanced" /\ f.peers = fiber[n][i].peers
    BY <1>2 DEF Fiber
  <2>2. Idle.pc = "idle" /\ Idle.peers = {}
    BY DEF Idle
  <2>3. Become(n, i, Idle) \/ Become(n, i, f)
    BY <1>5 DEF HandleClusterRebalance, Goto
  <2>4. fiber[n][i].pc = "rebalance" /\ Elsewhere
    BY <1>5 DEF HandleClusterRebalance, At, Unchanged_Queue, Unchanged_Cluster, Elsewhere
  <2> HIDE DEF f
  <2>5. CASE Become(n, i, Idle)
    BY <1>1, <2>2, <2>4, <2>5, GoesLight DEF Disturbed, Loaded, SharedPCs
  <2>6. CASE Become(n, i, f)
    BY <1>1, <1>2, <2>1, <2>4, <2>6, GoesLight DEF CalmFiber, Disturbed, Loaded, SharedPCs
  <2> QED BY <2>3, <2>5, <2>6
<1>6. CASE ListClaims(n, i) \/ CheckHolder(n, i) \/ HandlePriorityUpdate(n, i)
  <2>1. fiber[n][i].pc \in Disturbed
    BY <1>6, Zenon DEF ListClaims, CheckHolder, HandlePriorityUpdate, At, Disturbed
  <2> QED BY <1>2, <2>1 DEF CalmFiber
<1> QED BY <1>4, <1>5, <1>6 DEF HandlerStep

(* A rejected command: the job goes to its catch or finally block. *)
LEMMA RedisErrorMoves ==
  ASSUME IInv, NodesUp, NEW n \in Nodes, NEW i \in Slots, RedisError(n, i)
  PROVE  \E f : MovesTo(n, i, f)
<1> DEFINE f == fiber[n][i]
           inTry == f.pc \in {"load", "publish"} \/ f.op \in {"processing", "completed"}
           inCatch == f.pc \in SharedPCs /\ ~inTry
<1>1. f \in Fiber /\ FiberInv(f, i) /\ CalmFiber(n, i, f)
  BY Here
<1>2. f.pc # "idle" /\ UNCHANGED <<queue, enqueued, phase, nodeKey, nodesActive, inbox>>
  BY Zenon DEF RedisError, At, redis
<1>3. NoAlarm' /\ Running(n)
  BY <1>1, <1>2 DEF NodesUp, NoAlarm, CalmFiber
<1>4. CASE i \in Jobs /\ inTry /\ Become(n, i, UpdateStatus([Idle EXCEPT !.task = f.task], "failed"))
  <2> DEFINE g == UpdateStatus([Idle EXCEPT !.task = f.task], "failed")
  <2>1. g.pc = "statusGet" /\ g.task = f.task /\ g.peers = {}
    BY DEF UpdateStatus, Idle
  <2>2. Become(n, i, g)
    BY <1>4
  <2>3. f.pc \in Loaded
    BY <1>1, <1>4 DEF FiberInv, Loaded, SharedPCs
  <2> HIDE DEF g
  <2>4. MovesTo(n, i, g)
    BY <1>2, <1>3, <1>4, <2>1, <2>2, <2>3 DEF MovesTo, CalmFiber, Disturbed
  <2> QED BY <2>4
<1>5. CASE Finally(n, i)
  <2> DEFINE g == [Idle EXCEPT !.pc = "end", !.task = f.task]
  <2>1. g.pc = "end" /\ g.peers = {}
    BY DEF Idle
  <2>2. Become(n, i, g)
    BY <1>5 DEF Finally
  <2> HIDE DEF g
  <2>3. MovesTo(n, i, g)
    BY <1>2, <1>3, <2>1, <2>2 DEF MovesTo, CalmFiber, Disturbed, Loaded, SharedPCs
  <2> QED BY <2>3
<1>6. CASE Become(n, i, Idle)
  <2>1. Idle.pc = "idle" /\ Idle.peers = {}
    BY DEF Idle
  <2>2. MovesTo(n, i, Idle)
    BY <1>2, <1>3, <1>6, <2>1 DEF MovesTo, CalmFiber, Disturbed, Loaded, SharedPCs
  <2> QED BY <2>2
<1> QED BY <1>4, <1>5, <1>6, Zenon DEF RedisError

(* A step that leaves the tasks where they are. *)
LEMMA Still ==
  ASSUME UNCHANGED <<queue, enqueued, fiber>>
  PROVE  /\ OnePlace => OnePlace'
         /\ UNCHANGED store /\ StatusAgrees => StatusAgrees'
<1>1. \A n \in Nodes : \A i \in Slots : \A t \in Tasks : Holds(n, i, t)' <=> Holds(n, i, t)
  BY DEF Holds
<1>2. \A t \in Tasks : Handled(t)' <=> Handled(t)
  BY DEF Handled
<1>3. OnePlace => OnePlace'
  BY <1>1 DEF OnePlace
<1>4. UNCHANGED store /\ StatusAgrees => StatusAgrees'
  BY <1>1, <1>2 DEF StatusAgrees
<1> QED BY <1>3, <1>4

(* Nodes only start: one that has started does not stop, and keeps its key. *)
LEMMA LifecycleCalm ==
  ASSUME IInv, CalmInv, NEW n \in Nodes, Lifecycle(n)
  PROVE  NodesUp' /\ UNCHANGED <<store, queue, enqueued, fiber>>
<1>1. \A f \in Disturbances : ~Spend(f)
  BY SMTT(30) DEF CalmInv, Spared, Spend
<1>2. /\ phase[n] \in {"new", "registered", "starting", "active"}
      /\ n \in nodeKey <=> phase[n] # "new"
  BY DEF CalmInv, NodesUp
<1>3. phase \in [Nodes -> Phases]
  BY DEF IInv, TypeOK
<1>4. ASSUME UNCHANGED <<inbox, fiber>>,
             NEW p \in {"registered", "starting", "active"}, phase' = [phase EXCEPT ![n] = p],
             Running(n) => p \in {"starting", "active"},
             nodeKey' = nodeKey \cup {n},
             nodesActive' \subseteq nodesActive \cup {n}
      PROVE  NodesUp'
  <2>1. \A m \in Nodes : phase'[m] = IF m = n THEN p ELSE phase[m]
    BY <1>3, <1>4
  <2>2. NoAlarm'
    BY <1>4 DEF CalmInv, NodesUp, NoAlarm
  <2>3. \A m \in Nodes : Running(m) => Running(m)'
    BY <1>4, <2>1 DEF Running
  <2>4. \A m \in Nodes : \A i \in Slots : CalmFiber(m, i, fiber[m][i])'
    BY <1>4, <2>3 DEF CalmInv, NodesUp, CalmFiber
  <2>5. \A m \in Nodes : /\ phase'[m] \in {"new", "registered", "starting", "active"}
                         /\ m \in nodeKey' <=> phase'[m] # "new"
                         /\ m \in nodesActive' => m \in nodeKey'
    BY <1>4, <2>1 DEF CalmInv, NodesUp
  <2> QED BY <2>2, <2>4, <2>5 DEF NodesUp
<1>5. CASE RegisterNode(n)
  <2>1. phase[n] = "new"
    BY <1>2, <1>5 DEF RegisterNode
  <2> QED BY <1>4, <1>5, <2>1 DEF RegisterNode, Unchanged_Queue, Running
<1>6. CASE SubscribeToChannels(n)
  <2>1. n \in nodeKey
    BY <1>2, <1>6 DEF SubscribeToChannels
  <2> QED BY <1>4, <1>6, <2>1 DEF SubscribeToChannels, redis, Running
<1>7. CASE Started(n)
  BY <1>4, <1>7 DEF Started, Unchanged_Queue, Running
<1>8. CASE Shutdown(n) \/ Crash(n)
  BY <1>1, <1>8 DEF Shutdown, Crash, Disturbances
<1>9. CASE UnregisterNode(n) \/ Quit(n)
  BY <1>2, <1>9 DEF UnregisterNode, Quit
<1>10. CASE NodeKeyExpires(n)
  <2>1. Alive(n)
    BY <1>2, <1>10 DEF NodeKeyExpires, Alive
  <2> QED BY <1>1, <1>10, <2>1 DEF NodeKeyExpires, Disturbances
<1> QED BY <1>5, <1>6, <1>7, <1>8, <1>9, <1>10 DEF Lifecycle

LEMMA EnvironmentCalm ==
  ASSUME IInv, CalmInv, Environment
  PROVE  /\ NodesUp' /\ UNCHANGED <<queue, enqueued, fiber>>
         /\ UNCHANGED store \/ \E t \in Tasks : TaskExpires(t)
<1>1. ASSUME NoAlarm', UNCHANGED <<phase, nodeKey, nodesActive, fiber>>
      PROVE  NodesUp'
  BY <1>1 DEF CalmInv, NodesUp, CalmFiber, Running
<1>2. TypeOK /\ NoAlarm
  BY DEF IInv, CalmInv, NodesUp
<1>3. ASSUME NEW t \in Tasks, ClaimExpires(t) \/ TaskExpires(t)
      PROVE  /\ NodesUp' /\ UNCHANGED <<queue, enqueued, fiber>>
             /\ UNCHANGED store \/ \E u \in Tasks : TaskExpires(u)
  <2>1. UNCHANGED <<queue, enqueued, fiber, inbox, phase, nodeKey, nodesActive>>
    BY <1>3, Zenon DEF ClaimExpires, TaskExpires, Unchanged_Queue
  <2>2. NoAlarm'
    BY <1>2, <2>1 DEF NoAlarm
  <2> QED BY <1>1, <1>3, <2>1, <2>2 DEF ClaimExpires
<1>4. ASSUME NEW m \in Messages, NEW n \in Nodes, LoseMessage(n, m)
      PROVE  NodesUp' /\ UNCHANGED <<store, queue, enqueued, fiber>>
  <2>1. Receive(n, m) /\ UNCHANGED <<store, queue, enqueued, fiber, phase, nodeKey, nodesActive>>
    BY <1>4, Zenon DEF LoseMessage, redis
  <2>2. NoAlarm'
    BY <1>2, <2>1, OnlyRebalances
  <2> QED BY <1>1, <2>1, <2>2
<1>5. ASSUME NEW m \in Messages, OperatorPublishes(m)
      PROVE  NodesUp' /\ UNCHANGED <<store, queue, enqueued, fiber>>
  <2>1. inbox' = Deliveries(m) /\ UNCHANGED <<store, queue, enqueued, fiber, phase, nodeKey, nodesActive>>
    BY <1>5, Zenon DEF OperatorPublishes, redis
  <2>2. m = <<"rebalance", None>>
    <3>1. m[1] # "failover" /\ m[1] # "priority"
      BY SMTT(30), <1>5 DEF OperatorPublishes, CalmInv, Spared, Disturbances, Spend
    <3> QED BY <3>1 DEF Messages
  <2>3. \A k \in Nodes : \A x \in Messages : x # m => inbox'[k][x] = inbox[k][x]
    BY <1>2, <2>1 DEF TypeOK, Deliveries
  <2>4. \A k \in Nodes : <<"failover", k>> \in Messages /\ <<"failover", k>> # m
    BY <2>2 DEF Messages
  <2>5. \A t \in Tasks : <<"priority", t>> \in Messages /\ <<"priority", t>> # m
    BY <2>2 DEF Messages
  <2>6. NoAlarm'
    BY SMTT(30), <1>2, <2>3, <2>4, <2>5 DEF NoAlarm
  <2> QED BY <1>1, <2>1, <2>6
<1> QED BY <1>3, <1>4, <1>5 DEF Environment

(* The claim takes the task out of the queue and into one job's hands. *)
LEMMA ClaimTaskCalm ==
  ASSUME IInv, CalmInv, NEW n \in Nodes, NEW i \in Jobs, ClaimTask(n, i)
  PROVE  NodesUp' /\ OnePlace' /\ (StatusAgrees => StatusAgrees')
<1>1. i \in Slots
  BY DEF Slots
<1>2. /\ fiber[n][i].pc = "claim"
      /\ UNCHANGED <<store, enqueued, inbox, phase, nodeKey, nodesActive>>
  BY Zenon DEF ClaimTask, At, Unchanged_Cluster, Unchanged_Local
<1>3. NodesUp /\ OnePlace /\ fiber[n][i].pc \notin Loaded /\ Running(n)
  BY <1>1, <1>2 DEF CalmInv, NodesUp, CalmFiber, Loaded, SharedPCs
<1>4. CASE Become(n, i, Idle) /\ UNCHANGED queue
  <2>1. Idle.pc = "idle" /\ Idle.peers = {}
    BY DEF Idle
  <2>2. Quiet(n, i)
    BY <1>1, <1>2, <1>3, <1>4, <2>1, GoesLight DEF Disturbed, Loaded, SharedPCs, Elsewhere
  <2> QED BY <1>1, <1>3, <2>2, MoveCalm, MoveSteady DEF Quiet
<1>5. ASSUME NEW t \in queue, queue' = Popped(t),
             Become(n, i, [Idle EXCEPT !.pc = "begin", !.task = t])
      PROVE  NodesUp' /\ OnePlace' /\ (StatusAgrees => StatusAgrees')
  <2> DEFINE f == [Idle EXCEPT !.pc = "begin", !.task = t]
  <2>1. f.pc = "begin" /\ f.task = t /\ f.peers = {}
    BY DEF Idle
  <2>2. \A m \in Nodes : \A j \in Slots :
          fiber'[m][j] = IF m = n /\ j = i THEN f ELSE fiber[m][j]
    BY SMTT(30), <1>1, <1>5, Moved
  <2>3. t \in Tasks /\ queue' = queue \ {t}
    BY <1>5 DEF IInv, TypeOK, Popped
  <2> HIDE DEF f
  <2>4. NodesUp'
    <3>1. NoAlarm'
      BY <1>2, <1>3 DEF NodesUp, NoAlarm
    <3> QED BY SMTT(30), <1>2, <1>3, <2>1, <2>2, <3>1 DEF NodesUp, CalmFiber, Running, Disturbed
  <2>5. \A m \in Nodes : \A j \in Slots : \A u \in Tasks :
          Holds(m, j, u)' <=> IF m = n /\ j = i THEN u = t ELSE Holds(m, j, u)
    BY <2>1, <2>2 DEF Holds, Loaded
  <2>6. \A m \in Nodes : \A j \in Slots : ~Holds(m, j, t) /\ \A u \in Tasks : ~Holds(n, i, u)
    BY <1>3, <2>3 DEF OnePlace, Holds
  <2>7. OnePlace'
    BY SMTT(30), <1>2, <1>3, <2>3, <2>5, <2>6 DEF OnePlace
  <2>8. ASSUME StatusAgrees
        PROVE  StatusAgrees'
    <3>1. \A u \in Tasks : Handled(u)' <=> Handled(u) \/ u = t
      BY SMTT(30), <1>1, <2>5, <2>6 DEF Handled, Holds
    <3> SUFFICES ASSUME NEW u \in Tasks
                 PROVE  /\ store[u].status \in {"queued", "processing"} => u \in queue' \/ Handled(u)'
                        /\ store[u].status = "completed" => u \notin queue'
                        /\ \A m \in Nodes : \A j \in Slots : Holds(m, j, u)' =>
                             /\ store[u].status = "completed" => fiber'[m][j].pc = "publish"
                             /\ fiber'[m][j].pc = "publish" => store[u].status \in {"completed", "missing"}
      BY <1>2, <2>8 DEF StatusAgrees
    <3>2. ASSUME NEW m \in Nodes, NEW j \in Slots, Holds(m, j, u)'
          PROVE  /\ store[u].status = "completed" => fiber'[m][j].pc = "publish"
                 /\ fiber'[m][j].pc = "publish" => store[u].status \in {"completed", "missing"}
      BY SMTT(30), <2>1, <2>2, <2>3, <2>5, <2>8, <3>2 DEF StatusAgrees
    <3> QED BY <2>3, <2>8, <3>1, <3>2 DEF StatusAgrees
  <2> QED BY <2>4, <2>7, <2>8
<1> QED BY <1>4, <1>5, Zenon DEF ClaimTask

(* A job that writes the status of its task, and goes on accordingly. *)
LEMMA WriteSteady ==
  ASSUME IInv, OnePlace, StatusAgrees, NEW n \in Nodes, NEW i \in Slots, NEW f, MovesTo(n, i, f),
         fiber[n][i].pc \in Loaded, NEW d, store' = [store EXCEPT ![fiber[n][i].task] = d],
         \/ d.status = "processing" /\ f.pc \in Loaded \ {"publish"}
         \/ d.status = "completed" /\ f.pc = "publish"
         \/ d.status = "failed" /\ f.pc # "publish"
  PROVE  StatusAgrees'
<1> DEFINE task == fiber[n][i].task
<1>1. \A m \in Nodes : \A j \in Slots :
        fiber'[m][j] = IF m = n /\ j = i THEN f ELSE fiber[m][j]
  BY SMTT(30), Moved DEF MovesTo
<1>2. UNCHANGED <<queue, enqueued>>
  BY DEF MovesTo
<1>3. task \in Tasks
  BY FiberAt DEF FiberInv, WithTask, Loaded
<1>4. \A t \in Tasks : store'[t] = IF t = task THEN d ELSE store[t]
  BY <1>3 DEF IInv, TypeOK
<1>5. Holds(n, i, task)
  BY DEF Holds
<1>6. \A m \in Nodes : \A j \in Slots : \A t \in Tasks :
        Holds(m, j, t)' <=> IF m = n /\ j = i THEN t = task /\ f.pc \in Loaded ELSE Holds(m, j, t)
  BY <1>1 DEF Holds, MovesTo
<1> HIDE DEF task
<1> SUFFICES ASSUME NEW t \in Tasks
             PROVE  /\ enqueued[t] = 0 => store'[t] = NoData
                    /\ store'[t].status \in {"queued", "processing"} => t \in queue \/ Handled(t)'
                    /\ store'[t].status = "completed" => t \notin queue
                    /\ \A m \in Nodes : \A j \in Slots : Holds(m, j, t)' =>
                         /\ store'[t].status = "completed" => fiber'[m][j].pc = "publish"
                         /\ fiber'[m][j].pc = "publish" => store'[t].status \in {"completed", "missing"}
  BY <1>2 DEF StatusAgrees
<1>7. CASE t = task
  <2>1. t \notin queue /\ enqueued[t] > 0 /\ store'[t] = d
    BY <1>3, <1>4, <1>5, <1>7 DEF OnePlace
  <2>2. \A m \in Nodes : \A j \in Slots : Holds(m, j, t)' => m = n /\ j = i /\ fiber'[m][j].pc = f.pc
    BY SMTT(30), <1>1, <1>3, <1>5, <1>6, <1>7 DEF OnePlace
  <2>3. f.pc \in Loaded => Handled(t)'
    <3>1. ASSUME f.pc \in Loaded PROVE fiber'[n][i].task = t /\ fiber'[n][i].pc \in Loaded
      BY <1>1, <1>7, <3>1 DEF MovesTo, task
    <3> QED BY <3>1 DEF Handled
  <2>4. enqueued[t] # 0
    BY SMTT(30), <2>1, <1>3 DEF IInv, TypeOK
  <2> QED BY <2>1, <2>2, <2>3, <2>4
<1>8. CASE t # task
  <2>1. store'[t] = store[t]
    BY <1>4, <1>8
  <2>2. \A m \in Nodes : \A j \in Slots : Holds(m, j, t)' <=> Holds(m, j, t)
    BY SMTT(30), <1>5, <1>6, <1>8 DEF Holds
  <2>3. Handled(t)' <=> Handled(t)
    BY <2>2 DEF Handled, Holds
  <2>4. \A m \in Nodes : \A j \in Slots : Holds(m, j, t)' => fiber'[m][j] = fiber[m][j]
    BY <1>1, <1>6, <1>8
  <2> QED BY SMTT(30), <2>1, <2>2, <2>3, <2>4 DEF StatusAgrees
<1> QED BY <1>7, <1>8

LEMMA UpdateTaskStatusSetCalm ==
  ASSUME IInv, CalmInv, NEW n \in Nodes, NEW i \in Slots, UpdateTaskStatusSet(n, i)
  PROVE  NodesUp' /\ OnePlace' /\ (StatusAgrees => StatusAgrees')
<1>1. fiber[n][i] \in Fiber /\ CalmFiber(n, i, fiber[n][i])
  BY Here DEF CalmInv
<1>2. /\ fiber[n][i].pc = "statusSet" /\ AfterStatus(n, i)
      /\ store' = [store EXCEPT ![fiber[n][i].task] = Updated(fiber[n][i])]
      /\ UNCHANGED <<queue, enqueued, inbox, phase, nodeKey, nodesActive>>
  BY Zenon DEF UpdateTaskStatusSet, At, Unchanged_Queue, Unchanged_Cluster, Unchanged_Local
<1>3. fiber[n][i].pc \in Loaded /\ i \in Jobs /\ Running(n)
  BY <1>1, <1>2 DEF CalmFiber, Loaded, SharedPCs
<1>4. NodesUp /\ OnePlace /\ NoAlarm'
  BY <1>2 DEF CalmInv, NodesUp, NoAlarm
<1>5. Updated(fiber[n][i]).status = CASE fiber[n][i].op = "completed" -> "completed"
                                      [] fiber[n][i].op = "processing" -> "processing"
                                      [] OTHER -> "failed"
  <2>1. fiber[n][i].data \in TaskData \cup {NoData}
    BY <1>1 DEF Fiber
  <2>2. fiber[n][i].data = [status |-> fiber[n][i].data.status, retryCount |-> fiber[n][i].data.retryCount,
                            result |-> fiber[n][i].data.result]
    BY <2>1 DEF TaskData, NoData
  <2> QED BY <2>2 DEF Updated
<1>6. CASE Finally(n, i) /\ fiber[n][i].op \notin {"processing", "completed", "failed"}
  <2> DEFINE f == [Idle EXCEPT !.pc = "end", !.task = fiber[n][i].task]
  <2>1. f.pc = "end" /\ f.peers = {}
    BY DEF Idle
  <2>2. Become(n, i, f)
    BY <1>6 DEF Finally
  <2> HIDE DEF f
  <2>3. MovesTo(n, i, f)
    BY <1>2, <1>3, <1>4, <2>1, <2>2 DEF MovesTo, CalmFiber, Disturbed, Loaded, SharedPCs
  <2>4. Updated(fiber[n][i]).status = "failed"
    BY <1>5, <1>6
  <2>5. NodesUp' /\ OnePlace'
    BY <1>4, <2>3, MoveCalm
  <2>6. ASSUME StatusAgrees PROVE StatusAgrees'
    BY <1>2, <1>3, <1>4, <2>1, <2>3, <2>4, <2>6, WriteSteady, ZenonT(30)
  <2> QED BY <2>5, <2>6
<1>7. ASSUME NEW f, Become(n, i, f), f.peers = fiber[n][i].peers, f.task = fiber[n][i].task,
             \/ fiber[n][i].op = "processing" /\ f.pc = "run"
             \/ fiber[n][i].op = "completed" /\ f.pc = "publish"
             \/ fiber[n][i].op = "failed" /\ f.pc = "requeueGet"
      PROVE  NodesUp' /\ OnePlace' /\ (StatusAgrees => StatusAgrees')
  <2>1. MovesTo(n, i, f)
    BY <1>1, <1>2, <1>3, <1>4, <1>7 DEF MovesTo, CalmFiber, Disturbed, Loaded, SharedPCs
  <2>2. \/ Updated(fiber[n][i]).status = "processing" /\ f.pc = "run"
        \/ Updated(fiber[n][i]).status = "completed" /\ f.pc = "publish"
        \/ Updated(fiber[n][i]).status = "failed" /\ f.pc = "requeueGet"
    BY <1>5, <1>7
  <2>3. {"run", "publish", "requeueGet"} \subseteq Loaded
    BY DEF Loaded, SharedPCs
  <2>4. NodesUp' /\ OnePlace'
    BY <1>4, <2>1, MoveCalm
  <2> DEFINE d == Updated(fiber[n][i])
  <2>5. \/ d.status = "processing" /\ f.pc \in Loaded \ {"publish"}
        \/ d.status = "completed" /\ f.pc = "publish"
        \/ d.status = "failed" /\ f.pc # "publish"
    BY <2>2, <2>3
  <2>6. store' = [store EXCEPT ![fiber[n][i].task] = d]
    BY <1>2
  <2> HIDE DEF d
  <2>7. ASSUME StatusAgrees PROVE StatusAgrees'
    BY <1>3, <1>4, <2>1, <2>5, <2>6, <2>7, WriteSteady, ZenonT(30)
  <2> QED BY <2>4, <2>7
<1> QED BY <1>2, <1>4, <1>6, <1>7, AfterStatusMoves

(* A failed job puts its task back in the queue and lets go of it. *)
LEMMA RequeueTaskSetCalm ==
  ASSUME IInv, CalmInv, NEW n \in Nodes, NEW i \in Slots, RequeueTaskSet(n, i)
  PROVE  NodesUp' /\ OnePlace' /\ (StatusAgrees => StatusAgrees')
<1> DEFINE task == fiber[n][i].task
           d == [fiber[n][i].data EXCEPT !.status = "queued", !.retryCount = @ + 1]
           f == [Idle EXCEPT !.pc = "end", !.task = fiber[n][i].task]
<1>1. fiber[n][i] \in Fiber /\ FiberInv(fiber[n][i], i) /\ CalmFiber(n, i, fiber[n][i])
  BY Here DEF CalmInv
<1>2. /\ fiber[n][i].pc = "requeueSet" /\ AfterRequeue(n, i)
      /\ store' = [store EXCEPT ![task] = d] /\ Enqueue(task)
      /\ UNCHANGED <<inbox, phase, nodeKey, nodesActive>>
  BY Zenon DEF RequeueTaskSet, At, Unchanged_Cluster, Unchanged_Local
<1>3. fiber[n][i].pc \in Loaded /\ i \in Jobs /\ Running(n)
  BY <1>1, <1>2 DEF CalmFiber, Loaded, SharedPCs
<1>4. NodesUp /\ OnePlace /\ NoAlarm'
  BY <1>2 DEF CalmInv, NodesUp, NoAlarm
<1>5. Become(n, i, f)
  BY <1>2, <1>3 DEF AfterRequeue, Finally
<1>6. f.pc = "end" /\ f.peers = {}
  BY DEF Idle
<1>7. task \in Tasks /\ d.status = "queued"
  <2>1. task \in Tasks /\ fiber[n][i].data \in TaskData
    BY <1>1, <1>2 DEF FiberInv, WithTask, SharedPCs
  <2>2. fiber[n][i].data = [status |-> fiber[n][i].data.status, retryCount |-> fiber[n][i].data.retryCount,
                            result |-> fiber[n][i].data.result]
    BY <2>1 DEF TaskData
  <2> QED BY <2>1, <2>2
<1>8. \A m \in Nodes : \A j \in Slots :
        fiber'[m][j] = IF m = n /\ j = i THEN f ELSE fiber[m][j]
  BY SMTT(30), <1>5, Moved
<1>9. \A t \in Tasks : /\ store'[t] = IF t = task THEN d ELSE store[t]
                       /\ enqueued'[t] = IF t = task THEN enqueued[t] + 1 ELSE enqueued[t]
  <2> HIDE DEF d
  <2> QED BY <1>2, <1>7 DEF IInv, TypeOK, Enqueue
<1>10. queue' = queue \cup {task} /\ Holds(n, i, task)
  BY <1>2, <1>3 DEF Enqueue, Holds
<1> HIDE DEF task, d, f
<1>11. \A m \in Nodes : \A j \in Slots : \A t \in Tasks :
         Holds(m, j, t)' <=> Holds(m, j, t) /\ ~(m = n /\ j = i)
  BY <1>6, <1>8 DEF Holds, Loaded, SharedPCs
<1>12. \A m \in Nodes : \A j \in Slots : \A t \in Tasks :
         Holds(m, j, t)' => t # task /\ Holds(m, j, t) /\ fiber'[m][j] = fiber[m][j]
  BY SMTT(30), <1>4, <1>7, <1>8, <1>10, <1>11 DEF OnePlace
<1>13. NodesUp'
  BY SMTT(30), <1>2, <1>3, <1>4, <1>6, <1>8 DEF NodesUp, CalmFiber, Running, Disturbed, Loaded, SharedPCs
<1>14. OnePlace'
  <2>1. \A t \in Tasks : enqueued[t] \in Nat
    BY DEF IInv, TypeOK
  <2>2. \A t \in Tasks : enqueued[t] > 0 => enqueued'[t] > 0
    BY SMTT(30), <1>9, <2>1
  <2>3. enqueued'[task] > 0
    BY SMTT(30), <1>7, <1>9, <2>1
  <2> QED BY SMTT(30), <1>4, <1>10, <1>12, <2>2, <2>3 DEF OnePlace
<1>15. ASSUME StatusAgrees PROVE StatusAgrees'
  <2> SUFFICES ASSUME NEW t \in Tasks
               PROVE  /\ enqueued'[t] = 0 => store'[t] = NoData
                      /\ store'[t].status \in {"queued", "processing"} => t \in queue' \/ Handled(t)'
                      /\ store'[t].status = "completed" => t \notin queue'
                      /\ \A m \in Nodes : \A j \in Slots : Holds(m, j, t)' =>
                           /\ store'[t].status = "completed" => fiber'[m][j].pc = "publish"
                           /\ fiber'[m][j].pc = "publish" => store'[t].status \in {"completed", "missing"}
    BY DEF StatusAgrees
  <2>1. CASE t = task
    <3>1. enqueued'[t] # 0
      BY SMTT(30), <1>9, <2>1 DEF IInv, TypeOK
    <3>2. store'[t].status = "queued" /\ t \in queue'
      BY <1>7, <1>9, <1>10, <2>1
    <3> QED BY <1>12, <2>1, <3>1, <3>2
  <2>2. CASE t # task
    <3>1. Handled(t) => Handled(t)'
      <4> SUFFICES ASSUME Handled(t) PROVE Handled(t)'
        OBVIOUS
      <4>1. PICK m \in Nodes, j \in Slots : fiber[m][j].task = t /\ fiber[m][j].pc \in Loaded
        BY DEF Handled
      <4>2. fiber'[m][j].task = t /\ fiber'[m][j].pc \in Loaded
        BY <1>8, <2>2, <4>1 DEF task
      <4> QED BY <4>2 DEF Handled
    <3>2. store'[t] = store[t] /\ enqueued'[t] = enqueued[t] /\ (t \in queue' <=> t \in queue)
      BY <1>9, <1>10, <2>2
    <3> QED BY SMTT(30), <1>12, <1>15, <3>1, <3>2 DEF StatusAgrees
  <2> QED BY <2>1, <2>2
<1> QED BY <1>13, <1>14, <1>15

(* A task is submitted once, so nothing knows it yet. *)
LEMMA SubmitTaskCalm ==
  ASSUME IInv, CalmInv, NEW n \in Nodes, NEW u \in Tasks, SubmitTask(n, u)
  PROVE  NodesUp' /\ OnePlace' /\ (StatusAgrees => StatusAgrees')
<1> DEFINE d == [status |-> "queued", retryCount |-> 0, result |-> "none"]
<1>1. /\ store' = [store EXCEPT ![u] = d] /\ Enqueue(u)
      /\ UNCHANGED <<inbox, phase, nodeKey, nodesActive, fiber>>
  BY Zenon DEF SubmitTask, Unchanged_Cluster
<1>2. enqueued[u] = 0
  BY SMTT(30) DEF SubmitTask, CalmInv, Spared, Spend, Disturbances
<1>3. NodesUp /\ OnePlace /\ NoAlarm'
  BY <1>1 DEF CalmInv, NodesUp, NoAlarm
<1>4. \A t \in Tasks : /\ store'[t] = IF t = u THEN d ELSE store[t]
                       /\ enqueued'[t] = IF t = u THEN 1 ELSE enqueued[t]
  BY SMTT(30), <1>1, <1>2 DEF IInv, TypeOK, Enqueue
<1>5. queue' = queue \cup {u} /\ d.status = "queued"
  BY <1>1 DEF Enqueue
<1> HIDE DEF d
<1>6. \A m \in Nodes : \A j \in Slots : ~Holds(m, j, u) /\ \A t \in Tasks : Holds(m, j, t)' <=> Holds(m, j, t)
  BY SMTT(30), <1>1, <1>2, <1>3 DEF OnePlace, Holds
<1>7. NodesUp'
  BY <1>1, <1>3 DEF NodesUp, CalmFiber, Running
<1>8. OnePlace'
  BY SMTT(30), <1>3, <1>4, <1>5, <1>6 DEF OnePlace
<1>9. ASSUME StatusAgrees PROVE StatusAgrees'
  <2>1. \A t \in Tasks : Handled(t)' <=> Handled(t)
    BY <1>1 DEF Handled
  <2> QED BY SMTT(30), <1>1, <1>4, <1>5, <1>6, <1>9, <2>1 DEF StatusAgrees
<1> QED BY <1>7, <1>8, <1>9

(* No step changes the data of a completed task. *)
ResultsStay == \A t \in Tasks : store[t].status = "completed" => store'[t] = store[t]

LEMMA TaskExpiresSteady ==
  ASSUME IInv, StatusAgrees, NEW u \in Tasks, TaskExpires(u)
  PROVE  StatusAgrees'
<1>1. UNCHANGED <<queue, enqueued, fiber>>
  BY Zenon DEF TaskExpires, Unchanged_Queue
<1>2. \A t \in Tasks : store'[t] = IF t = u THEN NoData ELSE store[t]
  BY DEF TaskExpires, IInv, TypeOK
<1>3. NoData.status = "missing"
  BY DEF NoData
<1>4. \A n \in Nodes : \A i \in Slots : \A t \in Tasks : Holds(n, i, t)' <=> Holds(n, i, t)
  BY <1>1 DEF Holds
<1>5. \A t \in Tasks : Handled(t)' <=> Handled(t)
  BY <1>1 DEF Handled
<1> QED BY <1>1, <1>2, <1>3, <1>4, <1>5 DEF StatusAgrees

(* One step per action: tasks stay in one place and, while no command is   *)
(* rejected, the status agrees; while no data expires, results stay.       *)
LEMMA CalmStep ==
  ASSUME IInv, CalmInv, [Next]_vars
  PROVE  /\ NodesUp' /\ OnePlace'
         /\ SteadyInv => StatusAgrees' /\ (Spared({"taskTTL"}) => ResultsStay)
<1> DEFINE Goal == /\ NodesUp' /\ OnePlace'
                   /\ SteadyInv => StatusAgrees' /\ (Spared({"taskTTL"}) => ResultsStay)
<1>1. NodesUp /\ OnePlace /\ (SteadyInv => StatusAgrees)
  BY DEF CalmInv, SteadyInv
<1>2. UNCHANGED store => ResultsStay
  BY DEF ResultsStay
<1>3. ASSUME NEW n \in Nodes, NEW i \in Slots, Quiet(n, i)
      PROVE  Goal
  <2>1. PICK f : MovesTo(n, i, f) /\ (StatusAgrees => Proper(n, i, f))
    BY <1>3 DEF Quiet
  <2>2. UNCHANGED store
    BY <1>3 DEF Quiet
  <2>3. NodesUp' /\ OnePlace'
    BY <1>1, <2>1, MoveCalm
  <2>4. ASSUME StatusAgrees PROVE StatusAgrees'
    BY <1>1, <2>1, <2>2, <2>4, MoveSteady
  <2> QED BY <1>1, <1>2, <2>2, <2>3, <2>4
<1>4. ASSUME NEW n \in Nodes, NEW i \in Slots, fiber[n][i].pc \in Loaded \ {"publish"}, StatusAgrees,
             NEW d, store' = [store EXCEPT ![fiber[n][i].task] = d]
      PROVE  ResultsStay
  <2>1. store[fiber[n][i].task].status # "completed"
    BY <1>4, HeldStatus
  <2> QED BY <1>4, <2>1 DEF ResultsStay, IInv, TypeOK
<1> SUFFICES Goal
  OBVIOUS
<1> HIDE DEF Goal
<1>5. CASE UNCHANGED vars
  <2>1. UNCHANGED <<store, queue, enqueued, fiber>> /\ NodesUp'
    BY <1>1, <1>5 DEF vars, redis, NodesUp, NoAlarm, CalmFiber, Running
  <2> QED BY <1>1, <1>2, <2>1, Still DEF Goal
<1>6. ASSUME NEW n \in Nodes, Lifecycle(n)
      PROVE  Goal
  BY <1>1, <1>2, <1>6, LifecycleCalm, Still DEF Goal
<1>7. ASSUME NEW n \in Nodes, NEW t \in Tasks, SubmitTask(n, t)
      PROVE  Goal
  <2>1. NodesUp' /\ OnePlace' /\ (StatusAgrees => StatusAgrees')
    BY <1>7, SubmitTaskCalm
  <2>2. enqueued[t] = 0 /\ \A u \in Tasks : u # t => store'[u] = store[u]
    BY SMTT(30), <1>7 DEF SubmitTask, CalmInv, Spared, Spend, Disturbances, IInv, TypeOK
  <2>3. StatusAgrees => store[t].status # "completed"
    BY SMTT(30), <2>2 DEF StatusAgrees, NoData
  <2> QED BY <1>1, <2>1, <2>2, <2>3 DEF Goal, ResultsStay
<1>8. ASSUME NEW n \in Nodes, NEW i \in Jobs, ProcessNextTask(n, i) \/ JobStep(n, i)
      PROVE  Goal
  <2>1. i \in Slots
    BY DEF Slots
  <2>2. CASE ClaimTask(n, i)
    <3>1. UNCHANGED store
      BY <2>2, Zenon DEF ClaimTask
    <3> QED BY <1>1, <1>2, <2>2, <3>1, ClaimTaskCalm DEF Goal
  <2>3. CASE ~ClaimTask(n, i)
    <3>1. Quiet(n, i)
      BY <1>1, <1>8, <2>3, JobQuiet, Zenon DEF JobStep
    <3> QED BY <1>3, <2>1, <3>1
  <2> QED BY <2>2, <2>3
<1>9. ASSUME NEW n \in Nodes, NEW i \in Monitors, HealthCheck(n, i) \/ MonitorStep(n, i)
      PROVE  Goal
  <2>1. i \in Slots /\ Quiet(n, i)
    BY <1>1, <1>9, MonitorQuiet DEF Slots
  <2> QED BY <1>3, <2>1
<1>10. ASSUME NEW n \in Nodes, NEW i \in Handlers, HandleRedisMessage(n, i) \/ HandlerStep(n, i)
       PROVE  Goal
  <2>1. i \in Slots /\ Quiet(n, i)
    BY <1>1, <1>10, HandlerQuiet DEF Slots
  <2> QED BY <1>3, <2>1
<1>11. ASSUME NEW n \in Nodes, NEW i \in Slots, SharedStep(n, i)
       PROVE  Goal
  <2>1. CASE UpdateNodeStatus(n, i) \/ UpdateTaskStatusGet(n, i) \/ RequeueTaskGet(n, i)
    BY <1>1, <1>3, <2>1, UpdateNodeStatusQuiet, UpdateTaskStatusGetQuiet, RequeueTaskGetQuiet
  <2>2. CASE UpdateTaskStatusSet(n, i)
    <3>1. NodesUp' /\ OnePlace' /\ (StatusAgrees => StatusAgrees')
      BY <2>2, UpdateTaskStatusSetCalm
    <3>2. /\ store' = [store EXCEPT ![fiber[n][i].task] = Updated(fiber[n][i])]
          /\ fiber[n][i].pc \in Loaded \ {"publish"}
      BY <2>2 DEF UpdateTaskStatusSet, At, Loaded, SharedPCs
    <3>3. StatusAgrees => ResultsStay
      BY <1>4, <3>2, Zenon
    <3> QED BY <1>1, <3>1, <3>3 DEF Goal
  <2>3. CASE RequeueTaskSet(n, i)
    <3> DEFINE d == [fiber[n][i].data EXCEPT !.status = "queued", !.retryCount = @ + 1]
    <3>1. NodesUp' /\ OnePlace' /\ (StatusAgrees => StatusAgrees')
      BY <2>3, RequeueTaskSetCalm
    <3>2. store' = [store EXCEPT ![fiber[n][i].task] = d] /\ fiber[n][i].pc \in Loaded \ {"publish"}
      BY <2>3 DEF RequeueTaskSet, At, Loaded, SharedPCs
    <3> HIDE DEF d
    <3>3. StatusAgrees => ResultsStay
      BY <1>4, <3>2, Zenon
    <3> QED BY <1>1, <3>1, <3>3 DEF Goal
  <2> QED BY <1>11, <2>1, <2>2, <2>3 DEF SharedStep
<1>12. ASSUME NEW n \in Nodes, NEW i \in Slots, RedisError(n, i)
       PROVE  Goal
  <2>1. PICK f : MovesTo(n, i, f)
    BY <1>1, <1>12, RedisErrorMoves
  <2>2. NodesUp' /\ OnePlace'
    BY <1>1, <2>1, MoveCalm
  <2>3. ~SteadyInv
    BY SMTT(30), <1>12 DEF RedisError, SteadyInv, Spared, Spend
  <2> QED BY <2>2, <2>3 DEF Goal
<1>13. CASE Environment
  <2>1. NodesUp' /\ OnePlace'
    BY <1>1, <1>13, EnvironmentCalm, Still
  <2>2. CASE UNCHANGED store
    BY <1>1, <1>2, <1>13, <2>1, <2>2, EnvironmentCalm, Still DEF Goal
  <2>3. ASSUME NEW t \in Tasks, TaskExpires(t)
        PROVE  Goal
    <3>1. ~Spared({"taskTTL"})
      BY SMTT(30), <2>3 DEF TaskExpires, Spared, Spend
    <3> QED BY <1>1, <2>1, <2>3, <3>1, TaskExpiresSteady DEF Goal
  <2>4. UNCHANGED store \/ \E t \in Tasks : TaskExpires(t)
    BY <1>13, EnvironmentCalm
  <2> QED BY <2>2, <2>3, <2>4, Zenon
<1> QED BY <1>5, <1>6, <1>7, <1>8, <1>9, <1>10, <1>11, <1>12, <1>13, Zenon DEF Next

LEMMA CalmInit == ASSUME Never(Disturbances), Init PROVE CalmInv /\ StatusAgrees
<1>1. Spared(Disturbances)
  BY DEF Never, Init, Spared
<1>2. \A n \in Nodes : \A i \in Slots : fiber[n][i] = Idle
  BY DEF Init
<1>3. Idle.pc = "idle" /\ Idle.peers = {} /\ Idle.pc \notin Loaded
  BY DEF Idle, Loaded, SharedPCs
<1>4. NodesUp
  <2>1. \A n \in Nodes : \A m \in Messages : inbox[n][m] = 0
    BY DEF Init, NoMessages
  <2>2. \A n \in Nodes : <<"failover", n>> \in Messages
    BY DEF Messages
  <2>3. \A t \in Tasks : <<"priority", t>> \in Messages
    BY DEF Messages
  <2>4. NoAlarm
    BY <2>1, <2>2, <2>3 DEF NoAlarm
  <2> QED BY <1>2, <1>3, <2>4 DEF NodesUp, CalmFiber, Init, Disturbed
<1>5. OnePlace
  BY <1>2, <1>3 DEF OnePlace, Holds, Init
<1>6. StatusAgrees
  BY <1>2, <1>3 DEF StatusAgrees, Holds, Init, NoData
<1> QED BY <1>1, <1>4, <1>5, <1>6 DEF CalmInv

LEMMA CalmNext == IInv /\ CalmInv /\ [Next]_vars => CalmInv'
<1> SUFFICES ASSUME IInv, CalmInv, [Next]_vars PROVE CalmInv'
  OBVIOUS
<1>1. Disturbances \in SUBSET Faults
  BY DEF Disturbances, Faults
<1>2. Spared(Disturbances)'
  BY <1>1, StaysSpared DEF CalmInv
<1> QED BY <1>2, CalmStep DEF CalmInv

LEMMA SteadyNext == IInv /\ CalmInv /\ SteadyInv /\ [Next]_vars => SteadyInv'
<1> SUFFICES ASSUME IInv, CalmInv, SteadyInv, [Next]_vars PROVE SteadyInv'
  OBVIOUS
<1>1. {"redis"} \in SUBSET Faults
  BY DEF Faults
<1>2. Spared({"redis"})'
  BY <1>1, StaysSpared DEF SteadyInv
<1> QED BY <1>2, CalmStep DEF SteadyInv

LEMMA CalmAlways == ASSUME Never(Disturbances) PROVE Spec => []CalmInv
<1>1. Init => CalmInv
  BY CalmInit
<1> QED BY <1>1, CalmNext, Inductive, PTL DEF Spec

LEMMA SteadyAlways == ASSUME Never(Disturbances), Never({"redis"}) PROVE Spec => []SteadyInv
<1>1. Init => SteadyInv
  <2> SUFFICES ASSUME Init PROVE SteadyInv
    OBVIOUS
  <2>1. Spared({"redis"})
    BY DEF Never, Init, Spared
  <2> QED BY <2>1, CalmInit DEF SteadyInv
<1> QED BY <1>1, SteadyNext, CalmAlways, Inductive, PTL DEF Spec

(* While no node crashes, shuts down or stalls for the 60 s of its key, no *)
(* task id is submitted twice and no priority is changed, processNextTask  *)
(* and executeTask never run a task twice at a time, on however many nodes *)
(* and with however many overlapping calls. Redis commands, executions and *)
(* deliveries may fail and claims and task data may expire as they like.   *)
THEOREM SingleRun == ASSUME Never(Disturbances) PROVE Spec => []OneRunAtATime
<1>1. IInv /\ CalmInv => OneRunAtATime
  <2> SUFFICES ASSUME IInv, CalmInv, NEW t \in Tasks
               PROVE  Cardinality(RunsOf(t)) <= 1
    BY DEF OneRunAtATime
  <2>1. \A r \in RunsOf(t) : /\ r \in Nodes \X Jobs /\ r[1] \in Nodes /\ r[2] \in Slots
                             /\ Holds(r[1], r[2], t)
    <3> SUFFICES ASSUME NEW r \in RunsOf(t)
                 PROVE  /\ r \in Nodes \X Jobs /\ r[1] \in Nodes /\ r[2] \in Slots
                        /\ Holds(r[1], r[2], t)
      OBVIOUS
    <3>1. r \in Nodes \X Jobs /\ r[1] \in Nodes /\ r[2] \in Slots
      BY DEF RunsOf, Slots
    <3>2. FiberInv(fiber[r[1]][r[2]], r[2])
      BY <3>1, FiberAt
    <3> QED BY <3>1, <3>2 DEF RunsOf, Holds, FiberInv, Loaded, SharedPCs
  <2>2. \A r, s \in RunsOf(t) : r = s
    BY SMTT(30), <2>1 DEF CalmInv, OnePlace
  <2>3. RunsOf(t) = {} \/ \E r : RunsOf(t) = {r}
    BY <2>2
  <2> DEFINE runs == RunsOf(t)
  <2> HIDE DEF runs
  <2>4. CASE runs = {}
    <3>1. Cardinality(runs) = 0
      BY <2>4, FS_EmptySet
    <3> QED BY SMTT(30), <3>1 DEF runs
  <2>5. ASSUME NEW r, runs = {r}
        PROVE  Cardinality(RunsOf(t)) <= 1
    <3>1. Cardinality(runs) = 1
      BY <2>5, FS_Singleton
    <3> QED BY SMTT(30), <3>1 DEF runs
  <2> QED BY <2>3, <2>4, <2>5 DEF runs
<1> QED BY <1>1, CalmAlways, Inductive, PTL

(* While, in addition, no Redis command is rejected, no task is lost: one  *)
(* that is queued or processing by its status is in the queue or in a      *)
(* job's hands, however executions fail, claims and data expire and        *)
(* updateTaskStatus and requeueTask read and write in separate commands.   *)
THEOREM NothingLost == ASSUME Never(Disturbances), Never({"redis"}) PROVE Spec => []NoTaskLost
<1>1. SteadyInv => NoTaskLost
  BY DEF SteadyInv, StatusAgrees, NoTaskLost
<1> QED BY <1>1, SteadyAlways, PTL

(* While, in addition, no task data expires, the result that getTaskResult *)
(* reports for a completed task never changes: a retry is only ever made   *)
(* of a run that has not completed.                                        *)
THEOREM ResultFinal ==
  ASSUME Never(Disturbances), Never({"redis"}), Never({"taskTTL"})
  PROVE  Spec => CompletedIsFinal
<1>1. Init => Spared({"taskTTL"})
  BY DEF Never, Init, Spared
<1>2. IInv /\ Spared({"taskTTL"}) /\ [Next]_vars => Spared({"taskTTL"})'
  BY StaysSpared DEF Faults
<1>3. IInv /\ CalmInv /\ SteadyInv /\ Spared({"taskTTL"}) /\ [Next]_vars
        => [\A t \in Tasks : store[t].status = "completed" /\ (\A n \in Nodes : phase[n] # "down")
              => store'[t] = store[t]]_vars
  BY CalmStep DEF ResultsStay
<1> QED BY <1>1, <1>2, <1>3, SteadyAlways, CalmAlways, Inductive, PTL DEF Spec, CompletedIsFinal

=============================================================================
