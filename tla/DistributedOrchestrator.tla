----------------------- MODULE DistributedOrchestrator -----------------------
(***************************************************************************)
(* A cluster of bridge nodes that share a task queue kept in Redis         *)
(* (src/src/distributed/distributed-orchestrator.ts).                      *)
(*                                                                         *)
(* Every asynchronous activity of a node (a pass of the task timer, a pass *)
(* of the health timer, the handling of one pub/sub message) is a fiber.   *)
(* A step of a fiber is one Redis command and the code that runs after its *)
(* reply up to the next await; fibers of one node and of different nodes   *)
(* interleave between awaits, exactly as the event loop lets them.         *)
(***************************************************************************)
EXTENDS Integers, FiniteSets

CONSTANTS
  Nodes,            \* node ids: nodes keep their id when restarted
  Tasks,            \* task ids
  None,             \* no node, no task
  Jobs,             \* bound: overlapping processNextTask calls of a node
  Monitors,         \* bound: overlapping health checks of a node
  Handlers,         \* bound: pub/sub messages a node handles at a time
  MaxConcurrency,   \* config.maxConcurrency
  MaxRetries,       \* the 3 of requeueTask
  Budgets           \* bound: how often each kind of fault may happen, one choice per behaviour

Faults == {"crash", "restart", "shutdown", "slow", "throw", "redis", "lost",
           "claimTTL", "taskTTL", "resubmit", "priority", "rebalance"}

Slots == Jobs \cup Monitors \cup Handlers

ASSUME ConstantsAssumption ==
  /\ IsFiniteSet(Nodes) /\ IsFiniteSet(Jobs)
  /\ Jobs \cap Monitors = {} /\ Jobs \cap Handlers = {} /\ Monitors \cap Handlers = {}
  /\ None \notin Nodes /\ None \notin Tasks
  /\ MaxConcurrency \in Nat \ {0}
  /\ MaxRetries \in Nat
  /\ Budgets \subseteq [Faults -> Nat]

VARIABLES
  store,            \* task:<id>, the task's data
  queue,            \* task:queue, without the scores
  claim,            \* task:claim:<id>, the node that claimed the task
  nodeKey,          \* the nodes whose node:<id> key exists
  nodesActive,      \* nodes:active
  inbox,            \* pub/sub messages on their way to each subscriber
  phase,            \* where a node's process is between start and shutdown
  currentLoad, maxConcurrency,   \* nodeInfo
  fiber,            \* the node's activities
  budget,           \* faults still allowed
  enqueued, claimed, leaked      \* history: zadds, claims, lost decrements

redis == <<store, queue, claim, nodeKey, nodesActive>>
vars == <<redis, inbox, phase, currentLoad, maxConcurrency, fiber, budget,
          enqueued, claimed, leaked>>

-----------------------------------------------------------------------------
(* Data. *)

NoData == [status |-> "missing", retryCount |-> 0, result |-> "none"]

TaskData == [status: {"queued", "processing", "completed", "failed"},
             retryCount: 0..MaxRetries,
             result: {"none", "success", "failure"}]

Phases == {"new", "registered", "starting", "active", "closing", "quitting", "down"}

Running(n) == phase[n] \in {"starting", "active"}      \* isActive, timers armed
Subscribed(n) == phase[n] \in {"starting", "active", "closing", "quitting"}
Alive(n) == phase[n] \notin {"new", "down"}

JobPCs == {"claim", "begin", "load", "run", "publish", "end", "unclaim"}
MonitorPCs == {"beat", "members", "probe", "failNode"}
HandlerPCs == {"keys", "holder", "priority", "rebalance", "rebalanced"}
SharedPCs == {"statusGet", "statusSet", "requeueGet", "requeueSet"}

(* The awaits of executeTask between currentLoad++ and currentLoad--. *)
Loaded == {"begin", "load", "run", "publish"} \cup SharedPCs

Idle == [pc |-> "idle", task |-> None, data |-> NoData, op |-> "none",
         result |-> "none", todo |-> {}, peers |-> {}, node |-> None]

Fiber == [pc: {"idle"} \cup JobPCs \cup MonitorPCs \cup HandlerPCs \cup SharedPCs,
          task: Tasks \cup {None},
          data: TaskData \cup {NoData},
          op: {"none", "processing", "completed", "failed", "exceeded"},
          result: {"none", "success", "failure"},
          todo: SUBSET Tasks,
          peers: SUBSET Nodes,
          node: Nodes \cup {None}]

Messages == ({"failover"} \X Nodes) \cup ({"priority"} \X Tasks)
              \cup {<<"rebalance", None>>}

NoMessages == [m \in Messages |-> 0]

-----------------------------------------------------------------------------
(* Steps of a fiber. *)

At(n, i, pc) == fiber[n][i].pc = pc

Become(n, i, f) == fiber' = [fiber EXCEPT ![n][i] = f]

Goto(n, i, pc) == Become(n, i, [fiber[n][i] EXCEPT !.pc = pc])

Spend(fault) ==
  /\ budget[fault] > 0
  /\ budget' = [budget EXCEPT ![fault] = @ - 1]

(* zadd task:queue *)
Enqueue(t) ==
  /\ queue' = queue \cup {t}
  /\ enqueued' = [enqueued EXCEPT ![t] = @ + 1]

(* Mutant: the message is never published. *)
Deliveries_None(m) == inbox

(* redis.publish reaches the nodes that are subscribed now. *)
Deliveries(m) ==
  [n \in Nodes |-> IF Subscribed(n) THEN [inbox[n] EXCEPT ![m] = @ + 1] ELSE inbox[n]]

OnlyFiber == UNCHANGED <<redis, inbox, phase, currentLoad, maxConcurrency, budget,
                         enqueued, claimed, leaked>>
Unchanged_Local == UNCHANGED <<phase, maxConcurrency, budget, leaked>>
Unchanged_Queue == UNCHANGED <<queue, claim, enqueued, claimed>>
Unchanged_Cluster == UNCHANGED <<nodeKey, nodesActive, inbox>>

-----------------------------------------------------------------------------
(* start() *)

(* The process is created and registerNode's MULTI runs. *)
RegisterNode(n) ==
  /\ \/ phase[n] = "new" /\ UNCHANGED budget
     \/ phase[n] = "down" /\ Spend("restart")
  /\ phase' = [phase EXCEPT ![n] = "registered"]
  /\ nodeKey' = nodeKey \cup {n}
  /\ nodesActive' = nodesActive \cup {n}
  /\ UNCHANGED <<store, inbox, currentLoad, maxConcurrency, fiber, leaked>>
  /\ Unchanged_Queue

(* The subscription is in place; the timers are armed and isActive is set. *)
SubscribeToChannels(n) ==
  /\ phase[n] = "registered"
  /\ phase' = [phase EXCEPT ![n] = "starting"]
  /\ UNCHANGED <<redis, inbox, currentLoad, maxConcurrency, fiber, budget,
                 enqueued, claimed, leaked>>

(* start's last await; the HTTP server listens from here on. *)
Started(n) ==
  /\ phase[n] = "starting"
  /\ phase' = [phase EXCEPT ![n] = "active"]
  /\ nodeKey' = nodeKey \cup {n}
  /\ UNCHANGED <<store, nodesActive, inbox, currentLoad, maxConcurrency, fiber,
                 budget, leaked>>
  /\ Unchanged_Queue

-----------------------------------------------------------------------------
(* submitTask, called by POST /tasks. A client may reuse the id of a task. *)

SubmitTask(n, t) ==
  /\ phase[n] \in {"active", "closing", "quitting"}
  /\ IF enqueued[t] = 0 THEN UNCHANGED budget ELSE Spend("resubmit")
  /\ store' = [store EXCEPT ![t] = [status |-> "queued", retryCount |-> 0,
                                    result |-> "none"]]
  /\ Enqueue(t)
  /\ UNCHANGED <<claim, claimed, phase, currentLoad, maxConcurrency, fiber, leaked>>
  /\ Unchanged_Cluster

-----------------------------------------------------------------------------
(* processNextTask and executeTask. *)

(* A tick of the task timer that finds the node below its capacity. *)
ProcessNextTask(n, i) ==
  /\ Running(n) /\ At(n, i, "idle")
  /\ currentLoad[n] < maxConcurrency[n]
  /\ Goto(n, i, "claim")
  /\ OnlyFiber

(* Mutant: the script reads the first task and leaves it in the queue. *)
Popped_Kept(t) == queue

(* zpopmax *)
Popped(t) == queue \ {t}

(* The claim script, then executeTask up to its first await. *)
ClaimTask(n, i) ==
  /\ At(n, i, "claim")
  /\ \/ /\ queue = {}
        /\ Become(n, i, Idle)
        /\ UNCHANGED <<queue, claim, claimed, currentLoad>>
     \/ \E t \in queue :
          /\ queue' = Popped(t)
          /\ claim' = [claim EXCEPT ![t] = n]
          /\ claimed' = [claimed EXCEPT ![t] = @ + 1]
          /\ currentLoad' = [currentLoad EXCEPT ![n] = @ + 1]
          /\ Become(n, i, [Idle EXCEPT !.pc = "begin", !.task = t])
  /\ UNCHANGED <<store, enqueued>>
  /\ Unchanged_Cluster /\ Unchanged_Local

UpdateStatus(f, op) == [f EXCEPT !.pc = "statusGet", !.op = op]

(* A missing task throws, which leads to the catch block. *)
LoadTask(n, i) ==
  /\ At(n, i, "load")
  /\ LET f == fiber[n][i]
     IN  Become(n, i, UpdateStatus(f, IF store[f.task] = NoData THEN "failed"
                                                                 ELSE "processing"))
  /\ OnlyFiber

(* executeWithRetry(processMessage): processMessage turns the adapters'   *)
(* errors into a result with success = false; only a timeout of the retry *)
(* manager, an open breaker or an unknown adapter throws.                 *)
Execute(n, i) ==
  /\ At(n, i, "run")
  /\ \/ \E r \in {"success", "failure"} :
          Become(n, i, [UpdateStatus(fiber[n][i], "completed") EXCEPT !.result = r])
        /\ UNCHANGED budget
     \/ Become(n, i, UpdateStatus(fiber[n][i], "failed")) /\ Spend("throw")
  /\ UNCHANGED <<store, phase, currentLoad, maxConcurrency, leaked>>
  /\ Unchanged_Queue /\ Unchanged_Cluster

(* Mutant: the load is not decremented. *)
Finally_NoDecrement(n, i) ==
  /\ Become(n, i, [Idle EXCEPT !.pc = "end", !.task = fiber[n][i].task])
  /\ UNCHANGED currentLoad

(* The finally block up to its first await. *)
Finally(n, i) ==
  /\ Become(n, i, [Idle EXCEPT !.pc = "end", !.task = fiber[n][i].task])
  /\ currentLoad' = [currentLoad EXCEPT ![n] = @ - 1]

PublishCompleted(n, i) ==
  /\ At(n, i, "publish")
  /\ Finally(n, i)
  /\ UNCHANGED store
  /\ Unchanged_Queue /\ Unchanged_Cluster /\ Unchanged_Local

(* The claim is deleted whoever holds it by now. *)
ReleaseClaim(n, i) ==
  /\ At(n, i, "unclaim")
  /\ claim' = [claim EXCEPT ![fiber[n][i].task] = None]
  /\ Become(n, i, Idle)
  /\ UNCHANGED <<store, queue, enqueued, claimed, currentLoad>>
  /\ Unchanged_Cluster /\ Unchanged_Local

-----------------------------------------------------------------------------
(* updateNodeStatus, updateTaskStatus and requeueTask, which jobs, health  *)
(* checks and message handlers share.                                      *)

(* Where the callers of updateNodeStatus go on. *)
AfterHeartbeat(pc) ==
  CASE pc = "begin" -> "load" [] pc = "end" -> "unclaim" [] pc = "beat" -> "members"
    [] pc = "rebalanced" -> "idle"

UpdateNodeStatus(n, i) ==
  /\ fiber[n][i].pc \in {"begin", "end", "beat", "rebalanced"}
  /\ nodeKey' = nodeKey \cup {n}
  /\ Goto(n, i, AfterHeartbeat(fiber[n][i].pc))
  /\ UNCHANGED <<store, nodesActive, inbox, currentLoad>>
  /\ Unchanged_Queue /\ Unchanged_Local

(* What runs after requeueTask: executeTask's finally block, or the next   *)
(* claim key of handleNodeFailover.                                        *)
AfterRequeue(n, i) ==
  IF i \in Jobs
  THEN Finally(n, i)
  ELSE /\ Become(n, i, IF fiber[n][i].todo = {} THEN Idle
                       ELSE [Idle EXCEPT !.pc = "holder", !.node = fiber[n][i].node,
                                         !.todo = fiber[n][i].todo])
       /\ UNCHANGED currentLoad

(* What runs after updateTaskStatus. No error of this code carries one of  *)
(* the codes isRetryableTask refuses, so a failed task is always requeued. *)
AfterStatus(n, i) ==
  LET f == [fiber[n][i] EXCEPT !.op = "none", !.data = NoData]
  IN  CASE fiber[n][i].op = "processing" ->
             Become(n, i, [f EXCEPT !.pc = "run"]) /\ UNCHANGED currentLoad
        [] fiber[n][i].op = "completed" ->
             Become(n, i, [f EXCEPT !.pc = "publish"]) /\ UNCHANGED currentLoad
        [] fiber[n][i].op = "failed" ->
             Become(n, i, [f EXCEPT !.pc = "requeueGet"]) /\ UNCHANGED currentLoad
        [] OTHER -> AfterRequeue(n, i)

UpdateTaskStatusGet(n, i) ==
  /\ At(n, i, "statusGet")
  /\ LET d == store[fiber[n][i].task]
     IN  IF d = NoData
         THEN AfterStatus(n, i)
         ELSE /\ Become(n, i, [fiber[n][i] EXCEPT !.pc = "statusSet", !.data = d])
              /\ UNCHANGED currentLoad
  /\ UNCHANGED store
  /\ Unchanged_Queue /\ Unchanged_Cluster /\ Unchanged_Local

(* The record updateTaskStatus writes back. *)
Updated(f) ==
  CASE f.op = "completed" -> [f.data EXCEPT !.status = "completed", !.result = f.result]
    [] f.op = "processing" -> [f.data EXCEPT !.status = "processing"]
    [] OTHER -> [f.data EXCEPT !.status = "failed"]

UpdateTaskStatusSet(n, i) ==
  /\ At(n, i, "statusSet")
  /\ store' = [store EXCEPT ![fiber[n][i].task] = Updated(fiber[n][i])]
  /\ AfterStatus(n, i)
  /\ Unchanged_Queue /\ Unchanged_Cluster /\ Unchanged_Local

MaxRetriesExceeded(d) == d.retryCount + 1 > MaxRetries

RequeueTaskGet(n, i) ==
  /\ At(n, i, "requeueGet")
  /\ LET f == fiber[n][i]
         d == store[f.task]
     IN  IF d = NoData
         THEN AfterRequeue(n, i)
         ELSE /\ Become(n, i, IF MaxRetriesExceeded(d)
                              THEN UpdateStatus(f, "exceeded")
                              ELSE [f EXCEPT !.pc = "requeueSet", !.data = d])
              /\ UNCHANGED currentLoad
  /\ UNCHANGED store
  /\ Unchanged_Queue /\ Unchanged_Cluster /\ Unchanged_Local

RequeueTaskSet(n, i) ==
  /\ At(n, i, "requeueSet")
  /\ LET f == fiber[n][i]
     IN  /\ store' = [store EXCEPT ![f.task] =
                        [f.data EXCEPT !.status = "queued", !.retryCount = @ + 1]]
         /\ Enqueue(f.task)
  /\ AfterRequeue(n, i)
  /\ UNCHANGED <<claim, claimed>>
  /\ Unchanged_Cluster /\ Unchanged_Local

-----------------------------------------------------------------------------
(* The health timer. *)

HealthCheck(n, i) ==
  /\ Running(n) /\ At(n, i, "idle")
  /\ Goto(n, i, "beat")
  /\ OnlyFiber

Probe(peers) == IF peers = {} THEN Idle ELSE [Idle EXCEPT !.pc = "probe", !.peers = peers]

ListNodes(n, i) ==
  /\ At(n, i, "members")
  /\ Become(n, i, Probe(nodesActive \ {n}))
  /\ OnlyFiber

ProbeNode(n, i) ==
  /\ At(n, i, "probe")
  /\ \E m \in fiber[n][i].peers :
       Become(n, i, IF m \in nodeKey
                    THEN Probe(fiber[n][i].peers \ {m})
                    ELSE [Idle EXCEPT !.pc = "failNode", !.node = m,
                                      !.peers = fiber[n][i].peers \ {m}])
  /\ OnlyFiber

HandleNodeFailure(n, i) ==
  /\ At(n, i, "failNode")
  /\ nodesActive' = nodesActive \ {fiber[n][i].node}
  /\ inbox' = Deliveries(<<"failover", fiber[n][i].node>>)
  /\ Become(n, i, Probe(fiber[n][i].peers))
  /\ UNCHANGED <<store, nodeKey, currentLoad>>
  /\ Unchanged_Queue /\ Unchanged_Local

-----------------------------------------------------------------------------
(* Pub/sub messages. *)

Receive(n, m) ==
  /\ inbox[n][m] > 0
  /\ inbox' = [inbox EXCEPT ![n][m] = @ - 1]

(* handleRedisMessage, up to the first await of the handler it selects. *)
HandleRedisMessage(n, i) ==
  /\ Subscribed(n) /\ At(n, i, "idle")
  /\ \/ \E f \in Nodes :
          /\ Receive(n, <<"failover", f>>)
          /\ Become(n, i, IF f = n THEN Idle ELSE [Idle EXCEPT !.pc = "keys", !.node = f])
     \/ \E t \in Tasks :
          /\ Receive(n, <<"priority", t>>)
          /\ Become(n, i, [Idle EXCEPT !.pc = "priority", !.task = t])
     \/ /\ Receive(n, <<"rebalance", None>>)
        /\ Become(n, i, [Idle EXCEPT !.pc = "rebalance"])
  /\ UNCHANGED <<store, nodeKey, nodesActive, currentLoad>>
  /\ Unchanged_Queue /\ Unchanged_Local

(* handleNodeFailover: the claim keys, then the holder of each in turn. *)
ListClaims(n, i) ==
  /\ At(n, i, "keys")
  /\ LET keys == {t \in Tasks : claim[t] # None}
     IN  Become(n, i, IF keys = {} THEN Idle
                      ELSE [fiber[n][i] EXCEPT !.pc = "holder", !.todo = keys])
  /\ OnlyFiber

Orphaned(t, failedNode) == claim[t] = failedNode

CheckHolder(n, i) ==
  /\ At(n, i, "holder")
  /\ LET f == fiber[n][i]
     IN  \E t \in f.todo :
           LET g == [f EXCEPT !.todo = f.todo \ {t}]
           IN  Become(n, i, IF Orphaned(t, f.node)
                            THEN [g EXCEPT !.pc = "requeueGet", !.task = t]
                            ELSE IF g.todo = {} THEN Idle ELSE g)
  /\ OnlyFiber

HandlePriorityUpdate(n, i) ==
  /\ At(n, i, "priority")
  /\ Enqueue(fiber[n][i].task)
  /\ Become(n, i, Idle)
  /\ UNCHANGED <<store, claim, claimed, currentLoad>>
  /\ Unchanged_Cluster /\ Unchanged_Local

(* handleClusterRebalance: the new capacity is a share of the current one. *)
TargetConcurrency(n) ==
  LET share == maxConcurrency[n] \div Cardinality(nodesActive)
  IN  IF share < 1 THEN 1 ELSE share

HandleClusterRebalance(n, i) ==
  /\ At(n, i, "rebalance")
  /\ IF nodesActive = {}
     THEN Become(n, i, Idle) /\ UNCHANGED maxConcurrency
     ELSE /\ maxConcurrency' = [maxConcurrency EXCEPT ![n] = TargetConcurrency(n)]
          /\ Goto(n, i, "rebalanced")
  /\ UNCHANGED <<store, phase, currentLoad, budget, leaked>>
  /\ Unchanged_Queue /\ Unchanged_Cluster

-----------------------------------------------------------------------------
(* shutdown() *)

(* The process is gone and with it everything it kept in memory. *)
Halt(n) ==
  /\ phase' = [phase EXCEPT ![n] = "down"]
  /\ fiber' = [fiber EXCEPT ![n] = [i \in Slots |-> Idle]]
  /\ currentLoad' = [currentLoad EXCEPT ![n] = 0]
  /\ maxConcurrency' = [maxConcurrency EXCEPT ![n] = MaxConcurrency]
  /\ leaked' = [leaked EXCEPT ![n] = 0]
  /\ inbox' = [inbox EXCEPT ![n] = NoMessages]

(* isActive is cleared and the timers are stopped. *)
Shutdown(n) ==
  /\ phase[n] = "active" /\ Spend("shutdown")
  /\ phase' = [phase EXCEPT ![n] = "closing"]
  /\ UNCHANGED <<redis, inbox, currentLoad, maxConcurrency, fiber, enqueued,
                 claimed, leaked>>

UnregisterNode(n) ==
  /\ phase[n] = "closing"
  /\ phase' = [phase EXCEPT ![n] = "quitting"]
  /\ nodeKey' = nodeKey \ {n}
  /\ nodesActive' = nodesActive \ {n}
  /\ UNCHANGED <<store, inbox, currentLoad, maxConcurrency, fiber, budget, leaked>>
  /\ Unchanged_Queue

(* The connections are closed, then the server exits the process: no       *)
(* activity of the node reaches Redis any more.                            *)
Quit(n) ==
  /\ phase[n] = "quitting"
  /\ Halt(n)
  /\ UNCHANGED <<redis, budget, enqueued, claimed>>

-----------------------------------------------------------------------------
(* Faults and the environment. *)

Crash(n) ==
  /\ Alive(n) /\ Spend("crash")
  /\ Halt(n)
  /\ UNCHANGED <<redis, enqueued, claimed>>

(* The 60 s of node:<id> pass without a heartbeat: always for a node that  *)
(* is down, and for a live one whose event loop or connection is stuck.    *)
NodeKeyExpires(n) ==
  /\ n \in nodeKey
  /\ IF Alive(n) THEN Spend("slow") ELSE UNCHANGED budget
  /\ nodeKey' = nodeKey \ {n}
  /\ UNCHANGED <<store, nodesActive, inbox, phase, currentLoad, maxConcurrency,
                 fiber, leaked>>
  /\ Unchanged_Queue

(* The 300 s of a claim pass. *)
ClaimExpires(t) ==
  /\ claim[t] # None /\ Spend("claimTTL")
  /\ claim' = [claim EXCEPT ![t] = None]
  /\ UNCHANGED <<store, queue, inbox, nodeKey, nodesActive, phase, currentLoad,
                 maxConcurrency, fiber, enqueued, claimed, leaked>>

(* The 24 h of the task's data pass. *)
TaskExpires(t) ==
  /\ store[t] # NoData /\ Spend("taskTTL")
  /\ store' = [store EXCEPT ![t] = NoData]
  /\ UNCHANGED <<inbox, nodeKey, nodesActive, phase, currentLoad, maxConcurrency,
                 fiber, leaked>>
  /\ Unchanged_Queue

(* A subscriber's connection drops while a message is on its way. *)
LoseMessage(n, m) ==
  /\ Receive(n, m) /\ Spend("lost")
  /\ UNCHANGED <<redis, phase, currentLoad, maxConcurrency, fiber, enqueued,
                 claimed, leaked>>

(* An operator publishes on task:priority_update or cluster:rebalance. *)
OperatorPublishes(m) ==
  /\ m[1] # "failover" /\ Spend(m[1])
  /\ m[1] = "priority" => enqueued[m[2]] > 0
  /\ inbox' = Deliveries(m)
  /\ UNCHANGED <<redis, phase, currentLoad, maxConcurrency, fiber, enqueued,
                 claimed, leaked>>

(* The Redis command a fiber awaits is rejected, without having run. The   *)
(* error ends up in the catch or finally block that encloses the await.    *)
RedisError(n, i) ==
  LET f == fiber[n][i]
      inTry == f.pc \in {"load", "publish"} \/ f.op \in {"processing", "completed"}
      inCatch == f.pc \in SharedPCs /\ ~inTry
  IN  /\ ~At(n, i, "idle") /\ ~At(n, i, "run") /\ Spend("redis")
      /\ \/ /\ i \in Jobs /\ inTry
            /\ Become(n, i, UpdateStatus([Idle EXCEPT !.task = f.task], "failed"))
            /\ UNCHANGED <<currentLoad, leaked>>
         \/ /\ i \in Jobs /\ inCatch
            /\ Finally(n, i)
            /\ UNCHANGED leaked
         \/ /\ i \in Jobs => ~inTry /\ ~inCatch
            /\ Become(n, i, Idle)
            /\ leaked' = [leaked EXCEPT ![n] = IF f.pc = "begin" THEN @ + 1 ELSE @]
            /\ UNCHANGED currentLoad
      /\ UNCHANGED <<redis, inbox, phase, maxConcurrency, enqueued, claimed>>

-----------------------------------------------------------------------------
Init ==
  /\ store = [t \in Tasks |-> NoData]
  /\ queue = {}
  /\ claim = [t \in Tasks |-> None]
  /\ nodeKey = {} /\ nodesActive = {}
  /\ inbox = [n \in Nodes |-> NoMessages]
  /\ phase = [n \in Nodes |-> "new"]
  /\ currentLoad = [n \in Nodes |-> 0]
  /\ maxConcurrency = [n \in Nodes |-> MaxConcurrency]
  /\ fiber = [n \in Nodes |-> [i \in Slots |-> Idle]]
  /\ budget \in Budgets
  /\ enqueued = [t \in Tasks |-> 0]
  /\ claimed = [t \in Tasks |-> 0]
  /\ leaked = [n \in Nodes |-> 0]

JobStep(n, i) ==
  \/ ClaimTask(n, i) \/ LoadTask(n, i) \/ Execute(n, i)
  \/ PublishCompleted(n, i) \/ ReleaseClaim(n, i)

SharedStep(n, i) ==
  \/ UpdateNodeStatus(n, i)
  \/ UpdateTaskStatusGet(n, i) \/ UpdateTaskStatusSet(n, i)
  \/ RequeueTaskGet(n, i) \/ RequeueTaskSet(n, i)

MonitorStep(n, i) ==
  ListNodes(n, i) \/ ProbeNode(n, i) \/ HandleNodeFailure(n, i)

HandlerStep(n, i) ==
  \/ ListClaims(n, i) \/ CheckHolder(n, i) \/ HandlePriorityUpdate(n, i)
  \/ HandleClusterRebalance(n, i)

Lifecycle(n) ==
  \/ RegisterNode(n) \/ SubscribeToChannels(n) \/ Started(n)
  \/ Shutdown(n) \/ UnregisterNode(n) \/ Quit(n) \/ Crash(n) \/ NodeKeyExpires(n)

Environment ==
  \/ \E t \in Tasks : ClaimExpires(t) \/ TaskExpires(t)
  \/ \E m \in Messages : OperatorPublishes(m) \/ \E n \in Nodes : LoseMessage(n, m)

Next ==
  \/ \E n \in Nodes :
       \/ Lifecycle(n)
       \/ \E t \in Tasks : SubmitTask(n, t)
       \/ \E i \in Jobs : ProcessNextTask(n, i) \/ JobStep(n, i)
       \/ \E i \in Monitors : HealthCheck(n, i) \/ MonitorStep(n, i)
       \/ \E i \in Handlers : HandleRedisMessage(n, i) \/ HandlerStep(n, i)
       \/ \E i \in Slots : SharedStep(n, i) \/ RedisError(n, i)
  \/ Environment

Spec == Init /\ [][Next]_vars

(* Commands are answered, the timers keep firing, messages that are not    *)
(* lost arrive, every node is started once and the key of a dead node      *)
(* expires. Nothing forces a fault, a client or an operator.               *)
Fairness ==
  \A n \in Nodes :
    /\ WF_vars((phase[n] = "new" /\ RegisterNode(n)) \/ SubscribeToChannels(n) \/ Started(n)
                 \/ UnregisterNode(n) \/ Quit(n))
    /\ WF_vars(~Alive(n) /\ NodeKeyExpires(n))
    /\ WF_vars(\E i \in Jobs : ProcessNextTask(n, i))
    /\ WF_vars(\E i \in Monitors : HealthCheck(n, i))
    /\ WF_vars(\E i \in Handlers : HandleRedisMessage(n, i))
    /\ \A i \in Jobs : WF_vars(JobStep(n, i) \/ SharedStep(n, i))
    /\ \A i \in Monitors : WF_vars(MonitorStep(n, i) \/ SharedStep(n, i))
    /\ \A i \in Handlers : WF_vars(HandlerStep(n, i) \/ SharedStep(n, i))

FairSpec == Spec /\ Fairness

-----------------------------------------------------------------------------
(* Properties. *)

(* Every variable keeps its type; in particular no copy of a task's data,  *)
(* stored or held by an activity, has been retried more than MaxRetries    *)
(* times, although the count is read and written by separate commands.     *)
TypeOK ==
  /\ store \in [Tasks -> TaskData \cup {NoData}]
  /\ queue \in SUBSET Tasks
  /\ claim \in [Tasks -> Nodes \cup {None}]
  /\ nodeKey \in SUBSET Nodes /\ nodesActive \in SUBSET Nodes
  /\ inbox \in [Nodes -> [Messages -> Nat]]
  /\ phase \in [Nodes -> Phases]
  /\ currentLoad \in [Nodes -> Nat]
  /\ maxConcurrency \in [Nodes -> Nat \ {0}]
  /\ fiber \in [Nodes -> [Slots -> Fiber]]
  /\ budget \in [Faults -> Nat]
  /\ enqueued \in [Tasks -> Nat] /\ claimed \in [Tasks -> Nat]
  /\ leaked \in [Nodes -> Nat]

(* The jobs of a node that are between currentLoad++ and currentLoad--. *)
Executing(n) == {i \in Jobs : fiber[n][i].pc \in Loaded}

(* A node's currentLoad is the number of jobs it is executing, plus the    *)
(* jobs whose first heartbeat was rejected: executeTask increments the     *)
(* load before its try block, so those never decrement it.                 *)
LoadCountsJobs ==
  \A n \in Nodes : currentLoad[n] = Cardinality(Executing(n)) + leaked[n]

(* A task is executed at most once for each time it was put in the queue,  *)
(* whatever nodes crash, stall or claim concurrently: the claim script     *)
(* pops and claims in one step.                                            *)
ClaimedOncePerEnqueue ==
  \A t \in Tasks : claimed[t] + (IF t \in queue THEN 1 ELSE 0) <= enqueued[t]

(* The jobs that are executing a task and have not failed. *)
RunsOf(t) ==
  {r \in Nodes \X Jobs :
     LET f == fiber[r[1]][r[2]]
     IN  /\ f.task = t
         /\ \/ f.pc \in {"begin", "load", "run", "publish"}
            \/ f.op \in {"processing", "completed"}}

(* No task is executed by two jobs at the same time, although a failed job *)
(* puts its task back in the queue before it ends, so that the next run    *)
(* may start, and be claimed, beside it. Holds while no node is suspected: *)
(* each survivor of a crash requeues the task.                             *)
OneRunAtATime == \A t \in Tasks : Cardinality(RunsOf(t)) <= 1

(* A job, or a failover handler, that will still write the task's status   *)
(* or requeue it.                                                          *)
Handled(t) ==
  \E n \in Nodes : \E i \in Slots :
    fiber[n][i].task = t /\ fiber[n][i].pc \in Loaded

(* The holder of the task's claim is down and its failover is still to be  *)
(* detected, announced or carried out.                                     *)
Recoverable(t) ==
  /\ claim[t] # None /\ ~Alive(claim[t])
  /\ \/ claim[t] \in nodesActive
     \/ \E n \in Nodes :
          \/ inbox[n][<<"failover", claim[t]>>] > 0
          \/ \E i \in Handlers :
               /\ fiber[n][i].node = claim[t]
               /\ fiber[n][i].pc = "keys" \/ t \in fiber[n][i].todo

(* No task is lost: one whose status says that it is waiting or being      *)
(* processed is in the queue, in the hands of an activity, or claimed by a *)
(* crashed node whose failover will reach it. Holds for retries alone and  *)
(* for a crash alone.                                                      *)
NoTaskLost ==
  \A t \in Tasks :
    store[t].status \in {"queued", "processing"} =>
      t \in queue \/ Handled(t) \/ Recoverable(t)

Settled(t) == store[t].status \in {"completed", "failed"} /\ t \notin queue /\ ~Handled(t)

(* Every submitted task is eventually completed or failed for good: no     *)
(* retry, crash or failover keeps it moving, or leaves it behind, forever. *)
EventuallySettled == \A t \in Tasks : enqueued[t] > 0 ~> []Settled(t)

(* Once getTaskResult has reported a task as completed, it goes on         *)
(* reporting that same result: no retry reopens the task, and no late run  *)
(* replaces what it returned. While no node is down: the failover of one   *)
(* that crashed before it released the claim reopens a completed task.     *)
CompletedIsFinal ==
  [][\A t \in Tasks :
       store[t].status = "completed" /\ (\A n \in Nodes : phase[n] # "down") => store'[t] = store[t]]_vars

=============================================================================
