---------------------------- MODULE ServicesProofs ----------------------------
(***************************************************************************)
(* Proofs about the services of the bridge, a section for each of them.    *)
(***************************************************************************)
EXTENDS Services, TLAPS

(* A leaf that needs arithmetic, or much of set theory, names its prover. *)
USE ZenonT(20)

-----------------------------------------------------------------------------
(* TaskLifecycle. *)

Statuses == {"pending", "in_progress", "completed", "failed", "cancelled"}

Execution ==
  [pc: {"new", "routing", "adapter", "retry", "save", "report", "catch", "succeeded", "failed", "thrown"},
   success: BOOLEAN, error: {"none", "listed", "other"}]

TaskType == tStatus \in Statuses /\ tExec \in [Executions -> Execution]

(* An execution that will report success has completed the task already. *)
TaskInv ==
  /\ TaskType
  /\ tStatus = "completed" => \E e \in Executions : <<e, TRUE>> \in tResults
  /\ \A e \in Executions :
       tExec[e].pc = "succeeded" \/ (tExec[e].pc = "report" /\ tExec[e].success) => tStatus = "completed"

(* Steps that leave the status alone, or at least leave completed alone,   *)
(* and bring no execution to where it reports success.                     *)
LEMMA TaskQuiet ==
  ASSUME TaskInv, TaskType', tResults \subseteq tResults',
         tStatus = "completed" => tStatus' = "completed",
         tStatus' = "completed" => tStatus = "completed",
         \A e \in Executions :
           \/ tExec'[e] = tExec[e]
           \/ tExec'[e].pc \notin {"report", "succeeded"}
           \/ tExec'[e].pc = "succeeded" /\ tExec[e].pc = "report" /\ tExec[e].success
  PROVE  TaskInv'
BY DEF TaskInv

LEMMA TaskNext ==
  TaskInv /\ [Task!Next]_(Task!vars) => TaskInv'
<1> SUFFICES ASSUME TaskInv, [Task!Next]_(Task!vars) PROVE TaskInv'
  OBVIOUS
<1> USE DEF Task!At, Task!Goto, Task!CanTransitionTo
<1>0. TaskType
  BY DEF TaskInv
<1>1. ASSUME NEW e \in Executions, Task!Begin(e)
      PROVE  TaskInv'
  <2>1. TaskType' /\ tExec'[e].pc \in {"routing", "catch"} /\ \A d \in Executions \ {e} : tExec'[d] = tExec[d]
    BY SMTT(30), <1>0, <1>1 DEF Task!Begin, TaskType, Execution, Statuses
  <2> QED BY <1>1, <2>1, TaskQuiet DEF Task!Begin
<1>2. ASSUME NEW e \in Executions, Task!Route(e)
      PROVE  TaskInv'
  <2>1. TaskType' /\ tExec'[e].pc \in {"adapter", "catch"} /\ \A d \in Executions \ {e} : tExec'[d] = tExec[d]
    BY SMTT(30), <1>0, <1>2 DEF Task!Route, TaskType, Execution
  <2> QED BY <1>2, <2>1, TaskQuiet DEF Task!Route
<1>3. ASSUME NEW e \in Executions, Task!AdapterSettles(e)
      PROVE  TaskInv'
  <2>1. TaskType' /\ tExec'[e].pc \in {"retry", "save"} /\ \A d \in Executions \ {e} : tExec'[d] = tExec[d]
    <3>1. PICK x \in Execution : tExec' = [tExec EXCEPT ![e] = x] /\ x.pc \in {"retry", "save"}
      <4> DEFINE y(pc, ok, error) == [pc |-> pc, success |-> ok, error |-> error]
      <4>1. PICK pc \in {"retry", "save"}, ok \in BOOLEAN, error \in {"none", "listed", "other"} :
              tExec' = [tExec EXCEPT ![e] = y(pc, ok, error)]
        BY <1>3 DEF Task!AdapterSettles
      <4>2. y(pc, ok, error) \in Execution /\ y(pc, ok, error).pc = pc
        BY DEF Execution
      <4> HIDE DEF y
      <4> QED BY <4>1, <4>2
    <3> QED BY <1>0, <1>3, <3>1 DEF Task!AdapterSettles, TaskType
  <2> QED BY <1>3, <2>1, TaskQuiet DEF Task!AdapterSettles
<1>4. ASSUME NEW e \in Executions, Task!RetrySettles(e)
      PROVE  TaskInv'
  <2>1. TaskType' /\ tExec'[e].pc = "save" /\ \A d \in Executions \ {e} : tExec'[d] = tExec[d]
    <3>1. PICK ok \in BOOLEAN : tExec' = [tExec EXCEPT ![e].pc = "save", ![e].success = ok]
      BY <1>4 DEF Task!RetrySettles
    <3> DEFINE x == [tExec[e] EXCEPT !.pc = "save", !.success = ok]
    <3>2. x \in Execution /\ x.pc = "save"
      BY <1>0 DEF TaskType, Execution
    <3>3. tExec' = [tExec EXCEPT ![e] = x]
      BY <1>0, <3>1 DEF TaskType, Execution
    <3> HIDE DEF x
    <3> QED BY <1>0, <1>4, <3>2, <3>3 DEF Task!RetrySettles, TaskType
  <2> QED BY <1>4, <2>1, TaskQuiet DEF Task!RetrySettles
<1>5. ASSUME NEW e \in Executions, Task!SaveResult(e)
      PROVE  TaskInv'
  <2>1. TaskType' /\ \A d \in Executions \ {e} : tExec'[d] = tExec[d]
    BY SMTT(30), <1>0, <1>5 DEF Task!SaveResult, Task!UpdateStatus, Task!Outcome, TaskType, Execution, Statuses
  <2>2. CASE tExec'[e].pc = "catch" /\ UNCHANGED tStatus /\ tResults \subseteq tResults'
    BY <2>1, <2>2, TaskQuiet
  <2>3. CASE /\ tResults' = tResults \cup {<<e, tExec[e].success>>} /\ tStatus = "in_progress"
             /\ tStatus' = Task!Outcome(e) /\ tExec'[e].pc = "report" /\ tExec'[e].success = tExec[e].success
    <3>1. CASE tExec[e].success
      <4>1. tStatus' = "completed" /\ tExec[e].success = TRUE
        BY <1>0, <2>3, <3>1 DEF Task!Outcome, TaskType, Execution
      <4>2. <<e, TRUE>> \in tResults'
        BY <2>3, <4>1
      <4> QED BY <2>1, <4>1, <4>2 DEF TaskInv
    <3>2. CASE ~tExec[e].success
      <4>1. tStatus' = "failed"
        BY <2>3, <3>2 DEF Task!Outcome
      <4> QED BY <2>1, <2>3, <3>2, <4>1 DEF TaskInv
    <3> QED BY <3>1, <3>2
  <2> QED BY <1>0, <1>5, <2>2, <2>3 DEF Task!SaveResult, Task!UpdateStatus, Task!Outcome, TaskType, Execution
<1>6. ASSUME NEW e \in Executions, Task!Report(e)
      PROVE  TaskInv'
  <2>1. TaskType' /\ \A d \in Executions \ {e} : tExec'[d] = tExec[d]
    BY SMTT(30), <1>0, <1>6 DEF Task!Report, TaskType, Execution
  <2>2. /\ tExec[e].pc = "report" /\ UNCHANGED <<tStatus, tResults>>
        /\ tExec'[e].pc \in {"failed", "catch"} \/ (tExec'[e].pc = "succeeded" /\ tExec[e].success)
    BY SMTT(30), <1>0, <1>6 DEF Task!Report, TaskType, Execution
  <2> QED BY <2>1, <2>2, TaskQuiet
<1>7. ASSUME NEW e \in Executions, Task!Catch(e)
      PROVE  TaskInv'
  <2>1. TaskType' /\ tExec'[e].pc = "thrown" /\ \A d \in Executions \ {e} : tExec'[d] = tExec[d]
    BY <1>0, <1>7 DEF Task!Catch, TaskType, Execution, Statuses
  <2> QED BY <1>7, <2>1, TaskQuiet DEF Task!Catch
<1>8. CASE Task!Reopen
  BY <1>0, <1>8, TaskQuiet DEF Task!Reopen, TaskType, Statuses
<1>9. CASE UNCHANGED Task!vars
  BY <1>9 DEF Task!vars, TaskInv, TaskType
<1> QED BY <1>1, <1>2, <1>3, <1>4, <1>5, <1>6, <1>7, <1>8, <1>9 DEF Task!Next

(* However many executions of a task overlap, and whichever of them are    *)
(* retried or cancelled: the task is completed only when a successful      *)
(* result is stored, and an execution that returned success is never       *)
(* contradicted by the task's status (ExecuteTaskUseCase.execute,          *)
(* Task.updateStatus).                                                     *)
THEOREM TaskSuccess == Task!Spec => []SuccessIsFinal
<1>1. Task!Init => TaskInv
  BY SMTT(30) DEF Task!Init, TaskInv, TaskType, Execution, Statuses
<1>2. TaskInv => SuccessIsFinal
  BY DEF TaskInv, SuccessIsFinal, Task!SuccessIsFinal
<1> QED BY <1>1, <1>2, TaskNext, PTL DEF Task!Spec

-----------------------------------------------------------------------------
(* WebSocketBridge. *)

(* A client that is connected at the moment may be subscribed. *)
LEMMA SubscribedConnected ==
  ASSUME Bridge!SubscribersConnected, NEW c \in wConnected, NEW t,
         wSubscriptions' = Bridge!Subscribed(c, t), UNCHANGED wConnected
  PROVE  Bridge!SubscribersConnected'
BY DEF Bridge!SubscribersConnected, Bridge!Subscribed

LEMMA UnsubscribedConnected ==
  ASSUME Bridge!SubscribersConnected, NEW c, NEW ts,
         wSubscriptions' = Bridge!Unsubscribed(c, ts),
         \/ UNCHANGED wConnected
         \/ ts = DOMAIN wSubscriptions /\ wConnected' = wConnected \ {c}
  PROVE  Bridge!SubscribersConnected'
BY DEF Bridge!SubscribersConnected, Bridge!Unsubscribed

(* Only connected clients are subscribed to tasks and no task keeps an     *)
(* empty set, for any number of clients, tasks and requests, although a    *)
(* client may disconnect between the rate limiter's answer and the rest of *)
(* its handler (WebSocketBridge.handleTaskExecute, handleDisconnect).      *)
THEOREM BridgeSubscribers == Bridge!Spec => []SubscribersConnected
<1>1. Bridge!Init => Bridge!SubscribersConnected
  BY DEF Bridge!Init, Bridge!SubscribersConnected
<1>2. Bridge!SubscribersConnected /\ [Bridge!Next]_(Bridge!vars) => Bridge!SubscribersConnected'
  <2> SUFFICES ASSUME Bridge!SubscribersConnected, [Bridge!Next]_(Bridge!vars)
               PROVE  Bridge!SubscribersConnected'
    OBVIOUS
  <2>1. ASSUME NEW c \in Clients, Bridge!HandleConnection(c)
        PROVE  Bridge!SubscribersConnected'
    BY <2>1 DEF Bridge!HandleConnection, Bridge!SubscribersConnected
  <2>2. ASSUME NEW c \in Clients, Bridge!HandleDisconnect(c)
        PROVE  Bridge!SubscribersConnected'
    BY <2>2, UnsubscribedConnected DEF Bridge!HandleDisconnect
  <2>3. ASSUME NEW c \in Clients, NEW t \in Tasks, Bridge!SubscribeToTask(c, t)
        PROVE  Bridge!SubscribersConnected'
    BY <2>3, SubscribedConnected DEF Bridge!SubscribeToTask
  <2>4. ASSUME NEW c \in Clients, NEW t \in Tasks, Bridge!UnsubscribeFromTask(c, t)
        PROVE  Bridge!SubscribersConnected'
    BY <2>4, UnsubscribedConnected DEF Bridge!UnsubscribeFromTask
  <2>5. ASSUME NEW r \in Bridge!Requests, Bridge!HandleTaskExecute(r)
        PROVE  Bridge!SubscribersConnected'
    <3>1. CASE UNCHANGED <<wSubscriptions, wConnected>>
      BY <3>1 DEF Bridge!SubscribersConnected
    <3>2. CASE /\ wRequest[r].client \in wConnected /\ UNCHANGED wConnected
               /\ wSubscriptions' = Bridge!Subscribed(wRequest[r].client, wRequest[r].task)
      BY <3>2, SubscribedConnected
    <3> QED BY <2>5, <3>1, <3>2 DEF Bridge!HandleTaskExecute, Bridge!Registered
  <2>6. CASE Bridge!Shutdown
    BY <2>6 DEF Bridge!Shutdown, Bridge!SubscribersConnected
  <2>7. CASE UNCHANGED <<wSubscriptions, wConnected>>
    BY <2>7 DEF Bridge!SubscribersConnected
  <2> QED BY <2>1, <2>2, <2>3, <2>4, <2>5, <2>6, <2>7
          DEF Bridge!Next, Bridge!TaskExecute, Bridge!TaskEnds, Bridge!vars
<1>3. Bridge!SubscribersConnected => SubscribersConnected
  BY DEF SubscribersConnected
<1> QED BY <1>1, <1>2, <1>3, PTL DEF Bridge!Spec

-----------------------------------------------------------------------------
(* PluginManager. *)

Operation ==
  [kind: {"none", "enable", "disable", "uninstall", "update", "load"},
   pc: {"idle", "loader", "onInstall", "onEnable", "onDisable", "onUpdate", "onUninstall", "removal"},
   was: BOOLEAN]

PluginType ==
  /\ pLoaded \in BOOLEAN /\ pEnabled \in BOOLEAN /\ pRaced \in BOOLEAN
  /\ pOp \in [Callers -> Operation]

(* What each operation awaits. *)
PluginSteps ==
  \A c \in Callers :
    /\ pOp[c].kind = "none" => pOp[c] = Plugin!Idle
    /\ pOp[c].pc = "idle" => pOp[c] = Plugin!Idle
    /\ pOp[c].pc = "onEnable" => pOp[c].kind \in {"enable", "update"}
    /\ pOp[c].pc = "onDisable" => pOp[c].kind \in {"disable", "uninstall", "update"}
    /\ pOp[c].pc = "onUpdate" => pOp[c].kind = "update"
    /\ pOp[c].pc \in {"onUninstall", "removal"} => pOp[c].kind = "uninstall"
    /\ pOp[c].pc \in {"loader", "onInstall"} => pOp[c].kind = "load"

(* As long as no uninstall has overlapped another operation: one under way *)
(* is alone, it has disabled the plugin before it removes it, and what the *)
(* others work on is loaded.                                               *)
PluginAlone ==
  ~pRaced =>
    /\ pEnabled => pLoaded
    /\ \A c \in Callers :
         /\ pOp[c].kind = "uninstall" => \A d \in Callers \ {c} : pOp[d] = Plugin!Idle
         /\ pOp[c].pc \in {"onUninstall", "removal"} => ~pEnabled
         /\ pOp[c].kind \in {"enable", "disable", "update"} => pLoaded

PluginInv == PluginType /\ PluginSteps /\ PluginAlone

(* A caller that goes on to x, or ends. *)
LEMMA PluginMoves ==
  ASSUME PluginInv, NEW c \in Callers, NEW x \in Operation,
         pOp' = [pOp EXCEPT ![c] = x],
         x = Plugin!Idle \/ x.kind = pOp[c].kind, pOp[c] # Plugin!Idle,
         x.kind = "none" => x = Plugin!Idle, x.pc = "idle" => x = Plugin!Idle,
         x.pc = "onEnable" => x.kind \in {"enable", "update"},
         x.pc = "onDisable" => x.kind \in {"disable", "uninstall", "update"},
         x.pc = "onUpdate" => x.kind = "update",
         x.pc \in {"onUninstall", "removal"} => x.kind = "uninstall",
         x.pc \in {"loader", "onInstall"} => x.kind = "load",
         pLoaded' \in BOOLEAN, pEnabled' \in BOOLEAN, UNCHANGED pRaced,
         ~pRaced => /\ pEnabled' => pLoaded'
                    /\ pLoaded => pLoaded' \/ pOp[c].kind = "uninstall"
                    /\ pEnabled' => pEnabled \/ pOp[c].kind # "uninstall"
                    /\ x.pc \in {"onUninstall", "removal"} => ~pEnabled'
  PROVE  PluginInv'
<1>1. pOp'[c] = x /\ (\A d \in Callers \ {c} : pOp'[d] = pOp[d]) /\ pOp' \in [Callers -> Operation]
  BY DEF PluginInv, PluginType
<1>2. PluginType'
  BY <1>1 DEF PluginInv, PluginType
<1>3. PluginSteps'
  BY <1>1 DEF PluginInv, PluginSteps, Plugin!Idle
<1>4. PluginAlone'
  <2> SUFFICES ASSUME ~pRaced
               PROVE  /\ pEnabled' => pLoaded'
                      /\ \A d \in Callers :
                           /\ pOp'[d].kind = "uninstall" => \A e \in Callers \ {d} : pOp'[e] = Plugin!Idle
                           /\ pOp'[d].pc \in {"onUninstall", "removal"} => ~pEnabled'
                           /\ pOp'[d].kind \in {"enable", "disable", "update"} => pLoaded'
    BY DEF PluginAlone, Plugin!Idle
  <2>0. /\ \A d, e \in Callers : pOp[d].kind = "uninstall" /\ d # e => pOp[e] = Plugin!Idle
        /\ \A d \in Callers : pOp[d].pc \in {"onUninstall", "removal"} => ~pEnabled /\ pOp[d].kind = "uninstall"
        /\ \A d \in Callers : pOp[d].kind \in {"enable", "disable", "update"} => pLoaded
    BY DEF PluginInv, PluginAlone, PluginSteps
  <2>1. ASSUME NEW d \in Callers, pOp'[d].kind = "uninstall"
        PROVE  \A e \in Callers \ {d} : pOp'[e] = Plugin!Idle
    <3>1. CASE d = c
      BY SMTT(30), <1>1, <2>0, <2>1, <3>1 DEF Plugin!Idle
    <3>2. CASE d # c
      BY <1>1, <2>0, <2>1, <3>2
    <3> QED BY <3>1, <3>2
  <2>2. ASSUME NEW d \in Callers, pOp'[d].pc \in {"onUninstall", "removal"}
        PROVE  ~pEnabled'
    <3>1. CASE d # c
      <4>1. pOp[d].kind = "uninstall" /\ pOp'[d] = pOp[d]
        BY <1>1, <2>0, <2>2, <3>1
      <4> QED BY <2>0, <3>1, <4>1
    <3>2. CASE d = c
      BY <1>1, <2>2, <3>2
    <3> QED BY <3>1, <3>2
  <2>3. ASSUME NEW d \in Callers, pOp'[d].kind \in {"enable", "disable", "update"}
        PROVE  pLoaded'
    <3>1. pOp[d].kind \in {"enable", "disable", "update"}
      BY SMTT(30), <1>1, <2>3 DEF Plugin!Idle
    <3>2. pOp[c].kind = "uninstall" => d = c
      BY SMTT(30), <2>0, <3>1 DEF Plugin!Idle
    <3> QED BY <2>0, <3>1, <3>2
  <2> QED BY <2>1, <2>2, <2>3
<1> QED BY <1>2, <1>3, <1>4 DEF PluginInv

(* A caller that begins x. *)
LEMMA PluginBegins ==
  ASSUME PluginInv, NEW c \in Callers, NEW x \in Operation, pOp[c] = Plugin!Idle,
         pOp' = [pOp EXCEPT ![c] = x],
         x.kind # "none", x.pc # "idle",
         x.pc = "onEnable" => x.kind \in {"enable", "update"},
         x.pc = "onDisable" => x.kind \in {"disable", "uninstall", "update"},
         x.pc = "onUpdate" => x.kind = "update",
         x.pc \in {"onUninstall", "removal"} => x.kind = "uninstall" /\ ~pEnabled,
         x.pc \in {"loader", "onInstall"} => x.kind = "load",
         x.kind \in {"enable", "disable", "update"} => pLoaded,
         UNCHANGED <<pLoaded, pEnabled>>, pRaced' \in BOOLEAN, pRaced => pRaced',
         ~pRaced' => /\ x.kind = "uninstall" => \A d \in Callers : pOp[d] = Plugin!Idle
                     /\ \A d \in Callers : pOp[d].kind # "uninstall"
  PROVE  PluginInv'
<1>1. pOp'[c] = x /\ (\A d \in Callers \ {c} : pOp'[d] = pOp[d]) /\ pOp' \in [Callers -> Operation]
  BY DEF PluginInv, PluginType
<1>2. PluginType'
  BY <1>1 DEF PluginInv, PluginType
<1>3. PluginSteps'
  BY <1>1 DEF PluginInv, PluginSteps, Plugin!Idle
<1>4. PluginAlone'
  <2> SUFFICES ASSUME ~pRaced'
               PROVE  /\ pEnabled => pLoaded
                      /\ \A d \in Callers :
                           /\ pOp'[d].kind = "uninstall" => \A e \in Callers \ {d} : pOp'[e] = Plugin!Idle
                           /\ pOp'[d].pc \in {"onUninstall", "removal"} => ~pEnabled
                           /\ pOp'[d].kind \in {"enable", "disable", "update"} => pLoaded
    BY DEF PluginAlone, Plugin!Idle
  <2>0. /\ pEnabled => pLoaded
        /\ \A d \in Callers : pOp[d].pc \in {"onUninstall", "removal"} => ~pEnabled
        /\ \A d \in Callers : pOp[d].kind \in {"enable", "disable", "update"} => pLoaded
    BY DEF PluginInv, PluginAlone
  <2>1. ASSUME NEW d \in Callers, pOp'[d].kind = "uninstall"
        PROVE  \A e \in Callers \ {d} : pOp'[e] = Plugin!Idle
    BY <1>1, <2>1
  <2>2. ASSUME NEW d \in Callers
        PROVE  /\ pOp'[d].pc \in {"onUninstall", "removal"} => ~pEnabled
               /\ pOp'[d].kind \in {"enable", "disable", "update"} => pLoaded
    BY <1>1, <2>0
  <2> QED BY <2>0, <2>1, <2>2
<1> QED BY <1>2, <1>3, <1>4 DEF PluginInv

LEMMA PluginCall ==
  ASSUME PluginInv, NEW c \in Callers, NEW kind \in {"enable", "disable", "uninstall", "update"},
         Plugin!Call(c, kind)
  PROVE  PluginInv'
<1> DEFINE f == Plugin!FirstStep(kind)
           x == [kind |-> kind, pc |-> f, was |-> pEnabled]
<1>0. PluginType
  BY DEF PluginInv
<1>1. /\ f \in {"onEnable", "onDisable", "onUpdate", "onUninstall"}
      /\ f = "onEnable" => kind = "enable"
      /\ f = "onDisable" => kind \in {"disable", "uninstall", "update"}
      /\ f = "onUpdate" => kind = "update"
      /\ f = "onUninstall" => kind = "uninstall" /\ ~pEnabled
  <2>1. f # "idle"
    BY DEF Plugin!Call
  <2>2. pEnabled \in BOOLEAN
    BY <1>0 DEF PluginType
  <2>3. CASE kind = "enable"
    BY <2>1, <2>2, <2>3 DEF Plugin!FirstStep
  <2>4. CASE kind = "disable"
    BY <2>1, <2>2, <2>4 DEF Plugin!FirstStep
  <2>5. CASE kind = "uninstall"
    BY <2>1, <2>2, <2>5 DEF Plugin!FirstStep
  <2>6. CASE kind = "update"
    BY <2>1, <2>2, <2>6 DEF Plugin!FirstStep
  <2> QED BY <2>3, <2>4, <2>5, <2>6
<1>2. x \in Operation /\ x.kind = kind /\ x.pc = f
  BY <1>0, <1>1 DEF Operation, PluginType
<1>3. pOp[c] = Plugin!Idle /\ pOp' = [pOp EXCEPT ![c] = x] /\ pLoaded /\ UNCHANGED <<pLoaded, pEnabled>>
  BY DEF Plugin!Call
<1>4. ASSUME ~pRaced'
      PROVE  /\ kind = "uninstall" => \A d \in Callers : pOp[d] = Plugin!Idle
             /\ \A d \in Callers : pOp[d].kind # "uninstall"
  <2>1. ~(Plugin!Busy # {} /\ "uninstall" \in {kind} \cup {pOp[d].kind : d \in Plugin!Busy})
    BY <1>4 DEF Plugin!Call
  <2>2. ASSUME NEW d \in Callers, pOp[d].kind = "uninstall"
        PROVE  FALSE
    <3>1. d \in Plugin!Busy
      BY SMTT(30), <2>2 DEF Plugin!Busy, Plugin!Idle
    <3> QED BY <2>1, <2>2, <3>1
  <2>3. ASSUME kind = "uninstall", NEW d \in Callers
        PROVE  pOp[d] = Plugin!Idle
    BY <2>1, <2>3 DEF Plugin!Busy
  <2> QED BY <2>2, <2>3
<1>5. pRaced' \in BOOLEAN /\ (pRaced => pRaced')
  BY <1>0 DEF Plugin!Call, PluginType
<1> HIDE DEF x, f
<1>6. /\ x.kind # "none" /\ x.pc # "idle"
      /\ x.pc = "onEnable" => x.kind \in {"enable", "update"}
      /\ x.pc = "onDisable" => x.kind \in {"disable", "uninstall", "update"}
      /\ x.pc = "onUpdate" => x.kind = "update"
      /\ x.pc \in {"onUninstall", "removal"} => x.kind = "uninstall" /\ ~pEnabled
      /\ x.pc \in {"loader", "onInstall"} => x.kind = "load"
  BY <1>1, <1>2
<1> QED BY <1>2, <1>3, <1>4, <1>5, <1>6, PluginBegins

LEMMA PluginLoad ==
  ASSUME PluginInv, NEW c \in Callers, Plugin!LoadPlugin(c)
  PROVE  PluginInv'
<1> DEFINE x == [kind |-> "load", pc |-> "loader", was |-> FALSE]
<1>1. x \in Operation /\ x.kind = "load" /\ x.pc = "loader"
  BY DEF Operation
<1>2. /\ pOp[c] = Plugin!Idle /\ pOp' = [pOp EXCEPT ![c] = x] /\ UNCHANGED <<pLoaded, pEnabled>>
      /\ pRaced' = (pRaced \/ \E d \in Plugin!Busy : pOp[d].kind = "uninstall")
  BY DEF Plugin!LoadPlugin
<1>3. ASSUME ~pRaced', NEW d \in Callers
      PROVE  pOp[d].kind # "uninstall"
  <2>1. ~\E e \in Plugin!Busy : pOp[e].kind = "uninstall"
    BY <1>2, <1>3
  <2>2. pOp[d].kind = "uninstall" => d \in Plugin!Busy
    BY SMTT(30) DEF Plugin!Busy, Plugin!Idle
  <2> QED BY <2>1, <2>2
<1>4. pRaced' \in BOOLEAN /\ (pRaced => pRaced')
  BY <1>2 DEF PluginInv, PluginType
<1> HIDE DEF x
<1> QED BY <1>1, <1>2, <1>3, <1>4, PluginBegins

LEMMA PluginOthers ==
  ASSUME PluginInv, NEW c \in Callers,
         Plugin!Store(c) \/ Plugin!Throws(c) \/ Plugin!RemoveFiles(c)
  PROVE  PluginInv'
<1>0. PluginType /\ PluginSteps /\ PluginAlone /\ pOp[c] \in Operation
  BY DEF PluginInv, PluginType
<1>1. CASE Plugin!Store(c)
  <2> DEFINE x == [pOp[c] EXCEPT !.pc = "onInstall"]
  <2>1. pOp[c].pc = "loader" /\ pOp[c] # Plugin!Idle /\ pOp[c].kind = "load"
    BY SMTT(30), <1>0, <1>1 DEF Plugin!Store, Plugin!Idle, PluginSteps
  <2>2. x \in Operation /\ x.pc = "onInstall" /\ x.kind = "load"
    BY <1>0, <2>1 DEF Operation
  <2>3. pOp' = [pOp EXCEPT ![c] = x] /\ pLoaded' = TRUE /\ UNCHANGED <<pEnabled, pRaced>>
    BY <1>0, <1>1 DEF Plugin!Store, Plugin!Goto, PluginType, Operation
  <2>4. pEnabled' \in BOOLEAN
    BY <1>0, <2>3 DEF PluginType
  <2> HIDE DEF x
  <2> QED BY <2>1, <2>2, <2>3, <2>4, PluginMoves
<1>2. CASE Plugin!Throws(c) \/ Plugin!RemoveFiles(c)
  <2>1. pOp' = [pOp EXCEPT ![c] = Plugin!Idle] /\ pOp[c] # Plugin!Idle /\ UNCHANGED <<pLoaded, pEnabled, pRaced>>
    BY SMTT(30), <1>2 DEF Plugin!Throws, Plugin!RemoveFiles, Plugin!Ends, Plugin!Idle
  <2>2. /\ Plugin!Idle \in Operation /\ Plugin!Idle.pc = "idle"
    BY DEF Plugin!Idle, Operation
  <2>3. pLoaded' \in BOOLEAN /\ pEnabled' \in BOOLEAN /\ (~pRaced => (pEnabled' => pLoaded'))
    BY <1>0, <2>1 DEF PluginType, PluginAlone
  <2> QED BY <2>1, <2>2, <2>3, PluginMoves
<1> QED BY <1>1, <1>2

LEMMA PluginHook ==
  ASSUME PluginInv, NEW c \in Callers, Plugin!HookReturns(c)
  PROVE  PluginInv'
<1>0. PluginType /\ PluginSteps /\ PluginAlone /\ pOp[c] \in Operation /\ UNCHANGED pRaced
  BY DEF PluginInv, PluginType, Plugin!HookReturns
<1> DEFINE go(pc) == [pOp[c] EXCEPT !.pc = pc]
<1>1. ASSUME NEW pc \in {"onUninstall", "removal", "onUpdate", "onEnable"}
      PROVE  go(pc) \in Operation /\ go(pc).pc = pc /\ go(pc).kind = pOp[c].kind
  BY <1>0 DEF Operation
<1>2. ASSUME NEW pc, Plugin!Goto(c, pc)
      PROVE  pOp' = [pOp EXCEPT ![c] = go(pc)]
  BY <1>0, <1>2 DEF Plugin!Goto, PluginType, Operation
<1>3. Plugin!Idle \in Operation /\ Plugin!Idle.pc = "idle"
  BY DEF Plugin!Idle, Operation
<1>4. pLoaded \in BOOLEAN /\ pEnabled \in BOOLEAN
  BY <1>0 DEF PluginType
<1> HIDE DEF go
<1>5. CASE pOp[c].pc = "onEnable"
  <2>1. pEnabled' = TRUE /\ pOp' = [pOp EXCEPT ![c] = Plugin!Idle] /\ UNCHANGED pLoaded
    BY <1>5 DEF Plugin!HookReturns, Plugin!Ends
  <2>2. pOp[c] # Plugin!Idle /\ pOp[c].kind \in {"enable", "update"} /\ (~pRaced => pLoaded)
    BY SMTT(30), <1>0, <1>5 DEF Plugin!Idle, PluginSteps, PluginAlone
  <2> QED BY <1>0, <1>3, <1>4, <2>1, <2>2, PluginMoves
<1>6. CASE pOp[c].pc = "onDisable"
  <2>0. pOp[c] # Plugin!Idle /\ pOp[c].kind \in {"disable", "uninstall", "update"}
    BY SMTT(30), <1>0, <1>6 DEF Plugin!Idle, PluginSteps
  <2>1. pEnabled' = FALSE /\ UNCHANGED pLoaded
    BY <1>6 DEF Plugin!HookReturns
  <2>2. CASE pOp[c].kind = "disable"
    <3>1. pOp' = [pOp EXCEPT ![c] = Plugin!Idle]
      BY <1>6, <2>2 DEF Plugin!HookReturns, Plugin!Ends
    <3> QED BY <1>0, <1>3, <1>4, <2>0, <2>1, <3>1, PluginMoves
  <2>3. CASE pOp[c].kind = "uninstall"
    <3>1. Plugin!Goto(c, "onUninstall")
      BY <1>6, <2>3 DEF Plugin!HookReturns
    <3>2. pOp' = [pOp EXCEPT ![c] = go("onUninstall")]
      BY <1>2, <3>1
    <3>3. go("onUninstall") \in Operation /\ go("onUninstall").pc = "onUninstall" /\ go("onUninstall").kind = pOp[c].kind
      BY <1>1
    <3> QED BY <1>0, <1>4, <2>0, <2>1, <2>3, <3>2, <3>3, PluginMoves
  <2>4. CASE pOp[c].kind = "update"
    <3>1. Plugin!Goto(c, "onUpdate")
      BY <1>6, <2>4 DEF Plugin!HookReturns
    <3>2. pOp' = [pOp EXCEPT ![c] = go("onUpdate")]
      BY <1>2, <3>1
    <3>3. go("onUpdate") \in Operation /\ go("onUpdate").pc = "onUpdate" /\ go("onUpdate").kind = pOp[c].kind
      BY <1>1
    <3> QED BY <1>0, <1>4, <2>0, <2>1, <2>4, <3>2, <3>3, PluginMoves
  <2> QED BY <2>0, <2>2, <2>3, <2>4
<1>7. CASE pOp[c].pc = "onUninstall"
  <2>1. pLoaded' = FALSE /\ Plugin!Goto(c, "removal") /\ UNCHANGED pEnabled
    BY <1>7 DEF Plugin!HookReturns
  <2>2. pOp' = [pOp EXCEPT ![c] = go("removal")]
    BY <1>2, <2>1
  <2>3. go("removal") \in Operation /\ go("removal").pc = "removal" /\ go("removal").kind = pOp[c].kind
    BY <1>1
  <2>4. pOp[c] # Plugin!Idle /\ pOp[c].kind = "uninstall" /\ (~pRaced => ~pEnabled)
    BY SMTT(30), <1>0, <1>7 DEF Plugin!Idle, PluginSteps, PluginAlone
  <2> QED BY <1>0, <1>4, <2>1, <2>2, <2>3, <2>4, PluginMoves
<1>8. CASE pOp[c].pc = "onUpdate"
  <2>0. pOp[c] # Plugin!Idle /\ pOp[c].kind = "update" /\ (~pRaced /\ pEnabled => pLoaded)
    BY SMTT(30), <1>0, <1>8 DEF Plugin!Idle, PluginSteps, PluginAlone
  <2>1. UNCHANGED <<pLoaded, pEnabled>> /\ (Plugin!Goto(c, "onEnable") \/ Plugin!Ends(c))
    BY <1>8 DEF Plugin!HookReturns, Plugin!AfterUpdate
  <2>2. CASE Plugin!Goto(c, "onEnable")
    <3>1. pOp' = [pOp EXCEPT ![c] = go("onEnable")]
      BY <1>2, <2>2
    <3>2. go("onEnable") \in Operation /\ go("onEnable").pc = "onEnable" /\ go("onEnable").kind = pOp[c].kind
      BY <1>1
    <3> QED BY <1>0, <1>4, <2>0, <2>1, <3>1, <3>2, PluginMoves
  <2>3. CASE Plugin!Ends(c)
    BY <1>0, <1>3, <1>4, <2>0, <2>1, <2>3, PluginMoves DEF Plugin!Ends
  <2> QED BY <2>1, <2>2, <2>3
<1>9. CASE pOp[c].pc = "onInstall"
  <2>1. pOp' = [pOp EXCEPT ![c] = Plugin!Idle] /\ UNCHANGED <<pLoaded, pEnabled>>
    BY <1>9 DEF Plugin!HookReturns, Plugin!Ends
  <2>2. pOp[c] # Plugin!Idle /\ (~pRaced /\ pEnabled => pLoaded)
    BY SMTT(30), <1>0, <1>9 DEF Plugin!Idle, PluginAlone
  <2> QED BY <1>0, <1>3, <1>4, <2>1, <2>2, PluginMoves
<1> QED BY <1>5, <1>6, <1>7, <1>8, <1>9 DEF Plugin!HookReturns

(* An enabled plugin is loaded unless an uninstall has overlapped another  *)
(* operation, for any number of callers and operations, wherever a hook    *)
(* throws (PluginManager.enablePlugin, disablePlugin, uninstallPlugin,     *)
(* updatePlugin, loadPlugin).                                              *)
THEOREM PluginEnabled == Plugin!Spec => []EnabledIsLoaded
<1>1. Plugin!Init => PluginInv
  <2> SUFFICES ASSUME Plugin!Init PROVE PluginInv
    OBVIOUS
  <2>1. Plugin!Idle \in Operation /\ Plugin!Idle.pc = "idle" /\ Plugin!Idle.kind = "none"
    BY DEF Plugin!Idle, Operation
  <2>2. ~pLoaded /\ ~pEnabled /\ ~pRaced /\ (\A c \in Callers : pOp[c] = Plugin!Idle) /\ PluginType
    BY <2>1 DEF Plugin!Init, PluginType
  <2> QED BY <2>1, <2>2 DEF PluginInv, PluginSteps, PluginAlone
<1>2. PluginInv /\ [Plugin!Next]_(Plugin!vars) => PluginInv'
  <2> SUFFICES ASSUME PluginInv, [Plugin!Next]_(Plugin!vars) PROVE PluginInv'
    OBVIOUS
  <2>1. CASE UNCHANGED Plugin!vars
    BY <2>1 DEF Plugin!vars, PluginInv, PluginType, PluginSteps, PluginAlone, Plugin!Idle
  <2> QED BY <2>1, PluginCall, PluginLoad, PluginOthers, PluginHook DEF Plugin!Next
<1>3. PluginInv => EnabledIsLoaded
  BY DEF PluginInv, PluginAlone, PluginType, EnabledIsLoaded, Plugin!EnabledIsLoaded
<1> QED BY <1>1, <1>2, <1>3, PTL DEF Plugin!Spec

-----------------------------------------------------------------------------
(* MemoryCache. *)

CacheOp ==
  [pc: {"idle", "tag", "check", "invalidate", "invalidated"}, key: Keys \cup {"none"}, tags: SUBSET Tags,
   expired: BOOLEAN, keys: SUBSET Keys, owed: SUBSET Nat]

CacheType ==
  /\ mNow \in Nat /\ mSets \in Nat
  /\ mCache \in [Keys -> [id: Nat, tags: SUBSET Tags, expires: Nat]]
  /\ mTagIndex \in [Tags -> SUBSET Keys]
  /\ mOp \in [Operations -> CacheOp]
  /\ \A o \in Operations : mOp[o].pc = "tag" => mOp[o].key \in Keys

(* Every entry has a number of its own, and a key without one no tags. *)
EntriesNumbered ==
  /\ \A k \in Keys : mCache[k].id <= mSets /\ (mCache[k].id = 0 => mCache[k].tags = {})
  /\ \A k, l \in Keys : mCache[k].id = mCache[l].id /\ mCache[k].id # 0 => k = l

(* A key is in the set of each of its tags, or a set under way puts it there. *)
TagsIndexed ==
  \A k \in Keys, t \in Tags :
    t \in mCache[k].tags =>
      k \in mTagIndex[t] \/ \E o \in Operations : mOp[o].pc = "tag" /\ mOp[o].key = k /\ t \in mOp[o].tags

(* What an invalidation still owes is in the keys it has yet to delete. *)
OwedListed ==
  \A o \in Operations : mOp[o].pc \in {"invalidate", "invalidated"} =>
    /\ \A i \in mOp[o].owed : 0 < i /\ i <= mSets
    /\ mOp[o].pc = "invalidated" => mOp[o].keys = {}
    /\ \A k \in Keys : mCache[k].id \in mOp[o].owed => k \in mOp[o].keys

CacheInv == CacheType /\ EntriesNumbered /\ TagsIndexed /\ OwedListed

(* A step that makes no entry and begins no invalidation. *)
LEMMA CacheQuiet ==
  ASSUME CacheInv, CacheType', UNCHANGED mSets,
         \A k \in Keys : \/ mCache'[k] = Cache!NoEntry
                         \/ mCache'[k] = mCache[k] /\ \A t \in Tags : k \in mTagIndex[t] => k \in mTagIndex'[t],
         \A o \in Operations :
           \/ mOp'[o] = mOp[o]
           \/ /\ mOp'[o].pc \in {"idle", "check"}
              /\ mOp[o].pc = "tag" => \A t \in mOp[o].tags : mOp[o].key \in mTagIndex'[t]
           \/ /\ mOp[o].pc = "invalidate" /\ mOp'[o].pc \in {"invalidate", "invalidated"}
              /\ mOp'[o].owed = mOp[o].owed
              /\ mOp'[o].pc = "invalidated" => mOp'[o].keys = {}
              /\ \A k \in Keys : k \in mOp[o].keys => k \in mOp'[o].keys \/ mCache'[k] = Cache!NoEntry
  PROVE  CacheInv'
<1>0. Cache!NoEntry.id = 0 /\ Cache!NoEntry.tags = {}
  BY DEF Cache!NoEntry
<1>t. CacheType /\ EntriesNumbered /\ TagsIndexed /\ OwedListed
  BY DEF CacheInv
<1>n. mSets \in Nat /\ \A k \in Keys : mCache[k].id \in Nat
  BY <1>t DEF CacheType
<1>1. EntriesNumbered'
  <2>1. \A k \in Keys : mCache'[k].id <= mSets /\ (mCache'[k].id = 0 => mCache'[k].tags = {})
    BY SMTT(30), <1>0, <1>t, <1>n DEF EntriesNumbered
  <2>2. \A k, l \in Keys : mCache'[k].id = mCache'[l].id /\ mCache'[k].id # 0 => k = l
    BY SMTT(30), <1>0, <1>t DEF EntriesNumbered
  <2> QED BY <2>1, <2>2 DEF EntriesNumbered
<1>2. TagsIndexed'
  <2> SUFFICES ASSUME NEW k \in Keys, NEW t \in Tags, t \in mCache'[k].tags
               PROVE  \/ k \in mTagIndex'[t]
                      \/ \E o \in Operations : mOp'[o].pc = "tag" /\ mOp'[o].key = k /\ t \in mOp'[o].tags
    BY DEF TagsIndexed
  <2>1. mCache'[k] = mCache[k] /\ (k \in mTagIndex[t] => k \in mTagIndex'[t])
    BY <1>0
  <2>2. CASE k \in mTagIndex[t]
    BY <2>1, <2>2
  <2>3. ASSUME NEW o \in Operations, mOp[o].pc = "tag", mOp[o].key = k, t \in mOp[o].tags
        PROVE  \/ k \in mTagIndex'[t]
               \/ mOp'[o].pc = "tag" /\ mOp'[o].key = k /\ t \in mOp'[o].tags
    BY <2>3
  <2> QED BY <1>t, <2>1, <2>2, <2>3 DEF TagsIndexed
<1>3. OwedListed'
  <2> SUFFICES ASSUME NEW o \in Operations, mOp'[o].pc \in {"invalidate", "invalidated"}
               PROVE  /\ \A i \in mOp'[o].owed : 0 < i /\ i <= mSets
                      /\ mOp'[o].pc = "invalidated" => mOp'[o].keys = {}
                      /\ \A k \in Keys : mCache'[k].id \in mOp'[o].owed => k \in mOp'[o].keys
    BY DEF OwedListed
  <2>1. /\ mOp[o].pc \in {"invalidate", "invalidated"} /\ mOp'[o].owed = mOp[o].owed
        /\ mOp'[o].pc = "invalidated" => mOp'[o].keys = {}
        /\ \A k \in Keys : k \in mOp[o].keys => k \in mOp'[o].keys \/ mCache'[k] = Cache!NoEntry
    BY <1>t DEF OwedListed
  <2>2. \A i \in mOp[o].owed : 0 < i /\ i <= mSets
    BY <1>t, <2>1 DEF OwedListed
  <2>3. ASSUME NEW k \in Keys, mCache'[k].id \in mOp'[o].owed
        PROVE  k \in mOp'[o].keys
    <3>1. mCache'[k] # Cache!NoEntry
      BY SMTT(30), <1>0, <2>1, <2>2, <2>3
    <3>2. k \in mOp[o].keys
      BY <1>t, <2>1, <2>3, <3>1 DEF OwedListed
    <3> QED BY <2>1, <3>1, <3>2
  <2> QED BY <2>1, <2>2, <2>3
<1> QED BY <1>1, <1>2, <1>3 DEF CacheInv

(* doDelete, of whichever key: only that key leaves the sets of its tags. *)
LEMMA DeleteKeeps ==
  ASSUME CacheType, NEW k, Cache!DoDelete(k)
  PROVE  /\ mCache' \in [Keys -> [id: Nat, tags: SUBSET Tags, expires: Nat]]
         /\ mTagIndex' \in [Tags -> SUBSET Keys]
         /\ \A l \in Keys : \/ mCache'[l] = Cache!NoEntry
                            \/ /\ mCache'[l] = mCache[l] /\ l # k
                               /\ \A t \in Tags : l \in mTagIndex[t] => l \in mTagIndex'[t]
         /\ k \in Keys => mCache'[k] = Cache!NoEntry
<1>1. Cache!NoEntry \in [id: Nat, tags: SUBSET Tags, expires: Nat]
  BY DEF Cache!NoEntry
<1>2. mCache' = [mCache EXCEPT ![k] = Cache!NoEntry]
  BY DEF Cache!DoDelete
<1>3. mCache' \in [Keys -> [id: Nat, tags: SUBSET Tags, expires: Nat]]
  BY <1>1, <1>2 DEF CacheType
<1>4. mTagIndex' \in [Tags -> SUBSET Keys] /\ \A t \in Tags, l \in Keys \ {k} : l \in mTagIndex[t] => l \in mTagIndex'[t]
  BY DEF Cache!DoDelete, Cache!Untag, CacheType
<1> QED BY <1>2, <1>3, <1>4 DEF CacheType

LEMMA CacheIdle == Cache!Idle \in CacheOp /\ Cache!Idle.pc = "idle"
BY DEF Cache!Idle, CacheOp

(* An entry is made: its number is new. *)
LEMMA CacheSet ==
  ASSUME Ttls \subseteq Nat, CacheInv, NEW o \in Operations, NEW k \in Keys, NEW tags \in SUBSET Tags,
         NEW ttl \in Ttls, Cache!Set(o, k, tags, ttl)
  PROVE  CacheInv'
<1>t. CacheType /\ EntriesNumbered /\ TagsIndexed /\ OwedListed
  BY DEF CacheInv
<1> DEFINE n == [id |-> mSets + 1, tags |-> tags, expires |-> IF ttl = 0 THEN 0 ELSE mNow + ttl]
           x == [Cache!Idle EXCEPT !.pc = "tag", !.key = k, !.tags = tags]
<1>1. /\ mOp[o] = Cache!Idle /\ mSets' = mSets + 1 /\ UNCHANGED <<mNow, mTagIndex>>
      /\ mCache' = [mCache EXCEPT ![k] = n] /\ mOp' = [mOp EXCEPT ![o] = x]
  BY DEF Cache!Set, Cache!Becomes
<1>2. mSets \in Nat /\ mNow \in Nat /\ ttl \in Nat /\ \A l \in Keys : mCache[l].id \in Nat
  BY <1>t DEF CacheType
<1>3. n \in [id: Nat, tags: SUBSET Tags, expires: Nat] /\ n.id = mSets + 1 /\ n.tags = tags
  BY SMTT(30), <1>2
<1>4. x \in CacheOp /\ x.pc = "tag" /\ x.key = k /\ x.tags = tags
  BY DEF Cache!Idle, CacheOp
<1> HIDE DEF n, x
<1>5. /\ CacheType'
      /\ mCache'[k] = n /\ (\A l \in Keys \ {k} : mCache'[l] = mCache[l])
      /\ mOp'[o] = x /\ (\A p \in Operations \ {o} : mOp'[p] = mOp[p])
  BY <1>t, <1>1, <1>2, <1>3, <1>4 DEF CacheType
<1>6. EntriesNumbered'
  <2>1. \A l \in Keys : mCache[l].id <= mSets /\ (mCache[l].id = 0 => mCache[l].tags = {})
    BY <1>t DEF EntriesNumbered
  <2>2. \A l \in Keys : mCache'[l].id <= mSets + 1 /\ (mCache'[l].id = 0 => mCache'[l].tags = {})
    BY SMTT(30), <1>2, <1>3, <1>5, <2>1
  <2>3. \A l, m \in Keys : mCache'[l].id = mCache'[m].id /\ mCache'[l].id # 0 => l = m
    BY SMTT(30), <1>t, <1>2, <1>3, <1>5, <2>1 DEF EntriesNumbered
  <2> QED BY <1>1, <2>2, <2>3 DEF EntriesNumbered
<1>7. TagsIndexed'
  <2> SUFFICES ASSUME NEW l \in Keys, NEW t \in Tags, t \in mCache'[l].tags
               PROVE  \/ l \in mTagIndex[t]
                      \/ \E p \in Operations : mOp'[p].pc = "tag" /\ mOp'[p].key = l /\ t \in mOp'[p].tags
    BY SMTT(30), <1>1 DEF TagsIndexed
  <2>1. CASE l = k
    BY <1>3, <1>4, <1>5, <2>1
  <2>2. CASE l # k
    <3>1. t \in mCache[l].tags
      BY <1>5, <2>2
    <3>2. ASSUME NEW p \in Operations, mOp[p].pc = "tag"
          PROVE  mOp'[p] = mOp[p]
      BY <1>1, <1>5, <3>2, CacheIdle
    <3> QED BY SMTT(30), <1>t, <3>1, <3>2 DEF TagsIndexed
  <2> QED BY <2>1, <2>2
<1>8. OwedListed'
  <2> SUFFICES ASSUME NEW p \in Operations, mOp'[p].pc \in {"invalidate", "invalidated"}
               PROVE  /\ \A i \in mOp'[p].owed : 0 < i /\ i <= mSets + 1
                      /\ mOp'[p].pc = "invalidated" => mOp'[p].keys = {}
                      /\ \A l \in Keys : mCache'[l].id \in mOp'[p].owed => l \in mOp'[p].keys
    BY <1>1 DEF OwedListed
  <2>1. mOp'[p] = mOp[p]
    BY <1>4, <1>5
  <2>2. /\ \A i \in mOp[p].owed : 0 < i /\ i <= mSets /\ i \in Nat
        /\ mOp[p].pc = "invalidated" => mOp[p].keys = {}
        /\ \A l \in Keys : mCache[l].id \in mOp[p].owed => l \in mOp[p].keys
    BY <1>t, <2>1 DEF OwedListed, CacheType, CacheOp
  <2>3. ~(mSets + 1 \in mOp[p].owed)
    BY SMTT(30), <1>2, <2>2
  <2> QED BY SMTT(30), <1>2, <1>3, <1>5, <2>1, <2>2, <2>3
<1> QED BY <1>5, <1>6, <1>7, <1>8 DEF CacheInv

(* An invalidation begins: what it owes is under the tag. *)
LEMMA CacheInvalidate ==
  ASSUME CacheInv, NEW o \in Operations, NEW t \in Tags, Cache!InvalidateByTags(o, t)
  PROVE  CacheInv'
<1>t. CacheType /\ EntriesNumbered /\ TagsIndexed /\ OwedListed
  BY DEF CacheInv
<1> DEFINE x == [Cache!Idle EXCEPT !.pc = "invalidate", !.keys = mTagIndex[t], !.owed = Cache!Settled(t)]
<1>1. /\ mOp[o] = Cache!Idle /\ UNCHANGED <<mNow, mCache, mTagIndex, mSets>> /\ mOp' = [mOp EXCEPT ![o] = x]
  BY DEF Cache!InvalidateByTags, Cache!Becomes
<1>2. \A i \in Cache!Settled(t) : \E k \in Keys : i = mCache[k].id /\ t \in mCache[k].tags /\ k \in mTagIndex[t]
  <2> SUFFICES ASSUME NEW i \in Cache!Settled(t)
               PROVE  \E k \in Keys : i = mCache[k].id /\ t \in mCache[k].tags /\ k \in mTagIndex[t]
    OBVIOUS
  <2>1. PICK k \in Keys : /\ i = mCache[k].id /\ t \in mCache[k].tags
                          /\ \A p \in Operations : mOp[p].pc = "tag" => mOp[p].key # k
    BY DEF Cache!Settled
  <2> QED BY <1>t, <2>1 DEF TagsIndexed
<1>3. \A i \in Cache!Settled(t) : i \in Nat /\ 0 < i /\ i <= mSets
  BY SMTT(30), <1>t, <1>2 DEF CacheType, EntriesNumbered
<1>4. x \in CacheOp /\ x.pc = "invalidate" /\ x.keys = mTagIndex[t] /\ x.owed = Cache!Settled(t)
  <2>1. mTagIndex[t] \in SUBSET Keys /\ Cache!Settled(t) \in SUBSET Nat
    BY <1>t, <1>3 DEF CacheType
  <2> QED BY <2>1 DEF Cache!Idle, CacheOp
<1> HIDE DEF x
<1>5. CacheType' /\ mOp'[o] = x /\ (\A p \in Operations \ {o} : mOp'[p] = mOp[p])
  BY <1>t, <1>1, <1>4 DEF CacheType
<1>6. EntriesNumbered'
  BY <1>t, <1>1 DEF EntriesNumbered
<1>7. TagsIndexed'
  <2>1. ASSUME NEW p \in Operations, mOp[p].pc = "tag"
        PROVE  mOp'[p] = mOp[p]
    BY <1>1, <1>5, <2>1, CacheIdle
  <2> QED BY SMTT(30), <1>t, <1>1, <2>1 DEF TagsIndexed
<1>8. OwedListed'
  <2>1. \A k \in Keys : mCache[k].id \in x.owed => k \in x.keys
    BY SMTT(30), <1>t, <1>2, <1>3, <1>4 DEF EntriesNumbered
  <2> QED BY <1>t, <1>1, <1>3, <1>4, <1>5, <2>1 DEF OwedListed
<1> QED BY <1>5, <1>6, <1>7, <1>8 DEF CacheInv

(* The rest of an operation, and what happens between the operations. *)
LEMMA CacheOthers ==
  ASSUME CacheInv, NEW o \in Operations,
         \/ \E k \in Keys : Cache!Get(o, k)
         \/ Cache!TagKeys(o) \/ Cache!CheckExpiration(o) \/ Cache!InvalidateNext(o) \/ Cache!Return(o)
  PROVE  CacheInv'
<1>t. CacheType /\ TagsIndexed
  BY DEF CacheInv
<1>0. mOp[o] \in CacheOp
  BY <1>t DEF CacheType
<1>b. ASSUME NEW x \in CacheOp, Cache!Becomes(o, x)
      PROVE  /\ mOp' \in [Operations -> CacheOp] /\ mOp'[o] = x
             /\ \A p \in Operations \ {o} : mOp'[p] = mOp[p]
  BY <1>t, <1>b DEF Cache!Becomes, CacheType
<1>1. ASSUME NEW k \in Keys, Cache!Get(o, k)
      PROVE  CacheInv'
  <2>0. (mCache[k].expires # 0 /\ mCache[k].expires < mNow) \in BOOLEAN
    BY <1>t DEF CacheType
  <2> DEFINE x == [Cache!Idle EXCEPT !.pc = "check", !.key = k,
                     !.expired = mCache[k].expires # 0 /\ mCache[k].expires < mNow]
  <2>1. Cache!Becomes(o, x) /\ mOp[o] = Cache!Idle /\ UNCHANGED <<mNow, mCache, mTagIndex, mSets>>
    BY <1>1 DEF Cache!Get
  <2>2. x \in CacheOp /\ x.pc = "check"
    BY <2>0 DEF Cache!Idle, CacheOp
  <2> HIDE DEF x
  <2>3. CacheType'
    BY <1>t, <1>b, <2>1, <2>2 DEF CacheType
  <2> QED BY <1>b, <2>1, <2>2, <2>3, CacheIdle, CacheQuiet
<1>2. CASE Cache!TagKeys(o)
  <2>1. /\ mOp[o].pc = "tag" /\ Cache!Becomes(o, Cache!Idle) /\ UNCHANGED <<mNow, mCache, mSets>>
        /\ mTagIndex' = [t \in Tags |-> IF t \in mOp[o].tags THEN mTagIndex[t] \cup {mOp[o].key} ELSE mTagIndex[t]]
    BY <1>2 DEF Cache!TagKeys
  <2>2. CacheType'
    BY <1>t, <1>b, <2>1, CacheIdle DEF CacheType
  <2>3. \A k \in Keys, t \in Tags : k \in mTagIndex[t] => k \in mTagIndex'[t]
    BY <2>1
  <2>4. \A t \in mOp[o].tags : mOp[o].key \in mTagIndex'[t]
    BY <1>0, <2>1 DEF CacheOp
  <2> QED BY <1>b, <2>1, <2>2, <2>3, <2>4, CacheIdle, CacheQuiet
<1>3. CASE Cache!CheckExpiration(o)
  <2>1. mOp[o].pc = "check" /\ Cache!Becomes(o, Cache!Idle) /\ UNCHANGED <<mNow, mSets>>
        /\ (Cache!DoDelete(mOp[o].key) \/ UNCHANGED <<mCache, mTagIndex>>)
    BY <1>3 DEF Cache!CheckExpiration
  <2>2. CASE Cache!DoDelete(mOp[o].key)
    <3>1. CacheType'
      BY <1>t, <1>b, <2>1, <2>2, CacheIdle, DeleteKeeps DEF CacheType
    <3> QED BY SMTT(30), <1>t, <1>b, <2>1, <2>2, <3>1, CacheIdle, DeleteKeeps, CacheQuiet
  <2>3. CASE UNCHANGED <<mCache, mTagIndex>>
    <3>1. CacheType'
      BY <1>t, <1>b, <2>1, <2>3, CacheIdle DEF CacheType
    <3> QED BY <1>b, <2>1, <2>3, <3>1, CacheIdle, CacheQuiet
  <2> QED BY <2>1, <2>2, <2>3
<1>4. CASE Cache!InvalidateNext(o)
  <2>1. mOp[o].pc = "invalidate" /\ UNCHANGED <<mNow, mSets>>
    BY <1>4 DEF Cache!InvalidateNext
  <2>2. ASSUME NEW k \in mOp[o].keys, Cache!DoDelete(k), Cache!Becomes(o, [mOp[o] EXCEPT !.keys = @ \ {k}])
        PROVE  CacheInv'
    <3> DEFINE x == [mOp[o] EXCEPT !.keys = @ \ {k}]
    <3>1. x \in CacheOp /\ x.pc = "invalidate" /\ x.owed = mOp[o].owed /\ x.keys = mOp[o].keys \ {k}
      BY <1>0, <2>1 DEF CacheOp
    <3>2. Cache!Becomes(o, x) /\ k \in Keys
      BY <1>0, <2>2 DEF CacheOp
    <3> HIDE DEF x
    <3>3. CacheType'
      BY ZenonT(30), <1>t, <1>b, <2>1, <2>2, <3>1, <3>2, DeleteKeeps DEF CacheType
    <3>4. \A l \in Keys : l \in mOp[o].keys => l \in x.keys \/ mCache'[l] = Cache!NoEntry
      BY <1>t, <2>2, <3>1, <3>2, DeleteKeeps
    <3>5. \A l \in Keys : \/ mCache'[l] = Cache!NoEntry
                          \/ mCache'[l] = mCache[l] /\ \A t \in Tags : l \in mTagIndex[t] => l \in mTagIndex'[t]
      BY <1>t, <2>2, DeleteKeeps
    <3> QED BY <1>b, <2>1, <3>1, <3>2, <3>3, <3>4, <3>5, CacheQuiet
  <2>3. CASE /\ mOp[o].keys = {} /\ Cache!Becomes(o, [mOp[o] EXCEPT !.pc = "invalidated"])
             /\ UNCHANGED <<mCache, mTagIndex>>
    <3> DEFINE x == [mOp[o] EXCEPT !.pc = "invalidated"]
    <3>1. x \in CacheOp /\ x.pc = "invalidated" /\ x.owed = mOp[o].owed /\ x.keys = mOp[o].keys
      BY <1>0 DEF CacheOp
    <3>2. Cache!Becomes(o, x)
      BY <2>3
    <3> HIDE DEF x
    <3>3. CacheType'
      BY <1>t, <1>b, <2>1, <2>3, <3>1, <3>2 DEF CacheType
    <3> QED BY <1>b, <2>1, <2>3, <3>1, <3>2, <3>3, CacheQuiet
  <2> QED BY <1>4, <2>2, <2>3 DEF Cache!InvalidateNext
<1>5. CASE Cache!Return(o)
  <2>1. mOp[o].pc = "invalidated" /\ Cache!Becomes(o, Cache!Idle) /\ UNCHANGED <<mNow, mCache, mTagIndex, mSets>>
    BY <1>5 DEF Cache!Return
  <2>2. CacheType'
    BY <1>t, <1>b, <2>1, CacheIdle DEF CacheType
  <2> QED BY <1>b, <2>1, <2>2, CacheIdle, CacheQuiet
<1> QED BY <1>1, <1>2, <1>3, <1>4, <1>5

LEMMA CacheBetween ==
  ASSUME CacheInv,
         \/ \E k \in Keys : Cache!Delete(k)
         \/ Cache!Clear \/ Cache!TimerFires \/ Cache!Tick
  PROVE  CacheInv'
<1>t. CacheType
  BY DEF CacheInv
<1>1. ASSUME NEW k, Cache!DoDelete(k), UNCHANGED <<mNow, mOp, mSets>>
      PROVE  CacheInv'
  <2>1. CacheType'
    BY <1>t, <1>1, DeleteKeeps DEF CacheType
  <2> QED BY <1>t, <1>1, <2>1, DeleteKeeps, CacheQuiet
<1>2. CASE Cache!Clear
  <2>1. Cache!NoEntry \in [id: Nat, tags: SUBSET Tags, expires: Nat]
    BY DEF Cache!NoEntry
  <2>2. CacheType' /\ UNCHANGED <<mOp, mSets>> /\ \A k \in Keys : mCache'[k] = Cache!NoEntry
    BY <1>t, <1>2, <2>1 DEF Cache!Clear, CacheType
  <2> QED BY <2>2, CacheQuiet
<1>3. CASE Cache!Tick
  <2>1. CacheType' /\ UNCHANGED <<mCache, mTagIndex, mOp, mSets>>
    BY SMTT(30), <1>t, <1>3 DEF Cache!Tick, CacheType
  <2> QED BY <2>1, CacheQuiet
<1> QED BY <1>1, <1>2, <1>3 DEF Cache!Delete, Cache!TimerFires

(* When invalidateByTags returns, no entry of the tag that was completely  *)
(* set when it began is cached: for any keys, tags, times to live and any  *)
(* number of operations under way, whatever sets, deletions and expiries   *)
(* interleave with its deletions (MemoryCacheService.doSet, doDelete,      *)
(* CacheService.invalidateByTags).                                         *)
THEOREM CacheInvalidated ==
  ASSUME Ttls \subseteq Nat
  PROVE  Cache!Spec => []InvalidationComplete
<1>1. Cache!Init => CacheInv
  <2> SUFFICES ASSUME Cache!Init PROVE CacheInv
    OBVIOUS
  <2>1. Cache!NoEntry \in [id: Nat, tags: SUBSET Tags, expires: Nat]
        /\ Cache!NoEntry.id = 0 /\ Cache!NoEntry.tags = {}
    BY DEF Cache!NoEntry
  <2>2. /\ CacheType /\ (\A k \in Keys : mCache[k] = Cache!NoEntry) /\ (\A o \in Operations : mOp[o] = Cache!Idle)
    BY <2>1, CacheIdle DEF Cache!Init, CacheType
  <2>3. mSets = 0
    BY DEF Cache!Init
  <2> QED BY SMTT(30), <2>1, <2>2, <2>3, CacheIdle DEF CacheInv, EntriesNumbered, TagsIndexed, OwedListed
<1>2. CacheInv /\ [Cache!Next]_(Cache!vars) => CacheInv'
  <2> SUFFICES ASSUME CacheInv, [Cache!Next]_(Cache!vars) PROVE CacheInv'
    OBVIOUS
  <2>1. CASE UNCHANGED Cache!vars
    BY SMTT(30), <2>1 DEF Cache!vars, CacheInv, CacheType, EntriesNumbered, TagsIndexed, OwedListed
  <2> QED BY <2>1, CacheSet, CacheInvalidate, CacheOthers, CacheBetween DEF Cache!Next
<1>3. CacheInv => InvalidationComplete
  BY DEF CacheInv, OwedListed, InvalidationComplete, Cache!InvalidationComplete
<1> QED BY <1>1, <1>2, <1>3, PTL DEF Cache!Spec

-----------------------------------------------------------------------------
(* ProviderAdapter. *)

(* The delay before each retry is shorter than the time the breaker stays  *)
(* open, and one failure does not open it: 2, 4 and 8 seconds against 60,  *)
(* and 5 failures, in the code.                                            *)
AdapterSetting ==
  /\ BreakerThreshold \in Nat /\ BreakerThreshold >= 2
  /\ BreakerReset \in Nat /\ MaxRetries \in Nat
  /\ \A n \in 1..MaxRetries : 2 ^ n \in Nat /\ 2 ^ n < BreakerReset

Breaker == [state: {"closed", "open", "halfOpen"}, failures: Nat, halfOpenAttempts: Nat, next: Nat]

AdapterCall == [pc: {"new", "operation", "delay", "ended"}, until: Nat]

AdapterType ==
  /\ aNow \in Nat /\ aStreak \in Nat /\ aRetryCount \in Nat
  /\ aBreaker \in Breaker
  /\ aCall \in [AdapterCalls -> AdapterCall]
  /\ aFails \in [AdapterCalls -> Nat]

(* What bounds the calls that can still fail, in each state of the         *)
(* breaker. While it is open, a call at the very bound waits for a retry   *)
(* that comes before the breaker admits anyone.                            *)
CallsBounded ==
  /\ aBreaker.state = "closed" => aBreaker.failures = aStreak /\ aStreak < BreakerThreshold
  /\ aBreaker.state = "halfOpen" =>
       \A c \in AdapterCalls : aCall[c].pc \in {"operation", "delay"} => 2 * aFails[c] < aStreak + BreakerThreshold
  /\ aBreaker.state = "open" =>
       \A c \in AdapterCalls :
         /\ aCall[c].pc = "operation" => 2 * aFails[c] + 1 < aStreak + BreakerThreshold
         /\ aCall[c].pc = "delay" => 2 * aFails[c] < aStreak + BreakerThreshold \/ aCall[c].until < aBreaker.next

AdapterInv ==
  /\ AdapterType
  /\ \A c \in AdapterCalls : /\ aFails[c] <= aStreak
                             /\ 2 * aFails[c] <= aStreak + BreakerThreshold
                             /\ aCall[c].pc = "new" => aFails[c] = 0
                             /\ aCall[c].pc = "delay" => aNow <= aCall[c].until
  /\ CallsBounded

(* The synchronous part of execute, of a new call or of a due retry. *)
LEMMA AdapterAttempt ==
  ASSUME AdapterSetting, AdapterInv, NEW c \in AdapterCalls, Adapter!Attempt(c),
         aCall[c].pc = "new" \/ (aCall[c].pc = "delay" /\ aNow >= aCall[c].until),
         aRetryCount' \in Nat, UNCHANGED <<aNow, aFails, aStreak>>
  PROVE  AdapterInv'
<1>t. AdapterType /\ CallsBounded
  BY DEF AdapterInv
<1>s. BreakerThreshold \in Nat /\ BreakerThreshold >= 2
  BY DEF AdapterSetting
<1>n. /\ aNow \in Nat /\ aStreak \in Nat /\ aBreaker.next \in Nat
      /\ aBreaker.state \in {"closed", "open", "halfOpen"}
      /\ \A d \in AdapterCalls : aFails[d] \in Nat /\ aCall[d].until \in Nat
  BY <1>t DEF AdapterType, Breaker, AdapterCall
<1>1. CASE Adapter!Refused(aBreaker)
  <2>1. aCall' = [aCall EXCEPT ![c].pc = "ended"] /\ aBreaker' = aBreaker
    BY <1>1 DEF Adapter!Attempt
  <2>2. aCall' \in [AdapterCalls -> AdapterCall] /\ aCall'[c].pc = "ended" /\ \A d \in AdapterCalls \ {c} : aCall'[d] = aCall[d]
    BY <1>t, <2>1 DEF AdapterType, AdapterCall
  <2>3. AdapterType'
    BY <1>t, <2>1, <2>2 DEF AdapterType
  <2>4. CallsBounded'
    BY <1>t, <2>1, <2>2 DEF CallsBounded
  <2>5. \A d \in AdapterCalls : /\ aCall'[d].pc = "new" => aFails[d] = 0
                                /\ aCall'[d].pc = "delay" => aNow <= aCall'[d].until
    BY <2>2 DEF AdapterInv
  <2> QED BY <2>3, <2>4, <2>5 DEF AdapterInv
<1>2. CASE ~Adapter!Refused(aBreaker)
  <2>1. aCall' = [aCall EXCEPT ![c].pc = "operation"] /\ aBreaker' = Adapter!Admitted(aBreaker)
    BY <1>2 DEF Adapter!Attempt
  <2>2. aCall' \in [AdapterCalls -> AdapterCall] /\ aCall'[c].pc = "operation" /\ \A d \in AdapterCalls \ {c} : aCall'[d] = aCall[d]
    BY <1>t, <2>1 DEF AdapterType, AdapterCall
  <2>3. /\ aBreaker' \in Breaker /\ aBreaker'.failures = aBreaker.failures
        /\ aBreaker.state = "closed" => aBreaker'.state = "closed"
        /\ aBreaker.state # "closed" => aBreaker'.state = "halfOpen"
    BY <1>t, <1>n, <2>1 DEF Adapter!Admitted, Breaker, AdapterType
  <2>4. aBreaker.state = "open" => aBreaker.next <= aNow
    BY <1>2, <1>n DEF Adapter!Refused, Adapter!ShouldAttemptReset
  <2>5. ASSUME NEW d \in AdapterCalls, aBreaker.state # "closed", aCall'[d].pc \in {"operation", "delay"}
        PROVE  2 * aFails[d] < aStreak + BreakerThreshold
    <3>1. CASE aCall[d].pc = "new"
      BY SMTT(30), <1>n, <1>s, <3>1 DEF AdapterInv
    <3>2. CASE aCall[d].pc = "operation"
      BY SMTT(30), <1>t, <1>n, <1>s, <2>5, <3>2 DEF CallsBounded
    <3>3. CASE aCall[d].pc = "delay"
      BY SMTT(30), <1>t, <1>n, <1>s, <2>4, <2>5, <3>3 DEF CallsBounded, AdapterInv
    <3> QED BY <2>2, <2>5, <3>1, <3>2, <3>3
  <2>6. CallsBounded'
    BY <1>t, <1>n, <2>3, <2>5 DEF CallsBounded
  <2>7. \A d \in AdapterCalls : /\ aCall'[d].pc = "new" => aFails[d] = 0
                                /\ aCall'[d].pc = "delay" => aNow <= aCall'[d].until
    BY <2>2 DEF AdapterInv
  <2>8. AdapterType'
    BY <1>t, <2>2, <2>3 DEF AdapterType
  <2> QED BY <2>6, <2>7, <2>8 DEF AdapterInv
<1> QED BY <1>1, <1>2

(* A success, and a reset of the breaker, clear the count of every call. *)
LEMMA AdapterClears ==
  ASSUME AdapterSetting, AdapterInv, aFails' = Adapter!None, aStreak' = 0, UNCHANGED aNow,
         aRetryCount' \in Nat, aBreaker' \in Breaker,
         aBreaker'.state = "closed" => aBreaker'.failures = 0,
         aCall' \in [AdapterCalls -> AdapterCall],
         \A d \in AdapterCalls : aCall'[d] = aCall[d] \/ aCall'[d].pc = "ended"
  PROVE  AdapterInv'
<1>s. BreakerThreshold \in Nat /\ BreakerThreshold >= 2
  BY DEF AdapterSetting
<1>1. aFails' \in [AdapterCalls -> Nat] /\ \A d \in AdapterCalls : aFails'[d] = 0
  BY DEF Adapter!None
<1>2. AdapterType'
  BY <1>1 DEF AdapterInv, AdapterType
<1>3. CallsBounded'
  BY SMTT(30), <1>1, <1>s DEF CallsBounded
<1> QED BY SMTT(30), <1>1, <1>2, <1>3, <1>s DEF AdapterInv

(* A failed attempt: the breaker counts it, and opens or stays as it was; *)
(* the call ends, or waits for its retry.                                  *)
LEMMA AdapterFailure ==
  ASSUME AdapterSetting, AdapterInv, NEW c \in AdapterCalls, NEW r \in BOOLEAN, Adapter!OperationFails(c, r)
  PROVE  AdapterInv'
<1>t. AdapterType /\ CallsBounded
  BY DEF AdapterInv
<1>s. BreakerThreshold \in Nat /\ BreakerThreshold >= 2 /\ BreakerReset \in Nat /\ MaxRetries \in Nat
  BY DEF AdapterSetting
<1>n. /\ aNow \in Nat /\ aStreak \in Nat /\ aRetryCount \in Nat
      /\ aBreaker.next \in Nat /\ aBreaker.failures \in Nat
      /\ aBreaker.state \in {"closed", "open", "halfOpen"}
      /\ \A d \in AdapterCalls : aFails[d] \in Nat /\ aCall[d].until \in Nat
  BY <1>t DEF AdapterType, Breaker, AdapterCall
<1>f. /\ aCall[c].pc = "operation" /\ aBreaker' = Adapter!OnFailure(aBreaker) /\ aNow' = aNow
      /\ aFails' = [aFails EXCEPT ![c] = @ + 1] /\ aStreak' = aStreak + 1
  BY DEF Adapter!OperationFails
<1>1. /\ aFails' \in [AdapterCalls -> Nat] /\ aFails'[c] = aFails[c] + 1
      /\ \A d \in AdapterCalls \ {c} : aFails'[d] = aFails[d]
  BY SMTT(30), <1>t, <1>f DEF AdapterType
<1>2. /\ aCall' \in [AdapterCalls -> AdapterCall] /\ aRetryCount' \in Nat
      /\ aCall'[c].pc \in {"delay", "ended"}
      /\ aCall'[c].pc = "delay" => aNow <= aCall'[c].until /\ aCall'[c].until < aNow + BreakerReset
      /\ \A d \in AdapterCalls \ {c} : aCall'[d] = aCall[d]
  <2>1. CASE r /\ aRetryCount < MaxRetries
    <3> DEFINE w == 2 ^ (aRetryCount + 1)
    <3>1. aRetryCount + 1 \in 1..MaxRetries
      BY SMTT(30), <1>n, <1>s, <2>1
    <3>2. w \in Nat /\ w < BreakerReset
      BY <3>1 DEF AdapterSetting
    <3>3. aRetryCount' = aRetryCount + 1 /\ aCall' = [aCall EXCEPT ![c] = [pc |-> "delay", until |-> aNow + w]]
      BY <2>1 DEF Adapter!OperationFails
    <3> HIDE DEF w
    <3>4. aNow + w \in Nat /\ aNow <= aNow + w /\ aNow + w < aNow + BreakerReset
      BY SMTT(30), <1>n, <1>s, <3>2
    <3> DEFINE u == aNow + w
    <3>5. u \in Nat /\ aNow <= u /\ u < aNow + BreakerReset /\ aCall' = [aCall EXCEPT ![c] = [pc |-> "delay", until |-> u]]
      BY <3>3, <3>4
    <3> HIDE DEF u
    <3> QED BY SMTT(30), <1>t, <1>n, <3>3, <3>5 DEF AdapterType, AdapterCall
  <2>2. CASE ~(r /\ aRetryCount < MaxRetries)
    <3>1. aRetryCount' = 0 /\ aCall' = [aCall EXCEPT ![c].pc = "ended"]
      BY <2>2 DEF Adapter!OperationFails
    <3> QED BY <1>t, <3>1 DEF AdapterType, AdapterCall
  <2> QED BY <2>1, <2>2
<1>3. /\ aBreaker' \in Breaker /\ aBreaker'.failures = aBreaker.failures + 1
      /\ \/ aBreaker'.state = "open" /\ aBreaker'.next = aNow + BreakerReset
            /\ (aBreaker.state = "halfOpen" \/ (aBreaker.state = "closed" /\ aBreaker.failures + 1 >= BreakerThreshold))
         \/ aBreaker'.state = "open" /\ aBreaker.state = "open" /\ aBreaker'.next = aBreaker.next
         \/ aBreaker'.state = "closed" /\ aBreaker.state = "closed" /\ aBreaker.failures + 1 < BreakerThreshold
  <2> DEFINE b == [aBreaker EXCEPT !.failures = @ + 1]
  <2>1. /\ b \in Breaker /\ b.failures = aBreaker.failures + 1 /\ b.state = aBreaker.state /\ b.next = aBreaker.next
    BY SMTT(30), <1>t, <1>n DEF AdapterType, Breaker
  <2>2. aBreaker' = IF aBreaker.state = "halfOpen" \/ (aBreaker.state = "closed" /\ b.failures >= BreakerThreshold)
                    THEN Adapter!TransitionToOpen(b) ELSE b
    BY <1>f DEF Adapter!OnFailure
  <2> HIDE DEF b
  <2> DEFINE o == Adapter!TransitionToOpen(b)
  <2>3. aNow + BreakerReset \in Nat
    BY SMTT(30), <1>n, <1>s
  <2>4. o \in Breaker /\ o.failures = b.failures /\ o.state = "open" /\ o.next = aNow + BreakerReset
    BY <2>1, <2>3 DEF Adapter!TransitionToOpen, Breaker
  <2> HIDE DEF o
  <2>5. aBreaker' = IF aBreaker.state = "halfOpen" \/ (aBreaker.state = "closed" /\ b.failures >= BreakerThreshold)
                    THEN o ELSE b
    BY <2>2 DEF o
  <2> QED BY SMTT(30), <1>n, <1>s, <2>1, <2>4, <2>5
<1>4. \A d \in AdapterCalls : /\ aFails'[d] <= aStreak'
                              /\ 2 * aFails'[d] <= aStreak' + BreakerThreshold
  <2> SUFFICES ASSUME NEW d \in AdapterCalls
               PROVE  /\ aFails'[d] <= aStreak'
                      /\ 2 * aFails'[d] <= aStreak' + BreakerThreshold
    OBVIOUS
  <2>1. aFails[d] <= aStreak /\ 2 * aFails[d] <= aStreak + BreakerThreshold
    BY DEF AdapterInv
  <2>2. 2 * aFails[c] < aStreak + BreakerThreshold
    <3>1. aFails[c] <= aStreak
      BY DEF AdapterInv
    <3> QED BY SMTT(30), <1>t, <1>n, <1>s, <1>f, <3>1 DEF CallsBounded
  <2> QED BY SMTT(30), <1>n, <1>s, <1>f, <1>1, <2>1, <2>2
<1>5. \A d \in AdapterCalls : /\ aCall'[d].pc = "new" => aFails'[d] = 0
                              /\ aCall'[d].pc = "delay" => aNow <= aCall'[d].until
  BY <1>1, <1>2 DEF AdapterInv
<1>6. AdapterType'
  BY SMTT(30), <1>t, <1>n, <1>f, <1>1, <1>2, <1>3 DEF AdapterType
<1>7. CallsBounded'
  <2>1. ASSUME NEW d \in AdapterCalls, aBreaker'.state = "open"
        PROVE  /\ aCall'[d].pc = "operation" => 2 * aFails'[d] + 1 < aStreak' + BreakerThreshold
               /\ aCall'[d].pc = "delay" =>
                    2 * aFails'[d] < aStreak' + BreakerThreshold \/ aCall'[d].until < aBreaker'.next
    <3>0. aFails[d] <= aStreak
      BY DEF AdapterInv
    <3>1. CASE aBreaker.state = "closed"
      <4>1. aStreak + 1 = BreakerThreshold /\ aBreaker'.next = aNow + BreakerReset
        BY SMTT(30), <1>t, <1>n, <1>s, <1>3, <2>1, <3>1 DEF CallsBounded
      <4>2. CASE d = c
        BY <1>2, <4>1, <4>2
      <4>3. CASE d # c
        BY SMTT(30), <1>n, <1>s, <1>f, <1>1, <3>0, <4>1, <4>3
      <4> QED BY <4>2, <4>3
    <3>2. CASE aBreaker.state = "halfOpen"
      <4>1. aBreaker'.next = aNow + BreakerReset
        BY <1>3, <2>1, <3>2
      <4>2. CASE d = c
        BY <1>2, <4>1, <4>2
      <4>3. CASE d # c
        BY SMTT(30), <1>t, <1>n, <1>s, <1>f, <1>1, <1>2, <3>2, <4>3 DEF CallsBounded
      <4> QED BY <4>2, <4>3
    <3>3. CASE aBreaker.state = "open"
      <4>1. aBreaker'.next = aBreaker.next
        BY <1>3, <3>3
      <4>2. CASE d = c
        BY SMTT(30), <1>t, <1>n, <1>s, <1>f, <1>1, <1>2, <3>3, <4>2 DEF CallsBounded
      <4>3. CASE d # c
        BY SMTT(30), <1>t, <1>n, <1>s, <1>f, <1>1, <1>2, <3>3, <4>1, <4>3 DEF CallsBounded
      <4> QED BY <4>2, <4>3
    <3> QED BY <1>n, <3>1, <3>2, <3>3
  <2>2. aBreaker'.state = "closed" => aBreaker'.failures = aStreak' /\ aStreak' < BreakerThreshold
    BY <1>t, <1>n, <1>s, <1>f, <1>3 DEF CallsBounded
  <2>3. aBreaker'.state # "halfOpen"
    BY <1>3
  <2> QED BY <2>1, <2>2, <2>3 DEF CallsBounded
<1> QED BY <1>f, <1>4, <1>5, <1>6, <1>7 DEF AdapterInv

(* The retries of a call come to an end: its failed attempts since the     *)
(* last success are at most the failure threshold and the failed attempts  *)
(* of the other calls, for any number of calls, although the retryCount    *)
(* they share limits none of them. It rests on AdapterSetting: with a      *)
(* delay longer than the reset timeout a retry would find the breaker half *)
(* open again and again (OpenAIAdapter.execute, CircuitBreaker).           *)
THEOREM AdapterRetries ==
  ASSUME AdapterSetting
  PROVE  Adapter!Spec => []RetriesBounded
<1>s. BreakerThreshold \in Nat /\ BreakerThreshold >= 2
  BY DEF AdapterSetting
<1>0. Adapter!NewBreaker \in Breaker /\ Adapter!NewBreaker.state = "closed" /\ Adapter!NewBreaker.failures = 0
  BY DEF Adapter!NewBreaker, Breaker
<1>1. Adapter!Init => AdapterInv
  <2> SUFFICES ASSUME Adapter!Init PROVE AdapterInv
    OBVIOUS
  <2>1. AdapterType /\ aStreak = 0 /\ \A c \in AdapterCalls : aFails[c] = 0 /\ aCall[c].pc = "new"
    BY <1>0 DEF Adapter!Init, Adapter!None, AdapterType, AdapterCall
  <2>2. aBreaker = Adapter!NewBreaker
    BY DEF Adapter!Init
  <2> QED BY SMTT(30), <1>0, <1>s, <2>1, <2>2 DEF AdapterInv, CallsBounded
<1>2. AdapterInv /\ [Adapter!Next]_(Adapter!vars) => AdapterInv'
  <2> SUFFICES ASSUME AdapterInv, [Adapter!Next]_(Adapter!vars) PROVE AdapterInv'
    OBVIOUS
  <2>t. AdapterType
    BY DEF AdapterInv
  <2>1. ASSUME NEW c \in AdapterCalls, Adapter!Execute(c)
        PROVE  AdapterInv'
    <3>1. aRetryCount' \in Nat
      BY <2>t, <2>1 DEF Adapter!Execute, AdapterType
    <3> QED BY <2>1, <3>1, AdapterAttempt DEF Adapter!Execute
  <2>2. ASSUME NEW c \in AdapterCalls, Adapter!Retry(c)
        PROVE  AdapterInv'
    BY <2>2, AdapterAttempt DEF Adapter!Retry
  <2>3. ASSUME NEW c \in AdapterCalls, Adapter!OperationSucceeds(c)
        PROVE  AdapterInv'
    <3>1. /\ aBreaker' = Adapter!OnSuccess(aBreaker) /\ aCall' = [aCall EXCEPT ![c].pc = "ended"]
          /\ aRetryCount' = 0 /\ aFails' = Adapter!None /\ aStreak' = 0 /\ aNow' = aNow
      BY <2>3 DEF Adapter!OperationSucceeds
    <3>2. aBreaker' \in Breaker /\ (aBreaker'.state = "closed" => aBreaker'.failures = 0)
      <4>1. aBreaker \in Breaker
        BY <2>t DEF AdapterType
      <4>2. [aBreaker EXCEPT !.halfOpenAttempts = @ + 1] \in Breaker /\ [aBreaker EXCEPT !.failures = 0] \in Breaker
        BY SMTT(30), <4>1 DEF Breaker
      <4>3. /\ [aBreaker EXCEPT !.halfOpenAttempts = @ + 1].state = aBreaker.state
            /\ [aBreaker EXCEPT !.failures = 0].failures = 0
        BY <4>1 DEF Breaker
      <4> QED BY <1>0, <3>1, <4>1, <4>2, <4>3 DEF Adapter!OnSuccess
    <3>3. aCall' \in [AdapterCalls -> AdapterCall] /\ \A d \in AdapterCalls : aCall'[d] = aCall[d] \/ aCall'[d].pc = "ended"
      BY <2>t, <3>1 DEF AdapterType, AdapterCall
    <3> QED BY <3>1, <3>2, <3>3, AdapterClears
  <2>4. CASE Adapter!Reset
    BY <1>0, <2>t, <2>4, AdapterClears DEF Adapter!Reset, AdapterType
  <2>5. CASE Adapter!Tick
    <3>1. AdapterType' /\ CallsBounded'
      BY SMTT(30), <2>5 DEF Adapter!Tick, AdapterInv, AdapterType, CallsBounded
    <3>2. \A c \in AdapterCalls : aCall[c].pc = "delay" => aNow + 1 <= aCall[c].until
      BY SMTT(30), <2>t, <2>5 DEF Adapter!Tick, AdapterType, AdapterCall
    <3> QED BY <2>5, <3>1, <3>2 DEF Adapter!Tick, AdapterInv
  <2>6. CASE UNCHANGED Adapter!vars
    BY <2>6 DEF Adapter!vars, AdapterInv, AdapterType, CallsBounded
  <2> QED BY <2>1, <2>2, <2>3, <2>4, <2>5, <2>6, AdapterFailure DEF Adapter!Next
<1>3. AdapterInv => RetriesBounded
  <2> SUFFICES ASSUME AdapterInv, NEW c \in AdapterCalls PROVE aFails[c] <= BreakerThreshold + (aStreak - aFails[c])
    BY DEF RetriesBounded, Adapter!RetriesBounded
  <2>1. aFails[c] \in Nat /\ aStreak \in Nat /\ 2 * aFails[c] <= aStreak + BreakerThreshold
    BY DEF AdapterInv, AdapterType
  <2> QED BY SMTT(30), <1>s, <2>1
<1> QED BY <1>1, <1>2, <1>3, PTL DEF Adapter!Spec

-----------------------------------------------------------------------------
(* LearningModule. *)

(* Fewer writes fail than there are backups; the names of the two other    *)
(* savers are not those of exports.                                        *)
LearningSetting ==
  /\ Exporters \cap {"auto", "destroy"} = {}
  /\ Keep \in Nat /\ MaxFailures \in Nat /\ MaxFailures < Keep

Contents == (SUBSET Feedback) \cup {Nothing, Broken}

Saving == [pc: {"idle", "backup", "write", "writing", "csv"}, array: Nat, content: SUBSET Feedback]

LearningType ==
  /\ lArrays \in Seq(SUBSET Feedback) /\ lHistory \in 1..Len(lArrays)
  /\ lOriginal \in [Exporters -> 0..Len(lArrays)]
  /\ lSave \in [Learning!Savers -> Saving]
  /\ \A s \in Learning!Savers : lSave[s].pc \in {"backup", "write"} => lSave[s].array \in 1..Len(lArrays)
  /\ lFile \in Contents /\ lBackups \in Seq(Contents)
  /\ lFailures \in Nat /\ lFailures <= MaxFailures
  /\ lOverlapped \in BOOLEAN

(* What is not exposed is in every array that is, or may again become, the *)
(* history.                                                                *)
HistoryInv ==
  /\ lRecorded \ lArrays[lHistory] \subseteq lExposed
  /\ lLoading => lRecorded \subseteq lExposed
  /\ \A x \in Exporters : /\ lOriginal[x] # 0 => lRecorded \ lArrays[lOriginal[x]] \subseteq lExposed
                          /\ lSave[x] # Learning!Idle => lOriginal[x] # 0

Underway(s) == lSave[s].pc \in {"write", "writing"}

(* What the last save wrote is at most d backups older than the newest. *)
BackedUp(d) == \E i \in 1..Len(lBackups) : lBackups[i] = lSaved /\ Len(lBackups) - i <= d

(* While saves do not overlap: what is in the file is in the newest backup *)
(* before the file is emptied, and each write that failed since has made   *)
(* at most one more backup.                                                *)
FileInv ==
  ~lOverlapped =>
    /\ \A r, s \in Learning!Savers : lSave[r] # Learning!Idle /\ lSave[s] # Learning!Idle => r = s
    /\ \A s \in Learning!Savers :
         /\ lSave[s].pc = "write" /\ lFile # Nothing => Len(lBackups) > 0 /\ lBackups[Len(lBackups)] = lFile
         /\ lSave[s].pc = "writing" => lFile = Broken
         /\ Underway(s) /\ lSaved # Nothing => BackedUp(lFailures)
    /\ lSaved # Nothing /\ (\A s \in Learning!Savers : ~Underway(s)) => lFile = lSaved \/ BackedUp(lFailures - 1)

LearningInv == LearningType /\ HistoryInv /\ FileInv

LEMMA LearningIdle ==
  Learning!Idle \in Saving /\ Learning!Idle.pc = "idle"
BY DEF Learning!Idle, Saving

LEMMA AppendOne ==
  ASSUME NEW S, NEW q \in Seq(S), NEW e \in S
  PROVE  /\ Append(q, e) \in Seq(S) /\ Len(Append(q, e)) = Len(q) + 1 /\ Append(q, e)[Len(q) + 1] = e
         /\ \A i \in 1..Len(q) : Append(q, e)[i] = q[i]
BY SMTT(30)

(* cleanOldBackups keeps the newest backups in their order. *)
LEMMA NewestKeeps ==
  ASSUME NEW S, NEW q \in Seq(S), Keep \in Nat, Keep > 0
  PROVE  /\ Learning!Newest(q) \in Seq(S)
         /\ Len(q) > 0 => Len(Learning!Newest(q)) > 0 /\ Learning!Newest(q)[Len(Learning!Newest(q))] = q[Len(q)]
         /\ \A i \in 1..Len(q) : Len(q) - i < Keep =>
              \E j \in 1..Len(Learning!Newest(q)) :
                 Learning!Newest(q)[j] = q[i] /\ Len(Learning!Newest(q)) - j = Len(q) - i
<1> DEFINE m == IF Len(q) > Keep THEN Len(q) - Keep + 1 ELSE 1
           n == Learning!Newest(q)
<1>1. Len(q) \in Nat /\ m \in Int /\ m >= 1 /\ m <= Len(q) + 1 /\ (Len(q) > 0 => m <= Len(q))
      /\ \A i \in 1..Len(q) : Len(q) - i < Keep => i >= m
  BY SMTT(30)
<1>2. n = SubSeq(q, m, Len(q))
  BY DEF Learning!Newest
<1> HIDE DEF m, n
<1>3. n \in Seq(S) /\ Len(n) = Len(q) - m + 1 /\ \A j \in 1..Len(n) : n[j] = q[m + j - 1]
  BY SMTT(30), <1>1, <1>2
<1>4. ASSUME NEW i \in 1..Len(q), i >= m
      PROVE  i - m + 1 \in 1..Len(n) /\ n[i - m + 1] = q[i] /\ Len(n) - (i - m + 1) = Len(q) - i
  <2>1. i - m + 1 \in 1..Len(n) /\ Len(n) - (i - m + 1) = Len(q) - i /\ m + (i - m + 1) - 1 = i
    BY SMTT(30), <1>1, <1>3, <1>4
  <2> QED BY <1>3, <2>1
<1>5. Len(q) > 0 => Len(n) > 0 /\ n[Len(n)] = q[Len(q)]
  <2> SUFFICES ASSUME Len(q) > 0 PROVE Len(n) > 0 /\ n[Len(n)] = q[Len(q)]
    OBVIOUS
  <2>1. Len(n) \in 1..Len(n) /\ m + Len(n) - 1 = Len(q)
    BY SMTT(30), <1>1, <1>3
  <2> QED BY SMTT(30), <1>3, <2>1
<1>6. \A i \in 1..Len(q) : Len(q) - i < Keep =>
        \E j \in 1..Len(n) : n[j] = q[i] /\ Len(n) - j = Len(q) - i
  BY <1>1, <1>4
<1> QED BY <1>3, <1>5, <1>6 DEF n

(* A step that leaves the file and the backups alone, and brings no save   *)
(* to its write or away from it.                                           *)
LEMMA FileQuiet ==
  ASSUME FileInv, UNCHANGED <<lFile, lBackups, lFailures, lSaved>>,
         ~lOverlapped' => /\ ~lOverlapped
                          /\ \A r, s \in Learning!Savers :
                               lSave'[r] # Learning!Idle /\ lSave'[s] # Learning!Idle => r = s,
         \A s \in Learning!Savers : \/ lSave'[s].pc = lSave[s].pc
                                    \/ /\ lSave[s].pc \notin {"write", "writing"}
                                       /\ lSave'[s].pc \notin {"write", "writing"}
  PROVE  FileInv'
<1>1. \A s \in Learning!Savers : /\ Underway(s)' <=> Underway(s)
                                 /\ lSave'[s].pc = "write" => lSave[s].pc = "write"
                                 /\ lSave'[s].pc = "writing" => lSave[s].pc = "writing"
  BY DEF Underway
<1>2. BackedUp(lFailures)' = BackedUp(lFailures) /\ BackedUp(lFailures - 1)' = BackedUp(lFailures - 1)
  BY DEF BackedUp
<1> QED BY <1>1, <1>2 DEF FileInv

(* saveToPersistence. *)
LEMMA LearningSaves ==
  ASSUME LearningInv, NEW s \in Learning!Savers, NEW a \in 1..Len(lArrays'), Learning!SaveToPersistence(s, a),
         UNCHANGED <<lFile, lBackups, lFailures, lSaved>>, Len(lArrays') \in Nat, Len(lArrays') >= Len(lArrays)
  PROVE  /\ FileInv' /\ lSave' \in [Learning!Savers -> Saving] /\ lOverlapped' \in BOOLEAN
         /\ \A r \in Learning!Savers \ {s} : lSave'[r] = lSave[r]
         /\ \A r \in Learning!Savers : lSave'[r].pc \in {"backup", "write"} => lSave'[r].array \in 1..Len(lArrays')
<1>t. LearningType
  BY DEF LearningInv
<1> DEFINE n == [pc |-> "backup", array |-> a, content |-> {}]
<1>1. n \in Saving /\ n.pc = "backup" /\ n.array = a
  BY SMTT(30) DEF Saving
<1>2. lSave[s] = Learning!Idle /\ lSave' = [lSave EXCEPT ![s] = n]
      /\ lOverlapped' = (lOverlapped \/ \E r \in Learning!Savers : lSave[r] # Learning!Idle)
  BY DEF Learning!SaveToPersistence
<1> HIDE DEF n
<1>3. /\ lSave' \in [Learning!Savers -> Saving] /\ lSave'[s] = n
      /\ \A r \in Learning!Savers \ {s} : lSave'[r] = lSave[r]
  BY <1>t, <1>1, <1>2 DEF LearningType
<1>4. lOverlapped' \in BOOLEAN
  BY <1>2
<1>5. \A r \in Learning!Savers : lSave'[r].pc \in {"backup", "write"} => lSave'[r].array \in 1..Len(lArrays')
  <2>1. Len(lArrays) \in Nat
    BY SMTT(30), <1>t DEF LearningType
  <2> QED BY SMTT(30), <1>t, <1>1, <1>3, <2>1 DEF LearningType
<1>6. FileInv'
  <2>1. ~lOverlapped' => ~lOverlapped /\ \A r \in Learning!Savers : lSave[r] = Learning!Idle
    BY <1>2
  <2> QED BY <1>1, <1>2, <1>3, <2>1, LearningIdle, FileQuiet DEF LearningInv
<1> QED BY <1>3, <1>4, <1>5, <1>6

LEMMA LearningRecords ==
  ASSUME LearningInv, NEW f \in Feedback, Learning!RecordFeedback(f)
  PROVE  LearningInv'
<1>t. LearningType /\ HistoryInv /\ FileInv
  BY DEF LearningInv
<1>a. lArrays \in Seq(SUBSET Feedback) /\ lHistory \in 1..Len(lArrays) /\ lOriginal \in [Exporters -> 0..Len(lArrays)]
  BY <1>t DEF LearningType
<1>1. /\ lArrays' = [lArrays EXCEPT ![lHistory] = @ \cup {f}] /\ lRecorded' = lRecorded \cup {f}
      /\ lExposed' = IF lLoading \/ \E x \in Exporters : lOriginal[x] # 0 THEN lExposed \cup {f} ELSE lExposed
      /\ UNCHANGED <<lHistory, lLoading, lSave, lOriginal, lFile, lBackups, lFailures, lSaved, lOverlapped>>
  BY DEF Learning!RecordFeedback
<1>2. /\ lArrays' \in Seq(SUBSET Feedback) /\ Len(lArrays') = Len(lArrays)
      /\ lArrays'[lHistory] = lArrays[lHistory] \cup {f}
      /\ \A i \in 1..Len(lArrays) : lArrays[i] \subseteq lArrays'[i]
  <2>1. lArrays[lHistory] \cup {f} \in SUBSET Feedback
    BY SMTT(30), <1>a
  <2> DEFINE e == lArrays[lHistory] \cup {f}
  <2>2. e \in SUBSET Feedback /\ lArrays' = [lArrays EXCEPT ![lHistory] = e] /\ lArrays[lHistory] \subseteq e
    BY <1>1, <2>1
  <2>3. e = lArrays[lHistory] \cup {f}
    OBVIOUS
  <2> HIDE DEF e
  <2>4. lArrays' \in Seq(SUBSET Feedback) /\ Len(lArrays') = Len(lArrays) /\ lArrays'[lHistory] = e
        /\ \A i \in 1..Len(lArrays) : i # lHistory => lArrays'[i] = lArrays[i]
    BY SMTT(30), <1>a, <2>2
  <2> QED BY <2>2, <2>3, <2>4
<1>3. LearningType'
  BY <1>t, <1>1, <1>2 DEF LearningType
<1>4. HistoryInv'
  <2>1. lRecorded' \ lArrays'[lHistory] \subseteq lExposed'
    BY <1>t, <1>1, <1>2, <1>a DEF HistoryInv
  <2>2. lLoading => lRecorded' \subseteq lExposed'
    BY <1>t, <1>1 DEF HistoryInv
  <2>3. ASSUME NEW x \in Exporters, lOriginal[x] # 0
        PROVE  lRecorded' \ lArrays'[lOriginal[x]] \subseteq lExposed'
    <3>1. lOriginal[x] \in 1..Len(lArrays) /\ lExposed' = lExposed \cup {f}
      BY SMTT(30), <1>a, <1>1, <2>3
    <3>2. lRecorded \ lArrays[lOriginal[x]] \subseteq lExposed
      BY <1>t, <2>3 DEF HistoryInv
    <3> QED BY <1>1, <1>2, <3>1, <3>2
  <2> QED BY <1>t, <1>1, <2>1, <2>2, <2>3 DEF HistoryInv
<1>5. FileInv'
  BY <1>t, <1>1 DEF FileInv, Underway, BackedUp
<1> QED BY <1>3, <1>4, <1>5 DEF LearningInv

LEMMA LearningLoads ==
  ASSUME LearningInv, Learning!LoadFromPersistence
  PROVE  LearningInv'
<1>t. LearningType /\ HistoryInv /\ FileInv
  BY DEF LearningInv
<1>a. lArrays \in Seq(SUBSET Feedback) /\ lHistory \in 1..Len(lArrays) /\ lOriginal \in [Exporters -> 0..Len(lArrays)]
      /\ lFile \in Contents
  BY <1>t DEF LearningType
<1>1. lLoading /\ lLoading' = FALSE
      /\ UNCHANGED <<lSave, lOriginal, lFile, lBackups, lFailures, lRecorded, lExposed, lOverlapped>>
  BY DEF Learning!LoadFromPersistence
<1>2. lRecorded \subseteq lExposed
  BY <1>t, <1>1 DEF HistoryInv
<1>3. CASE lFile \in {Nothing, Broken}
  <2>1. UNCHANGED <<lArrays, lHistory>> /\ lSaved' = Nothing
    BY <1>3 DEF Learning!LoadFromPersistence
  <2>2. LearningType' /\ HistoryInv'
    BY <1>t, <1>1, <2>1 DEF LearningType, HistoryInv
  <2>3. FileInv'
    BY <1>t, <1>1, <2>1 DEF FileInv
  <2> QED BY <2>2, <2>3 DEF LearningInv
<1>4. CASE lFile \notin {Nothing, Broken}
  <2>1. lArrays' = Append(lArrays, lFile) /\ lHistory' = Len(lArrays') /\ lSaved' = lFile
    BY <1>4 DEF Learning!LoadFromPersistence
  <2>2. lFile \in SUBSET Feedback
    BY <1>a, <1>4 DEF Contents
  <2>3. /\ lArrays' \in Seq(SUBSET Feedback) /\ Len(lArrays') = Len(lArrays) + 1
        /\ \A i \in 1..Len(lArrays) : lArrays'[i] = lArrays[i]
    BY SMTT(30), <1>a, <2>1, <2>2, AppendOne
  <2>4. Len(lArrays) \in Nat
    BY SMTT(30), <1>a
  <2>5. LearningType'
    BY SMTT(30), <1>t, <1>1, <2>1, <2>3, <2>4 DEF LearningType
  <2>6. HistoryInv'
    BY <1>t, <1>1, <1>2 DEF HistoryInv
  <2>7. FileInv'
    <3> SUFFICES ASSUME ~lOverlapped PROVE FileInv'
      BY <1>1 DEF FileInv
    <3>1. ASSUME NEW s \in Learning!Savers, Underway(s)
          PROVE  BackedUp(lFailures)'
      <4>1. lSave[s].pc = "write"
        BY <1>t, <1>4, <3>1 DEF FileInv, Underway
      <4>2. Len(lBackups) > 0 /\ lBackups[Len(lBackups)] = lFile
        BY <1>t, <1>4, <4>1 DEF FileInv
      <4>3. Len(lBackups) \in Nat /\ lFailures \in Nat
        BY SMTT(30), <1>t DEF LearningType
      <4>4. Len(lBackups) \in 1..Len(lBackups) /\ Len(lBackups) - Len(lBackups) <= lFailures
        BY SMTT(30), <4>2, <4>3
      <4> QED BY <1>1, <2>1, <4>2, <4>4 DEF BackedUp
    <3>2. \A s \in Learning!Savers : Underway(s)' <=> Underway(s)
      BY <1>1 DEF Underway
    <3> QED BY <1>t, <1>1, <2>1, <3>1, <3>2 DEF FileInv
  <2> QED BY <2>5, <2>6, <2>7 DEF LearningInv
<1> QED BY <1>3, <1>4

LEMMA LearningBacksUp ==
  ASSUME LearningSetting, LearningInv, NEW s \in Learning!Savers, Learning!CreateBackup(s)
  PROVE  LearningInv'
<1>t. LearningType /\ HistoryInv /\ FileInv
  BY DEF LearningInv
<1>s. Keep \in Nat /\ MaxFailures \in Nat /\ MaxFailures < Keep /\ Keep > 0
  BY SMTT(30) DEF LearningSetting
<1>a. /\ lSave \in [Learning!Savers -> Saving] /\ lFile \in Contents /\ lBackups \in Seq(Contents) /\ Len(lBackups) \in Nat
      /\ lFailures \in Nat /\ lFailures <= MaxFailures
  BY SMTT(30), <1>t DEF LearningType
<1>1. /\ lSave[s].pc = "backup" /\ lSave' = [lSave EXCEPT ![s].pc = "write"] /\ lBackups' = Learning!Backup
      /\ UNCHANGED <<lArrays, lHistory, lLoading, lOriginal, lFile, lFailures, lRecorded, lExposed, lSaved, lOverlapped>>
  BY DEF Learning!CreateBackup, Learning!memory
<1>2. /\ lSave' \in [Learning!Savers -> Saving] /\ lSave'[s].pc = "write" /\ lSave'[s].array = lSave[s].array
      /\ \A r \in Learning!Savers \ {s} : lSave'[r] = lSave[r]
  BY <1>a, <1>1 DEF Saving
<1>3. /\ lBackups' \in Seq(Contents) /\ Len(lBackups') \in Nat
      /\ lFile = Nothing => lBackups' = lBackups
      /\ lFile # Nothing => /\ Len(lBackups') > 0 /\ lBackups'[Len(lBackups')] = lFile
                            /\ \A i \in 1..Len(lBackups) : Len(lBackups) + 1 - i < Keep =>
                                 \E j \in 1..Len(lBackups') : lBackups'[j] = lBackups[i]
                                                             /\ Len(lBackups') - j = Len(lBackups) + 1 - i
  <2>1. CASE lFile = Nothing
    BY <1>a, <1>1, <2>1 DEF Learning!Backup
  <2>2. CASE lFile # Nothing
    <3> DEFINE q == Append(lBackups, lFile)
    <3>1. lBackups' = Learning!Newest(q)
      BY <1>1, <2>2 DEF Learning!Backup
    <3>2. /\ q \in Seq(Contents) /\ Len(q) = Len(lBackups) + 1 /\ q[Len(q)] = lFile
          /\ \A i \in 1..Len(lBackups) : q[i] = lBackups[i]
      BY SMTT(30), <1>a, AppendOne
    <3> HIDE DEF q
    <3>3. /\ lBackups' \in Seq(Contents)
          /\ Len(q) > 0 => Len(lBackups') > 0 /\ lBackups'[Len(lBackups')] = q[Len(q)]
          /\ \A i \in 1..Len(q) : Len(q) - i < Keep =>
               \E j \in 1..Len(lBackups') : lBackups'[j] = q[i] /\ Len(lBackups') - j = Len(q) - i
      BY <1>s, <3>1, <3>2, NewestKeeps
    <3>4. \A i \in 1..Len(lBackups) : i \in 1..Len(q)
      BY SMTT(30), <1>a, <3>2
    <3>5. Len(lBackups') \in Nat
      BY SMTT(30), <3>3
    <3>6. ASSUME NEW i \in 1..Len(lBackups), Len(lBackups) + 1 - i < Keep
          PROVE  \E j \in 1..Len(lBackups') :
                   lBackups'[j] = lBackups[i] /\ Len(lBackups') - j = Len(lBackups) + 1 - i
      <4>1. i \in 1..Len(q) /\ Len(q) - i < Keep /\ q[i] = lBackups[i]
        BY SMTT(30), <3>2, <3>4, <3>6
      <4>2. PICK j \in 1..Len(lBackups') : lBackups'[j] = q[i] /\ Len(lBackups') - j = Len(q) - i
        BY <3>3, <4>1
      <4> QED BY SMTT(30), <3>2, <4>1, <4>2
    <3>7. Len(lBackups') > 0 /\ lBackups'[Len(lBackups')] = lFile
      BY SMTT(30), <1>a, <3>2, <3>3
    <3> QED BY <2>2, <3>3, <3>5, <3>6, <3>7
  <2> QED BY <2>1, <2>2
<1>4. LearningType'
  BY <1>t, <1>1, <1>2, <1>3 DEF LearningType
<1>5. HistoryInv'
  <2>1. lSave[s] # Learning!Idle
    BY <1>1, LearningIdle
  <2>2. \A x \in Exporters : x \in Learning!Savers
    BY DEF Learning!Savers
  <2> QED BY <1>t, <1>1, <1>2, <2>1, <2>2 DEF HistoryInv
<1>6. FileInv'
  <2> SUFFICES ASSUME ~lOverlapped PROVE FileInv'
    BY <1>1 DEF FileInv
  <2>1. \A r \in Learning!Savers \ {s} : lSave[r] = Learning!Idle
    BY <1>t, <1>1, LearningIdle DEF FileInv
  <2>2. \A r \in Learning!Savers \ {s} : lSave'[r] = Learning!Idle /\ lSave'[r].pc = "idle" /\ ~Underway(r)
    BY <1>2, <2>1, LearningIdle DEF Underway
  <2>3. \A r \in Learning!Savers : ~Underway(r)
    BY <1>1, <2>2 DEF Underway
  <2>4. ASSUME lSaved # Nothing
        PROVE  BackedUp(lFailures)'
    <3>1. CASE lFile = lSaved
      <4>1. Len(lBackups') \in 1..Len(lBackups') /\ Len(lBackups') - Len(lBackups') <= lFailures
        BY SMTT(30), <1>a, <1>3, <2>4, <3>1
      <4> QED BY <1>1, <1>3, <2>4, <3>1, <4>1 DEF BackedUp
    <3>2. CASE lFile # lSaved
      <4>1. PICK i \in 1..Len(lBackups) : lBackups[i] = lSaved /\ Len(lBackups) - i <= lFailures - 1
        BY <1>t, <2>3, <2>4, <3>2 DEF FileInv, BackedUp
      <4>2. CASE lFile = Nothing
        <5>1. Len(lBackups) - i <= lFailures
          BY SMTT(30), <1>a, <4>1
        <5> QED BY <1>1, <1>3, <4>1, <4>2, <5>1 DEF BackedUp
      <4>3. CASE lFile # Nothing
        <5>1. Len(lBackups) + 1 - i <= lFailures /\ Len(lBackups) + 1 - i < Keep
          BY SMTT(30), <1>a, <1>s, <4>1
        <5> QED BY <1>1, <1>3, <4>1, <4>3, <5>1 DEF BackedUp
      <4> QED BY <4>2, <4>3
    <3> QED BY <3>1, <3>2
  <2>5. ASSUME NEW r \in Learning!Savers
        PROVE  /\ lSave'[r].pc = "write" /\ lFile # Nothing => Len(lBackups') > 0 /\ lBackups'[Len(lBackups')] = lFile
               /\ lSave'[r].pc # "writing"
    BY <1>2, <1>3, <2>2
  <2>6. Underway(s)'
    BY <1>2 DEF Underway
  <2> QED BY <1>1, <2>2, <2>4, <2>5, <2>6 DEF FileInv
<1> QED BY <1>4, <1>5, <1>6 DEF LearningInv

(* The three steps of a write, by what they do to the save of one saver. *)
LEMMA LearningWrites ==
  ASSUME LearningSetting, LearningInv, NEW s \in Learning!Savers,
         Learning!WriteBegins(s) \/ Learning!WriteEnds(s) \/ Learning!WriteFails(s)
  PROVE  LearningInv'
<1>t. LearningType /\ HistoryInv /\ FileInv
  BY DEF LearningInv
<1>a. /\ lSave \in [Learning!Savers -> Saving] /\ lArrays \in Seq(SUBSET Feedback) /\ lFailures \in Nat
      /\ lOriginal \in [Exporters -> 0..Len(lArrays)] /\ Len(lArrays) \in Nat
  BY SMTT(30), <1>t DEF LearningType
<1>x. \A x \in Exporters : x \in Learning!Savers
  BY DEF Learning!Savers
<1>i. Learning!Idle \in Saving /\ Learning!Idle.pc = "idle"
  BY LearningIdle
<1>o. ASSUME ~lOverlapped, lSave[s].pc # "idle"
      PROVE  \A r \in Learning!Savers \ {s} : lSave[r] = Learning!Idle /\ lSave[r].pc = "idle" /\ ~Underway(r)
  BY <1>t, <1>i, <1>o DEF FileInv, Underway
<1>1. CASE Learning!WriteBegins(s)
  <2>1. /\ lSave[s].pc = "write" /\ lFile' = Broken
        /\ lSave' = [lSave EXCEPT ![s].pc = "writing", ![s].content = lArrays[lSave[s].array]]
        /\ UNCHANGED <<lArrays, lHistory, lLoading, lOriginal, lBackups, lFailures, lRecorded, lExposed, lSaved, lOverlapped>>
    BY <1>1 DEF Learning!WriteBegins, Learning!memory
  <2>2. lArrays[lSave[s].array] \in SUBSET Feedback
    BY SMTT(30), <1>t, <1>a, <2>1 DEF LearningType
  <2>3. /\ lSave' \in [Learning!Savers -> Saving] /\ lSave'[s].pc = "writing"
        /\ \A r \in Learning!Savers \ {s} : lSave'[r] = lSave[r]
    <3> DEFINE c == lArrays[lSave[s].array]
    <3>1. c \in SUBSET Feedback /\ lSave' = [lSave EXCEPT ![s].pc = "writing", ![s].content = c]
      BY <2>1, <2>2
    <3> HIDE DEF c
    <3> QED BY <1>a, <3>1 DEF Saving
  <2>4. LearningType'
    BY <1>t, <2>1, <2>3 DEF LearningType, Contents
  <2>5. HistoryInv'
    BY <1>t, <1>x, <1>i, <2>1, <2>3 DEF HistoryInv
  <2>6. FileInv'
    <3> SUFFICES ASSUME ~lOverlapped PROVE FileInv'
      BY <2>1 DEF FileInv
    <3>1. \A r \in Learning!Savers \ {s} : lSave'[r] = Learning!Idle /\ lSave'[r].pc = "idle"
      BY <1>o, <2>1, <2>3
    <3>2. Underway(s) /\ Underway(s)'
      BY <2>1, <2>3 DEF Underway
    <3>3. lSaved # Nothing => BackedUp(lFailures)'
      BY <1>t, <2>1, <3>2 DEF FileInv, BackedUp
    <3> QED BY <1>i, <2>1, <2>3, <3>1, <3>2, <3>3 DEF FileInv
  <2> QED BY <2>4, <2>5, <2>6 DEF LearningInv
<1>2. CASE Learning!WriteEnds(s)
  <2>1. /\ lSave[s].pc = "writing" /\ lSaved' = lSave[s].content
        /\ lFile' \in {lSave[s].content}
                      \cup (IF \E r \in Learning!Savers \ {s} : lSave[r].pc = "writing" THEN {Broken} ELSE {})
        /\ lSave' = [lSave EXCEPT ![s] = Learning!AfterSave(s)]
        /\ UNCHANGED <<lArrays, lHistory, lLoading, lOriginal, lBackups, lFailures, lRecorded, lExposed, lOverlapped>>
    BY <1>2 DEF Learning!WriteEnds, Learning!memory
  <2>2. Learning!AfterSave(s) \in Saving /\ Learning!AfterSave(s).pc \in {"idle", "csv"}
    BY <1>i DEF Learning!AfterSave, Saving
  <2>3. /\ lSave' \in [Learning!Savers -> Saving] /\ lSave'[s].pc \in {"idle", "csv"}
        /\ \A r \in Learning!Savers \ {s} : lSave'[r] = lSave[r]
    BY <1>a, <2>1, <2>2
  <2>4. lFile' \in Contents
    <3>1. lSave[s].content \in SUBSET Feedback
      BY <1>a DEF Saving
    <3> QED BY <2>1, <3>1 DEF Contents
  <2>5. LearningType'
    BY <1>t, <2>1, <2>3, <2>4 DEF LearningType
  <2>6. HistoryInv'
    BY <1>t, <1>x, <1>i, <2>1, <2>3 DEF HistoryInv
  <2>7. FileInv'
    <3> SUFFICES ASSUME ~lOverlapped PROVE FileInv'
      BY <2>1 DEF FileInv
    <3>1. \A r \in Learning!Savers \ {s} : lSave'[r] = Learning!Idle /\ lSave'[r].pc = "idle" /\ lSave[r].pc # "writing"
      BY <1>o, <2>1, <2>3
    <3>2. lFile' = lSaved'
      BY <2>1, <3>1
    <3>3. \A r \in Learning!Savers : ~Underway(r)' /\ lSave'[r].pc \notin {"write", "writing"}
      BY <2>3, <3>1 DEF Underway
    <3> QED BY <2>1, <3>1, <3>2, <3>3 DEF FileInv
  <2> QED BY <2>5, <2>6, <2>7 DEF LearningInv
<1>3. CASE Learning!WriteFails(s)
  <2>1. /\ lSave[s].pc = "writing" /\ lFailures < MaxFailures /\ lFailures' = lFailures + 1
        /\ lSave' = [lSave EXCEPT ![s] = Learning!Idle]
        /\ lOriginal' = [x \in Exporters |-> IF x = s THEN 0 ELSE lOriginal[x]]
        /\ UNCHANGED <<lArrays, lHistory, lLoading, lFile, lBackups, lRecorded, lExposed, lSaved, lOverlapped>>
    BY <1>3 DEF Learning!WriteFails
  <2>2. /\ lSave' \in [Learning!Savers -> Saving] /\ lSave'[s] = Learning!Idle
        /\ \A r \in Learning!Savers \ {s} : lSave'[r] = lSave[r]
    BY <1>a, <1>i, <2>1
  <2>3. lOriginal' \in [Exporters -> 0..Len(lArrays)]
    BY SMTT(30), <1>a, <2>1
  <2>m. lFailures' \in Nat /\ lFailures' <= MaxFailures
    BY SMTT(30), <1>a, <2>1 DEF LearningSetting
  <2>4. LearningType'
    BY <1>t, <1>i, <2>1, <2>2, <2>3, <2>m DEF LearningType
  <2>5. HistoryInv'
    <3>1. ASSUME NEW x \in Exporters
          PROVE  /\ lOriginal'[x] # 0 => lRecorded \ lArrays[lOriginal'[x]] \subseteq lExposed
                 /\ lSave'[x] # Learning!Idle => lOriginal'[x] # 0
      <4>1. CASE x = s
        BY <2>1, <2>2, <4>1
      <4>2. CASE x # s
        <5>1. lOriginal'[x] = lOriginal[x] /\ lSave'[x] = lSave[x]
          BY <1>x, <2>1, <2>2, <4>2
        <5> QED BY <1>t, <5>1 DEF HistoryInv
      <4> QED BY <4>1, <4>2
    <3> QED BY <1>t, <2>1, <3>1 DEF HistoryInv
  <2>6. FileInv'
    <3> SUFFICES ASSUME ~lOverlapped PROVE FileInv'
      BY <2>1 DEF FileInv
    <3>1. \A r \in Learning!Savers : lSave'[r] = Learning!Idle /\ lSave'[r].pc = "idle" /\ ~Underway(r)'
      BY <1>i, <1>o, <2>1, <2>2 DEF Underway
    <3>2. lSaved # Nothing => BackedUp(lFailures' - 1)
      <4>1. lFailures' - 1 = lFailures /\ Underway(s)
        BY SMTT(30), <1>a, <2>1 DEF Underway
      <4> QED BY <1>t, <4>1 DEF FileInv
    <3>3. lSaved' # Nothing => BackedUp(lFailures - 1)'
      BY <2>1, <3>2 DEF BackedUp
    <3> QED BY <3>1, <3>3 DEF FileInv
  <2> QED BY <2>4, <2>5, <2>6 DEF LearningInv
<1> QED BY <1>1, <1>2, <1>3

LEMMA LearningExports ==
  ASSUME LearningInv, NEW x \in Exporters, Learning!ExportToCSV(x) \/ Learning!ExportEnds(x)
  PROVE  LearningInv'
<1>t. LearningType /\ HistoryInv /\ FileInv
  BY DEF LearningInv
<1>a. /\ lSave \in [Learning!Savers -> Saving] /\ lArrays \in Seq(SUBSET Feedback) /\ Len(lArrays) \in Nat
      /\ lHistory \in 1..Len(lArrays) /\ lOriginal \in [Exporters -> 0..Len(lArrays)]
  BY SMTT(30), <1>t DEF LearningType
<1>x. \A y \in Exporters : y \in Learning!Savers
  BY DEF Learning!Savers
<1>1. CASE Learning!ExportToCSV(x)
  <2>1. /\ lArrays' = Append(lArrays, lArrays[lHistory]) /\ lHistory' = Len(lArrays')
        /\ lOriginal' = [lOriginal EXCEPT ![x] = lHistory] /\ Learning!SaveToPersistence(x, lHistory')
        /\ UNCHANGED <<lLoading, lFile, lBackups, lFailures, lRecorded, lExposed, lSaved>>
    BY <1>1 DEF Learning!ExportToCSV
  <2>2. /\ lArrays' \in Seq(SUBSET Feedback) /\ Len(lArrays') = Len(lArrays) + 1 /\ lArrays'[lHistory'] = lArrays[lHistory]
        /\ \A i \in 1..Len(lArrays) : lArrays'[i] = lArrays[i]
    <3>1. lArrays[lHistory] \in SUBSET Feedback
      BY SMTT(30), <1>a
    <3> QED BY SMTT(30), <1>a, <2>1, <3>1, AppendOne
  <2>3. lHistory' \in 1..Len(lArrays') /\ lOriginal' \in [Exporters -> 0..Len(lArrays')]
    BY SMTT(30), <1>a, <2>1, <2>2
  <2>4. /\ FileInv' /\ lSave' \in [Learning!Savers -> Saving] /\ lOverlapped' \in BOOLEAN
        /\ \A r \in Learning!Savers \ {x} : lSave'[r] = lSave[r]
        /\ \A r \in Learning!Savers : lSave'[r].pc \in {"backup", "write"} => lSave'[r].array \in 1..Len(lArrays')
    <3>1. Len(lArrays') \in Nat /\ Len(lArrays') >= Len(lArrays)
      BY SMTT(30), <1>a, <2>2
    <3> QED BY <1>x, <2>1, <2>3, <3>1, LearningSaves
  <2>5. LearningType'
    BY <1>t, <2>1, <2>2, <2>3, <2>4 DEF LearningType
  <2>6. ASSUME NEW y \in Exporters
        PROVE  /\ lOriginal'[y] # 0 => lRecorded \ lArrays'[lOriginal'[y]] \subseteq lExposed
               /\ lSave'[y] # Learning!Idle => lOriginal'[y] # 0
    <3>1. CASE y = x
      <4>1. lOriginal'[y] = lHistory /\ lHistory # 0 /\ lArrays'[lHistory] = lArrays[lHistory]
        BY SMTT(30), <1>a, <2>1, <2>2, <3>1
      <4> QED BY <1>t, <4>1 DEF HistoryInv
    <3>2. CASE y # x
      <4>1. lOriginal'[y] = lOriginal[y] /\ lSave'[y] = lSave[y]
        BY <1>a, <1>x, <2>1, <2>4, <3>2
      <4>2. lOriginal[y] # 0 => lArrays'[lOriginal[y]] = lArrays[lOriginal[y]]
        BY SMTT(30), <1>a, <2>2
      <4> QED BY <1>t, <4>1, <4>2 DEF HistoryInv
    <3> QED BY <3>1, <3>2
  <2>7. HistoryInv'
    BY <1>t, <2>1, <2>2, <2>6 DEF HistoryInv
  <2> QED BY <2>4, <2>5, <2>7 DEF LearningInv
<1>2. CASE Learning!ExportEnds(x)
  <2>1. /\ lSave[x].pc = "csv" /\ lSave' = [lSave EXCEPT ![x] = Learning!Idle]
        /\ lHistory' = IF lFile \in {Nothing, Broken} THEN lHistory ELSE lOriginal[x]
        /\ lOriginal' = [lOriginal EXCEPT ![x] = 0]
        /\ UNCHANGED <<lArrays, lLoading, lFile, lBackups, lFailures, lRecorded, lExposed, lSaved, lOverlapped>>
    BY <1>2 DEF Learning!ExportEnds
  <2>2. /\ lSave' \in [Learning!Savers -> Saving] /\ lSave'[x] = Learning!Idle
        /\ \A r \in Learning!Savers \ {x} : lSave'[r] = lSave[r]
    BY <1>a, <1>x, <2>1, LearningIdle
  <2>3. lOriginal[x] # 0 /\ lOriginal[x] \in 1..Len(lArrays)
    BY SMTT(30), <1>t, <1>a, <2>1, LearningIdle DEF HistoryInv
  <2>4. lHistory' \in 1..Len(lArrays) /\ lOriginal' \in [Exporters -> 0..Len(lArrays)]
    BY SMTT(30), <1>a, <2>1, <2>3
  <2>5. LearningType'
    BY <1>t, <2>1, <2>2, <2>4, LearningIdle DEF LearningType
  <2>6. lRecorded \ lArrays[lHistory'] \subseteq lExposed
    BY <1>t, <2>1, <2>3 DEF HistoryInv
  <2>7. ASSUME NEW y \in Exporters
        PROVE  /\ lOriginal'[y] # 0 => lRecorded \ lArrays[lOriginal'[y]] \subseteq lExposed
               /\ lSave'[y] # Learning!Idle => lOriginal'[y] # 0
    <3>1. CASE y = x
      BY <1>a, <2>1, <2>2, <3>1
    <3>2. CASE y # x
      <4>1. lOriginal'[y] = lOriginal[y] /\ lSave'[y] = lSave[y]
        BY <1>a, <1>x, <2>1, <2>2, <3>2
      <4> QED BY <1>t, <4>1 DEF HistoryInv
    <3> QED BY <3>1, <3>2
  <2>8. HistoryInv'
    BY <1>t, <2>1, <2>6, <2>7 DEF HistoryInv
  <2>9. FileInv'
    <3>1. ~lOverlapped' => /\ ~lOverlapped
                           /\ \A r, s \in Learning!Savers :
                                lSave'[r] # Learning!Idle /\ lSave'[s] # Learning!Idle => r = s
      BY <1>t, <2>1, <2>2 DEF FileInv
    <3>2. \A s \in Learning!Savers : \/ lSave'[s].pc = lSave[s].pc
                                     \/ /\ lSave[s].pc \notin {"write", "writing"}
                                        /\ lSave'[s].pc \notin {"write", "writing"}
      BY <2>1, <2>2, LearningIdle
    <3> QED BY <1>t, <2>1, <3>1, <3>2, FileQuiet
  <2> QED BY <2>5, <2>8, <2>9 DEF LearningInv
<1> QED BY <1>1, <1>2

(* A save by the timer or by destroy is no export's. *)
LEMMA LearningTimed ==
  ASSUME LearningSetting, LearningInv, Learning!AutoSave \/ Learning!Destroy
  PROVE  LearningInv'
<1>t. LearningType /\ HistoryInv /\ FileInv
  BY DEF LearningInv
<1>1. PICK s \in {"auto", "destroy"} : Learning!SaveToPersistence(s, lHistory)
  BY DEF Learning!AutoSave, Learning!Destroy
<1>2. UNCHANGED <<lArrays, lHistory, lLoading, lOriginal, lFile, lBackups, lFailures, lRecorded, lExposed, lSaved>>
  BY DEF Learning!AutoSave, Learning!Destroy, Learning!memory
<1>3. s \in Learning!Savers /\ \A x \in Exporters : x \in Learning!Savers \ {s}
  BY DEF Learning!Savers, LearningSetting
<1>4. /\ FileInv' /\ lSave' \in [Learning!Savers -> Saving] /\ lOverlapped' \in BOOLEAN
      /\ \A r \in Learning!Savers \ {s} : lSave'[r] = lSave[r]
      /\ \A r \in Learning!Savers : lSave'[r].pc \in {"backup", "write"} => lSave'[r].array \in 1..Len(lArrays')
  <2>1. lHistory \in 1..Len(lArrays') /\ Len(lArrays') \in Nat /\ Len(lArrays') >= Len(lArrays)
    BY SMTT(30), <1>t, <1>2 DEF LearningType
  <2> QED BY <1>1, <1>2, <1>3, <2>1, LearningSaves
<1>5. LearningType'
  BY <1>t, <1>2, <1>4 DEF LearningType
<1>6. HistoryInv'
  BY <1>t, <1>2, <1>3, <1>4 DEF HistoryInv
<1> QED BY <1>4, <1>5, <1>6 DEF LearningInv

(* No feedback leaves the history, except what was recorded while the load *)
(* or an export was in progress; and what the last save wrote, or the load *)
(* read, is in the file or in a backup at every point, while no two saves  *)
(* overlap and fewer writes fail than there are backups: for any number of *)
(* saves, exports and crashes (LearningModule.exportToCSV,                 *)
(* LearningPersistence.save, createBackup, cleanOldBackups).               *)
THEOREM LearningKeeps ==
  ASSUME LearningSetting
  PROVE  Learning!Spec => []FeedbackKept
<1>0. ASSUME lArrays = <<{}>>, lHistory = 1, lOriginal = [x \in Exporters |-> 0],
             lSave = [s \in Learning!Savers |-> Learning!Idle], lRecorded = {}, lSaved = Nothing, lOverlapped = FALSE,
             lFile \in Contents, lBackups \in Seq(Contents), lFailures \in Nat, lFailures <= MaxFailures
      PROVE  LearningInv
  <2>1. lArrays \in Seq(SUBSET Feedback) /\ Len(lArrays) = 1
    BY SMTT(30), <1>0
  <2>2. /\ lSave \in [Learning!Savers -> Saving]
        /\ \A s \in Learning!Savers : lSave[s] = Learning!Idle /\ lSave[s].pc = "idle"
    BY <1>0, LearningIdle
  <2>3. lOriginal \in [Exporters -> 0..Len(lArrays)] /\ lHistory \in 1..Len(lArrays)
    BY SMTT(30), <1>0, <2>1
  <2>b. lOverlapped \in BOOLEAN
    BY <1>0
  <2>4. LearningType
    BY <1>0, <2>1, <2>2, <2>3, <2>b DEF LearningType
  <2>5. HistoryInv /\ FileInv
    BY <1>0, <2>2, \A x \in Exporters : x \in Learning!Savers DEF HistoryInv, FileInv, Underway, Learning!Savers
  <2> QED BY <2>4, <2>5 DEF LearningInv
<1>1. Learning!Init => LearningInv
  <2> SUFFICES ASSUME Learning!Init PROVE LearningInv
    OBVIOUS
  <2>1. lFile \in Contents /\ lBackups \in Seq(Contents) /\ lFailures \in Nat /\ lFailures <= MaxFailures
    BY SMTT(30) DEF Learning!Init, Contents, LearningSetting
  <2> QED BY <1>0, <2>1 DEF Learning!Init
<1>2. LearningInv /\ [Learning!Next]_(Learning!vars) => LearningInv'
  <2> SUFFICES ASSUME LearningInv, [Learning!Next]_(Learning!vars) PROVE LearningInv'
    OBVIOUS
  <2>1. CASE Learning!Crash
    <3>1. /\ lArrays' = <<{}>> /\ lHistory' = 1 /\ lOriginal' = [x \in Exporters |-> 0]
          /\ lSave' = [s \in Learning!Savers |-> Learning!Idle]
          /\ lRecorded' = {} /\ lSaved' = Nothing /\ lOverlapped' = FALSE
          /\ UNCHANGED <<lFile, lBackups, lFailures>>
      BY <2>1 DEF Learning!Crash
    <3>2. lFile' \in Contents /\ lBackups' \in Seq(Contents) /\ lFailures' \in Nat /\ lFailures' <= MaxFailures
      BY <3>1 DEF LearningInv, LearningType
    <3>3. lArrays' \in Seq(SUBSET Feedback) /\ Len(lArrays') = 1
      BY SMTT(30), <3>1
    <3>4. /\ lSave' \in [Learning!Savers -> Saving]
          /\ \A s \in Learning!Savers : lSave'[s] = Learning!Idle /\ lSave'[s].pc = "idle"
      BY <3>1, LearningIdle
    <3>5. lOriginal' \in [Exporters -> 0..Len(lArrays')] /\ lHistory' \in 1..Len(lArrays')
      BY SMTT(30), <3>1, <3>3
    <3>b. lOverlapped' \in BOOLEAN
      BY <3>1
    <3>6. LearningType'
      BY <3>2, <3>3, <3>4, <3>5, <3>b DEF LearningType
    <3>7. \A x \in Exporters : x \in Learning!Savers
      BY DEF Learning!Savers
    <3>8. HistoryInv' /\ FileInv'
      BY <3>1, <3>4, <3>7 DEF HistoryInv, FileInv, Underway
    <3> QED BY <3>6, <3>8 DEF LearningInv
  <2>2. CASE UNCHANGED Learning!vars
    BY <2>2 DEF Learning!vars, Learning!memory, LearningInv, LearningType, HistoryInv, FileInv, Underway, BackedUp
  <2> QED BY <2>1, <2>2, LearningRecords, LearningLoads, LearningBacksUp, LearningWrites, LearningExports,
             LearningTimed DEF Learning!Next
<1>3. LearningInv => FeedbackKept
  <2> SUFFICES ASSUME LearningInv PROVE FeedbackKept
    OBVIOUS
  <2>1. lRecorded \ lArrays[lHistory] \subseteq lExposed
    BY DEF LearningInv, HistoryInv
  <2>2. ASSUME lSaved # Nothing, ~lOverlapped
        PROVE  lSaved \in {lFile} \cup Learning!Range(lBackups)
    <3>1. lFile = lSaved \/ \E i \in 1..Len(lBackups) : lBackups[i] = lSaved
      BY <2>2 DEF LearningInv, FileInv, BackedUp
    <3>2. DOMAIN lBackups = 1..Len(lBackups)
      BY SMTT(30) DEF LearningInv, LearningType
    <3> QED BY <3>1, <3>2 DEF Learning!Range
  <2> QED BY <2>1, <2>2 DEF FeedbackKept, Learning!FeedbackKept
<1> QED BY <1>1, <1>2, <1>3, PTL DEF Learning!Spec

=============================================================================
