----------------------------- MODULE PluginManager -----------------------------
(***************************************************************************)
(* PluginManager (src/src/plugin-system/core) for one plugin: operations   *)
(* of several callers, each of which awaits the plugin's hooks between its *)
(* check and its change. A hook may throw, which ends the operation.       *)
(***************************************************************************)
EXTENDS Integers

CONSTANTS
  Callers,
  MaxOperations   \* bound

VARIABLES
  loaded,     \* plugins and contexts have the plugin
  enabled,    \* enabledPlugins has it
  files,      \* the plugin's directory is there
  op,         \* the operation of each caller
  operations,
  raced       \* history: an uninstall has overlapped another operation

vars == <<loaded, enabled, files, op, operations, raced>>

Idle == [kind |-> "none", pc |-> "idle", was |-> FALSE]

Busy == {c \in Callers : op[c] # Idle}

Ends(c) == op' = [op EXCEPT ![c] = Idle]

Goto(c, pc) == op' = [op EXCEPT ![c].pc = pc]

-----------------------------------------------------------------------------
(* disablePlugin, called by itself and by uninstall and update: returns at *)
(* once if the plugin is not enabled, and else awaits onDisable.           *)

(* Mutant: an uninstall does not disable the plugin. *)
FirstStep_NoDisable(kind) ==
  CASE kind \in {"disable", "update"} /\ enabled -> "onDisable"
    [] kind = "uninstall" -> "onUninstall"
    [] kind = "update" /\ ~enabled -> "onUpdate"
    [] kind = "enable" /\ ~enabled -> "onEnable"
    [] OTHER -> "idle"

(* What an operation that found the plugin awaits first. *)
FirstStep(kind) ==
  CASE kind \in {"disable", "uninstall", "update"} /\ enabled -> "onDisable"
    [] kind = "uninstall" /\ ~enabled -> "onUninstall"
    [] kind = "update" /\ ~enabled -> "onUpdate"
    [] kind = "enable" /\ ~enabled -> "onEnable"
    [] OTHER -> "idle"

Call(c, kind) ==
  /\ op[c] = Idle /\ operations < MaxOperations /\ operations' = operations + 1
  /\ loaded /\ FirstStep(kind) # "idle"
  /\ op' = [op EXCEPT ![c] = [kind |-> kind, pc |-> FirstStep(kind), was |-> enabled]]
  /\ raced' = (raced \/ (Busy # {} /\ "uninstall" \in {kind} \cup {op[d].kind : d \in Busy}))
  /\ UNCHANGED <<loaded, enabled, files>>

(* loadPlugin: the code is loaded, then stored, then onInstall awaited. *)
LoadPlugin(c) ==
  /\ op[c] = Idle /\ operations < MaxOperations /\ operations' = operations + 1
  /\ ~loaded /\ files
  /\ op' = [op EXCEPT ![c] = [kind |-> "load", pc |-> "loader", was |-> FALSE]]
  /\ raced' = (raced \/ \E d \in Busy : op[d].kind = "uninstall")
  /\ UNCHANGED <<loaded, enabled, files>>

Store(c) ==
  /\ op[c].pc = "loader"
  /\ loaded' = TRUE
  /\ Goto(c, "onInstall")
  /\ UNCHANGED <<enabled, files, operations, raced>>

(* updatePlugin calls enablePlugin only if the plugin was enabled before;  *)
(* that throws if the plugin is gone.                                      *)
AfterUpdate(c) ==
  IF op[c].was /\ loaded /\ ~enabled THEN Goto(c, "onEnable") /\ UNCHANGED enabled
  ELSE Ends(c) /\ UNCHANGED enabled

(* The hook a caller awaits returns. *)
HookReturns(c) ==
  /\ CASE op[c].pc = "onEnable" -> enabled' = TRUE /\ Ends(c) /\ UNCHANGED <<loaded, files>>
       [] op[c].pc = "onDisable" ->
            /\ enabled' = FALSE
            /\ CASE op[c].kind = "disable" -> Ends(c)
                 [] op[c].kind = "uninstall" -> Goto(c, "onUninstall")
                 [] op[c].kind = "update" -> Goto(c, "onUpdate")
            /\ UNCHANGED <<loaded, files>>
       [] op[c].pc = "onUninstall" -> loaded' = FALSE /\ Goto(c, "removal") /\ UNCHANGED <<enabled, files>>
       [] op[c].pc = "onUpdate" -> AfterUpdate(c) /\ UNCHANGED <<loaded, files>>
       [] op[c].pc = "onInstall" -> Ends(c) /\ UNCHANGED <<loaded, enabled, files>>
       [] OTHER -> FALSE
  /\ UNCHANGED <<operations, raced>>

(* A hook, the loader or the removal of the files throws. *)
Throws(c) ==
  /\ op[c] # Idle
  /\ Ends(c)
  /\ UNCHANGED <<loaded, enabled, files, operations, raced>>

(* registry.removePlugin *)
RemoveFiles(c) ==
  /\ op[c].pc = "removal"
  /\ files' = FALSE
  /\ Ends(c)
  /\ UNCHANGED <<loaded, enabled, operations, raced>>

Init ==
  /\ loaded = FALSE /\ enabled = FALSE /\ files = TRUE
  /\ op = [c \in Callers |-> Idle] /\ operations = 0 /\ raced = FALSE

Next ==
  \E c \in Callers : \/ \E kind \in {"enable", "disable", "uninstall", "update"} : Call(c, kind)
                     \/ LoadPlugin(c) \/ Store(c) \/ HookReturns(c) \/ Throws(c) \/ RemoveFiles(c)

Spec == Init /\ [][Next]_vars

-----------------------------------------------------------------------------
(* Properties. *)

(* A plugin that is enabled is loaded, so callHook finds it, unless an     *)
(* uninstall has overlapped another operation; a hook that throws in the   *)
(* middle of an operation does no harm.                                    *)
EnabledIsLoaded == enabled => loaded \/ raced

=============================================================================
