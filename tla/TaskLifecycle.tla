----------------------------- MODULE TaskLifecycle -----------------------------
(***************************************************************************)
(* ExecuteTaskUseCase.execute on one task (src/src/application/use-cases), *)
(* with the status rules of the Task entity and the repositories of        *)
(* src/src/infrastructure, which hand out the stored object itself: a      *)
(* change of status is seen by every execution at once, saved or not.      *)
(***************************************************************************)
EXTENDS Naturals

CONSTANTS
  Executions,     \* calls of execute for the task
  RetryOnFailure  \* the executions whose options ask for a retry

VARIABLES
  status,     \* the task's status
  results,    \* the saved results: the execution and whether it succeeded
  exec        \* where each execution is, and what it has in hand

vars == <<status, results, exec>>

(* Mutant: a finished task may be made pending again. *)
CanTransitionTo_Again(from, to) ==
  \/ from = "pending" /\ to \in {"in_progress", "cancelled"}
  \/ from = "in_progress" /\ to \in {"completed", "failed", "cancelled"}
  \/ from \in {"failed", "completed"} /\ to = "pending"

(* VALIDATED, which no code sets, is left out. *)
CanTransitionTo(from, to) ==
  \/ from = "pending" /\ to \in {"in_progress", "cancelled"}
  \/ from = "in_progress" /\ to \in {"completed", "failed", "cancelled"}
  \/ from = "failed" /\ to = "pending"

At(e, pc) == exec[e].pc = pc

Goto(e, pc) == exec' = [exec EXCEPT ![e].pc = pc]

(* The task is loaded; its status is checked and changed in one step. *)
Begin(e) ==
  /\ At(e, "new")
  /\ IF CanTransitionTo(status, "in_progress")
     THEN status' = "in_progress" /\ Goto(e, "routing")
     ELSE UNCHANGED status /\ Goto(e, "catch")
  /\ UNCHANGED results

(* Saving, emitting the start and routing may fail; otherwise the adapter  *)
(* is called.                                                              *)
Route(e) ==
  /\ At(e, "routing")
  /\ Goto(e, "adapter") \/ Goto(e, "catch")
  /\ UNCHANGED <<status, results>>

(* The messages isRetryableError lists; the use case's own timeout is one. *)
IsRetryableError(error) == error # "listed"

(* executeWithAdapter, first attempt: the adapter answers or fails, or the *)
(* timeout does.                                                           *)
AdapterSettles(e) ==
  /\ At(e, "adapter")
  /\ \/ exec' = [exec EXCEPT ![e] = [pc |-> "save", success |-> TRUE, error |-> "none"]]
     \/ \E error \in {"listed", "other"} :
          exec' = [exec EXCEPT ![e] =
                     [pc |-> IF e \in RetryOnFailure /\ ~IsRetryableError(error)
                             THEN "retry" ELSE "save",
                      success |-> FALSE, error |-> error]]
  /\ UNCHANGED <<status, results>>

RetrySettles(e) ==
  /\ At(e, "retry")
  /\ \E ok \in BOOLEAN : exec' = [exec EXCEPT ![e].pc = "save", ![e].success = ok]
  /\ UNCHANGED <<status, results>>

Outcome(e) == IF exec[e].success THEN "completed" ELSE "failed"

(* updateStatus throws when the status no longer allows the change. *)
UpdateStatus(e) ==
  IF CanTransitionTo(status, Outcome(e))
  THEN status' = Outcome(e) /\ Goto(e, "report")
  ELSE UNCHANGED status /\ Goto(e, "catch")

(* The result is saved, or saving it fails; then the status is changed. *)
SaveResult(e) ==
  /\ At(e, "save")
  /\ \/ results' = results \cup {<<e, exec[e].success>>} /\ UpdateStatus(e)
     \/ Goto(e, "catch") /\ UNCHANGED <<status, results>>

(* Saving the task, validating the result and emitting the completion may  *)
(* fail; otherwise the execution returns its result.                       *)
Report(e) ==
  /\ At(e, "report")
  /\ Goto(e, IF exec[e].success THEN "succeeded" ELSE "failed") \/ Goto(e, "catch")
  /\ UNCHANGED <<status, results>>

(* The catch block marks whatever is in progress as failed. *)
Catch(e) ==
  /\ At(e, "catch")
  /\ status' = IF status = "in_progress" THEN "failed" ELSE status
  /\ Goto(e, "thrown")
  /\ UNCHANGED results

(* A caller of updateStatus retries a failed task or cancels one. *)
Reopen ==
  /\ \E to \in {"pending", "cancelled"} : CanTransitionTo(status, to) /\ status' = to
  /\ UNCHANGED <<results, exec>>

Init ==
  /\ status = "pending" /\ results = {}
  /\ exec = [e \in Executions |-> [pc |-> "new", success |-> FALSE, error |-> "none"]]

Next ==
  \/ \E e \in Executions : \/ Begin(e) \/ Route(e) \/ AdapterSettles(e) \/ RetrySettles(e)
                           \/ SaveResult(e) \/ Report(e) \/ Catch(e)
  \/ Reopen

Spec == Init /\ [][Next]_vars

-----------------------------------------------------------------------------
(* Properties. *)

(* A task is completed only when a successful result of it is stored, and  *)
(* an execution that returned success is never contradicted by the task's  *)
(* status later, whatever executions, retries and cancellations follow or  *)
(* were under way.                                                         *)
SuccessIsFinal ==
  /\ status = "completed" => \E e \in Executions : <<e, TRUE>> \in results
  /\ \A e \in Executions : exec[e].pc = "succeeded" => status = "completed"

-----------------------------------------------------------------------------
(* What the repository says of the use case and the code does not do. *)

(* The use case does not retry on the errors it lists as not retryable. *)
ListedNotRetried == \A e \in Executions : exec[e].pc = "retry" => exec[e].error # "listed"

=============================================================================
