----------------------------- MODULE RetryManager -----------------------------
(***************************************************************************)
(* RetryManager.executeWithRetry and its circuit breaker                   *)
(* (src/src/utils/retry-manager.ts), for the calls that share one          *)
(* circuitBreakerKey. The operation a call passes in may settle at any     *)
(* time or never; the timers fire when they are due.                       *)
(***************************************************************************)
EXTENDS Integers, Sequences, FiniteSets

CONSTANTS
  Calls,                            \* calls of executeWithRetry
  MaxAttempts, InitialDelay, MaxDelay, BackoffMultiplier, Timeout,   \* RetryOptions
  FailureThreshold, ResetTimeout, MonitoringPeriod,   \* CircuitBreakerConfig
  Spacing,                          \* the 1000 of getRecentFailures
  Epoch,                            \* Date.now() when the process starts
  LastCall                          \* bound: no call is made after this time

ASSUME RetryAssumption ==
  /\ MaxAttempts \in Nat \ {0} /\ InitialDelay \in Nat \ {0} /\ MaxDelay \in Nat \ {0}
  /\ BackoffMultiplier \in Nat \ {0} /\ Timeout \in Nat \ {0}
  /\ FailureThreshold \in Nat \ {0} /\ ResetTimeout \in Nat \ {0}
  /\ MonitoringPeriod \in Nat \ {0} /\ Spacing \in Nat \ {0} /\ LastCall \in Nat

(* The clock counts milliseconds since 1970: more than the monitoring period. *)
ASSUME EpochAssumption == Epoch \in Nat /\ Epoch > MonitoringPeriod + 1

VARIABLES
  now,        \* Date.now()
  call,       \* the progress of each call
  ops,        \* operations in flight, <<call, attempt>>
  breaker,    \* the breaker's state, monitoringWindow and nextAttemptTime
  streak      \* history: attempts that failed since the last success or reset

vars == <<now, call, ops, breaker, streak>>

Errors == {"retryable", "fatal", "timeout"}

NewCall == [pc |-> "new", attempt |-> 0, delay |-> 0, until |-> 0, outcome |-> "none"]

NewBreaker == [state |-> "closed", window |-> <<>>, next |-> 0]

-----------------------------------------------------------------------------
(* The circuit breaker. *)

(* Mutant: old entries are kept. *)
Recent_All(w) == w

(* The entries updateMonitoringWindow keeps: it compares an entry, 0 or 1, *)
(* with the start of the monitoring period.                                *)
Recent(w) ==
  IF \E i \in DOMAIN w : w[i] > now - MonitoringPeriod
  THEN SelectSeq(w, LAMBDA v : v > now - MonitoringPeriod)
  ELSE <<>>

(* getRecentFailures takes the entries to be Spacing apart. *)
RecentFailures(w) ==
  Cardinality({i \in DOMAIN w :
                 (Len(w) - (i - 1)) * Spacing < MonitoringPeriod /\ w[i] = 0})

(* canExecute: whether the call may go on, and the breaker afterwards. *)
ResetDue(b) == b.state = "open" /\ now >= b.next

CanExecute(b) == b.state # "open" \/ ResetDue(b)

Admitted(b) == IF ResetDue(b) THEN [b EXCEPT !.state = "halfOpen"] ELSE b

RecordSuccess(b) ==
  LET w == Append(Recent(b.window), 1)
  IN  IF b.state = "halfOpen" THEN [state |-> "closed", window |-> w, next |-> 0]
      ELSE [b EXCEPT !.window = w]

RecordFailure(b) ==
  LET w == Append(Recent(b.window), 0)
  IN  IF b.state # "open" /\ RecentFailures(w) >= FailureThreshold
      THEN [state |-> "open", window |-> w, next |-> now + ResetTimeout]
      ELSE [b EXCEPT !.window = w]

-----------------------------------------------------------------------------
(* executeWithRetry *)

(* The message of the manager's own timeout, "Operation timed out", has no *)
(* code and matches none of the patterns callers pass.                     *)
IsRetryableError(e) == e = "retryable"

(* calculateNextDelay: the capped delay with a jitter of 10% either way,   *)
(* rounded.                                                                *)
NextDelays(delay) ==
  LET raw == delay * BackoffMultiplier
      capped == IF raw < MaxDelay THEN raw ELSE MaxDelay
  IN  {d \in 0 .. 2 * capped : 10 * d + 5 > 9 * capped /\ 10 * d - 5 < 11 * capped}

End(c, outcome) == call' = [call EXCEPT ![c].pc = "ended", ![c].outcome = outcome]

(* The operation is called and its timeout armed. *)
Attempt(c, n, delay, running) ==
  /\ call' = [call EXCEPT ![c] = [pc |-> "attempt", attempt |-> n, delay |-> delay,
                                  until |-> now + Timeout, outcome |-> "none"]]
  /\ ops' = running \cup {<<c, n>>}

(* The check of the breaker, once per call, and the first attempt. *)
ExecuteWithRetry(c) ==
  /\ call[c].pc = "new" /\ now <= LastCall
  /\ IF CanExecute(breaker)
     THEN breaker' = Admitted(breaker) /\ Attempt(c, 1, InitialDelay, ops)
     ELSE End(c, "refused") /\ UNCHANGED <<breaker, ops>>
  /\ UNCHANGED <<now, streak>>

Succeeds(c) ==
  /\ breaker' = RecordSuccess(breaker)
  /\ End(c, "success")
  /\ streak' = 0

Exhausted(n) == n = MaxAttempts

(* The catch block, up to the sleep or to the next attempt: the delay is   *)
(* slept only from the second failure on.                                  *)
Fails(c, e, running) ==
  LET k == call[c]
  IN  /\ breaker' = RecordFailure(breaker)
      /\ streak' = streak + 1
      /\ CASE ~IsRetryableError(e) -> End(c, "thrown") /\ ops' = running
           [] IsRetryableError(e) /\ Exhausted(k.attempt) -> End(c, "exhausted") /\ ops' = running
           [] OTHER ->
                IF k.attempt > 1
                THEN /\ call' = [call EXCEPT ![c].pc = "sleep", ![c].until = now + k.delay]
                     /\ ops' = running
                ELSE \E d \in NextDelays(k.delay) : Attempt(c, k.attempt + 1, d, running)

(* An operation settles; nobody listens to one whose attempt timed out. *)
OperationSettles(c, n) ==
  /\ <<c, n>> \in ops
  /\ IF call[c].pc = "attempt" /\ call[c].attempt = n
     THEN \/ Succeeds(c) /\ ops' = ops \ {<<c, n>>}
          \/ \E e \in Errors \ {"timeout"} : Fails(c, e, ops \ {<<c, n>>})
     ELSE ops' = ops \ {<<c, n>>} /\ UNCHANGED <<call, breaker, streak>>
  /\ UNCHANGED now

(* Mutant: the operation is not raced against a timeout. *)
TimeoutFires_Never(c) == FALSE

(* withTimeout: the call gives up on the operation, which goes on. *)
TimeoutFires(c) ==
  /\ call[c].pc = "attempt" /\ now >= call[c].until
  /\ Fails(c, "timeout", ops)
  /\ UNCHANGED now

Wake(c) ==
  /\ call[c].pc = "sleep" /\ now >= call[c].until
  /\ \E d \in NextDelays(call[c].delay) : Attempt(c, call[c].attempt + 1, d, ops)
  /\ UNCHANGED <<now, breaker, streak>>

ResetCircuitBreaker ==
  /\ breaker' = NewBreaker
  /\ streak' = 0
  /\ UNCHANGED <<now, call, ops>>

(* Time passes while somebody waits for it, and no timer is late. *)
Waiting == {c \in Calls : call[c].pc \in {"attempt", "sleep"}}

Tick ==
  /\ Waiting # {} \/ now < LastCall
  /\ \A c \in Waiting : now < call[c].until
  /\ now' = now + 1
  /\ UNCHANGED <<call, ops, breaker, streak>>

-----------------------------------------------------------------------------
Init ==
  /\ now = Epoch
  /\ call = [c \in Calls |-> NewCall]
  /\ ops = {}
  /\ breaker = NewBreaker
  /\ streak = 0

Next ==
  \/ \E c \in Calls : ExecuteWithRetry(c) \/ TimeoutFires(c) \/ Wake(c)
  \/ \E o \in ops : OperationSettles(o[1], o[2])
  \/ ResetCircuitBreaker \/ Tick

Spec == Init /\ [][Next]_vars

(* Timers fire and the clock advances; an operation need never settle. *)
Fairness ==
  /\ WF_vars(Tick)
  /\ \A c \in Calls : WF_vars(TimeoutFires(c) \/ Wake(c))

FairSpec == Spec /\ Fairness

-----------------------------------------------------------------------------
(* Properties. *)

(* Every variable keeps its type; in particular no call makes more than    *)
(* MaxAttempts attempts.                                                   *)
TypeOK ==
  /\ now \in Nat
  /\ call \in [Calls -> [pc: {"new", "attempt", "sleep", "ended"}, attempt: 0 .. MaxAttempts,
                         delay: Nat, until: Nat,
                         outcome: {"none", "success", "thrown", "exhausted", "refused"}]]
  /\ ops \subseteq Calls \X (1 .. MaxAttempts)
  /\ breaker \in [state: {"closed", "open", "halfOpen"}, window: Seq({0, 1}), next: Nat]
  /\ streak \in Nat

(* A call has at most one operation in flight, so an operation is never    *)
(* run against itself: an attempt ends with its operation, or times out    *)
(* and ends the call.                                                      *)
OneOperationPerCall ==
  \A c \in Calls : Cardinality({n \in 1 .. MaxAttempts : <<c, n>> \in ops}) <= 1

(* The breaker never opens, and so never refuses a call, however many      *)
(* attempts fail: an entry of the monitoring window, 0 or 1, is taken for  *)
(* a time when the window is next updated, so the window never holds more  *)
(* than the last outcome. Holds from a FailureThreshold of 2 on; the code  *)
(* uses 5.                                                                 *)
NeverOpens == breaker.state = "closed" /\ \A c \in Calls : call[c].outcome # "refused"

(* Every call ends, even if its operations never settle. *)
CallsEnd == \A c \in Calls : call[c].pc # "new" ~> call[c].pc = "ended"

-----------------------------------------------------------------------------
(* What the repository says of the retry manager and the code does not do. *)

(* The circuit breaker pattern: after FailureThreshold failures in a row   *)
(* the breaker is not closed.                                              *)
OpensAfterThreshold == streak >= FailureThreshold => breaker.state # "closed"

=============================================================================
