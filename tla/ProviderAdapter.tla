---------------------------- MODULE ProviderAdapter ----------------------------
(***************************************************************************)
(* OpenAIAdapter.execute and the CircuitBreaker that all its calls share   *)
(* (src/src/infrastructure). The provider answers, refuses for its rate    *)
(* limit or fails, after any time. The counters that only getStats reports *)
(* are left out. Times are in the units of the retry delay.                *)
(***************************************************************************)
EXTENDS Integers

CONSTANTS
  Calls,                  \* calls of execute
  FailureThreshold, ResetTimeout, HalfOpenMaxAttempts,   \* CircuitBreakerConfig
  MaxRetries,             \* the 3 of execute
  MaxTime                 \* bound on the clock

VARIABLES
  now,
  breaker,      \* state, failures, halfOpenAttempts and nextAttemptTime
  retryCount,   \* one for all the calls of the adapter
  call,         \* where each call is
  fails,        \* history: each call's failed attempts since any call's success
  streak        \* history: all of them

vars == <<now, breaker, retryCount, call, fails, streak>>

NewBreaker == [state |-> "closed", failures |-> 0, halfOpenAttempts |-> 0, next |-> 0]

None == [c \in Calls |-> 0]

-----------------------------------------------------------------------------
(* The circuit breaker. An outcome is judged by the state it arrives in,   *)
(* which need not be the state the call was admitted in.                   *)

(* Mutant: an open breaker never waits for its timeout. *)
ShouldAttemptReset_Always(b) == TRUE

ShouldAttemptReset(b) == now >= b.next

Refused(b) == b.state = "open" /\ ~ShouldAttemptReset(b)

Admitted(b) ==
  IF b.state = "open" THEN [b EXCEPT !.state = "halfOpen", !.halfOpenAttempts = 0] ELSE b

OnSuccess(b) ==
  CASE b.state = "halfOpen" ->
         IF b.halfOpenAttempts + 1 >= HalfOpenMaxAttempts THEN NewBreaker
         ELSE [b EXCEPT !.halfOpenAttempts = @ + 1]
    [] b.state = "closed" -> [b EXCEPT !.failures = 0]
    [] OTHER -> b

TransitionToOpen(b) ==
  [b EXCEPT !.state = "open", !.next = now + ResetTimeout, !.halfOpenAttempts = 0]

OnFailure(b) ==
  LET failed == [b EXCEPT !.failures = @ + 1]
  IN  IF b.state = "halfOpen" \/ (b.state = "closed" /\ failed.failures >= FailureThreshold)
      THEN TransitionToOpen(failed) ELSE failed

-----------------------------------------------------------------------------
(* OpenAIAdapter.execute *)

(* The synchronous part of execute: the breaker refuses the call, which    *)
(* ends it, or the provider is called.                                     *)
Attempt(c) ==
  IF Refused(breaker)
  THEN call' = [call EXCEPT ![c].pc = "ended"] /\ UNCHANGED breaker
  ELSE call' = [call EXCEPT ![c].pc = "operation"] /\ breaker' = Admitted(breaker)

Execute(c) ==
  /\ call[c].pc = "new"
  /\ Attempt(c)
  /\ retryCount' = IF Refused(breaker) THEN 0 ELSE retryCount
  /\ UNCHANGED <<now, fails, streak>>

OperationSucceeds(c) ==
  /\ call[c].pc = "operation"
  /\ breaker' = OnSuccess(breaker)
  /\ call' = [call EXCEPT ![c].pc = "ended"]
  /\ retryCount' = 0
  /\ fails' = None /\ streak' = 0
  /\ UNCHANGED now

OperationFails(c, rateLimited) ==
  /\ call[c].pc = "operation"
  /\ breaker' = OnFailure(breaker)
  /\ IF rateLimited /\ retryCount < MaxRetries
     THEN /\ retryCount' = retryCount + 1
          /\ call' = [call EXCEPT ![c] = [pc |-> "delay", until |-> now + 2 ^ (retryCount + 1)]]
     ELSE /\ retryCount' = 0
          /\ call' = [call EXCEPT ![c].pc = "ended"]
  /\ fails' = [fails EXCEPT ![c] = @ + 1] /\ streak' = streak + 1
  /\ UNCHANGED now

(* The retry calls execute, and its promise is returned without an await:  *)
(* the finally block clears retryCount while the retry is in flight.       *)
Retry(c) ==
  /\ call[c].pc = "delay" /\ now >= call[c].until
  /\ Attempt(c)
  /\ retryCount' = 0
  /\ UNCHANGED <<now, fails, streak>>

Reset ==
  /\ breaker' = NewBreaker
  /\ fails' = None /\ streak' = 0
  /\ UNCHANGED <<now, retryCount, call>>

(* Timers are not late. *)
Tick ==
  /\ now < MaxTime
  /\ \A c \in Calls : call[c].pc = "delay" => now < call[c].until
  /\ now' = now + 1
  /\ UNCHANGED <<breaker, retryCount, call, fails, streak>>

Init ==
  /\ now = 0 /\ breaker = NewBreaker /\ retryCount = 0
  /\ call = [c \in Calls |-> [pc |-> "new", until |-> 0]]
  /\ fails = None /\ streak = 0

Next ==
  \/ \E c \in Calls : \/ Execute(c) \/ Retry(c) \/ OperationSucceeds(c)
                      \/ \E r \in BOOLEAN : OperationFails(c, r)
  \/ Reset \/ Tick

Spec == Init /\ [][Next]_vars

-----------------------------------------------------------------------------
(* Properties. *)

(* The retries of a call come to an end although retryCount never limits   *)
(* them: a call whose attempts all fail is stopped by the breaker, after   *)
(* FailureThreshold attempts, and one more for each failure of another     *)
(* call that opened the breaker while an attempt was in flight.            *)
RetriesBounded ==
  \A c \in Calls : fails[c] <= FailureThreshold + (streak - fails[c])

=============================================================================
