-------------------------- MODULE RetryManagerProofs --------------------------
(* Proofs about RetryManager. *)
EXTENDS RetryManager, FiniteSetTheorems, TLAPS

(* A leaf that needs arithmetic, or much of set theory, names its prover. *)
USE ZenonT(20)

BreakerType == [state: {"closed", "open", "halfOpen"}, window: Seq({0, 1}), next: Nat]

CallType == [pc: {"new", "attempt", "sleep", "ended"}, attempt: 0 .. MaxAttempts,
             delay: Nat, until: Nat,
             outcome: {"none", "success", "thrown", "exhausted", "refused"}]

(* What ties the operations in flight to the progress of their call: a     *)
(* call that is new or asleep has none, one that waits for an attempt has  *)
(* that attempt's, and one that ended may have left one behind.            *)
OpsOK ==
  \A c \in Calls :
    /\ call[c].pc \in {"new", "sleep"} => \A n \in 1 .. MaxAttempts : <<c, n>> \notin ops
    /\ call[c].pc = "attempt" =>
         call[c].attempt > 0 /\ \A n \in 1 .. MaxAttempts : <<c, n>> \in ops => n = call[c].attempt
    /\ call[c].pc = "sleep" => call[c].attempt < MaxAttempts
    /\ call[c].pc # "ended" => call[c].outcome = "none"
    /\ \A m, n \in 1 .. MaxAttempts : <<c, m>> \in ops /\ <<c, n>> \in ops => m = n

IInv == TypeOK /\ now >= Epoch /\ OpsOK

-----------------------------------------------------------------------------
(* The breaker. *)

(* No entry of the monitoring window survives the next update: 0 and 1 are *)
(* before the start of every monitoring period.                            *)
LEMMA NothingRecent ==
  ASSUME now \in Nat, now >= Epoch, NEW w \in Seq({0, 1})
  PROVE  Recent(w) = <<>>
<1>1. now - MonitoringPeriod > 1
  BY SMTT(30), EpochAssumption, RetryAssumption
<1>2. \A i \in DOMAIN w : w[i] \in {0, 1}
  BY SMTT(30)
<1>3. \A i \in DOMAIN w : ~(w[i] > now - MonitoringPeriod)
  BY SMTT(30), <1>1, <1>2, EpochAssumption, RetryAssumption
<1>4. QED
  BY <1>3 DEF Recent

LEMMA AppendOne == \A v \in {0, 1} : Append(<<>>, v) = <<v>> /\ <<v>> \in Seq({0, 1})
  BY SMTT(30)

LEMMA SuccessOK ==
  ASSUME now \in Nat, now >= Epoch, NEW b \in BreakerType
  PROVE  /\ RecordSuccess(b) \in BreakerType
         /\ b.state = "closed" => RecordSuccess(b).state = "closed"
<1>1. Append(Recent(b.window), 1) \in Seq({0, 1})
  BY NothingRecent, AppendOne DEF BreakerType
<1>2. QED
  BY <1>1 DEF RecordSuccess, BreakerType

LEMMA FailureOK ==
  ASSUME now \in Nat, now >= Epoch, NEW b \in BreakerType
  PROVE  /\ RecordFailure(b) \in BreakerType
         /\ FailureThreshold >= 2 /\ b.state = "closed" => RecordFailure(b).state = "closed"
<1> DEFINE w == Append(Recent(b.window), 0)
<1>1. w = <<0>> /\ w \in Seq({0, 1})
  BY NothingRecent, AppendOne DEF BreakerType
<1>2. now + ResetTimeout \in Nat
  BY SMTT(30), RetryAssumption
<1>3. RecordFailure(b) \in BreakerType
  BY SMTT(30), <1>1, <1>2 DEF RecordFailure, BreakerType
<1>4. RecentFailures(w) <= 1
  <2> DEFINE F == {i \in DOMAIN w : (Len(w) - (i - 1)) * Spacing < MonitoringPeriod /\ w[i] = 0}
  <2>1. F \subseteq {1}
    BY SMTT(30), <1>1
  <2>2. IsFiniteSet({1}) /\ Cardinality({1}) = 1
    BY FS_Singleton
  <2>3. Cardinality(F) <= 1
    BY SMTT(30), <2>1, <2>2, FS_Subset
  <2>4. QED
    BY <2>3 DEF RecentFailures
<1>5. RecentFailures(w) \in Nat
  <2> DEFINE F == {i \in DOMAIN w : (Len(w) - (i - 1)) * Spacing < MonitoringPeriod /\ w[i] = 0}
  <2>1. F \subseteq {1}
    BY SMTT(30), <1>1
  <2>2. IsFiniteSet(F)
    BY ZenonT(30), <2>1, FS_Singleton, FS_Subset
  <2>3. QED
    BY <2>2, FS_CardinalityType DEF RecentFailures
<1>6. ASSUME FailureThreshold >= 2, b.state = "closed"
      PROVE  RecordFailure(b).state = "closed"
  BY SMTT(30), <1>4, <1>5, <1>6, RetryAssumption DEF RecordFailure, BreakerType
<1>7. QED
  BY <1>3, <1>6

LEMMA DelaysOK == \A delay \in Nat : NextDelays(delay) \subseteq Nat
<1> SUFFICES ASSUME NEW delay \in Nat PROVE NextDelays(delay) \subseteq Nat
  OBVIOUS
<1>1. delay * BackoffMultiplier \in Nat
  BY SMTT(30), RetryAssumption
<1>2. QED
  BY SMTT(30), <1>1, RetryAssumption DEF NextDelays

-----------------------------------------------------------------------------
(* Steps of a call. *)

LEMMA AttemptOK ==
  ASSUME IInv, NEW c \in Calls, NEW n \in 1 .. MaxAttempts, NEW d \in Nat, NEW running,
         running \subseteq ops, \A m \in 1 .. MaxAttempts : <<c, m>> \notin running,
         Attempt(c, n, d, running), now' = now
  PROVE  /\ call' \in [Calls -> CallType] /\ ops' \subseteq Calls \X (1 .. MaxAttempts)
         /\ OpsOK' /\ call'[c].outcome # "refused"
         /\ \A k \in Calls : k # c => call'[k] = call[k]
<1> DEFINE r == [pc |-> "attempt", attempt |-> n, delay |-> d, until |-> now + Timeout,
                 outcome |-> "none"]
<1>1. call \in [Calls -> CallType] /\ ops \subseteq Calls \X (1 .. MaxAttempts) /\ now \in Nat
  BY DEF IInv, TypeOK, CallType
<1>2. r \in CallType
  BY SMTT(30), <1>1, RetryAssumption DEF CallType
<1>3. call' = [call EXCEPT ![c] = r] /\ ops' = running \cup {<<c, n>>}
  BY DEF Attempt
<1>4. call' \in [Calls -> CallType] /\ call'[c] = r /\ \A k \in Calls : k # c => call'[k] = call[k]
  BY <1>1, <1>2, <1>3
<1>5. ops' \subseteq Calls \X (1 .. MaxAttempts)
  BY SMTT(30), <1>1, <1>3
<1>6. \A k \in Calls : \A m \in 1 .. MaxAttempts :
        <<k, m>> \in ops' => (k = c /\ m = n) \/ (k # c /\ <<k, m>> \in ops)
  BY <1>3
<1>7. r.pc = "attempt" /\ r.attempt = n /\ n > 0 /\ r.outcome = "none"
  BY SMTT(30)
<1>8. OpsOK'
  <2> SUFFICES ASSUME NEW k \in Calls
               PROVE  /\ call'[k].pc \in {"new", "sleep"} => \A m \in 1 .. MaxAttempts : <<k, m>> \notin ops'
                      /\ call'[k].pc = "attempt" =>
                           /\ call'[k].attempt > 0
                           /\ \A m \in 1 .. MaxAttempts : <<k, m>> \in ops' => m = call'[k].attempt
                      /\ call'[k].pc = "sleep" => call'[k].attempt < MaxAttempts
                      /\ call'[k].pc # "ended" => call'[k].outcome = "none"
                      /\ \A l, m \in 1 .. MaxAttempts : <<k, l>> \in ops' /\ <<k, m>> \in ops' => l = m
    BY DEF OpsOK
  <2>1. CASE k = c
    BY <2>1, <1>4, <1>6, <1>7
  <2>2. CASE k # c
    BY <2>2, <1>4, <1>6 DEF IInv, OpsOK
  <2>3. QED
    BY <2>1, <2>2
<1>9. QED
  BY SMTT(30), <1>4, <1>5, <1>8

(* A call that stops or falls asleep, with no operation more than before. *)
LEMMA StopOK ==
  ASSUME IInv, NEW c \in Calls, NEW r \in CallType, call' = [call EXCEPT ![c] = r],
         ops' \subseteq ops,
         \/ r.pc = "ended"
         \/ /\ r.pc = "sleep" /\ r.attempt < MaxAttempts /\ r.outcome = "none"
            /\ \A m \in 1 .. MaxAttempts : <<c, m>> \notin ops'
  PROVE  /\ call' \in [Calls -> CallType] /\ ops' \subseteq Calls \X (1 .. MaxAttempts) /\ OpsOK'
         /\ call'[c] = r /\ \A k \in Calls : k # c => call'[k] = call[k]
<1>1. call \in [Calls -> CallType] /\ ops \subseteq Calls \X (1 .. MaxAttempts)
  BY DEF IInv, TypeOK, CallType
<1>2. call' \in [Calls -> CallType] /\ call'[c] = r /\ \A k \in Calls : k # c => call'[k] = call[k]
  BY <1>1
<1>3. OpsOK'
  <2> SUFFICES ASSUME NEW k \in Calls
               PROVE  /\ call'[k].pc \in {"new", "sleep"} => \A m \in 1 .. MaxAttempts : <<k, m>> \notin ops'
                      /\ call'[k].pc = "attempt" =>
                           /\ call'[k].attempt > 0
                           /\ \A m \in 1 .. MaxAttempts : <<k, m>> \in ops' => m = call'[k].attempt
                      /\ call'[k].pc = "sleep" => call'[k].attempt < MaxAttempts
                      /\ call'[k].pc # "ended" => call'[k].outcome = "none"
                      /\ \A l, m \in 1 .. MaxAttempts : <<k, l>> \in ops' /\ <<k, m>> \in ops' => l = m
    BY DEF OpsOK
  <2>1. CASE k = c
    BY <2>1, <1>2 DEF IInv, OpsOK
  <2>2. CASE k # c
    BY <2>2, <1>2 DEF IInv, OpsOK
  <2>3. QED
    BY <2>1, <2>2
<1>4. QED
  BY <1>1, <1>2, <1>3

(* The catch block, for an attempt whose operation settled or timed out. *)
LEMMA FailsOK ==
  ASSUME IInv, NEW c \in Calls, call[c].pc = "attempt", NEW e \in Errors, NEW running,
         running \subseteq ops,
         IsRetryableError(e) => \A m \in 1 .. MaxAttempts : <<c, m>> \notin running,
         Fails(c, e, running), now' = now
  PROVE  /\ call' \in [Calls -> CallType] /\ ops' \subseteq Calls \X (1 .. MaxAttempts) /\ OpsOK'
         /\ breaker' = RecordFailure(breaker) /\ streak' = streak + 1
         /\ call'[c].outcome # "refused" /\ \A k \in Calls : k # c => call'[k] = call[k]
<1> DEFINE k == call[c]
<1>1. /\ call \in [Calls -> CallType] /\ k \in CallType /\ now \in Nat
      /\ k.attempt \in 1 .. MaxAttempts /\ k.delay \in Nat
  BY SMTT(30), RetryAssumption DEF IInv, TypeOK, CallType, OpsOK
<1>2. breaker' = RecordFailure(breaker) /\ streak' = streak + 1
  BY DEF Fails
<1>3. ASSUME NEW o \in {"thrown", "exhausted"}, End(c, o), ops' = running
      PROVE  /\ call' \in [Calls -> CallType] /\ ops' \subseteq Calls \X (1 .. MaxAttempts)
             /\ OpsOK' /\ call'[c].outcome # "refused"
             /\ \A j \in Calls : j # c => call'[j] = call[j]
  <2> DEFINE r == [k EXCEPT !.pc = "ended", !.outcome = o]
  <2>1. r \in CallType /\ r.pc = "ended" /\ r.outcome = o
    BY <1>1 DEF CallType
  <2>2. call' = [call EXCEPT ![c] = r]
    BY <1>1, <1>3 DEF End
  <2>3. QED
    BY <1>3, <2>1, <2>2, StopOK
<1>4. CASE ~IsRetryableError(e) /\ End(c, "thrown") /\ ops' = running
  BY <1>2, <1>3, <1>4
<1>5. CASE IsRetryableError(e) /\ Exhausted(k.attempt) /\ End(c, "exhausted") /\ ops' = running
  BY <1>2, <1>3, <1>5
<1>6. CASE /\ IsRetryableError(e) /\ ~Exhausted(k.attempt) /\ k.attempt > 1
           /\ call' = [call EXCEPT ![c].pc = "sleep", ![c].until = now + k.delay]
           /\ ops' = running
  <2> DEFINE r == [k EXCEPT !.pc = "sleep", !.until = now + k.delay]
  <2>0. now + k.delay \in Nat
    BY SMTT(30), <1>1
  <2>1. r \in CallType /\ r.pc = "sleep" /\ r.attempt = k.attempt /\ r.outcome = k.outcome
    <3> HIDE DEF k
    <3> DEFINE u == now + k.delay
    <3>1. u \in Nat
      BY <2>0
    <3> HIDE DEF u
    <3>2. \A v \in Nat : LET q == [k EXCEPT !.pc = "sleep", !.until = v]
                        IN  /\ q \in CallType /\ q.pc = "sleep" /\ q.attempt = k.attempt
                            /\ q.outcome = k.outcome
      BY <1>1 DEF CallType
    <3>3. QED
      BY <3>1, <3>2 DEF u
  <2>2. call' = [call EXCEPT ![c] = r]
    BY <1>1, <1>6
  <2>3. k.attempt < MaxAttempts
    BY SMTT(30), <1>1, <1>6, RetryAssumption DEF Exhausted
  <2>4. \A m \in 1 .. MaxAttempts : <<c, m>> \notin ops'
    BY <1>6
  <2>5. k.outcome = "none"
    BY DEF IInv, OpsOK
  <2>6. QED
    BY <1>2, <1>6, <2>1, <2>2, <2>3, <2>4, <2>5, StopOK
<1>7. CASE /\ IsRetryableError(e) /\ ~Exhausted(k.attempt)
           /\ \E d \in NextDelays(k.delay) : Attempt(c, k.attempt + 1, d, running)
  <2>1. PICK d \in NextDelays(k.delay) : Attempt(c, k.attempt + 1, d, running)
    BY <1>7
  <2>2. d \in Nat
    BY <1>1, DelaysOK
  <2>3. k.attempt + 1 \in 1 .. MaxAttempts
    BY SMTT(30), <1>1, <1>7, RetryAssumption DEF Exhausted
  <2>4. QED
    BY <1>2, <1>7, <2>1, <2>2, <2>3, AttemptOK
<1>8. QED
  BY <1>4, <1>5, <1>6, <1>7 DEF Fails

-----------------------------------------------------------------------------
(* Every step keeps the invariant, and keeps the breaker closed. *)

Closed == FailureThreshold >= 2 => NeverOpens

LEMMA InitOK == Init => IInv /\ Closed
<1> SUFFICES ASSUME Init PROVE IInv /\ Closed
  OBVIOUS
<1>1. NewCall \in CallType /\ NewCall.pc = "new" /\ NewCall.outcome = "none"
  BY SMTT(30), RetryAssumption DEF NewCall, CallType
<1>2. NewBreaker \in BreakerType /\ NewBreaker.state = "closed"
  BY SMTT(30) DEF NewBreaker, BreakerType
<1>3. TypeOK
  BY <1>1, <1>2, EpochAssumption DEF Init, TypeOK, CallType, BreakerType
<1>4. now >= Epoch
  BY SMTT(30), EpochAssumption DEF Init
<1>5. OpsOK
  BY <1>1 DEF Init, OpsOK
<1>6. Closed
  BY <1>1, <1>2 DEF Init, Closed, NeverOpens
<1>7. QED
  BY <1>3, <1>4, <1>5, <1>6 DEF IInv

LEMMA NextOK == IInv /\ Closed /\ [Next]_vars => IInv' /\ Closed'
<1> SUFFICES ASSUME IInv, Closed, [Next]_vars PROVE IInv' /\ Closed'
  OBVIOUS
<1>1. /\ call \in [Calls -> CallType] /\ ops \subseteq Calls \X (1 .. MaxAttempts)
      /\ breaker \in BreakerType /\ now \in Nat /\ now >= Epoch /\ streak \in Nat /\ OpsOK
  BY DEF IInv, TypeOK, CallType, BreakerType
<1>2. ASSUME call' \in [Calls -> CallType], ops' \subseteq Calls \X (1 .. MaxAttempts),
             breaker' \in BreakerType, now' \in Nat, now' >= Epoch, streak' \in Nat, OpsOK'
      PROVE  IInv'
  BY <1>2 DEF IInv, TypeOK, CallType, BreakerType
<1>3. ASSUME NEW c \in Calls, \A k \in Calls : k # c => call'[k] = call[k],
             FailureThreshold >= 2 => call'[c].outcome # "refused",
             breaker.state = "closed" /\ FailureThreshold >= 2 => breaker'.state = "closed"
      PROVE  Closed'
  BY <1>3 DEF Closed, NeverOpens
<1>4. ASSUME NEW c \in Calls, ExecuteWithRetry(c) PROVE IInv' /\ Closed'
  <2>1. UNCHANGED <<now, streak>> /\ call[c].pc = "new"
    BY <1>4 DEF ExecuteWithRetry
  <2>2. CASE CanExecute(breaker) /\ breaker' = Admitted(breaker) /\ Attempt(c, 1, InitialDelay, ops)
    <3>1. Admitted(breaker) \in BreakerType
      BY <1>1 DEF Admitted, BreakerType
    <3>2. breaker.state = "closed" => Admitted(breaker).state = "closed"
      BY DEF Admitted, ResetDue
    <3>3. \A m \in 1 .. MaxAttempts : <<c, m>> \notin ops
      BY <1>1, <2>1 DEF OpsOK
    <3>4. 1 \in 1 .. MaxAttempts /\ InitialDelay \in Nat
      BY SMTT(30), RetryAssumption
    <3>5. /\ call' \in [Calls -> CallType] /\ ops' \subseteq Calls \X (1 .. MaxAttempts) /\ OpsOK'
          /\ call'[c].outcome # "refused" /\ \A k \in Calls : k # c => call'[k] = call[k]
      BY <2>1, <2>2, <3>3, <3>4, AttemptOK
    <3>6. QED
      BY <1>1, <1>2, <1>3, <2>1, <2>2, <3>1, <3>2, <3>5
  <2>3. CASE ~CanExecute(breaker) /\ End(c, "refused") /\ UNCHANGED <<breaker, ops>>
    <3> DEFINE r == [call[c] EXCEPT !.pc = "ended", !.outcome = "refused"]
    <3>1. r \in CallType /\ r.pc = "ended" /\ call' = [call EXCEPT ![c] = r]
      BY <1>1, <2>3 DEF CallType, End
    <3>2. /\ call' \in [Calls -> CallType] /\ ops' \subseteq Calls \X (1 .. MaxAttempts) /\ OpsOK'
          /\ \A k \in Calls : k # c => call'[k] = call[k]
      BY <2>3, <3>1, StopOK
    <3>3. ~(FailureThreshold >= 2)
      BY <2>3 DEF Closed, NeverOpens, CanExecute
    <3>4. QED
      BY <1>1, <1>2, <1>3, <2>1, <2>3, <3>2, <3>3
  <2>4. QED
    BY <1>4, <2>2, <2>3 DEF ExecuteWithRetry
<1>5. ASSUME NEW c \in Calls, NEW n, OperationSettles(c, n) PROVE IInv' /\ Closed'
  <2>1. <<c, n>> \in ops /\ n \in 1 .. MaxAttempts /\ UNCHANGED now
    BY <1>1, <1>5 DEF OperationSettles
  <2> DEFINE rest == ops \ {<<c, n>>}
  <2>2. CASE call[c].pc = "attempt" /\ call[c].attempt = n /\ Succeeds(c) /\ ops' = rest
    <3> DEFINE r == [call[c] EXCEPT !.pc = "ended", !.outcome = "success"]
    <3>1. r \in CallType /\ r.pc = "ended" /\ r.outcome = "success" /\ call' = [call EXCEPT ![c] = r]
      BY <1>1, <2>2 DEF CallType, Succeeds, End
    <3>2. /\ call' \in [Calls -> CallType] /\ ops' \subseteq Calls \X (1 .. MaxAttempts) /\ OpsOK'
          /\ call'[c] = r /\ \A k \in Calls : k # c => call'[k] = call[k]
      BY <2>2, <3>1, StopOK
    <3>3. breaker' = RecordSuccess(breaker) /\ streak' = 0
      BY <2>2 DEF Succeeds
    <3>4. QED
      BY <1>1, <1>2, <1>3, <2>1, <3>1, <3>2, <3>3, SuccessOK
  <2>3. CASE /\ call[c].pc = "attempt" /\ call[c].attempt = n
             /\ \E e \in Errors \ {"timeout"} : Fails(c, e, rest)
    <3>1. PICK e \in Errors \ {"timeout"} : Fails(c, e, rest)
      BY <2>3
    <3>2. \A m \in 1 .. MaxAttempts : <<c, m>> \notin rest
      BY <1>1, <2>1, <2>3 DEF OpsOK
    <3>3. /\ call' \in [Calls -> CallType] /\ ops' \subseteq Calls \X (1 .. MaxAttempts) /\ OpsOK'
          /\ breaker' = RecordFailure(breaker) /\ streak' = streak + 1
          /\ call'[c].outcome # "refused" /\ \A k \in Calls : k # c => call'[k] = call[k]
      BY <2>1, <2>3, <3>1, <3>2, FailsOK
    <3>4. QED
      BY SMTT(30), <1>1, <1>2, <1>3, <2>1, <3>3, FailureOK
  <2>4. CASE ~(call[c].pc = "attempt" /\ call[c].attempt = n) /\ ops' = rest
             /\ UNCHANGED <<call, breaker, streak>>
    <3>1. OpsOK'
      BY <1>1, <2>4 DEF OpsOK
    <3>2. QED
      BY <1>1, <1>2, <2>1, <2>4, <3>1 DEF Closed, NeverOpens
  <2>5. QED
    BY <1>5, <2>2, <2>3, <2>4 DEF OperationSettles
<1>6. ASSUME NEW c \in Calls, TimeoutFires(c) PROVE IInv' /\ Closed'
  <2>1. call[c].pc = "attempt" /\ Fails(c, "timeout", ops) /\ UNCHANGED now
    BY <1>6 DEF TimeoutFires
  <2>2. "timeout" \in Errors /\ ~IsRetryableError("timeout")
    BY DEF Errors, IsRetryableError
  <2>3. /\ call' \in [Calls -> CallType] /\ ops' \subseteq Calls \X (1 .. MaxAttempts) /\ OpsOK'
        /\ breaker' = RecordFailure(breaker) /\ streak' = streak + 1
        /\ call'[c].outcome # "refused" /\ \A k \in Calls : k # c => call'[k] = call[k]
    BY <2>1, <2>2, FailsOK
  <2>4. QED
    BY SMTT(30), <1>1, <1>2, <1>3, <2>1, <2>3, FailureOK
<1>7. ASSUME NEW c \in Calls, Wake(c) PROVE IInv' /\ Closed'
  <2>1. call[c].pc = "sleep" /\ UNCHANGED <<now, breaker, streak>>
    BY <1>7 DEF Wake
  <2>2. PICK d \in NextDelays(call[c].delay) : Attempt(c, call[c].attempt + 1, d, ops)
    BY <1>7 DEF Wake
  <2>3. d \in Nat /\ call[c].attempt + 1 \in 1 .. MaxAttempts
    BY SMTT(30), <1>1, <2>1, DelaysOK, RetryAssumption DEF CallType, OpsOK
  <2>4. \A m \in 1 .. MaxAttempts : <<c, m>> \notin ops
    BY <1>1, <2>1 DEF OpsOK
  <2>5. /\ call' \in [Calls -> CallType] /\ ops' \subseteq Calls \X (1 .. MaxAttempts) /\ OpsOK'
        /\ call'[c].outcome # "refused" /\ \A k \in Calls : k # c => call'[k] = call[k]
    BY <2>1, <2>2, <2>3, <2>4, AttemptOK
  <2>6. QED
    BY <1>1, <1>2, <1>3, <2>1, <2>5
<1>8. CASE ResetCircuitBreaker
  <2>1. NewBreaker \in BreakerType /\ NewBreaker.state = "closed"
    BY SMTT(30) DEF NewBreaker, BreakerType
  <2>2. OpsOK'
    BY <1>1, <1>8 DEF ResetCircuitBreaker, OpsOK
  <2>3. QED
    BY <1>1, <1>2, <1>8, <2>1, <2>2 DEF ResetCircuitBreaker, Closed, NeverOpens
<1>9. CASE Tick
  <2>1. OpsOK' /\ now' \in Nat /\ now' >= Epoch
    BY SMTT(30), <1>1, <1>9, EpochAssumption DEF Tick, OpsOK
  <2>2. QED
    BY <1>1, <1>2, <1>9, <2>1 DEF Tick, Closed, NeverOpens
<1>10. CASE UNCHANGED vars
  <2>1. OpsOK'
    BY <1>1, <1>10 DEF vars, OpsOK
  <2>2. QED
    BY <1>1, <1>2, <1>10, <2>1 DEF vars, Closed, NeverOpens
<1>11. \A o \in ops : o[1] \in Calls
  BY <1>1
<1>12. QED
  BY <1>4, <1>5, <1>6, <1>7, <1>8, <1>9, <1>10, <1>11 DEF Next

LEMMA Inductive == Spec => [](IInv /\ Closed)
  BY InitOK, NextOK, PTL DEF Spec

(* Every variable keeps its type, so no call makes more than MaxAttempts   *)
(* attempts, for every choice of the options.                              *)
THEOREM TypeCorrect == Spec => []TypeOK
<1>1. IInv => TypeOK
  BY DEF IInv
<1>2. QED
  BY <1>1, Inductive, PTL

(* A call never has two operations in flight. *)
THEOREM SingleOperation == Spec => []OneOperationPerCall
<1>1. IInv => OneOperationPerCall
  <2> SUFFICES ASSUME IInv, NEW c \in Calls
               PROVE  Cardinality({n \in 1 .. MaxAttempts : <<c, n>> \in ops}) <= 1
    BY DEF OneOperationPerCall
  <2> DEFINE S == {n \in 1 .. MaxAttempts : <<c, n>> \in ops}
  <2>1. \A m, n \in S : m = n
    BY DEF IInv, OpsOK
  <2> SUFFICES Cardinality(S) <= 1
    OBVIOUS
  <2> HIDE DEF S
  <2>2. CASE S = {}
    BY SMTT(30), <2>2, FS_EmptySet
  <2>3. ASSUME NEW n \in S PROVE Cardinality(S) <= 1
    <3>1. S = {n}
      BY <2>1
    <3>2. Cardinality({n}) = 1
      BY FS_Singleton
    <3>3. QED
      BY SMTT(30), <3>1, <3>2
  <2>4. QED
    BY <2>2, <2>3
<1>2. QED
  BY <1>1, Inductive, PTL

(* With a threshold of two or more, as the code has, the breaker never     *)
(* opens and no call is refused, whatever fails and however often.         *)
THEOREM BreakerNeverOpens ==
  ASSUME FailureThreshold >= 2
  PROVE  Spec => []NeverOpens
<1>1. Closed => NeverOpens
  BY DEF Closed
<1>2. QED
  BY <1>1, Inductive, PTL

=============================================================================
