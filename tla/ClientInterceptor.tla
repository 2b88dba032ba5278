-------------------------- MODULE ClientInterceptor -------------------------
(***************************************************************************)
(* marty_common/resilience/comprehensive_interceptors.py: the client side. *)
(* Every RPC of a service is guarded by the breaker of the service and the *)
(* breaker of its method, asked and told one after the other, and run by a *)
(* retry manager whose own breaker, there by default, is asked before the  *)
(* first attempt and told of every one, refusals by the two included. The  *)
(* sync and the async interceptor differ only in what they await.          *)
(***************************************************************************)
EXTENDS Integers, Sequences

CONSTANTS
    Callers,            \* threads or tasks that make calls of one method
    MaxAttempts,        \* retry_config.max_attempts
    ServiceThreshold,   \* failure_threshold of the service's breaker
    MethodThreshold,    \* failure_threshold of the method's breaker
    RetryThreshold,     \* failure_threshold of the retry manager's breaker
    ServiceRecovery,    \* recovery_timeout of the service's breaker
    MethodRecovery,     \* recovery_timeout of the method's breaker
    RetryRecovery       \* recovery_timeout of the retry manager's breaker

VARIABLES
    sState, sFailures, sSuccesses, sOpened, sFailed, sSlots,    \* circuit_breaker
    mState, mFailures, mSuccesses, mOpened, mFailed, mSlots,    \* method_cb
    rState, rFailures, rSuccesses, rOpened, rFailed, rSlots,    \* retry_manager.circuit_breaker
    call,       \* intercept_unary_unary of each caller
    metrics,    \* enable_metrics
    service     \* external: "up", "down", or rejecting the requests it gets

ServiceBreaker == INSTANCE CircuitBreaker WITH
    FailureThreshold <- ServiceThreshold, RecoveryTimeout <- ServiceRecovery,
    HalfOpenSuccessThreshold <- 1, FailureResetTimeout <- 0, MaxConcurrent <- 1,
    state <- sState, failure_count <- sFailures, success_count <- sSuccesses,
    openedAge <- sOpened, failureAge <- sFailed, concurrent <- sSlots

MethodBreaker == INSTANCE CircuitBreaker WITH
    FailureThreshold <- MethodThreshold, RecoveryTimeout <- MethodRecovery,
    HalfOpenSuccessThreshold <- 1, FailureResetTimeout <- 0, MaxConcurrent <- 1,
    state <- mState, failure_count <- mFailures, success_count <- mSuccesses,
    openedAge <- mOpened, failureAge <- mFailed, concurrent <- mSlots

RetryBreaker == INSTANCE CircuitBreaker WITH
    FailureThreshold <- RetryThreshold, RecoveryTimeout <- RetryRecovery,
    HalfOpenSuccessThreshold <- 1, FailureResetTimeout <- 0, MaxConcurrent <- 1,
    state <- rState, failure_count <- rFailures, success_count <- rSuccesses,
    openedAge <- rOpened, failureAge <- rFailed, concurrent <- rSlots

serviceVars == <<sState, sFailures, sSuccesses, sOpened, sFailed, sSlots>>
methodVars == <<mState, mFailures, mSuccesses, mOpened, mFailed, mSlots>>
retryVars == <<rState, rFailures, rSuccesses, rOpened, rFailed, rSlots>>
vars == <<serviceVars, methodVars, retryVars, call, metrics, service>>

\* How an attempt ended: a result, a broken connection, which _is_retryable_exception takes
\* for retryable, or another exception, which it does not: a gRPC error, of the service or of
\* a breaker that refused, or a TypeError.
Outcomes == {"result", "broken", "error"}
Idle == [pc |-> "idle", attempt |-> 0, outcome |-> "none"]

TypeOK ==
    /\ ServiceBreaker!BreakerTypeOK
    /\ MethodBreaker!BreakerTypeOK
    /\ RetryBreaker!BreakerTypeOK
    /\ call \in [Callers ->
          [pc : {"idle", "service", "method", "rpc", "tellService", "tellMethod", "tellRetry"},
           attempt : 0 .. MaxAttempts,
           outcome : Outcomes \cup {"none"}]]
    /\ metrics \in BOOLEAN /\ service \in {"up", "down", "strict"}

Init ==
    /\ ServiceBreaker!BreakerInit
    /\ MethodBreaker!BreakerInit
    /\ RetryBreaker!BreakerInit
    /\ call = [c \in Callers |-> Idle]
    /\ metrics \in BOOLEAN
    /\ service = "up"

Goto(c, label) == call' = [call EXCEPT ![c].pc = label]
\* The caller gets the result or the exception.
End(c) == call' = [call EXCEPT ![c] = Idle]
\* The attempt is over for make_call: its exception or result goes to the retry manager.
Raise(c, outcome) == call' = [call EXCEPT ![c].pc = "tellRetry", ![c].outcome = outcome]

-----------------------------------------------------------------------------
(* retry_sync and retry_async: _check_circuit_breaker                      *)

\* Once for all attempts; a refusal is a RuntimeError that nobody hears of.
AskRetry(c) ==
    /\ call[c].pc = "idle"
    /\ RetryBreaker!AllowRequest
    /\ IF RetryBreaker!Granted
       THEN call' = [call EXCEPT ![c] = [Idle EXCEPT !.pc = "service", !.attempt = 1]]
       ELSE End(c)
    /\ UNCHANGED <<serviceVars, methodVars, metrics, service>>

-----------------------------------------------------------------------------
(* make_call                                                               *)

\* Mutant: a request takes a slot of the breaker as soon as it is asked,
\* and a refusal by the other breaker does not give it back.
AskService_TakesSlot(c) ==
    /\ call[c].pc = "service"
    /\ ServiceBreaker!Granted
    /\ sSlots' = sSlots + 1
    /\ Goto(c, "method")
    /\ UNCHANGED <<sState, sFailures, sSuccesses, sOpened, sFailed, methodVars, retryVars,
                   metrics, service>>

\* A refusal is a gRPC error raised before the try: neither this breaker nor the
\* method's hears of it.
AskService(c) ==
    /\ call[c].pc = "service"
    /\ ServiceBreaker!AllowRequest
    /\ IF ServiceBreaker!Granted THEN Goto(c, "method") ELSE Raise(c, "error")
    /\ UNCHANGED <<methodVars, retryVars, metrics, service>>

AskMethod(c) ==
    /\ call[c].pc = "method"
    /\ MethodBreaker!AllowRequest
    /\ IF MethodBreaker!Granted THEN Goto(c, "rpc") ELSE Raise(c, "error")
    /\ UNCHANGED <<serviceVars, retryVars, metrics, service>>

\* continuation(client_call_details, request)
Continuation(c) ==
    /\ call[c].pc = "rpc"
    /\ \/ /\ service = "strict"             \* not a transient code: no breaker of make_call hears
          /\ Raise(c, "error")
       \/ \E o \in IF service = "up" THEN {"result"} ELSE {"error", "broken"} :
             /\ service # "strict"
             /\ call' = [call EXCEPT ![c].outcome = o, ![c].pc = "tellService"]
    /\ UNCHANGED <<serviceVars, methodVars, retryVars, metrics, service>>

\* record_success or record_failure of the service's breaker, then of the
\* method's.
TellService(c) ==
    /\ call[c].pc = "tellService"
    /\ IF call[c].outcome = "result" THEN ServiceBreaker!RecordSuccess
                                     ELSE ServiceBreaker!RecordFailure
    /\ Goto(c, "tellMethod")
    /\ UNCHANGED <<methodVars, retryVars, metrics, service>>

\* Mutant: only the service's breaker hears of a success.
MethodHears_FailuresOnly(outcome) ==
    IF outcome = "result" THEN UNCHANGED methodVars ELSE MethodBreaker!RecordFailure

MethodHears(outcome) ==
    IF outcome = "result" THEN MethodBreaker!RecordSuccess ELSE MethodBreaker!RecordFailure

\* _record_request_metrics passes the labels as the counter's increment:
\* adding a dict to a float raises TypeError.
RecordingRaises == metrics

\* The TypeError of a success is caught by the try around it and takes the
\* path of a failure; raised again from there, it leaves make_call, in place
\* of the failure if there was one.
TellMethod(c) ==
    /\ call[c].pc = "tellMethod"
    /\ MethodHears(call[c].outcome)
    /\ IF call[c].outcome = "result" /\ RecordingRaises
       THEN call' = [call EXCEPT ![c].pc = "tellService", ![c].outcome = "error"]
       ELSE Raise(c, IF RecordingRaises THEN "error" ELSE call[c].outcome)
    /\ UNCHANGED <<serviceVars, retryVars, metrics, service>>

-----------------------------------------------------------------------------
(* retry_sync and retry_async: the end of an attempt                       *)

Retries(c) == call[c].outcome = "broken" /\ call[c].attempt < MaxAttempts

\* The default classifier counts every one of these exceptions.
RetryHears(outcome) ==
    IF outcome = "result" THEN RetryBreaker!RecordSuccess ELSE RetryBreaker!RecordFailure

TellRetry(c) ==
    /\ call[c].pc = "tellRetry"
    /\ RetryHears(call[c].outcome)
    /\ \/ /\ Retries(c)
          /\ call' = [call EXCEPT ![c].pc = "service", ![c].outcome = "none",
                                  ![c].attempt = @ + 1]
       \* a result, not retryable, the last attempt, or the next one is beyond total_timeout
       \/ End(c)
    /\ UNCHANGED <<serviceVars, methodVars, metrics, service>>

-----------------------------------------------------------------------------
Tick ==
    /\ ServiceBreaker!PassTime
    /\ MethodBreaker!PassTime
    /\ RetryBreaker!PassTime
    /\ UNCHANGED <<call, metrics, service>>

ServiceChanges ==
    /\ service' \in {"up", "down", "strict"}
    /\ UNCHANGED <<serviceVars, methodVars, retryVars, call, metrics>>

Step(c) ==
    \/ AskRetry(c) \/ AskService(c) \/ AskMethod(c) \/ Continuation(c)
    \/ TellService(c) \/ TellMethod(c) \/ TellRetry(c)

Next == (\E c \in Callers : Step(c)) \/ Tick \/ ServiceChanges

Spec == Init /\ [][Next]_vars

\* Callers keep calling and their calls keep moving; the clock runs.
FairSpec == Spec /\ (\A c \in Callers : WF_vars(Step(c))) /\ WF_vars(Tick)

-----------------------------------------------------------------------------
(***************************************************************************)
(* The three breakers never lock each other out: when no call is under way *)
(* and the clock has passed all timeouts, the next call reaches the        *)
(* service, although a refusal by one of the two inner breakers leaves the *)
(* other one half-open and counts as a failure for the outer one.          *)
(***************************************************************************)
NoLockout ==
    (\A c \in Callers : call[c].pc = "idle")
    /\ sOpened >= ServiceRecovery /\ mOpened >= MethodRecovery /\ rOpened >= RetryRecovery
       => ServiceBreaker!Granted /\ MethodBreaker!Granted /\ RetryBreaker!Granted

(***************************************************************************)
(* Without metrics, once the service answers for good all three breakers   *)
(* are closed for good, whatever failures of earlier calls are still to be *)
(* told to one of them, and although the refusals of an inner breaker that *)
(* is still open may open the outer one again.                             *)
(***************************************************************************)
AllClose ==
    <>[](service = "up" /\ ~metrics) =>
        <>[](sState = "CLOSED" /\ mState = "CLOSED" /\ rState = "CLOSED")
=============================================================================
