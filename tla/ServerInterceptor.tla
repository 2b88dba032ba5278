-------------------------- MODULE ServerInterceptor -------------------------
(***************************************************************************)
(* The aio server interceptors: ResilienceServerInterceptor of             *)
(* marty_common/resilience/interceptors.py ("basic") and                   *)
(* EnhancedResilienceInterceptor of enhanced_interceptors.py ("enhanced"), *)
(* with the breaker and the RequestMetrics of one method.  The wrappers of *)
(* the four kinds of RPC differ only in what they iterate over.  Between   *)
(* the arrival of a request and the first await of its handler nothing     *)
(* else runs, and neither between its end and the end of the wrapper.      *)
(***************************************************************************)
EXTENDS Integers, FiniteSets

CONSTANTS
    Requests,       \* requests that can be under way together
    Threshold,      \* failure_threshold
    Recovery,       \* recovery_timeout
    MaxRequests     \* bound: requests that arrive

VARIABLES
    kind,           \* which interceptor is installed
    state, failures, successes, opened, failed, slots,  \* the method's breaker
    running,        \* requests whose handler is running
    metrics,        \* RequestMetrics of the method (enhanced only)
    lost,           \* history: requests whose client went away
    faults          \* history: failures of the service, injected ones included

Breaker == INSTANCE CircuitBreaker WITH
    FailureThreshold <- Threshold, RecoveryTimeout <- Recovery,
    HalfOpenSuccessThreshold <- 1, FailureResetTimeout <- 1, MaxConcurrent <- 1,
    failure_count <- failures, success_count <- successes,
    openedAge <- opened, failureAge <- failed, concurrent <- slots

breakerVars == <<state, failures, successes, opened, failed, slots>>
vars == <<kind, breakerVars, running, metrics, lost, faults>>

NoRequests == [total |-> 0, successful |-> 0, failed |-> 0, rejected |-> 0, injected |-> 0]

TypeOK ==
    /\ kind \in {"basic", "enhanced"}
    /\ Breaker!BreakerTypeOK
    /\ running \subseteq Requests
    /\ DOMAIN metrics = DOMAIN NoRequests
    /\ \A f \in DOMAIN metrics : metrics[f] \in 0 .. MaxRequests
    /\ lost \in Nat /\ faults \in Nat

Init ==
    /\ kind \in {"basic", "enhanced"}
    /\ Breaker!BreakerInit
    /\ running = {}
    /\ metrics = NoRequests
    /\ lost = 0
    /\ faults = 0

-----------------------------------------------------------------------------
(* RequestMetrics                                                          *)

record_request_start(m) == [m EXCEPT !.total = @ + 1]
record_request_success(m) == [m EXCEPT !.successful = @ + 1]
record_circuit_breaker_rejection(m) == [m EXCEPT !.rejected = @ + 1]

\* Mutant: injected failures are kept out of failed_requests.
record_request_failure_Apart(m, is_injected) ==
    IF is_injected THEN [m EXCEPT !.injected = @ + 1] ELSE [m EXCEPT !.failed = @ + 1]

record_request_failure(m, is_injected) ==
    [m EXCEPT !.failed = @ + 1, !.injected = IF is_injected THEN @ + 1 ELSE @]

\* Only the enhanced interceptor keeps metrics.
Record(m) == metrics' = IF kind = "enhanced" THEN m ELSE metrics

-----------------------------------------------------------------------------
(* The wrappers                                                            *)

Arrives(r) ==
    /\ r \in Requests \ running
    /\ metrics.total < MaxRequests /\ lost < MaxRequests /\ faults < MaxRequests

\* allow_request, then context.abort
Refuse(r) ==
    /\ Arrives(r)
    /\ ~Breaker!Granted
    /\ Breaker!AllowRequest
    /\ Record(record_circuit_breaker_rejection(record_request_start(metrics)))
    /\ UNCHANGED <<kind, running, lost, faults>>

Admit(r) ==
    /\ Arrives(r)
    /\ Breaker!Granted
    /\ Breaker!AllowRequest
    /\ running' = running \cup {r}
    /\ Record(record_request_start(metrics))
    /\ UNCHANGED <<kind, lost, faults>>

\* Injection is off, or tosses a coin of some rate, and is then forced by
\* metadata of the request, too.
Injections == {"off", "never", "sometimes", "always"}
should_fail(injection, force, toss) ==
    /\ injection # "off"
    /\ \/ force
       \/ injection = "always"
       \/ injection = "sometimes" /\ toss

\* _inject_failure_if_needed, _should_inject_failure.  It follows the admission at once; that the
\* model lets others in between adds only what a late fault adds.
Inject(r) ==
    /\ r \in running
    /\ \E i \in Injections, force, toss \in BOOLEAN : should_fail(i, force, toss)
    /\ running' = running \ {r}
    /\ Breaker!RecordFailure
    /\ faults' = faults + 1
    /\ Record(record_request_failure(metrics, TRUE))
    /\ UNCHANGED <<kind, lost>>

\* A handler's exception: one of the caller's making, a gRPC error, or any
\* other (an abort by the handler itself too: AbortError is no RpcError).
Exceptions == {"client", "rpc", "fault"}

\* Mutant: client errors are told to the breaker, too.
should_trip_Always(exc) == exc # "rpc"

\* _classify_error of the enhanced interceptor; the basic one tells the
\* breaker of every exception that is no gRPC error.
should_trip(exc) == exc = "fault" \/ (kind = "basic" /\ exc = "client")

Succeed(r) ==
    /\ r \in running
    /\ running' = running \ {r}
    /\ Breaker!RecordSuccess
    /\ Record(record_request_success(metrics))
    /\ UNCHANGED <<kind, lost, faults>>

Fail(r, exc) ==
    /\ r \in running
    /\ running' = running \ {r}
    /\ IF should_trip(exc) THEN Breaker!RecordFailure ELSE UNCHANGED breakerVars
    /\ faults' = IF exc = "fault" THEN faults + 1 ELSE faults
    /\ Record(record_request_failure(metrics, FALSE))
    /\ UNCHANGED <<kind, lost>>

\* CancelledError passes both except clauses.
Cancel(r) ==
    /\ r \in running
    /\ running' = running \ {r}
    /\ lost' = lost + 1
    /\ UNCHANGED <<kind, breakerVars, metrics, faults>>

Tick ==
    /\ Breaker!PassTime
    /\ UNCHANGED <<kind, running, metrics, lost, faults>>

Wrapper(r) ==
    \/ Refuse(r) \/ Admit(r) \/ Inject(r)
    \/ Succeed(r) \/ (\E exc \in Exceptions : Fail(r, exc)) \/ Cancel(r)

Next == (\E r \in Requests : Wrapper(r)) \/ Tick

Spec == Init /\ [][Next]_vars

-----------------------------------------------------------------------------
(***************************************************************************)
(* RequestMetrics accounts for every request: it is running, succeeded,    *)
(* failed, was rejected, or its client went away; injected failures are    *)
(* among the failed ones.  Each outcome is recorded on another path of the *)
(* wrapper, and requests overlap.                                          *)
(***************************************************************************)
RequestsAccountedFor ==
    kind = "enhanced" =>
        /\ metrics.total = metrics.successful + metrics.failed + metrics.rejected
                           + Cardinality(running) + lost
        /\ metrics.injected <= metrics.failed

(***************************************************************************)
(* "Don't trip circuit breaker on client errors": with the enhanced        *)
(* interceptor an open breaker means that the service itself failed at     *)
(* least as often as the threshold says, whatever clients send.            *)
(***************************************************************************)
TripsNeedFaults == kind = "enhanced" /\ state = "OPEN" => faults >= Threshold
=============================================================================
