-------------------------- MODULE ErrorsAndRetries --------------------------
(***************************************************************************)
(* What becomes of an error: four components that share no state, one      *)
(* section each, with its own Init and Next.                               *)
(***************************************************************************)
EXTENDS Naturals, FiniteSets, FiniteSetsExt, Sequences

-----------------------------------------------------------------------------
(***************************************************************************)
(* What becomes of an exception on its way from a handler to the caller:   *)
(* the decorators of marty_common/errors/handlers.py and                   *)
(* error_handling.py, then the boundary (the gRPC interceptors of          *)
(* grpc_interceptors.py, the mapping of resilience/enhanced_errors.py, or  *)
(* the HTTP handlers of errors/fastapi_handlers.py), and at a gRPC client  *)
(* create_error_from_grpc_error and is_retriable_error.                    *)
(***************************************************************************)
CONSTANT ErrorMaxAttempts    \* max_attempts of retry_on_failure

VARIABLES
    stage,          \* "idle", "raised", "wrapped", "answered" or "classified"
    origin,         \* the exception the handler raised
    exc,            \* the exception as it is now
    wrapper,        \* the decorator it went through
    attempts,       \* calls of the handler made by retry_on_failure
    answer          \* what the boundary sent

errorVars == <<stage, origin, exc, wrapper, attempts, answer>>

(* The exceptions                                                          *)

Python == {"ValueError", "TypeError", "ConnectionError", "TimeoutError", "MemoryError",
           "FileNotFoundError", "PermissionError", "RuntimeError"}

\* exceptions.py: each class fixes its status code.
ServiceStatus ==
    [InvalidInputError |-> "INVALID_ARGUMENT", ResourceNotFoundError |-> "NOT_FOUND",
     OperationFailedError |-> "INTERNAL", ConfigurationError |-> "FAILED_PRECONDITION",
     AuthenticationError |-> "UNAUTHENTICATED", PermissionDeniedError |-> "PERMISSION_DENIED",
     ServiceUnavailableError |-> "UNAVAILABLE", MartyTimeoutError |-> "DEADLINE_EXCEEDED",
     ServiceCommunicationError |-> "UNAVAILABLE"]

Service == DOMAIN ServiceStatus

\* errors/handlers.py
Marty == {"MartyConfigurationError", "MartyValidationError", "MartyServiceError",
          "MartyNetworkError", "MartyDatabaseError", "MartyCertificateError"}

\* resilience/enhanced_errors.py: the recovery action of each class, named by category.
EnhancedAction ==
    [VALIDATION |-> "FAIL_FAST", AUTHENTICATION |-> "FAIL_FAST", AUTHORIZATION |-> "FAIL_FAST",
     NOT_FOUND |-> "FAIL_FAST", CONFLICT |-> "FAIL_FAST", TRANSIENT |-> "RETRY_WITH_BACKOFF",
     EXTERNAL_SERVICE |-> "CIRCUIT_BREAK", DATABASE |-> "RETRY_WITH_BACKOFF",
     RATE_LIMITED |-> "RETRY_WITH_BACKOFF", BUSINESS_RULE |-> "FAIL_FAST"]

Enhanced == DOMAIN EnhancedAction

\* error_handling.py: the subclasses of MartyException, named by category.
Categorized == {"validation", "authentication", "authorization", "network",
                "external_service", "certificate", "cryptography", "configuration", "resource"}

\* context.abort called by the handler itself raises as well.
ErrorExceptions ==
    Python \union Service \union Marty \union Enhanced \union Categorized
    \union {"AbortError", "HTTPException"}
UserErrors == {"ValueError", "TypeError", "MartyValidationError"}

NoAnswer == [by |-> "none"]

ErrorTypeOK ==
    /\ stage \in {"idle", "raised", "wrapped", "answered", "classified"}
    /\ {origin, exc} \subseteq ErrorExceptions \union {"none", "AttributeError"}
    /\ wrapper \in {"none", "common", "database", "certificate", "retry", "logged", "quiet"}
    /\ attempts \in 0 .. ErrorMaxAttempts
    /\ answer.by \in {"none", "grpc", "aio", "enhanced", "handler", "http"}

ErrorInit ==
    /\ stage = "idle"
    /\ origin = "none" /\ exc = "none"
    /\ wrapper = "none" /\ attempts = 0
    /\ answer = NoAnswer

Raise ==
    /\ stage = "idle"
    /\ \E e \in ErrorExceptions : origin' = e /\ exc' = e
    /\ stage' = "raised"
    /\ UNCHANGED <<wrapper, attempts, answer>>

(* Decorators                                                              *)

Rewrap(w, e) ==
    /\ stage = "raised" /\ attempts = 0
    /\ exc' = e
    /\ wrapper' = w
    /\ stage' = "wrapped"
    /\ UNCHANGED <<origin, attempts, answer>>

Unwrapped == Rewrap("none", exc)

\* handle_common_exceptions, handle_grpc_errors and ErrorContext.__exit__
CommonError_CatchAll(e) == IF e \in Marty THEN e ELSE "MartyServiceError"

CommonError(e) ==
    CASE e \in Marty -> e
      [] e \in {"ConnectionError", "TimeoutError"} -> "MartyNetworkError"
      [] e \in {"ValueError", "TypeError"} -> "MartyValidationError"
      [] e \in {"FileNotFoundError", "PermissionError"} -> "MartyConfigurationError"
      [] OTHER -> "MartyServiceError"

handle_common_exceptions == Rewrap("common", CommonError(exc))
handle_database_errors == Rewrap("database", "MartyDatabaseError")
handle_certificate_errors == Rewrap("certificate", "MartyCertificateError")

\* retry_on_failure: by default every exception is tried again.
Retried(e) == TRUE

retry_attempt ==
    /\ stage = "raised" /\ attempts < ErrorMaxAttempts
    /\ attempts' = attempts + 1
    /\ wrapper' = "retry"
    /\ IF attempts + 1 < ErrorMaxAttempts /\ Retried(exc)
       THEN UNCHANGED <<exc, stage>>
       ELSE exc' = (IF Retried(exc) THEN "MartyServiceError" ELSE exc) /\ stage' = "wrapped"
    /\ UNCHANGED <<origin, answer>>

\* error_handling.ErrorHandler.handle_error: _log_error reads error_id of the
\* ErrorDetails, which has none, so it raises in place of the exception handled; before
\* that the error has been counted, after it the callbacks would have been called.
LogRaises == TRUE
LoggedError(e) == IF LogRaises THEN "AttributeError" ELSE e

handle_errors(suppress_logging) ==
    IF suppress_logging THEN Rewrap("quiet", exc) ELSE Rewrap("logged", LoggedError(exc))

(* gRPC boundary                                                           *)

Answer(a) ==
    /\ stage = "wrapped"
    /\ answer' = a
    /\ stage' = "answered"
    /\ UNCHANGED <<origin, exc, wrapper, attempts>>

\* ExceptionToStatusInterceptor. The exception of the handler's own abort is caught by
\* the last clause, whose abort replaces the status.
SyncStatus(e) == IF e \in Service THEN ServiceStatus[e] ELSE "INTERNAL"
\* In AsyncExceptionToStatusInterceptor the second abort fails, the first one stands.
AsyncStatus(e) ==
    CASE e \in Service -> ServiceStatus[e] [] e = "AbortError" -> "NOT_FOUND" [] OTHER -> "INTERNAL"

\* map_enhanced_exception_to_status and, for other exceptions, map_exception_to_status
ENHANCED_CATEGORY_TO_GRPC_STATUS ==
    [VALIDATION |-> "INVALID_ARGUMENT", AUTHENTICATION |-> "UNAUTHENTICATED",
     AUTHORIZATION |-> "PERMISSION_DENIED", NOT_FOUND |-> "NOT_FOUND",
     CONFLICT |-> "ALREADY_EXISTS", RATE_LIMITED |-> "RESOURCE_EXHAUSTED",
     TRANSIENT |-> "UNAVAILABLE", EXTERNAL_SERVICE |-> "UNAVAILABLE",
     DATABASE |-> "INTERNAL", BUSINESS_RULE |-> "FAILED_PRECONDITION"]

map_exception_to_status(e) == SyncStatus(e)
map_enhanced_exception_to_status(e) ==
    IF e \in Enhanced THEN ENHANCED_CATEGORY_TO_GRPC_STATUS[e] ELSE map_exception_to_status(e)

\* GrpcErrorHandler.handle_grpc_error called by the servicer. Once handle_error has
\* returned, the category decides; what it raises instead leaves the servicer.
classify_exception(e) ==
    CASE e \in {"ConnectionError", "TimeoutError"} -> "network"
      [] e \in {"ValueError", "TypeError"} -> "validation"
      [] e = "PermissionError" -> "authorization"
      [] e = "MemoryError" -> "resource"
      [] OTHER -> "unknown"

status_code_map(category) ==
    CASE category = "validation" -> "INVALID_ARGUMENT"
      [] category = "authentication" -> "UNAUTHENTICATED"
      [] category = "authorization" -> "PERMISSION_DENIED"
      [] category \in {"network", "external_service"} -> "UNAVAILABLE"
      [] category = "configuration" -> "FAILED_PRECONDITION"
      [] category = "resource" -> "RESOURCE_EXHAUSTED"
      [] OTHER -> "INTERNAL"

handle_grpc_error(e) ==
    IF LogRaises THEN "UNKNOWN"
    ELSE status_code_map(IF e \in Categorized THEN e ELSE classify_exception(e))

AnswerHandler == Answer([by |-> "handler", code |-> handle_grpc_error(exc)])
AnswerSync == Answer([by |-> "grpc", code |-> SyncStatus(exc)])
AnswerAsync == Answer([by |-> "aio", code |-> AsyncStatus(exc)])
AnswerEnhanced == Answer([by |-> "enhanced", code |-> map_enhanced_exception_to_status(exc)])

(* HTTP boundary: marty_error_handler, unhandled_exception_handler          *)

marty_error_handler(e) ==
    CASE e = "MartyValidationError" -> [status |-> 400, action |-> "FAIL_FAST"]
      [] e = "MartyConfigurationError" -> [status |-> 500, action |-> "CONTACT_SUPPORT"]
      [] e = "MartyNetworkError" -> [status |-> 502, action |-> "RETRY_WITH_BACKOFF"]
      [] e = "MartyDatabaseError" -> [status |-> 500, action |-> "RETRY_WITH_BACKOFF"]
      [] e = "MartyCertificateError" -> [status |-> 500, action |-> "CONTACT_SUPPORT"]
      [] e = "MartyServiceError" -> [status |-> 500, action |-> "RETRY"]

unhandled_exception_handler == [status |-> 500, action |-> "CONTACT_SUPPORT"]

http_exception_handler(status) ==
    CASE status = 401 -> "REAUTHENTICATE"
      [] status \in {429, 502, 503, 504} -> "RETRY_WITH_BACKOFF"
      [] status < 500 /\ status \notin {401, 429} -> "FAIL_FAST"
      [] OTHER -> "CONTACT_SUPPORT"

HttpResponse(e) == IF e \in Marty THEN marty_error_handler(e) ELSE unhandled_exception_handler

AnswerHttpException ==
    /\ exc = "HTTPException"
    /\ \E status \in {400, 401, 403, 404, 409, 422, 429, 500, 503} :
          Answer([by |-> "http", status |-> status, action |-> http_exception_handler(status)])

AnswerHttp ==
    /\ exc # "HTTPException"
    /\ Answer([by |-> "http", status |-> HttpResponse(exc).status,
               action |-> HttpResponse(exc).action])

(* The gRPC client                                                         *)

grpc_to_category_DefaultTransient(code) ==
    CASE code = "INVALID_ARGUMENT" -> "VALIDATION"
      [] code = "NOT_FOUND" -> "NOT_FOUND"
      [] OTHER -> "TRANSIENT"

grpc_to_category(code) ==
    CASE code = "INVALID_ARGUMENT" -> "VALIDATION"
      [] code = "UNAUTHENTICATED" -> "AUTHENTICATION"
      [] code = "PERMISSION_DENIED" -> "AUTHORIZATION"
      [] code = "NOT_FOUND" -> "NOT_FOUND"
      [] code = "ALREADY_EXISTS" -> "CONFLICT"
      [] code = "RESOURCE_EXHAUSTED" -> "RATE_LIMITED"
      [] code \in {"UNAVAILABLE", "DEADLINE_EXCEEDED"} -> "TRANSIENT"
      [] OTHER -> "INTERNAL"

create_error_from_grpc_error(code) ==
    [category |-> grpc_to_category(code),
     action |-> IF grpc_to_category(code) = "TRANSIENT" THEN "RETRY_WITH_BACKOFF" ELSE "FAIL_FAST"]

is_retriable_error(e) ==
    \/ e.category \in {"TRANSIENT", "NETWORK", "EXTERNAL_SERVICE", "DATABASE"}
    \/ e.action \in {"RETRY", "RETRY_WITH_BACKOFF"}

Classify ==
    /\ stage = "answered" /\ answer.by # "http"
    /\ stage' = "classified"
    /\ answer' = [by |-> answer.by, code |-> answer.code,
                  retry |-> is_retriable_error(create_error_from_grpc_error(answer.code))]
    /\ UNCHANGED <<origin, exc, wrapper, attempts>>

ErrorNext ==
    \/ Raise
    \/ Unwrapped \/ handle_common_exceptions \/ handle_database_errors
    \/ handle_certificate_errors \/ retry_attempt \/ \E q \in BOOLEAN : handle_errors(q)
    \/ AnswerSync \/ AnswerAsync \/ AnswerEnhanced \/ AnswerHandler
    \/ AnswerHttp \/ AnswerHttpException
    \/ Classify

ErrorSpec == ErrorInit /\ [][ErrorNext]_errorVars

\* A client retries only what the server's error allowed it to: an answer it takes as
\* retriable comes from an error that is_retriable_error calls so on the server. (Not
\* the other way: a database error and a rate limit are not retried by the client.)
RetryNeedsConsent ==
    (stage = "classified" /\ answer.by = "enhanced" /\ answer.retry /\ exc \in Enhanced) =>
        is_retriable_error([category |-> exc, action |-> EnhancedAction[exc]])

\* A user's mistake that goes through handle_common_exceptions is reported over HTTP as
\* one: 400, and not to be retried.
UserErrorsFailFast ==
    (origin \in UserErrors /\ wrapper = "common" /\ answer.by = "http") =>
        answer.status = 400 /\ answer.action = "FAIL_FAST"

-----------------------------------------------------------------------------
(***************************************************************************)
(* retry_sync and retry_async of resilience/retry.py: calls of one         *)
(* decorated function share its RetryMetrics. The wrapper that records an  *)
(* attempt sits inside the tenacity policy that decides about the next     *)
(* one, and the two classify exceptions differently.                       *)
(***************************************************************************)
CONSTANTS
    RetryCallers,   \* threads or coroutines calling the decorated function
    RetryMaxAttempts, \* RetryConfig.max_attempts
    RetryMaxCalls,  \* calls made in all
    Base,           \* base_delay in per mille of a second, 200 in the code
    RetryMaxDelay   \* max_delay, in the same unit

VARIABLES
    retryCall,      \* caller -> progress of its call
    retryMetrics,   \* the RetryMetrics of the function
    started,        \* calls made
    hidden          \* calls that ended with an exception not counted as a failure

retryVars == <<retryCall, retryMetrics, started, hidden>>

\* "backend" is TransientBackendError, "connection" a ConnectionError or TimeoutError, "os"
\* another OSError or a transient gRPC status, "value" anything else.
RetryExceptions == {"backend", "connection", "os", "value"}

RetryTypeOK ==
    /\ retryCall \in [RetryCallers -> [pc : {"idle", "attempt", "waiting"},
                                       attempts : 0 .. RetryMaxAttempts, slept : Nat]]
    /\ retryMetrics \in [attempts : 0 .. RetryMaxCalls * RetryMaxAttempts, retries : 0 .. RetryMaxCalls * RetryMaxAttempts,
                         successful : 0 .. RetryMaxCalls, failed : 0 .. RetryMaxCalls]
    /\ started \in 0 .. RetryMaxCalls /\ hidden \in 0 .. RetryMaxCalls

RetryIdle == [pc |-> "idle", attempts |-> 0, slept |-> 0]

RetryInit ==
    /\ retryCall = [c \in RetryCallers |-> RetryIdle]
    /\ retryMetrics = [attempts |-> 0, retries |-> 0, successful |-> 0, failed |-> 0]
    /\ started = 0 /\ hidden = 0

\* is_retryable_exception, by which the metrics go.
is_retryable_exception(e) == e \in {"backend", "connection", "os"}

\* retry_on_exceptions is never empty, so it replaces the predicate in the policy.
Retries(e) == e \in {"backend", "connection"}

\* base_delay raised to n - 1: tenacity gets it as the base of the exponent.
Exponent[n \in Nat] == IF n <= 1 THEN 1000 ELSE (Exponent[n - 1] * Base) \div 1000

\* _create_wait_strategy: wait_exponential_jitter with its initial second, without the jitter.
Wait(n) == Min({RetryMaxDelay, Exponent[n]})

Stops_OffByOne(c, late) == retryCall[c].attempts > RetryMaxAttempts \/ late

\* stop_after_attempt or stop_after_delay; late: the attempts took max_total_delay.
Stops(c, late) == retryCall[c].attempts >= RetryMaxAttempts \/ late

RetryBegin(c) ==
    /\ retryCall[c].pc = "idle" /\ started < RetryMaxCalls
    /\ started' = started + 1
    /\ retryCall' = [retryCall EXCEPT ![c] = [RetryIdle EXCEPT !.pc = "attempt", !.attempts = 1]]
    /\ retryMetrics' = [retryMetrics EXCEPT !.attempts = @ + 1]
    /\ UNCHANGED hidden

RetrySucceed(c) ==
    /\ retryCall[c].pc = "attempt"
    /\ retryMetrics' = [retryMetrics EXCEPT !.successful = @ + 1]
    /\ retryCall' = [retryCall EXCEPT ![c] = RetryIdle]
    /\ UNCHANGED <<started, hidden>>

Recorded_OnExhaustion(m, e, last) ==
    IF is_retryable_exception(e) /\ ~last THEN [m EXCEPT !.retries = @ + 1]
    ELSE [m EXCEPT !.failed = @ + 1]

\* The wrapper does not know whether its attempt is the last one.
Recorded(m, e, last) ==
    IF is_retryable_exception(e) THEN [m EXCEPT !.retries = @ + 1] ELSE [m EXCEPT !.failed = @ + 1]

\* An attempt fails; the policy sleeps or raises.
RetryFailAttempt(c, e, late) ==
    /\ retryCall[c].pc = "attempt"
    /\ LET last == ~Retries(e) \/ Stops(c, late)
       IN  /\ retryMetrics' = Recorded(retryMetrics, e, last)
           /\ retryCall' = [retryCall EXCEPT ![c] =
                      IF last THEN RetryIdle
                      ELSE [@ EXCEPT !.pc = "waiting", !.slept = @ + Wait(retryCall[c].attempts)]]
           /\ hidden' = IF last /\ is_retryable_exception(e) THEN hidden + 1 ELSE hidden
    /\ UNCHANGED started

Again(c) ==
    /\ retryCall[c].pc = "waiting"
    /\ retryCall' = [retryCall EXCEPT ![c].pc = "attempt", ![c].attempts = @ + 1]
    /\ retryMetrics' = [retryMetrics EXCEPT !.attempts = @ + 1]
    /\ UNCHANGED <<started, hidden>>

RetryNext ==
    \E c \in RetryCallers :
        \/ RetryBegin(c) \/ RetrySucceed(c) \/ Again(c)
        \/ \E e \in RetryExceptions, late \in BOOLEAN : RetryFailAttempt(c, e, late)

RetrySpec == RetryInit /\ [][RetryNext]_retryVars

Waiting == Cardinality({c \in RetryCallers : retryCall[c].pc = "waiting"})
Running == Cardinality({c \in RetryCallers : retryCall[c].pc # "idle"})

(* A call of which the metrics have no outcome is under way or ended with  *)
(* a retryable exception, whose last failure they count as one more retry. *)
(* What they count is short by exactly those, however calls overlap.       *)
MissedNeedsExhaustion ==
    /\ retryMetrics.successful + retryMetrics.failed + hidden + Running = started
    /\ retryMetrics.retries = (retryMetrics.attempts - started) + Waiting + hidden

-----------------------------------------------------------------------------
(***************************************************************************)
(* EnhancedResilienceServerInterceptor of marty_common/resilience/         *)
(* comprehensive_interceptors.py around the unary handlers of a gRPC       *)
(* server, whose threads share the interceptor. What the handler does,     *)
(* what the client is told and what the interceptor counts are kept apart: *)
(* recording a request can itself raise, an abort is an exception to the   *)
(* code around it, and the count of active requests is updated without a   *)
(* lock.                                                                   *)
(***************************************************************************)
CONSTANTS
    Requests        \* requests, each on a thread of its own

VARIABLES
    answerMetrics,  \* enable_metrics: whether there is a MetricsCollector
    inject,         \* failure_config: "off", or the kind of error it injects
    active,         \* _active_requests
    request,        \* each request: where it is, what it read, raised and was told
    overlapped      \* history: two requests were inside the update of the count at once

answerVars == <<answerMetrics, inject, active, request, overlapped>>

\* What a handler comes to: an answer, an error of this package with a status of its own,
\* any other exception, or a status given to context.abort.
Outcomes == {"answers", "MartyError", "Exception", "aborts"}
Statuses == {"OK", "OWN", "CHOSEN", "INTERNAL", "UNKNOWN"}

\* told: the status set so far.
Fresh == [pc |-> "new", read |-> 0, error |-> "none", told |-> "none", forced |-> FALSE]

AnswerTypeOK ==
    /\ answerMetrics \in BOOLEAN /\ inject \in {"off", "RpcError", "Exception"}
    /\ active \in 0 .. Cardinality(Requests)
    /\ request \in [Requests -> [pc : {"new", "add", "begin", "record", "failed", "subtract", "leave", "done"},
                                 read : 0 .. Cardinality(Requests),
                                 error : {"none", "MartyError", "Exception", "TypeError"},
                                 told : {"none"} \union Statuses, forced : BOOLEAN]]
    /\ overlapped \in BOOLEAN

AnswerInit ==
    /\ answerMetrics \in BOOLEAN /\ inject \in {"off", "RpcError", "Exception"}
    /\ active = 0
    /\ request = [r \in Requests |-> Fresh]
    /\ overlapped = FALSE

(* The count: read, then written                                           *)

InUpdate(r) == request[r].pc \in {"add", "leave"}

ReadActive(r, at, next) ==
    /\ request[r].pc = at
    /\ request' = [request EXCEPT ![r].pc = next, ![r].read = active]
    /\ overlapped' = (overlapped \/ \E q \in Requests \ {r} : InUpdate(q))
    /\ UNCHANGED <<answerMetrics, inject, active>>

Enter(r) == ReadActive(r, "new", "add")

Add(r, forced) ==
    /\ request[r].pc = "add"
    /\ active' = request[r].read + 1
    /\ request' = [request EXCEPT ![r].pc = "begin", ![r].forced = forced]
    /\ UNCHANGED <<answerMetrics, inject, overlapped>>

Less_Unchecked(n) == n

Less(n) == IF n > 0 THEN n - 1 ELSE 0

\* The finally clause.
Leave(r) == ReadActive(r, "subtract", "leave")

Subtract(r) ==
    /\ request[r].pc = "leave"
    /\ active' = Less(request[r].read)
    /\ request' = [request EXCEPT ![r].pc = "done"]
    /\ UNCHANGED <<answerMetrics, inject, overlapped>>

(* enhanced_unary_unary                                                    *)

\* context.abort sets the status and raises a plain Exception.
Aborted(x, status) == [x EXCEPT !.pc = "failed", !.told = status, !.error = "Exception"]

Raised(x, error) == [x EXCEPT !.pc = "failed", !.error = error]

\* _inject_failure: an RpcError is an abort with INTERNAL, another error is raised.
inject_failure(r) ==
    /\ request[r].pc = "begin" /\ inject # "off"
    /\ request' = [request EXCEPT ![r] =
          IF inject = "RpcError" THEN Aborted(@, "INTERNAL") ELSE Raised(@, "Exception")]
    /\ UNCHANGED <<answerMetrics, inject, active, overlapped>>

\* _should_inject_failure: never when off, always on the metadata key, else by the rate.
should_not_inject(r) == inject = "off" \/ ~request[r].forced

Performed(x, outcome) ==
    CASE outcome = "answers" -> [x EXCEPT !.pc = "record"]
      [] outcome = "aborts" -> Aborted(x, "CHOSEN")
      [] OTHER -> Raised(x, outcome)

Handle(r, outcome) ==
    /\ request[r].pc = "begin" /\ should_not_inject(r)
    /\ request' = [request EXCEPT ![r] = Performed(@, outcome)]
    /\ UNCHANGED <<answerMetrics, inject, active, overlapped>>

\* _record_server_metrics gives the labels as the increment: a TypeError, if there is a
\* collector at all.
RecordingRaises == answerMetrics

\* A success is recorded inside the try.
RecordSuccess(r) ==
    /\ request[r].pc = "record"
    /\ request' = [request EXCEPT ![r] =
          IF RecordingRaises THEN Raised(@, "TypeError")
          ELSE [@ EXCEPT !.pc = "subtract", !.told = "OK"]]
    /\ UNCHANGED <<answerMetrics, inject, active, overlapped>>

\* map_exception_to_status: INTERNAL for what is not an error of this package.
Mapped(x) == IF x.error = "MartyError" THEN "OWN" ELSE "INTERNAL"

\* A failure is recorded first; when that raises, the abort is not reached and the server
\* answers UNKNOWN for the exception unless a status was set by an abort before.
Fail(r) ==
    /\ request[r].pc = "failed"
    /\ LET x == request[r]
       IN  request' = [request EXCEPT ![r].pc = "subtract",
              ![r].told = IF ~RecordingRaises THEN Mapped(x)
                          ELSE IF x.told = "none" THEN "UNKNOWN" ELSE x.told]
    /\ UNCHANGED <<answerMetrics, inject, active, overlapped>>

AnswerNext ==
    \E r \in Requests :
        \/ Enter(r) \/ Leave(r) \/ Subtract(r)
        \/ \E forced \in BOOLEAN : Add(r, forced)
        \/ inject_failure(r)
        \/ \E outcome \in Outcomes : Handle(r, outcome)
        \/ RecordSuccess(r) \/ Fail(r)

AnswerSpec == AnswerInit /\ [][AnswerNext]_answerVars

\* When nobody is inside, the count is zero unless two requests updated it at once.
DriftNeedsOverlap ==
    (\A r \in Requests : request[r].pc \in {"new", "done"}) => active = 0 \/ overlapped

-----------------------------------------------------------------------------
(***************************************************************************)
(* How long AdvancedRetryManager of marty_common/resilience/               *)
(* advanced_retry.py waits before each retry, when it runs out of time,    *)
(* and what AdvancedRetryMetrics says of it afterwards. Coroutines share a *)
(* manager whose enable_circuit_breaker is off (RetriedCalls has the       *)
(* breaker). Times are milliseconds; a random jitter is none or all of the *)
(* tenth of the delay it is drawn from.                                    *)
(***************************************************************************)
CONSTANTS
    PacingCallers,  \* coroutines inside retry_async
    PacingMaxAttempts, \* max_attempts
    PacingMaxDelay, \* max_delay
    Timeout,        \* total_timeout
    Duration,       \* how long one attempt may take
    Window,         \* AdvancedRetryMetrics.window_size
    PacingMaxCalls  \* bound: calls begun

Strategies == {"FIXED", "LINEAR", "EXPONENTIAL", "EXPONENTIAL_JITTER", "FIBONACCI",
               "POLYNOMIAL", "ADAPTIVE"}

VARIABLES
    strategy, base, \* backoff_strategy and base_delay
    pacingCall,     \* each coroutine: attempt, time since it began, total_delay, the delay it sleeps
    stats,          \* AdvancedRetryMetrics: its counters
    outcomes,       \* recent_outcomes
    delays,         \* recent_delays
    seen            \* history: calls begun, tries made, calls cancelled

pacingVars == <<strategy, base, pacingCall, stats, outcomes, delays, seen>>

PacingIdle == [pc |-> "idle", attempt |-> 0, elapsed |-> 0, slept |-> 0, delay |-> 0]

PacingTypeOK ==
    /\ strategy \in Strategies /\ base \in {0, 10}
    /\ pacingCall \in [PacingCallers -> [pc : {"idle", "next", "asleep", "running", "late"},
                                         attempt : 0 .. PacingMaxAttempts, elapsed : Nat, slept : Nat, delay : Nat]]
    /\ stats \in [attempts : Nat, retries : Nat, successful : Nat, failed : Nat]
    /\ Len(outcomes) <= Window /\ Len(delays) <= Window
    /\ seen \in [begun : 0 .. PacingMaxCalls, tries : Nat, cancelled : Nat]

PacingInit ==
    /\ strategy \in Strategies /\ base \in {0, 10}
    /\ pacingCall = [c \in PacingCallers |-> PacingIdle]
    /\ stats = [attempts |-> 0, retries |-> 0, successful |-> 0, failed |-> 0]
    /\ outcomes = <<>> /\ delays = <<>>
    /\ seen = [begun |-> 0, tries |-> 0, cancelled |-> 0]

(* Delays                                                                  *)

fibonacci[n \in Nat] == IF n <= 2 THEN 1 ELSE fibonacci[n - 1] + fibonacci[n - 2]

\* multiplier is 2, jitter_factor a tenth.
Doubled(n, d) == d * 2 ^ (n - 1)
Jittered(d, j) == d + (d * j) \div 10

Total(s) == LET sum[i \in 0 .. Len(s)] == IF i = 0 THEN 0 ELSE sum[i - 1] + s[i] IN sum[Len(s)]

get_average_delay == IF delays = <<>> THEN 0 ELSE Total(delays) \div Len(delays)

\* In percent; 100 before anything ended.
get_success_rate ==
    IF outcomes = <<>> THEN 100
    ELSE (100 * Len(SelectSeq(outcomes, LAMBDA o : o))) \div Len(outcomes)

\* _adaptive_delay with enable_adaptive_delays and a threshold of 80 percent: the base grows
\* as the successes fall, and is drawn towards the recent delays.
adaptive_delay(n) ==
    LET grown == IF get_success_rate < 80 THEN (base * (200 - get_success_rate)) \div 100 ELSE base
        drawn == IF get_average_delay > 0 /\ get_average_delay < PacingMaxDelay
                 THEN (grown + get_average_delay) \div 2 ELSE grown
    IN  Doubled(n, drawn)

Spread(n, j) ==
    CASE strategy = "FIXED" -> base
      [] strategy = "LINEAR" -> base * n
      [] strategy = "FIBONACCI" -> base * fibonacci[n]
      [] strategy = "POLYNOMIAL" -> base * n ^ 2
      [] strategy = "EXPONENTIAL_JITTER" -> Jittered(Doubled(n, base), j)
      [] OTHER -> Doubled(n, base)

Capped_BeforeJitter(d, j) == Jittered(IF d > PacingMaxDelay THEN PacingMaxDelay ELSE d, j)

\* The jitter of every strategy but the adaptive one comes before the cap.
Capped(d, j) == IF Jittered(d, j) > PacingMaxDelay THEN PacingMaxDelay ELSE Jittered(d, j)

\* _calculate_delay; only a retry has one.
calculate_delay(n, j) ==
    IF strategy = "ADAPTIVE" THEN Capped(adaptive_delay(n), 0) ELSE Capped(Spread(n, j), j)

(* AdvancedRetryMetrics                                                    *)

Pushed(s, x) == IF Len(s) < Window THEN Append(s, x) ELSE Append(Tail(s), x)

\* record_outcome: of a call that returned or raised.
record_outcome(success) ==
    /\ stats' = IF success THEN [stats EXCEPT !.successful = @ + 1]
                ELSE [stats EXCEPT !.failed = @ + 1]
    /\ outcomes' = Pushed(outcomes, success)

\* record_attempt with the delay before it, none for the first.
record_attempt(d) ==
    /\ stats' = [stats EXCEPT !.attempts = @ + 1, !.retries = IF d > 0 THEN @ + 1 ELSE @]
    /\ delays' = IF d > 0 THEN Pushed(delays, d) ELSE delays

(* retry_async                                                             *)

PacingBegin(c) ==
    /\ pacingCall[c].pc \in {"idle", "late"} /\ seen.begun < PacingMaxCalls
    /\ pacingCall' = [pacingCall EXCEPT ![c] = [PacingIdle EXCEPT !.pc = "next"]]
    /\ seen' = [seen EXCEPT !.begun = @ + 1]
    /\ UNCHANGED <<strategy, base, stats, outcomes, delays>>

TimedOut_SleptTwice(x) == x.elapsed + 2 * x.slept > Timeout

\* The time since the call began contains its delays; they are added once more.
TimedOut(x) == x.elapsed + x.slept > Timeout

MayTry(c) == pacingCall[c].pc = "next" /\ pacingCall[c].attempt < PacingMaxAttempts /\ ~TimedOut(pacingCall[c])

FirstTry_Unrecorded(c) ==
    /\ MayTry(c) /\ pacingCall[c].attempt = 0
    /\ pacingCall' = [pacingCall EXCEPT ![c].pc = "running", ![c].attempt = 1]
    /\ seen' = [seen EXCEPT !.tries = @ + 1]
    /\ UNCHANGED <<strategy, base, stats, outcomes, delays>>

FirstTry(c) ==
    /\ MayTry(c) /\ pacingCall[c].attempt = 0
    /\ pacingCall' = [pacingCall EXCEPT ![c].pc = "running", ![c].attempt = 1]
    /\ record_attempt(0)
    /\ seen' = [seen EXCEPT !.tries = @ + 1]
    /\ UNCHANGED <<strategy, base, outcomes>>

\* A delay of zero is neither slept nor recorded; another one is computed before the sleep
\* and recorded after it, while the other coroutines go on.
Retry(c, j) ==
    LET d == calculate_delay(pacingCall[c].attempt + 1, j)
    IN  /\ MayTry(c) /\ pacingCall[c].attempt > 0
        /\ pacingCall' = [pacingCall EXCEPT ![c].pc = IF d > 0 THEN "asleep" ELSE "running",
                                            ![c].attempt = @ + 1, ![c].delay = d]
        /\ seen' = [seen EXCEPT !.tries = IF d > 0 THEN @ ELSE @ + 1]
        /\ UNCHANGED <<strategy, base, stats, outcomes, delays>>

Wake(c) ==
    /\ pacingCall[c].pc = "asleep"
    /\ pacingCall' = [pacingCall EXCEPT ![c].pc = "running", ![c].elapsed = @ + pacingCall[c].delay,
                                        ![c].slept = @ + pacingCall[c].delay, ![c].delay = 0]
    /\ record_attempt(pacingCall[c].delay)
    /\ seen' = [seen EXCEPT !.tries = @ + 1]
    /\ UNCHANGED <<strategy, base, outcomes>>

PacingSucceed(c) ==
    /\ pacingCall[c].pc = "running"
    /\ record_outcome(TRUE)
    /\ pacingCall' = [pacingCall EXCEPT ![c] = PacingIdle]
    /\ UNCHANGED <<strategy, base, delays, seen>>

\* A retryable failure before the last attempt is not an outcome.
PacingFailAttempt(c, retryable, t) ==
    /\ pacingCall[c].pc = "running"
    /\ IF retryable /\ pacingCall[c].attempt < PacingMaxAttempts
       THEN /\ pacingCall' = [pacingCall EXCEPT ![c].pc = "next", ![c].elapsed = @ + t]
            /\ UNCHANGED <<stats, outcomes>>
       ELSE record_outcome(FALSE) /\ pacingCall' = [pacingCall EXCEPT ![c] = PacingIdle]
    /\ UNCHANGED <<strategy, base, delays, seen>>

\* Out of time: reported as exhausted.
Break(c) ==
    /\ pacingCall[c].pc = "next" /\ TimedOut(pacingCall[c])
    /\ pacingCall' = [pacingCall EXCEPT ![c].pc = "late"]
    /\ record_outcome(FALSE)
    /\ UNCHANGED <<strategy, base, delays, seen>>

\* CancelledError is not an Exception: nothing is recorded.
Cancel(c) ==
    /\ pacingCall[c].pc \in {"asleep", "running"}
    /\ pacingCall' = [pacingCall EXCEPT ![c] = PacingIdle]
    /\ seen' = [seen EXCEPT !.cancelled = @ + 1]
    /\ UNCHANGED <<strategy, base, stats, outcomes, delays>>

PacingNext ==
    \E c \in PacingCallers :
        \/ PacingBegin(c) \/ PacingSucceed(c) \/ Break(c) \/ Cancel(c) \/ FirstTry(c) \/ Wake(c)
        \/ \E j \in {0, 1} : Retry(c, j)
        \/ \E retryable \in BOOLEAN, t \in {0, Duration} : PacingFailAttempt(c, retryable, t)

PacingSpec == PacingInit /\ [][PacingNext]_pacingVars

\* Whatever the strategy, the jitter and the recent past, no retry waits longer than
\* max_delay, and the average that later delays are drawn towards stays below it too.
WaitsAreCapped ==
    /\ \A i \in DOMAIN delays : delays[i] <= PacingMaxDelay
    /\ get_average_delay <= PacingMaxDelay

\* Delays count twice against total_timeout: a call may be given up early, but not before
\* half of its time is gone.
GivenUpAfterHalf == \A c \in PacingCallers : pacingCall[c].pc = "late" => 2 * pacingCall[c].elapsed > Timeout

\* What the metrics do not know of the calls and their tries is accounted for: a call they
\* have no outcome of was cancelled or is under way, and a try they did not count was one
\* without a delay, of which there is none when base_delay is positive.
UncountedNeedsZero ==
    /\ base > 0 => stats.attempts = seen.tries
    /\ seen.begun = stats.successful + stats.failed + seen.cancelled
          + Cardinality({c \in PacingCallers : pacingCall[c].pc \in {"next", "asleep", "running"}})
=============================================================================
