---------------------------- MODULE RetriedCalls ----------------------------
(***************************************************************************)
(* Operations that retry behind a circuit breaker:                         *)
(*   - AdvancedRetryManager.retry_sync / retry_async                       *)
(*     (resilience/advanced_retry.py), and                                 *)
(*   - async_call_with_resilience (resilience/outbound.py), outbound = TRUE*)
(* Both ask allow_request once, before the first attempt, report every     *)
(* failed attempt to the breaker, and never ask again between attempts.    *)
(* Neither counts its requests in, so the breaker's slot counter stays 0.  *)
(***************************************************************************)
EXTENDS CircuitBreaker, FiniteSets

CONSTANTS
    Callers,        \* operations running side by side on one breaker
    MaxAttempts     \* config.max_attempts

ASSUME RetryConfig ==
    /\ IsFiniteSet(Callers)
    /\ MaxAttempts \in Nat \ {0}

VARIABLES
    outbound,       \* TRUE when the breaker belongs to outbound.py; never changes
    pc,             \* "idle", "calling" (inside an attempt) or "sleeping" (backoff)
    attempt,        \* the attempt each operation is in, or sleeps before
    healthy,        \* environment: TRUE when the dependency works
    callsWhileOpen  \* history: attempts each operation started since the breaker opened

vars == <<breakerVars, outbound, pc, attempt, healthy, callsWhileOpen>>

TypeOK ==
    /\ BreakerTypeOK
    /\ outbound \in BOOLEAN
    /\ pc \in [Callers -> {"idle", "calling", "sleeping"}]
    /\ attempt \in [Callers -> 1 .. MaxAttempts]
    /\ healthy \in BOOLEAN
    /\ callsWhileOpen \in [Callers -> Nat]

Init ==
    /\ BreakerInit
    /\ outbound \in BOOLEAN
    /\ pc = [c \in Callers |-> "idle"]
    /\ attempt = [c \in Callers |-> 1]
    /\ healthy \in BOOLEAN
    /\ callsWhileOpen = [c \in Callers |-> 0]

\* The operation ends: returns its result or raises.
Finish(c) ==
    /\ pc' = [pc EXCEPT ![c] = "idle"]
    /\ attempt' = [attempt EXCEPT ![c] = 1]

\* The history covers one uninterrupted stay in OPEN: started is the set of the
\* operations that start an attempt in this step.
CountStarted(started) ==
    callsWhileOpen' = [c \in Callers |->
        IF ~(state = "OPEN" /\ state' = "OPEN") THEN 0
        ELSE IF c \in started THEN callsWhileOpen[c] + 1 ELSE callsWhileOpen[c]]

-----------------------------------------------------------------------------
\* allow_request lets the operation through; its first attempt starts.
Begin(c) ==
    /\ pc[c] = "idle"
    /\ Granted
    /\ AllowRequest
    /\ pc' = [pc EXCEPT ![c] = "calling"]
    /\ CountStarted({c})
    /\ UNCHANGED <<attempt, healthy, outbound>>

\* allow_request refuses: RuntimeError without an attempt.
Refused(c) ==
    /\ pc[c] = "idle"
    /\ ~Granted
    /\ AllowRequest
    /\ CountStarted({})
    /\ UNCHANGED <<pc, attempt, healthy, outbound>>

\* The attempt returns a value.  In outbound.py the value is returned from
\* inside the try block, so the else branch that calls record_success is
\* never reached.
AttemptSucceeds(c) ==
    /\ pc[c] = "calling"
    /\ IF outbound THEN UNCHANGED breakerVars ELSE RecordSuccess
    /\ Finish(c)
    /\ CountStarted({})
    /\ UNCHANGED <<healthy, outbound>>

\* Mutant: the last attempt is retried once more.
GivesUpAfter_OffByOne(a) == a > MaxAttempts

\* attempt >= config.max_attempts, tenacity's stop_after_attempt.
GivesUpAfter(a) == a >= MaxAttempts

\* The attempt raises a retryable error: counted, then backoff unless it was
\* the last one.  tenacity (outbound.py) may also stop on its total delay.
AttemptFails(c) ==
    /\ pc[c] = "calling"
    /\ ~healthy
    /\ RecordFailure
    /\ \/ /\ ~GivesUpAfter(attempt[c])
          /\ pc' = [pc EXCEPT ![c] = "sleeping"]
          /\ attempt' = [attempt EXCEPT ![c] = @ + 1]
       \/ /\ GivesUpAfter(attempt[c]) \/ outbound
          /\ Finish(c)
    /\ CountStarted({})
    /\ UNCHANGED <<healthy, outbound>>

\* The attempt raises an error that is not retried but trips the breaker.
AttemptFailsForGood(c) ==
    /\ pc[c] = "calling"
    /\ ~healthy
    /\ RecordFailure
    /\ Finish(c)
    /\ CountStarted({})
    /\ UNCHANGED <<healthy, outbound>>

\* The caller's own mistake (ValueError...): never retried.  retry_sync hands
\* the exception to the classifier, outbound.py calls record_failure() bare.
CallerError(c) ==
    /\ pc[c] = "calling"
    /\ IF outbound THEN RecordFailure ELSE RecordIgnoredFailure
    /\ Finish(c)
    /\ CountStarted({})
    /\ UNCHANGED <<healthy, outbound>>

\* The backoff ends and the next attempt starts, whatever the breaker says.
Resume(c) ==
    /\ pc[c] = "sleeping"
    /\ pc' = [pc EXCEPT ![c] = "calling"]
    /\ UNCHANGED breakerVars
    /\ CountStarted({c})
    /\ UNCHANGED <<attempt, healthy, outbound>>

\* advanced_retry.py: total_timeout is exceeded at the top of the loop.
TimesOut(c) ==
    /\ ~outbound
    /\ pc[c] = "sleeping"
    /\ Finish(c)
    /\ UNCHANGED breakerVars
    /\ CountStarted({})
    /\ UNCHANGED <<healthy, outbound>>

\* The task is cancelled in an attempt or in its backoff.  CancelledError is
\* not an Exception: nothing is recorded.
Cancelled(c) ==
    /\ pc[c] # "idle"
    /\ Finish(c)
    /\ UNCHANGED breakerVars
    /\ CountStarted({})
    /\ UNCHANGED <<healthy, outbound>>

Tick ==
    /\ PassTime
    /\ UNCHANGED <<pc, attempt, healthy, outbound, callsWhileOpen>>

\* Environment: the dependency breaks or is repaired.
DependencyChanges ==
    /\ healthy' = ~healthy
    /\ UNCHANGED <<breakerVars, pc, attempt, outbound, callsWhileOpen>>

AttemptEnds(c) ==
    \/ AttemptSucceeds(c)
    \/ AttemptFails(c)
    \/ AttemptFailsForGood(c)
    \/ CallerError(c)

Next ==
    \/ \E c \in Callers :
          \/ Begin(c) \/ Refused(c)
          \/ AttemptEnds(c)
          \/ Resume(c) \/ TimesOut(c) \/ Cancelled(c)
    \/ Tick
    \/ DependencyChanges

Spec == Init /\ [][Next]_vars

\* Operations keep being started and keep moving, the clock runs, and not
\* every request of an operation is invalid.
FairSpec ==
    /\ Spec
    /\ \A c \in Callers :
          /\ WF_vars(Begin(c) \/ Refused(c))
          /\ WF_vars(AttemptEnds(c))
          /\ SF_vars(AttemptSucceeds(c))
          /\ WF_vars(Resume(c) \/ TimesOut(c))
    /\ WF_vars(Tick)

-----------------------------------------------------------------------------
\* Attempts an operation may still start; one that sleeps has the next to start.
AttemptsLeft(c) ==
    CASE pc[c] = "idle"     -> 0
      [] pc[c] = "calling"  -> MaxAttempts - attempt[c]
      [] pc[c] = "sleeping" -> MaxAttempts - attempt[c] + 1

(***************************************************************************)
(* An open breaker does not stop retries that are already under way; it    *)
(* bounds them.  During one stay in OPEN every operation that was in       *)
(* flight starts at most the attempts it had left, and together the        *)
(* dependency sees at most MaxAttempts - 1 more calls per operation.       *)
(***************************************************************************)
OpenTrafficBounded ==
    state = "OPEN" =>
        \A c \in Callers : callsWhileOpen[c] + AttemptsLeft(c) <= MaxAttempts - 1

(***************************************************************************)
(* Once the dependency is repaired for good the breaker of a retry manager *)
(* ends up closed for good: retry_sync and retry_async report successes,   *)
(* so probes are counted.                                                  *)
(***************************************************************************)
ClosesAfterRepair == <>[](healthy /\ ~outbound) => <>[](state = "CLOSED")

(***************************************************************************)
(* outbound.py:71-72 intends a successful call to be recorded ("success    *)
(* path trivial"), so that a breaker in its half-open trial does not wait  *)
(* for ever for probes that do succeed.                                    *)
(***************************************************************************)
TrialEnds == outbound /\ state = "HALF_OPEN" ~> state # "HALF_OPEN"
=============================================================================
