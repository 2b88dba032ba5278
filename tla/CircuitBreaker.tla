--------------------------- MODULE CircuitBreaker ---------------------------
(***************************************************************************)
(* The breaker object of marty_common/resilience/circuit_breaker.py.       *)
(* Every method body runs under one threading.Lock, so each is one atomic  *)
(* operator here; the modules that call the breaker interleave them.       *)
(*                                                                         *)
(* Time: the code stores the instants _opened_at and _last_failure_at and  *)
(* only ever compares their ages with a timeout.  The model keeps the two  *)
(* ages, each saturating one step past the last comparison that can see    *)
(* it, so behaviours are unbounded while the state space stays finite.     *)
(* The total_* and duration counters, read only by stats(), are left out.  *)
(***************************************************************************)
EXTENDS Integers, TLAPS

CONSTANTS
    FailureThreshold,           \* config.failure_threshold
    RecoveryTimeout,            \* config.recovery_timeout
    HalfOpenSuccessThreshold,   \* config.half_open_success_threshold
    FailureResetTimeout,        \* config.failure_reset_timeout
    MaxConcurrent               \* config.max_concurrent_requests

ASSUME BreakerConfig ==
    /\ FailureThreshold \in Nat \ {0}
    /\ HalfOpenSuccessThreshold \in Nat \ {0}
    /\ RecoveryTimeout \in Nat
    /\ FailureResetTimeout \in Nat
    /\ MaxConcurrent \in Nat

VARIABLES
    state,          \* _state
    failure_count,  \* _failure_count
    success_count,  \* _success_count
    openedAge,      \* now - _opened_at, saturating at RecoveryTimeout
    failureAge,     \* now - _last_failure_at, saturating past FailureResetTimeout
    concurrent      \* _concurrent_requests

breakerVars ==
    <<state, failure_count, success_count, openedAge, failureAge, concurrent>>

States == {"CLOSED", "OPEN", "HALF_OPEN"}

\* The instants start at 0.0, which is older than any timeout.
OpenedLongAgo == RecoveryTimeout
FailedLongAgo == FailureResetTimeout + 1

BreakerTypeOK ==
    /\ state \in States
    /\ failure_count \in Nat
    /\ success_count \in Nat
    /\ openedAge \in 0 .. OpenedLongAgo
    /\ failureAge \in 0 .. FailedLongAgo
    /\ concurrent \in Nat

BreakerInit ==
    /\ state = "CLOSED"
    /\ failure_count = 0
    /\ success_count = 0
    /\ openedAge = OpenedLongAgo
    /\ failureAge = FailedLongAgo
    /\ concurrent = 0

-----------------------------------------------------------------------------
(* allow_request                                                           *)

RecoveryDue == state = "OPEN" /\ openedAge >= RecoveryTimeout

\* Mutant: the limit is compared with > instead of >=.
CanMakeRequest_OffByOne == concurrent <= MaxConcurrent

\* _can_make_request
CanMakeRequest == concurrent < MaxConcurrent

\* Mutant: an open breaker no longer waits for the recovery timeout.
Granted_IgnoresOpen == CanMakeRequest

\* Mutant: a half-open breaker lets only its first probe through.
Granted_OneProbe == (state = "CLOSED" \/ RecoveryDue) /\ CanMakeRequest

\* What allow_request returns.
Granted == (state # "OPEN" \/ RecoveryDue) /\ CanMakeRequest

\* What it changes, whether or not it then grants the request: an open
\* breaker whose timeout has passed goes half-open, and a closed one forgets
\* failures older than the reset window.
AllowRequest ==
    /\ \/ /\ RecoveryDue
          /\ state' = "HALF_OPEN"
          /\ failure_count' = 0
          /\ success_count' = 0
       \/ /\ ~RecoveryDue
          /\ failure_count' = IF state = "CLOSED" /\ failureAge > FailureResetTimeout
                              THEN 0 ELSE failure_count
          /\ UNCHANGED <<state, success_count>>
    /\ UNCHANGED <<openedAge, failureAge, concurrent>>

-----------------------------------------------------------------------------
(* record_success, record_failure                                          *)

\* Mutant: the clamp max(0, ...) of the slot counter is forgotten.
ReleaseSlot_NoClamp == concurrent' = concurrent - 1

\* _concurrent_requests = max(0, _concurrent_requests - 1)
ReleaseSlot == concurrent' = IF concurrent > 0 THEN concurrent - 1 ELSE 0

\* Mutant: closing keeps the counters of the half-open period.
RecordSuccess_KeepsCounters ==
    /\ ReleaseSlot
    /\ IF state = "HALF_OPEN"
       THEN /\ success_count' = success_count + 1
            /\ state' = IF success_count' >= HalfOpenSuccessThreshold
                        THEN "CLOSED" ELSE state
       ELSE UNCHANGED <<state, success_count>>
    /\ UNCHANGED <<failure_count, openedAge, failureAge>>

RecordSuccess ==
    /\ ReleaseSlot
    /\ UNCHANGED <<openedAge, failureAge>>
    /\ \/ /\ state = "HALF_OPEN"
          /\ success_count + 1 >= HalfOpenSuccessThreshold
          /\ state' = "CLOSED"
          /\ failure_count' = 0
          /\ success_count' = 0
       \/ /\ state = "HALF_OPEN"
          /\ success_count + 1 < HalfOpenSuccessThreshold
          /\ success_count' = success_count + 1
          /\ UNCHANGED <<state, failure_count>>
       \/ /\ state # "HALF_OPEN"
          /\ UNCHANGED <<state, failure_count, success_count>>

\* Mutant: a failure that arrives while the breaker is open restarts the
\* recovery timeout.
RecordFailure_ExtendsOutage ==
    /\ ReleaseSlot
    /\ failureAge' = 0
    /\ failure_count' = IF state = "HALF_OPEN" THEN 1 ELSE failure_count + 1
    /\ success_count' = 0
    /\ IF state # "CLOSED" \/ failure_count + 1 >= FailureThreshold
       THEN state' = "OPEN" /\ openedAge' = 0
       ELSE UNCHANGED <<state, openedAge>>

\* record_failure with no exception, or with one that trips the breaker.
RecordFailure ==
    /\ ReleaseSlot
    /\ failureAge' = 0
    /\ \/ /\ state = "HALF_OPEN"
          /\ state' = "OPEN"
          /\ openedAge' = 0
          /\ failure_count' = 1
          /\ success_count' = 0
       \/ /\ state = "CLOSED"
          /\ failure_count' = failure_count + 1
          /\ IF failure_count + 1 >= FailureThreshold
             THEN state' = "OPEN" /\ openedAge' = 0
             ELSE UNCHANGED <<state, openedAge>>
          /\ UNCHANGED success_count
       \/ /\ state = "OPEN"
          /\ UNCHANGED <<state, failure_count, success_count, openedAge>>

\* Mutant: the early return comes before the slot is released.
RecordIgnoredFailure_KeepsSlot == UNCHANGED breakerVars

\* record_failure with an exception the classifier does not count
\* (ValidationError, UnauthorizedError, ValueError): only the slot is released.
RecordIgnoredFailure ==
    /\ ReleaseSlot
    /\ UNCHANGED <<state, failure_count, success_count, openedAge, failureAge>>

-----------------------------------------------------------------------------
\* reset: everything back to the constructor's values, the slot counter too,
\* although requests may still be in flight.
ResetBreaker ==
    /\ state' = "CLOSED"
    /\ failure_count' = 0
    /\ success_count' = 0
    /\ openedAge' = OpenedLongAgo
    /\ failureAge' = FailedLongAgo
    /\ concurrent' = 0

\* One unit of time.time() passes.
PassTime ==
    /\ openedAge' = IF openedAge < OpenedLongAgo THEN openedAge + 1 ELSE openedAge
    /\ failureAge' = IF failureAge < FailedLongAgo THEN failureAge + 1 ELSE failureAge
    /\ UNCHANGED <<state, failure_count, success_count, concurrent>>

-----------------------------------------------------------------------------
(***************************************************************************)
(* The counters agree with the state whoever calls in whatever order:      *)
(* a closed breaker is below its threshold and has no trial successes, a   *)
(* half-open one has no failures and is short of closing, an open one has  *)
(* been opened by a failure.  Late results of requests admitted in an      *)
(* earlier state, and reset() under load, are what could break it.         *)
(***************************************************************************)
CountersMatchState ==
    /\ state = "CLOSED" =>
          failure_count < FailureThreshold /\ success_count = 0
    /\ state = "HALF_OPEN" =>
          failure_count = 0 /\ success_count < HalfOpenSuccessThreshold
    /\ state = "OPEN" =>
          failure_count \in 1 .. FailureThreshold /\ success_count = 0

-----------------------------------------------------------------------------
(***************************************************************************)
(* What each method of the breaker preserves, for every configuration.     *)
(* The lemmas speak of one method call, so every module that calls the     *)
(* breaker can cite them whatever its own callers do.                      *)
(***************************************************************************)
BreakerInv == BreakerTypeOK /\ CountersMatchState

\* The constructor's state satisfies the invariant.
LEMMA InitKeepsBreakerInv == BreakerInit => BreakerInv
  BY BreakerConfig
  DEF BreakerInit, BreakerInv, BreakerTypeOK, CountersMatchState, States,
      OpenedLongAgo, FailedLongAgo

\* allow_request preserves the invariant, granted or not.
LEMMA AllowKeepsBreakerInv == BreakerInv /\ AllowRequest => BreakerInv'
  BY BreakerConfig
  DEF BreakerInv, BreakerTypeOK, CountersMatchState, States, AllowRequest,
      RecoveryDue, OpenedLongAgo, FailedLongAgo

\* record_success preserves the invariant in every state, so a late success of
\* a request admitted in an earlier state does no harm.
LEMMA SuccessKeepsBreakerInv == BreakerInv /\ RecordSuccess => BreakerInv'
  BY BreakerConfig
  DEF BreakerInv, BreakerTypeOK, CountersMatchState, States, RecordSuccess,
      ReleaseSlot, OpenedLongAgo, FailedLongAgo

\* record_failure preserves it in every state, also when the exception counts
\* after the breaker has already opened.
LEMMA FailureKeepsBreakerInv == BreakerInv /\ RecordFailure => BreakerInv'
  <1> SUFFICES ASSUME BreakerInv, RecordFailure PROVE BreakerInv'
    OBVIOUS
  <1> USE BreakerConfig
      DEF BreakerInv, BreakerTypeOK, CountersMatchState, States,
          RecordFailure, ReleaseSlot, OpenedLongAgo, FailedLongAgo
  <1>1. CASE state = "HALF_OPEN"  BY <1>1
  <1>2. CASE state = "CLOSED"     BY <1>2
  <1>3. CASE state = "OPEN"       BY <1>3
  <1> QED BY <1>1, <1>2, <1>3

\* An exception the classifier ignores releases the slot and changes nothing else.
LEMMA IgnoredKeepsBreakerInv == BreakerInv /\ RecordIgnoredFailure => BreakerInv'
  BY BreakerConfig
  DEF BreakerInv, BreakerTypeOK, CountersMatchState, RecordIgnoredFailure,
      ReleaseSlot

\* reset preserves the invariant under load.
LEMMA ResetKeepsBreakerInv == BreakerInv /\ ResetBreaker => BreakerInv'
  BY BreakerConfig
  DEF BreakerInv, BreakerTypeOK, CountersMatchState, States, ResetBreaker,
      OpenedLongAgo, FailedLongAgo

\* Time alone changes no counter and no state.
LEMMA TimeKeepsBreakerInv == BreakerInv /\ PassTime => BreakerInv'
  BY BreakerConfig
  DEF BreakerInv, BreakerTypeOK, CountersMatchState, States, PassTime,
      OpenedLongAgo, FailedLongAgo
=============================================================================
