---------------------------- MODULE BreakerCalls ----------------------------
(***************************************************************************)
(* Callers of functions wrapped by CircuitBreaker.decorate and             *)
(* decorate_async (resilience/circuit_breaker.py).  A wrapper takes the    *)
(* breaker's lock three times: in allow_request, again to count the        *)
(* request in, and in record_success or record_failure when the call       *)
(* returns.  Between these blocks every other caller may run.              *)
(***************************************************************************)
EXTENDS CircuitBreaker, FiniteSets

CONSTANTS
    Callers,    \* threads or tasks that call the decorated function
    Async       \* TRUE for decorate_async, whose await can be cancelled

ASSUME CallersAssumption ==
    /\ IsFiniteSet(Callers) /\ Callers # {}
    /\ Async \in BOOLEAN

VARIABLES
    pc,         \* where each caller is in the wrapper
    healthy,    \* environment: TRUE when the wrapped dependency only succeeds
    leaked      \* history: slots whose request was cancelled since the last reset

vars == <<breakerVars, pc, healthy, leaked>>

Running  == {c \in Callers : pc[c] = "running"}
Admitted == {c \in Callers : pc[c] = "admitted"}

TypeOK ==
    /\ BreakerTypeOK
    /\ pc \in [Callers -> {"idle", "admitted", "running"}]
    /\ healthy \in BOOLEAN
    /\ leaked \in Nat

Init ==
    /\ BreakerInit
    /\ pc = [c \in Callers |-> "idle"]
    /\ healthy \in BOOLEAN
    /\ leaked = 0

Goto(c, from, to) ==
    /\ pc[c] = from
    /\ pc' = [pc EXCEPT ![c] = to]

-----------------------------------------------------------------------------
\* allow_request returned True; the caller is not counted in yet.
Admit(c) ==
    /\ Granted
    /\ AllowRequest
    /\ Goto(c, "idle", "admitted")
    /\ UNCHANGED <<healthy, leaked>>

\* allow_request returned False; the wrapper raises RuntimeError.
Reject(c) ==
    /\ pc[c] = "idle"
    /\ ~Granted
    /\ AllowRequest
    /\ UNCHANGED <<pc, healthy, leaked>>

\* The second lock block of the wrapper: _concurrent_requests += 1.
Enter(c) ==
    /\ Goto(c, "admitted", "running")
    /\ concurrent' = concurrent + 1
    /\ UNCHANGED <<state, failure_count, success_count, openedAge, failureAge>>
    /\ UNCHANGED <<healthy, leaked>>

\* The wrapped call returns.
Succeed(c) ==
    /\ Goto(c, "running", "idle")
    /\ RecordSuccess
    /\ UNCHANGED <<healthy, leaked>>

\* The wrapped call raises an exception that counts.
Fail(c) ==
    /\ ~healthy
    /\ Goto(c, "running", "idle")
    /\ RecordFailure
    /\ UNCHANGED <<healthy, leaked>>

\* The wrapped call raises an exception that the classifier ignores.
ClientError(c) ==
    /\ Goto(c, "running", "idle")
    /\ RecordIgnoredFailure
    /\ UNCHANGED <<healthy, leaked>>

\* The task is cancelled at the await of decorate_async.  CancelledError is
\* not an Exception: neither record_failure nor record_success is called.
Cancel(c) ==
    /\ Async
    /\ Goto(c, "running", "idle")
    /\ leaked' = leaked + 1
    /\ UNCHANGED <<breakerVars, healthy>>

Reset ==
    /\ ResetBreaker
    /\ leaked' = 0
    /\ UNCHANGED <<pc, healthy>>

Tick ==
    /\ PassTime
    /\ UNCHANGED <<pc, healthy, leaked>>

\* Environment: the dependency breaks or is repaired.
DependencyChanges ==
    /\ healthy' = ~healthy
    /\ UNCHANGED <<breakerVars, pc, leaked>>

Returns(c) == Succeed(c) \/ Fail(c) \/ ClientError(c)

Next ==
    \/ \E c \in Callers :
          Admit(c) \/ Reject(c) \/ Enter(c) \/ Returns(c) \/ Cancel(c)
    \/ Reset
    \/ Tick
    \/ DependencyChanges

Spec == Init /\ [][Next]_vars

\* Callers keep calling and their calls return, the clock runs, and a caller
\* does not send invalid requests only.
Fairness ==
    /\ \A c \in Callers :
          /\ WF_vars(Admit(c) \/ Reject(c))
          /\ WF_vars(Enter(c))
          /\ WF_vars(Returns(c))
          /\ SF_vars(Succeed(c))
    /\ WF_vars(Tick)

FairSpec == Spec /\ Fairness

-----------------------------------------------------------------------------
(***************************************************************************)
(* allow_request tests the limit in one lock block and the wrapper takes   *)
(* the slot in the next, so callers that tested together overshoot.  The   *)
(* overshoot is bounded: the counter and the callers on their way to it    *)
(* together stay below the limit plus the number of callers.               *)
(***************************************************************************)
OvershootBounded ==
    concurrent + Cardinality(Admitted) <= MaxConcurrent + Cardinality(Callers) - 1

(***************************************************************************)
(* The slot counter never exceeds the calls in flight plus the slots lost  *)
(* to cancellation: no path through the wrappers (success, counted or      *)
(* ignored failure, reset under load) loses a slot.                        *)
(***************************************************************************)
SlotsAccountedFor == concurrent <= Cardinality(Running) + leaked

(***************************************************************************)
(* While the breaker stays open no caller is newly admitted: only callers  *)
(* that allow_request had let through before still reach the dependency.   *)
(***************************************************************************)
OpenAdmitsNobody ==
    [][state = "OPEN" /\ state' = "OPEN" => Admitted' \subseteq Admitted]_vars

(***************************************************************************)
(* An outage is not extended: failures of calls that were in flight when   *)
(* the breaker opened do not restart the recovery timeout.                 *)
(***************************************************************************)
OutageNotExtended ==
    [][state = "OPEN" /\ state' = "OPEN" => openedAge' >= openedAge]_vars

(***************************************************************************)
(* Once the dependency is repaired for good the breaker ends up closed for *)
(* good, whatever it had seen before, as long as cancellations have left   *)
(* it one of its slots.                                                    *)
(***************************************************************************)
ClosesAfterRepair ==
    <>[](healthy /\ leaked < MaxConcurrent) => <>[](state = "CLOSED")

(***************************************************************************)
(* _can_make_request: "Check if we can make a request based on concurrent  *)
(* limits".  Requests are turned away for the limit only while there are   *)
(* requests in flight.                                                     *)
(***************************************************************************)
IdleBreakerHasRoom ==
    Running = {} /\ MaxConcurrent > 0 => concurrent < MaxConcurrent
=============================================================================
