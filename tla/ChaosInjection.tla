-------------------------- MODULE ChaosInjection ---------------------------
(***************************************************************************)
(* ChaosInjector, chaos_context and the circuit breaker trial of           *)
(* ResilienceTestSuite (resilience/chaos_testing.py). A trial              *)
(* makes requests one after the other; two trials share the injector and   *)
(* its default target. The injection is a task of its own on the event     *)
(* loop, which runs only while the operation is suspended.                 *)
(***************************************************************************)
EXTENDS Naturals, FiniteSets

CONSTANTS
    Trials,         \* coroutines running a trial at the same time
    Threshold,      \* expected_failures, the breaker's failure_threshold
    RecoveryRequests \* requests of the recovery loop (3 in the code)

VARIABLES
    pc,             \* trial -> "loop", "suspended", "leaving", "recovery", "done"
    failing,        \* trial -> the operation in progress ended with its own error
    task,           \* trial -> its injection: "none", "created", "sleeping", "ended"
    active,         \* the default target is a key of active_chaos
    overlapped,     \* an injection started while another was sleeping
    breaker,        \* trial -> state and counts of its circuit breaker
    results         \* trial -> the counters it reports

vars == <<pc, failing, task, active, overlapped, breaker, results>>

Requests == Threshold + 2
HalfOpenSuccesses == 2

TypeOK ==
    /\ pc \in [Trials -> {"loop", "suspended", "leaving", "recovery", "done"}]
    /\ failing \in [Trials -> BOOLEAN]
    /\ task \in [Trials -> {"none", "created", "sleeping", "ended"}]
    /\ active \in BOOLEAN /\ overlapped \in BOOLEAN
    /\ breaker \in [Trials -> [state : {"closed", "open", "half_open"},
                               failures : 0 .. Threshold, successes : 0 .. HalfOpenSuccesses]]
    /\ results \in [Trials -> [total : 0 .. Requests + RecoveryRequests,
                               exceptions : 0 .. Requests + RecoveryRequests,
                               opened : BOOLEAN, recovered : BOOLEAN]]

Init ==
    /\ pc = [t \in Trials |-> "loop"]
    /\ failing = [t \in Trials |-> FALSE]
    /\ task = [t \in Trials |-> "none"]
    /\ active = FALSE /\ overlapped = FALSE
    /\ breaker = [t \in Trials |-> [state |-> "closed", failures |-> 0, successes |-> 0]]
    /\ results = [t \in Trials |-> [total |-> 0, exceptions |-> 0, opened |-> FALSE,
                                    recovered |-> FALSE]]

-----------------------------------------------------------------------------
\* CircuitBreaker.record_failure and record_success as the trial uses them.
RecordFailure(b) ==
    IF b.state = "half_open" THEN [state |-> "open", failures |-> 1, successes |-> 0]
    ELSE [b EXCEPT !.failures = @ + 1,
                   !.state = IF b.failures + 1 >= Threshold THEN "open" ELSE @]

RecordSuccess(b) ==
    IF b.state # "half_open" THEN b
    ELSE IF b.successes + 1 >= HalfOpenSuccesses
         THEN [state |-> "closed", failures |-> 0, successes |-> 0]
         ELSE [b EXCEPT !.successes = @ + 1]

\* The except and else branches of a request.
Recorded(t, fails) ==
    /\ breaker' = [breaker EXCEPT ![t] = IF fails THEN RecordFailure(@) ELSE RecordSuccess(@)]
    /\ results' = [results EXCEPT ![t].exceptions = IF fails THEN @ + 1 ELSE @]

\* allow_request: an open breaker whose timeout has passed lets the request probe.
Allowed(b) ==
    IF b.state = "open" THEN [state |-> "half_open", failures |-> 0, successes |-> 0] ELSE b

\* Where a trial goes on after a request of the first loop.
Back(t) == IF results[t].total >= Requests THEN "recovery" ELSE "loop"

\* allow_request refuses: the breaker is open and its timeout has not passed.
Rejected(t) ==
    /\ pc[t] = "loop" /\ breaker[t].state = "open"
    /\ results' = [results EXCEPT ![t].total = @ + 1, ![t].opened = TRUE]
    /\ pc' = [pc EXCEPT ![t] = IF results[t].total + 1 >= Requests THEN "recovery" ELSE "loop"]
    /\ UNCHANGED <<failing, task, active, overlapped, breaker>>

\* chaos_context creates the task and the operation runs up to its first suspension.
Enter(t) ==
    /\ pc[t] = "loop"
    /\ breaker' = [breaker EXCEPT ![t] = Allowed(@)]
    /\ results' = [results EXCEPT ![t].total = @ + 1]
    /\ task' = [task EXCEPT ![t] = "created"]
    /\ pc' = [pc EXCEPT ![t] = "suspended"]
    /\ UNCHANGED <<failing, active, overlapped>>

Injected_Late(t) ==
    /\ task' = [task EXCEPT ![t] = "sleeping"]
    /\ overlapped' = (overlapped \/ \E u \in Trials : task[u] = "sleeping")
    /\ UNCHANGED active

\* inject_chaos of a delaying kind, up to its sleep.
Injected(t) ==
    /\ task' = [task EXCEPT ![t] = "sleeping"]
    /\ active' = TRUE
    /\ overlapped' = (overlapped \/ \E u \in Trials : task[u] = "sleeping")

\* inject_chaos of a failing kind: it raises at once, and its finally clause
\* takes the target off, whoever put it there.
Raised(t) ==
    /\ task' = [task EXCEPT ![t] = "ended"]
    /\ active' = FALSE
    /\ overlapped' = (overlapped \/ \E u \in Trials : task[u] = "sleeping")

\* Not enabled, or the probability spared this request.
Spared(t) ==
    /\ task' = [task EXCEPT ![t] = "ended"]
    /\ UNCHANGED <<active, overlapped>>

inject_chaos(t) ==
    /\ task[t] = "created" /\ pc[t] = "suspended"
    /\ Injected(t) \/ Raised(t) \/ Spared(t)
    /\ UNCHANGED <<pc, failing, breaker, results>>

\* The sleep is over: the finally clause of inject_chaos.
SleepEnds(t) ==
    /\ task[t] = "sleeping" /\ pc[t] = "suspended"
    /\ task' = [task EXCEPT ![t] = "ended"]
    /\ active' = FALSE
    /\ UNCHANGED <<pc, failing, overlapped, breaker, results>>

\* The injection has ended: its exception, if any, is never retrieved.
ExitDone(t, fails) == Recorded(t, fails)

\* The operation ends, with an error of its own or without.
OperationEnds(t, fails) ==
    /\ pc[t] = "suspended"
    /\ IF task[t] = "ended"
       THEN /\ ExitDone(t, fails)
            /\ pc' = [pc EXCEPT ![t] = Back(t)]
            /\ task' = [task EXCEPT ![t] = "none"]
            /\ UNCHANGED failing
       ELSE /\ pc' = [pc EXCEPT ![t] = "leaving"]        \* chaos_task.cancel()
            /\ failing' = [failing EXCEPT ![t] = fails]
            /\ UNCHANGED <<task, breaker, results>>
    /\ UNCHANGED <<active, overlapped>>

CleanUp_OnError(t) == UNCHANGED active

\* The finally clause of a cancelled injection that had begun.
CleanUp(t) == active' = (active /\ task[t] # "sleeping")

\* await chaos_task: the cancellation is delivered and swallowed.
Leave(t) ==
    /\ pc[t] = "leaving"
    /\ CleanUp(t)
    /\ Recorded(t, failing[t])
    /\ task' = [task EXCEPT ![t] = "none"]
    /\ failing' = [failing EXCEPT ![t] = FALSE]
    /\ pc' = [pc EXCEPT ![t] = Back(t)]
    /\ UNCHANGED <<overlapped>>

RecoveryEnds(t) == IF results[t].total + 1 >= Requests + RecoveryRequests THEN "done" ELSE "recovery"

\* The second loop, without chaos: the first request finds the timeout passed.
Recovery(t, fails) ==
    /\ pc[t] = "recovery"
    /\ LET after == IF fails THEN RecordFailure(Allowed(breaker[t]))
                    ELSE RecordSuccess(Allowed(breaker[t]))
       IN  /\ breaker' = [breaker EXCEPT ![t] = after]
           /\ results' = [results EXCEPT ![t].total = @ + 1,
                             ![t].exceptions = IF fails THEN @ + 1 ELSE @,
                             ![t].recovered = @ \/ (~fails /\ after.state = "closed")]
    /\ pc' = [pc EXCEPT ![t] = RecoveryEnds(t)]
    /\ UNCHANGED <<failing, task, active, overlapped>>

\* A failed probe has started the timeout again.
RecoveryRejected(t) ==
    /\ pc[t] = "recovery" /\ breaker[t].state = "open" /\ results[t].total > Requests
    /\ results' = [results EXCEPT ![t].total = @ + 1]
    /\ pc' = [pc EXCEPT ![t] = RecoveryEnds(t)]
    /\ UNCHANGED <<failing, task, active, overlapped, breaker>>

Next ==
    \E t \in Trials :
        \/ Rejected(t) \/ Enter(t) \/ inject_chaos(t) \/ SleepEnds(t) \/ Leave(t)
        \/ RecoveryRejected(t)
        \/ \E fails \in BOOLEAN : OperationEnds(t, fails) \/ Recovery(t, fails)

Spec == Init /\ [][Next]_vars

-----------------------------------------------------------------------------
(* is_chaos_active answers no during an injection only if a second one on  *)
(* the same target began meanwhile: whichever ends first removes the entry *)
(* of the other.                                                           *)
HiddenNeedsOverlap ==
    (\E t \in Trials : task[t] = "sleeping") /\ ~active => overlapped

(* When every context was left nothing is marked active, whatever was      *)
(* cancelled and wherever the cancellation found it.                       *)
NothingLeftActive == (\A t \in Trials : task[t] # "sleeping") => ~active
=============================================================================
