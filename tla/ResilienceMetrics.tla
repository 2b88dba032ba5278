-------------------------- MODULE ResilienceMetrics -------------------------
(***************************************************************************)
(* marty_common/resilience/metrics.py: ResilienceMetrics on top of a       *)
(* MetricsCollector.  Each method of the collector holds its lock, but one *)
(* record_* of ResilienceMetrics is several of them, so recorders on       *)
(* different threads interleave with each other and with reset_metrics.    *)
(*                                                                         *)
(* A record_* is a script of updates <<operation, metric>>.  There is one  *)
(* circuit, one operation, one feature and one service, so that a metric   *)
(* has one labelled key; the registered key has no labels.                 *)
(***************************************************************************)
EXTENDS Integers, Sequences, FiniteSets

CONSTANTS
    Threads,        \* recording threads
    MaxRecords,     \* bound: record_* calls
    MaxHistory      \* max_history of the deques

VARIABLES
    counters,       \* _counters by key
    histograms,     \* the count of the last bucket (upper bound inf) by registered name
    history,        \* length of _metrics by key
    script,         \* what each thread still has to do
    records,        \* record_* calls begun
    caught          \* history: threads that the last reset found in the middle of a script

vars == <<counters, histograms, history, script, records, caught>>

Counters == {"requests", "failures", "successes", "rejections",
             "attempts", "retry_successes", "exhausted",
             "fallbacks", "primary_successes", "errors", "recoveries"}
Histograms == {"request_duration", "retry_delay", "retry_total", "response_time",
               "recovery_duration"}
Gauges == {"breaker_state", "degradation_level"}

\* _get_metric_key
Key(name, labelled) == <<name, labelled>>

Keys == (Counters \cup Histograms \cup Gauges) \X BOOLEAN

TypeOK ==
    /\ counters \in [Counters \X BOOLEAN -> Nat]
    /\ histograms \in [Histograms -> Nat]
    /\ history \in [Keys -> 0 .. MaxHistory]
    /\ \A t \in Threads : Len(script[t]) <= 4
    /\ records \in 0 .. MaxRecords
    /\ caught \subseteq Threads

\* __init__ and _initialize_resilience_metrics: everything registered at 0
Init ==
    /\ counters = [k \in Counters \X BOOLEAN |-> 0]
    /\ histograms = [h \in Histograms |-> 0]
    /\ history = [k \in Keys |-> 0]
    /\ script = [t \in Threads |-> <<>>]
    /\ records = 0
    /\ caught = {}

-----------------------------------------------------------------------------
(* The record_* methods of ResilienceMetrics                               *)

\* Mutant: a failed request is counted as a request only.
record_circuit_breaker_request_NoFailures(success) ==
    IF success
    THEN << <<"increment", "requests">>, <<"observe", "request_duration">>,
            <<"increment", "successes">>, <<"set", "breaker_state">> >>
    ELSE << <<"increment", "requests">>, <<"observe", "request_duration">>,
            <<"set", "breaker_state">> >>

record_circuit_breaker_request(success) ==
    << <<"increment", "requests">>, <<"observe", "request_duration">>,
       <<"increment", IF success THEN "successes" ELSE "failures">>,
       <<"set", "breaker_state">> >>

record_circuit_breaker_rejection == << <<"increment", "rejections">> >>

record_retry_attempt(success, exhausted) ==
    << <<"increment", "attempts">>, <<"observe", "retry_delay">> >>
    \o CASE success -> << <<"increment", "retry_successes">> >>
         [] ~success /\ exhausted -> << <<"increment", "exhausted">> >>
         [] OTHER -> <<>>

record_retry_total_duration == << <<"observe", "retry_total">> >>

record_degradation_event(fallback) ==
    << <<"increment", IF fallback THEN "fallbacks" ELSE "primary_successes">>,
       <<"observe", "response_time">>, <<"set", "degradation_level">> >>

record_error(recovered) ==
    << <<"increment", "errors">> >>
    \o IF recovered THEN << <<"increment", "recoveries">>, <<"observe", "recovery_duration">> >>
                    ELSE <<>>

Begin(t) ==
    /\ script[t] = <<>> /\ records < MaxRecords
    /\ records' = records + 1
    /\ \E a, b \in BOOLEAN :
          \E s \in { record_circuit_breaker_request(a), record_circuit_breaker_rejection,
                     record_retry_attempt(a, b), record_retry_total_duration,
                     record_degradation_event(a), record_error(a) } :
             script' = [script EXCEPT ![t] = s]
    /\ UNCHANGED <<counters, histograms, history, caught>>

-----------------------------------------------------------------------------
(* MetricsCollector                                                        *)

Appended(key) ==
    history' = [history EXCEPT ![key] = IF @ < MaxHistory THEN @ + 1 ELSE @]

increment_counter(name) ==
    /\ counters' = [counters EXCEPT ![Key(name, TRUE)] = @ + 1]
    /\ Appended(Key(name, TRUE))
    /\ UNCHANGED histograms

set_gauge(name) ==
    /\ Appended(Key(name, TRUE))
    /\ UNCHANGED <<counters, histograms>>

\* Buckets exist under the registered name only.
observe_histogram(name) ==
    /\ histograms' = IF Key(name, TRUE) = <<name, FALSE>>
                     THEN [histograms EXCEPT ![name] = @ + 1] ELSE histograms
    /\ Appended(Key(name, TRUE))
    /\ UNCHANGED counters

Update(t) ==
    /\ script[t] # <<>>
    /\ LET name == Head(script[t])[2] IN
       CASE Head(script[t])[1] = "increment" -> increment_counter(name)
         [] Head(script[t])[1] = "set" -> set_gauge(name)
         [] Head(script[t])[1] = "observe" -> observe_histogram(name)
    /\ script' = [script EXCEPT ![t] = Tail(@)]
    /\ UNCHANGED <<records, caught>>

reset_metrics ==
    /\ counters' = [k \in DOMAIN counters |-> 0]
    /\ histograms' = [h \in Histograms |-> 0]
    /\ history' = [k \in Keys |-> 0]
    /\ caught' = {t \in Threads : script[t] # <<>>}
    /\ UNCHANGED <<script, records>>

Next == (\E t \in Threads : Begin(t) \/ Update(t)) \/ reset_metrics

Spec == Init /\ [][Next]_vars

-----------------------------------------------------------------------------
(* What is read back                                                       *)

get_counter_value(name, labelled) == counters[Key(name, labelled)]
get_circuit_breaker_stats ==
    [total_requests |-> get_counter_value("requests", TRUE),
     successes |-> get_counter_value("successes", TRUE),
     failures |-> get_counter_value("failures", TRUE)]
get_retry_stats ==
    [total_attempts |-> get_counter_value("attempts", TRUE),
     successes |-> get_counter_value("retry_successes", TRUE),
     exhausted |-> get_counter_value("exhausted", TRUE)]

-----------------------------------------------------------------------------
Pending(outcomes) ==
    Cardinality({t \in Threads : \E i \in DOMAIN script[t] : script[t][i][2] \in outcomes})

(***************************************************************************)
(* The numbers of one report fit each other although a request is recorded *)
(* in several steps: requests and outcomes differ by the threads between   *)
(* the two, and after a reset at most by those it found half way, whose    *)
(* outcomes are counted while their requests no longer are.                *)
(***************************************************************************)
OutcomesMatchRequests ==
    LET s == get_circuit_breaker_stats
        r == get_retry_stats
    IN  /\ s.successes + s.failures <= s.total_requests + Cardinality(caught)
        /\ s.total_requests <= s.successes + s.failures + Pending({"successes", "failures"})
        /\ r.successes + r.exhausted <= r.total_attempts + Cardinality(caught)
=============================================================================
