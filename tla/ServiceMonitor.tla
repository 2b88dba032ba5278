--------------------------- MODULE ServiceMonitor ---------------------------
(***************************************************************************)
(* marty_common/monitoring/service_monitor.py: ServiceMonitor starts and   *)
(* stops the threads that run the health checks and the alert conditions.  *)
(* stop_monitoring sets the stop event and joins each thread for at most   *)
(* five seconds; start_monitoring clears the event.  A thread that         *)
(* outlives its join finds the event cleared and goes on beside its        *)
(* successor.  The metrics thread only appends samples and is left out.    *)
(* The two kinds of threads share nothing but the stop event: a behaviour  *)
(* follows those of one kind.                                              *)
(***************************************************************************)
EXTENDS Integers, FiniteSets

CONSTANTS
    Checks,         \* names of the health checks
    Critical,       \* the critical ones
    Cooldown,       \* cooldown_seconds of the alert, in ticks
    MaxStarts       \* bound: calls of start_monitoring

VARIABLES
    running,        \* _running
    stop,           \* _stop_event
    stopping,       \* a stop_monitoring is joining
    started,        \* generations of threads
    health,         \* _health_check_loop of each generation
    alerting,       \* _alert_check_loop of each generation
    status,         \* current_status
    alert,          \* one alert: is_active and the age of last_triggered
    ok,             \* external: the checks that would pass now
    high,           \* external: the alert's condition
    kind,           \* the threads that are followed: "health" or "alerts"
    impatient       \* history: a thread was left behind by a stop

vars == <<running, stop, stopping, started, health, alerting, status, alert, ok, high, kind, impatient>>

Generations == 1 .. MaxStarts
Statuses == {"unknown", "healthy", "degraded", "unhealthy"}
Absent == [pc |-> "none", todo |-> {}, failed |-> {}]
Round == [pc |-> "round", todo |-> Checks, failed |-> {}]

TypeOK ==
    /\ running \in BOOLEAN /\ stop \in BOOLEAN /\ stopping \in BOOLEAN
    /\ started \in 0 .. MaxStarts
    /\ health \in [Generations -> [pc : {"none", "round", "wait", "dead"},
                                   todo : SUBSET Checks, failed : SUBSET Checks]]
    /\ alerting \in [Generations -> {"none", "round", "wait", "dead"}]
    /\ status \in Statuses
    /\ alert \in [is_active : BOOLEAN, age : 0 .. Cooldown + 1]
    /\ ok \subseteq Checks /\ high \in BOOLEAN /\ impatient \in BOOLEAN
    /\ kind \in {"health", "alerts"}

Init ==
    /\ running = FALSE /\ stop = FALSE /\ stopping = FALSE
    /\ started = 0
    /\ health = [g \in Generations |-> Absent]
    /\ alerting = [g \in Generations |-> "none"]
    /\ status = "unknown"
    /\ alert = [is_active |-> FALSE, age |-> Cooldown + 1]
    /\ ok = Checks /\ high = FALSE /\ impatient = FALSE
    /\ kind \in {"health", "alerts"}

Live == {g \in Generations : health[g].pc \in {"round", "wait"}}
LiveAlerting == {g \in Generations : alerting[g] \in {"round", "wait"}}

-----------------------------------------------------------------------------
(* start_monitoring, stop_monitoring                                       *)

\* Mutant: the early return of a monitor that is already running is gone.
MayStart_Always == TRUE

MayStart == ~running

start_monitoring ==
    /\ MayStart /\ started < MaxStarts
    /\ running' = TRUE
    /\ stop' = FALSE
    /\ started' = started + 1
    /\ IF kind = "health"
       THEN health' = [health EXCEPT ![started + 1] = Round] /\ UNCHANGED alerting
       ELSE alerting' = [alerting EXCEPT ![started + 1] = "round"] /\ UNCHANGED health
    /\ impatient' = (impatient \/ stopping)
    /\ UNCHANGED <<stopping, status, alert, ok, high, kind>>

stop_monitoring ==
    /\ running /\ ~stopping
    /\ running' = FALSE
    /\ stop' = TRUE
    /\ stopping' = TRUE
    /\ UNCHANGED <<started, health, alerting, status, alert, ok, high, kind, impatient>>

\* thread.join(timeout=5) of each thread
Joined ==
    /\ stopping
    /\ stopping' = FALSE
    /\ impatient' = (impatient \/ Live # {} \/ LiveAlerting # {})
    /\ UNCHANGED <<running, stop, started, health, alerting, status, alert, ok, high, kind>>

-----------------------------------------------------------------------------
(* _health_check_loop                                                      *)

\* run_health_check: an exception or a check that takes too long fails.
run_health_check(g, c) ==
    /\ health[g].pc = "round" /\ c \in health[g].todo
    /\ health' = [health EXCEPT ![g].todo = @ \ {c},
                                ![g].failed = IF c \in ok THEN @ ELSE @ \cup {c}]
    /\ UNCHANGED <<running, stop, stopping, started, alerting, status, alert, ok, high, kind, impatient>>

\* Mutant: a status once left is never returned to.
Verdict_NoRecovery(failed) ==
    CASE failed \cap Critical # {} -> "unhealthy"
      [] failed \cap Critical = {} /\ failed # {} -> "degraded"
      [] OTHER -> IF status = "unknown" THEN "healthy" ELSE status

Verdict(failed) ==
    CASE failed \cap Critical # {} -> "unhealthy"
      [] failed \cap Critical = {} /\ failed # {} -> "degraded"
      [] OTHER -> "healthy"

update_health_status(g) ==
    /\ health[g].pc = "round" /\ health[g].todo = {}
    /\ status' = Verdict(health[g].failed)
    /\ health' = [health EXCEPT ![g] = [Absent EXCEPT !.pc = "wait"]]
    /\ UNCHANGED <<running, stop, stopping, started, alerting, alert, ok, high, kind, impatient>>

HealthWakes(g) ==
    /\ health[g].pc = "wait"
    /\ health' = [health EXCEPT ![g] = IF stop THEN [Absent EXCEPT !.pc = "dead"] ELSE Round]
    /\ UNCHANGED <<running, stop, stopping, started, alerting, status, alert, ok, high, kind, impatient>>

-----------------------------------------------------------------------------
(* _alert_check_loop                                                       *)

\* Mutant: the cooldown starts again at every check, not at every alert.
Triggered_Restarts == IF alert.age > Cooldown THEN [is_active |-> TRUE, age |-> 0]
                                              ELSE [alert EXCEPT !.age = 0]

Triggered == IF alert.age > Cooldown THEN [is_active |-> TRUE, age |-> 0] ELSE alert

check_alerts(g) ==
    /\ alerting[g] = "round"
    /\ alert' = CASE high /\ ~alert.is_active -> Triggered
                  [] ~high /\ alert.is_active -> [alert EXCEPT !.is_active = FALSE]
                  [] OTHER -> alert
    /\ alerting' = [alerting EXCEPT ![g] = "wait"]
    /\ UNCHANGED <<running, stop, stopping, started, health, status, ok, high, kind, impatient>>

AlertWakes(g) ==
    /\ alerting[g] = "wait"
    /\ alerting' = [alerting EXCEPT ![g] = IF stop THEN "dead" ELSE "round"]
    /\ UNCHANGED <<running, stop, stopping, started, health, status, alert, ok, high, kind, impatient>>

-----------------------------------------------------------------------------
Tick ==
    /\ kind = "alerts" /\ alert.age <= Cooldown
    /\ alert' = [alert EXCEPT !.age = @ + 1]
    /\ UNCHANGED <<running, stop, stopping, started, health, alerting, status, ok, high, kind, impatient>>

SystemChanges ==
    /\ \/ kind = "health" /\ ok' \in SUBSET Checks /\ UNCHANGED high
       \/ kind = "alerts" /\ high' = ~high /\ UNCHANGED ok
    /\ UNCHANGED <<running, stop, stopping, started, health, alerting, status, alert, kind, impatient>>

HealthLoop(g) ==
    (\E c \in Checks : run_health_check(g, c)) \/ update_health_status(g) \/ HealthWakes(g)
AlertLoop(g) == check_alerts(g) \/ AlertWakes(g)

Next ==
    \/ start_monitoring \/ stop_monitoring \/ Joined
    \/ \E g \in Generations : HealthLoop(g) \/ AlertLoop(g)
    \/ Tick \/ SystemChanges

Spec == Init /\ [][Next]_vars

\* The threads run and the clock runs.
FairSpec ==
    /\ Spec
    /\ \A g \in Generations : WF_vars(HealthLoop(g)) /\ WF_vars(AlertLoop(g))
    /\ WF_vars(Tick)

-----------------------------------------------------------------------------
(***************************************************************************)
(* As long as every stop has outwaited its threads, there is one thread of *)
(* each kind at most, however often monitoring is started and stopped.     *)
(***************************************************************************)
OneLoopIfJoined ==
    ~impatient => Cardinality(Live) <= 1 /\ Cardinality(LiveAlerting) <= 1

(***************************************************************************)
(* With the monitor running the status settles on what the checks say,     *)
(* although a thread left behind may write the verdict of an older round   *)
(* over that of a newer one.                                               *)
(***************************************************************************)
StatusSettles ==
    /\ <>[](running /\ kind = "health" /\ ok = Checks) => <>[](status = "healthy")
    /\ \A c \in Critical :
          <>[](running /\ kind = "health" /\ c \notin ok) => <>[](status = "unhealthy")
    /\ <>[](running /\ kind = "health" /\ ok # Checks /\ Critical \subseteq ok)
          => <>(status = "degraded")

(***************************************************************************)
(* A condition that persists is alerted, also when it came back within the *)
(* cooldown of the last alert, and one that is gone for good is resolved.  *)
(***************************************************************************)
AlertSettles ==
    <>[](running /\ kind = "alerts") /\ <>[][UNCHANGED high]_vars => <>[](alert.is_active = high)
=============================================================================
