------------------------------- MODULE Health -------------------------------
(***************************************************************************)
(* Health as monitored and as reported: two components that share no       *)
(* state, one section each, with its own Init and Next.                    *)
(***************************************************************************)
EXTENDS Integers, FiniteSets, Sequences

-----------------------------------------------------------------------------
(***************************************************************************)
(* marty_common/monitoring/health_monitor.py: HealthMonitor, whose loop    *)
(* hands the health checks to a thread pool, records system metrics and    *)
(* raises alerts from them, and its AlertManager.                          *)
(***************************************************************************)
CONSTANTS
    Checks,         \* the registered health checks
    MaxStarts,      \* bound: calls of start
    MaxAge          \* max_age_seconds of clear_old_alerts, in ticks

VARIABLES
    running,        \* _running
    loops,          \* _monitor_loop of each start
    started,        \* number of starts
    pool,           \* checks that run in _executor, with the loop that wants them
    executor,       \* "open", or "closed" by shutdown
    stopper,        \* stop
    samples,        \* the latest cpu_usage_percent recorded under each set of labels
    alert           \* _alerts: the alert of one id and its age

monitorVars == <<running, loops, started, pool, executor, stopper, samples, alert>>

Loops == 1 .. MaxStarts
NoAlert == [state |-> "none", age |-> 0]

\* The labels of a sample: that of the service, or none.
Labels == {{"service"}, {}}

MonitorTypeOK ==
    /\ running \in BOOLEAN
    /\ loops \in [Loops -> {"none", "top", "await", "record", "alerts", "sleep", "dead"}]
    /\ started \in 0 .. MaxStarts
    /\ pool \subseteq Loops \X Checks
    /\ executor \in {"open", "closed"}
    /\ stopper \in {"idle", "join", "shutdown", "returned"}
    /\ samples \in [Labels -> {"none", "normal", "high"}]
    /\ alert \in [state : {"none", "active", "acknowledged"}, age : 0 .. MaxAge + 1]

MonitorInit ==
    /\ running = FALSE
    /\ loops = [l \in Loops |-> "none"]
    /\ started = 0
    /\ pool = {}
    /\ executor = "open"
    /\ stopper = "idle"
    /\ samples = [labels \in Labels |-> "none"]
    /\ alert = NoAlert

Goto(l, label) == loops' = [loops EXCEPT ![l] = label]

(* start and stop                                                          *)

\* There is no test for a monitor that is already running.
start ==
    /\ started < MaxStarts
    /\ running' = TRUE
    /\ started' = started + 1
    /\ Goto(started + 1, "top")
    /\ UNCHANGED <<pool, executor, stopper, samples, alert>>

stop ==
    /\ stopper \in {"idle", "returned"} /\ started > 0
    /\ running' = FALSE
    /\ stopper' = "join"
    /\ UNCHANGED <<loops, started, pool, executor, samples, alert>>

\* _monitor_thread.join(timeout=5.0) of the latest thread, which may time
\* out: then shutdown stops the pool from taking more work.
Join ==
    /\ stopper = "join"
    /\ stopper' = "shutdown"
    /\ executor' = "closed"
    /\ UNCHANGED <<running, loops, started, pool, samples, alert>>

\* Mutant: shutdown(wait=False)
ShutdownDone_NoWait == TRUE

\* shutdown(wait=True) returns when the running checks have ended.
ShutdownDone == pool = {}

StopReturns ==
    /\ stopper = "shutdown" /\ ShutdownDone
    /\ stopper' = "returned"
    /\ UNCHANGED <<running, loops, started, pool, executor, samples, alert>>

(* _monitor_loop                                                           *)

LoopEnds(l) ==
    /\ loops[l] = "top" /\ ~running
    /\ Goto(l, "dead")
    /\ UNCHANGED <<running, started, pool, executor, stopper, samples, alert>>

\* _run_health_checks: submit raises RuntimeError once the pool is closed,
\* and the except clause of the loop waits and tries again.
Submit(l) ==
    /\ loops[l] = "top" /\ running
    /\ IF executor = "open"
       THEN /\ pool' = pool \cup ({l} \X Checks)
            /\ Goto(l, "await")
       ELSE Goto(l, "sleep") /\ UNCHANGED pool
    /\ UNCHANGED <<running, started, executor, stopper, samples, alert>>

\* _run_single_check
CheckEnds(p) ==
    /\ p \in pool
    /\ pool' = pool \ {p}
    /\ UNCHANGED <<running, loops, started, executor, stopper, samples, alert>>

\* Every future has a result, or its 30 seconds have passed.
Results(l) ==
    /\ loops[l] = "await"
    /\ Goto(l, "record")
    /\ UNCHANGED <<running, started, pool, executor, stopper, samples, alert>>

record_metric(labels) == \E cpu \in {"normal", "high"} : samples' = [samples EXCEPT ![labels] = cpu]

\* An error of psutil is logged, and nothing is recorded.
collect_system_metrics(l) ==
    /\ loops[l] = "record"
    /\ record_metric({"service"}) \/ UNCHANGED samples
    /\ Goto(l, "alerts")
    /\ UNCHANGED <<running, started, pool, executor, stopper, alert>>

\* Code of the service records through metrics_collector, without labels.
RecordUnlabelled ==
    /\ record_metric({})
    /\ UNCHANGED <<running, loops, started, pool, executor, stopper, alert>>

\* The name and the labels are the key, so one set of labels does not find the other's.
get_current_value(labels) == samples[labels]

\* raise_alert: an acknowledged alert is not raised again.
Raised == IF alert.state = "acknowledged" THEN alert ELSE [state |-> "active", age |-> 0]

\* It asks without labels.
check_alert_conditions(l) ==
    /\ loops[l] = "alerts"
    /\ alert' = IF get_current_value({}) = "high" THEN Raised ELSE alert
    /\ Goto(l, "sleep")
    /\ UNCHANGED <<running, started, pool, executor, stopper, samples>>

Wake(l) ==
    /\ loops[l] = "sleep"
    /\ Goto(l, "top")
    /\ UNCHANGED <<running, started, pool, executor, stopper, samples, alert>>

(* AlertManager, called by other code                                      *)

raise_alert ==
    /\ alert' = Raised
    /\ UNCHANGED <<running, loops, started, pool, executor, stopper, samples>>

acknowledge_alert ==
    /\ alert.state # "none"
    /\ alert' = [alert EXCEPT !.state = "acknowledged"]
    /\ UNCHANGED <<running, loops, started, pool, executor, stopper, samples>>

clear_old_alerts ==
    /\ alert.state = "acknowledged" /\ alert.age > MaxAge
    /\ alert' = NoAlert
    /\ UNCHANGED <<running, loops, started, pool, executor, stopper, samples>>

Tick ==
    /\ alert.state # "none" /\ alert.age <= MaxAge
    /\ alert' = [alert EXCEPT !.age = @ + 1]
    /\ UNCHANGED <<running, loops, started, pool, executor, stopper, samples>>

MonitorLoop(l) ==
    \/ LoopEnds(l) \/ Submit(l) \/ Results(l) \/ collect_system_metrics(l)
    \/ check_alert_conditions(l) \/ Wake(l)

MonitorNext ==
    \/ start \/ stop \/ Join \/ StopReturns
    \/ (\E l \in Loops : MonitorLoop(l)) \/ (\E p \in pool : CheckEnds(p))
    \/ RecordUnlabelled \/ raise_alert \/ acknowledge_alert \/ clear_old_alerts \/ Tick

MonitorSpec == MonitorInit /\ [][MonitorNext]_monitorVars

(***************************************************************************)
(* Once stop has returned the pool runs no health check, and never will    *)
(* again: a loop that outlived its join finds the pool closed, and so does *)
(* the loop of a later start.                                              *)
(***************************************************************************)
StopIsFinal == stopper = "returned" => pool = {} /\ executor = "closed"

-----------------------------------------------------------------------------
(***************************************************************************)
(* How marty_common turns the state of a service's dependencies into one   *)
(* verdict: the probes of health_checks.py behind metrics_server.py's      *)
(* HealthChecker, the checks of monitoring/health_monitor.py, the          *)
(* readiness of monitoring/trust_monitoring.py, and the health of breakers *)
(* and retry managers in resilience/monitoring.py.                         *)
(***************************************************************************)
CONSTANT Deps       \* dependencies, of DepKinds

DepStates == {"up", "odd", "down"}      \* "odd": it answers, not as expected
Levels == {"normal", "elevated", "high"}

VARIABLES
    dep,            \* what each dependency is really like
    registered,     \* HealthChecker.dependency_checks
    checks,         \* HealthChecker.checks
    probe,          \* get_status: how far it is, and "healthy"
    report          \* the answer just given; "none" after any other step

reportVars == <<dep, registered, checks, probe, report>>

NoReport == [by |-> "none"]

ReportTypeOK ==
    /\ dep \in [Deps -> DepStates]
    /\ registered \subseteq Deps
    /\ checks \in [{} -> BOOLEAN] \union [registered -> BOOLEAN]
    /\ probe \in [at : {"idle", "ready"}, healthy : BOOLEAN]
    /\ report.by \in {"none", "status", "monitor", "trust", "resilience"}

ReportInit ==
    /\ dep = [d \in Deps |-> "up"]
    /\ registered \in SUBSET Deps
    /\ checks = [d \in {} |-> FALSE]
    /\ probe = [at |-> "idle", healthy |-> FALSE]
    /\ report = NoReport

DependencyChanges ==
    /\ \E d \in Deps, s \in DepStates : dep' = [dep EXCEPT ![d] = s]
    /\ report' = NoReport
    /\ UNCHANGED <<registered, checks, probe>>

(* health_checks.py. The endpoints are coroutines, so a check runs inside  *)
(* the event loop: there the database check calls run_until_complete on    *)
(* the running loop, which raises, and the exception counts as a failure.  *)

InLoop == TRUE
check_database_connection(s) == ~InLoop /\ s = "up"
check_grpc_service(s) == s = "up"           \* SERVING
check_http_service(s) == s = "up"           \* the expected status
check_tcp_port(s) == s # "down"             \* it accepts a connection

Passes(d) ==
    CASE d = "database" -> check_database_connection(dep[d])
      [] d = "grpc" -> check_grpc_service(dep[d])
      [] d = "http" -> check_http_service(dep[d])
      [] d = "tcp" -> check_tcp_port(dep[d])

(* metrics_server.HealthChecker                                            *)

run_dependency_checks == [d \in registered |-> Passes(d)]
is_healthy(cs) == \A d \in DOMAIN cs : cs[d]

\* get_status asks is_healthy, and is_ready, which runs every check a second time.
StatusHealthy ==
    /\ probe.at = "idle"
    /\ checks' = run_dependency_checks
    /\ probe' = [at |-> "ready", healthy |-> is_healthy(checks')]
    /\ report' = NoReport
    /\ UNCHANGED <<dep, registered>>

StatusReady_Cached ==
    /\ probe.at = "ready"
    /\ checks' = run_dependency_checks
    /\ probe' = [at |-> "idle", healthy |-> FALSE]
    /\ report' = [by |-> "status", healthy |-> probe.healthy,
                  ready |-> probe.healthy, checks |-> checks']
    /\ UNCHANGED <<dep, registered>>

StatusReady ==
    /\ probe.at = "ready"
    /\ checks' = run_dependency_checks
    /\ probe' = [at |-> "idle", healthy |-> FALSE]
    /\ report' = [by |-> "status", healthy |-> probe.healthy,
                  ready |-> is_healthy(checks'), checks |-> checks']
    /\ UNCHANGED <<dep, registered>>

(* monitoring/health_monitor.py                                            *)

DatabaseHealthCheck(s) == IF s = "up" THEN "HEALTHY" ELSE "UNHEALTHY"
ServiceHealthCheck(s) ==
    CASE s = "up" -> "HEALTHY" [] s = "odd" -> "DEGRADED" [] s = "down" -> "UNHEALTHY"

Overwrite_Resets(status, level) ==
    CASE level = "high" -> "UNHEALTHY"
      [] level = "elevated" -> "DEGRADED"
      [] level = "normal" -> "HEALTHY"

\* CPU, memory and disk are looked at in turn, each one above its limits overwrites the
\* status the one before has set: a disk at 85% turns a CPU at 95% into DEGRADED.
Overwrite(status, level) ==
    CASE level = "high" -> "UNHEALTHY"
      [] level = "elevated" -> "DEGRADED"
      [] level = "normal" -> status

ResourceHealthCheck(cpu, memory, disk) ==
    Overwrite(Overwrite(Overwrite("HEALTHY", cpu), memory), disk)

\* A check that raises counts as UNKNOWN, and UNKNOWN as HEALTHY once there is a result.
get_service_health(results) ==
    CASE results = {} -> "UNKNOWN"
      [] "UNHEALTHY" \in results -> "UNHEALTHY"
      [] "DEGRADED" \in results /\ "UNHEALTHY" \notin results -> "DEGRADED"
      [] OTHER -> "HEALTHY"

CheckResult(c, resources) ==
    CASE c = "resources" -> resources
      [] c = "database" -> DatabaseHealthCheck(dep[c])
      [] OTHER -> ServiceHealthCheck(dep[c])

\* The checks that were added, of which some may raise: ServiceHealthCheck and
\* ResourceHealthCheck import their library outside the try, and psutil may fail inside it.
AskMonitor ==
    /\ report = NoReport
    /\ \E cpu, memory, disk \in Levels, added \in SUBSET (Deps \union {"resources"}) :
       \E answered \in SUBSET added :
          LET resources == ResourceHealthCheck(cpu, memory, disk)
              results == {IF c \in answered THEN CheckResult(c, resources) ELSE "UNKNOWN" : c \in added}
          IN report' = [by |-> "monitor", answered |-> answered, levels |-> {cpu, memory, disk},
                        faulty |-> {d \in Deps : dep[d] # "up"},
                        status |-> get_service_health(results)]
    /\ UNCHANGED <<dep, registered, checks, probe>>

(* monitoring/trust_monitoring.py. The age of the trust list and the keys  *)
(* that are about to expire are constants of the code, so the freshness    *)
(* and expiry checks pass whatever the trust store holds.                  *)

check_trust_list_freshness(age, warning, critical) ==
    CASE age > critical -> "critical" [] age > warning -> "warning" [] OTHER -> "healthy"
check_key_expiration(expiring) == IF expiring # {} THEN "warning" ELSE "healthy"
check_pkd_connectivity(s) ==
    CASE s = "up" -> "healthy" [] s = "odd" -> "unhealthy" [] s = "down" -> "error"

MockAge == 12
MockExpiring == {}

get_overall_health(age, expiring, pkd) ==
    LET list == check_trust_list_freshness(age, 24, 48)
        status1 == CASE list = "critical" -> "unhealthy"
                     [] list = "warning" -> "degraded" [] OTHER -> "healthy"
        status2 == IF check_key_expiration(expiring) = "warning" THEN "degraded" ELSE status1
    IN  IF check_pkd_connectivity(pkd) # "healthy" THEN "degraded" ELSE status2

\* ready_endpoint. The age and the expiring keys of the real store are not looked at.
ready_endpoint ==
    /\ report = NoReport
    /\ \E d \in Deps, age \in {0, 30, 60} :
          report' = [by |-> "trust", age |-> age, pkd |-> dep[d],
                     status |-> get_overall_health(MockAge, MockExpiring, dep[d])]
    /\ UNCHANGED <<dep, registered, checks, probe>>

(* resilience/monitoring.py                                                *)

BreakerStats == [state : {"CLOSED", "HALF_OPEN", "OPEN"}, failures : 0 .. 5, requests : 0 .. 5]
ManagerStats == [succeeded : 0 .. 3, failed : 0 .. 3]

get_circuit_breaker_health(b) ==
    b.state # "OPEN" /\ (b.requests > 0 => 10 * b.failures < 8 * b.requests)

\* The success rate of a manager without a call is 0.
get_retry_manager_health(m) ==
    LET total == m.succeeded + m.failed
    IN  total > 0 /\ 10 * m.succeeded >= 7 * total

AskResilience ==
    /\ \E b \in {s \in BreakerStats : s.failures <= s.requests}, m \in ManagerStats :
          report' = [by |-> "resilience", breaker |-> b, manager |-> m,
                     healthy |-> get_circuit_breaker_health(b) /\ get_retry_manager_health(m)]
    /\ report = NoReport /\ probe.at = "idle" /\ \A d \in Deps : dep[d] = "up"
    /\ UNCHANGED <<dep, registered, checks, probe>>

ReportNext ==
    \/ DependencyChanges \/ StatusHealthy \/ StatusReady
    \/ AskMonitor \/ ready_endpoint \/ AskResilience

ReportSpec == ReportInit /\ [][ReportNext]_reportVars

\* The readiness that get_status reports is that of the checks it lists beside it, also
\* when a dependency changes between its two rounds of checks ("healthy" may differ).
ReadyFitsChecks == report.by = "status" => (report.ready = \A d \in DOMAIN report.checks : report.checks[d])

\* A monitor that says HEALTHY hides nothing that its checks have found: those that answered
\* found their dependency up, and no resource above its limits, although later resources
\* overwrite the status of earlier ones. Checks that raised say nothing either way.
HealthyHidesNothing ==
    (report.by = "monitor" /\ report.status = "HEALTHY") =>
        /\ report.answered \cap report.faulty = {}
        /\ "resources" \in report.answered => report.levels = {"normal"}
=============================================================================
