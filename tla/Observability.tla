--------------------------- MODULE Observability ----------------------------
(***************************************************************************)
(* What the services keep and tell about themselves: seven components that *)
(* share no state, one section each, with its own Init and Next.           *)
(***************************************************************************)
EXTENDS Sequences, FiniteSets, SequencesExt, Integers, TLC

-----------------------------------------------------------------------------
(***************************************************************************)
(* ConsistencyAuditTrail (observability.py): entries are appended to a     *)
(* list of the process and offered to an optional backend; queries read    *)
(* the list, newest first by their time stamps. The wall clock may stand   *)
(* still between two entries or be set back, and the process may restart.  *)
(***************************************************************************)
CONSTANTS
    AuditRequests,  \* request ids
    MaxEntries,     \* entries recorded, in the instance
    AuditMaxTime    \* readings of the wall clock

VARIABLES
    auditConfigured, \* a storage backend was given
    entries,        \* _local_entries
    backend,        \* numbers of the entries the backend stored
    unstored,       \* numbers of the entries it failed to store, or was not there for
    recorded,       \* entries recorded so far, over all runs of the process
    first,          \* number of the first entry of this run
    clock,          \* the wall clock
    auditLevel      \* the clock did not advance between two entries of this run

auditVars == <<auditConfigured, entries, backend, unstored, recorded, first, clock, auditLevel>>

Kinds == {"consistency_check", "rule_execution", "field_mismatch"}
Entry == [number : 1 .. MaxEntries, kind : Kinds, request : AuditRequests \union {"none"},
          time : 0 .. AuditMaxTime]

AuditTypeOK ==
    /\ auditConfigured \in BOOLEAN /\ auditLevel \in BOOLEAN
    /\ \A i \in DOMAIN entries : entries[i] \in Entry
    /\ backend \subseteq 1 .. MaxEntries /\ unstored \subseteq 1 .. MaxEntries
    /\ recorded \in 0 .. MaxEntries /\ first \in 1 .. MaxEntries + 1
    /\ clock \in 0 .. AuditMaxTime

AuditInit ==
    /\ auditConfigured \in BOOLEAN
    /\ entries = <<>> /\ backend = {} /\ unstored = {}
    /\ recorded = 0 /\ first = 1 /\ clock = 0 /\ auditLevel = FALSE

ReachesBackend_ChecksOnly(kind, works) == auditConfigured /\ works /\ kind = "consistency_check"

\* The backend is asked for every kind of entry; its failure is only logged.
ReachesBackend(kind, works) == auditConfigured /\ works

\* _store_audit_entry
store_audit_entry(kind, request, works) ==
    /\ recorded < MaxEntries
    /\ recorded' = recorded + 1
    /\ entries' = Append(entries, [number |-> recorded + 1, kind |-> kind, request |-> request,
                                   time |-> clock])
    /\ backend' = IF ReachesBackend(kind, works) THEN backend \union {recorded + 1} ELSE backend
    /\ unstored' = IF auditConfigured /\ works THEN unstored ELSE unstored \union {recorded + 1}
    /\ auditLevel' = (auditLevel \/ (entries # <<>> /\ clock <= Last(entries).time))
    /\ UNCHANGED <<auditConfigured, first, clock>>

record_consistency_check(request, works) == store_audit_entry("consistency_check", request, works)

\* These two kinds of entry name no request.
record_rule_execution(works) == store_audit_entry("rule_execution", "none", works)
record_field_mismatch(works) == store_audit_entry("field_mismatch", "none", works)

\* datetime.utcnow: time passes or the clock is set.
SetClock(t) ==
    /\ t # clock
    /\ clock' = t
    /\ UNCHANGED <<auditConfigured, entries, backend, unstored, recorded, first, auditLevel>>

\* The process ends and starts again with an empty list.
Restart ==
    /\ entries # <<>>
    /\ entries' = <<>> /\ first' = recorded + 1 /\ auditLevel' = FALSE
    /\ UNCHANGED <<auditConfigured, backend, unstored, recorded, clock>>

AuditNext ==
    \/ \E works \in BOOLEAN :
          \/ \E r \in AuditRequests : record_consistency_check(r, works)
          \/ record_rule_execution(works) \/ record_field_mismatch(works)
    \/ \E t \in 0 .. AuditMaxTime : SetClock(t)
    \/ Restart

AuditSpec == AuditInit /\ [][AuditNext]_auditVars

Before_Ascending(a, b) == a.time < b.time \/ (a.time = b.time /\ a.number < b.number)

\* sort(reverse=True) keeps entries with the same time in the order they were recorded.
Before(a, b) == a.time > b.time \/ (a.time = b.time /\ a.number < b.number)

\* Only the list of the process is searched.
Searched == Range(entries)

\* query_audit_trail with filters; "any" is a filter left out. The limit keeps the head.
query_audit_trail(request, kind, limit) ==
    LET hits == {e \in Searched : /\ request \in {"any", e.request}
                                        /\ kind \in {"any", e.kind}}
        sorted == SetToSortSeq(hits, Before)
    IN  SubSeq(sorted, 1, IF limit < Len(sorted) THEN limit ELSE Len(sorted))

Numbers(es) == {es[i].number : i \in DOMAIN es}

(* An entry that is neither in the list nor in the backend was lost by a   *)
(* restart after the backend had failed to store it: the failure is logged *)
(* and never made up for.                                                  *)
LostNeedsFault ==
    \A n \in 1 .. recorded : n \notin Numbers(entries) \union backend => n \in unstored /\ n < first

(* A query for the latest entry answers with the one recorded last, unless *)
(* two entries of this run carry the same time or the clock went back:     *)
(* among equals the older entry comes first and the limit cuts the newer.  *)
LatestNeedsClock ==
    entries # <<>> /\ ~auditLevel => query_audit_trail("any", "any", 1)[1].number = recorded

-----------------------------------------------------------------------------
(***************************************************************************)
(* MetricsCollector of observability.py: a collector counts in dictionaries *)
(* of its own and, where it could register them, in Prometheus metrics of  *)
(* the process. Two collectors of one service name meet in the Prometheus  *)
(* registry; the threads of a service meet in the dictionaries, whose      *)
(* increment is a read and a write.                                        *)
(***************************************************************************)
CONSTANTS
    Threads,        \* threads counting
    Collectors,     \* collectors made for one service name
    MaxCounts       \* increments, in the instance

VARIABLES
    engineMade,     \* collectors constructed so far
    registered,     \* collectors whose metric Prometheus accepted
    counter,        \* collector -> _counters of the metric
    exported,       \* the value of the metric in Prometheus
    pc,             \* thread -> "idle", "read", "written"
    job,            \* thread -> the collector used, the value read, labels given or not
    finished,       \* collector -> increments completed
    engineRefused,  \* increments Prometheus did not take
    overlapped      \* two threads were between read and write of a counter

engineVars == <<engineMade, registered, counter, exported, pc, job, finished, engineRefused, overlapped>>

EngineTypeOK ==
    /\ engineMade \subseteq Collectors /\ registered \subseteq engineMade
    /\ counter \in [Collectors -> 0 .. MaxCounts] /\ exported \in 0 .. MaxCounts
    /\ pc \in [Threads -> {"idle", "read", "written"}]
    /\ job \in [Threads -> [collector : Collectors, value : 0 .. MaxCounts, labels : BOOLEAN]]
    /\ finished \in [Collectors -> 0 .. MaxCounts] /\ engineRefused \in 0 .. MaxCounts
    /\ overlapped \in BOOLEAN

EngineInit ==
    /\ engineMade = {} /\ registered = {}
    /\ counter = [c \in Collectors |-> 0] /\ exported = 0
    /\ pc = [t \in Threads |-> "idle"]
    /\ job \in [Threads -> {[collector |-> CHOOSE c \in Collectors : TRUE, value |-> 0,
                             labels |-> FALSE]}]
    /\ finished = [c \in Collectors |-> 0] /\ engineRefused = 0 /\ overlapped = FALSE

Accepted_Shared == TRUE

\* _register_metric: a name can be registered once; the error is only logged.
Accepted == registered = {}

\* __init__ with its standard metrics.
Construct(c) ==
    /\ c \notin engineMade
    /\ engineMade' = engineMade \union {c}
    /\ registered' = IF Accepted THEN registered \union {c} ELSE registered
    /\ UNCHANGED <<counter, exported, pc, job, finished, engineRefused, overlapped>>

Started == Cardinality({t \in Threads : pc[t] # "idle"})

\* increment: the left side of "+=" is read.
ReadCounter(t, c, labels) ==
    /\ pc[t] = "idle" /\ c \in engineMade
    /\ finished[c] + Started < MaxCounts
    /\ pc' = [pc EXCEPT ![t] = "read"]
    /\ job' = [job EXCEPT ![t] = [collector |-> c, value |-> counter[c], labels |-> labels]]
    /\ overlapped' = (overlapped \/ \E u \in Threads : pc[u] = "read" /\ job[u].collector = c)
    /\ UNCHANGED <<engineMade, registered, counter, exported, finished, engineRefused>>

Added_Assigned(v) == 1

Added(v) == v + 1

\* The sum is written back.
WriteCounter(t) ==
    /\ pc[t] = "read"
    /\ counter' = [counter EXCEPT ![job[t].collector] = Added(job[t].value)]
    /\ pc' = [pc EXCEPT ![t] = "written"]
    /\ UNCHANGED <<engineMade, registered, exported, job, finished, engineRefused, overlapped>>

\* The Prometheus metric has labels and takes an increment only with them; it locks.
EngineExport(t) ==
    /\ pc[t] = "written"
    /\ LET c == job[t].collector
           taken == c \in registered /\ job[t].labels
       IN  /\ exported' = IF taken THEN exported + 1 ELSE exported
           /\ engineRefused' = IF c \in registered /\ ~job[t].labels THEN engineRefused + 1 ELSE engineRefused
           /\ finished' = [finished EXCEPT ![c] = @ + 1]
    /\ pc' = [pc EXCEPT ![t] = "idle"]
    /\ UNCHANGED <<engineMade, registered, counter, job, overlapped>>

EngineNext ==
    \/ \E c \in Collectors : Construct(c)
    \/ \E t \in Threads :
          \/ \E c \in Collectors, labels \in BOOLEAN : ReadCounter(t, c, labels)
          \/ WriteCounter(t) \/ EngineExport(t)

EngineSpec == EngineInit /\ [][EngineNext]_engineVars

(* get_metric_summary is short of the increments completed only if two     *)
(* threads incremented the counter at the same time.                       *)
ShortNeedsOverlap == \A c \in Collectors : counter[c] < finished[c] => overlapped

(* What Prometheus exports under a service name is what the one collector  *)
(* that could register completed, less the increments that were refused    *)
(* for their labels, however the threads overlap.                          *)
ExportedIsCounted == \A c \in registered : exported + engineRefused = finished[c]

-----------------------------------------------------------------------------
(***************************************************************************)
(* marty_common/metrics_server.py: the life of MetricsServer, an HTTP      *)
(* server that runs as a task of the event loop. start and stop are        *)
(* coroutines: they interleave at their awaits only, and every coroutine   *)
(* that waits for a task is resumed, in the order of waiting, right after  *)
(* the task has ended.                                                     *)
(***************************************************************************)
CONSTANTS
    Callers,        \* coroutines that call start and stop
    MaxServers      \* bound: server tasks created

VARIABLES
    serverRunning,  \* _running
    task,           \* _server_task, 0 for None
    live,           \* tasks that serve
    crashed,        \* tasks that ended with an exception of their own
    created,        \* number of tasks created
    caller,         \* what each coroutine does
    waiters,        \* coroutines that await a task in stop, in order
    waking,         \* those of them that the event loop resumes next
    raced           \* history: a stop was called while another one waited

serverVars == <<serverRunning, task, live, crashed, created, caller, waiters, waking, raced>>

ServerTasks == 1 .. MaxServers

ServerTypeOK ==
    /\ serverRunning \in BOOLEAN
    /\ task \in 0 .. MaxServers
    /\ live \subseteq ServerTasks /\ crashed \subseteq ServerTasks
    /\ created \in 0 .. MaxServers
    /\ caller \in [Callers -> [op : {"idle", "stop", "restart"}, waitsFor : 0 .. MaxServers]]
    /\ waiters \in Seq(Callers) /\ waking \in Seq(Callers)
    /\ raced \in BOOLEAN

Idle == [op |-> "idle", waitsFor |-> 0]

ServerInit ==
    /\ serverRunning = FALSE /\ task = 0
    /\ live = {} /\ crashed = {} /\ created = 0
    /\ caller = [c \in Callers |-> Idle]
    /\ waiters = <<>> /\ waking = <<>>
    /\ raced = FALSE

\* start after its test of _running: a new task, and no await before it returns.
NewServer ==
    /\ created < MaxServers
    /\ created' = created + 1
    /\ task' = created + 1
    /\ live' = live \union {created + 1}
    /\ serverRunning' = TRUE

start(c) ==
    /\ waking = <<>> /\ caller[c].op = "idle"
    /\ ~serverRunning
    /\ NewServer
    /\ UNCHANGED <<crashed, caller, waiters, waking, raced>>

stop_ClearsFirst(c, op) ==
    /\ waking = <<>> /\ caller[c].op = "idle"
    /\ serverRunning
    /\ caller' = [caller EXCEPT ![c] = [op |-> op, waitsFor |-> task]]
    /\ waiters' = Append(waiters, c)
    /\ raced' = (raced \/ waiters # <<>>)
    /\ serverRunning' = FALSE
    /\ UNCHANGED <<task, live, crashed, created, waking>>

\* stop, on its own or followed by start, up to its await.
stop(c, op) ==
    /\ waking = <<>> /\ caller[c].op = "idle"
    /\ serverRunning
    /\ caller' = [caller EXCEPT ![c] = [op |-> op, waitsFor |-> task]]
    /\ waiters' = Append(waiters, c)
    /\ raced' = (raced \/ waiters # <<>>)
    /\ UNCHANGED <<serverRunning, task, live, crashed, created, waking>>

WaitsFor(n) == SelectSeq(waiters, LAMBDA c : caller[c].waitsFor = n)

\* uvicorn.Server.serve ends: cancelled by a stop, returning, or with an exception.
ServeEnds(n, how) ==
    /\ waking = <<>> /\ n \in live
    /\ how = "cancelled" => \E c \in Callers : caller[c].waitsFor = n
    /\ live' = live \ {n}
    /\ crashed' = IF how = "crashed" THEN crashed \union {n} ELSE crashed
    /\ waking' = WaitsFor(n)
    /\ waiters' = SelectSeq(waiters, LAMBDA c : caller[c].waitsFor # n)
    /\ UNCHANGED <<serverRunning, task, created, caller, raced>>

\* A task that has ended already lets the next stop pass at once.
AwaitEnded(c) ==
    /\ waking = <<>> /\ waiters # <<>> /\ Head(waiters) = c
    /\ caller[c].waitsFor \notin live
    /\ waking' = <<c>>
    /\ waiters' = Tail(waiters)
    /\ UNCHANGED <<serverRunning, task, live, crashed, created, caller, raced>>

\* stop suppresses the cancellation only: an exception of the task leaves through it,
\* before _server_task and _running are reset.
StopRaises(c) ==
    /\ waking # <<>> /\ Head(waking) = c
    /\ caller[c].waitsFor \in crashed
    /\ waking' = Tail(waking)
    /\ caller' = [caller EXCEPT ![c] = Idle]
    /\ UNCHANGED <<serverRunning, task, live, crashed, created, waiters, raced>>

StopReturns_Suppresses(c) ==
    /\ waking # <<>> /\ Head(waking) = c
    /\ waking' = Tail(waking)
    /\ caller' = [caller EXCEPT ![c] = Idle]
    /\ task' = 0 /\ serverRunning' = FALSE
    /\ UNCHANGED <<live, created, crashed, waiters, raced>>

StopReturns(c) ==
    /\ waking # <<>> /\ Head(waking) = c
    /\ caller[c].waitsFor \notin crashed
    /\ waking' = Tail(waking)
    /\ caller' = [caller EXCEPT ![c] = Idle]
    /\ IF caller[c].op = "restart" /\ created < MaxServers
       THEN NewServer
       ELSE task' = 0 /\ serverRunning' = FALSE /\ UNCHANGED <<live, created>>
    /\ UNCHANGED <<crashed, waiters, raced>>

ServerNext ==
    \/ \E c \in Callers :
          \/ start(c) \/ \E op \in {"stop", "restart"} : stop(c, op)
          \/ AwaitEnded(c) \/ StopRaises(c) \/ StopReturns(c)
    \/ \E n \in ServerTasks, how \in {"cancelled", "returned", "crashed"} : ServeEnds(n, how)

ServerSpec == ServerInit /\ [][ServerNext]_serverVars

\* As long as no stop is called while another one waits, a server that serves is the
\* one _server_task names and _running says so: the next stop reaches it. (With two
\* stops on one task, of which the first goes on to start again, the second resets
\* _server_task and _running over the new server: nothing can stop that one.)
ServerReachable == ~raced => \A n \in live : serverRunning /\ task = n

CrashWedges_Step ==
    (task \in crashed /\ ~raced) => (serverRunning' /\ task' = task)

\* A server that ended with an exception can never be replaced: stop raises instead of
\* resetting _running, and start returns because of it.
CrashWedges == [][CrashWedges_Step]_serverVars

-----------------------------------------------------------------------------
(***************************************************************************)
(* What the alerts of marty_common/monitoring/service_monitor.py conclude  *)
(* from samples: MetricsInterceptor and collect_system_metrics record      *)
(* them, MetricsCollector keeps the latest ones of each name, and the      *)
(* built-in conditions of AlertManager count those of a recent window. The *)
(* age of a sample is taken as timedelta.seconds, the remainder of a day.  *)
(* Raising and resolving the alerts is the module ServiceMonitor.          *)
(***************************************************************************)
CONSTANTS
    MaxCalls,       \* gRPC calls, a bound of the model
    Day,            \* the length of a day
    ErrorWindow,    \* 300 seconds
    RequestWindow,  \* 600 seconds
    ErrorLimit,     \* 10 errors
    Limit, Keep,    \* 1000 samples of a name are cut to the latest 500
    ActivityMaxTime \* a bound of the model

VARIABLES
    now,
    activityMade, activityRunning,  \* calls begun, and those of them in progress
    requests,       \* samples of grpc.requests.total: their times, oldest first
    errors,         \* samples of grpc.errors.total
    failures,       \* every error there was, with its time
    memory,         \* the latest sample of system.memory.percent: "none", "low" or "high"
    look,           \* a check that found no recent request: "none", "empty", or "raced"
                    \* when a request has come since
    check           \* what the conditions last came to, and what was the case

activityVars == <<now, activityMade, activityRunning, requests, errors, failures, memory, look, check>>

Times == 0 .. ActivityMaxTime
Unchecked == [rate |-> FALSE, silent |-> FALSE, memory |-> FALSE, many |-> FALSE,
              quiet |-> FALSE, aged |-> FALSE, raced |-> FALSE]

ActivityTypeOK ==
    /\ now \in Times
    /\ activityMade \in 0 .. MaxCalls /\ activityRunning \in 0 .. activityMade
    /\ requests \in Seq(Times) /\ errors \in Seq(Times) /\ failures \in Seq(Times)
    /\ Len(requests) <= Limit /\ Len(errors) <= Limit
    /\ memory \in {"none", "low", "high"} /\ look \in {"none", "empty", "raced"}
    /\ DOMAIN check = DOMAIN Unchecked /\ \A f \in DOMAIN check : check[f] \in BOOLEAN

ActivityInit ==
    /\ now = 0
    /\ activityMade = 0 /\ activityRunning = 0
    /\ requests = <<>> /\ errors = <<>> /\ failures = <<>>
    /\ memory = "none" /\ look = "none" /\ check = Unchecked

(* Recording                                                               *)

Latest_None(samples) == <<>>

Latest(samples) == SubSeq(samples, Len(samples) - Keep + 1, Len(samples))

\* record_metric, under the lock of the collector.
record_metric(samples) ==
    Append(IF Len(samples) >= Limit THEN Latest(samples) ELSE samples, now)

\* measure() counts the request before the handler runs.
Begin ==
    /\ activityMade < MaxCalls
    /\ activityMade' = activityMade + 1 /\ activityRunning' = activityRunning + 1
    /\ requests' = record_metric(requests)
    /\ look' = IF look = "none" THEN look ELSE "raced"
    /\ UNCHANGED <<now, errors, failures, memory, check>>

\* It ends with a success, which no alert asks for; or the client leaves a stream, whose
\* generator is then closed by what is not an Exception, and neither is counted.
End ==
    /\ activityRunning > 0
    /\ activityRunning' = activityRunning - 1
    /\ UNCHANGED <<now, activityMade, requests, errors, failures, memory, look, check>>

Raise ==
    /\ activityRunning > 0
    /\ activityRunning' = activityRunning - 1
    /\ errors' = record_metric(errors)
    /\ failures' = Append(failures, now)
    /\ UNCHANGED <<now, activityMade, requests, memory, look, check>>

\* collect_system_metrics: the gauge of the memory, or nothing when psutil raises first.
collect_system_metrics(m) ==
    /\ memory' = m
    /\ UNCHANGED <<now, activityMade, activityRunning, requests, errors, failures, look, check>>

(* Conditions                                                              *)

Recent_Shorter(samples, window) ==
    {i \in DOMAIN samples : ((now - samples[i]) % Day) + 1 < window}
Recent_Inclusive(samples, window) ==
    {i \in DOMAIN samples : (now - samples[i]) % Day <= window}

\* (now - timestamp).seconds < window
Recent(samples, window) == {i \in DOMAIN samples : (now - samples[i]) % Day < window}

check_high_memory == memory = "high"
check_high_error_rate == Cardinality(Recent(errors, ErrorWindow)) > ErrorLimit

\* Those that really are as young as the window.
Young(samples, window) == {i \in DOMAIN samples : now - samples[i] < window}
Samples == {requests[i] : i \in DOMAIN requests} \union {errors[i] : i \in DOMAIN errors}

\* What is the case: errors beyond the limit, no request lately, a sample older than a day.
Truth == [many |-> Cardinality(Young(failures, ErrorWindow)) > ErrorLimit,
          quiet |-> requests # <<>> /\ Young(requests, RequestWindow) = {},
          aged |-> \E t \in Samples : now - t >= Day]

\* The conditions in turn. The last one asks for recent requests, and when there are none
\* again for any.
EvaluateConditions ==
    /\ look = "none"
    /\ check' = [rate |-> check_high_error_rate, memory |-> check_high_memory,
                 silent |-> FALSE, raced |-> FALSE] @@ Truth
    /\ look' = IF Recent(requests, RequestWindow) = {} THEN "empty" ELSE "none"
    /\ UNCHANGED <<now, activityMade, activityRunning, requests, errors, failures, memory>>

check_service_unresponsive ==
    /\ look # "none"
    /\ check' = [check EXCEPT !.silent = requests # <<>>, !.quiet = Truth.quiet,
                              !.raced = look = "raced"]
    /\ look' = "none"
    /\ UNCHANGED <<now, activityMade, activityRunning, requests, errors, failures, memory>>

Tick ==
    /\ now < ActivityMaxTime /\ look = "none"
    /\ now' = now + 1
    /\ check' = Unchecked
    /\ UNCHANGED <<activityMade, activityRunning, requests, errors, failures, memory, look>>

ActivityNext ==
    \/ Begin \/ End \/ Raise
    \/ \E m \in {memory, "low", "high"} \ {"none"} : collect_system_metrics(m)
    \/ EvaluateConditions \/ check_service_unresponsive
    \/ Tick

ActivitySpec == ActivityInit /\ [][ActivityNext]_activityVars

\* More than ErrorLimit errors within the window are always seen, although the list of
\* samples is cut: what is kept is longer than what the condition needs (ErrorLimit <= Keep).
BurstsAreSeen == check.many => check.rate

\* An alarm about errors nobody had lately, and silence that a finished check does not
\* notice, come only from samples of the day before: their age starts again at zero.
WrongNeedsAgedSample ==
    (check.rate /\ ~check.many) \/ (look = "none" /\ check.quiet /\ ~check.silent) => check.aged

\* A service that is not silent is called unresponsive only when a request came between the
\* two questions of the check.
SilenceNeedsRace == check.silent /\ ~check.quiet => check.raced

-----------------------------------------------------------------------------
(***************************************************************************)
(* marty_common/otel.py: the globals of tracing, which are set up, torn    *)
(* down and set up again, and the spans that are begun before, between and *)
(* after. OpenTelemetry (external) installs the first provider it is given *)
(* and keeps it, lets a tracer made before that find it later, records     *)
(* nothing without one, and sends ended spans in a thread of its own.      *)
(***************************************************************************)
CONSTANTS
    TraceServices,  \* service names init_tracing is called with
    Spans,          \* spans
    MaxInits        \* bound: initialisations that get as far as a provider

VARIABLES
    enabled,        \* OTEL_TRACING_ENABLED
    console,        \* OTEL_CONSOLE_EXPORT
    instrumented,   \* _instrumented
    tracer,         \* whether _tracer is set
    providers,      \* every provider built: its service, whether its exporter could be
                    \* configured, where its processors send
    grpc,           \* what is instrumented: "server", "client"
    span,           \* each span
    current,        \* the span of the request being handled, or "none"
    traceRefused    \* history: the collector refused a batch

traceVars == <<enabled, console, instrumented, tracer, providers, grpc, span, current, traceRefused>>

\* by: the provider that records the span, 0 for none; early: no provider was installed yet.
Absent == [kind |-> "none", state |-> "new", by |-> 0, early |-> FALSE, marked |-> FALSE]

TraceTypeOK ==
    /\ {enabled, console, instrumented, tracer, traceRefused} \subseteq BOOLEAN
    /\ \A i \in DOMAIN providers :
          providers[i] \in [service : TraceServices, ok : BOOLEAN, sends : SUBSET {"otlp", "console"}]
    /\ grpc \subseteq {"server", "client"}
    /\ span \in [Spans -> [kind : {"none", "rpc", "made"}, state : {"new", "open", "ended", "sent", "lost"},
                           by : 0 .. Len(providers), early : BOOLEAN, marked : BOOLEAN]]
    /\ current \in Spans \union {"none"}

TraceInit ==
    /\ enabled \in BOOLEAN /\ console \in BOOLEAN
    /\ instrumented = FALSE /\ tracer = FALSE
    /\ providers = <<>> /\ grpc = {}
    /\ span = [s \in Spans |-> Absent]
    /\ current = "none" /\ traceRefused = FALSE

(* Set-up and tear-down                                                    *)

Processors_Replaced(configured) == IF console THEN {"console"} ELSE {}

\* The OTLP exporter, unless it cannot be configured, and the console's.
Processors(configured) ==
    (IF configured THEN {"otlp"} ELSE {}) \union (IF console THEN {"console"} ELSE {})

Installed_Latest(ps) == Len(ps)

\* set_tracer_provider: the first stays, a later one is refused with a warning.
Installed(ps) == IF ps = <<>> THEN 0 ELSE 1

init_tracing(service, configured) ==
    /\ enabled /\ ~instrumented
    /\ Len(providers) < MaxInits
    /\ providers' = Append(providers, 
          [service |-> service, ok |-> configured, sends |-> Processors(configured)])
    /\ tracer' = TRUE
    /\ instrumented' = TRUE
    /\ UNCHANGED <<enabled, console, grpc, span, current, traceRefused>>

\* The server first: a failure leaves the rest uninstrumented.
instrument_grpc(done) ==
    /\ enabled
    /\ grpc' = grpc \union done
    /\ UNCHANGED <<enabled, console, instrumented, tracer, providers, span, current, traceRefused>>

\* Nothing is flushed and the provider stays installed; only the flag is cleared.
shutdown_tracing ==
    /\ instrumented
    /\ instrumented' = FALSE
    /\ UNCHANGED <<enabled, console, tracer, providers, grpc, span, current, traceRefused>>

(* Spans                                                                   *)

Begun(kind) ==
    [Absent EXCEPT !.kind = kind, !.state = "open", !.by = Installed(providers),
                   !.early = (providers = <<>>)]

\* get_tracer: made once, and before init_tracing as well.
get_tracer == tracer' = TRUE

\* start_span does not make the span current.
create_span(s) ==
    /\ span[s] = Absent
    /\ get_tracer
    /\ span' = [span EXCEPT ![s] = Begun("made")]
    /\ UNCHANGED <<enabled, console, instrumented, providers, grpc, current, traceRefused>>

\* An instrumented server begins a span for the request, and makes it current.
Serve(s) ==
    /\ current = "none" /\ "server" \in grpc
    /\ span[s] = Absent
    /\ span' = [span EXCEPT ![s] = Begun("rpc")]
    /\ current' = s
    /\ UNCHANGED <<enabled, console, instrumented, tracer, providers, grpc, traceRefused>>

IsRecording(s) == s # "none" /\ span[s].state = "open" /\ span[s].by # 0

\* add_span_event, set_span_attribute and record_exception: the current span, if recording.
\* get_current_trace_id and get_current_span_id answer under the same condition.
record_exception ==
    /\ IsRecording(current)
    /\ span' = [span EXCEPT ![current].marked = TRUE]
    /\ UNCHANGED <<enabled, console, instrumented, tracer, providers, grpc, current, traceRefused>>

\* What an ended span waits in: the queue of each processor of its provider.
Queues(x) == IF x.by = 0 THEN {} ELSE providers[x.by].sends

EndSpan(s) ==
    /\ span[s].state = "open"
    /\ span' = [span EXCEPT ![s].state = IF Queues(span[s]) = {} THEN "lost" ELSE "ended"]
    /\ current' = IF current = s THEN "none" ELSE current
    /\ UNCHANGED <<enabled, console, instrumented, tracer, providers, grpc, traceRefused>>

\* The exporter thread: a batch the collector refuses is dropped, the console's is not.
TraceExport(s, accepted) ==
    /\ span[s].state = "ended"
    /\ LET out == Queues(span[s]) \ (IF accepted THEN {} ELSE {"otlp"})
       IN  span' = [span EXCEPT ![s].state = IF out = {} THEN "lost" ELSE "sent"]
    /\ traceRefused' = (traceRefused \/ ~accepted)
    /\ UNCHANGED <<enabled, console, instrumented, tracer, providers, grpc, current>>

TraceNext ==
    \/ \E x \in TraceServices, ok \in BOOLEAN : init_tracing(x, ok)
    \/ \E done \in {{}, {"server"}, {"server", "client"}} : instrument_grpc(done)
    \/ shutdown_tracing
    \/ \E s \in Spans : create_span(s) \/ Serve(s) \/ EndSpan(s)
    \/ record_exception
    \/ \E s \in Spans, ok \in BOOLEAN : TraceExport(s, ok)

TraceSpec == TraceInit /\ [][TraceNext]_traceVars

\* A span that ends and is shown nowhere was begun before the first initialisation, or the
\* collector refused it, or the exporter could not be configured the first time: no later
\* initialisation, however it went, loses or saves a span.
UnseenNeedsCause ==
    \A s \in Spans : span[s].state = "lost" =>
        \/ span[s].early
        \/ traceRefused
        \/ ~providers[1].ok

\* Two spans are never recorded under two services: initialising again under another name
\* reports success and changes nothing.
OneServiceName ==
    \A s, t \in Spans : span[s].by # 0 /\ span[t].by # 0 =>
        providers[span[s].by].service = providers[span[t].by].service

-----------------------------------------------------------------------------
(***************************************************************************)
(* marty_common/logging/structured_logging.py: the request context that    *)
(* every log line takes its identifiers from, kept in a ContextVar that    *)
(* tasks inherit and scopes restore, and LoggingMiddleware around a        *)
(* request. LoggingSetup has the loggers.                                  *)
(***************************************************************************)
CONSTANTS
    ContextTasks,   \* asyncio tasks of the process
    ContextRequests, \* HTTP requests; the identifiers of one stand for it
    MaxDepth        \* bound: scopes open in a task

ContextNone == "none"
Outside == "outside"    \* an identifier set while no request was handled

VARIABLES
    ctx,            \* _request_context of each task, None or its fields
    scopes,         \* open _request_scopes of each task: what reset(token) restores
    work,           \* the request each task works for, None, or "free" for no task
    contextLine,    \* the line logged by the last step
    contextSeen     \* history: requests begun, tasks that cleared, whether a set was outside of requests

contextVars == <<ctx, scopes, work, contextLine, contextSeen>>

Fields == [request_id : ContextRequests \union {ContextNone}, user_id : ContextRequests \union {ContextNone, Outside}]
NoFields == [request_id |-> ContextNone, user_id |-> ContextNone]

\* The value of the ContextVar: its default None, or a dictionary.
Contexts == [set : {FALSE}, fields : {NoFields}] \union [set : {TRUE}, fields : Fields]
NoContext == [set |-> FALSE, fields |-> NoFields]

ContextNoLine == [task |-> ContextNone, request |-> ContextNone, fields |-> NoFields, given |-> ContextNone]

ContextTypeOK ==
    /\ ctx \in [ContextTasks -> Contexts]
    /\ work \in [ContextTasks -> ContextRequests \union {ContextNone, "free"}]
    /\ \A t \in ContextTasks : Len(scopes[t]) <= MaxDepth /\ \A i \in DOMAIN scopes[t] :
          scopes[t][i].saved \in Contexts /\ scopes[t][i].request \in ContextRequests \union {ContextNone}
    /\ contextLine.fields \in Fields
    /\ contextSeen \in [begun : SUBSET ContextRequests, cleared : SUBSET ContextTasks, bare : BOOLEAN]

\* One server task runs.
ContextInit ==
    /\ ctx = [t \in ContextTasks |-> NoContext] /\ scopes = [t \in ContextTasks |-> <<>>]
    /\ work = [t \in ContextTasks |-> IF t = CHOOSE server \in ContextTasks : TRUE THEN ContextNone ELSE "free"]
    /\ contextLine = ContextNoLine
    /\ contextSeen = [begun |-> {}, cleared |-> {}, bare |-> FALSE]

(* The context                                                             *)

\* A new dictionary with the old fields, overridden: no task sees the change of another.
Merged(c, field, v) == [set |-> TRUE, fields |-> [c.fields EXCEPT ![field] = v]]

set_request_context(t, v) ==
    ctx' = [ctx EXCEPT ![t] = Merged(@, "user_id", v)]

\* The code a task runs names the user it serves.
Identify(t) ==
    LET v == IF work[t] = ContextNone THEN Outside ELSE work[t]
    IN  /\ work[t] # "free"
        /\ set_request_context(t, v)
        /\ contextSeen' = [contextSeen EXCEPT !.bare = @ \/ work[t] = ContextNone]
        /\ contextLine' = ContextNoLine /\ UNCHANGED <<scopes, work>>

clear_request_context(t) ==
    /\ work[t] # "free"
    /\ ctx' = [ctx EXCEPT ![t] = NoContext]
    /\ contextSeen' = [contextSeen EXCEPT !.cleared = @ \union {t}]
    /\ contextLine' = ContextNoLine /\ UNCHANGED <<scopes, work>>

\* _request_scope of request_context: the user, until the block ends.
EnterScope(t) ==
    /\ work[t] \in ContextRequests /\ Len(scopes[t]) < MaxDepth
    /\ scopes' = [scopes EXCEPT ![t] = Append(@, [saved |-> ctx[t], request |-> work[t]])]
    /\ ctx' = [ctx EXCEPT ![t] = Merged(@, "user_id", work[t])]
    /\ contextLine' = ContextNoLine /\ UNCHANGED <<work, contextSeen>>

\* LoggingMiddleware.__call__: the request handled by this task from now on.
BeginRequest(t, r) ==
    /\ work[t] = ContextNone /\ r \notin contextSeen.begun /\ Len(scopes[t]) < MaxDepth
    /\ work' = [work EXCEPT ![t] = r]
    /\ scopes' = [scopes EXCEPT ![t] = Append(@, [saved |-> ctx[t], request |-> ContextNone])]
    /\ ctx' = [ctx EXCEPT ![t] = Merged(@, "request_id", r)]
    /\ contextSeen' = [contextSeen EXCEPT !.begun = @ \union {r}, !.cleared = @ \ {t}]
    /\ contextLine' = ContextNoLine

LeaveScope_OnReturn(t) ==
    LET top == scopes[t][Len(scopes[t])]
    IN  /\ scopes[t] # <<>>
        /\ ctx' \in {[ctx EXCEPT ![t] = top.saved], ctx}
        /\ scopes' = [scopes EXCEPT ![t] = SubSeq(@, 1, Len(@) - 1)]
        /\ work' = [work EXCEPT ![t] = top.request]
        /\ contextLine' = ContextNoLine /\ UNCHANGED contextSeen

\* The block ends, by returning or by raising: finally resets the variable to what it was.
LeaveScope(t) ==
    LET top == scopes[t][Len(scopes[t])]
    IN  /\ scopes[t] # <<>>
        /\ ctx' = [ctx EXCEPT ![t] = top.saved]
        /\ scopes' = [scopes EXCEPT ![t] = SubSeq(@, 1, Len(@) - 1)]
        /\ work' = [work EXCEPT ![t] = top.request]
        /\ contextLine' = ContextNoLine /\ UNCHANGED contextSeen

\* asyncio copies the context of the task that creates another one.
Spawn(t, child) ==
    /\ work[t] # "free" /\ work[child] = "free"
    /\ work' = [work EXCEPT ![child] = work[t]]
    /\ ctx' = [ctx EXCEPT ![child] = ctx[t]]
    /\ contextSeen' = [contextSeen EXCEPT !.cleared = IF t \in @ THEN @ \union {child} ELSE @ \ {child}]
    /\ contextLine' = ContextNoLine /\ UNCHANGED scopes

(* Lines                                                                   *)

request_fields_Always(t, given) == ctx[t].fields

\* What _request_fields makes of a line about a user: a context replaces every identifier,
\* those it does not have by nothing; without one the line keeps its own.
request_fields(t, given) ==
    IF ctx[t].set THEN ctx[t].fields ELSE [NoFields EXCEPT !.user_id = given]

\* PerformanceLogger, SecurityLogger, BusinessLogger and the logging module: a line about a
\* user, or about none.
Log(t, given) ==
    /\ work[t] # "free"
    /\ contextLine' = [task |-> t, request |-> work[t], given |-> given, fields |-> request_fields(t, given)]
    /\ UNCHANGED <<ctx, scopes, work, contextSeen>>

ContextNext ==
    \E t \in ContextTasks :
        \/ Identify(t) \/ clear_request_context(t) \/ EnterScope(t) \/ LeaveScope(t)
        \/ \E r \in ContextRequests : BeginRequest(t, r)
        \/ \E u \in ContextTasks : Spawn(t, u)
        \/ \E given \in {ContextNone, Outside} : Log(t, given)

ContextSpec == ContextInit /\ [][ContextNext]_contextVars

\* Whatever tasks run, spawn tasks and leave scopes, a line carries the identifier of the
\* request its task works for and of no other one; it lacks it only outside requests and
\* after clear_request_context. A user set in one request never shows in a line of another:
\* only one set outside of all scopes stays behind.
LinesNameTheirRequest ==
    /\ contextLine.fields.request_id \in {ContextNone, contextLine.request}
    /\ contextLine.fields.request_id = ContextNone => contextLine.request = ContextNone \/ contextLine.task \in contextSeen.cleared
    /\ contextLine.fields.user_id \in {ContextNone, contextLine.request, contextLine.given, Outside}
    /\ contextLine.fields.user_id = Outside => contextLine.given = Outside \/ contextSeen.bare

\* A line about a user loses that user only to a request context: one of a request or one
\* set outside of any.
NamedUserIsKept ==
    contextLine.given \notin {ContextNone, contextLine.fields.user_id} => contextLine.request # ContextNone \/ contextSeen.bare

-----------------------------------------------------------------------------
(***************************************************************************)
(* MartyStructuredLogger of marty_common/logging/structured_logging.py:    *)
(* setting up a service configures structlog and the root logger of the    *)
(* whole process. The loggers structlog hands out bind themselves to the   *)
(* configuration of their first use; those of the logging module go        *)
(* through the handlers of the root logger.                                *)
(***************************************************************************)
CONSTANTS
    LoggingServices, \* service names
    Loggers         \* objects returned by get_logger

LoggingNone == "none"
Levels == {"INFO", "ERROR"}

VARIABLES
    config,         \* structlog: service and level configured last
    root,           \* the root logger: its level, its handlers and the service they name
    bound,          \* configuration each structlog logger is bound to since its first use
    files,          \* log files held open, of handlers in use or dropped
    loggingLine,    \* the line written by the last step
    loggingSeen     \* history: loggers used before the last set-up, what it asked for

loggingVars == <<config, root, bound, files, loggingLine, loggingSeen>>

Unconfigured == [service |-> LoggingNone, level |-> "INFO"]
Configured == [service : LoggingServices \union {LoggingNone}, level : Levels]
LoggingNoLine == [by |-> LoggingNone, service |-> LoggingNone, level |-> "INFO", to |-> {}]

LoggingTypeOK ==
    /\ config \in Configured /\ bound \in [Loggers -> Configured]
    /\ root \in [service : LoggingServices \union {LoggingNone}, level : Levels,
                 handlers : SUBSET {"console", "file", "syslog"}]
    /\ files \subseteq LoggingServices
    /\ loggingLine \in [by : {LoggingNone, "structlog", "standard"}, service : LoggingServices \union {LoggingNone}, level : Levels,
                        to : SUBSET {"console", "file", "syslog"}]
    /\ loggingSeen \in [old : SUBSET Loggers, wanted : SUBSET {"console", "file", "syslog"}]

\* Before any set-up the root logger has no handlers.
LoggingInit ==
    /\ config = Unconfigured
    /\ root = [service |-> LoggingNone, level |-> "ERROR", handlers |-> {}]
    /\ bound = [l \in Loggers |-> Unconfigured]
    /\ files = {} /\ loggingLine = LoggingNoLine
    /\ loggingSeen = [old |-> {}, wanted |-> {}]

(* __init__                                                                *)

setup_structlog_Once(s, level) ==
    config' = IF config.service = LoggingNone THEN [service |-> s, level |-> level] ELSE config

setup_structlog(s, level) == config' = [service |-> s, level |-> level]

Handlers_AllOrNone(wanted, up) == IF up \/ "syslog" \notin wanted THEN wanted ELSE {}

\* Syslog comes last and is left out when its socket cannot be opened.
Handlers(wanted, up) == IF up THEN wanted ELSE wanted \ {"syslog"}

\* The handlers there were are dropped, and not closed.
setup_standard_logging(s, level, wanted, up) ==
    /\ root' = [service |-> s, level |-> level, handlers |-> Handlers(wanted, up)]
    /\ files' = IF "file" \in wanted THEN files \union {s} ELSE files

\* A LOG_LEVEL that is not one, or a log directory that cannot be made, raises before.
Setup(s, level, wanted, up) ==
    /\ setup_structlog(s, level)
    /\ setup_standard_logging(s, level, wanted, up)
    /\ loggingSeen' = [old |-> {l \in Loggers : bound[l].service # LoggingNone}, wanted |-> wanted]
    /\ loggingLine' = LoggingNoLine /\ UNCHANGED bound

Rank(level) == IF level = "ERROR" THEN 2 ELSE 1

(* Lines                                                                   *)

\* The configuration a logger writes with: its own, or the current one from its first line on.
Binding(l) == IF bound[l].service = LoggingNone THEN config ELSE bound[l]

\* PerformanceLogger, SecurityLogger and BusinessLogger: written to the standard output, past
\* the handlers, if the level the logger was bound with lets it through.
LogEvent(l, level) ==
    /\ config.service # LoggingNone
    /\ bound' = [bound EXCEPT ![l] = Binding(l)]
    /\ loggingLine' = IF Rank(level) >= Rank(Binding(l).level)
                      THEN [by |-> "structlog", service |-> Binding(l).service, level |-> level, to |-> {"console"}]
                      ELSE LoggingNoLine
    /\ UNCHANGED <<config, root, files, loggingSeen>>

LogStandard(level) ==
    /\ root.handlers # {} /\ Rank(level) >= Rank(root.level)
    /\ loggingLine' = [by |-> "standard", service |-> root.service, level |-> level, to |-> root.handlers]
    /\ UNCHANGED <<config, root, bound, files, loggingSeen>>

LoggingNext ==
    \/ \E l \in Loggers, level \in Levels : LogEvent(l, level)
    \/ \E level \in Levels : LogStandard(level)
    \/ \E s \in LoggingServices, level \in Levels, wanted \in SUBSET {"console", "file", "syslog"}, up \in BOOLEAN :
          Setup(s, level, wanted, up)

LoggingSpec == LoggingInit /\ [][LoggingNext]_loggingVars

\* After another service is set up in the process, a logger goes on naming the earlier one,
\* with its level, only if it was used before; the loggers used for the first time since and
\* the handlers of the root logger agree on the service.
OldNameNeedsUse ==
    /\ \A l \in Loggers : bound[l].service \notin {LoggingNone, root.service} => l \in loggingSeen.old
    /\ loggingLine.by = "structlog" /\ loggingLine.service # root.service => loggingSeen.old # {}

\* A syslog server that cannot be reached costs no line in the file or on the console, and
\* a line in the file of a service has that file open.
FileSurvivesSyslog ==
    /\ loggingSeen.wanted \ {"syslog"} \subseteq root.handlers
    /\ "file" \in loggingLine.to => loggingLine.service \in files
=============================================================================
