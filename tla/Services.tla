------------------------------ MODULE Services ------------------------------
(***************************************************************************)
(* The components of the services that share no state with one another,    *)
(* model-checked in one run: the disjoint union of those of Entitlements   *)
(* and of the ones below, whose INSTANCE statements fix their constants. A *)
(* behaviour follows one component, the one in focus. The properties       *)
(* gather those of the components, stated and explained in their modules,  *)
(* by what they are about.                                                 *)
(***************************************************************************)
EXTENDS Entitlements

Limiter == INSTANCE RateLimiter WITH
    Threads <- {"t1", "t2"}, Burst <- 1, PerMinute <- 1, PerHour <- 1, Minute <- 0, Hour <- 1,
    MaxTime <- 2, redis <- v1, clock <- v2, stored <- v3, expires <- v4, heap <- v5, call <- v6,
    admitted <- v7, doubled <- v8
Tables == INSTANCE Repositories WITH
    Sessions <- {"s1", "s2"}, MaxVersion <- 3, table <- v1, row <- v2, session <- v3
Anomalies == INSTANCE AnomalyMonitor WITH
    Recorders <- {"r1", "r2"}, Hour <- 1, Day <- 2, Learning <- 2, MinEvents <- 2,
    MaxEvents <- 2, MaxStarts <- 2, MaxTime <- 1, clock <- v1, watched <- v2, events <- v3,
    holder <- v4, listeners <- v5, recording <- v6, monitor <- v7, alerts <- v8, immediate <- v9
Server == INSTANCE ServerInterceptor WITH
    Requests <- {"r1", "r2"}, Threshold <- 2, Recovery <- 1, MaxRequests <- 4, kind <- v1,
    state <- v2, failures <- v3, successes <- v4, opened <- v5, failed <- v6, slots <- v7,
    running <- v8, metrics <- v9, lost <- v10, faults <- v11
Metrics == INSTANCE ResilienceMetrics WITH
    Threads <- {"t1", "t2"}, MaxRecords <- 2, MaxHistory <- 1, counters <- v1, histograms <- v2,
    history <- v3, script <- v4, records <- v5, caught <- v6
Checked == INSTANCE Health WITH
    Checks <- {"resources"}, MaxStarts <- 2, MaxAge <- 1, running <- v1, loops <- v2,
    started <- v3, pool <- v4, executor <- v5, stopper <- v6, samples <- v7, alert <- v8,
    Deps <- {"database", "http"}, dep <- v1, registered <- v2, checks <- v3, probe <- v4,
    report <- v5
Observed == INSTANCE Observability WITH
    Callers <- {"c1", "c2"}, MaxServers <- 3, serverRunning <- v1, task <- v2, live <- v3,
    crashed <- v4, created <- v5, caller <- v6, waiters <- v7, waking <- v8, raced <- v9,
    AuditRequests <- {"r1"}, MaxEntries <- 3, AuditMaxTime <- 1, auditConfigured <- v1,
    entries <- v2, backend <- v3, unstored <- v4, recorded <- v5, first <- v6, clock <- v7,
    auditLevel <- v8,
    Threads <- {"t1", "t2"}, Collectors <- {"c1", "c2"}, MaxCounts <- 2, engineMade <- v1,
    registered <- v2, counter <- v3, exported <- v4, pc <- v5, job <- v6, finished <- v7,
    engineRefused <- v8, overlapped <- v9,
    MaxCalls <- 4, Day <- 3, ErrorWindow <- 1, RequestWindow <- 2, ErrorLimit <- 1, Limit <- 2,
    Keep <- 1, ActivityMaxTime <- 4, now <- v1, activityMade <- v2, activityRunning <- v3,
    requests <- v4, errors <- v5, failures <- v6, memory <- v7, look <- v8, check <- v9,
    TraceServices <- {"x", "y"}, Spans <- {"s1", "s2"}, MaxInits <- 2, enabled <- v1,
    console <- v2, instrumented <- v3, tracer <- v4, providers <- v5, grpc <- v6, span <- v7,
    current <- v8, traceRefused <- v9,
    ContextTasks <- {"a", "b"}, ContextRequests <- {"r1", "r2"}, MaxDepth <- 2, ctx <- v1,
    scopes <- v2, work <- v3, contextLine <- v4, contextSeen <- v5,
    LoggingServices <- {"x", "y"}, Loggers <- {"l", "m"}, config <- v1, root <- v2, bound <- v3,
    files <- v4, loggingLine <- v5, loggingSeen <- v6
Failures == INSTANCE ErrorsAndRetries WITH
    ErrorMaxAttempts <- 3, stage <- v1, origin <- v2, exc <- v3, wrapper <- v4, attempts <- v5,
    answer <- v6,
    RetryCallers <- {"a", "b"}, RetryMaxAttempts <- 5, RetryMaxCalls <- 2, Base <- 200,
    RetryMaxDelay <- 3000, retryCall <- v1, retryMetrics <- v2, started <- v3, hidden <- v4,
    Requests <- {"r1", "r2"}, answerMetrics <- v1, inject <- v2, active <- v3, request <- v4,
    overlapped <- v5,
    PacingCallers <- {"a", "b"}, PacingMaxAttempts <- 3, PacingMaxDelay <- 30, Timeout <- 40,
    Duration <- 10, Window <- 2, PacingMaxCalls <- 2, strategy <- v1, base <- v2,
    pacingCall <- v3, stats <- v4, outcomes <- v5, delays <- v6, seen <- v7
Schema == INSTANCE Migrations WITH
    Stamps <- {0, 5, 6, 8, 11}, dialect <- v1, started <- v2, level <- v3, schema <- v4,
    holder <- v5, wanted <- v6, bare <- v7, posture <- v8, framework <- v9
Records == INSTANCE ServiceRecords WITH
    RecordTasks <- {"t1", "t2"}, Values <- {1, 2}, MaxWrites <- 2, row <- v1, instance <- v2,
    recordPc <- v3, loaded <- v4, change <- v5, intended <- v6, deleted <- v7, stale <- v8,
    writes <- v9,
    PoolTasks <- {"t1", "t2", "t3"}, MaxEngines <- 3, engine <- v1, factory <- v2, made <- v3,
    idle <- v4, poolPc <- v5, using <- v6, closed <- v7, overlap <- v8,
    Names <- {"a", "b"}, Dirs <- {"d1", "d2"}, MaxRevisions <- 2, url <- v1, env <- v2,
    scripts <- v3, schemas <- v4, version <- v5, name <- v6, cfg <- v7, verified <- v8,
    Clients <- {"a", "b"}, Keys <- {"k", "m"}, Starters <- {"x", "y"}, Pool <- 2,
    MaxLength <- 2, rows <- v1, batchSession <- v2, outcome <- v3, tables <- v4, starter <- v5,
    seen <- v6
Settings == INSTANCE Configuration WITH
    Hosted <- {"csca", "document_signer", "trust_anchor", "open_badges", "trust_svc", "ui"},
    environment <- v1, bound <- v2, refused <- v3, up <- v4,
    ServiceNames <- {"a"}, EnvNames <- {"dev", "prod"}, ServiceMaxEdits <- 2,
    serviceFile <- v1, serviceEnviron <- v2, cache <- v3, loaded <- v4, stuck <- v5,
    serviceEdits <- v6,
    MaxSteps <- 4, presetConfig <- v1, origin <- v2, disk <- v3, saved <- v4,
    presetEnviron <- v5, steps <- v6,
    SettingsMaxEdits <- 2, settingsFile <- v1, settingsEnviron <- v2, secret <- v3,
    settingsConfig <- v4, service <- v5, enhanced <- v6, answer <- v7, settingsEdits <- v8,
    seen <- v9
Documents == INSTANCE TravelDocument WITH
    Years <- {1, 2}, Century <- 2, subject <- v1, passport <- v2, mrz <- v3, icao <- v4,
    saved <- v5, changed <- v6, birth_assigned <- v7, outcome <- v8, sod <- v9, cmc <- v10,
    verified <- v11
Chip == INSTANCE PassportChip WITH
    Sizes <- {24, 90, 2000}, MaxRecords <- 2, MaxGroups <- 1, cv2 <- v1, assess <- v2,
    validate <- v3, group <- v4, templates <- v5, stored <- v6, events <- v7,
    Passports <- {"p1", "p2"}, MaxCalls <- 5, nfcHost <- v1, nfcKind <- v2, frontend <- v3,
    field <- v4, found <- v5, outcome <- v6, scanned <- v7, reads <- v8, calls <- v9,
    Readers <- {"a", "b"}, cardHost <- v1, plugged <- v2, card <- v3, known <- v4, held <- v5,
    link <- v6, broken <- v7, answer <- v8
Chaos == INSTANCE ChaosInjection WITH
    Trials <- {"a", "b"}, Threshold <- 1, RecoveryRequests <- 2, pc <- v1, failing <- v2,
    task <- v3, active <- v4, overlapped <- v5, breaker <- v6, results <- v7
Signatures == INSTANCE SignatureDocuments WITH
    MaxHops <- 4, class <- v1, first <- v2, sender <- v3, doc <- v4, hops <- v5, shared <- v6,
    certified <- v7
Catalog == INSTANCE SigningCatalog WITH
    Runs <- {"r1", "r2"}, Signers <- {"jwt"}, Foreign <- {"x"}, Endpoints <- {"e1", "e2"},
    TokenRefs <- {"t1", "t2"}, services <- v1, defaults <- v2, pc <- v3, env <- v4,
    written <- v5, raced <- v6, known <- v7, settled <- v8, wrote <- v9

-----------------------------------------------------------------------------
Init ==
    \/ EntitlementInit
    \/ focus = "rate_limiter" /\ Limiter!Init /\ Unused9
    \/ focus = "repositories" /\ Tables!Init /\ Unused4
    \/ focus = "anomalies" /\ Anomalies!Init /\ Unused10
    \/ focus = "server_interceptor" /\ Server!Init /\ Unused12
    \/ focus = "resilience_metrics" /\ Metrics!Init /\ Unused7
    \/ focus = "health_monitor" /\ Checked!MonitorInit /\ Unused9
    \/ focus = "metrics_server" /\ Observed!ServerInit /\ Unused10
    \/ focus = "health_reports" /\ Checked!ReportInit /\ Unused6
    \/ focus = "error_translation" /\ Failures!ErrorInit /\ Unused7
    \/ focus = "migrations" /\ Schema!Init /\ Unused10
    \/ focus = "records" /\ Records!RecordInit /\ Unused10
    \/ focus = "service_database" /\ Records!PoolInit /\ Unused9
    \/ focus = "ports" /\ Settings!PortInit /\ Unused5
    \/ focus = "documents" /\ Documents!Init /\ Unused12
    \/ focus = "biometrics" /\ Chip!FaceInit /\ Unused8
    \/ focus = "chaos" /\ Chaos!Init /\ Unused8
    \/ focus = "retry_decorator" /\ Failures!RetryInit /\ Unused5
    \/ focus = "key_vault" /\ Custody!VaultInit /\ Unused10
    \/ focus = "audit" /\ Observed!AuditInit /\ Unused9
    \/ focus = "consistency_metrics" /\ Observed!EngineInit /\ Unused10
    \/ focus = "configuration" /\ Settings!ServiceInit /\ Unused7
    \/ focus = "resilience_settings" /\ Settings!PresetInit /\ Unused7
    \/ focus = "nfc" /\ Chip!NfcInit /\ Unused10
    \/ focus = "signatures" /\ Signatures!Init /\ Unused8
    \/ focus = "openxpki" /\ Custody!XpkiInit /\ Unused7
    \/ focus = "web_requests" /\ Authz!WebInit /\ Unused7
    \/ focus = "alembic" /\ Records!AlembicInit /\ Unused9
    \/ focus = "activity_alerts" /\ Observed!ActivityInit /\ Unused10
    \/ focus = "signing_catalog" /\ Catalog!Init /\ Unused10
    \/ focus = "tracing" /\ Observed!TraceInit /\ Unused10
    \/ focus = "request_context" /\ Observed!ContextInit /\ Unused6
    \/ focus = "logging_setup" /\ Observed!LoggingInit /\ Unused7
    \/ focus = "batches" /\ Records!BatchInit /\ Unused7
    \/ focus = "service_settings" /\ Settings!SettingsInit /\ Unused10
    \/ focus = "card_readers" /\ Chip!CardInit /\ Unused9
    \/ focus = "server_answers" /\ Failures!AnswerInit /\ Unused6
    \/ focus = "retry_pacing" /\ Failures!PacingInit /\ Unused8

Next ==
    \/ EntitlementNext
    \/ focus = "rate_limiter" /\ Limiter!Next /\ UNCHANGED <<focus, v9, v10, v11, v12>>
    \/ focus = "repositories" /\ Tables!Next /\ UNCHANGED <<focus, v4, v5, v6, v7, v8, v9, v10, v11, v12>>
    \/ focus = "anomalies" /\ Anomalies!Next /\ UNCHANGED <<focus, v10, v11, v12>>
    \/ focus = "server_interceptor" /\ Server!Next /\ UNCHANGED <<focus, v12>>
    \/ focus = "resilience_metrics" /\ Metrics!Next /\ UNCHANGED <<focus, v7, v8, v9, v10, v11, v12>>
    \/ focus = "health_monitor" /\ Checked!MonitorNext /\ UNCHANGED <<focus, v9, v10, v11, v12>>
    \/ focus = "metrics_server" /\ Observed!ServerNext /\ UNCHANGED <<focus, v10, v11, v12>>
    \/ focus = "health_reports" /\ Checked!ReportNext /\ UNCHANGED <<focus, v6, v7, v8, v9, v10, v11, v12>>
    \/ focus = "error_translation" /\ Failures!ErrorNext /\ UNCHANGED <<focus, v7, v8, v9, v10, v11, v12>>
    \/ focus = "migrations" /\ Schema!Next /\ UNCHANGED <<focus, v10, v11, v12>>
    \/ focus = "records" /\ Records!RecordNext /\ UNCHANGED <<focus, v10, v11, v12>>
    \/ focus = "service_database" /\ Records!PoolNext /\ UNCHANGED <<focus, v9, v10, v11, v12>>
    \/ focus = "ports" /\ Settings!PortNext /\ UNCHANGED <<focus, v5, v6, v7, v8, v9, v10, v11, v12>>
    \/ focus = "documents" /\ Documents!Next /\ UNCHANGED <<focus, v12>>
    \/ focus = "biometrics" /\ Chip!FaceNext /\ UNCHANGED <<focus, v8, v9, v10, v11, v12>>
    \/ focus = "chaos" /\ Chaos!Next /\ UNCHANGED <<focus, v8, v9, v10, v11, v12>>
    \/ focus = "retry_decorator" /\ Failures!RetryNext /\ UNCHANGED <<focus, v5, v6, v7, v8, v9, v10, v11, v12>>
    \/ focus = "key_vault" /\ Custody!VaultNext /\ UNCHANGED <<focus, v10, v11, v12>>
    \/ focus = "audit" /\ Observed!AuditNext /\ UNCHANGED <<focus, v9, v10, v11, v12>>
    \/ focus = "consistency_metrics" /\ Observed!EngineNext /\ UNCHANGED <<focus, v10, v11, v12>>
    \/ focus = "configuration" /\ Settings!ServiceNext /\ UNCHANGED <<focus, v7, v8, v9, v10, v11, v12>>
    \/ focus = "resilience_settings" /\ Settings!PresetNext /\ UNCHANGED <<focus, v7, v8, v9, v10, v11, v12>>
    \/ focus = "nfc" /\ Chip!NfcNext /\ UNCHANGED <<focus, v10, v11, v12>>
    \/ focus = "signatures" /\ Signatures!Next /\ UNCHANGED <<focus, v8, v9, v10, v11, v12>>
    \/ focus = "openxpki" /\ Custody!XpkiNext /\ UNCHANGED <<focus, v7, v8, v9, v10, v11, v12>>
    \/ focus = "web_requests" /\ Authz!WebNext /\ UNCHANGED <<focus, v7, v8, v9, v10, v11, v12>>
    \/ focus = "alembic" /\ Records!AlembicNext /\ UNCHANGED <<focus, v9, v10, v11, v12>>
    \/ focus = "activity_alerts" /\ Observed!ActivityNext /\ UNCHANGED <<focus, v10, v11, v12>>
    \/ focus = "signing_catalog" /\ Catalog!Next /\ UNCHANGED <<focus, v10, v11, v12>>
    \/ focus = "tracing" /\ Observed!TraceNext /\ UNCHANGED <<focus, v10, v11, v12>>
    \/ focus = "request_context" /\ Observed!ContextNext /\ UNCHANGED <<focus, v6, v7, v8, v9, v10, v11, v12>>
    \/ focus = "logging_setup" /\ Observed!LoggingNext /\ UNCHANGED <<focus, v7, v8, v9, v10, v11, v12>>
    \/ focus = "batches" /\ Records!BatchNext /\ UNCHANGED <<focus, v7, v8, v9, v10, v11, v12>>
    \/ focus = "service_settings" /\ Settings!SettingsNext /\ UNCHANGED <<focus, v10, v11, v12>>
    \/ focus = "card_readers" /\ Chip!CardNext /\ UNCHANGED <<focus, v9, v10, v11, v12>>
    \/ focus = "server_answers" /\ Failures!AnswerNext /\ UNCHANGED <<focus, v6, v7, v8, v9, v10, v11, v12>>
    \/ focus = "retry_pacing" /\ Failures!PacingNext /\ UNCHANGED <<focus, v8, v9, v10, v11, v12>>

Spec == Init /\ [][Next]_vars

-----------------------------------------------------------------------------
\* Each component keeps its state within its type.
TypeOK ==
    /\ focus = "rate_limiter" => Limiter!TypeOK
    /\ focus = "repositories" => Tables!TypeOK
    /\ focus = "anomalies" => Anomalies!TypeOK
    /\ focus = "server_interceptor" => Server!TypeOK
    /\ focus = "resilience_metrics" => Metrics!TypeOK
    /\ focus = "health_monitor" => Checked!MonitorTypeOK
    /\ focus = "metrics_server" => Observed!ServerTypeOK
    /\ focus = "health_reports" => Checked!ReportTypeOK
    /\ focus = "error_translation" => Failures!ErrorTypeOK
    /\ focus = "access_control" => Access!TypeOK
    /\ focus = "gateway" => Authz!GatewayTypeOK
    /\ focus = "rpc" => Authz!RpcTypeOK
    /\ focus = "migrations" => Schema!TypeOK
    /\ focus = "roles" => Custody!RoleTypeOK
    /\ focus = "records" => Records!RecordTypeOK
    /\ focus = "service_database" => Records!PoolTypeOK
    /\ focus = "ports" => Settings!PortTypeOK
    /\ focus = "crew" => Crew!TypeOK
    /\ focus = "documents" => Documents!TypeOK
    /\ focus = "biometrics" => Chip!FaceTypeOK
    /\ focus = "chaos" => Chaos!TypeOK
    /\ focus = "retry_decorator" => Failures!RetryTypeOK
    /\ focus = "key_vault" => Custody!VaultTypeOK
    /\ focus = "audit" => Observed!AuditTypeOK
    /\ focus = "consistency_metrics" => Observed!EngineTypeOK
    /\ focus = "configuration" => Settings!ServiceTypeOK
    /\ focus = "resilience_settings" => Settings!PresetTypeOK
    /\ focus = "nfc" => Chip!NfcTypeOK
    /\ focus = "signatures" => Signatures!TypeOK
    /\ focus = "openxpki" => Custody!XpkiTypeOK
    /\ focus = "service_authorization" => Authz!ServiceTypeOK
    /\ focus = "web_requests" => Authz!WebTypeOK
    /\ focus = "alembic" => Records!AlembicTypeOK
    /\ focus = "activity_alerts" => Observed!ActivityTypeOK
    /\ focus = "signing_catalog" => Catalog!TypeOK
    /\ focus = "tracing" => Observed!TraceTypeOK
    /\ focus = "request_context" => Observed!ContextTypeOK
    /\ focus = "logging_setup" => Observed!LoggingTypeOK
    /\ focus = "batches" => Records!BatchTypeOK
    /\ focus = "service_settings" => Settings!SettingsTypeOK
    /\ focus = "policies" => Authz!PolicyTypeOK
    /\ focus = "card_readers" => Chip!CardTypeOK
    /\ focus = "server_answers" => Failures!AnswerTypeOK
    /\ focus = "retry_pacing" => Failures!PacingTypeOK

\* Limits and counters under interleavings that no lock excludes: what a race can add to a
\* limit, or take from a count, is bounded and has a cause.
\* - DebtNeedsOverlap: A client of the rate limiter runs into debt only with the memory
\*   backend, and only once two threads have both found its last token before either took it;
\*   nothing lifts a balance above burst_size.
\* - LimitOvershoot: In the first hour of a client the memory backend admits at most one full
\*   window per thread, plus one request of each other thread that saw the last free place: a
\*   thread that created the client's bucket while others filled theirs discards one window when
\*   it stores its own.
\* - NoSpam: "Don't spam alerts": of one type, at most one immediate alert is stored per hour,
\*   also with listeners registered twice and events recorded by several threads at once: the
\*   collector's lock covers look and store.
\* - RequestsAccountedFor: RequestMetrics accounts for every request: it is running, succeeded,
\*   failed, was rejected, or its client went away; injected failures are among the failed ones.
\* - OutcomesMatchRequests: The numbers of one report fit each other although a request is
\*   recorded in several steps: requests and outcomes differ by the threads between the two, and
\*   after a reset at most by those it found half way, whose outcomes are counted while their
\*   requests no longer are.
\* - ShortNeedsOverlap: get_metric_summary is short of the increments completed only if two
\*   threads incremented the counter at the same time.
\* - ExportedIsCounted: What Prometheus exports under a service name is what the one collector
\*   that could register completed, less the increments that were refused for their labels,
\*   however the threads overlap.
\* - MissedNeedsExhaustion: A call of which the metrics have no outcome is under way or ended
\*   with a retryable exception, whose last failure they count as one more retry.
\* - DriftNeedsOverlap: When nobody is inside, the count is zero unless two requests updated it
\*   at once.
\* - WaitsAreCapped: Whatever the strategy, the jitter and the recent past, no retry waits
\*   longer than max_delay, and the average that later delays are drawn towards stays below it
\*   too.
\* - UncountedNeedsZero: What the metrics do not know of the calls and their tries is accounted
\*   for: a call they have no outcome of was cancelled or is under way, and a try they did not
\*   count was one without a delay, of which there is none when base_delay is positive.
LimitsUnderRaces ==
    /\ focus = "rate_limiter" => Limiter!DebtNeedsOverlap /\ Limiter!LimitOvershoot
    /\ focus = "anomalies" => Anomalies!NoSpam
    /\ focus = "server_interceptor" => Server!RequestsAccountedFor
    /\ focus = "resilience_metrics" => Metrics!OutcomesMatchRequests
    /\ focus = "consistency_metrics" => Observed!ShortNeedsOverlap /\ Observed!ExportedIsCounted
    /\ focus = "retry_decorator" => Failures!MissedNeedsExhaustion
    /\ focus = "server_answers" => Failures!DriftNeedsOverlap
    /\ focus = "retry_pacing" => Failures!WaitsAreCapped /\ Failures!UncountedNeedsZero

\* What is lost, left behind or mixed up in shared state, and what must have happened for it:
\* another session, coroutine, run or fault between the two halves of an operation, never one
\* caller alone.
\* - LostNeedsStale: An update that was committed is undone by an update of another column,
\*   which writes back every attribute of its instance, only when that instance was read before
\*   it.
\* - RevivedNeedsStale: A deleted row comes back without being created only through such an
\*   instance: merge makes a new row of it.
\* - LeakNeedsOverlap: Connections stay open in the pool of an engine nobody can close any more
\*   only when a session was begun, or a second close, while a close was waiting: it then
\*   forgets an engine that is in use, or one made after it began.
\* - ServerReachable: As long as no stop is called while another one waits, a server that serves
\*   is the one _server_task names and _running says so: the next stop reaches it.
\* - CleanupNeedsOverlap: A cleanup fails, and leaves visa-free records behind, only beside
\*   another one.
\* - HiddenNeedsOverlap: is_chaos_active answers no during an injection only if a second one on
\*   the same target began meanwhile: whichever ends first removes the entry of the other.
\* - NothingLeftActive: When every context was left nothing is marked active, whatever was
\*   cancelled and wherever the cancellation found it.
\* - MismatchNeedsTwoTypes: A caller whose ensure_key returned relies on a key of another type
\*   than it asked for only if the other type was asked for too, before or at the same time: an
\*   existing key is never compared with the request.
\* - SplitNeedsRotation: The public key a caller reads after signing belongs to another version
\*   than its signature only if Vault rotated the key in between; neither answer says which
\*   version it is about.
\* - LostNeedsFault: An entry that is neither in the list nor in the backend was lost by a
\*   restart after the backend had failed to store it: the failure is logged and never made up
\*   for.
\* - LatestNeedsClock: A query for the latest entry answers with the one recorded last, unless
\*   two entries of this run carry the same time or the clock went back: among equals the older
\*   entry comes first and the limit cuts the newer.
\* - LostNeedsRace: A service that another client registered disappears only if it was
\*   registered, or updated, between a run's get_config and its patch_config: the merge keeps
\*   every service it has read, but the PATCH carries no version.
\* - RefusedNeedsTrouble: "Authentication failed" has a cause during the request itself: a login
\*   that failed, a session ended, a server error, or another request.
\* - PerformedOnce: A request is performed at most once, although it may be sent twice and
\*   callers throw away one another's sessions: only a request the server refused is repeated.
\* - SilenceNeedsRace: A service that is not silent is called unresponsive only when a request
\*   came between the two questions of the check.
\* - OpenIsReachable: A card whose connection is open belongs to a reader the manager knows and
\*   believes connected: disconnect_all reaches every card, whatever failed before.
\* - HeldNeedsFault: A reader that says it is connected and is not has lost its card, or its
\*   opening failed: connect said False and is_connected says True.
\* - BatchIsOneStep: All or nothing, as the caller sees it: with its results every row of its
\*   batch is there; after an error or a cancellation none is, unless the commit was done and
\*   not answered: then all are, and the batch tried again fails on its own keys.
\* - FailedStartNeedsOverlap: A service whose create_all did not fail by itself fails to start
\*   only when another one was creating the tables at the same time; and one that starts has
\*   them, whoever created them.
LossNeedsOverlap ==
    /\ focus = "records" => Records!LostNeedsStale /\ Records!RevivedNeedsStale
    /\ focus = "service_database" => Records!LeakNeedsOverlap
    /\ focus = "metrics_server" => Observed!ServerReachable
    /\ focus = "crew" => Crew!CleanupNeedsOverlap
    /\ focus = "chaos" => Chaos!HiddenNeedsOverlap /\ Chaos!NothingLeftActive
    /\ focus = "key_vault" => Custody!MismatchNeedsTwoTypes /\ Custody!SplitNeedsRotation
    /\ focus = "audit" => Observed!LostNeedsFault /\ Observed!LatestNeedsClock
    /\ focus = "signing_catalog" => Catalog!LostNeedsRace
    /\ focus = "openxpki" => Custody!RefusedNeedsTrouble /\ Custody!PerformedOnce
    /\ focus = "activity_alerts" => Observed!SilenceNeedsRace
    /\ focus = "card_readers" => Chip!OpenIsReachable /\ Chip!HeldNeedsFault
    /\ focus = "batches" => Records!BatchIsOneStep /\ Records!FailedStartNeedsOverlap

\* What an error means survives its way through decorators, retries, breakers and the wire, or
\* is lost in the named place only.
\* - RetryNeedsConsent: A client retries only what the server's error allowed it to: an answer
\*   it takes as retriable comes from an error that is_retriable_error calls so on the server.
\* - UserErrorsFailFast: A user's mistake that goes through handle_common_exceptions is reported
\*   over HTTP as one: 400, and not to be retried.
\* - TripsNeedFaults: "Don't trip circuit breaker on client errors": with the enhanced
\*   interceptor an open breaker means that the service itself failed at least as often as the
\*   threshold says, whatever clients send.
\* - GivenUpAfterHalf: Delays count twice against total_timeout: a call may be given up early,
\*   but not before half of its time is gone.
\* - DroppedNeedsError: A template that was validated and is in no stored group was dropped with
\*   the rest of its group by an error that was logged, or is still being read: one bad record
\*   costs the good ones read before it.
ErrorsKeepMeaning ==
    /\ focus = "error_translation" => Failures!RetryNeedsConsent /\ Failures!UserErrorsFailFast
    /\ focus = "server_interceptor" => Server!TripsNeedFaults
    /\ focus = "retry_pacing" => Failures!GivenUpAfterHalf
    /\ focus = "biometrics" => Chip!DroppedNeedsError

\* The parts of a report or of an answer agree although they are computed at different times and
\* in different places, and a stopped monitor stays stopped.
\* - ReadyFitsChecks: The readiness that get_status reports is that of the checks it lists
\*   beside it, also when a dependency changes between its two rounds of checks ("healthy" may
\*   differ).
\* - HealthyHidesNothing: A monitor that says HEALTHY hides nothing that its checks have
\*   found: those that answered found their dependency up, and no resource above its limits,
\*   although later resources overwrite the status of earlier ones and a check that raises
\*   counts as healthy.
\* - StopIsFinal: Once stop has returned the pool runs no health check, and never will again: a
\*   loop that outlived its join finds the pool closed, and so does the loop of a later start.
\* - BurstsAreSeen: More than ErrorLimit errors within the window are always seen, although the
\*   list of samples is cut: what is kept is longer than what the condition needs (ErrorLimit <=
\*   Keep).
\* - WrongNeedsAgedSample: An alarm about errors nobody had lately, and silence that a finished
\*   check does not notice, come only from samples of the day before: their age starts again at
\*   zero.
\* - OtherIdNeedsTwoLayers: The id that a response carries is the one its request was logged
\*   under, unless the exception handlers brought a second layer and the client sent none: then
\*   each layer makes an id, and the log knows the other one.
\* - NotModifiedIsHeld: 304 is answered only to a client that holds what the handler just
\*   returned, however the resource changed in between, and never to a request with credentials
\*   or another method.
\* - LinesNameTheirRequest: Whatever tasks run, spawn tasks and leave scopes, a line carries the
\*   identifier of the request its task works for and of no other one; it lacks it only outside
\*   requests and after clear_request_context.
\* - NamedUserIsKept: A line about a user loses that user only to a request context: one of a
\*   request or one set outside of any.
\* - OneServiceName: Two spans are never recorded under two services: initialising again under
\*   another name reports success and changes nothing.
\* - AlteredIsSeen: Data altered behind the manager's back fails the compliance check until the
\*   next audit entry: the certificate is compliant on an altered record only when the hash was
\*   computed from the altered data.
\* - UnseenNeedsCause: A span that ends and is shown nowhere was begun before the first
\*   initialisation, or the collector refused it, or the exporter could not be configured the
\*   first time: no later initialisation, however it went, loses or saves a span.
\* - OldNameNeedsUse: After another service is set up in the process, a logger goes on naming
\*   the earlier one, with its level, only if it was used before; the loggers used for the first
\*   time since and the handlers of the root logger agree on the service.
\* - FileSurvivesSyslog: A syslog server that cannot be reached costs no line in the file or on
\*   the console, and a line in the file of a service has that file open.
\* - ExpiredUntilCleanup: An expired background check counts for compliance only until the next
\*   cleanup.
ReportsAgree ==
    /\ focus = "health_reports" => Checked!ReadyFitsChecks /\ Checked!HealthyHidesNothing
    /\ focus = "health_monitor" => Checked!StopIsFinal
    /\ focus = "activity_alerts" => Observed!BurstsAreSeen /\ Observed!WrongNeedsAgedSample
    /\ focus = "web_requests" => Authz!OtherIdNeedsTwoLayers /\ Authz!NotModifiedIsHeld
    /\ focus = "request_context" =>
        /\ Observed!LinesNameTheirRequest
        /\ Observed!NamedUserIsKept
    /\ focus = "tracing" => Observed!OneServiceName /\ Observed!UnseenNeedsCause
    /\ focus = "logging_setup" => Observed!OldNameNeedsUse /\ Observed!FileSurvivesSyslog
    /\ focus = "crew" => Crew!AlteredIsSeen /\ Crew!ExpiredUntilCleanup

\* Documents through any sequence of edits, hand-overs, saves and loads: what is kept, and the
\* one operation that must have happened where something is not.
\* - BytesSurvive: Signed bytes survive any number of hand-overs, also bytes that are themselves
\*   base64 text: every to_dict of EncapsulatedContent encodes once what the from_dict after it
\*   decodes once.
\* - SettlesInThree: Three hand-overs reach a form that no further one changes; fewer are not
\*   enough.
\* - SharedNeedsData: set_x509_certificate on a received KeyInfo changes the sender's too only
\*   if the sender had certificate data: the two then share one dictionary.
\* - UnloadableNeedsBirth: A passport that was saved can be loaded again, unless its date of
\*   birth was assigned after construction: that assignment does not run the validator that
\*   compares the two dates (models/passport.py, 232-240).
\* - FaultsLowerTheLevel: A fingerprint or an iris with two faults is never rated excellent, but
\*   a face may be: no brightness costs it a point.
\* - PointsFit: No fingerprint has more points than its bytes can hold, though the count it is
\*   rated by is only announced, not read.
DocumentsSurvive ==
    /\ focus = "signatures" =>
        /\ Signatures!BytesSurvive
        /\ Signatures!SettlesInThree
        /\ Signatures!SharedNeedsData
    /\ focus = "documents" => Documents!UnloadableNeedsBirth
    /\ focus = "biometrics" => Chip!FaultsLowerTheLevel /\ Chip!PointsFit

\* Schemas, settings, ports, offers and registries after any sequence of changes: what repeated
\* runs, reverted migrations and layered sources end in.
\* - SeedingSettles: A run that ended well, and that nobody followed, leaves a registry that the
\*   same settings would not change: _registry_needs_update accepts what _build_desired_registry
\*   produced, whatever runs overlapped before.
\* - ReUpgradeable: On PostgreSQL a migration that has been reverted can be applied again:
\*   nothing that its upgrade creates is still there.
\* - BindingSurvives: Whether a policy requires holder binding survives every sequence of
\*   upgrades and downgrades, unless 009 is reverted while it is required and no method is
\*   named.
\* - PortsBeatEverything: The override a caller passes for the port is not the last word, and
\*   neither is GRPC_PORT: an entry of ports for the service, even one in the environment's
\*   file, beats both.
\* - OtherNameNeedsBoth: A configuration is called after another environment than the one it
\*   was read from only if the caller named the one and ENV the other.
\* - OutOfRangeNeedsVariable: A failure rate above one is only ever in use if the environment
\*   gave it: saving and loading that configuration brings it back into range.
\* - ClashesAreNeighbours: The registry does not give every service ports of its own: of two
\*   services on one host a port is refused exactly when one has the base port after the
\*   other's, whose health port it is, or is trust_anchor beside csca, whose metrics port is the
\*   health port of the other; and then whichever starts second is the one refused.
\* - NeighboursNeverWhole: A service that runs with a neighbour beside it lacks a port of one of
\*   the two: on one host no two adjacent services ever have all six.
\* - IssuedHasToken: However redemptions of an offer and the issuance race, the status and the
\*   token of an OIDC session agree: it has left OFFER_CREATED exactly when an access token is
\*   stored.
\* - WrongNeedsRename: verify_schema is wrong about its directory, either way, only when the
\*   adapter's name is not the one env.py was written for: it was initialized under another name
\*   before, or a later initialize failed after assigning the name.
\* - MixNeedsEdit: A service works with its section of one version of the file and the database
\*   of another only if the file was edited after Config was made; and the database is never the
\*   newer.
\* - QuietDefaultsNeedCause: A service that runs on defaults without a word had no dependencies,
\*   or its file was missing, broken or without its section at that moment: it is not told
\*   apart.
\* - OwnPortLosesOnlyAsDefault: A port set for the service itself loses to GRPC_PORT only when
\*   it is the default one: a service told to keep its default port does not.
SettingsSettle ==
    /\ focus = "signing_catalog" => Catalog!SeedingSettles
    /\ focus = "migrations" => Schema!ReUpgradeable /\ Schema!BindingSurvives
    /\ focus = "configuration" => Settings!PortsBeatEverything /\ Settings!OtherNameNeedsBoth
    /\ focus = "resilience_settings" => Settings!OutOfRangeNeedsVariable
    /\ focus = "ports" => Settings!ClashesAreNeighbours /\ Settings!NeighboursNeverWhole
    /\ focus = "repositories" => Tables!IssuedHasToken
    /\ focus = "alembic" => Records!WrongNeedsRename
    /\ focus = "service_settings" =>
        /\ Settings!MixNeedsEdit
        /\ Settings!QuietDefaultsNeedCause
        /\ Settings!OwnPortLosesOnlyAsDefault

\* What no step may do to what was there before it: un-revoke, replace a key, forget, repair
\* itself, widen or reorder.
\* - RevocationSurvives: A revocation is undone only by an operation that is itself asked to set
\*   the status (update_status, upsert of a passport, a ledger event): no session that loaded
\*   the row before it was revoked and writes a signature, policies, details or a new
\*   certificate over it clears it.
\* - FailedReadsReplaceNothing: The type of a key never changes and its version never falls,
\*   although every failed read ends in a request to create the key.
\* - ForgottenNeedsRace: What the gateway found out about a service is taken back by a run only
\*   if it was found while some run was between its read and its write.
\* - StaleNeedsChange: The DG1 of an exported passport agrees, in its two-digit years, with
\*   every date that was not assigned or reloaded since the MRZ was stored.
\* - OnlyEmptinessIsLost: Apart from contents, a hand-over changes nothing but optional
\*   attributes that are empty, which become None: lists stay lists, and parameters that are
\*   empty, zero or false are kept.
\* - CrashWedges: A server that ended with an exception can never be replaced: stop raises
\*   instead of resetting _running, and start returns because of it.
\* - FailureSticks: A key in the environment's file that ServiceConfig refuses is fatal, and
\*   it is in the cache before it is: once a load has failed on it, every later load in that
\*   environment fails in this process, for any service and also after the file has been
\*   repaired; other environments load.
\* - ReloadWidensRetries: Saving a configuration and loading it again is not the identity: every
\*   number survives, apart from a failure rate out of range, but the reloaded one retries a
\*   TypeError and any unknown exception, which the saved one gave up on unless it had itself
\*   been loaded from a file.
\* - EnvironmentAllOrNothing: Variables count all together or not at all: when one does not
\*   parse, a load with use_defaults=True gives the defaults, environment development among
\*   them, and one without gives nothing.
\* - ScansEndWithRead: One read per initialisation: reading closes the frontend, and from then
\*   on every scan of a passport at the reader comes back empty, without an error, until the
\*   handler is initialised again.
\* - DiscardNeedsOverlap: A session that the server honours and the local clock does not end is
\*   thrown away only by a request that overlapped another: the 401 of the older session, or a
\*   login answered without one, clears the newer session.
StepsKeepHistory ==
    [][/\ focus = "repositories" => Tables!RevocationSurvives_Step
       /\ focus = "key_vault" => Custody!FailedReadsReplaceNothing_Step
       /\ focus = "signing_catalog" => Catalog!ForgottenNeedsRace_Step
       /\ focus = "documents" => Documents!StaleNeedsChange_Step
       /\ focus = "signatures" => Signatures!OnlyEmptinessIsLost_Step
       /\ focus = "metrics_server" => Observed!CrashWedges_Step
       /\ focus = "configuration" => Settings!FailureSticks_Step
       /\ focus = "resilience_settings" =>
           /\ Settings!ReloadWidensRetries_Step
           /\ Settings!EnvironmentAllOrNothing_Step
       /\ focus = "nfc" => Chip!ScansEndWithRead_Step
       /\ focus = "openxpki" => Custody!DiscardNeedsOverlap_Step]_vars
=============================================================================
