------------------------------ MODULE Progress ------------------------------
(***************************************************************************)
(* The components with something that must eventually happen, in one run:  *)
(* the retries behind a breaker, which this module extends, and instances  *)
(* of the others. They share no state, so a behaviour moves one of them,   *)
(* the one in focus, and the others stay in an initial state. Fairness is  *)
(* that of the component in focus.                                         *)
(***************************************************************************)
EXTENDS RetriedCalls

CONSTANTS
    DegQuestions, DegChecks, DegTTL, DegLoops, DegMaxSets,      \* Degradation
    WatchQuestions, WatchChecks, WatchLoops,    \* the same, for a behaviour that has less of
                                                \* calls and more of monitoring
    CliCallers, CliAttempts,                    \* ClientInterceptor
    CliServiceThreshold, CliMethodThreshold, CliRetryThreshold,
    CliServiceRecovery, CliMethodRecovery, CliRetryRecovery,
    MonChecks, MonCritical, MonCooldown, MonStarts,     \* ServiceMonitor
    OnceRequests,                               \* Idempotency
    HostSignals,                                \* ServiceHost
    LogClients, LogMaxQueue, LogMaxRecords,     \* LogStream
    NoteCalls                                   \* Notifications

\* What the components assume of them; "none" is no request and no notification.
ASSUME ProgressConfig ==
    /\ {DegChecks, WatchChecks, DegTTL, DegMaxSets, CliServiceRecovery, CliMethodRecovery,
        CliRetryRecovery, MonCooldown, MonStarts, HostSignals, LogMaxQueue,
        LogMaxRecords} \subseteq Nat
    /\ {CliAttempts, CliServiceThreshold, CliMethodThreshold, CliRetryThreshold} \subseteq Nat \ {0}
    /\ DegQuestions \union WatchQuestions \subseteq
          {"one", "int", "two", "joined", "call", "other_call"}
    /\ MonCritical \subseteq MonChecks
    /\ "none" \notin OnceRequests /\ "none" \notin NoteCalls

VARIABLES
    focus,
    \* Degradation
    degLevel, degHealthy, degCache, degBackup, degCall, degEnabled, degRound,
    degUp, degSets,
    \* ClientInterceptor
    cliSState, cliSFailures, cliSSuccesses, cliSOpened, cliSFailed, cliSSlots, cliMState,
    cliMFailures, cliMSuccesses, cliMOpened, cliMFailed, cliMSlots, cliRState, cliRFailures,
    cliRSuccesses, cliROpened, cliRFailed, cliRSlots, cliCall, cliMetrics, cliService,
    \* ServiceMonitor
    monRunning, monStop, monStopping, monStarted, monHealth, monAlerting, monStatus, monAlert,
    monOk, monHigh, monKind, monImpatient,
    \* Idempotency
    onceBackend, onceOthers, onceCache, onceLock, oncePc, onceRenew, onceAnswer, onceExecuted,
    onceCauses,
    \* ServiceHost
    hostImpl, hostTls, hostPc, hostHandlers, hostServer, hostRunning, hostRequested, hostEarly,
    hostDefinitions, hostRegistered, hostHealth, hostPort, hostSignals,
    \* LogStream
    logInstance, logAttached, logServicer, logStream, logActive, logQueue, logSubscribed,
    logRecords,
    \* Notifications
    noteConfig, noteSinks, notePc, noteAt, noteResults, noteDelivered, noteSmtp

degVars == <<degLevel, degHealthy, degCache, degBackup, degCall, degEnabled, degRound, degUp,
    degSets>>
cliVars == <<cliSState, cliSFailures, cliSSuccesses, cliSOpened, cliSFailed, cliSSlots,
    cliMState, cliMFailures, cliMSuccesses, cliMOpened, cliMFailed, cliMSlots, cliRState,
    cliRFailures, cliRSuccesses, cliROpened, cliRFailed, cliRSlots, cliCall, cliMetrics,
    cliService>>
monVars == <<monRunning, monStop, monStopping, monStarted, monHealth, monAlerting, monStatus,
    monAlert, monOk, monHigh, monKind, monImpatient>>
onceVars == <<onceBackend, onceOthers, onceCache, onceLock, oncePc, onceRenew, onceAnswer,
    onceExecuted, onceCauses>>
hostVars == <<hostImpl, hostTls, hostPc, hostHandlers, hostServer, hostRunning, hostRequested,
    hostEarly, hostDefinitions, hostRegistered, hostHealth, hostPort, hostSignals>>
logVars == <<logInstance, logAttached, logServicer, logStream, logActive, logQueue,
    logSubscribed, logRecords>>
noteVars == <<noteConfig, noteSinks, notePc, noteAt, noteResults, noteDelivered, noteSmtp>>

allVars ==
    <<focus, vars, degVars, cliVars, monVars, onceVars, hostVars, logVars, noteVars>>

Degrade == INSTANCE Degradation WITH
    Questions <- DegQuestions, Checks <- DegChecks, TTL <- DegTTL, Loops <- DegLoops,
    MaxSets <- DegMaxSets, level <- degLevel, healthy <- degHealthy, cache <- degCache,
    backup <- degBackup, call <- degCall, enabled <- degEnabled, round <- degRound,
    up <- degUp, sets <- degSets
Watch == INSTANCE Degradation WITH
    Questions <- WatchQuestions, Checks <- WatchChecks, TTL <- DegTTL, Loops <- WatchLoops,
    MaxSets <- DegMaxSets, level <- degLevel, healthy <- degHealthy, cache <- degCache,
    backup <- degBackup, call <- degCall, enabled <- degEnabled, round <- degRound,
    up <- degUp, sets <- degSets
Client == INSTANCE ClientInterceptor WITH
    Callers <- CliCallers, MaxAttempts <- CliAttempts, ServiceThreshold <- CliServiceThreshold,
    MethodThreshold <- CliMethodThreshold, RetryThreshold <- CliRetryThreshold,
    ServiceRecovery <- CliServiceRecovery, MethodRecovery <- CliMethodRecovery,
    RetryRecovery <- CliRetryRecovery, sState <- cliSState, sFailures <- cliSFailures,
    sSuccesses <- cliSSuccesses, sOpened <- cliSOpened, sFailed <- cliSFailed,
    sSlots <- cliSSlots, mState <- cliMState, mFailures <- cliMFailures,
    mSuccesses <- cliMSuccesses, mOpened <- cliMOpened, mFailed <- cliMFailed,
    mSlots <- cliMSlots, rState <- cliRState, rFailures <- cliRFailures,
    rSuccesses <- cliRSuccesses, rOpened <- cliROpened, rFailed <- cliRFailed,
    rSlots <- cliRSlots, call <- cliCall, metrics <- cliMetrics, service <- cliService
Monitors == INSTANCE ServiceMonitor WITH
    Checks <- MonChecks, Critical <- MonCritical, Cooldown <- MonCooldown,
    MaxStarts <- MonStarts, running <- monRunning, stop <- monStop, stopping <- monStopping,
    started <- monStarted, health <- monHealth, alerting <- monAlerting, status <- monStatus,
    alert <- monAlert, ok <- monOk, high <- monHigh, kind <- monKind, impatient <- monImpatient
Once == INSTANCE Idempotency WITH
    Requests <- OnceRequests, backend <- onceBackend, others <- onceOthers, cache <- onceCache,
    lock <- onceLock, pc <- oncePc, renew <- onceRenew, answer <- onceAnswer,
    executed <- onceExecuted, causes <- onceCauses
Host == INSTANCE ServiceHost WITH
    MaxSignals <- HostSignals, impl <- hostImpl, tls <- hostTls, pc <- hostPc,
    handlers <- hostHandlers, server <- hostServer, running <- hostRunning,
    requested <- hostRequested, early <- hostEarly, definitions <- hostDefinitions,
    registered <- hostRegistered, health <- hostHealth, port <- hostPort, signals <- hostSignals
Logs == INSTANCE LogStream WITH
    Clients <- LogClients, MaxQueue <- LogMaxQueue, MaxRecords <- LogMaxRecords,
    instance <- logInstance, attached <- logAttached, servicer <- logServicer,
    stream <- logStream, active <- logActive, queue <- logQueue, subscribed <- logSubscribed,
    records <- logRecords
Notify == INSTANCE Notifications WITH
    Calls <- NoteCalls, config <- noteConfig, sinks <- noteSinks, pc <- notePc, at <- noteAt,
    results <- noteResults, delivered <- noteDelivered, smtp <- noteSmtp

-----------------------------------------------------------------------------
ProgressInit ==
    /\ focus \in {"retries", "degradation", "monitoring", "client", "service_monitor",
                  "idempotency", "host", "log_stream", "notifications"}
    /\ Init /\ (focus = "retries" \/ (healthy /\ ~outbound))
    /\ IF focus = "monitoring" THEN Watch!Init ELSE Degrade!Init
    /\ Client!Init /\ (focus = "client" \/ ~cliMetrics)
    /\ Monitors!Init /\ (focus = "service_monitor" \/ monKind = "health")
    /\ Once!Init /\ (focus = "idempotency" \/ (onceBackend = "memory" /\ onceOthers = {}))
    /\ Host!Init /\ (focus = "host" \/ (hostImpl = "base" /\ hostTls = "off"))
    /\ Logs!Init
    /\ Notify!Init
    /\ focus = "notifications" \/ \A k \in DOMAIN noteConfig : noteConfig[k] = "valid"

\* Steps of the component in focus leave the others alone.
OnlyRetries ==
    /\ focus = "retries"
    /\ UNCHANGED <<focus, degVars, cliVars, monVars, onceVars, hostVars, logVars, noteVars>>
OnlyDegradation ==
    /\ focus = "degradation"
    /\ UNCHANGED <<focus, vars, cliVars, monVars, onceVars, hostVars, logVars, noteVars>>
OnlyMonitoring ==
    /\ focus = "monitoring"
    /\ UNCHANGED <<focus, vars, cliVars, monVars, onceVars, hostVars, logVars, noteVars>>
OnlyClient ==
    /\ focus = "client"
    /\ UNCHANGED <<focus, vars, degVars, monVars, onceVars, hostVars, logVars, noteVars>>
OnlyMonitors ==
    /\ focus = "service_monitor"
    /\ UNCHANGED <<focus, vars, degVars, cliVars, onceVars, hostVars, logVars, noteVars>>
OnlyIdempotency ==
    /\ focus = "idempotency"
    /\ UNCHANGED <<focus, vars, degVars, cliVars, monVars, hostVars, logVars, noteVars>>
OnlyHost ==
    /\ focus = "host"
    /\ UNCHANGED <<focus, vars, degVars, cliVars, monVars, onceVars, logVars, noteVars>>
OnlyLogs ==
    /\ focus = "log_stream"
    /\ UNCHANGED <<focus, vars, degVars, cliVars, monVars, onceVars, hostVars, noteVars>>
OnlyNotifications ==
    /\ focus = "notifications"
    /\ UNCHANGED <<focus, vars, degVars, cliVars, monVars, onceVars, hostVars, logVars>>

ProgressNext ==
    \/ OnlyRetries /\ Next
    \/ OnlyDegradation /\ Degrade!Next
    \/ OnlyMonitoring /\ Watch!Next
    \/ OnlyClient /\ Client!Next
    \/ OnlyMonitors /\ Monitors!Next
    \/ OnlyIdempotency /\ Once!Next
    \/ OnlyHost /\ Host!Next
    \/ OnlyLogs /\ Logs!Next
    \/ OnlyNotifications /\ Notify!Next

\* Each component's own fairness, see its module.
Fairness ==
    /\ \A c \in Callers :
          /\ WF_vars(/\ focus = "retries"
                     /\ \/ Begin(c) \/ Refused(c) \/ AttemptEnds(c) \/ Resume(c)
                        \/ TimesOut(c))
          /\ SF_vars(focus = "retries" /\ AttemptSucceeds(c))
    /\ WF_vars(focus = "retries" /\ Tick)
    /\ \A l \in WatchLoops : WF_degVars(focus = "monitoring" /\ Watch!Monitoring(l))
    /\ \A c \in CliCallers : WF_cliVars(focus = "client" /\ Client!Step(c))
    /\ WF_cliVars(focus = "client" /\ Client!Tick)
    /\ \A g \in 1 .. MonStarts : WF_monVars(focus = "service_monitor" /\ Monitors!HealthLoop(g))
    /\ \A g \in 1 .. MonStarts : WF_monVars(focus = "service_monitor" /\ Monitors!AlertLoop(g))
    /\ WF_monVars(focus = "service_monitor" /\ Monitors!Tick)
    /\ WF_onceVars(focus = "idempotency" /\ Once!LockExpires)
    /\ \A r \in OnceRequests : WF_onceVars(focus = "idempotency" /\ Once!Step(r))
    /\ WF_hostVars(focus = "host" /\ Host!Main)
    /\ WF_hostVars(focus = "host" /\ Host!Terminate)
    /\ \A c \in LogClients : WF_logVars(focus = "log_stream" /\ Logs!Step(c))
    /\ \A c \in NoteCalls : WF_noteVars(focus = "notifications" /\ Notify!Step(c))

ProgressSpec == ProgressInit /\ [][ProgressNext]_allVars /\ Fairness

-----------------------------------------------------------------------------
\* Each component keeps its state within its type.
ComponentsTyped ==
    /\ TypeOK
    /\ IF focus = "monitoring" THEN Watch!TypeOK ELSE Degrade!TypeOK
    /\ Client!TypeOK
    /\ Monitors!TypeOK
    /\ Once!TypeOK
    /\ Host!TypeOK
    /\ Logs!TypeOK
    /\ Notify!TypeOK

\* Calls and their answers: three breakers around a call, cached fallbacks and repeated
\* requests do not answer wrongly, twice or not at all, except for the named cause.
\* - FallbackFits: A fallback is an answer to the same question, whatever other calls have
\*   cached and whatever has expired, unless the two questions share a key of the cache: and
\*   contexts of strings without separators never do.
\* - NoLockout: The three breakers never lock each other out: when no call is under way and
\*   the clock has passed their timeouts, the next call reaches the service, although a
\*   refusal by one of the inner two leaves the other half-open and is a failure for the
\*   retry manager's.
\* - OnceInMemory: Without Redis a second request of a key is processed with success only if
\*   the response of an earlier one could not be collected or has been kept for its time.
\* - TwiceNeedsRace: With Redis a second success also needs one of the named causes: such a
\*   response, one that could not be stored, a lock that expired under its owner, or a request
\*   that looked before there was a response and took the lock after the release.
AnswersAreRight ==
    /\ focus = "degradation" => Degrade!FallbackFits
    /\ Client!NoLockout
    /\ Once!OnceInMemory
    /\ Once!TwiceNeedsRace

\* Long-running parts: a thread too many, a signal nobody honours, a listener in plaintext or a
\* sink missing from a report has the one cause that is named.
\* - OneLoopIfJoined: As long as every stop has outwaited its threads, there is one thread of
\*   each kind at most, however often monitoring is started and stopped.
\* - LostNeedsEarly: A request to shut down that is honoured by nobody came before the server
\*   was marked running: the handler then does nothing, _shutdown_requested is never read, and
\*   the server goes on to serve.
\* - PlaintextNeedsUnset: With TLS on, a factory listens in plaintext only for lack of a
\*   setting, never because a configured file is missing.
\* - MissingNeedsInvalid: A finished notification reports on every sink that was enabled, unless
\*   the configuration of that sink was rejected at start-up: then it is missing from the report
\*   and all the entries may read success.
FailuresHaveCause ==
    /\ Monitors!OneLoopIfJoined
    /\ Host!LostNeedsEarly
    /\ Host!PlaintextNeedsUnset
    /\ Notify!MissingNeedsInvalid

\* What no step may do to a lock or the event loop that another request or message holds.
\* - ReleasesOwnOnly: A request that ends takes away no lock but its own, also when its lock had
\*   expired and another request holds one by then; only the fallback of the script may, whose
\*   own lock was there at its get and expired before its delete.
\* - MailHoldsTheLoop: While a message is handed to the mail server the whole event loop is
\*   held: no other notification begins, posts or ends.
HeldUntilReleased ==
    /\ [][Once!ReleasesOwnOnly_Step]_onceVars
    /\ [][Notify!MailHoldsTheLoop_Step]_noteVars

\* What follows a condition that stays: degradation level, breakers, monitor status and alerts
\* settle on what it calls for.
\* - LevelFollowsHealth: The level follows the health of the system down and up again: with the
\*   monitor running, once health stays as it is, the level becomes the one for it and stays,
\*   although a round may mix checks from before and after the last change, an operator may
\*   have set it, and a loop that was stopped may run beside a new one.
\* - AllClose: Without metrics, once the service answers for good all three breakers are closed
\*   for good, whatever failures of earlier calls are still to be told to one of them.
\* - StatusSettles: With the monitor running the status settles on what the checks say, although
\*   a thread left behind may write the verdict of an older round over that of a newer one.
\* - AlertSettles: A condition that persists is alerted, also when it came back within the
\*   cooldown of the last alert, and one that is gone for good is resolved.
Settles ==
    /\ focus = "monitoring" => Watch!LevelFollowsHealth
    /\ focus = "client" => Client!AllClose
    /\ focus = "service_monitor" => Monitors!StatusSettles
    /\ focus = "service_monitor" => Monitors!AlertSettles

\* What has begun ends: locks, shutdowns, streams and notifications do not stay half way.
\* - LockFreed: A lock does not outlive its request for ever, neither after a crash nor when the
\*   renewal task's exception skips the release or the release fails.
\* - RequestHonoured: A shutdown request that finds the server running ends the process,
\*   whatever signals follow.
\* - GoneIsRemoved: The stream of a client that has gone is ended once the log is quiet: only an
\*   empty queue makes the loop look whether the client is there.
\* - NotifyEnds: Every notification ends, whatever the HTTP sinks do, unless the mail server
\*   keeps a connection open: smtplib has no timeout, and the others then wait with it.
Ends ==
    /\ focus = "idempotency" => Once!LockFreed
    /\ focus = "host" => Host!RequestHonoured
    /\ focus = "log_stream" => Logs!GoneIsRemoved
    /\ focus = "notifications" => Notify!NotifyEnds
=============================================================================
