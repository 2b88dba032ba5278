----------------------------- MODULE ServiceHost -----------------------------
(***************************************************************************)
(* The three ways a service process runs a gRPC server: GRPCServiceFactory *)
(* (grpc_service_factory.py), BaseGrpcService (services/                   *)
(* base_grpc_service.py) and MartyGrpcServer (grpc_server.py). The main    *)
(* thread builds and starts the server and waits for it to terminate; a    *)
(* SIGTERM or SIGINT arrives between any two of its steps.                 *)
(***************************************************************************)
EXTENDS Naturals, FiniteSets

CONSTANT MaxSignals     \* bound on the signals sent to the process

VARIABLES
    impl,           \* which class hosts the service
    tls,            \* TLS settings: off, or whether the paths are unset, dangling or good
    pc,             \* what the main thread has done
    handlers,       \* the signal handlers are installed
    server,         \* the grpc.Server
    running,        \* _running, _is_running
    requested,      \* a signal handler ran: _shutdown_requested, _shutdown_gracefully
    early,          \* one ran before the server was marked running
    definitions,    \* services a factory was told of
    registered,     \* services registered with the server
    health,         \* statuses told to the HealthServicer, by service
    port,           \* how the server listens
    signals         \* signals sent so far

vars == <<impl, tls, pc, handlers, server, running, requested, early, definitions, registered,
          health, port, signals>>

Services == {"health_check", "logging_streamer", "main"}
Ended == {"exited", "failed", "killed"}

TypeOK ==
    /\ impl \in {"factory", "base", "marty"}
    /\ tls \in {"off", "unset", "missing", "present"}
    /\ pc \in {"new", "constructed", "created", "armed", "started", "waiting"} \union Ended
    /\ handlers \in BOOLEAN /\ running \in BOOLEAN
    /\ requested \in BOOLEAN /\ early \in BOOLEAN
    /\ server \in {"none", "created", "started", "stopping", "stopped"}
    /\ registered \subseteq Services /\ definitions \subseteq Services
    /\ health \in [Services -> {"unset", "SERVING", "NOT_SERVING"}]
    /\ port \in {"none", "insecure", "secure"}
    /\ signals \in 0 .. MaxSignals

Init ==
    /\ impl \in {"factory", "base", "marty"}
    /\ tls \in {"off", "unset", "missing", "present"}
    /\ pc = "new" /\ server = "none" /\ port = "none"
    /\ handlers = FALSE /\ running = FALSE /\ requested = FALSE /\ early = FALSE
    /\ registered = {} /\ definitions = {} /\ health = [s \in Services |-> "unset"]
    /\ signals = 0

Fail ==
    /\ pc' = "failed"
    /\ UNCHANGED <<impl, tls, handlers, server, running, requested, early, definitions, registered, health,
                   port, signals>>

\* _setup_signal_handlers, signal.signal
Arm(from, to) ==
    /\ pc = from /\ pc' = to
    /\ handlers' = TRUE
    /\ UNCHANGED <<impl, tls, server, running, requested, early, definitions, registered, health, port,
                   signals>>

Created(ok, listening) ==
    /\ server' = "created" /\ pc' = "created"
    /\ registered' = ok /\ port' = listening
    /\ UNCHANGED <<impl, tls, handlers, running, requested, early, definitions, signals>>

Start(from, to, marked) ==
    /\ pc = from /\ pc' = to
    /\ server' = "started" /\ running' = marked
    /\ UNCHANGED <<impl, tls, handlers, requested, early, definitions, registered, health, port, signals>>

Stopping_Ignored == server

\* server.stop(grace) returns at once; the server terminates later.
Stopping == IF server = "started" THEN "stopping" ELSE server

-----------------------------------------------------------------------------
\* GRPCServiceFactory

register(more) ==
    /\ definitions' = definitions \union more
    /\ UNCHANGED <<impl, tls, pc, handlers, server, running, requested, early, registered, health,
                   port, signals>>

\* create_grpc_service_factory, and create_auto_service_factory a second time.
register_standard_services ==
    /\ impl = "factory" /\ pc = "new"
    /\ pc' = "constructed"
    /\ definitions' = {"health_check", "logging_streamer"}
    /\ UNCHANGED <<impl, tls, handlers, server, running, requested, early, registered, health,
                   port, signals>>

register_service == impl = "factory" /\ pc = "constructed" /\ register({"main"})

\* A module, servicer class or registration function that is not found is logged, and the
\* factory goes on without the service.
auto_register_service(found) ==
    /\ impl = "factory" /\ pc = "constructed"
    /\ register(IF found THEN {"main"} ELSE {})

\* create_server looks for the attribute _health_servicer; the field is health_servicer,
\* so neither branch that sets a status is taken.
ReportHealth(ok) == UNCHANGED health

PortOf_FileMissing == IF tls = "present" THEN {"secure"} ELSE {"insecure"}

\* With TLS on and a path left unset the port is insecure; a path to no file raises.
PortOf ==
    CASE tls = "present" -> {"secure"}
      [] tls = "missing" -> {}
      [] OTHER -> {"insecure"}

\* A service that cannot be created or registered is logged and passed over.
create_server(ok) ==
    /\ impl = "factory" /\ pc = "constructed" /\ ok \subseteq definitions
    /\ IF PortOf = {}
       THEN Fail
       ELSE /\ \E p \in PortOf : Created(ok, p)
            /\ ReportHealth(ok)

\* start() after create_server: handlers, server.start(), _running.
Factory_setup_signal_handlers == impl = "factory" /\ Arm("created", "armed")
Factory_server_start == impl = "factory" /\ Start("armed", "started", FALSE)
Factory_mark_running ==
    /\ impl = "factory" /\ pc = "started"
    /\ pc' = "waiting" /\ running' = TRUE
    /\ UNCHANGED <<impl, tls, handlers, server, requested, early, definitions, registered, health, port,
                   signals>>

\* start() on a factory that was stopped: the old server is kept, and grpc refuses to
\* start it a second time.
start_again == impl = "factory" /\ pc = "exited" /\ server # "none" /\ Fail

-----------------------------------------------------------------------------
\* BaseGrpcService installs the handlers in its constructor. setup_server raises when the
\* main servicer cannot be created; a missing logging streamer is logged. Every port is
\* insecure.
Base_init == impl = "base" /\ Arm("new", "constructed")
setup_server(ok) ==
    /\ impl = "base" /\ pc = "constructed"
    /\ IF "main" \in ok /\ "health_check" \in ok
       THEN Created(ok, "insecure") /\ UNCHANGED health
       ELSE Fail
Base_server_start == impl = "base" /\ Start("created", "started", FALSE)
Base_mark_running ==
    /\ impl = "base" /\ pc = "started"
    /\ pc' = "waiting" /\ running' = TRUE
    /\ UNCHANGED <<impl, tls, handlers, server, requested, early, definitions, registered, health, port,
                   signals>>

\* stop and stop_server
StopIfRunning_FlagOnly == running' = FALSE /\ UNCHANGED server
StopIfRunning ==
    IF running THEN server' = Stopping /\ running' = FALSE ELSE UNCHANGED <<server, running>>

-----------------------------------------------------------------------------
\* MartyGrpcServer installs the handlers once the server has started.
setup(ok) ==
    /\ impl = "marty" /\ pc = "new"
    /\ IF "main" \in ok /\ "health_check" \in ok
       THEN Created(ok, "insecure") /\ UNCHANGED health
       ELSE Fail
Marty_server_start == impl = "marty" /\ Start("created", "started", TRUE)
Marty_signal_handlers == impl = "marty" /\ Arm("started", "waiting")

\* create_standard_server adds its servicer before setup(): add_servicer_to_server raises
\* ServerNotInitializedError.
create_standard_server == impl = "marty" /\ pc = "new" /\ server = "none" /\ Fail

-----------------------------------------------------------------------------
\* Without handlers a signal ends the process. With them the handler stops the server:
\* the first two classes only when it is marked running.
Signal ==
    /\ pc \notin Ended /\ signals < MaxSignals
    /\ signals' = signals + 1
    /\ UNCHANGED <<impl, tls, handlers, definitions, registered, health, port>>
    /\ IF ~handlers
       THEN /\ pc' = "killed"
            /\ server' = (IF server = "none" THEN "none" ELSE "stopped")
            /\ UNCHANGED <<running, requested, early>>
       ELSE /\ requested' = TRUE
            /\ early' = (early \/ (~running /\ server \in {"none", "created", "started"}))
            /\ UNCHANGED pc
            /\ IF impl = "marty"
               THEN server' = Stopping /\ UNCHANGED running
               ELSE StopIfRunning

\* grpc: the calls in flight end, or the grace period does.
Terminate ==
    /\ server = "stopping"
    /\ server' = "stopped"
    /\ UNCHANGED <<impl, tls, pc, handlers, running, requested, early, definitions, registered, health,
                   port, signals>>

\* wait_for_termination returns, and the finally block stops what is still marked running.
Exit ==
    /\ pc = "waiting" /\ server = "stopped"
    /\ pc' = "exited" /\ running' = FALSE
    /\ UNCHANGED <<impl, tls, handlers, server, requested, early, definitions, registered, health, port,
                   signals>>

Main ==
    \/ \E ok \in SUBSET Services : create_server(ok) \/ setup_server(ok) \/ setup(ok)
    \/ register_standard_services
    \/ Factory_setup_signal_handlers \/ Factory_server_start \/ Factory_mark_running
    \/ Base_init \/ Base_server_start \/ Base_mark_running
    \/ Marty_server_start \/ Marty_signal_handlers \/ create_standard_server
    \/ Exit

Next ==
    \/ Main \/ start_again \/ register_service \/ Signal \/ Terminate
    \/ \E found \in BOOLEAN : auto_register_service(found)

Spec == Init /\ [][Next]_vars /\ WF_vars(Main) /\ WF_vars(Terminate)

-----------------------------------------------------------------------------
\* A request to shut down that is honoured by nobody came before the server was marked
\* running: the handler then does nothing, _shutdown_requested is never read, and the
\* server goes on to serve. MartyGrpcServer has no such window.
LostNeedsEarly ==
    requested /\ pc = "waiting" /\ server = "started" => early /\ impl # "marty"

\* A shutdown request that finds the server running ends the process, whatever signals
\* follow.
RequestHonoured == (requested /\ ~early) ~> (pc \in Ended)

\* With TLS on, a factory listens in plaintext only for lack of a setting, never because
\* a configured file is missing.
PlaintextNeedsUnset ==
    (impl = "factory" /\ port = "insecure") => tls \in {"off", "unset"}
=============================================================================
