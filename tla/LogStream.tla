------------------------------ MODULE LogStream ------------------------------
(***************************************************************************)
(* Logs streamed to gRPC clients: setup_logging of logging_config.py,      *)
(* GrpcLogHandler and LoggingStreamerServicer of grpc_logging.py. Every    *)
(* record of the process is put in one bounded queue per subscriber; the   *)
(* coroutine of StreamLogs takes it from there. Subscribing, leaving and   *)
(* setting up logging are themselves logged. A record is its number. The   *)
(* coroutine is taken to run, that is, to be served by a grpc.aio server.  *)
(***************************************************************************)
EXTENDS Naturals, Sequences, FiniteSets

CONSTANTS
    Clients,        \* subscribers
    MaxQueue,       \* MAX_CLIENT_QUEUE_SIZE
    MaxRecords      \* bound on the records logged by the rest of the process

VARIABLES
    instance,       \* grpc_log_handler_instance exists
    attached,       \* it is a handler of the root logger
    servicer,       \* LoggingStreamerServicer: "none", or what it found as the handler
    stream,         \* the call of each client: "none", "open", "refused", "closed"
    active,         \* the client is still there: context.is_active()
    queue,          \* client_log_queue
    subscribed,     \* the queue is among _client_queues
    records         \* records logged so far

vars == <<instance, attached, servicer, stream, active, queue, subscribed, records>>

TypeOK ==
    /\ instance \in BOOLEAN /\ attached \in BOOLEAN
    /\ servicer \in {"none", "mute", "ready"}
    /\ stream \in [Clients -> {"none", "open", "refused", "closed"}]
    /\ active \in [Clients -> BOOLEAN]
    /\ queue \in [Clients -> Seq(Nat)]
    /\ \A c \in Clients : Len(queue[c]) <= MaxQueue
    /\ subscribed \subseteq Clients
    /\ records \in Nat

Init ==
    /\ instance = FALSE /\ attached = FALSE /\ servicer = "none"
    /\ stream = [c \in Clients |-> "none"]
    /\ active = [c \in Clients |-> FALSE]
    /\ queue = [c \in Clients |-> <<>>]
    /\ subscribed = {} /\ records = 0

-----------------------------------------------------------------------------
Put_Unbounded(q, n) == Append(q, n)

\* put_nowait: a full queue drops the new record.
Put(q, n) == IF Len(q) < MaxQueue THEN Append(q, n) ELSE q

\* k records, one after the other, reach the queues of listeners if the handler is among
\* those of the root logger.
emit(k, on, listeners, queues) ==
    /\ records' = records + k
    /\ queue' = [c \in Clients |->
          IF ~on \/ c \notin listeners THEN queues[c]
          ELSE LET one == Put(queues[c], records + 1)
               IN  IF k = 1 THEN one ELSE Put(one, records + 2)]

\* LOG_LEVEL=OFF removes all handlers and returns.
setup_logging_off ==
    /\ attached' = FALSE
    /\ UNCHANGED <<instance, servicer, stream, active, queue, subscribed, records>>

\* The handlers are removed, and the gRPC handler is made or put back, and logs that it was.
setup_grpc_logging ==
    /\ records < MaxRecords
    /\ instance' = TRUE /\ attached' = TRUE
    /\ emit(2, TRUE, subscribed, queue)
    /\ UNCHANGED <<servicer, stream, active, subscribed>>

\* The constructor keeps what get_grpc_log_handler returns then.
LoggingStreamerServicer ==
    /\ servicer = "none"
    /\ servicer' = IF instance THEN "ready" ELSE "mute"
    /\ UNCHANGED <<instance, attached, stream, active, queue, subscribed, records>>

\* StreamLogs up to its loop. add_client_queue logs, and so does the caller.
StreamLogs(c) ==
    /\ servicer # "none" /\ stream[c] = "none"
    /\ IF servicer = "mute"
       THEN /\ stream' = [stream EXCEPT ![c] = "refused"]
            /\ emit(1, attached, subscribed, queue)
            /\ UNCHANGED <<active, subscribed>>
       ELSE /\ stream' = [stream EXCEPT ![c] = "open"]
            /\ active' = [active EXCEPT ![c] = TRUE]
            /\ subscribed' = subscribed \union {c}
            /\ emit(2, attached, subscribed \union {c}, queue)
    /\ UNCHANGED <<instance, attached, servicer>>

\* client_log_queue.get returns a record, which is yielded to the client.
Yield(c) ==
    /\ stream[c] = "open" /\ queue[c] # <<>>
    /\ queue' = [queue EXCEPT ![c] = Tail(@)]
    /\ UNCHANGED <<instance, attached, servicer, stream, active, subscribed, records>>

Gone_Never(c) == FALSE

\* Whether the client is still there is asked when get timed out on an empty queue.
Gone(c) == queue[c] = <<>> /\ ~active[c]

\* The loop ends; the finally block removes the queue and logs twice.
Leave(c) ==
    /\ stream[c] = "open" /\ Gone(c)
    /\ stream' = [stream EXCEPT ![c] = "closed"]
    /\ subscribed' = subscribed \ {c}
    /\ emit(2, attached, subscribed \ {c}, queue)
    /\ UNCHANGED <<instance, attached, servicer, active>>

Disconnect(c) ==
    /\ stream[c] = "open" /\ active[c]
    /\ active' = [active EXCEPT ![c] = FALSE]
    /\ UNCHANGED <<instance, attached, servicer, stream, queue, subscribed, records>>

\* Any other thread logs.
LogRecord ==
    /\ records < MaxRecords
    /\ emit(1, attached, subscribed, queue)
    /\ UNCHANGED <<instance, attached, servicer, stream, active, subscribed>>

Step(c) == Yield(c) \/ Leave(c)

Next ==
    \/ setup_logging_off \/ setup_grpc_logging \/ LoggingStreamerServicer \/ LogRecord
    \/ \E c \in Clients : StreamLogs(c) \/ Step(c) \/ Disconnect(c)

Spec == Init /\ [][Next]_vars /\ \A c \in Clients : WF_vars(Step(c))

-----------------------------------------------------------------------------
\* The stream of a client that has gone is ended once the log is quiet: only an empty
\* queue makes the loop look whether the client is there.
GoneIsRemoved == \A c \in Clients : (stream[c] = "open" /\ ~active[c]) ~> (c \notin subscribed)
=============================================================================
