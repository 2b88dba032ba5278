------------------------------- MODULE Outbox -------------------------------
(***************************************************************************)
(* The transactional outbox of marty_common/infrastructure/outbox.py: the  *)
(* event_outbox and event_dead_letter tables, and dispatchers that claim a *)
(* batch, publish it record by record and commit the whole batch in one    *)
(* session_scope transaction (infrastructure/database.py).                 *)
(*                                                                         *)
(* available_at is kept as the time still to wait.  A session's changes    *)
(* reach the tables only at commit; a session that ends otherwise leaves   *)
(* no trace in the tables, but what it published stays published.          *)
(***************************************************************************)
EXTENDS Integers, FiniteSets

CONSTANTS
    Records,            \* ids of event_outbox rows, in autoincrement order
    Dispatchers,        \* OutboxDispatcher tasks on the same database
    BatchSize,          \* settings.batch_size
    MaxAttempts,        \* settings.max_attempts
    InitialRetryDelay,  \* settings.initial_retry_delay
    MaxRetryDelay,      \* settings.max_retry_delay
    SkipLocked,         \* dialect has FOR UPDATE SKIP LOCKED (not sqlite)
    BusEnabled          \* EventBusConfig.enabled

ASSUME OutboxConfig ==
    /\ Records \subseteq Nat /\ IsFiniteSet(Records)
    /\ BatchSize \in Nat \ {0}
    /\ MaxAttempts \in Nat \ {0}
    /\ InitialRetryDelay \in Nat
    /\ MaxRetryDelay \in Nat
    /\ SkipLocked \in BOOLEAN
    /\ BusEnabled \in BOOLEAN

VARIABLES
    row,        \* event_outbox: status, attempts and wait of each record
    dlq,        \* event_dead_letter: rows per record
    task,       \* what each dispatcher's task is doing
    sess,       \* the records each open session has loaded, with its changes
    delivered,  \* history: records the broker has received
    failures,   \* history: committed publish failures per record
    stable      \* environment: TRUE while nothing is stopped and no commit fails

vars == <<row, dlq, task, sess, delivered, failures, stable>>

Delays == 0 .. MaxRetryDelay
Row == [status : {"absent", "queued", "processed", "deleted"},
        attempts : Nat, wait : Delays]
Loaded == [mark : {"clean", "processed", "retry", "dead"},
           attempts : Nat, wait : Delays]

\* A session with nothing loaded.
NoSession == [r \in {} |-> {}]
Claimed(d) == DOMAIN sess[d]

TypeOK ==
    /\ row \in [Records -> Row]
    /\ dlq \in [Records -> Nat]
    /\ task \in [Dispatchers -> {"stopped", "ready", "working", "waiting"}]
    /\ DOMAIN sess = Dispatchers
    /\ \A d \in Dispatchers :
          /\ Claimed(d) \subseteq Records
          /\ sess[d] \in [Claimed(d) -> Loaded]
          /\ task[d] # "working" => Claimed(d) = {}
    /\ delivered \subseteq Records
    /\ failures \in [Records -> Nat]
    /\ stable \in BOOLEAN

Init ==
    /\ row = [r \in Records |-> [status |-> "absent", attempts |-> 0, wait |-> 0]]
    /\ dlq = [r \in Records |-> 0]
    /\ task = [d \in Dispatchers |-> "stopped"]
    /\ sess = [d \in Dispatchers |-> NoSession]
    /\ delivered = {}
    /\ failures = [r \in Records |-> 0]
    /\ stable \in BOOLEAN

-----------------------------------------------------------------------------
(* The producer's side                                                     *)

\* A transaction that called OutboxRepository.enqueue commits.  Rows become
\* visible in commit order, which need not be the order of their ids.
Enqueue(r, delay) ==
    /\ row[r].status = "absent"
    /\ row' = [row EXCEPT ![r] = [status |-> "queued", attempts |-> 0, wait |-> delay]]
    /\ UNCHANGED <<dlq, task, sess, delivered, failures, stable>>

\* A transaction that called OutboxRepository.requeue commits.
Requeue(r, delay) ==
    /\ ~stable
    /\ row[r].status = "queued"
    /\ SkipLocked => \A d \in Dispatchers : r \notin Claimed(d)
    /\ row' = [row EXCEPT ![r].wait = delay]
    /\ UNCHANGED <<dlq, task, sess, delivered, failures, stable>>

-----------------------------------------------------------------------------
(* OutboxDispatcher: start, stop and the loop of _run                      *)

Start(d) ==
    /\ task[d] = "stopped"
    /\ task' = [task EXCEPT ![d] = "ready"]
    /\ UNCHANGED <<row, dlq, sess, delivered, failures, stable>>

\* stop() cancels the task at whatever await it is in, or the process dies.
\* CancelledError passes session_scope's except clause; the session is closed
\* and the database discards the transaction and its row locks.
Stop(d) ==
    /\ ~stable
    /\ task[d] # "stopped"
    /\ task' = [task EXCEPT ![d] = "stopped"]
    /\ sess' = [sess EXCEPT ![d] = NoSession]
    /\ UNCHANGED <<row, dlq, delivered, failures, stable>>

\* The wait for settings.poll_interval ends.
PollTimeout(d) ==
    /\ task[d] = "waiting"
    /\ task' = [task EXCEPT ![d] = "ready"]
    /\ UNCHANGED <<row, dlq, sess, delivered, failures, stable>>

\* Mutant: FOR UPDATE is issued without skipping what others hold.
Locked_Never(r) == FALSE

\* Rows selected FOR UPDATE by an open session.
Locked(r) == SkipLocked /\ \E d \in Dispatchers : r \in Claimed(d)

\* Mutant: processed_at is not part of the query.
Claimable_IgnoresStatus(r) == row[r].status # "absent" /\ row[r].wait = 0 /\ ~Locked(r)

\* Mutant: the query leaves out records that have failed before.
Claimable_FreshOnly(r) ==
    row[r].status = "queued" /\ row[r].attempts = 0 /\ row[r].wait = 0 /\ ~Locked(r)

\* processed_at IS NULL AND available_at <= now
Claimable(r) == row[r].status = "queued" /\ row[r].wait = 0 /\ ~Locked(r)

\* ORDER BY id LIMIT batch_size
IsBatch(S) ==
    /\ \A r \in S : Claimable(r)
    /\ Cardinality(S) <= BatchSize
    /\ \A r \in Records \ S : Claimable(r) =>
          Cardinality(S) = BatchSize /\ \A s \in S : s < r

\* flush_once opens a session and claims a batch.
ClaimBatch(d) ==
    /\ task[d] = "ready"
    /\ \E S \in SUBSET Records :
          /\ S # {}
          /\ IsBatch(S)
          /\ sess' = [sess EXCEPT ![d] =
                [r \in S |-> [mark |-> "clean", attempts |-> row[r].attempts,
                              wait |-> row[r].wait]]]
    /\ task' = [task EXCEPT ![d] = "working"]
    /\ UNCHANGED <<row, dlq, delivered, failures, stable>>

\* flush_once finds nothing to do, or the query raises and _run logs it.
ClaimNothing(d) ==
    /\ task[d] = "ready"
    /\ ~stable \/ \A r \in Records : ~Claimable(r)
    /\ task' = [task EXCEPT ![d] = "waiting"]
    /\ UNCHANGED <<row, dlq, sess, delivered, failures, stable>>

-----------------------------------------------------------------------------
(* flush_once: one record after the other                                  *)

Marked(d, m) == {r \in Claimed(d) : sess[d][r].mark = m}

\* The record the loop is at: ids ascend.
IsNext(d, r) ==
    /\ task[d] = "working"
    /\ r \in Marked(d, "clean")
    /\ \A s \in Marked(d, "clean") : r <= s

\* Mutant: the delay doubles without the cap of max_retry_delay.
ComputeRetryDelay_Uncapped(attempt) == InitialRetryDelay * 2 ^ (attempt - 1)

\* _compute_retry_delay: initial * 2^(attempt-1), capped.
ComputeRetryDelay(attempt) ==
    LET delay == InitialRetryDelay * 2 ^ (attempt - 1)
    IN  IF delay \in Delays THEN delay ELSE MaxRetryDelay

\* publish returned; mark_processed.  A disabled bus returns without sending.
PublishOk(d, r) ==
    /\ IsNext(d, r)
    /\ delivered' = IF BusEnabled THEN delivered \cup {r} ELSE delivered
    /\ sess' = [sess EXCEPT ![d][r].mark = "processed"]
    /\ UNCHANGED <<row, dlq, task, failures, stable>>

\* Mutant: the failed record is taken for published.
MarkFailed_AsProcessed(rec) ==
    [mark |-> "processed", attempts |-> rec.attempts + 1, wait |-> rec.wait]

\* mark_failed on the record as the session loaded it.
MarkFailed(rec) ==
    IF rec.attempts + 1 >= MaxAttempts
    THEN [mark |-> "dead", attempts |-> rec.attempts + 1, wait |-> rec.wait]
    ELSE [mark |-> "retry", attempts |-> rec.attempts + 1,
          wait |-> ComputeRetryDelay(rec.attempts + 1)]

\* publish raised; the broker may have received the message all the same.
PublishFails(d, r) ==
    /\ BusEnabled
    /\ IsNext(d, r)
    /\ delivered' \in {delivered, delivered \cup {r}}
    /\ sess' = [sess EXCEPT ![d][r] = MarkFailed(@)]
    /\ UNCHANGED <<row, dlq, task, failures, stable>>

-----------------------------------------------------------------------------
(* The end of session_scope                                                *)

BatchDone(d) == task[d] = "working" /\ Marked(d, "clean") = {}

\* An UPDATE of a row that another session has deleted raises StaleDataError.
StaleBatch(d) ==
    \E r \in Marked(d, "processed") \cup Marked(d, "retry") : row[r].status = "deleted"

\* Mutant: the dead letter is dropped with the outbox row.
DeadLetters_Dropped(d) == {}

\* _move_to_dead_letter_queue: the rows added to event_dead_letter.
DeadLetters(d) == Marked(d, "dead")

\* Only the columns the session changed are written: a retry leaves
\* processed_at alone.
Written(d, r) ==
    CASE r \in Marked(d, "processed") -> [row[r] EXCEPT !.status = "processed"]
      [] r \in Marked(d, "retry")     -> [row[r] EXCEPT !.attempts = sess[d][r].attempts,
                                                        !.wait = sess[d][r].wait]
      [] r \in Marked(d, "dead")      -> [row[r] EXCEPT !.attempts = sess[d][r].attempts,
                                                        !.status = "deleted"]
      [] OTHER                        -> row[r]

Commit(d) ==
    /\ BatchDone(d)
    /\ ~StaleBatch(d)
    /\ row' = [r \in Records |-> Written(d, r)]
    /\ dlq' = [r \in Records |-> IF r \in DeadLetters(d) THEN dlq[r] + 1 ELSE dlq[r]]
    /\ failures' = [r \in Records |->
          IF r \in Marked(d, "retry") \cup Marked(d, "dead")
          THEN failures[r] + 1 ELSE failures[r]]
    /\ sess' = [sess EXCEPT ![d] = NoSession]
    /\ task' = [task EXCEPT ![d] = IF Marked(d, "processed") = {} THEN "waiting" ELSE "ready"]
    /\ UNCHANGED <<delivered, stable>>

\* The commit raises; session_scope rolls back and _run logs and waits.
CommitFails(d) ==
    /\ BatchDone(d)
    /\ StaleBatch(d) \/ ~stable
    /\ sess' = [sess EXCEPT ![d] = NoSession]
    /\ task' = [task EXCEPT ![d] = "waiting"]
    /\ UNCHANGED <<row, dlq, delivered, failures, stable>>

-----------------------------------------------------------------------------
Elapse(w) == IF w > 0 THEN w - 1 ELSE 0

\* One unit of time passes, also for the instants an open session has set.
Tick ==
    /\ row' = [r \in Records |-> [row[r] EXCEPT !.wait = Elapse(@)]]
    /\ sess' = [d \in Dispatchers |->
          [r \in Claimed(d) |-> [sess[d][r] EXCEPT !.wait = Elapse(@)]]]
    /\ UNCHANGED <<dlq, task, delivered, failures, stable>>

\* Environment: restarts and database errors begin or cease.
StabilityChanges ==
    /\ stable' = ~stable
    /\ UNCHANGED <<row, dlq, task, sess, delivered, failures>>

Publish(d) == \E r \in Records : PublishOk(d, r) \/ PublishFails(d, r)

Dispatch(d) ==
    \/ Start(d) \/ PollTimeout(d)
    \/ ClaimBatch(d) \/ ClaimNothing(d)
    \/ Publish(d)
    \/ Commit(d) \/ CommitFails(d)

Next ==
    \/ \E r \in Records, w \in Delays : Enqueue(r, w) \/ Requeue(r, w)
    \/ \E d \in Dispatchers : Dispatch(d) \/ Stop(d)
    \/ Tick
    \/ StabilityChanges

Spec == Init /\ [][Next]_vars

\* Every dispatcher task is scheduled and is started again after a stop, and
\* time passes.  (A commit can fail for ever only while not stable.)
FairSpec ==
    /\ Spec
    /\ \A d \in Dispatchers : WF_vars(Dispatch(d))
    /\ WF_vars(Tick)

-----------------------------------------------------------------------------
(***************************************************************************)
(* A row is marked processed only if the broker has received the event,    *)
(* whatever was cancelled, rolled back or answered late in between.        *)
(***************************************************************************)
ProcessedWasDelivered ==
    BusEnabled => \A r \in Records : row[r].status = "processed" => r \in delivered

(***************************************************************************)
(* A row leaves event_outbox only together with a dead letter: at every    *)
(* commit point an event is in one of the two tables.                      *)
(***************************************************************************)
NothingLost ==
    \A r \in Records : row[r].status = "deleted" <=> dlq[r] > 0

(***************************************************************************)
(* With row locks an event is dead-lettered at most once, after exactly    *)
(* max_attempts publish failures that were committed: neither rollbacks    *)
(* nor other dispatchers make the attempts counter drift.                  *)
(***************************************************************************)
AttemptsAreFailures ==
    \A r \in Records :
        /\ row[r].attempts = failures[r]
        /\ dlq[r] = IF failures[r] = MaxAttempts THEN 1 ELSE 0

(***************************************************************************)
(* With row locks what a session has loaded is what the table holds: no    *)
(* dispatcher publishes an event that another one has already settled.     *)
(***************************************************************************)
SessionsAreCurrent ==
    \A d \in Dispatchers : \A r \in Claimed(d) :
        /\ row[r].status = "queued"
        /\ row[r].attempts = sess[d][r].attempts
              - (IF sess[d][r].mark \in {"retry", "dead"} THEN 1 ELSE 0)

(***************************************************************************)
(* Once restarts and database errors cease, every queued event is          *)
(* published or dead-lettered.                                             *)
(***************************************************************************)
EventuallySettled ==
    <>[]stable => \A r \in Records :
        row[r].status = "queued" ~> row[r].status \in {"processed", "deleted"}

(***************************************************************************)
(* With row locks and an enabled bus the outbox is the queue EventQueue    *)
(* promises: delivered before done, settled once, batch by batch.          *)
(***************************************************************************)
AbstractStatus(r) ==
    CASE row[r].status = "absent"    -> "absent"
      [] row[r].status = "queued"    -> "queued"
      [] row[r].status = "processed" -> "done"
      [] row[r].status = "deleted"   -> "dead"

Queue == INSTANCE EventQueue WITH status <- [r \in Records |-> AbstractStatus(r)]

ImplementsQueue == Queue!QueueSpec
=============================================================================
