--------------------------- MODULE ServiceRecords ---------------------------
(***************************************************************************)
(* Rows, connections and schema versions behind the services: four         *)
(* components that share no state, one section each, with its own Init and *)
(* Next.                                                                   *)
(***************************************************************************)
EXTENDS Naturals, FiniteSets, Sequences, SequencesExt

-----------------------------------------------------------------------------
(***************************************************************************)
(* DatabaseOperations and RepositoryBase of database/utilities.py: a row   *)
(* is read into an instance that outlives its session; update_record and   *)
(* delete_record merge that instance into a session of their own, apply    *)
(* their changes and flush. session.merge selects the row and copies every *)
(* attribute of the instance onto it, and the flush writes the columns     *)
(* that differ from what was selected. The row has two columns.            *)
(***************************************************************************)
CONSTANTS
    RecordTasks,    \* concurrent users of the repository
    Values,         \* values of a column
    MaxWrites       \* bound on the commits

Columns == {"a", "b"}
Absent == [exists |-> FALSE]
Row(cols, v) == [exists |-> TRUE, cols |-> cols, version |-> v]

VARIABLES
    row,            \* the committed row; version counts the commits
    instance,       \* the instance a task holds
    recordPc,       \* "idle", or the operation whose merge is done
    loaded,         \* what merge selected
    change,         \* the update asked for
    intended,       \* the last value an update or creation was asked to give each column
    deleted,        \* the row was deleted and not created since
    stale,          \* a write was made from an instance older than the row
    writes          \* commits so far

recordVars == <<row, instance, recordPc, loaded, change, intended, deleted, stale, writes>>

Rows == {Absent} \union
        {Row(c, v) : c \in [Columns -> Values], v \in 0 .. MaxWrites}

RecordTypeOK ==
    /\ row \in Rows
    /\ instance \in [RecordTasks -> Rows] /\ loaded \in [RecordTasks -> Rows]
    /\ recordPc \in [RecordTasks -> {"idle", "update", "delete"}]
    /\ change \in [RecordTasks -> [column : Columns, value : Values]]
    /\ intended \in [Columns -> Values]
    /\ deleted \in BOOLEAN /\ stale \in BOOLEAN
    /\ writes \in 0 .. MaxWrites

First == CHOOSE v \in Values : TRUE

RecordInit ==
    /\ row = Row([c \in Columns |-> First], 0)
    /\ instance = [t \in RecordTasks |-> Absent] /\ loaded = [t \in RecordTasks |-> Absent]
    /\ recordPc = [t \in RecordTasks |-> "idle"]
    /\ change = [t \in RecordTasks |-> [column |-> "a", value |-> First]]
    /\ intended = [c \in Columns |-> First]
    /\ deleted = FALSE /\ stale = FALSE /\ writes = 0

\* find_by_id, find_one: the instance stays usable, since sessions do not expire it.
find_by_id(t) ==
    /\ recordPc[t] = "idle"
    /\ instance' = [instance EXCEPT ![t] = row]
    /\ UNCHANGED <<row, recordPc, loaded, change, intended, deleted, stale, writes>>

\* create_record: a row with the same key is an error, and nothing changes.
create_record(t) ==
    /\ recordPc[t] = "idle" /\ ~row.exists /\ writes < MaxWrites
    /\ row' = Row([c \in Columns |-> First], writes + 1)
    /\ instance' = [instance EXCEPT ![t] = row']
    /\ intended' = [c \in Columns |-> First]
    /\ deleted' = FALSE
    /\ writes' = writes + 1
    /\ UNCHANGED <<recordPc, loaded, change, stale>>

\* session.merge(instance): the row is selected.
merge(t, operation, ch) ==
    /\ recordPc[t] = "idle" /\ instance[t].exists /\ writes < MaxWrites
    /\ recordPc' = [recordPc EXCEPT ![t] = operation]
    /\ loaded' = [loaded EXCEPT ![t] = row]
    /\ change' = [change EXCEPT ![t] = ch]
    /\ UNCHANGED <<row, instance, intended, deleted, stale, writes>>

\* The merged instance with the updates applied.
Merged(t) == [instance[t].cols EXCEPT ![change[t].column] = change[t].value]

\* Only the columns that differ from the selected row are written.
Written(t) ==
    [c \in Columns |-> IF Merged(t)[c] = loaded[t].cols[c] THEN row.cols[c] ELSE Merged(t)[c]]

Returned_Argument(t) == Row(instance[t].cols, writes + 1)

\* session.refresh: the caller gets the row as it is now.
Returned(t) == row'

Done(t) == recordPc' = [recordPc EXCEPT ![t] = "idle"]

IsStale(t) == stale \/ ~row.exists \/ instance[t].version # row.version

\* The flush of update_record and the commit. When merge selected no row the merged
\* instance is new and is inserted.
update_record(t) ==
    /\ recordPc[t] = "update" /\ writes < MaxWrites
    /\ loaded[t].exists = row.exists
    /\ row' = Row(IF row.exists THEN Written(t) ELSE Merged(t), writes + 1)
    /\ instance' = [instance EXCEPT ![t] = Returned(t)]
    /\ intended' = [intended EXCEPT ![change[t].column] = change[t].value]
    /\ stale' = IsStale(t)
    /\ writes' = writes + 1
    /\ Done(t)
    /\ UNCHANGED <<loaded, change, deleted>>

delete_record_OnlyMerged(t) ==
    /\ recordPc[t] = "delete" /\ writes < MaxWrites
    /\ loaded[t].exists /\ row.exists
    /\ deleted' = TRUE
    /\ writes' = writes + 1
    /\ Done(t)
    /\ UNCHANGED <<row, instance, loaded, change, intended, stale>>

\* delete_record: an instance that is no row of the database cannot be deleted.
delete_record(t) ==
    /\ recordPc[t] = "delete" /\ writes < MaxWrites
    /\ loaded[t].exists /\ row.exists
    /\ row' = Absent /\ deleted' = TRUE
    /\ writes' = writes + 1
    /\ Done(t)
    /\ UNCHANGED <<instance, loaded, change, intended, stale>>

\* Everything else raises, is rolled back and becomes MartyDatabaseError: the row went
\* away, or came back, between the select and the flush, or the database failed.
execute_in_transaction_Fails(t) ==
    /\ recordPc[t] # "idle"
    /\ Done(t)
    /\ UNCHANGED <<row, instance, loaded, change, intended, deleted, stale, writes>>

RecordNext ==
    \E t \in RecordTasks :
        \/ find_by_id(t) \/ create_record(t)
        \/ \E c \in Columns, v \in Values : merge(t, "update", [column |-> c, value |-> v])
        \/ merge(t, "delete", change[t])
        \/ update_record(t) \/ delete_record(t) \/ execute_in_transaction_Fails(t)

RecordSpec == RecordInit /\ [][RecordNext]_recordVars

\* An update that was committed is undone by an update of another column, which writes
\* back every attribute of its instance, only when that instance was read before it.
LostNeedsStale == row.exists /\ row.cols # intended => stale

\* A deleted row comes back without being created only through such an instance: merge
\* makes a new row of it.
RevivedNeedsStale == row.exists /\ deleted => stale

-----------------------------------------------------------------------------
(***************************************************************************)
(* DatabaseManager of service_database.py: the engine and the session      *)
(* factory are made on first use, and close() disposes the engine and      *)
(* forgets both. close() waits inside dispose(), and other tasks of the    *)
(* event loop run meanwhile.                                               *)
(***************************************************************************)
CONSTANTS
    PoolTasks,      \* tasks of the event loop
    MaxEngines      \* bound on the engines made

PoolNone == 0
Engines == 1 .. MaxEngines

VARIABLES
    engine,         \* _engine
    factory,        \* the engine _session_factory is bound to
    made,           \* engines made so far
    idle,           \* engines whose pool keeps connections
    poolPc,         \* "idle", "session" or "closing"
    using,          \* the engine a task has a session on, or is disposing
    closed,         \* the engine was disposed while the session of the task was open
    overlap         \* a close ran beside another close or a session

poolVars == <<engine, factory, made, idle, poolPc, using, closed, overlap>>

PoolTypeOK ==
    /\ engine \in {PoolNone} \union Engines /\ factory \in {PoolNone} \union Engines
    /\ made \in 0 .. MaxEngines
    /\ idle \subseteq Engines
    /\ poolPc \in [PoolTasks -> {"idle", "session", "closing"}]
    /\ using \in [PoolTasks -> {PoolNone} \union Engines]
    /\ closed \subseteq PoolTasks
    /\ overlap \in BOOLEAN

PoolInit ==
    /\ engine = PoolNone /\ factory = PoolNone /\ made = 0 /\ idle = {}
    /\ poolPc = [t \in PoolTasks |-> "idle"] /\ using = [t \in PoolTasks |-> PoolNone]
    /\ closed = {} /\ overlap = FALSE

Closing == {t \in PoolTasks : poolPc[t] = "closing"}

\* get_database_manager and the properties engine and session_factory: neither waits.
get_engine == IF engine = PoolNone THEN made + 1 ELSE engine
session_factory == IF factory = PoolNone THEN get_engine ELSE factory

\* session() and transaction(): a connection of the factory's engine is checked out.
poolSession(t) ==
    /\ poolPc[t] = "idle" /\ session_factory \in Engines
    /\ factory' = session_factory
    /\ engine' = IF factory = PoolNone THEN get_engine ELSE engine
    /\ made' = IF factory = PoolNone /\ engine = PoolNone THEN made + 1 ELSE made
    /\ poolPc' = [poolPc EXCEPT ![t] = "session"]
    /\ using' = [using EXCEPT ![t] = factory']
    /\ closed' = closed \ {t}
    /\ overlap' = (overlap \/ Closing # {})
    /\ UNCHANGED idle

\* Commit or rollback, and the connection goes back to its pool: the pool of an engine
\* disposed meanwhile was replaced, and the connection is dropped with the old one.
EndSession(t) ==
    /\ poolPc[t] = "session"
    /\ poolPc' = [poolPc EXCEPT ![t] = "idle"]
    /\ idle' = IF t \in closed THEN idle ELSE idle \union {using[t]}
    /\ UNCHANGED <<engine, factory, made, using, closed, overlap>>

\* close() up to the wait: dispose() empties the pool and puts a new one in its place.
close(t) ==
    /\ poolPc[t] = "idle" /\ engine # PoolNone
    /\ poolPc' = [poolPc EXCEPT ![t] = "closing"]
    /\ using' = [using EXCEPT ![t] = engine]
    /\ idle' = idle \ {engine}
    /\ closed' = closed \union {u \in PoolTasks : poolPc[u] = "session" /\ using[u] = engine}
    /\ overlap' = (overlap \/ Closing # {})
    /\ UNCHANGED <<engine, factory, made>>

Forgotten_EngineOnly == engine' = PoolNone /\ UNCHANGED factory
Forgotten == engine' = PoolNone /\ factory' = PoolNone

\* The rest of it forgets whatever engine and factory there are by now.
Disposed(t) ==
    /\ poolPc[t] = "closing"
    /\ poolPc' = [poolPc EXCEPT ![t] = "idle"]
    /\ Forgotten
    /\ UNCHANGED <<made, idle, using, closed, overlap>>

PoolNext == \E t \in PoolTasks : poolSession(t) \/ EndSession(t) \/ close(t) \/ Disposed(t)

PoolSpec == PoolInit /\ [][PoolNext]_poolVars

\* Connections stay open in the pool of an engine nobody can close any more only when a
\* session was begun, or a second close, while a close was waiting: it then forgets an
\* engine that is in use, or one made after it began.
LeakNeedsOverlap == (\E e \in idle : e # engine) => overlap

-----------------------------------------------------------------------------
(***************************************************************************)
(* AlembicMigrationAdapter of marty_common/migration.py: a directory of    *)
(* revisions, the env.py in it, and the version tables of the database.    *)
(* env.py names the schema that alembic writes the version to, the adapter *)
(* the schema that current() reads it from. Revisions are numbered along   *)
(* their chain; the processes that use a directory come one after another. *)
(***************************************************************************)
CONSTANTS
    Names,          \* service names
    Dirs,           \* directories of migrations
    MaxRevisions    \* revisions of a directory, the bound of the model

AlembicNone == "none"
NoRevision == [dir |-> AlembicNone, rev |-> 0]

VARIABLES
    url,            \* database_url: "sync", or "async" with the driver of the services
    env,            \* per directory: the service name its env.py was written for
    scripts,        \* per directory: how many revisions it holds
    schemas,        \* the database: schemas that exist
    version,        \* the database: the revision in the version table, per schema
    name,           \* the adapter's _service_name
    cfg,            \* the directory of its alembic_cfg
    verified        \* what verify_schema last said, and what was the case

alembicVars == <<url, env, scripts, schemas, version, name, cfg, verified>>

NotVerified == [fits |-> FALSE, upgraded |-> FALSE, own |-> TRUE, head |-> 0]

AlembicTypeOK ==
    /\ url \in {"sync", "async"}
    /\ env \in [Dirs -> Names \union {AlembicNone}] /\ scripts \in [Dirs -> 0 .. MaxRevisions]
    /\ schemas \subseteq Names
    /\ \A n \in Names :
          version[n] = NoRevision \/ version[n] \in [dir : Dirs, rev : 1 .. MaxRevisions]
    /\ name \in Names \union {AlembicNone} /\ cfg \in Dirs \union {AlembicNone}
    /\ verified \in [fits : BOOLEAN, upgraded : BOOLEAN, own : BOOLEAN, head : 0 .. MaxRevisions]

AlembicInit ==
    /\ url \in {"sync", "async"}
    /\ env = [d \in Dirs |-> AlembicNone] /\ scripts = [d \in Dirs |-> 0]
    /\ schemas = {} /\ version = [n \in Names |-> NoRevision]
    /\ name = AlembicNone /\ cfg = AlembicNone
    /\ verified = NotVerified

\* history: the revisions of a directory, oldest first. The head is the last one.
history(d) == [r \in 1 .. scripts[d] |-> [dir |-> d, rev |-> r]]
HeadOf(d) == IF scripts[d] = 0 THEN NoRevision ELSE history(d)[scripts[d]]

EnvWritten_Always(d, n) == n

\* ini, env.py and the template are written where they do not exist; env.py for the name
\* it is written under.
EnvWritten(d, n) == IF env[d] = AlembicNone THEN n ELSE env[d]

initialize(n, d) ==
    /\ name' = n
    /\ env' = [env EXCEPT ![d] = EnvWritten(d, n)]
    /\ cfg' = d
    /\ verified' = NotVerified
    /\ UNCHANGED <<url, scripts, schemas, version>>

\* It fails at a directory or a file it cannot write: the name has been assigned, the
\* configuration of an earlier call stays.
InitializeFails(n, d) ==
    /\ name' = n
    /\ \/ env' = env
       \/ env' = [env EXCEPT ![d] = EnvWritten(d, n)]
    /\ verified' = NotVerified
    /\ UNCHANGED <<url, scripts, schemas, version, cfg>>

(* alembic, run through env.py on the configured directory. Without a      *)
(* configuration every operation is refused.                               *)

\* engine_from_config takes the URL as it is: an async driver cannot serve it.
Connects == url = "sync"

Recorded(d) == version[env[d]]
Known(d) == Recorded(d) = NoRevision \/ Recorded(d).dir = d

ensure_initialized == cfg # AlembicNone

\* create_migration. Alembic compares with the database for autogenerate, which must be
\* at the head; it refuses the SQL mode for this command, so that leaves all unchanged.
create_migration(autogenerate) ==
    /\ ensure_initialized /\ scripts[cfg] < MaxRevisions
    /\ autogenerate => Connects /\ Recorded(cfg) = HeadOf(cfg)
    /\ scripts' = [scripts EXCEPT ![cfg] = @ + 1]
    /\ verified' = NotVerified
    /\ UNCHANGED <<url, env, schemas, version, name, cfg>>

\* upgrade and downgrade, whose SQL mode only prints. The version table must have a schema,
\* and the revision it holds be one of the directory.
Migrates(d) == Connects /\ env[d] \in schemas /\ Known(d)

upgrade(r) ==
    /\ ensure_initialized /\ Migrates(cfg)
    /\ r \in Recorded(cfg).rev + 1 .. scripts[cfg]
    /\ version' = [version EXCEPT ![env[cfg]] = history(cfg)[r]]
    /\ verified' = NotVerified
    /\ UNCHANGED <<url, env, scripts, schemas, name, cfg>>

downgrade(r) ==
    /\ ensure_initialized /\ Migrates(cfg)
    /\ r < Recorded(cfg).rev
    /\ version' = [version EXCEPT ![env[cfg]] = IF r = 0 THEN NoRevision ELSE history(cfg)[r]]
    /\ verified' = NotVerified
    /\ UNCHANGED <<url, env, scripts, schemas, name, cfg>>

current_Default == NoRevision

\* current: the URL without its async driver, the schema of the adapter's own name.
current == version[name]

\* verify_schema, with what the database holds for the directory.
verify_schema ==
    /\ ensure_initialized
    /\ verified' = [fits |-> current = HeadOf(cfg), upgraded |-> Recorded(cfg) = HeadOf(cfg),
                    own |-> name = env[cfg], head |-> HeadOf(cfg).rev]
    /\ UNCHANGED <<url, env, scripts, schemas, version, name, cfg>>

\* The operator creates a schema; another process starts on the same directories.
CreateSchema(n) ==
    /\ schemas' = schemas \union {n} /\ schemas' # schemas
    /\ UNCHANGED <<url, env, scripts, version, name, cfg, verified>>

NewProcess ==
    /\ name' = AlembicNone /\ cfg' = AlembicNone /\ verified' = NotVerified
    /\ UNCHANGED <<url, env, scripts, schemas, version>>

AlembicNext ==
    \/ \E n \in Names, d \in Dirs : initialize(n, d) \/ InitializeFails(n, d)
    \/ \E autogenerate \in BOOLEAN : create_migration(autogenerate)
    \/ \E r \in 0 .. MaxRevisions : upgrade(r) \/ downgrade(r)
    \/ verify_schema
    \/ \E n \in Names : CreateSchema(n)
    \/ NewProcess

AlembicSpec == AlembicInit /\ [][AlembicNext]_alembicVars

\* verify_schema is wrong about its directory, either way, only when the adapter's name is
\* not the one env.py was written for: it was initialized under another name before, or a
\* later initialize failed after assigning the name.
WrongNeedsRename == verified.fits # verified.upgraded => ~verified.own

-----------------------------------------------------------------------------
(***************************************************************************)
(* TransactionManager and the session scope of database/utilities.py: a    *)
(* list of operations runs in one session, which is committed after the    *)
(* last of them and given back to the pool however the block ends. A       *)
(* failed operation fails its batch; a task may be cancelled at any await, *)
(* the commit included; the answer to a commit may be lost. Services that  *)
(* start create the tables they share. Operations insert a key that must   *)
(* be unique, or look up the rows there are.                               *)
(***************************************************************************)
CONSTANTS
    Clients,        \* tasks that run batches
    Keys,           \* primary keys
    Starters,       \* services creating the tables
    Pool,           \* connections of the engine
    MaxLength       \* operations of a batch

Find == "find"
Plans == {p \in SeqOf(Keys \union {Find}, MaxLength) : p # <<>>}

VARIABLES
    rows,           \* committed rows: the client each key comes from, or None
    batchSession,   \* each client: where it is, its batch, the keys flushed so far (history: had)
    outcome,        \* how the last batch of each client ended, and what it was to insert
    tables,         \* the tables exist
    starter,        \* each service: before, between check and creation, ready, failed
    seen            \* history: clients whose commit was not answered, services whose
                    \* create_all failed by itself, starts that overlapped

batchVars == <<rows, batchSession, outcome, tables, starter, seen>>

BatchNone == "none"
Closed == [pc |-> "closed", plan |-> <<>>, next |-> 1, flushed |-> {}, had |-> {}]
NoOutcome == [kind |-> BatchNone, asked |-> {}, had |-> {}]

\* The rows a client put there.
Mine(c) == {k \in Keys : rows[k] = c}

BatchTypeOK ==
    /\ rows \in [Keys -> Clients \union {BatchNone}]
    /\ \A c \in Clients :
          /\ batchSession[c].pc \in {"closed", "open", "commit"}
          /\ batchSession[c].plan \in Plans \union {<<>>} /\ batchSession[c].next \in 1 .. MaxLength + 1
          /\ batchSession[c].flushed \subseteq Keys /\ batchSession[c].had \subseteq Keys
          /\ outcome[c].kind \in {BatchNone, "results", "MartyDatabaseError", "CancelledError"}
    /\ tables \in BOOLEAN /\ starter \in [Starters -> {"new", "checked", "ready", "failed"}]
    /\ seen \in [unanswered : SUBSET Clients, refused : SUBSET Starters, overlap : BOOLEAN]

BatchInit ==
    /\ rows = [k \in Keys |-> BatchNone]
    /\ batchSession = [c \in Clients |-> Closed]
    /\ outcome = [c \in Clients |-> NoOutcome]
    /\ tables = FALSE /\ starter = [s \in Starters |-> "new"]
    /\ seen = [unanswered |-> {}, refused |-> {}, overlap |-> FALSE]

tvars == <<tables, starter>>

(* create_service_database_tables                                          *)

\* create_all looks for the tables,
CheckTables(s) ==
    /\ starter[s] = "new"
    /\ starter' = [starter EXCEPT ![s] = IF tables THEN "ready" ELSE "checked"]
    /\ seen' = [seen EXCEPT !.overlap = @ \/ \E o \in Starters \ {s} : starter[o] = "checked"]
    /\ UNCHANGED <<rows, batchSession, outcome, tables>>

CreateTables_Again(s) ==
    /\ starter[s] = "checked"
    /\ starter' = [starter EXCEPT ![s] = "failed"]
    /\ tables' = TRUE
    /\ UNCHANGED <<rows, batchSession, outcome, seen>>

\* and creates those it missed: one another service created meanwhile is an error, logged
\* and raised.
CreateTables(s) ==
    /\ starter[s] = "checked"
    /\ starter' = [starter EXCEPT ![s] = IF tables THEN "failed" ELSE "ready"]
    /\ tables' = TRUE
    /\ UNCHANGED <<rows, batchSession, outcome, seen>>

\* create_all raises for a reason of its own (no connection, no permission), before or after
\* it created the tables; everything is logged and raised.
RefuseTables(s) ==
    /\ starter[s] \in {"new", "checked"}
    /\ starter' = [starter EXCEPT ![s] = "failed"]
    /\ tables' \in {tables, tables \/ starter[s] = "checked"}
    /\ seen' = [seen EXCEPT !.refused = @ \union {s}]
    /\ UNCHANGED <<rows, batchSession, outcome>>

(* Batches                                                                 *)

InUse == {c \in Clients : batchSession[c].pc # "closed"}

\* transaction and execute_with_session: a session of its own. It takes a connection with
\* its first operation; a batch that gets none fails like any other.
Begin(c, plan) ==
    /\ batchSession[c].pc = "closed" /\ Cardinality(InUse) < Pool
    /\ batchSession' = [batchSession EXCEPT ![c] = [Closed EXCEPT !.pc = "open", !.plan = plan,
                                                                      !.had = Mine(c)]]
    /\ outcome' = [outcome EXCEPT ![c] = NoOutcome]
    /\ seen' = [seen EXCEPT !.unanswered = @ \ {c}]
    /\ UNCHANGED rows /\ UNCHANGED tvars

Operation(c) == batchSession[c].plan[batchSession[c].next]
Running(c) == batchSession[c].pc = "open" /\ batchSession[c].next <= Len(batchSession[c].plan)

Step(c, s) == batchSession' = [batchSession EXCEPT ![c] = [s EXCEPT !.next = @ + 1]]

\* find_one, find_many and count_records change nothing; their results are left out.
find(c) ==
    /\ Running(c) /\ Operation(c) = Find /\ tables
    /\ Step(c, batchSession[c])
    /\ UNCHANGED <<rows, outcome, seen>> /\ UNCHANGED tvars

\* An insert waits for another session that holds the same key uncommitted.
insert(c) ==
    /\ Running(c) /\ Operation(c) \in Keys /\ tables
    /\ rows[Operation(c)] = BatchNone
    /\ \A o \in Clients : Operation(c) \notin batchSession[o].flushed
    /\ Step(c, [batchSession[c] EXCEPT !.flushed = @ \union {Operation(c)}])
    /\ UNCHANGED <<rows, outcome, seen>> /\ UNCHANGED tvars

End(c, kind) ==
    /\ batchSession' = [batchSession EXCEPT ![c] = Closed]
    /\ outcome' = [outcome EXCEPT ![c] = [kind |-> kind, asked |-> ToSet(batchSession[c].plan) \ {Find},
                                          had |-> batchSession[c].had]]

Committed(c) == [k \in Keys |-> IF k \in batchSession[c].flushed THEN c ELSE rows[k]]

FailOperation_Commits(c) ==
    /\ Running(c)
    /\ rows' = Committed(c)
    /\ End(c, "MartyDatabaseError")
    /\ UNCHANGED seen /\ UNCHANGED tvars

\* Duplicate key, missing table, deadlock broken by the database, lost connection: rolled
\* back; execute_batch and then transaction each make a MartyDatabaseError of it.
FailOperation(c) ==
    /\ Running(c)
    /\ End(c, "MartyDatabaseError")
    /\ UNCHANGED <<rows, seen>> /\ UNCHANGED tvars

\* The block is left with the results in hand; the session scope commits now.
LeaveBlock(c) ==
    /\ batchSession[c].pc = "open" /\ batchSession[c].next > Len(batchSession[c].plan)
    /\ batchSession' = [batchSession EXCEPT ![c].pc = "commit"]
    /\ UNCHANGED <<rows, outcome, seen>> /\ UNCHANGED tvars

Commit(c) ==
    /\ batchSession[c].pc = "commit"
    /\ rows' = Committed(c)
    /\ End(c, "results")
    /\ UNCHANGED seen /\ UNCHANGED tvars

\* The commit raises: it was not done, or it was and the connection broke before the answer.
FailCommit(c, done) ==
    /\ batchSession[c].pc = "commit"
    /\ rows' = IF done THEN Committed(c) ELSE rows
    /\ End(c, "MartyDatabaseError")
    /\ seen' = IF done THEN [seen EXCEPT !.unanswered = @ \union {c}] ELSE seen
    /\ UNCHANGED tvars

\* CancelledError is no Exception: no rollback, but closing the session has the same effect.
\* It passes unwrapped.
Cancel(c, done) ==
    /\ batchSession[c].pc \in {"open", "commit"} /\ (done => batchSession[c].pc = "commit")
    /\ rows' = IF done THEN Committed(c) ELSE rows
    /\ End(c, "CancelledError")
    /\ seen' = IF done THEN [seen EXCEPT !.unanswered = @ \union {c}] ELSE seen
    /\ UNCHANGED tvars

BatchNext ==
    \/ \E s \in Starters : CheckTables(s) \/ CreateTables(s) \/ RefuseTables(s)
    \/ \E c \in Clients :
          \/ find(c) \/ insert(c) \/ FailOperation(c) \/ LeaveBlock(c) \/ Commit(c)
          \/ \E plan \in Plans : Begin(c, plan)
          \/ \E done \in BOOLEAN : FailCommit(c, done) \/ Cancel(c, done)

BatchSpec == BatchInit /\ [][BatchNext]_batchVars

\* All or nothing, as the caller sees it: with its results every row of its batch is there;
\* after an error or a cancellation none is, unless the commit was done and not answered:
\* then all are, and the batch tried again fails on its own keys.
BatchIsOneStep ==
    \A c \in Clients :
        outcome[c].kind # BatchNone =>
            Mine(c) \ outcome[c].had =
                IF outcome[c].kind = "results" \/ c \in seen.unanswered
                THEN outcome[c].asked ELSE {}

\* A service whose create_all did not fail by itself fails to start only when another one was
\* creating the tables at the same time; and one that starts has them, whoever created them.
FailedStartNeedsOverlap ==
    \A s \in Starters :
        /\ starter[s] = "failed" => seen.overlap \/ s \in seen.refused
        /\ starter[s] = "ready" => tables
=============================================================================
