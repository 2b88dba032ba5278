---------------------------- MODULE OutboxProofs ----------------------------
(***************************************************************************)
(* The safety of the outbox for any number of records and dispatchers and  *)
(* any settings.  ProcessedWasDelivered and NothingLost hold on every      *)
(* database; they need to be strengthened by what a session has marked     *)
(* before it commits (MarkedWasDelivered).  What row locks add is LockInv, *)
(* and from it the refinement of EventQueue.                               *)
(***************************************************************************)
EXTENDS Outbox, TLAPS

\* A session marks a record processed only after the broker received it.
MarkedWasDelivered ==
    BusEnabled => \A d \in Dispatchers : Marked(d, "processed") \subseteq delivered

Inv == TypeOK /\ NothingLost /\ ProcessedWasDelivered /\ MarkedWasDelivered

-----------------------------------------------------------------------------
\* The computed delay is capped, so it is always a legal waiting time.
LEMMA DelayType == \A a \in Nat : ComputeRetryDelay(a) \in Delays
  BY OutboxConfig DEF ComputeRetryDelay, Delays

\* mark_failed leaves a well-formed record that is not marked processed.
LEMMA MarkFailedType ==
    ASSUME NEW rec \in Loaded
    PROVE  MarkFailed(rec) \in Loaded /\ MarkFailed(rec).mark \in {"retry", "dead"}
  <1>1. rec.attempts \in Nat /\ rec.wait \in Delays
    BY DEF Loaded
  <1>2. ComputeRetryDelay(rec.attempts + 1) \in Delays
    BY <1>1, DelayType
  <1> QED
    BY <1>1, <1>2 DEF MarkFailed, Loaded

\* A waiting time that elapses stays a waiting time.
LEMMA ElapseType == \A w \in Delays : Elapse(w) \in Delays
  BY OutboxConfig DEF Elapse, Delays

\* A closed session is well-formed and holds nothing.
LEMMA NoSessionType ==
    DOMAIN NoSession = {} /\ NoSession \in [{} -> Loaded]
  BY DEF NoSession

LEMMA InitInv == Init => Inv
  <1> SUFFICES ASSUME Init PROVE Inv
    OBVIOUS
  <1>1. TypeOK
    BY OutboxConfig, NoSessionType DEF Init, TypeOK, Row, Delays, Claimed
  <1>2. \A d \in Dispatchers : Claimed(d) = {}
    BY NoSessionType DEF Init, Claimed
  <1>3. MarkedWasDelivered
    BY <1>2 DEF MarkedWasDelivered, Marked
  <1>4. NothingLost /\ ProcessedWasDelivered
    BY DEF Init, NothingLost, ProcessedWasDelivered
  <1> QED
    BY <1>1, <1>3, <1>4 DEF Inv

-----------------------------------------------------------------------------
(* Steps that only touch the tasks and the tables' waiting times           *)

LEMMA QuietStep ==
    ASSUME Inv,
           UNCHANGED <<dlq, delivered, failures>>,
           row' \in [Records -> Row],
           \A r \in Records :
              \/ row'[r].status = row[r].status
              \/ row[r].status = "absent" /\ row'[r].status = "queued",
           TypeOK',
           \A d \in Dispatchers : Marked(d, "processed")' \subseteq Marked(d, "processed")
    PROVE  Inv'
  <1>1. NothingLost'
    BY DEF Inv, NothingLost, TypeOK, Row
  <1>2. ProcessedWasDelivered'
    BY DEF Inv, ProcessedWasDelivered
  <1>3. MarkedWasDelivered'
    BY DEF Inv, MarkedWasDelivered
  <1> QED
    BY <1>1, <1>2, <1>3 DEF Inv

\* A dispatcher that replaces its own session leaves the others as they are.
LEMMA ReplaceSession ==
    ASSUME TypeOK, NEW d \in Dispatchers, NEW S \in SUBSET Records,
           NEW f \in [S -> Loaded], sess' = [sess EXCEPT ![d] = f]
    PROVE  /\ DOMAIN sess' = Dispatchers
           /\ sess'[d] = f /\ Claimed(d)' = S
           /\ \A e \in Dispatchers \ {d} :
                 /\ sess'[e] = sess[e] /\ Claimed(e)' = Claimed(e)
                 /\ Marked(e, "processed")' = Marked(e, "processed")
           /\ \A e \in Dispatchers :
                 Claimed(e)' \subseteq Records /\ sess'[e] \in [Claimed(e)' -> Loaded]
  <1>1. DOMAIN sess' = Dispatchers /\ sess'[d] = f
    BY DEF TypeOK
  <1>2. \A e \in Dispatchers \ {d} : sess'[e] = sess[e]
    BY DEF TypeOK
  <1>3. Claimed(d)' = S
    BY <1>1 DEF Claimed
  <1>4. \A e \in Dispatchers \ {d} :
           /\ Claimed(e)' = Claimed(e)
           /\ Marked(e, "processed")' = Marked(e, "processed")
    BY <1>2 DEF Claimed, Marked
  <1>5. ASSUME NEW e \in Dispatchers
        PROVE  Claimed(e)' \subseteq Records /\ sess'[e] \in [Claimed(e)' -> Loaded]
    <2>1. CASE e = d
      BY <1>1, <1>3, <2>1
    <2>2. CASE e # d
      BY <1>2, <1>4, <2>2 DEF TypeOK
    <2> QED BY <2>1, <2>2
  <1> QED
    BY <1>1, <1>2, <1>3, <1>4, <1>5

-----------------------------------------------------------------------------
(* One lemma per action that changes more                                  *)

LEMMA EnqueueInv ==
    ASSUME Inv, NEW r \in Records, NEW w \in Delays, Enqueue(r, w) \/ Requeue(r, w)
    PROVE  Inv'
  <1>1. /\ UNCHANGED <<dlq, task, sess, delivered, failures, stable>>
        /\ row' \in [Records -> Row]
        /\ \A s \in Records :
              \/ row'[s].status = row[s].status
              \/ row[s].status = "absent" /\ row'[s].status = "queued"
    <2>0. row \in [Records -> Row]
      BY DEF Inv, TypeOK
    <2>1. CASE Enqueue(r, w)
      BY <2>0, <2>1 DEF Enqueue, Row
    <2>2. CASE Requeue(r, w)
      BY <2>0, <2>2 DEF Requeue, Row
    <2> QED BY <2>1, <2>2
  <1>2. TypeOK'
    BY <1>1 DEF Inv, TypeOK, Claimed
  <1>3. \A d \in Dispatchers : Marked(d, "processed")' \subseteq Marked(d, "processed")
    BY <1>1 DEF Marked, Claimed
  <1> QED
    BY <1>1, <1>2, <1>3, QuietStep

LEMMA TaskInv ==
    ASSUME Inv, NEW d \in Dispatchers, Start(d) \/ PollTimeout(d) \/ ClaimNothing(d)
    PROVE  Inv'
  <1>1. /\ UNCHANGED <<row, dlq, sess, delivered, failures, stable>>
        /\ task[d] # "working"
        /\ \E t \in {"ready", "waiting"} : task' = [task EXCEPT ![d] = t]
    BY DEF Start, PollTimeout, ClaimNothing
  <1>2. TypeOK'
    BY <1>1 DEF Inv, TypeOK, Claimed
  <1>3. \A e \in Dispatchers : Marked(e, "processed")' \subseteq Marked(e, "processed")
    BY <1>1 DEF Marked, Claimed
  <1> QED
    BY <1>1, <1>2, <1>3, QuietStep DEF Inv, TypeOK

LEMMA AbortInv ==
    ASSUME Inv, NEW d \in Dispatchers, Stop(d) \/ CommitFails(d)
    PROVE  Inv'
  <1>1. /\ UNCHANGED <<row, dlq, delivered, failures, stable>>
        /\ sess' = [sess EXCEPT ![d] = NoSession]
        /\ \E t \in {"stopped", "waiting"} : task' = [task EXCEPT ![d] = t]
    BY DEF Stop, CommitFails
  <1>2. TypeOK
    BY DEF Inv
  <1>3. /\ DOMAIN sess' = Dispatchers
        /\ Claimed(d)' = {}
        /\ \A e \in Dispatchers \ {d} :
              /\ Claimed(e)' = Claimed(e)
              /\ Marked(e, "processed")' = Marked(e, "processed")
        /\ \A e \in Dispatchers :
              Claimed(e)' \subseteq Records /\ sess'[e] \in [Claimed(e)' -> Loaded]
    BY <1>1, <1>2, ReplaceSession, NoSessionType
  <1>4. TypeOK'
    BY <1>1, <1>2, <1>3 DEF TypeOK
  <1>5. Marked(d, "processed")' = {}
    BY <1>3 DEF Marked
  <1>6. \A e \in Dispatchers : Marked(e, "processed")' \subseteq Marked(e, "processed")
    BY <1>3, <1>5
  <1> QED
    BY <1>1, <1>2, <1>4, <1>6, QuietStep DEF TypeOK

LEMMA ClaimInv ==
    ASSUME Inv, NEW d \in Dispatchers, ClaimBatch(d)
    PROVE  Inv'
  <1>0. TypeOK
    BY DEF Inv
  <1>1. PICK S \in SUBSET Records :
           sess' = [sess EXCEPT ![d] =
              [r \in S |-> [mark |-> "clean", attempts |-> row[r].attempts,
                            wait |-> row[r].wait]]]
    BY DEF ClaimBatch
  <1> DEFINE f == [r \in S |-> [mark |-> "clean", attempts |-> row[r].attempts,
                                wait |-> row[r].wait]]
  <1>2. f \in [S -> Loaded]
    BY <1>0 DEF TypeOK, Row, Loaded
  <1>3. /\ DOMAIN sess' = Dispatchers
        /\ sess'[d] = f /\ Claimed(d)' = S
        /\ \A e \in Dispatchers \ {d} :
              /\ Claimed(e)' = Claimed(e)
              /\ Marked(e, "processed")' = Marked(e, "processed")
        /\ \A e \in Dispatchers :
              Claimed(e)' \subseteq Records /\ sess'[e] \in [Claimed(e)' -> Loaded]
    BY <1>0, <1>1, <1>2, ReplaceSession
  <1>4. /\ task' = [task EXCEPT ![d] = "working"]
        /\ UNCHANGED <<row, dlq, delivered, failures, stable>>
    BY DEF ClaimBatch
  <1>5. TypeOK'
    BY <1>0, <1>3, <1>4 DEF TypeOK
  <1>6. Marked(d, "processed")' = {}
    BY <1>3 DEF Marked
  <1>7. \A e \in Dispatchers : Marked(e, "processed")' \subseteq Marked(e, "processed")
    BY <1>3, <1>6
  <1> QED
    BY <1>0, <1>4, <1>5, <1>7, QuietStep DEF TypeOK

LEMMA PublishInv ==
    ASSUME Inv, NEW d \in Dispatchers, NEW r \in Records,
           PublishOk(d, r) \/ PublishFails(d, r)
    PROVE  Inv'
  <1>0. TypeOK /\ sess[d] \in [Claimed(d) -> Loaded] /\ Claimed(d) \in SUBSET Records
    BY DEF Inv, TypeOK
  <1>1. /\ task[d] = "working" /\ r \in Claimed(d) /\ sess[d][r] \in Loaded
        /\ UNCHANGED <<row, dlq, task, failures, stable>>
        /\ delivered \subseteq delivered' /\ delivered' \subseteq Records
    BY <1>0 DEF PublishOk, PublishFails, IsNext, Marked, TypeOK
  <1>2. PICK rec \in Loaded :
           /\ sess' = [sess EXCEPT ![d] = [sess[d] EXCEPT ![r] = rec]]
           /\ rec.mark = "processed" /\ BusEnabled => r \in delivered'
    <2>1. CASE PublishOk(d, r)
      <3> DEFINE rec == [sess[d][r] EXCEPT !.mark = "processed"]
      <3>1. rec \in Loaded
        BY <1>1 DEF Loaded
      <3>2. sess' = [sess EXCEPT ![d] = [sess[d] EXCEPT ![r] = rec]]
        BY <1>0, <1>1, <2>1 DEF PublishOk, TypeOK
      <3>3. BusEnabled => r \in delivered'
        BY <2>1 DEF PublishOk
      <3> QED BY <3>1, <3>2, <3>3
    <2>2. CASE PublishFails(d, r)
      <3> DEFINE rec == MarkFailed(sess[d][r])
      <3>1. rec \in Loaded /\ rec.mark \in {"retry", "dead"}
        BY <1>1, MarkFailedType
      <3>2. sess' = [sess EXCEPT ![d] = [sess[d] EXCEPT ![r] = rec]]
        BY <1>0, <1>1, <2>2 DEF PublishFails, TypeOK
      <3> QED BY <3>1, <3>2
    <2> QED BY <2>1, <2>2
  <1> DEFINE f == [sess[d] EXCEPT ![r] = rec]
  <1>3. f \in [Claimed(d) -> Loaded]
    BY <1>0, <1>1
  <1>4. /\ DOMAIN sess' = Dispatchers
        /\ sess'[d] = f /\ Claimed(d)' = Claimed(d)
        /\ \A e \in Dispatchers \ {d} :
              /\ Claimed(e)' = Claimed(e)
              /\ Marked(e, "processed")' = Marked(e, "processed")
        /\ \A e \in Dispatchers :
              Claimed(e)' \subseteq Records /\ sess'[e] \in [Claimed(e)' -> Loaded]
    BY <1>0, <1>2, <1>3, ReplaceSession
  <1>5. TypeOK'
    BY <1>0, <1>1, <1>4 DEF TypeOK
  <1>6. BusEnabled => Marked(d, "processed")' \subseteq delivered'
    <2> SUFFICES ASSUME BusEnabled, NEW s \in Marked(d, "processed")'
                 PROVE  s \in delivered'
      OBVIOUS
    <2>1. s \in Claimed(d) /\ f[s].mark = "processed"
      BY <1>4 DEF Marked
    <2>2. CASE s = r
      BY <1>0, <1>1, <1>2, <2>1, <2>2
    <2>3. CASE s # r
      BY <1>0, <1>1, <2>1, <2>3 DEF Inv, MarkedWasDelivered, Marked
    <2> QED BY <2>2, <2>3
  <1>7. MarkedWasDelivered'
    BY <1>1, <1>4, <1>6 DEF Inv, MarkedWasDelivered
  <1>8. NothingLost' /\ ProcessedWasDelivered'
    BY <1>1 DEF Inv, NothingLost, ProcessedWasDelivered
  <1> QED
    BY <1>5, <1>7, <1>8 DEF Inv

\* What a commit writes to one row.
LEMMA WrittenRow ==
    ASSUME TypeOK, NEW d \in Dispatchers, NEW r \in Records
    PROVE  /\ Written(d, r) \in Row
           /\ Written(d, r).status =
                 IF r \in Marked(d, "processed") THEN "processed"
                 ELSE IF r \in Marked(d, "dead") THEN "deleted"
                 ELSE row[r].status
  <1>1. row[r] \in Row
    BY DEF TypeOK
  <1>2. \A m \in {"processed", "retry", "dead"} : r \in Marked(d, m) =>
           sess[d][r].attempts \in Nat /\ sess[d][r].wait \in Delays
    BY DEF TypeOK, Marked, Loaded
  <1>3. CASE r \in Marked(d, "processed")
    <2>1. Written(d, r) = [row[r] EXCEPT !.status = "processed"]
      BY <1>3 DEF Written, Marked
    <2> QED BY <1>1, <1>3, <2>1 DEF Row
  <1>4. CASE r \in Marked(d, "retry")
    <2>1. /\ Written(d, r) = [row[r] EXCEPT !.attempts = sess[d][r].attempts,
                                            !.wait = sess[d][r].wait]
          /\ r \notin Marked(d, "processed") /\ r \notin Marked(d, "dead")
      BY <1>4 DEF Written, Marked
    <2> QED BY <1>1, <1>2, <1>4, <2>1 DEF Row
  <1>5. CASE r \in Marked(d, "dead")
    <2>1. /\ Written(d, r) = [row[r] EXCEPT !.attempts = sess[d][r].attempts,
                                            !.status = "deleted"]
          /\ r \notin Marked(d, "processed")
      BY <1>5 DEF Written, Marked
    <2> QED BY <1>1, <1>2, <1>5, <2>1 DEF Row
  <1>6. CASE /\ r \notin Marked(d, "processed")
             /\ r \notin Marked(d, "retry") /\ r \notin Marked(d, "dead")
    <2>1. Written(d, r) = row[r]
      BY <1>6 DEF Written
    <2> QED BY <1>1, <1>6, <2>1
  <1> QED
    BY <1>3, <1>4, <1>5, <1>6

LEMMA CommitInv ==
    ASSUME Inv, NEW d \in Dispatchers, Commit(d)
    PROVE  Inv'
  <1>0. TypeOK
    BY DEF Inv
  <1>1. /\ DOMAIN sess' = Dispatchers
        /\ Claimed(d)' = {}
        /\ \A e \in Dispatchers \ {d} :
              /\ Claimed(e)' = Claimed(e)
              /\ Marked(e, "processed")' = Marked(e, "processed")
        /\ \A e \in Dispatchers :
              Claimed(e)' \subseteq Records /\ sess'[e] \in [Claimed(e)' -> Loaded]
    BY <1>0, ReplaceSession, NoSessionType DEF Commit
  <1>2. /\ row' \in [Records -> Row]
        /\ \A r \in Records : row'[r].status =
              IF r \in Marked(d, "processed") THEN "processed"
              ELSE IF r \in Marked(d, "dead") THEN "deleted"
              ELSE row[r].status
    BY <1>0, WrittenRow DEF Commit
  <1>3. dlq' \in [Records -> Nat] /\ failures' \in [Records -> Nat]
    BY <1>0 DEF Commit, TypeOK
  <1>4. TypeOK'
    BY <1>0, <1>1, <1>2, <1>3 DEF Commit, TypeOK
  <1>5. MarkedWasDelivered'
    <2>1. Marked(d, "processed")' = {}
      BY <1>1 DEF Marked
    <2> QED BY <1>1, <2>1 DEF Inv, MarkedWasDelivered, Commit
  <1>6. ProcessedWasDelivered'
    BY <1>2 DEF Inv, ProcessedWasDelivered, MarkedWasDelivered, Commit
  <1>7. NothingLost'
    <2> SUFFICES ASSUME NEW r \in Records
                 PROVE  row'[r].status = "deleted" <=> dlq'[r] > 0
      BY DEF NothingLost
    <2>0. /\ row[r].status = "deleted" <=> dlq[r] > 0
          /\ dlq[r] \in Nat
          /\ dlq'[r] = IF r \in Marked(d, "dead") THEN dlq[r] + 1 ELSE dlq[r]
      BY <1>0 DEF Inv, NothingLost, TypeOK, Commit, DeadLetters
    <2>1. CASE r \in Marked(d, "processed")
      <3>1. r \notin Marked(d, "dead")
        BY <2>1 DEF Marked
      <3>2. row[r].status # "deleted"
        BY <2>1 DEF Commit, StaleBatch
      <3> QED BY <1>2, <2>0, <2>1, <3>1, <3>2
    <2>2. CASE r \in Marked(d, "dead")
      <3>1. r \notin Marked(d, "processed")
        BY <2>2 DEF Marked
      <3> QED BY <1>2, <2>0, <2>2, <3>1
    <2>3. CASE r \notin Marked(d, "processed") /\ r \notin Marked(d, "dead")
      BY <1>2, <2>0, <2>3
    <2> QED BY <2>1, <2>2, <2>3
  <1> QED
    BY <1>4, <1>5, <1>6, <1>7 DEF Inv

LEMMA TickInv ==
    ASSUME Inv, Tick
    PROVE  Inv'
  <1>0. TypeOK
    BY DEF Inv
  <1>1. /\ row' \in [Records -> Row]
        /\ \A r \in Records : row'[r].status = row[r].status
    <2>1. row \in [Records -> Row]
      BY <1>0 DEF TypeOK
    <2>2. row' = [r \in Records |-> [row[r] EXCEPT !.wait = Elapse(@)]]
      BY DEF Tick
    <2>3. ASSUME NEW r \in Records
          PROVE  row'[r] \in Row /\ row'[r].status = row[r].status
      BY <2>1, <2>2, ElapseType DEF Row
    <2> QED BY <2>2, <2>3
  <1>2. DOMAIN sess' = Dispatchers
    BY DEF Tick
  <1>3. ASSUME NEW d \in Dispatchers
        PROVE  /\ Claimed(d)' = Claimed(d)
               /\ sess'[d] \in [Claimed(d) -> Loaded]
               /\ \A r \in Claimed(d) : sess'[d][r].mark = sess[d][r].mark
    <2>1. sess[d] \in [Claimed(d) -> Loaded]
      BY <1>0 DEF TypeOK
    <2>2. sess'[d] = [r \in Claimed(d) |-> [sess[d][r] EXCEPT !.wait = Elapse(@)]]
      BY DEF Tick
    <2>3. Claimed(d)' = Claimed(d)
      BY <2>2 DEF Claimed
    <2>4. ASSUME NEW r \in Claimed(d)
          PROVE  sess'[d][r] \in Loaded /\ sess'[d][r].mark = sess[d][r].mark
      BY <2>1, <2>2, ElapseType DEF Loaded
    <2> QED BY <2>2, <2>3, <2>4
  <1>4. TypeOK'
    BY <1>0, <1>1, <1>2, <1>3 DEF Tick, TypeOK
  <1>5. \A d \in Dispatchers : Marked(d, "processed")' \subseteq Marked(d, "processed")
    BY <1>3 DEF Marked
  <1> QED
    BY <1>1, <1>4, <1>5, QuietStep DEF Tick

LEMMA StutterInv ==
    ASSUME Inv, StabilityChanges \/ UNCHANGED vars
    PROVE  Inv'
  <1>1. UNCHANGED <<row, dlq, task, sess, delivered, failures>> /\ stable' \in BOOLEAN
    BY DEF StabilityChanges, vars, Inv, TypeOK
  <1> QED
    BY <1>1
    DEF Inv, TypeOK, NothingLost, ProcessedWasDelivered, MarkedWasDelivered,
        Marked, Claimed

-----------------------------------------------------------------------------
LEMMA NextInv == Inv /\ [Next]_vars => Inv'
  <1> SUFFICES ASSUME Inv, [Next]_vars PROVE Inv'
    OBVIOUS
  <1>1. CASE \E r \in Records, w \in Delays : Enqueue(r, w) \/ Requeue(r, w)
    BY <1>1, EnqueueInv
  <1>2. ASSUME NEW d \in Dispatchers, Dispatch(d) \/ Stop(d) PROVE Inv'
    <2>1. CASE Start(d) \/ PollTimeout(d) \/ ClaimNothing(d)
      BY <2>1, TaskInv
    <2>2. CASE Stop(d) \/ CommitFails(d)
      BY <2>2, AbortInv
    <2>3. CASE ClaimBatch(d)
      BY <2>3, ClaimInv
    <2>4. CASE \E r \in Records : PublishOk(d, r) \/ PublishFails(d, r)
      BY <2>4, PublishInv
    <2>5. CASE Commit(d)
      BY <2>5, CommitInv
    <2> QED
      BY <1>2, <2>1, <2>2, <2>3, <2>4, <2>5 DEF Dispatch, Publish
  <1>3. CASE Tick
    BY <1>3, TickInv
  <1>4. CASE StabilityChanges \/ UNCHANGED vars
    BY <1>4, StutterInv
  <1> QED
    BY <1>1, <1>2, <1>3, <1>4 DEF Next

\* On every database the tables and the sessions keep their types.
THEOREM OutboxTypes == Spec => []TypeOK
  <1>1. Inv => TypeOK
    BY DEF Inv
  <1> QED
    BY <1>1, InitInv, NextInv, PTL DEF Spec

\* On every database, with any number of dispatchers, and whatever is stopped,
\* crashes or rolls back: a processed event was delivered.
THEOREM OutboxSafety == Spec => []ProcessedWasDelivered
  <1>1. Inv => ProcessedWasDelivered
    BY DEF Inv
  <1> QED
    BY <1>1, InitInv, NextInv, PTL DEF Spec

\* On every database an event leaves the outbox only into the dead-letter
\* table, and is in both tables at no commit point.
THEOREM NoEventIsLost == Spec => []NothingLost
  <1>1. Inv => NothingLost
    BY DEF Inv
  <1> QED
    BY <1>1, InitInv, NextInv, PTL DEF Spec

-----------------------------------------------------------------------------
(***************************************************************************)
(* Row locks.  Where the dialect has FOR UPDATE SKIP LOCKED a record is in *)
(* at most one session, so what the session loaded is what the table still *)
(* holds when it commits, and the attempts counter cannot drift.           *)
(***************************************************************************)

\* No record is in two sessions.
ClaimsDisjoint ==
    \A d, e \in Dispatchers : d # e => Claimed(d) \cap Claimed(e) = {}

\* mark_failed has set a record aside exactly when its attempts are used up.
MarksMatchAttempts ==
    \A d \in Dispatchers : \A r \in Claimed(d) :
        IF sess[d][r].mark = "dead" THEN sess[d][r].attempts = MaxAttempts
        ELSE sess[d][r].attempts < MaxAttempts

\* A row starts with no attempts and has some left until it is deleted.
AttemptsLeft ==
    \A r \in Records :
        /\ row[r].status = "absent" => row[r].attempts = 0
        /\ IF row[r].status = "deleted" THEN row[r].attempts = MaxAttempts
           ELSE row[r].attempts < MaxAttempts

LockInv ==
    SkipLocked => /\ ClaimsDisjoint /\ SessionsAreCurrent /\ MarksMatchAttempts
                  /\ AttemptsLeft /\ AttemptsAreFailures

\* A step that leaves the sessions' marks and counters, the statuses and the
\* attempts as they are preserves all of it.
LEMMA LockFrame ==
    ASSUME Inv, LockInv, SkipLocked, TypeOK',
           UNCHANGED <<dlq, failures>>,
           \A r \in Records : /\ row'[r].status = row[r].status
                              /\ row'[r].attempts = row[r].attempts,
           \A d \in Dispatchers :
              \/ Claimed(d)' = {}
              \/ /\ Claimed(d)' = Claimed(d)
                 /\ \A r \in Claimed(d) : /\ sess'[d][r].mark = sess[d][r].mark
                                          /\ sess'[d][r].attempts = sess[d][r].attempts
    PROVE  LockInv'
  <1>0. Inv /\ TypeOK /\ \A d \in Dispatchers : Claimed(d) \subseteq Records
    BY DEF Inv, TypeOK
  <1>1. ClaimsDisjoint'
    BY DEF LockInv, ClaimsDisjoint
  <1>2. SessionsAreCurrent'
    <2> SUFFICES ASSUME NEW d \in Dispatchers, NEW r \in Claimed(d)'
                 PROVE  /\ row'[r].status = "queued"
                        /\ row'[r].attempts = sess'[d][r].attempts
                             - (IF sess'[d][r].mark \in {"retry", "dead"} THEN 1 ELSE 0)
      BY DEF SessionsAreCurrent
    <2>1. /\ r \in Claimed(d) /\ r \in Records
          /\ sess'[d][r].mark = sess[d][r].mark
          /\ sess'[d][r].attempts = sess[d][r].attempts
      BY <1>0
    <2> QED BY <2>1 DEF LockInv, SessionsAreCurrent
  <1>3. MarksMatchAttempts'
    BY DEF LockInv, MarksMatchAttempts
  <1>4. AttemptsLeft' /\ AttemptsAreFailures'
    BY DEF LockInv, AttemptsLeft, AttemptsAreFailures
  <1> QED
    BY <1>1, <1>2, <1>3, <1>4 DEF LockInv

LEMMA EnqueueLocks ==
    ASSUME Inv, Inv', LockInv, SkipLocked,
           NEW r \in Records, NEW w \in Delays, Enqueue(r, w)
    PROVE  LockInv'
  <1>0. TypeOK /\ \A d \in Dispatchers : Claimed(d) \subseteq Records
    BY DEF Inv, TypeOK
  <1>1. /\ row[r].status = "absent" /\ UNCHANGED <<sess, dlq, failures>>
        /\ row'[r].status = "queued" /\ row'[r].attempts = 0
        /\ \A s \in Records \ {r} : row'[s] = row[s]
    BY <1>0 DEF Enqueue, TypeOK
  <1>2. row[r].attempts = 0 /\ failures[r] = 0
    BY <1>1 DEF LockInv, AttemptsLeft, AttemptsAreFailures
  <1>3. \A d \in Dispatchers : r \notin Claimed(d) /\ Claimed(d)' = Claimed(d)
    BY <1>1 DEF LockInv, SessionsAreCurrent, Claimed
  <1>4. ClaimsDisjoint'
    BY <1>3 DEF LockInv, ClaimsDisjoint
  <1>5. SessionsAreCurrent'
    BY <1>0, <1>1, <1>3 DEF LockInv, SessionsAreCurrent
  <1>6. MarksMatchAttempts'
    BY <1>1, <1>3 DEF LockInv, MarksMatchAttempts
  <1>7. AttemptsLeft'
    BY <1>1, OutboxConfig DEF LockInv, AttemptsLeft
  <1>8. AttemptsAreFailures'
    BY <1>1, <1>2 DEF LockInv, AttemptsAreFailures
  <1> QED
    BY <1>4, <1>5, <1>6, <1>7, <1>8 DEF LockInv

LEMMA ClaimLocks ==
    ASSUME Inv, Inv', LockInv, SkipLocked, NEW d \in Dispatchers, ClaimBatch(d)
    PROVE  LockInv'
  <1>0. TypeOK /\ TypeOK'
    BY DEF Inv
  <1>1. PICK S \in SUBSET Records :
           /\ IsBatch(S)
           /\ sess' = [sess EXCEPT ![d] =
              [r \in S |-> [mark |-> "clean", attempts |-> row[r].attempts,
                            wait |-> row[r].wait]]]
    BY DEF ClaimBatch
  <1>2. /\ Claimed(d)' = S
        /\ \A r \in S : sess'[d][r].mark = "clean" /\ sess'[d][r].attempts = row[r].attempts
        /\ \A e \in Dispatchers \ {d} : sess'[e] = sess[e] /\ Claimed(e)' = Claimed(e)
    BY <1>0, <1>1 DEF TypeOK, Claimed
  <1>3. \A r \in S : row[r].status = "queued" /\ \A e \in Dispatchers : r \notin Claimed(e)
    BY <1>1 DEF IsBatch, Claimable, Locked
  <1>4. UNCHANGED <<row, dlq, failures>>
    BY DEF ClaimBatch
  <1>5. ClaimsDisjoint'
    BY <1>2, <1>3 DEF LockInv, ClaimsDisjoint
  <1>6. SessionsAreCurrent'
    <2> SUFFICES ASSUME NEW e \in Dispatchers, NEW r \in Claimed(e)'
                 PROVE  /\ row'[r].status = "queued"
                        /\ row'[r].attempts = sess'[e][r].attempts
                             - (IF sess'[e][r].mark \in {"retry", "dead"} THEN 1 ELSE 0)
      BY DEF SessionsAreCurrent
    <2>1. CASE e = d
      <3>1. row[r].attempts \in Nat
        BY <1>0, <1>2, <2>1 DEF TypeOK, Row
      <3> QED BY <1>2, <1>3, <1>4, <2>1, <3>1
    <2>2. CASE e # d
      BY <1>2, <1>4, <2>2 DEF LockInv, SessionsAreCurrent
    <2> QED BY <2>1, <2>2
  <1>7. MarksMatchAttempts'
    <2> SUFFICES ASSUME NEW e \in Dispatchers, NEW r \in Claimed(e)'
                 PROVE  IF sess'[e][r].mark = "dead" THEN sess'[e][r].attempts = MaxAttempts
                        ELSE sess'[e][r].attempts < MaxAttempts
      BY DEF MarksMatchAttempts
    <2>1. CASE e = d
      BY <1>2, <1>3, <2>1 DEF LockInv, AttemptsLeft
    <2>2. CASE e # d
      BY <1>2, <2>2 DEF LockInv, MarksMatchAttempts
    <2> QED BY <2>1, <2>2
  <1>8. AttemptsLeft' /\ AttemptsAreFailures'
    BY <1>4 DEF LockInv, AttemptsLeft, AttemptsAreFailures
  <1> QED
    BY <1>5, <1>6, <1>7, <1>8 DEF LockInv

\* mark_failed counts one attempt and sets the record aside when it was the last.
LEMMA MarkFailedCounts ==
    ASSUME NEW rec \in Loaded, rec.attempts < MaxAttempts
    PROVE  /\ MarkFailed(rec).attempts = rec.attempts + 1
           /\ MarkFailed(rec).mark \in {"retry", "dead"}
           /\ IF MarkFailed(rec).mark = "dead" THEN MarkFailed(rec).attempts = MaxAttempts
              ELSE MarkFailed(rec).attempts < MaxAttempts
  <1>1. rec.attempts \in Nat
    BY DEF Loaded
  <1>2. CASE rec.attempts + 1 >= MaxAttempts
    BY <1>1, <1>2, OutboxConfig DEF MarkFailed
  <1>3. CASE ~(rec.attempts + 1 >= MaxAttempts)
    BY <1>1, <1>3, OutboxConfig DEF MarkFailed
  <1> QED BY <1>2, <1>3

LEMMA PublishLocks ==
    ASSUME Inv, Inv', LockInv, SkipLocked, NEW d \in Dispatchers, NEW r \in Records,
           PublishOk(d, r) \/ PublishFails(d, r)
    PROVE  LockInv'
  <1>0. TypeOK /\ sess[d] \in [Claimed(d) -> Loaded] /\ DOMAIN sess = Dispatchers
    BY DEF Inv, TypeOK
  <1>1. /\ r \in Claimed(d) /\ sess[d][r] \in Loaded /\ sess[d][r].mark = "clean"
        /\ UNCHANGED <<row, dlq, failures>>
    BY <1>0 DEF PublishOk, PublishFails, IsNext, Marked
  <1>2. /\ sess[d][r].attempts \in Nat
        /\ row[r].status = "queued" /\ row[r].attempts = sess[d][r].attempts
        /\ sess[d][r].attempts < MaxAttempts
    BY <1>1 DEF LockInv, SessionsAreCurrent, MarksMatchAttempts, Loaded
  <1>3. PICK rec :
           /\ sess' = [sess EXCEPT ![d] = [sess[d] EXCEPT ![r] = rec]]
           /\ row[r].attempts = rec.attempts - (IF rec.mark \in {"retry", "dead"} THEN 1 ELSE 0)
           /\ IF rec.mark = "dead" THEN rec.attempts = MaxAttempts
              ELSE rec.attempts < MaxAttempts
    <2>1. CASE PublishOk(d, r)
      <3> DEFINE rec == [sess[d][r] EXCEPT !.mark = "processed"]
      <3>1. sess' = [sess EXCEPT ![d] = [sess[d] EXCEPT ![r] = rec]]
        BY <1>0, <1>1, <2>1 DEF PublishOk
      <3>2. rec.mark = "processed" /\ rec.attempts = sess[d][r].attempts
        BY <1>1 DEF Loaded
      <3>3. row[r].attempts = rec.attempts - 0
        BY <1>2, <3>2
      <3> HIDE DEF rec
      <3> QED BY <1>2, <3>1, <3>2, <3>3
    <2>2. CASE PublishFails(d, r)
      <3> DEFINE rec == MarkFailed(sess[d][r])
      <3>1. sess' = [sess EXCEPT ![d] = [sess[d] EXCEPT ![r] = rec]]
        BY <1>0, <1>1, <2>2 DEF PublishFails
      <3>2. /\ rec.attempts = sess[d][r].attempts + 1
            /\ rec.mark \in {"retry", "dead"}
            /\ IF rec.mark = "dead" THEN rec.attempts = MaxAttempts
               ELSE rec.attempts < MaxAttempts
        BY <1>1, <1>2, MarkFailedCounts
      <3>3. row[r].attempts = rec.attempts - 1
        BY <1>2, <3>2
      <3> HIDE DEF rec
      <3> QED BY <1>2, <3>1, <3>2, <3>3
    <2> QED BY <2>1, <2>2
  <1>4. /\ sess'[d][r] = rec
        /\ \A s \in Claimed(d) \ {r} : sess'[d][s] = sess[d][s]
        /\ \A e \in Dispatchers \ {d} : sess'[e] = sess[e]
        /\ \A e \in Dispatchers : Claimed(e)' = Claimed(e)
    BY <1>0, <1>1, <1>3 DEF Claimed
  <1>5. ClaimsDisjoint'
    BY <1>4 DEF LockInv, ClaimsDisjoint
  <1>6. SessionsAreCurrent' /\ MarksMatchAttempts'
    <2> SUFFICES ASSUME NEW e \in Dispatchers, NEW s \in Claimed(e)
                 PROVE  /\ row'[s].status = "queued"
                        /\ row'[s].attempts = sess'[e][s].attempts
                             - (IF sess'[e][s].mark \in {"retry", "dead"} THEN 1 ELSE 0)
                        /\ IF sess'[e][s].mark = "dead" THEN sess'[e][s].attempts = MaxAttempts
                           ELSE sess'[e][s].attempts < MaxAttempts
      BY <1>4 DEF SessionsAreCurrent, MarksMatchAttempts
    <2>1. CASE e = d /\ s = r
      BY <1>1, <1>2, <1>3, <1>4, <2>1
    <2>2. CASE ~(e = d /\ s = r)
      <3>1. sess'[e][s] = sess[e][s]
        BY <1>4, <2>2
      <3> QED BY <1>1, <3>1 DEF LockInv, SessionsAreCurrent, MarksMatchAttempts
    <2> QED BY <2>1, <2>2
  <1>7. AttemptsLeft' /\ AttemptsAreFailures'
    BY <1>1 DEF LockInv, AttemptsLeft, AttemptsAreFailures
  <1> QED
    BY <1>5, <1>6, <1>7 DEF LockInv

\* What a commit does to the counters of one record of its own session: a row
\* that failed gains one attempt, and the last attempt makes it a dead letter.
LEMMA CommitCounts ==
    ASSUME Inv, LockInv, SkipLocked, NEW d \in Dispatchers, Commit(d), NEW r \in Claimed(d)
    PROVE  /\ row[r].status = "queued" /\ dlq[r] = 0
           /\ row'[r].status \in {"queued", "processed", "deleted"}
           /\ row'[r].attempts = sess[d][r].attempts
           /\ IF sess[d][r].mark = "dead"
              THEN row'[r].status = "deleted" /\ dlq'[r] = 1 /\ row'[r].attempts = MaxAttempts
              ELSE row'[r].status # "deleted" /\ dlq'[r] = 0 /\ row'[r].attempts < MaxAttempts
           /\ row'[r].attempts = failures'[r]
  <1>0. /\ TypeOK /\ r \in Records /\ sess[d][r] \in Loaded /\ row[r] \in Row
        /\ sess[d][r].attempts \in Nat /\ row[r].attempts \in Nat
    BY DEF Inv, TypeOK, Loaded, Row
  <1>1. /\ row[r].status = "queued" /\ row[r].attempts = failures[r]
        /\ row[r].attempts < MaxAttempts
        /\ row[r].attempts = sess[d][r].attempts
              - (IF sess[d][r].mark \in {"retry", "dead"} THEN 1 ELSE 0)
        /\ IF sess[d][r].mark = "dead" THEN sess[d][r].attempts = MaxAttempts
           ELSE sess[d][r].attempts < MaxAttempts
    BY <1>0 DEF LockInv, SessionsAreCurrent, MarksMatchAttempts, AttemptsLeft, AttemptsAreFailures
  <1>8. sess[d][r].attempts = IF sess[d][r].mark \in {"retry", "dead"}
                              THEN row[r].attempts + 1 ELSE row[r].attempts
    <2>1. CASE sess[d][r].mark \in {"retry", "dead"}
      <3>1. row[r].attempts = sess[d][r].attempts - 1
        BY <1>1, <2>1
      <3> QED BY <1>0, <2>1, <3>1
    <2>2. CASE sess[d][r].mark \notin {"retry", "dead"}
      <3>1. row[r].attempts = sess[d][r].attempts - 0
        BY <1>1, <2>2
      <3> QED BY <1>0, <2>2, <3>1
    <2> QED BY <2>1, <2>2
  <1>2. dlq[r] = 0
    BY <1>0, <1>1 DEF LockInv, AttemptsAreFailures
  <1>3. sess[d][r].mark \in {"processed", "retry", "dead"}
    BY <1>0 DEF Commit, BatchDone, Marked, Loaded
  <1>4. /\ row'[r] = Written(d, r)
        /\ dlq'[r] = IF r \in Marked(d, "dead") THEN dlq[r] + 1 ELSE dlq[r]
        /\ failures'[r] = IF r \in Marked(d, "retry") \cup Marked(d, "dead")
                          THEN failures[r] + 1 ELSE failures[r]
    BY <1>0 DEF Commit, DeadLetters
  <1>5. CASE sess[d][r].mark = "processed"
    <2>1. r \in Marked(d, "processed") /\ r \notin Marked(d, "retry") /\ r \notin Marked(d, "dead")
      BY <1>5 DEF Marked
    <2>2. row'[r] = [row[r] EXCEPT !.status = "processed"]
      BY <1>4, <2>1 DEF Written
    <2>3. row'[r].status = "processed" /\ row'[r].attempts = row[r].attempts
      BY <1>0, <2>2 DEF Row
    <2> QED BY <1>0, <1>1, <1>2, <1>4, <1>5, <1>8, <2>1, <2>3
  <1>6. CASE sess[d][r].mark = "retry"
    <2>1. r \notin Marked(d, "processed") /\ r \in Marked(d, "retry") /\ r \notin Marked(d, "dead")
      BY <1>6 DEF Marked
    <2>2. row'[r] = [row[r] EXCEPT !.attempts = sess[d][r].attempts, !.wait = sess[d][r].wait]
      BY <1>4, <2>1 DEF Written
    <2>3. row'[r].status = row[r].status /\ row'[r].attempts = sess[d][r].attempts
      BY <1>0, <2>2 DEF Row
    <2> QED BY <1>0, <1>1, <1>2, <1>4, <1>6, <1>8, <2>1, <2>3
  <1>7. CASE sess[d][r].mark = "dead"
    <2>1. r \notin Marked(d, "processed") /\ r \notin Marked(d, "retry") /\ r \in Marked(d, "dead")
      BY <1>7 DEF Marked
    <2>2. row'[r] = [row[r] EXCEPT !.attempts = sess[d][r].attempts, !.status = "deleted"]
      BY <1>4, <2>1 DEF Written
    <2>3. row'[r].status = "deleted" /\ row'[r].attempts = sess[d][r].attempts
      BY <1>0, <2>2 DEF Row
    <2>4. dlq'[r] = 1
      BY <1>2, <1>4, <2>1
    <2>5. failures'[r] = row[r].attempts + 1
      BY <1>1, <1>4, <2>1
    <2>6. sess[d][r].attempts = row[r].attempts + 1 /\ sess[d][r].attempts = MaxAttempts
      BY <1>1, <1>7, <1>8
    <2> QED BY <1>1, <1>2, <1>7, <2>3, <2>4, <2>5, <2>6
  <1> QED BY <1>3, <1>5, <1>6, <1>7

\* A commit leaves the records of other sessions, and the unclaimed ones, alone.
LEMMA CommitLeaves ==
    ASSUME Inv, NEW d \in Dispatchers, Commit(d), NEW r \in Records \ Claimed(d)
    PROVE  row'[r] = row[r] /\ dlq'[r] = dlq[r] /\ failures'[r] = failures[r]
  <1>1. \A m : r \notin Marked(d, m)
    BY DEF Marked
  <1>2. Written(d, r) = row[r]
    BY <1>1 DEF Written
  <1> QED
    BY <1>1, <1>2 DEF Commit, DeadLetters

LEMMA CommitLocks ==
    ASSUME Inv, Inv', LockInv, SkipLocked, NEW d \in Dispatchers, Commit(d)
    PROVE  LockInv'
  <1>0. /\ TypeOK /\ DOMAIN sess = Dispatchers
        /\ \A e \in Dispatchers : Claimed(e) \subseteq Records
    BY DEF Inv, TypeOK
  <1>1. /\ Claimed(d)' = {}
        /\ \A e \in Dispatchers \ {d} : sess'[e] = sess[e] /\ Claimed(e)' = Claimed(e)
    BY <1>0 DEF Commit, Claimed, NoSession
  <1>2. ClaimsDisjoint'
    BY <1>1 DEF LockInv, ClaimsDisjoint
  <1>3. \A e \in Dispatchers \ {d} : \A r \in Claimed(e) : row'[r] = row[r]
    <2> SUFFICES ASSUME NEW e \in Dispatchers \ {d}, NEW r \in Claimed(e)
                 PROVE  row'[r] = row[r]
      OBVIOUS
    <2>1. r \in Records \ Claimed(d)
      BY <1>0 DEF LockInv, ClaimsDisjoint
    <2> QED BY <2>1, CommitLeaves
  <1>4. SessionsAreCurrent' /\ MarksMatchAttempts'
    BY <1>1, <1>3 DEF LockInv, SessionsAreCurrent, MarksMatchAttempts
  <1>5. ASSUME NEW r \in Records
        PROVE  /\ row'[r].status = "absent" => row'[r].attempts = 0
               /\ IF row'[r].status = "deleted" THEN row'[r].attempts = MaxAttempts
                  ELSE row'[r].attempts < MaxAttempts
               /\ row'[r].attempts = failures'[r]
               /\ dlq'[r] = IF failures'[r] = MaxAttempts THEN 1 ELSE 0
    <2>1. CASE r \in Claimed(d)
      <3> DEFINE a == row'[r].attempts
      <3>1. a \in Nat /\ MaxAttempts \in Nat
        BY OutboxConfig DEF Inv, TypeOK, Row
      <3>2. /\ row'[r].status \in {"queued", "processed", "deleted"}
            /\ IF sess[d][r].mark = "dead"
               THEN row'[r].status = "deleted" /\ dlq'[r] = 1 /\ a = MaxAttempts
               ELSE row'[r].status # "deleted" /\ dlq'[r] = 0 /\ a < MaxAttempts
            /\ a = failures'[r]
        BY <2>1, CommitCounts
      <3> HIDE DEF a
      <3>3. a < MaxAttempts => a # MaxAttempts
        BY <3>1
      <3>4. /\ row'[r].status = "absent" => a = 0
            /\ IF row'[r].status = "deleted" THEN a = MaxAttempts ELSE a < MaxAttempts
            /\ a = failures'[r]
            /\ dlq'[r] = IF failures'[r] = MaxAttempts THEN 1 ELSE 0
        BY <3>2, <3>3
      <3> QED BY <3>4 DEF a
    <2>2. CASE r \notin Claimed(d)
      <3>1. row'[r] = row[r] /\ dlq'[r] = dlq[r] /\ failures'[r] = failures[r]
        BY <2>2, CommitLeaves
      <3> QED BY <3>1 DEF LockInv, AttemptsLeft, AttemptsAreFailures
    <2> QED BY <2>1, <2>2
  <1>6. AttemptsLeft' /\ AttemptsAreFailures'
    BY <1>5 DEF AttemptsLeft, AttemptsAreFailures
  <1> QED
    BY <1>2, <1>4, <1>6 DEF LockInv

LEMMA TickLocks ==
    ASSUME Inv, Inv', LockInv, SkipLocked, Tick
    PROVE  LockInv'
  <1>0. TypeOK /\ TypeOK'
    BY DEF Inv
  <1>1. \A r \in Records : row'[r].status = row[r].status /\ row'[r].attempts = row[r].attempts
    BY <1>0 DEF Tick, TypeOK, Row
  <1>2. ASSUME NEW d \in Dispatchers
        PROVE  /\ Claimed(d)' = Claimed(d)
               /\ \A r \in Claimed(d) : /\ sess'[d][r].mark = sess[d][r].mark
                                        /\ sess'[d][r].attempts = sess[d][r].attempts
    <2>1. sess'[d] = [r \in Claimed(d) |-> [sess[d][r] EXCEPT !.wait = Elapse(@)]]
      BY DEF Tick
    <2>2. \A r \in Claimed(d) : sess[d][r] \in Loaded
      BY <1>0 DEF TypeOK
    <2> QED BY <2>1, <2>2 DEF Claimed, Loaded
  <1> QED
    BY <1>0, <1>1, <1>2, LockFrame DEF Tick

\* Steps of the loop, of the environment and of a requeue.
LEMMA QuietLocks ==
    ASSUME Inv, Inv', LockInv, SkipLocked,
           \/ \E d \in Dispatchers : \/ Start(d) \/ PollTimeout(d) \/ ClaimNothing(d)
                                     \/ Stop(d) \/ CommitFails(d)
           \/ \E r \in Records, w \in Delays : Requeue(r, w)
           \/ StabilityChanges
           \/ UNCHANGED vars
    PROVE  LockInv'
  <1>0. TypeOK /\ TypeOK'
    BY DEF Inv
  <1>1. CASE \E d \in Dispatchers : Stop(d) \/ CommitFails(d)
    <2>1. PICK d \in Dispatchers :
             UNCHANGED <<row, dlq, failures>> /\ sess' = [sess EXCEPT ![d] = NoSession]
      BY <1>1 DEF Stop, CommitFails
    <2>2. /\ Claimed(d)' = {}
          /\ \A e \in Dispatchers \ {d} : sess'[e] = sess[e] /\ Claimed(e)' = Claimed(e)
      BY <1>0, <2>1 DEF TypeOK, Claimed, NoSession
    <2> QED BY <1>0, <2>1, <2>2, LockFrame
  <1>2. CASE \/ \E d \in Dispatchers : Start(d) \/ PollTimeout(d) \/ ClaimNothing(d)
             \/ \E r \in Records, w \in Delays : Requeue(r, w)
             \/ StabilityChanges
             \/ UNCHANGED vars
    <2>1. /\ UNCHANGED <<sess, dlq, failures>>
          /\ \A r \in Records : /\ row'[r].status = row[r].status
                                /\ row'[r].attempts = row[r].attempts
      BY <1>0, <1>2 DEF Start, PollTimeout, ClaimNothing, Requeue, StabilityChanges, vars,
                        TypeOK, Row
    <2>2. \A d \in Dispatchers : Claimed(d)' = Claimed(d) /\ sess'[d] = sess[d]
      BY <2>1 DEF Claimed
    <2> QED BY <1>0, <2>1, <2>2, LockFrame
  <1> QED BY <1>1, <1>2

LEMMA InitLocks == Init => LockInv
  <1> SUFFICES ASSUME Init PROVE LockInv
    OBVIOUS
  <1>1. \A d \in Dispatchers : Claimed(d) = {}
    BY NoSessionType DEF Init, Claimed
  <1>2. ClaimsDisjoint /\ SessionsAreCurrent /\ MarksMatchAttempts
    BY <1>1 DEF ClaimsDisjoint, SessionsAreCurrent, MarksMatchAttempts
  <1>3. AttemptsLeft /\ AttemptsAreFailures
    BY OutboxConfig DEF Init, AttemptsLeft, AttemptsAreFailures
  <1> QED BY <1>2, <1>3 DEF LockInv

LEMMA NextLocks == Inv /\ Inv' /\ LockInv /\ [Next]_vars => LockInv'
  <1> SUFFICES ASSUME Inv, Inv', LockInv, SkipLocked, [Next]_vars PROVE LockInv'
    BY DEF LockInv
  <1>1. CASE \E r \in Records, w \in Delays : Enqueue(r, w) \/ Requeue(r, w)
    BY <1>1, EnqueueLocks, QuietLocks
  <1>2. ASSUME NEW d \in Dispatchers, Dispatch(d) \/ Stop(d) PROVE LockInv'
    <2>1. CASE Start(d) \/ PollTimeout(d) \/ ClaimNothing(d) \/ Stop(d) \/ CommitFails(d)
      BY <2>1, QuietLocks
    <2>2. CASE ClaimBatch(d)
      BY <2>2, ClaimLocks
    <2>3. CASE \E r \in Records : PublishOk(d, r) \/ PublishFails(d, r)
      BY <2>3, PublishLocks
    <2>4. CASE Commit(d)
      BY <2>4, CommitLocks
    <2> QED
      BY <1>2, <2>1, <2>2, <2>3, <2>4 DEF Dispatch, Publish
  <1>3. CASE Tick
    BY <1>3, TickLocks
  <1>4. CASE StabilityChanges \/ UNCHANGED vars
    BY <1>4, QuietLocks
  <1> QED
    BY <1>1, <1>2, <1>3, <1>4 DEF Next

\* The inductive invariant of both halves holds for ever.
LEMMA Invariance == Spec => [](Inv /\ LockInv)
  <1> QED
    BY InitInv, NextInv, InitLocks, NextLocks, PTL DEF Spec

\* With row locks no dispatcher publishes from a stale copy of a row: until its
\* session ends, the row is queued and has the attempts the session read.
THEOREM LockedSessionsAreCurrent == Spec => [](SkipLocked => SessionsAreCurrent)
  <1>1. LockInv => (SkipLocked => SessionsAreCurrent)
    BY DEF LockInv
  <1> QED
    BY <1>1, Invariance, PTL

\* With row locks the attempts counter is the number of committed failures and
\* an event is dead-lettered once, exactly when max_attempts is reached.
THEOREM LockedAttemptsAreFailures == Spec => [](SkipLocked => AttemptsAreFailures)
  <1>1. LockInv => (SkipLocked => AttemptsAreFailures)
    BY DEF LockInv
  <1> QED
    BY <1>1, Invariance, PTL

-----------------------------------------------------------------------------
(***************************************************************************)
(* With row locks and an enabled bus the outbox implements the queue that  *)
(* EventQueue promises.  A publish is a delivery, whether or not it raised *)
(* after the broker had the message; a commit settles the whole batch; all *)
(* other steps leave the queue as it is.                                   *)
(***************************************************************************)

LEMMA InitImplements == Init => Queue!InitQueue
  <1> SUFFICES ASSUME Init PROVE Queue!InitQueue
    OBVIOUS
  <1>1. \A r \in Records : AbstractStatus(r) = "absent"
    BY DEF Init, AbstractStatus
  <1> QED
    BY <1>1 DEF Init, Queue!InitQueue

\* A step that changes no status and delivers nothing is a stuttering step.
LEMMA StatusKept ==
    ASSUME UNCHANGED delivered, \A r \in Records : row'[r].status = row[r].status
    PROVE  UNCHANGED Queue!queueVars
  <1>1. \A r \in Records : AbstractStatus(r)' = AbstractStatus(r)
    BY DEF AbstractStatus
  <1> QED
    BY <1>1 DEF Queue!queueVars

LEMMA EnqueuePuts ==
    ASSUME TypeOK, NEW r \in Records, NEW w \in Delays, Enqueue(r, w)
    PROVE  Queue!Put(r)
  <1>1. /\ row[r].status = "absent" /\ row'[r].status = "queued" /\ UNCHANGED delivered
        /\ \A s \in Records \ {r} : row'[s] = row[s]
    BY DEF Enqueue, TypeOK
  <1>2. /\ AbstractStatus(r) = "absent" /\ AbstractStatus(r)' = "queued"
        /\ \A s \in Records \ {r} : AbstractStatus(s)' = AbstractStatus(s)
    BY <1>1 DEF AbstractStatus
  <1> QED
    BY <1>1, <1>2 DEF Queue!Put

LEMMA PublishDelivers ==
    ASSUME Inv, LockInv, SkipLocked, BusEnabled, NEW d \in Dispatchers, NEW r \in Records,
           PublishOk(d, r) \/ PublishFails(d, r)
    PROVE  Queue!Deliver(r) \/ UNCHANGED Queue!queueVars
  <1>1. r \in Claimed(d) /\ UNCHANGED row
    BY DEF PublishOk, PublishFails, IsNext, Marked
  <1>2. AbstractStatus(r) = "queued"
    BY <1>1 DEF LockInv, SessionsAreCurrent, AbstractStatus
  <1>3. \A s \in Records : AbstractStatus(s)' = AbstractStatus(s)
    BY <1>1 DEF AbstractStatus
  <1>4. delivered' = delivered \cup {r} \/ delivered' = delivered
    BY DEF PublishOk, PublishFails
  <1> QED
    BY <1>2, <1>3, <1>4 DEF Queue!Deliver, Queue!queueVars

LEMMA CommitSettles ==
    ASSUME Inv, LockInv, SkipLocked, BusEnabled, NEW d \in Dispatchers, Commit(d)
    PROVE  Queue!Settle(Marked(d, "processed"), Marked(d, "dead"))
  <1>0. TypeOK /\ Claimed(d) \subseteq Records
    BY DEF Inv, TypeOK
  <1>1. Marked(d, "processed") \cap Marked(d, "dead") = {}
    BY DEF Marked
  <1>2. \A r \in Marked(d, "processed") \cup Marked(d, "dead") :
           r \in Records /\ AbstractStatus(r) = "queued"
    BY <1>0 DEF LockInv, SessionsAreCurrent, AbstractStatus, Marked
  <1>3. Marked(d, "processed") \subseteq delivered
    BY DEF Inv, MarkedWasDelivered
  <1>4. ASSUME NEW r \in Records
        PROVE  AbstractStatus(r)' = CASE r \in Marked(d, "processed") -> "done"
                                      [] r \in Marked(d, "dead") -> "dead"
                                      [] OTHER -> AbstractStatus(r)
    <2>1. row'[r].status = IF r \in Marked(d, "processed") THEN "processed"
                           ELSE IF r \in Marked(d, "dead") THEN "deleted"
                           ELSE row[r].status
      BY <1>0, WrittenRow DEF Commit
    <2>2. CASE r \in Marked(d, "processed")
      <3>1. AbstractStatus(r)' = "done"
        BY <2>1, <2>2 DEF AbstractStatus
      <3> QED BY <1>1, <2>2, <3>1
    <2>3. CASE r \in Marked(d, "dead")
      <3>0. r \notin Marked(d, "processed")
        BY <1>1, <2>3
      <3>1. AbstractStatus(r)' = "dead"
        BY <2>1, <2>3, <3>0 DEF AbstractStatus
      <3> QED BY <2>3, <3>0, <3>1
    <2>4. CASE r \notin Marked(d, "processed") /\ r \notin Marked(d, "dead")
      <3>1. AbstractStatus(r)' = AbstractStatus(r)
        BY <2>1, <2>4 DEF AbstractStatus
      <3> QED BY <2>4, <3>1
    <2> QED BY <2>2, <2>3, <2>4
  <1> QED
    BY <1>1, <1>2, <1>3, <1>4 DEF Queue!Settle, Commit

LEMMA StepImplements ==
    ASSUME Inv, LockInv, SkipLocked, BusEnabled, [Next]_vars
    PROVE  [Queue!NextQueue]_Queue!queueVars
  <1>0. TypeOK
    BY DEF Inv
  <1>1. ASSUME NEW r \in Records, NEW w \in Delays, Enqueue(r, w) \/ Requeue(r, w)
        PROVE  Queue!NextQueue \/ UNCHANGED Queue!queueVars
    <2>1. CASE Enqueue(r, w)
      BY <1>0, <2>1, EnqueuePuts DEF Queue!NextQueue
    <2>2. CASE Requeue(r, w)
      BY <1>0, <2>2, StatusKept DEF Requeue, TypeOK, Row
    <2> QED BY <1>1, <2>1, <2>2
  <1>2. ASSUME NEW d \in Dispatchers, Dispatch(d) \/ Stop(d)
        PROVE  Queue!NextQueue \/ UNCHANGED Queue!queueVars
    <2>1. CASE \/ Start(d) \/ PollTimeout(d) \/ ClaimNothing(d) \/ Stop(d) \/ CommitFails(d)
               \/ ClaimBatch(d)
      <3>1. UNCHANGED <<row, delivered>>
        BY <2>1 DEF Start, PollTimeout, ClaimNothing, Stop, CommitFails, ClaimBatch
      <3> QED BY <3>1, StatusKept
    <2>2. CASE \E r \in Records : PublishOk(d, r) \/ PublishFails(d, r)
      BY <2>2, PublishDelivers DEF Queue!NextQueue
    <2>3. CASE Commit(d)
      <3>1. Marked(d, "processed") \in SUBSET Records /\ Marked(d, "dead") \in SUBSET Records
        BY <1>0 DEF TypeOK, Marked
      <3> QED BY <2>3, <3>1, CommitSettles DEF Queue!NextQueue
    <2> QED
      BY <1>2, <2>1, <2>2, <2>3 DEF Dispatch, Publish
  <1>3. CASE Tick
    <2>1. UNCHANGED delivered /\ \A r \in Records : row'[r].status = row[r].status
      BY <1>0, <1>3 DEF Tick, TypeOK, Row
    <2> QED BY <2>1, StatusKept
  <1>4. CASE StabilityChanges \/ UNCHANGED vars
    <2>1. UNCHANGED <<row, delivered>>
      BY <1>4 DEF StabilityChanges, vars
    <2> QED BY <2>1, StatusKept
  <1> QED
    BY <1>1, <1>2, <1>3, <1>4 DEF Next

\* With row locks and an enabled bus the outbox is an at-least-once queue that
\* settles every event once, for any number of records and dispatchers and
\* whatever is stopped, cancelled or rolled back.
THEOREM OutboxImplementsQueue ==
    ASSUME SkipLocked, BusEnabled
    PROVE  Spec => ImplementsQueue
  <1>1. Inv /\ LockInv /\ [Next]_vars => [Queue!NextQueue]_Queue!queueVars
    BY StepImplements
  <1> QED
    BY <1>1, InitImplements, Invariance, PTL DEF Spec, ImplementsQueue, Queue!QueueSpec
=============================================================================
