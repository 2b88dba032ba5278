-------------------------- MODULE KeyRotationProofs -------------------------
(***************************************************************************)
(* A key is deprecated only after a replacement has been stored, for any   *)
(* number of keys and threads and any pattern of failures and restarts.    *)
(* The invariant follows the promise through every copy of a status: the   *)
(* threads past the creation step, the sleeping deprecation threads and    *)
(* the copies of the new key's metadata.                                   *)
(***************************************************************************)
EXTENDS KeyRotation, TLAPS

\* A thread past the creation step works for a key that has a replacement.
RotatedHasSuccessor ==
    \A w \in Workers :
        worker[w].pc \in {"linkRead", "linkWrite", "spawn"} =>
            worker[w].key \in Keys /\ successors[worker[w].key] > 0

\* The copy of a new key's metadata is no ahead of the store.
CopyHasSuccessor ==
    \A w \in Workers :
        /\ worker[w].pc \in {"linkRead", "linkWrite"} => worker[w].new \in Keys
        /\ worker[w].pc = "linkWrite" /\ worker[w].newStatus = "DEPRECATED" =>
              successors[worker[w].new] > 0

\* A thread sleeps through the grace period of a key that has a replacement.
GraceHasSuccessor == \A k \in Keys : grace[k] > 0 => successors[k] > 0

\* A thread inside a method has a key.
BusyHasKey == \A w \in Workers : worker[w].pc # "idle" => worker[w].key \in Keys

Inv ==
    /\ TypeOK /\ BusyHasKey
    /\ DeprecatedHasSuccessor /\ RotatedHasSuccessor
    /\ CopyHasSuccessor /\ GraceHasSuccessor

-----------------------------------------------------------------------------
LEMMA IdleType == Idle \in WorkerState /\ Idle.pc = "idle"
  BY DEF Idle, WorkerState, Stored

LEMMA InitInv == Init => Inv
  <1> SUFFICES ASSUME Init PROVE Inv
    OBVIOUS
  <1>1. TypeOK
    BY KeyRotationConfig, IdleType DEF Init, TypeOK, Stored
  <1> QED
    BY <1>1, IdleType
    DEF Init, Inv, BusyHasKey, DeprecatedHasSuccessor, RotatedHasSuccessor,
        CopyHasSuccessor, GraceHasSuccessor

\* Steps in which no thread changes and no status becomes DEPRECATED.
LEMMA OutsideStep ==
    ASSUME Inv, UNCHANGED <<worker, successors>>, TypeOK',
           \A k \in Keys : store'[k] = "DEPRECATED" => store[k] = "DEPRECATED",
           \A k \in Keys : grace'[k] > 0 => grace[k] > 0
    PROVE  Inv'
  BY DEF Inv, BusyHasKey, DeprecatedHasSuccessor, RotatedHasSuccessor,
         CopyHasSuccessor, GraceHasSuccessor

\* What a thread step must respect: the other threads stay as they are, and
\* the thread's own new state keeps the promise.
LEMMA ThreadStep ==
    ASSUME Inv, NEW w \in Workers, NEW ws \in WorkerState,
           worker' = [worker EXCEPT ![w] = ws],
           ws.pc # "idle" => ws.key \in Keys,
           TypeOK',
           \A k \in Keys : successors'[k] >= successors[k],
           ws.pc \in {"linkRead", "linkWrite", "spawn"} => successors'[ws.key] > 0,
           ws.pc \in {"linkRead", "linkWrite"} => ws.new \in Keys,
           ws.pc = "linkWrite" /\ ws.newStatus = "DEPRECATED" => successors'[ws.new] > 0,
           \A k \in Keys : store'[k] = "DEPRECATED" =>
              store[k] = "DEPRECATED" \/ successors'[k] > 0,
           \A k \in Keys : grace'[k] > 0 => grace[k] > 0 \/ successors'[k] > 0
    PROVE  Inv'
  <1>1. /\ worker'[w] = ws
        /\ \A v \in Workers \ {w} : worker'[v] = worker[v]
    BY DEF Inv, TypeOK
  <1>2. \A k \in Keys : successors[k] > 0 => successors'[k] > 0
    BY DEF Inv, TypeOK
  <1>3. BusyHasKey'
    BY <1>1 DEF Inv, BusyHasKey
  <1>4. RotatedHasSuccessor'
    BY <1>1, <1>2 DEF Inv, RotatedHasSuccessor
  <1>5. CopyHasSuccessor'
    BY <1>1, <1>2 DEF Inv, CopyHasSuccessor
  <1>6. DeprecatedHasSuccessor' /\ GraceHasSuccessor'
    BY <1>2 DEF Inv, DeprecatedHasSuccessor, GraceHasSuccessor
  <1> QED
    BY <1>3, <1>4, <1>5, <1>6 DEF Inv

-----------------------------------------------------------------------------
(* Threads                                                                 *)

LEMMA BeginInv ==
    ASSUME Inv, NEW w \in Workers, NEW k \in Keys,
           RotateQueued(w, k) \/ RotateManually(w, k) \/ RevokeRead(w, k)
    PROVE  Inv'
  <1> DEFINE rs == [Idle EXCEPT !.pc = "mark", !.key = k, !.status = store[k]]
             vs == [Idle EXCEPT !.pc = "revoke", !.key = k]
  <1>1. UNCHANGED <<store, age, listed, grace, successors, left, faults>>
    BY DEF RotateQueued, RotateManually, RevokeRead, BeginRotation
  <1>2. queue' \in [Keys -> 0 .. MaxQueued]
    BY KeyRotationConfig
    DEF Inv, TypeOK, RotateQueued, RotateManually, RevokeRead, BeginRotation
  <1>3. PICK ws \in {rs, vs} : worker' = [worker EXCEPT ![w] = ws]
    BY DEF RotateQueued, RotateManually, RevokeRead, BeginRotation
  <1>4. /\ rs \in WorkerState /\ rs.pc = "mark" /\ rs.key = k
        /\ vs \in WorkerState /\ vs.pc = "revoke" /\ vs.key = k
    BY DEF Inv, TypeOK, Idle, WorkerState, Stored
  <1>5. TypeOK'
    BY <1>1, <1>2, <1>3, <1>4 DEF Inv, TypeOK
  <1>6. \A j \in Keys : successors'[j] >= successors[j]
    BY <1>1 DEF Inv, TypeOK
  <1> QED
    BY <1>1, <1>3, <1>4, <1>5, <1>6, ThreadStep

\* Steps of a thread that create nothing: what they write is either not
\* DEPRECATED or vouched for.
LEMMA WritingStep ==
    ASSUME Inv, NEW w \in Workers, NEW ws \in WorkerState,
           worker' = [worker EXCEPT ![w] = ws],
           ws.pc # "idle" => ws.key \in Keys,
           ws.pc \in {"linkRead", "linkWrite", "spawn"} => successors[ws.key] > 0,
           ws.pc \in {"linkRead", "linkWrite"} => ws.new \in Keys,
           ws.pc = "linkWrite" /\ ws.newStatus = "DEPRECATED" => successors[ws.new] > 0,
           UNCHANGED <<age, queue, listed, successors>>,
           left' \subseteq Keys,
           faults' \in 0 .. MaxFaults,
           NEW k \in Keys, NEW s \in Stored,
           store' = store \/ store' = [store EXCEPT ![k] = s],
           s = "DEPRECATED" => successors[k] > 0,
           grace' = grace \/ (grace' = [grace EXCEPT ![k] = @ + 1] /\ successors[k] > 0)
    PROVE  Inv'
  <1>1. TypeOK'
    BY DEF Inv, TypeOK
  <1>2. \A j \in Keys : successors'[j] = successors[j] /\ successors'[j] >= successors[j]
    BY DEF Inv, TypeOK
  <1>3. \A j \in Keys : store'[j] = "DEPRECATED" =>
           store[j] = "DEPRECATED" \/ successors'[j] > 0
    BY DEF Inv, TypeOK
  <1>4. \A j \in Keys : grace'[j] > 0 => grace[j] > 0 \/ successors'[j] > 0
    BY DEF Inv, TypeOK
  <1> QED
    BY <1>1, <1>2, <1>3, <1>4, ThreadStep

LEMMA RotationInv ==
    ASSUME Inv, NEW w \in Workers, RotationStep(w)
    PROVE  Inv'
  <1> USE KeyRotationConfig
  <1>0. /\ TypeOK /\ worker[w] \in WorkerState
        /\ DOMAIN worker = Workers /\ faults \in 0 .. MaxFaults /\ left \subseteq Keys
    BY DEF Inv, TypeOK
  <1> DEFINE to(pc) == [worker[w] EXCEPT !.pc = pc]
             spawn == [Idle EXCEPT !.pc = "spawn", !.key = worker[w].key]
  <1>a. \A pc \in {"create", "revert"} :
           /\ to(pc) \in WorkerState /\ to(pc).pc = pc
           /\ to(pc).key = worker[w].key
    BY <1>0 DEF WorkerState
  <1>b. /\ spawn \in WorkerState /\ spawn.pc = "spawn"
        /\ spawn.key = worker[w].key
    BY <1>0 DEF WorkerState, Idle, Stored
  <1>k. worker[w].pc # "idle" => worker[w].key \in Keys
    BY DEF Inv, BusyHasKey
  <1>1. CASE MarkPending(w)
    <2>1. /\ worker[w].key \in Keys
          /\ worker' = [worker EXCEPT ![w] = to("create")]
      BY <1>0, <1>1, <1>k DEF MarkPending, Goto, At
    <2>2. /\ faults' \in 0 .. MaxFaults /\ left' \subseteq Keys
          /\ UNCHANGED <<age, queue, listed, grace, successors>>
          /\ store' = store \/ store' = [store EXCEPT ![worker[w].key] = "PENDING_ROTATION"]
      BY <1>0, <1>1 DEF MarkPending, WriteOrFail, Write, WriteFails
    <2>3. "PENDING_ROTATION" \in Stored
      BY DEF Stored, Statuses
    <2> QED BY <1>a, <2>1, <2>2, <2>3, WritingStep
  <1>2. CASE CreateSuccessor(w)
    <2>1. PICK n \in Keys :
             /\ store' = [store EXCEPT ![n] = "ACTIVE"]
             /\ worker' = [worker EXCEPT ![w].pc = "linkRead", ![w].new = n,
                                         ![w].status = "none"]
      BY <1>2 DEF CreateSuccessor
    <2> DEFINE ws == [worker[w] EXCEPT !.pc = "linkRead", !.new = n, !.status = "none"]
    <2>2. worker' = [worker EXCEPT ![w] = ws]
      BY <1>0, <2>1
    <2>3. /\ ws \in WorkerState /\ ws.pc = "linkRead"
          /\ ws.key = worker[w].key /\ ws.new = n
      BY <1>0 DEF WorkerState, Stored
    <2>4. worker[w].key \in Keys
      BY <1>2, <1>k DEF CreateSuccessor, At
    <2>5. /\ successors' \in [Keys -> Nat]
          /\ \A j \in Keys : successors'[j] >= successors[j]
          /\ successors'[worker[w].key] > 0
      BY <1>0, <1>2, <2>4 DEF CreateSuccessor, TypeOK
    <2>6. UNCHANGED <<age, queue, listed, grace, left, faults>>
      BY <1>2 DEF CreateSuccessor
    <2>7. TypeOK'
      <3>1. store' \in [Keys -> Stored]
        BY <1>0, <2>1 DEF TypeOK, Stored, Statuses
      <3>2. worker' \in [Workers -> WorkerState]
        <4> HIDE DEF ws
        <4> QED BY <1>0, <2>2, <2>3 DEF TypeOK
      <3> QED BY <1>0, <2>5, <2>6, <3>1, <3>2 DEF TypeOK
    <2>8. /\ \A j \in Keys : store'[j] = "DEPRECATED" => store[j] = "DEPRECATED"
          /\ \A j \in Keys : grace'[j] > 0 => grace[j] > 0
      BY <1>0, <2>1, <2>6 DEF TypeOK
    <2> QED BY <2>2, <2>3, <2>4, <2>5, <2>7, <2>8, ThreadStep
  <1>3. CASE CreationFails(w)
    <2>1. /\ worker[w].key \in Keys
          /\ worker' = [worker EXCEPT ![w] = to("revert")]
      BY <1>0, <1>3, <1>k DEF CreationFails, Goto, At, AfterFailedCreation
    <2>2. /\ faults' \in 0 .. MaxFaults /\ left' \subseteq Keys
          /\ UNCHANGED <<store, age, queue, listed, grace, successors>>
      BY <1>0, <1>3 DEF CreationFails
    <2>3. "none" \in Stored
      BY DEF Stored
    <2> QED BY <1>a, <2>1, <2>2, <2>3, WritingStep
  <1>4. CASE Revert(w)
    <2>1. /\ worker[w].key \in Keys
          /\ worker' = [worker EXCEPT ![w] = Idle]
      BY <1>4, <1>k DEF Revert, Finish, At
    <2>2. /\ faults' \in 0 .. MaxFaults /\ left' \subseteq Keys
          /\ UNCHANGED <<age, queue, listed, grace, successors>>
          /\ store' = store \/ store' = [store EXCEPT ![worker[w].key] = "ACTIVE"]
      BY <1>0, <1>4, <2>1 DEF Revert, LastWrite, Write, WriteFails
    <2>3. "ACTIVE" \in Stored
      BY DEF Stored, Statuses
    <2> QED BY <2>1, <2>2, <2>3, IdleType, WritingStep
  <1>5. CASE LinkRead(w)
    <2>1. /\ worker[w].key \in Keys /\ worker[w].new \in Keys
          /\ successors[worker[w].key] > 0
      BY <1>5, <1>k DEF LinkRead, At, Inv, RotatedHasSuccessor, CopyHasSuccessor
    <2>2. /\ faults' \in 0 .. MaxFaults /\ left' \subseteq Keys
          /\ UNCHANGED <<store, age, queue, listed, grace, successors>>
      BY <1>0, <1>5 DEF LinkRead
    <2>3. "none" \in Stored
      BY DEF Stored
    <2> DEFINE ws == [worker[w] EXCEPT !.pc = "linkWrite",
                                       !.newStatus = store[worker[w].new]]
    <2>4. \/ worker' = [worker EXCEPT ![w] = ws]
          \/ worker' = [worker EXCEPT ![w] = spawn]
      BY <1>0, <1>5 DEF LinkRead, GoSpawn
    <2>5. /\ ws \in WorkerState /\ ws.pc = "linkWrite" /\ ws.key = worker[w].key
          /\ ws.new = worker[w].new /\ ws.newStatus = store[worker[w].new]
      BY <1>0, <2>1 DEF WorkerState, TypeOK
    <2>6. ws.newStatus = "DEPRECATED" => successors[ws.new] > 0
      BY <2>1, <2>5 DEF Inv, DeprecatedHasSuccessor
    <2>7. CASE worker' = [worker EXCEPT ![w] = ws]
      BY <2>1, <2>2, <2>3, <2>5, <2>6, <2>7, WritingStep
    <2>8. CASE worker' = [worker EXCEPT ![w] = spawn]
      BY <1>b, <2>1, <2>2, <2>3, <2>8, WritingStep
    <2> QED BY <2>4, <2>7, <2>8
  <1>6. CASE LinkWrite(w)
    <2>1. /\ worker[w].key \in Keys /\ worker[w].new \in Keys
          /\ successors[worker[w].key] > 0
          /\ worker[w].newStatus = "DEPRECATED" => successors[worker[w].new] > 0
          /\ worker[w].newStatus \in Stored
      BY <1>0, <1>6, <1>k
      DEF LinkWrite, At, Inv, RotatedHasSuccessor, CopyHasSuccessor, WorkerState
    <2>2. /\ faults' \in 0 .. MaxFaults /\ left' \subseteq Keys
          /\ UNCHANGED <<age, queue, listed, grace, successors>>
          /\ \/ store' = store
             \/ store' = [store EXCEPT ![worker[w].new] = worker[w].newStatus]
      BY <1>0, <1>6, <2>1 DEF LinkWrite, WriteOrFail, Write, WriteFails
    <2>3. worker' = [worker EXCEPT ![w] = spawn]
      BY <1>6 DEF LinkWrite, GoSpawn
    <2> QED BY <1>b, <2>1, <2>2, <2>3, WritingStep
  <1>7. CASE SpawnDeprecation(w)
    <2>1. worker[w].key \in Keys /\ successors[worker[w].key] > 0
      BY <1>7, <1>k DEF SpawnDeprecation, At, Inv, RotatedHasSuccessor
    <2>2. /\ worker' = [worker EXCEPT ![w] = Idle]
          /\ grace' = [grace EXCEPT ![worker[w].key] = @ + 1]
          /\ UNCHANGED <<store, age, queue, listed, successors, left, faults>>
      BY <1>7 DEF SpawnDeprecation, Finish
    <2>3. "none" \in Stored
      BY DEF Stored
    <2> QED BY <1>0, <2>1, <2>2, <2>3, IdleType, WritingStep
  <1> QED
    BY <1>1, <1>2, <1>3, <1>4, <1>5, <1>6, <1>7 DEF RotationStep

LEMMA RevocationInv ==
    ASSUME Inv, NEW w \in Workers, RevocationStep(w)
    PROVE  Inv'
  <1>0. /\ worker[w] \in WorkerState /\ DOMAIN worker = Workers /\ faults \in 0 .. MaxFaults
        /\ left \subseteq Keys
    BY DEF Inv, TypeOK
  <1> DEFINE hsm == [worker[w] EXCEPT !.pc = "hsm"]
  <1>1. hsm \in WorkerState /\ hsm.pc = "hsm" /\ hsm.key = worker[w].key
    BY <1>0 DEF WorkerState
  <1>2. /\ worker[w].key \in Keys
        /\ \/ worker' = [worker EXCEPT ![w] = hsm]
           \/ worker' = [worker EXCEPT ![w] = Idle]
    BY <1>0
    DEF RevocationStep, RevokeWrite, RevokeInHsm, Goto, Finish, At, Inv, BusyHasKey
  <1>3. /\ faults' \in 0 .. MaxFaults /\ left' \subseteq Keys
        /\ UNCHANGED <<age, queue, listed, grace, successors>>
        /\ store' = store \/ store' = [store EXCEPT ![worker[w].key] = "REVOKED"]
    BY <1>0, KeyRotationConfig
    DEF RevocationStep, RevokeWrite, RevokeInHsm, Write, WriteFails
  <1>4. "REVOKED" \in Stored
    BY DEF Stored, Statuses
  <1>5. CASE worker' = [worker EXCEPT ![w] = hsm]
    BY <1>1, <1>2, <1>3, <1>4, <1>5, WritingStep
  <1>6. CASE worker' = [worker EXCEPT ![w] = Idle]
    BY <1>2, <1>3, <1>4, <1>6, IdleType, WritingStep
  <1> QED
    BY <1>2, <1>5, <1>6

-----------------------------------------------------------------------------
(* Everybody else                                                          *)

LEMMA OutsideInv ==
    ASSUME Inv, NEW k \in Keys,
           CreateKey(k) \/ Age(k) \/ CheckListed(k) \/ ListKeys
    PROVE  Inv'
  <1> USE KeyRotationConfig
  <1>1. UNCHANGED <<worker, successors, grace, left>>
    BY DEF CreateKey, Age, CheckListed, ListKeys
  <1>2. /\ store' \in [Keys -> Stored] /\ faults' \in 0 .. MaxFaults
        /\ \A j \in Keys : store'[j] = "DEPRECATED" => store[j] = "DEPRECATED"
    BY DEF CreateKey, Age, CheckListed, ListKeys, WriteOrFail, Write, WriteFails,
           Inv, TypeOK, Stored, Statuses
  <1>3. /\ age' \in [Keys -> {"fresh", "due", "expired"}]
        /\ queue' \in [Keys -> 0 .. MaxQueued]
    BY DEF CreateKey, Age, CheckListed, ListKeys, Inv, TypeOK
  <1>4. listed' \in [Keys -> Stored]
    BY DEF CreateKey, Age, CheckListed, ListKeys, Inv, TypeOK, Stored
  <1>5. TypeOK'
    BY <1>1, <1>2, <1>3, <1>4 DEF Inv, TypeOK
  <1> QED
    BY <1>1, <1>2, <1>5, OutsideStep

LEMMA DeprecateInv ==
    ASSUME Inv, NEW k \in Keys, Deprecate(k)
    PROVE  Inv'
  <1> USE KeyRotationConfig
  <1>1. /\ UNCHANGED <<age, worker, queue, listed, successors>>
        /\ grace[k] > 0 /\ grace' = [grace EXCEPT ![k] = @ - 1]
    BY DEF Deprecate
  <1>2. /\ faults' \in 0 .. MaxFaults /\ left' \subseteq Keys
        /\ store' = store \/ store' = [store EXCEPT ![k] = "DEPRECATED"]
    BY DEF Deprecate, DeprecatedStatus, LastWrite, Write, WriteFails, Inv, TypeOK
  <1>3. TypeOK'
    BY <1>1, <1>2 DEF Inv, TypeOK, Stored, Statuses
  <1>4. DeprecatedHasSuccessor'
    <2>1. successors[k] > 0
      BY <1>1 DEF Inv, GraceHasSuccessor
    <2> QED
      BY <1>1, <1>2, <2>1 DEF Inv, TypeOK, DeprecatedHasSuccessor
  <1>5. GraceHasSuccessor'
    BY <1>1 DEF Inv, TypeOK, GraceHasSuccessor
  <1> QED
    BY <1>1, <1>3, <1>4, <1>5
    DEF Inv, BusyHasKey, RotatedHasSuccessor, CopyHasSuccessor

LEMMA RestartInv ==
    ASSUME Inv, Restart
    PROVE  Inv'
  <1> USE KeyRotationConfig
  <1>1. TypeOK'
    BY IdleType DEF Inv, TypeOK, Restart, Stored
  <1>2. \A w \in Workers : worker'[w].pc = "idle"
    BY IdleType DEF Restart
  <1>3. \A k \in Keys : grace'[k] = 0
    BY DEF Restart
  <1> QED
    BY <1>1, <1>2, <1>3
    DEF Inv, Restart, BusyHasKey, DeprecatedHasSuccessor, RotatedHasSuccessor,
        CopyHasSuccessor, GraceHasSuccessor

LEMMA NextInv == Inv /\ [Next]_vars => Inv'
  <1> SUFFICES ASSUME Inv, [Next]_vars PROVE Inv'
    OBVIOUS
  <1>1. ASSUME NEW k \in Keys, CreateKey(k) \/ Age(k) \/ CheckListed(k) PROVE Inv'
    BY <1>1, OutsideInv
  <1>2. ASSUME NEW k \in Keys, Deprecate(k) PROVE Inv'
    BY <1>2, DeprecateInv
  <1>3. ASSUME NEW w \in Workers, NEW k \in Keys,
               RotateQueued(w, k) \/ RotateManually(w, k) \/ RevokeRead(w, k)
        PROVE  Inv'
    BY <1>3, BeginInv
  <1>4. ASSUME NEW w \in Workers, RotationStep(w) PROVE Inv'
    BY <1>4, RotationInv
  <1>5. ASSUME NEW w \in Workers, RevocationStep(w) PROVE Inv'
    BY <1>5, RevocationInv
  <1>6. CASE ListKeys
    <2>1. PICK k \in Keys : Examined(store[k])
      BY <1>6 DEF ListKeys
    <2> QED BY <1>6, <2>1, OutsideInv
  <1>7. CASE Restart
    BY <1>7, RestartInv
  <1>8. CASE UNCHANGED vars
    BY <1>8
    DEF vars, Inv, TypeOK, BusyHasKey, DeprecatedHasSuccessor,
        RotatedHasSuccessor, CopyHasSuccessor, GraceHasSuccessor
  <1> QED
    BY <1>1, <1>2, <1>3, <1>4, <1>5, <1>6, <1>7, <1>8 DEF Next, Monitor

-----------------------------------------------------------------------------
(***************************************************************************)
(* The newest key.  Counting replacements says that every deprecated key   *)
(* has one, not that some key is left over: two keys could replace each    *)
(* other.  They cannot, because a replacement is always an id that was not *)
(* in the store, and nothing is ever created for an id that is not: the    *)
(* key stored last has no replacement.                                     *)
(***************************************************************************)

\* Nothing was ever created to replace a key that is not in the store.
AbsentHasNone == \A k \in Keys : store[k] = "none" => successors[k] = 0

\* Threads and the monitor's list work on keys that are in the store.
ThreadsHoldStored ==
    \A w \in Workers :
        /\ worker[w].pc # "idle" => Present(worker[w].key)
        /\ worker[w].pc \in {"linkRead", "linkWrite"} => Present(worker[w].new)
        /\ worker[w].pc = "linkWrite" => worker[w].newStatus # "none"
ListedIsStored == \A k \in Keys : listed[k] # "none" => Present(k)

\* Some key in the store has not been replaced.
NewestIsKept ==
    (\E k \in Keys : Present(k)) => \E k \in Keys : Present(k) /\ successors[k] = 0

NewestInv == AbsentHasNone /\ ThreadsHoldStored /\ ListedIsStored /\ NewestIsKept

LEMMA InitNewest == Init => NewestInv
  BY IdleType
  DEF Init, NewestInv, AbsentHasNone, ThreadsHoldStored, ListedIsStored,
      NewestIsKept, Present

\* A step that stores and removes no key leaves the newest one where it is.
LEMMA SameKeys ==
    ASSUME NewestInv, UNCHANGED successors,
           \A k \in Keys : store'[k] = "none" <=> store[k] = "none"
    PROVE  AbsentHasNone' /\ NewestIsKept'
  BY DEF NewestInv, AbsentHasNone, NewestIsKept, Present

\* A key stored under a new id is the newest one.
LEMMA NewKey ==
    ASSUME TypeOK, NewestInv, NEW n \in Keys, ~Present(n),
           store' = [store EXCEPT ![n] = "ACTIVE"],
           \A k \in Keys : ~Present(k) => successors'[k] = successors[k]
    PROVE  AbsentHasNone' /\ NewestIsKept'
  <1>1. store'[n] = "ACTIVE" /\ successors'[n] = 0
    BY DEF TypeOK, NewestInv, AbsentHasNone, Present
  <1>2. \A k \in Keys : store'[k] = "none" => ~Present(k)
    BY DEF TypeOK, Present
  <1>3. AbsentHasNone'
    BY <1>2 DEF NewestInv, AbsentHasNone, Present
  <1>4. NewestIsKept'
    BY <1>1 DEF NewestIsKept, Present
  <1> QED BY <1>3, <1>4

\* A key once stored is not removed.
KeysStay == \A k \in Keys : Present(k) => Present(k)'

\* A step that writes over stored keys only: it neither removes a key nor adds one.
KeysKept == KeysStay /\ \A j \in Keys : store'[j] = "none" <=> store[j] = "none"

\* What the record of a thread must hold of the keys it goes on with.
HoldsStored(ws) ==
    /\ ws.pc # "idle" => ws.key \in Keys /\ Present(ws.key)
    /\ ws.pc \in {"linkRead", "linkWrite"} => ws.new \in Keys /\ Present(ws.new)
    /\ ws.pc = "linkWrite" => ws.newStatus # "none"

\* What the other threads hold is still stored after a step of one of them.
LEMMA HeldStays ==
    ASSUME Inv, NewestInv, KeysStay, NEW w \in Workers, NEW ws \in WorkerState,
           worker' = [worker EXCEPT ![w] = ws],
           ws.pc # "idle" => Present(ws.key)',
           ws.pc \in {"linkRead", "linkWrite"} => Present(ws.new)',
           ws.pc = "linkWrite" => ws.newStatus # "none"
    PROVE  ThreadsHoldStored'
  <1>1. /\ worker'[w] = ws
        /\ \A v \in Workers \ {w} : worker'[v] = worker[v]
    BY DEF Inv, TypeOK
  <1>2. ASSUME NEW v \in Workers \ {w}
        PROVE  (/\ worker[v].pc # "idle" => Present(worker[v].key)
                /\ worker[v].pc \in {"linkRead", "linkWrite"} => Present(worker[v].new)
                /\ worker[v].pc = "linkWrite" => worker[v].newStatus # "none")'
    BY <1>1 DEF Inv, BusyHasKey, CopyHasSuccessor, NewestInv, ThreadsHoldStored,
                KeysStay, Present
  <1> QED
    BY <1>1, <1>2 DEF ThreadsHoldStored, Present

\* A write over a stored key keeps every key where it is.
LEMMA Overwrite ==
    ASSUME TypeOK, NEW k \in Keys, Present(k), NEW s \in Stored, s # "none",
           store' = store \/ store' = [store EXCEPT ![k] = s]
    PROVE  KeysKept
  BY DEF TypeOK, Present, KeysStay, KeysKept

LEMMA NoWrite == UNCHANGED store => KeysKept
  BY DEF Present, KeysStay, KeysKept

LEMMA BeginNewest ==
    ASSUME Inv, NewestInv, NEW w \in Workers, NEW k \in Keys,
           RotateQueued(w, k) \/ RotateManually(w, k) \/ RevokeRead(w, k)
    PROVE  NewestInv'
  <1> DEFINE rs == [Idle EXCEPT !.pc = "mark", !.key = k, !.status = store[k]]
             vs == [Idle EXCEPT !.pc = "revoke", !.key = k]
  <1>1. UNCHANGED <<store, listed, successors>> /\ Present(k)
    BY DEF RotateQueued, RotateManually, RevokeRead, BeginRotation
  <1>2. PICK ws \in {rs, vs} : worker' = [worker EXCEPT ![w] = ws]
    BY DEF RotateQueued, RotateManually, RevokeRead, BeginRotation
  <1>3. /\ rs \in WorkerState /\ rs.pc = "mark" /\ rs.key = k
        /\ vs \in WorkerState /\ vs.pc = "revoke" /\ vs.key = k
    BY DEF Inv, TypeOK, Idle, WorkerState, Stored
  <1>4. KeysStay /\ Present(k)'
    BY <1>1 DEF KeysStay, Present
  <1>5. ThreadsHoldStored'
    BY <1>2, <1>3, <1>4, HeldStays
  <1> QED
    BY <1>1, <1>5, SameKeys DEF NewestInv, ListedIsStored, Present

\* The steps of a thread that store nothing new: they write to a key that is
\* there, if at all, and go on with the keys they hold.
LEMMA WritingNewest ==
    ASSUME Inv, NewestInv, NEW w \in Workers, NEW ws \in WorkerState,
           worker' = [worker EXCEPT ![w] = ws],
           UNCHANGED <<listed, successors>>, KeysKept, HoldsStored(ws)
    PROVE  NewestInv'
  <1>1. KeysStay /\ \A j \in Keys : store'[j] = "none" <=> store[j] = "none"
    BY DEF KeysKept
  <1>2. /\ ws.pc # "idle" => Present(ws.key)'
        /\ ws.pc \in {"linkRead", "linkWrite"} => Present(ws.new)'
        /\ ws.pc = "linkWrite" => ws.newStatus # "none"
    BY <1>1 DEF KeysStay, HoldsStored
  <1>3. ThreadsHoldStored'
    BY <1>1, <1>2, HeldStays
  <1> QED
    BY <1>1, <1>3, SameKeys DEF NewestInv, ListedIsStored, KeysStay

LEMMA RotationNewest ==
    ASSUME Inv, NewestInv, NEW w \in Workers, RotationStep(w)
    PROVE  NewestInv'
  <1>0. /\ TypeOK /\ worker[w] \in WorkerState /\ DOMAIN worker = Workers
    BY DEF Inv, TypeOK
  <1>i. Idle \in WorkerState /\ HoldsStored(Idle)
    BY IdleType DEF HoldsStored
  <1>k. worker[w].pc # "idle" => worker[w].key \in Keys /\ Present(worker[w].key)
    BY DEF Inv, BusyHasKey, NewestInv, ThreadsHoldStored
  <1>n. worker[w].pc \in {"linkRead", "linkWrite"} =>
           worker[w].new \in Keys /\ Present(worker[w].new)
    BY DEF Inv, CopyHasSuccessor, NewestInv, ThreadsHoldStored
  <1>s. {"ACTIVE", "PENDING_ROTATION"} \subseteq Stored
    BY DEF Stored, Statuses
  <1> DEFINE to(pc) == [worker[w] EXCEPT !.pc = pc]
             spawn == [Idle EXCEPT !.pc = "spawn", !.key = worker[w].key]
  <1>a. \A pc \in {"create", "revert"} :
           to(pc) \in WorkerState /\ to(pc).pc = pc /\ to(pc).key = worker[w].key
    BY <1>0 DEF WorkerState
  <1>b. spawn \in WorkerState /\ spawn.pc = "spawn" /\ spawn.key = worker[w].key
    BY <1>0 DEF WorkerState, Idle, Stored
  <1>c. worker[w].pc # "idle" => HoldsStored(spawn)
    BY <1>b, <1>k DEF HoldsStored
  <1>1. CASE MarkPending(w)
    <2>1. /\ worker[w].key \in Keys /\ Present(worker[w].key)
          /\ worker' = [worker EXCEPT ![w] = to("create")]
          /\ UNCHANGED <<listed, successors>>
          /\ store' = store \/ store' = [store EXCEPT ![worker[w].key] = "PENDING_ROTATION"]
      BY <1>0, <1>1, <1>k DEF MarkPending, Goto, At, WriteOrFail, Write, WriteFails
    <2>2. /\ to("create") \in WorkerState /\ to("create").pc = "create"
          /\ HoldsStored(to("create"))
      BY <1>a, <2>1 DEF HoldsStored
    <2>3. KeysKept
      BY <1>0, <1>s, <2>1, Overwrite
    <2> HIDE DEF to
    <2> QED BY <2>1, <2>2, <2>3, WritingNewest
  <1>2. CASE CreateSuccessor(w)
    <2>1. PICK n \in Keys :
             /\ ~Present(n)
             /\ store' = [store EXCEPT ![n] = "ACTIVE"]
             /\ worker' = [worker EXCEPT ![w].pc = "linkRead", ![w].new = n,
                                         ![w].status = "none"]
      BY <1>2 DEF CreateSuccessor
    <2> DEFINE ws == [worker[w] EXCEPT !.pc = "linkRead", !.new = n, !.status = "none"]
    <2>2. worker' = [worker EXCEPT ![w] = ws]
      BY <1>0, <2>1
    <2>3. /\ ws \in WorkerState /\ ws.pc = "linkRead"
          /\ ws.key = worker[w].key /\ ws.new = n
      BY <1>0 DEF WorkerState, Stored
    <2>4. /\ worker[w].key \in Keys /\ Present(worker[w].key)
          /\ successors' = [successors EXCEPT ![worker[w].key] = @ + 1]
          /\ UNCHANGED listed
      BY <1>2, <1>k DEF CreateSuccessor, At
    <2>5. \A k \in Keys : ~Present(k) => successors'[k] = successors[k]
      BY <1>0, <2>4 DEF TypeOK
    <2>6. AbsentHasNone' /\ NewestIsKept'
      BY <1>0, <2>1, <2>5, NewKey
    <2>7. KeysStay /\ Present(n)'
      BY <1>0, <2>1 DEF TypeOK, KeysStay, Present
    <2>8. ThreadsHoldStored'
      BY <2>2, <2>3, <2>4, <2>7, HeldStays DEF KeysStay
    <2> QED
      BY <2>4, <2>6, <2>7, <2>8 DEF NewestInv, ListedIsStored, KeysStay
  <1>3. CASE CreationFails(w)
    <2>1. /\ worker[w].key \in Keys /\ Present(worker[w].key)
          /\ worker' = [worker EXCEPT ![w] = to("revert")]
          /\ UNCHANGED <<store, listed, successors>>
      BY <1>0, <1>3, <1>k DEF CreationFails, Goto, At, AfterFailedCreation
    <2>2. to("revert") \in WorkerState /\ HoldsStored(to("revert"))
      BY <1>a, <2>1 DEF HoldsStored
    <2>3. KeysKept
      BY <2>1, NoWrite
    <2> HIDE DEF to
    <2> QED BY <2>1, <2>2, <2>3, WritingNewest
  <1>4. CASE Revert(w)
    <2>1. /\ worker[w].key \in Keys /\ Present(worker[w].key)
          /\ worker' = [worker EXCEPT ![w] = Idle]
          /\ UNCHANGED <<listed, successors>>
          /\ store' = store \/ store' = [store EXCEPT ![worker[w].key] = "ACTIVE"]
      BY <1>4, <1>k DEF Revert, Finish, At, LastWrite, Write, WriteFails
    <2>2. KeysKept
      BY <1>0, <1>s, <2>1, Overwrite
    <2> QED BY <1>i, <2>1, <2>2, WritingNewest
  <1>5. CASE LinkRead(w)
    <2> DEFINE ws == [worker[w] EXCEPT !.pc = "linkWrite",
                                       !.newStatus = store[worker[w].new]]
    <2>1. /\ worker[w].key \in Keys /\ Present(worker[w].key)
          /\ worker[w].new \in Keys /\ Present(worker[w].new)
          /\ UNCHANGED <<store, listed, successors>>
      BY <1>5, <1>k, <1>n DEF LinkRead, At
    <2>2. \/ worker' = [worker EXCEPT ![w] = ws]
          \/ worker' = [worker EXCEPT ![w] = spawn]
      BY <1>0, <1>5 DEF LinkRead, GoSpawn
    <2>3. /\ ws \in WorkerState /\ ws.pc = "linkWrite" /\ ws.key = worker[w].key
          /\ ws.new = worker[w].new /\ ws.newStatus # "none"
      BY <1>0, <2>1 DEF WorkerState, TypeOK, Present
    <2>k. KeysKept
      BY <2>1, NoWrite
    <2>h. HoldsStored(ws) /\ HoldsStored(spawn)
      <3>1. HoldsStored(ws)
        BY <2>1, <2>3 DEF HoldsStored
      <3>2. worker[w].pc # "idle"
        BY <1>5 DEF LinkRead, At
      <3> QED BY <1>c, <3>1, <3>2
    <2> HIDE DEF ws, spawn
    <2>4. CASE worker' = [worker EXCEPT ![w] = ws]
      BY <2>1, <2>3, <2>4, <2>k, <2>h, WritingNewest
    <2>5. CASE worker' = [worker EXCEPT ![w] = spawn]
      BY <1>b, <2>1, <2>5, <2>k, <2>h, WritingNewest
    <2> QED BY <2>2, <2>4, <2>5
  <1>6. CASE LinkWrite(w)
    <2>1. /\ worker[w].key \in Keys /\ Present(worker[w].key)
          /\ worker[w].new \in Keys /\ Present(worker[w].new)
          /\ worker[w].newStatus \in Stored /\ worker[w].newStatus # "none"
      BY <1>0, <1>6, <1>k, <1>n
      DEF LinkWrite, At, NewestInv, ThreadsHoldStored, WorkerState
    <2>2. /\ worker' = [worker EXCEPT ![w] = spawn]
          /\ UNCHANGED <<listed, successors>>
          /\ \/ store' = store
             \/ store' = [store EXCEPT ![worker[w].new] = worker[w].newStatus]
      BY <1>6 DEF LinkWrite, GoSpawn, WriteOrFail, Write, WriteFails
    <2>3. KeysKept
      BY <1>0, <2>1, <2>2, Overwrite
    <2>4. HoldsStored(spawn)
      BY <1>6, <1>c DEF LinkWrite, At
    <2> HIDE DEF spawn
    <2> QED BY <1>b, <2>2, <2>3, <2>4, WritingNewest
  <1>7. CASE SpawnDeprecation(w)
    <2>1. /\ worker[w].key \in Keys /\ Present(worker[w].key)
          /\ worker' = [worker EXCEPT ![w] = Idle]
          /\ UNCHANGED <<store, listed, successors>>
      BY <1>7, <1>k DEF SpawnDeprecation, Finish, At
    <2>2. KeysKept
      BY <2>1, NoWrite
    <2> QED BY <1>i, <2>1, <2>2, WritingNewest
  <1> QED
    BY <1>1, <1>2, <1>3, <1>4, <1>5, <1>6, <1>7 DEF RotationStep

LEMMA RevocationNewest ==
    ASSUME Inv, NewestInv, NEW w \in Workers, RevocationStep(w)
    PROVE  NewestInv'
  <1>0. worker[w] \in WorkerState /\ DOMAIN worker = Workers
    BY DEF Inv, TypeOK
  <1> DEFINE hsm == [worker[w] EXCEPT !.pc = "hsm"]
  <1>1. hsm \in WorkerState /\ hsm.pc = "hsm" /\ hsm.key = worker[w].key
    BY <1>0 DEF WorkerState
  <1>2. worker[w].key \in Keys /\ Present(worker[w].key)
    BY DEF RevocationStep, RevokeWrite, RevokeInHsm, At, Inv, BusyHasKey,
           NewestInv, ThreadsHoldStored
  <1>3. \/ worker' = [worker EXCEPT ![w] = hsm]
        \/ worker' = [worker EXCEPT ![w] = Idle]
    BY <1>0 DEF RevocationStep, RevokeWrite, RevokeInHsm, Goto, Finish
  <1>w. /\ UNCHANGED <<listed, successors>>
        /\ store' = store \/ store' = [store EXCEPT ![worker[w].key] = "REVOKED"]
    BY DEF RevocationStep, RevokeWrite, RevokeInHsm, Write, WriteFails
  <1>4. "REVOKED" \in Stored /\ "REVOKED" # "none"
    BY DEF Stored, Statuses
  <1>k. KeysKept
    BY <1>2, <1>w, <1>4, Overwrite DEF Inv
  <1>h. HoldsStored(hsm) /\ HoldsStored(Idle) /\ Idle \in WorkerState
    <2>1. HoldsStored(hsm)
      BY <1>1, <1>2 DEF HoldsStored
    <2>2. HoldsStored(Idle) /\ Idle \in WorkerState
      BY IdleType DEF HoldsStored
    <2> QED BY <2>1, <2>2
  <1> HIDE DEF hsm
  <1>5. CASE worker' = [worker EXCEPT ![w] = hsm]
    BY <1>1, <1>w, <1>k, <1>h, <1>5, WritingNewest
  <1>6. CASE worker' = [worker EXCEPT ![w] = Idle]
    BY <1>w, <1>k, <1>h, <1>6, WritingNewest
  <1> QED
    BY <1>3, <1>5, <1>6

\* Everybody else leaves the threads alone.
LEMMA OutsideNewest ==
    ASSUME Inv, NewestInv, UNCHANGED worker, KeysStay, ListedIsStored',
           AbsentHasNone' /\ NewestIsKept'
    PROVE  NewestInv'
  <1>1. ThreadsHoldStored'
    BY DEF Inv, BusyHasKey, CopyHasSuccessor, NewestInv, ThreadsHoldStored, KeysStay,
           Present
  <1> QED
    BY <1>1 DEF NewestInv

LEMMA NextNewest == Inv /\ NewestInv /\ [Next]_vars => NewestInv'
  <1> SUFFICES ASSUME Inv, NewestInv, [Next]_vars PROVE NewestInv'
    OBVIOUS
  <1>0. TypeOK /\ ListedIsStored
    BY DEF Inv, NewestInv
  <1>s. {"EXPIRED", "DEPRECATED"} \subseteq Stored
    BY DEF Stored, Statuses
  <1>1. ASSUME NEW k \in Keys, CreateKey(k) PROVE NewestInv'
    <2>1. /\ ~Present(k) /\ store' = [store EXCEPT ![k] = "ACTIVE"]
          /\ UNCHANGED <<worker, listed, successors>>
      BY <1>1 DEF CreateKey
    <2>2. KeysStay
      BY <1>0, <2>1 DEF TypeOK, KeysStay, Present
    <2>3. ListedIsStored'
      BY <1>0, <2>1, <2>2 DEF ListedIsStored, KeysStay
    <2>4. AbsentHasNone' /\ NewestIsKept'
      BY <1>0, <2>1, NewKey
    <2> QED BY <2>1, <2>2, <2>3, <2>4, OutsideNewest
  <1>2. ASSUME NEW k \in Keys, Age(k) PROVE NewestInv'
    <2>1. UNCHANGED <<store, worker, listed, successors>>
      BY <1>2 DEF Age
    <2> QED BY <2>1, SameKeys, OutsideNewest DEF NewestInv, ListedIsStored, KeysStay, Present
  <1>3. ASSUME NEW k \in Keys, CheckListed(k) PROVE NewestInv'
    <2>1. /\ Present(k) /\ UNCHANGED <<worker, successors>>
          /\ listed' = [listed EXCEPT ![k] = "none"]
          /\ store' = store \/ store' = [store EXCEPT ![k] = "EXPIRED"]
      BY <1>0, <1>3 DEF CheckListed, ListedIsStored, WriteOrFail, Write, WriteFails
    <2>2. KeysStay /\ \A j \in Keys : store'[j] = "none" <=> store[j] = "none"
      BY <1>0, <1>s, <2>1, Overwrite DEF KeysKept
    <2>3. ListedIsStored'
      BY <1>0, <2>1, <2>2 DEF TypeOK, ListedIsStored, KeysStay
    <2> QED BY <2>1, <2>2, <2>3, SameKeys, OutsideNewest
  <1>4. ASSUME NEW k \in Keys, Deprecate(k) PROVE NewestInv'
    <2>1. /\ successors[k] > 0 /\ UNCHANGED <<worker, listed, successors>>
          /\ store' = store \/ store' = [store EXCEPT ![k] = "DEPRECATED"]
      BY <1>4
      DEF Deprecate, DeprecatedStatus, LastWrite, Write, WriteFails, Inv, GraceHasSuccessor
    <2>2. Present(k)
      BY <2>1 DEF NewestInv, AbsentHasNone, Present
    <2>3. KeysStay /\ \A j \in Keys : store'[j] = "none" <=> store[j] = "none"
      BY <1>0, <1>s, <2>1, <2>2, Overwrite DEF KeysKept
    <2>4. ListedIsStored'
      BY <1>0, <2>1, <2>3 DEF ListedIsStored, KeysStay
    <2> QED BY <2>1, <2>3, <2>4, SameKeys, OutsideNewest
  <1>5. ASSUME NEW w \in Workers, NEW k \in Keys,
               RotateQueued(w, k) \/ RotateManually(w, k) \/ RevokeRead(w, k)
        PROVE  NewestInv'
    BY <1>5, BeginNewest
  <1>6. ASSUME NEW w \in Workers, RotationStep(w) PROVE NewestInv'
    BY <1>6, RotationNewest
  <1>7. ASSUME NEW w \in Workers, RevocationStep(w) PROVE NewestInv'
    BY <1>7, RevocationNewest
  <1>8. CASE ListKeys
    <2>1. /\ UNCHANGED <<store, worker, successors>>
          /\ listed' = [k \in Keys |-> IF Examined(store[k]) THEN store[k] ELSE "none"]
      BY <1>8 DEF ListKeys
    <2> QED
      BY <2>1, SameKeys, OutsideNewest DEF ListedIsStored, KeysStay, Present
  <1>9. CASE Restart
    <2>1. /\ UNCHANGED <<store, successors>>
          /\ \A k \in Keys : listed'[k] = "none"
          /\ \A w \in Workers : worker'[w].pc = "idle"
      BY <1>9, IdleType DEF Restart
    <2> QED
      BY <2>1, SameKeys DEF NewestInv, ListedIsStored, ThreadsHoldStored
  <1>10. CASE UNCHANGED vars
    BY <1>10, SameKeys, OutsideNewest DEF vars, NewestInv, ListedIsStored, KeysStay, Present
  <1> QED
    BY <1>1, <1>2, <1>3, <1>4, <1>5, <1>6, <1>7, <1>8, <1>9, <1>10 DEF Next, Monitor

-----------------------------------------------------------------------------
(***************************************************************************)
(* Pending keys.  PendingIsOwned is inductive beside the types: a thread   *)
(* that gives up a key has written to it, has left it to a grace period,   *)
(* or has put it among the keys left behind.                               *)
(***************************************************************************)

\* A step of one thread: what is pending afterwards was so before, and is
\* not the key this thread has stopped rotating; or the thread rotates it.
LEMMA ThreadPending ==
    ASSUME TypeOK, PendingIsOwned, NEW w \in Workers, NEW ws \in WorkerState,
           worker' = [worker EXCEPT ![w] = ws],
           left \subseteq left',
           \A k \in Keys : grace[k] > 0 => grace'[k] > 0,
           \A k \in Keys : store'[k] = "PENDING_ROTATION" =>
              \/ Rotates(w, k)' \/ grace'[k] > 0 \/ k \in left'
              \/ store[k] = "PENDING_ROTATION" /\ ~Rotates(w, k)
    PROVE  PendingIsOwned'
  <1>1. \A v \in Workers \ {w} : worker'[v] = worker[v]
    BY DEF TypeOK
  <1>2. SUFFICES ASSUME NEW k \in Keys, store'[k] = "PENDING_ROTATION",
                        ~Rotates(w, k)', ~(grace'[k] > 0), k \notin left'
                 PROVE  \E v \in Workers : Rotates(v, k)'
    BY DEF PendingIsOwned
  <1>3. store[k] = "PENDING_ROTATION" /\ ~Rotates(w, k)
    BY <1>2
  <1>4. PICK v \in Workers : Rotates(v, k)
    BY <1>2, <1>3 DEF PendingIsOwned
  <1>5. v # w
    BY <1>3, <1>4
  <1> QED
    BY <1>1, <1>4, <1>5 DEF Rotates

LEMMA RotationPending ==
    ASSUME Inv, PendingIsOwned, NEW w \in Workers, RotationStep(w)
    PROVE  PendingIsOwned'
  <1>0. /\ TypeOK /\ worker[w] \in WorkerState /\ DOMAIN worker = Workers
    BY DEF Inv, TypeOK
  <1>g. grace \in [Keys -> Nat] /\ store \in [Keys -> Stored]
    BY DEF Inv, TypeOK
  <1>k. worker[w].pc # "idle" => worker[w].key \in Keys
    BY DEF Inv, BusyHasKey
  <1>i. Idle \in WorkerState
    BY IdleType
  <1> DEFINE to(pc) == [worker[w] EXCEPT !.pc = pc]
             spawn == [Idle EXCEPT !.pc = "spawn", !.key = worker[w].key]
  <1>a. \A pc \in {"create", "revert"} :
           to(pc) \in WorkerState /\ to(pc).pc = pc /\ to(pc).key = worker[w].key
    BY <1>0 DEF WorkerState
  <1>b. spawn \in WorkerState /\ spawn.pc = "spawn" /\ spawn.key = worker[w].key
    BY <1>0 DEF WorkerState, Idle, Stored
  <1>1. CASE MarkPending(w)
    <2>1. /\ worker[w].pc = "mark" /\ UNCHANGED <<grace, left>>
          /\ worker' = [worker EXCEPT ![w] = to("create")]
          /\ store' = store \/ store' = [store EXCEPT ![worker[w].key] = "PENDING_ROTATION"]
      BY <1>0, <1>1 DEF MarkPending, Goto, At, WriteOrFail, Write, WriteFails
    <2>2. worker'[w] = to("create")
      BY <1>0, <2>1
    <2>3. Rotates(w, worker[w].key)'
      BY <1>a, <2>2 DEF Rotates
    <2>4. \A k \in Keys : ~Rotates(w, k)
      BY <2>1 DEF Rotates
    <2>5. \A k \in Keys : store'[k] = "PENDING_ROTATION" =>
             Rotates(w, k)' \/ (store[k] = "PENDING_ROTATION" /\ ~Rotates(w, k))
      BY <1>g, <2>1, <2>3, <2>4
    <2> HIDE DEF to
    <2> QED BY <1>0, <1>a, <2>1, <2>5, ThreadPending
  <1>2. CASE CreateSuccessor(w)
    <2>1. PICK n \in Keys :
             /\ store' = [store EXCEPT ![n] = "ACTIVE"]
             /\ worker' = [worker EXCEPT ![w].pc = "linkRead", ![w].new = n,
                                         ![w].status = "none"]
      BY <1>2 DEF CreateSuccessor
    <2> DEFINE ws == [worker[w] EXCEPT !.pc = "linkRead", !.new = n, !.status = "none"]
    <2>2. worker' = [worker EXCEPT ![w] = ws] /\ worker'[w] = ws
      BY <1>0, <2>1
    <2>3. ws \in WorkerState /\ ws.pc = "linkRead" /\ ws.key = worker[w].key
      BY <1>0 DEF WorkerState, Stored
    <2>4. UNCHANGED <<grace, left>> /\ \A k \in Keys : Rotates(w, k) => Rotates(w, k)'
      BY <1>2, <2>2, <2>3 DEF CreateSuccessor, Rotates
    <2>5. \A k \in Keys : store'[k] = "PENDING_ROTATION" => store[k] = "PENDING_ROTATION"
      BY <1>g, <2>1
    <2> HIDE DEF ws
    <2> QED BY <1>0, <2>2, <2>3, <2>4, <2>5, ThreadPending
  <1>3. CASE CreationFails(w)
    <2>1. /\ UNCHANGED <<store, grace, left>>
          /\ worker' = [worker EXCEPT ![w] = to("revert")]
      BY <1>0, <1>3 DEF CreationFails, Goto, AfterFailedCreation
    <2>2. worker'[w] = to("revert")
      BY <1>0, <2>1
    <2>3. \A k \in Keys : Rotates(w, k) => Rotates(w, k)'
      BY <1>a, <2>2 DEF Rotates
    <2> HIDE DEF to
    <2> QED BY <1>0, <1>a, <2>1, <2>3, ThreadPending
  <1>4. CASE Revert(w)
    <2>1. /\ worker[w].key \in Keys /\ UNCHANGED grace
          /\ worker' = [worker EXCEPT ![w] = Idle]
          /\ \/ store' = [store EXCEPT ![worker[w].key] = "ACTIVE"] /\ UNCHANGED left
             \/ UNCHANGED store /\ left' = left \cup {worker[w].key}
      BY <1>4, <1>k DEF Revert, At, Finish, LastWrite, Write, WriteFails
    <2>2. \A k \in Keys : Rotates(w, k) => k = worker[w].key
      BY DEF Rotates
    <2>3. left \subseteq left' /\ \A k \in Keys : store'[k] = "PENDING_ROTATION" =>
             k \in left' \/ (store[k] = "PENDING_ROTATION" /\ ~Rotates(w, k))
      BY <1>g, <2>1, <2>2
    <2> QED BY <1>0, <1>i, <2>1, <2>3, ThreadPending
  <1>5. CASE LinkRead(w)
    <2> DEFINE ws == [worker[w] EXCEPT !.pc = "linkWrite",
                                       !.newStatus = store[worker[w].new]]
    <2>1. UNCHANGED <<store, grace, left>> /\ worker[w].new \in Keys
      BY <1>5 DEF LinkRead, At, Inv, CopyHasSuccessor
    <2>2. PICK to2 \in {ws, spawn} : worker' = [worker EXCEPT ![w] = to2]
      BY <1>0, <1>5 DEF LinkRead, GoSpawn
    <2>3. /\ to2 \in WorkerState /\ to2.key = worker[w].key
          /\ to2.pc \in {"linkWrite", "spawn"}
      BY <1>0, <1>b, <1>g, <2>1, <2>2 DEF WorkerState
    <2>4. worker'[w] = to2
      BY <1>0, <2>2
    <2>5. \A k \in Keys : Rotates(w, k) => Rotates(w, k)'
      BY <2>3, <2>4 DEF Rotates
    <2> HIDE DEF ws, spawn
    <2> QED BY <1>0, <2>1, <2>2, <2>3, <2>5, ThreadPending
  <1>6. CASE LinkWrite(w)
    <2>1. /\ UNCHANGED grace /\ left \subseteq left'
          /\ worker' = [worker EXCEPT ![w] = spawn]
          /\ \/ UNCHANGED store
             \/ /\ store' = [store EXCEPT ![worker[w].new] = worker[w].newStatus]
                /\ worker[w].newStatus = "PENDING_ROTATION" => worker[w].new \in left'
      BY <1>6 DEF LinkWrite, GoSpawn, WriteOrFail, Write, WriteFails
    <2>2. worker'[w] = spawn
      BY <1>0, <2>1
    <2>3. \A k \in Keys : Rotates(w, k) => Rotates(w, k)'
      BY <1>b, <2>2 DEF Rotates
    <2>4. \A k \in Keys : store'[k] = "PENDING_ROTATION" =>
             k \in left' \/ store[k] = "PENDING_ROTATION"
      BY <1>g, <2>1
    <2> HIDE DEF spawn
    <2> QED BY <1>0, <1>b, <2>1, <2>3, <2>4, ThreadPending
  <1>7. CASE SpawnDeprecation(w)
    <2>1. /\ worker[w].key \in Keys /\ UNCHANGED <<store, left>>
          /\ worker' = [worker EXCEPT ![w] = Idle]
          /\ grace' = [grace EXCEPT ![worker[w].key] = @ + 1]
      BY <1>7, <1>k DEF SpawnDeprecation, At, Finish
    <2>2. \A k \in Keys : grace[k] > 0 \/ Rotates(w, k) => grace'[k] > 0
      BY <1>g, <2>1 DEF Rotates
    <2> QED BY <1>0, <1>i, <2>1, <2>2, ThreadPending
  <1> QED
    BY <1>1, <1>2, <1>3, <1>4, <1>5, <1>6, <1>7 DEF RotationStep

\* A thread that begins, or revokes, rotates nothing before or after.
LEMMA RevocationPending ==
    ASSUME Inv, PendingIsOwned, NEW w \in Workers,
           RevocationStep(w) \/
           \E k \in Keys : RotateQueued(w, k) \/ RotateManually(w, k) \/ RevokeRead(w, k)
    PROVE  PendingIsOwned'
  <1>0. /\ TypeOK /\ worker[w] \in WorkerState /\ DOMAIN worker = Workers
        /\ store \in [Keys -> Stored]
    BY DEF Inv, TypeOK
  <1>1. /\ UNCHANGED <<grace, left>>
        /\ worker[w].pc \in {"idle", "revoke", "hsm"}
        /\ store' = store \/ store' = [store EXCEPT ![worker[w].key] = "REVOKED"]
    BY DEF RevocationStep, RevokeWrite, RevokeInHsm, Write, WriteFails, At, RotateQueued,
           RotateManually, RevokeRead, BeginRotation
  <1>2. \A v \in Workers \ {w} : worker'[v] = worker[v]
    BY <1>0 DEF RevocationStep, RevokeWrite, RevokeInHsm, Goto, Finish, RotateQueued,
           RotateManually, RevokeRead, BeginRotation
  <1>3. \A k \in Keys : ~Rotates(w, k)
    BY <1>1 DEF Rotates
  <1>4. \A k \in Keys : store'[k] = "PENDING_ROTATION" => store[k] = "PENDING_ROTATION"
    BY <1>0, <1>1
  <1>5. \A k \in Keys, v \in Workers : Rotates(v, k) => Rotates(v, k)'
    BY <1>2, <1>3 DEF Rotates
  <1> QED
    BY <1>1, <1>4, <1>5 DEF PendingIsOwned

LEMMA NextPending == Inv /\ PendingIsOwned /\ [Next]_vars => PendingIsOwned'
  <1> SUFFICES ASSUME Inv, PendingIsOwned, [Next]_vars PROVE PendingIsOwned'
    OBVIOUS
  <1>0. store \in [Keys -> Stored] /\ grace \in [Keys -> Nat]
    BY DEF Inv, TypeOK
  <1>1. ASSUME NEW k \in Keys, CreateKey(k) \/ Age(k) \/ CheckListed(k) \/ ListKeys
        PROVE  PendingIsOwned'
    <2>1. UNCHANGED <<worker, grace, left>>
      BY <1>1 DEF CreateKey, Age, CheckListed, ListKeys
    <2>2. \A j \in Keys : store'[j] = "PENDING_ROTATION" => store[j] = "PENDING_ROTATION"
      BY <1>0, <1>1 DEF CreateKey, Age, CheckListed, ListKeys, WriteOrFail, Write, WriteFails
    <2> QED BY <2>1, <2>2 DEF PendingIsOwned, Rotates
  <1>2. ASSUME NEW k \in Keys, Deprecate(k) PROVE PendingIsOwned'
    <2>1. /\ UNCHANGED worker /\ grace' = [grace EXCEPT ![k] = @ - 1]
          /\ \/ store' = [store EXCEPT ![k] = "DEPRECATED"] /\ UNCHANGED left
             \/ UNCHANGED store /\ left' = left \cup {k}
      BY <1>2 DEF Deprecate, DeprecatedStatus, LastWrite, Write, WriteFails
    <2>2. \A j \in Keys : store'[j] = "PENDING_ROTATION" =>
             \/ j \in left'
             \/ j # k /\ store[j] = "PENDING_ROTATION"
      BY <1>0, <2>1
    <2>3. left \subseteq left' /\ \A j \in Keys \ {k} : grace'[j] = grace[j]
      BY <1>0, <2>1
    <2> QED BY <2>1, <2>2, <2>3 DEF PendingIsOwned, Rotates
  <1>3. ASSUME NEW w \in Workers, NEW k \in Keys,
               RotateQueued(w, k) \/ RotateManually(w, k) \/ RevokeRead(w, k)
        PROVE  PendingIsOwned'
    BY <1>3, RevocationPending
  <1>4. ASSUME NEW w \in Workers, RotationStep(w) PROVE PendingIsOwned'
    BY <1>4, RotationPending
  <1>5. ASSUME NEW w \in Workers, RevocationStep(w) PROVE PendingIsOwned'
    BY <1>5, RevocationPending
  <1>6. CASE ListKeys
    <2>1. UNCHANGED <<store, worker, grace, left>>
      BY <1>6 DEF ListKeys
    <2> QED BY <2>1 DEF PendingIsOwned, Rotates
  <1>7. CASE Restart
    BY <1>7 DEF Restart, PendingIsOwned
  <1>8. CASE UNCHANGED vars
    BY <1>8 DEF vars, PendingIsOwned, Rotates
  <1> QED
    BY <1>1, <1>2, <1>3, <1>4, <1>5, <1>6, <1>7, <1>8 DEF Next, Monitor

-----------------------------------------------------------------------------
LEMMA Invariance == Spec => [](Inv /\ NewestInv)
  BY InitInv, InitNewest, NextInv, NextNewest, PTL DEF Spec

(***************************************************************************)
(* Every variable of the key store, the threads and the monitor keeps its  *)
(* type, for any keys and threads and any bounds on queue and faults.      *)
(***************************************************************************)
THEOREM KeyRotationTypes == Spec => []TypeOK
  <1>1. Inv => TypeOK
    BY DEF Inv
  <1> QED
    BY <1>1, Invariance, PTL

(***************************************************************************)
(* rotate_key, revoke_key and the monitor: a DEPRECATED key has had a      *)
(* replacement stored, for any keys, threads, failures and restarts.       *)
(***************************************************************************)
THEOREM RetiredKeysAreReplaced == Spec => []DeprecatedHasSuccessor
  <1>1. Inv => DeprecatedHasSuccessor
    BY DEF Inv
  <1> QED
    BY <1>1, Invariance, PTL

(***************************************************************************)
(* The grace periods of rotate_key never retire the last key: once a key   *)
(* is stored, some key is not DEPRECATED, however many rotations of the    *)
(* same and of each other's keys interleave, fail or are cut off.          *)
(***************************************************************************)
THEOREM SomeKeyIsLeft == Spec => []NeverAllDeprecated
  <1>1. Inv /\ NewestInv => NeverAllDeprecated
    BY DEF Inv, NewestInv, NewestIsKept, NeverAllDeprecated, DeprecatedHasSuccessor, TypeOK
  <1> QED
    BY <1>1, Invariance, PTL

(***************************************************************************)
(* rotate_key under any number of threads, failing calls and restarts: a   *)
(* key that is PENDING_ROTATION with nobody to end it was left so by a     *)
(* failed last write, a restart or the link step of its own creation.      *)
(***************************************************************************)
THEOREM PendingKeysAreOwned == Spec => []PendingIsOwned
  <1>1. Init => PendingIsOwned
    BY DEF Init, PendingIsOwned
  <1> QED
    BY <1>1, Invariance, NextPending, PTL DEF Spec
=============================================================================
