----------------------------- MODULE KeyRotation ----------------------------
(***************************************************************************)
(* KeyRotationManager of marty_common/security/key_rotation.py on a        *)
(* database key store.  Rotations and revocations run side by side in the  *)
(* executor and in callers' threads; there is no lock, and every method    *)
(* reads a key's metadata, changes the copy and writes all of it back      *)
(* later, so each store call is a step of its own.                         *)
(*                                                                         *)
(* Metadata is abstracted to its status: version, parent and tags are      *)
(* copied and written back together with it.  The only thing time does is  *)
(* age keys (Age) and end the grace period, so both may happen at any      *)
(* moment.                                                                 *)
(***************************************************************************)
EXTENDS Integers, FiniteSets, TLC

CONSTANTS
    Keys,           \* key ids that create_key may draw
    Workers,        \* threads in rotate_key or revoke_key
    MaxQueued,      \* bound: rotations of one key waiting in the executor
    MaxFaults,      \* bound: failing store and HSM calls, and restarts
    None            \* no key

ASSUME KeyRotationConfig ==
    /\ None \notin Keys
    /\ MaxQueued \in Nat /\ MaxFaults \in Nat

VARIABLES
    store,      \* key_store table: status of each key, "none" when absent
    age,        \* how created_at and expires_at compare with now
    worker,     \* each thread: where it is, its keys, its copies of their status
    queue,      \* executor: rotations submitted and not begun
    listed,     \* the monitor's copies from list_keys that are still to be examined
    grace,      \* how many deprecate_old_key threads sleep on each key
    successors, \* history: how many keys were created to replace each key
    left,       \* history: keys whose way out of PENDING_ROTATION was cut off
    faults      \* how many calls have failed and restarts happened

vars == <<store, age, worker, queue, listed, grace, successors, left, faults>>

Statuses == {"ACTIVE", "PENDING_ROTATION", "DEPRECATED", "REVOKED", "EXPIRED"}
Stored == Statuses \cup {"none"}
Present(k) == store[k] # "none"

Idle == [pc |-> "idle", key |-> None, status |-> "none",
         new |-> None, newStatus |-> "none"]
WorkerState ==
    [pc : {"idle", "mark", "create", "revert", "linkRead", "linkWrite", "spawn",
           "revoke", "hsm"},
     key : Keys \cup {None}, status : Stored,
     new : Keys \cup {None}, newStatus : Stored]

TypeOK ==
    /\ store \in [Keys -> Stored]
    /\ age \in [Keys -> {"fresh", "due", "expired"}]
    /\ worker \in [Workers -> WorkerState]
    /\ queue \in [Keys -> 0 .. MaxQueued]
    /\ listed \in [Keys -> Stored]
    /\ grace \in [Keys -> Nat]
    /\ successors \in [Keys -> Nat]
    /\ left \subseteq Keys
    /\ faults \in 0 .. MaxFaults

Init ==
    /\ store = [k \in Keys |-> "none"]
    /\ age = [k \in Keys |-> "fresh"]
    /\ worker = [w \in Workers |-> Idle]
    /\ queue = [k \in Keys |-> 0]
    /\ listed = [k \in Keys |-> "none"]
    /\ grace = [k \in Keys |-> 0]
    /\ successors = [k \in Keys |-> 0]
    /\ left = {}
    /\ faults = 0

-----------------------------------------------------------------------------
(* Store calls                                                             *)

At(w, pc) == worker[w].pc = pc
Goto(w, pc) == worker' = [worker EXCEPT ![w].pc = pc]
Finish(w) == worker' = [worker EXCEPT ![w] = Idle]
GoSpawn(w) ==
    worker' = [worker EXCEPT ![w] = [Idle EXCEPT !.pc = "spawn", !.key = worker[w].key]]

\* update_key_metadata writes every column it is given; a failure is logged
\* and changes nothing.
Write(k, s) == store' = [store EXCEPT ![k] = s] /\ UNCHANGED faults
WriteFails == faults < MaxFaults /\ faults' = faults + 1 /\ UNCHANGED store

\* The caller ignores what update_key_metadata returns.
WriteOrFail(k, s) == Write(k, s) \/ WriteFails

\* The last write of a rotation to its key: after a failure nobody tries again.
LastWrite(k, s) ==
    \/ Write(k, s) /\ UNCHANGED left
    \/ WriteFails /\ left' = left \cup {k}

-----------------------------------------------------------------------------
\* create_key from outside: generated, stored, distributed.
CreateKey(k) ==
    /\ ~Present(k)
    /\ store' = [store EXCEPT ![k] = "ACTIVE"]
    /\ UNCHANGED <<age, worker, queue, listed, grace, successors, left, faults>>

-----------------------------------------------------------------------------
(* rotate_key                                                              *)

\* get_key finds the key; its status is not looked at.
BeginRotation(w, k) ==
    /\ At(w, "idle")
    /\ Present(k)
    /\ worker' = [worker EXCEPT ![w] =
          [Idle EXCEPT !.pc = "mark", !.key = k, !.status = store[k]]]
    /\ UNCHANGED <<store, age, listed, grace, successors, left, faults>>

\* Mutant: a rotation is taken that nobody submitted.
RotateQueued_Unsubmitted(w, k) ==
    /\ queue' = [queue EXCEPT ![k] = @ - 1]
    /\ BeginRotation(w, k)

\* An executor thread takes a submitted rotation.
RotateQueued(w, k) ==
    /\ queue[k] > 0
    /\ queue' = [queue EXCEPT ![k] = @ - 1]
    /\ BeginRotation(w, k)

\* Somebody calls rotate_key.
RotateManually(w, k) ==
    /\ BeginRotation(w, k)
    /\ UNCHANGED queue

\* The key is marked PENDING_ROTATION, whatever its status was.
MarkPending(w) ==
    /\ At(w, "mark")
    /\ WriteOrFail(worker[w].key, "PENDING_ROTATION")
    /\ Goto(w, "create")
    /\ UNCHANGED <<age, queue, listed, grace, successors, left>>

\* The replacement is generated and stored.
CreateSuccessor(w) ==
    /\ At(w, "create")
    /\ \E n \in Keys :
          /\ ~Present(n)
          /\ store' = [store EXCEPT ![n] = "ACTIVE"]
          /\ worker' = [worker EXCEPT ![w].pc = "linkRead", ![w].new = n,
                                      ![w].status = "none"]
    /\ successors' = [successors EXCEPT ![worker[w].key] = @ + 1]
    /\ UNCHANGED <<age, queue, listed, grace, left, faults>>

\* Mutant: a failed creation is not noticed and the rotation goes on.
AfterFailedCreation_GoesOn == "spawn"

\* create_key returned None.
AfterFailedCreation == "revert"

\* The HSM or the store refuses (or the model's ids are used up).
CreationFails(w) ==
    /\ At(w, "create")
    /\ \/ faults < MaxFaults /\ faults' = faults + 1
       \/ (\A n \in Keys : Present(n)) /\ UNCHANGED faults
    /\ Goto(w, AfterFailedCreation)
    /\ UNCHANGED <<store, age, queue, listed, grace, successors, left>>

\* "Revert status if rotation failed": ACTIVE is written.
Revert(w) ==
    /\ At(w, "revert")
    /\ LastWrite(worker[w].key, "ACTIVE")
    /\ Finish(w)
    /\ UNCHANGED <<age, queue, listed, grace, successors>>

\* The new key's metadata is read, or cannot be and is left alone.
LinkRead(w) ==
    /\ At(w, "linkRead")
    /\ \/ /\ worker' = [worker EXCEPT ![w].pc = "linkWrite",
                                      ![w].newStatus = store[worker[w].new]]
          /\ UNCHANGED faults
       \/ /\ faults < MaxFaults
          /\ faults' = faults + 1
          /\ GoSpawn(w)
    /\ UNCHANGED <<store, age, queue, listed, grace, successors, left>>

\* The copy is written back with the parent and the version filled in.
LinkWrite(w) ==
    /\ At(w, "linkWrite")
    /\ WriteOrFail(worker[w].new, worker[w].newStatus)
    /\ left' = IF worker[w].newStatus = "PENDING_ROTATION"
               THEN left \cup {worker[w].new} ELSE left
    /\ GoSpawn(w)
    /\ UNCHANGED <<age, queue, listed, grace, successors>>

\* The service is notified and a daemon thread begins the grace period.
SpawnDeprecation(w) ==
    /\ At(w, "spawn")
    /\ grace' = [grace EXCEPT ![worker[w].key] = @ + 1]
    /\ Finish(w)
    /\ UNCHANGED <<store, age, queue, listed, successors, left, faults>>

\* Mutant: the status is not changed before it is written.
DeprecatedStatus_Stale == "PENDING_ROTATION"

DeprecatedStatus == "DEPRECATED"

\* The grace period ends: the copy made a day ago is written back.
Deprecate(k) ==
    /\ grace[k] > 0
    /\ LastWrite(k, DeprecatedStatus)
    /\ grace' = [grace EXCEPT ![k] = @ - 1]
    /\ UNCHANGED <<age, worker, queue, listed, successors>>

-----------------------------------------------------------------------------
(* revoke_key                                                              *)

RevokeRead(w, k) ==
    /\ At(w, "idle")
    /\ Present(k)
    /\ worker' = [worker EXCEPT ![w] =
          [Idle EXCEPT !.pc = "revoke", !.key = k]]
    /\ UNCHANGED <<store, age, queue, listed, grace, successors, left, faults>>

RevokeWrite(w) ==
    /\ At(w, "revoke")
    /\ \/ Write(worker[w].key, "REVOKED") /\ Goto(w, "hsm")
       \/ WriteFails /\ Finish(w)
    /\ UNCHANGED <<age, queue, listed, grace, successors, left>>

\* hsm.revoke_key, which may raise: revoke_key then returns False.  The
\* manager never reads the HSM's own record of it back.
RevokeInHsm(w) ==
    /\ At(w, "hsm")
    /\ UNCHANGED faults \/ (faults < MaxFaults /\ faults' = faults + 1)
    /\ Finish(w)
    /\ UNCHANGED <<store, age, queue, listed, grace, successors, left>>

-----------------------------------------------------------------------------
(* _check_for_rotations                                                    *)

Examined(s) == s \in {"ACTIVE", "DEPRECATED"}

\* list_keys; the copies the loop would skip are dropped at once.
ListKeys ==
    /\ \A k \in Keys : listed[k] = "none"
    /\ \E k \in Keys : Examined(store[k])
    /\ listed' = [k \in Keys |-> IF Examined(store[k]) THEN store[k] ELSE "none"]
    /\ UNCHANGED <<store, age, worker, queue, grace, successors, left, faults>>

\* One turn of the loop over the listed copies.
CheckListed(k) ==
    /\ listed[k] # "none"
    /\ listed' = [listed EXCEPT ![k] = "none"]
    /\ \/ /\ age[k] = "expired"
          /\ WriteOrFail(k, "EXPIRED")
          /\ UNCHANGED queue
       \/ /\ age[k] = "due"
          /\ queue' = [queue EXCEPT ![k] = IF @ < MaxQueued THEN @ + 1 ELSE @]
          /\ UNCHANGED <<store, faults>>
       \/ /\ age[k] = "fresh"
          /\ UNCHANGED <<store, queue, faults>>
    /\ UNCHANGED <<age, worker, grace, successors, left>>

-----------------------------------------------------------------------------
\* Time: a key's age passes its rotation interval, then its expiry.
Age(k) ==
    /\ Present(k)
    /\ \/ age[k] = "fresh" /\ age' = [age EXCEPT ![k] = "due"]
       \/ age[k] = "due" /\ age' = [age EXCEPT ![k] = "expired"]
    /\ UNCHANGED <<store, worker, queue, listed, grace, successors, left, faults>>

\* The process restarts: the executor's queue, the threads inside rotate_key
\* and the daemon threads are gone; the store and the HSM remain.
Restart ==
    /\ faults < MaxFaults
    /\ faults' = faults + 1
    /\ worker' = [w \in Workers |-> Idle]
    /\ queue' = [k \in Keys |-> 0]
    /\ listed' = [k \in Keys |-> "none"]
    /\ grace' = [k \in Keys |-> 0]
    /\ left' = left \cup {k \in Keys : store[k] = "PENDING_ROTATION"}
    /\ UNCHANGED <<store, age, successors>>

RotationStep(w) ==
    \/ MarkPending(w) \/ CreateSuccessor(w) \/ CreationFails(w) \/ Revert(w)
    \/ LinkRead(w) \/ LinkWrite(w) \/ SpawnDeprecation(w)
RevocationStep(w) == RevokeWrite(w) \/ RevokeInHsm(w)
Monitor == ListKeys \/ \E k \in Keys : CheckListed(k)

Next ==
    \/ \E k \in Keys : CreateKey(k) \/ Age(k) \/ Deprecate(k)
    \/ \E w \in Workers, k \in Keys :
          RotateQueued(w, k) \/ RotateManually(w, k) \/ RevokeRead(w, k)
    \/ \E w \in Workers : RotationStep(w) \/ RevocationStep(w)
    \/ Monitor
    \/ Restart

Spec == Init /\ [][Next]_vars

\* Keys and threads are interchangeable, for the runs without liveness.
RotationSymmetry == Permutations(Keys) \union Permutations(Workers)

-----------------------------------------------------------------------------
(***************************************************************************)
(* A key is retired only in favour of another: a DEPRECATED key has had a  *)
(* replacement created and stored, whatever failed or restarted around it, *)
(* so rotation never leaves a service without a key.                       *)
(***************************************************************************)
DeprecatedHasSuccessor ==
    \A k \in Keys : store[k] = "DEPRECATED" => successors[k] > 0

(***************************************************************************)
(* Rotation never retires the last key of a service: once a key exists,    *)
(* some key is not DEPRECATED, however many rotations of the same and of   *)
(* each other's keys interleave, fail or are cut off by a restart.         *)
(***************************************************************************)
NeverAllDeprecated ==
    (\E k \in Keys : Present(k)) =>
        \E k \in Keys : Present(k) /\ store[k] # "DEPRECATED"

\* The thread has marked the key and has a write to it, or its grace period, ahead.
Rotates(w, k) ==
    /\ worker[w].key = k
    /\ worker[w].pc \in {"create", "revert", "linkRead", "linkWrite", "spawn"}

(***************************************************************************)
(* A PENDING_ROTATION key is on its way to another status: a thread that   *)
(* rotates it will still write one, or the thread that sleeps through its  *)
(* grace period will.  A key is pending with nobody to end it only when    *)
(* the last write of its rotation failed, when a restart found it pending, *)
(* or when the rotation that created it wrote back the status its link     *)
(* step had copied while another thread was already rotating the new key.  *)
(***************************************************************************)
PendingIsOwned ==
    \A k \in Keys : store[k] = "PENDING_ROTATION" =>
        (\E w \in Workers : Rotates(w, k)) \/ grace[k] > 0 \/ k \in left

(***************************************************************************)
(* revoke_key: "Revoke a key."  A revoked key stays revoked.               *)
(***************************************************************************)
RevokedStaysRevoked ==
    [][\A k \in Keys : store[k] = "REVOKED" => store'[k] = "REVOKED"]_vars
=============================================================================
