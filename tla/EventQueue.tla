----------------------------- MODULE EventQueue -----------------------------
(***************************************************************************)
(* What the transactional outbox promises to a service that enqueues an    *)
(* event: the event is delivered at least once before it is settled as     *)
(* done, or it is set aside as dead; it is never both and it never comes   *)
(* back from either.  Redelivery of a queued event is allowed.             *)
(***************************************************************************)
CONSTANT Records

VARIABLES
    status,     \* "absent", "queued", "done" or "dead"
    delivered   \* events the broker has at least once

queueVars == <<status, delivered>>

InitQueue ==
    /\ status = [r \in Records |-> "absent"]
    /\ delivered = {}

Put(r) ==
    /\ status[r] = "absent"
    /\ status' = [status EXCEPT ![r] = "queued"]
    /\ UNCHANGED delivered

Deliver(r) ==
    /\ status[r] = "queued"
    /\ delivered' = delivered \cup {r}
    /\ UNCHANGED status

\* A batch is settled at once.
Settle(done, dead) ==
    /\ done \cap dead = {}
    /\ \A r \in done \cup dead : status[r] = "queued"
    /\ done \subseteq delivered
    /\ status' = [r \in Records |-> CASE r \in done -> "done"
                                      [] r \in dead -> "dead"
                                      [] OTHER -> status[r]]
    /\ UNCHANGED delivered

NextQueue ==
    \/ \E r \in Records : Put(r) \/ Deliver(r)
    \/ \E done, dead \in SUBSET Records : Settle(done, dead)

QueueSpec == InitQueue /\ [][NextQueue]_queueVars
=============================================================================
