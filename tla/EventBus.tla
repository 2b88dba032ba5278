------------------------------ MODULE EventBus ------------------------------
(***************************************************************************)
(* EventBusProvider of marty_common/infrastructure/event_bus.py: a Kafka   *)
(* producer that the first publish() creates and starts under an           *)
(* asyncio.Lock, and that stop() removes without taking the lock.  Tasks   *)
(* switch only at awaits, so each action runs from one await to the next.  *)
(* The bus is enabled; a disabled one returns from publish() at once.      *)
(* Producers are external: starting and sending may succeed or raise.      *)
(***************************************************************************)
EXTENDS Integers, FiniteSets

CONSTANTS
    Publishers,     \* tasks that call publish()
    Stoppers,       \* tasks that call stop()
    None            \* the lock is free

ASSUME EventBusConfig == None \notin Publishers

VARIABLES
    producer,   \* self._producer: absent, or how far the object has come
    lock,       \* the task that holds self._lock
    pc,         \* the await each publisher is in
    stopping,   \* stoppers in the await of producer.stop()
    asserted    \* history: the assertion of publish() has failed

vars == <<producer, lock, pc, stopping, asserted>>

TypeOK ==
    /\ producer \in {"none", "created", "started"}
    /\ lock \in Publishers \cup {None}
    /\ pc \in [Publishers -> {"idle", "locking", "starting", "sending", "stuck"}]
    /\ stopping \subseteq Stoppers
    /\ asserted \in BOOLEAN

Init ==
    /\ producer = "none"
    /\ lock = None
    /\ pc = [t \in Publishers |-> "idle"]
    /\ stopping = {}
    /\ asserted = FALSE

At(place) == {t \in Publishers : pc[t] = place}
Goto(t, place) == pc' = [pc EXCEPT ![t] = place]

-----------------------------------------------------------------------------
(* publish and _ensure_started                                             *)

\* send_and_wait is called on the producer that is there.  One that was
\* created and never started cannot send.
CallSend(t) == Goto(t, IF producer = "started" THEN "sending" ELSE "stuck")

\* Mutant: the lock is not taken before the producer is looked at.
Acquire_Unlocked(t) ==
    IF producer = "none"
    THEN producer' = "created" /\ lock' = t /\ Goto(t, "starting")
    ELSE CallSend(t) /\ UNCHANGED <<producer, lock>>

\* With the lock: create and start a producer, or use the one that is there
\* (and give the lock back before anybody else can run).
Acquire(t) ==
    /\ lock = None
    /\ \/ /\ producer = "none"
          /\ producer' = "created"
          /\ lock' = t
          /\ Goto(t, "starting")
       \/ /\ producer # "none"
          /\ CallSend(t)
          /\ UNCHANGED <<producer, lock>>

\* A free asyncio.Lock without waiters is taken at once; else the task waits.
Publish(t) ==
    /\ pc[t] = "idle"
    /\ \/ At("locking") = {} /\ Acquire(t)
       \/ /\ lock # None \/ At("locking") # {}
          /\ Goto(t, "locking")
          /\ UNCHANGED <<producer, lock>>
    /\ UNCHANGED <<stopping, asserted>>

GetLock(t) ==
    /\ pc[t] = "locking"
    /\ Acquire(t)
    /\ UNCHANGED <<stopping, asserted>>

\* producer.start() returned.  stop() may have removed the producer while it
\* ran; publish() then fails on "assert self._producer is not None".
StartOk(t) ==
    /\ pc[t] = "starting"
    /\ lock' = None
    /\ \/ /\ producer # "none"
          /\ producer' = "started"
          /\ Goto(t, "sending")
          /\ UNCHANGED asserted
       \/ /\ producer = "none"
          /\ asserted' = TRUE
          /\ Goto(t, "idle")
          /\ UNCHANGED producer
    /\ UNCHANGED stopping

\* Mutant: an exception of start() leaves the lock taken.
Released_Kept == lock

\* What leaving "async with self._lock" by an exception makes of the lock.
Released == None

\* producer.start() raised or was cancelled.  The producer object stays.
StartFails(t) ==
    /\ pc[t] = "starting"
    /\ lock' = Released
    /\ Goto(t, "idle")
    /\ UNCHANGED <<producer, stopping, asserted>>

\* send_and_wait returned or raised.
SendEnds(t) ==
    /\ pc[t] \in {"sending", "stuck"}
    /\ Goto(t, "idle")
    /\ UNCHANGED <<producer, lock, stopping, asserted>>

\* The task is cancelled while it waits for the lock.
GivesUp(t) ==
    /\ pc[t] = "locking"
    /\ Goto(t, "idle")
    /\ UNCHANGED <<producer, lock, stopping, asserted>>

-----------------------------------------------------------------------------
(* stop                                                                    *)

BeginStop(s) ==
    /\ s \notin stopping
    /\ producer # "none"
    /\ stopping' = stopping \cup {s}
    /\ UNCHANGED <<producer, lock, pc, asserted>>

\* producer.stop() returned, and whatever self._producer is now is removed; or
\* it raised.
EndStop(s) ==
    /\ s \in stopping
    /\ stopping' = stopping \ {s}
    /\ producer' \in {"none", producer}
    /\ UNCHANGED <<lock, pc, asserted>>

-----------------------------------------------------------------------------
Proceed(t) == GetLock(t) \/ StartOk(t) \/ StartFails(t) \/ SendEnds(t)

Next ==
    \/ \E t \in Publishers : Publish(t) \/ Proceed(t) \/ GivesUp(t)
    \/ \E s \in Stoppers : BeginStop(s) \/ EndStop(s)

Spec == Init /\ [][Next]_vars

\* The lock is handed to its waiters in turn. Nothing in the code bounds a call of
\* Kafka, so nothing is assumed of them.
FairSpec == Spec /\ \A t \in Publishers : SF_vars(GetLock(t))

-----------------------------------------------------------------------------
(***************************************************************************)
(* One task at a time starts a producer, and it is the one that holds the  *)
(* lock: not even stop(), which ignores the lock and clears _producer      *)
(* under a running start(), lets a second start begin.                     *)
(***************************************************************************)
OneStart == At("starting") = IF lock = None THEN {} ELSE {lock}

(***************************************************************************)
(* As long as start() returns or raises, nobody waits for the lock for     *)
(* ever, however often starting fails, whoever stops the bus meanwhile and *)
(* however many send_and_wait calls, on a producer that works or on one    *)
(* that was never started, do not come back.                               *)
(***************************************************************************)
WaitEnds ==
    (\A u \in Publishers : []<>(pc[u] # "starting"))
        => \A t \in Publishers : pc[t] = "locking" ~> pc[t] # "locking"

(***************************************************************************)
(* event_bus.py:85: "assert self._producer is not None", called there an   *)
(* invariant after _ensure_started.                                        *)
(***************************************************************************)
ProducerAfterEnsure == ~asserted
=============================================================================
