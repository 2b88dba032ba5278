--------------------------- MODULE EventBusProofs ---------------------------
(***************************************************************************)
(* At most one producer is being started, for any number of publishers and *)
(* of tasks that stop the bus.                                             *)
(***************************************************************************)
EXTENDS EventBus, TLAPS

Inv == TypeOK /\ OneStart

\* A step of one publisher that leaves the set of starting tasks to be judged
\* by that publisher alone.
LEMMA PublisherMoves ==
    ASSUME Inv, NEW t \in Publishers,
           NEW place \in {"idle", "locking", "starting", "sending", "stuck"},
           Goto(t, place), lock' \in Publishers \cup {None},
           producer' \in {"none", "created", "started"},
           stopping' = stopping, asserted' \in BOOLEAN,
           \/ place = "starting" /\ lock = None /\ lock' = t
           \/ place # "starting" /\ pc[t] = "starting" /\ lock' = None
           \/ place # "starting" /\ pc[t] # "starting" /\ lock' = lock
    PROVE  Inv'
  <1>1. TypeOK'
    BY DEF Inv, TypeOK, Goto
  <1>2. At("starting") = IF lock = None THEN {} ELSE {lock}
    BY DEF Inv, OneStart
  <1>3. \A u \in Publishers : pc'[u] = IF u = t THEN place ELSE pc[u]
    BY DEF Inv, TypeOK, Goto
  <1>4. \A u \in Publishers : pc[u] = "starting" <=> (lock # None /\ u = lock)
    BY <1>2 DEF At
  <1>5. \A u \in Publishers : pc'[u] = "starting" <=> (lock' # None /\ u = lock')
    BY <1>3, <1>4, EventBusConfig
  <1>6. OneStart'
    BY <1>1, <1>5 DEF OneStart, At, TypeOK
  <1> QED
    BY <1>1, <1>6 DEF Inv

LEMMA AcquireInv ==
    ASSUME Inv, NEW t \in Publishers, pc[t] # "starting", Acquire(t),
           UNCHANGED <<stopping, asserted>>
    PROVE  Inv'
  <1>0. TypeOK
    BY DEF Inv
  <1>1. CASE producer = "none"
    <2>1. producer' = "created" /\ lock = None /\ lock' = t /\ Goto(t, "starting")
      BY <1>1 DEF Acquire
    <2> QED BY <1>0, <2>1, PublisherMoves DEF TypeOK
  <1>2. CASE producer # "none"
    <2>1. CallSend(t) /\ UNCHANGED <<producer, lock>>
      BY <1>2 DEF Acquire
    <2>2. PICK place \in {"sending", "stuck"} : Goto(t, place)
      BY <2>1 DEF CallSend
    <2> QED BY <1>0, <2>1, <2>2, PublisherMoves DEF TypeOK
  <1> QED BY <1>1, <1>2

LEMMA NextInv == Inv /\ [Next]_vars => Inv'
  <1> SUFFICES ASSUME Inv, [Next]_vars PROVE Inv'
    OBVIOUS
  <1>0. TypeOK
    BY DEF Inv
  <1>1. ASSUME NEW t \in Publishers, Publish(t) PROVE Inv'
    <2>1. CASE At("locking") = {} /\ Acquire(t)
      BY <1>1, <2>1, AcquireInv DEF Publish
    <2>2. CASE Goto(t, "locking") /\ UNCHANGED <<producer, lock>>
      BY <1>0, <1>1, <2>2, PublisherMoves DEF Publish, TypeOK
    <2> QED BY <1>1, <2>1, <2>2 DEF Publish
  <1>2. ASSUME NEW t \in Publishers, GetLock(t) PROVE Inv'
    BY <1>2, AcquireInv DEF GetLock
  <1>3. ASSUME NEW t \in Publishers, StartOk(t) PROVE Inv'
    <2>1. PICK place \in {"idle", "sending"} : Goto(t, place)
      BY <1>3 DEF StartOk
    <2>2. /\ pc[t] = "starting" /\ lock' = None /\ stopping' = stopping
          /\ producer' \in {"none", "created", "started"} /\ asserted' \in BOOLEAN
      BY <1>0, <1>3 DEF StartOk, TypeOK
    <2> QED BY <2>1, <2>2, PublisherMoves
  <1>4. ASSUME NEW t \in Publishers, StartFails(t) PROVE Inv'
    BY <1>0, <1>4, PublisherMoves DEF StartFails, Released, TypeOK
  <1>5. ASSUME NEW t \in Publishers, SendEnds(t) \/ GivesUp(t) PROVE Inv'
    BY <1>0, <1>5, PublisherMoves DEF SendEnds, GivesUp, TypeOK
  <1>6. ASSUME NEW s \in Stoppers, BeginStop(s) \/ EndStop(s) PROVE Inv'
    BY <1>0, <1>6 DEF BeginStop, EndStop, Inv, TypeOK, OneStart, At
  <1>7. CASE UNCHANGED vars
    BY <1>7 DEF vars, Inv, TypeOK, OneStart, At
  <1> QED
    BY <1>1, <1>2, <1>3, <1>4, <1>5, <1>6, <1>7 DEF Next, Proceed

(***************************************************************************)
(* EventBusProvider._ensure_started: no two producers are started at the   *)
(* same time, although stop() ignores the lock.                            *)
(***************************************************************************)
THEOREM StartsExcludeEachOther == Spec => [](TypeOK /\ OneStart)
  <1>1. Init => Inv
    BY DEF Init, Inv, TypeOK, OneStart, At
  <1> QED
    BY <1>1, NextInv, PTL DEF Spec, Inv
=============================================================================
