------------------------- MODULE BreakerCallsProofs -------------------------
(***************************************************************************)
(* The invariants of BreakerCalls for any number of callers and any        *)
(* configuration of the breaker.  The inductive invariant adds to the two  *)
(* properties the sets of callers, whose cardinalities the steps change by *)
(* one.                                                                    *)
(***************************************************************************)
EXTENDS BreakerCalls, FiniteSetTheorems

Inv == TypeOK /\ CountersMatchState /\ OvershootBounded /\ SlotsAccountedFor

-----------------------------------------------------------------------------
(* The sets of callers                                                     *)

\* The sets are finite and no larger than Callers.
LEMMA CallerSets ==
    /\ IsFiniteSet(Running) /\ IsFiniteSet(Admitted)
    /\ Cardinality(Running) \in Nat /\ Cardinality(Admitted) \in Nat
    /\ Cardinality(Admitted) <= Cardinality(Callers)
    /\ Cardinality(Callers) \in Nat \ {0}
  <1>1. Running \in SUBSET Callers /\ Admitted \in SUBSET Callers
    BY DEF Running, Admitted
  <1>2. IsFiniteSet(Callers) /\ Callers # {}
    BY CallersAssumption
  <1>3. Cardinality(Callers) \in Nat \ {0}
    BY <1>2, FS_CardinalityType, FS_EmptySet
  <1> QED
    BY <1>1, <1>2, <1>3, FS_Subset, FS_CardinalityType

\* The same, one step later.
LEMMA CallerSetsPrimed ==
    /\ Cardinality(Running)' \in Nat /\ Cardinality(Admitted)' \in Nat
    /\ Cardinality(Admitted)' <= Cardinality(Callers)
  <1>1. Running' \in SUBSET Callers /\ Admitted' \in SUBSET Callers
    BY DEF Running, Admitted
  <1>2. IsFiniteSet(Callers)
    BY CallersAssumption
  <1> QED
    BY <1>1, <1>2, FS_Subset, FS_CardinalityType

\* A caller that is admitted joins the admitted ones.
LEMMA GotoAdmitted ==
    ASSUME TypeOK, NEW c \in Callers, Goto(c, "idle", "admitted")
    PROVE  Running' = Running
  BY DEF TypeOK, Goto, Running

\* A caller that is counted in moves from the admitted to the running ones.
LEMMA GotoRunning ==
    ASSUME TypeOK, NEW c \in Callers, Goto(c, "admitted", "running")
    PROVE  /\ Cardinality(Admitted)' = Cardinality(Admitted) - 1
           /\ Cardinality(Running)' = Cardinality(Running) + 1
  <1>1. /\ c \in Admitted /\ Admitted' = Admitted \ {c}
        /\ c \notin Running /\ Running' = Running \cup {c}
    BY DEF TypeOK, Goto, Running, Admitted
  <1> QED
    BY <1>1, CallerSets, FS_AddElement, FS_RemoveElement

\* A caller whose call ends leaves the running ones.
LEMMA GotoIdle ==
    ASSUME TypeOK, NEW c \in Callers, Goto(c, "running", "idle")
    PROVE  /\ Admitted' = Admitted
           /\ Cardinality(Running)' = Cardinality(Running) - 1
           /\ Cardinality(Running) >= 1
  <1>1. c \in Running /\ Running' = Running \ {c} /\ Admitted' = Admitted
    BY DEF TypeOK, Goto, Running, Admitted
  <1>2. Cardinality(Running)' = Cardinality(Running) - 1
    BY <1>1, CallerSets, FS_RemoveElement
  <1> QED
    BY <1>1, <1>2, CallerSets, CallerSetsPrimed

-----------------------------------------------------------------------------
(* The inductive invariant                                                 *)

LEMMA InitInv == Init => Inv
  <1> SUFFICES ASSUME Init PROVE Inv
    OBVIOUS
  <1>1. BreakerInv
    BY InitKeepsBreakerInv DEF Init
  <1>2. TypeOK
    BY <1>1 DEF Init, TypeOK, BreakerInv
  <1>3. Running = {} /\ Admitted = {}
    BY DEF Init, Running, Admitted
  <1>4. OvershootBounded /\ SlotsAccountedFor
    BY <1>3, CallerSets, FS_EmptySet, BreakerConfig
    DEF Init, BreakerInit, OvershootBounded, SlotsAccountedFor
  <1> QED
    BY <1>1, <1>2, <1>4 DEF Inv, BreakerInv

LEMMA NextInv == Inv /\ [Next]_vars => Inv'
  <1> SUFFICES ASSUME Inv, [Next]_vars PROVE Inv'
    OBVIOUS
  <1> USE CallerSets, CallerSetsPrimed, BreakerConfig
  <1>0. TypeOK /\ BreakerInv /\ OvershootBounded /\ SlotsAccountedFor
    BY DEF Inv, BreakerInv, TypeOK
  <1>1. ASSUME NEW c \in Callers, Admit(c) PROVE Inv'
    <2>1. BreakerInv'
      BY <1>0, <1>1, AllowKeepsBreakerInv DEF Admit
    <2>2. TypeOK'
      BY <1>0, <1>1, <2>1 DEF Admit, Goto, TypeOK, BreakerInv
    <2>3. Running' = Running
      BY <1>0, <1>1, GotoAdmitted DEF Admit
    <2>4. OvershootBounded'
      BY <1>0, <1>1, <2>2
      DEF Admit, Granted, CanMakeRequest, AllowRequest, OvershootBounded,
          TypeOK, BreakerTypeOK
    <2>5. SlotsAccountedFor'
      BY <1>0, <1>1, <2>3 DEF Admit, AllowRequest, SlotsAccountedFor
    <2> QED BY <2>1, <2>2, <2>4, <2>5 DEF Inv, BreakerInv
  <1>2. ASSUME NEW c \in Callers, Reject(c) PROVE Inv'
    <2>1. BreakerInv'
      BY <1>0, <1>2, AllowKeepsBreakerInv DEF Reject
    <2>2. TypeOK'
      BY <1>0, <1>2, <2>1 DEF Reject, TypeOK, BreakerInv
    <2>3. OvershootBounded' /\ SlotsAccountedFor'
      BY <1>0, <1>2
      DEF Reject, AllowRequest, OvershootBounded, SlotsAccountedFor,
          Running, Admitted
    <2> QED BY <2>1, <2>2, <2>3 DEF Inv, BreakerInv
  <1>3. ASSUME NEW c \in Callers, Enter(c) PROVE Inv'
    <2>1. TypeOK' /\ CountersMatchState'
      BY <1>0, <1>3
      DEF Enter, Goto, TypeOK, BreakerInv, BreakerTypeOK, CountersMatchState
    <2>2. /\ Cardinality(Admitted)' = Cardinality(Admitted) - 1
          /\ Cardinality(Running)' = Cardinality(Running) + 1
      BY <1>0, <1>3, GotoRunning DEF Enter
    <2>3. OvershootBounded' /\ SlotsAccountedFor'
      BY <1>0, <1>3, <2>2
      DEF Enter, OvershootBounded, SlotsAccountedFor, TypeOK, BreakerTypeOK
    <2> QED BY <2>1, <2>3 DEF Inv
  <1>4. ASSUME NEW c \in Callers, Returns(c) PROVE Inv'
    <2>1. BreakerInv'
      BY <1>0, <1>4, SuccessKeepsBreakerInv, FailureKeepsBreakerInv,
         IgnoredKeepsBreakerInv
      DEF Returns, Succeed, Fail, ClientError
    <2>2. Goto(c, "running", "idle") /\ UNCHANGED <<healthy, leaked>> /\ ReleaseSlot
      BY <1>4
      DEF Returns, Succeed, Fail, ClientError, RecordSuccess, RecordFailure,
          RecordIgnoredFailure
    <2>3. TypeOK'
      BY <1>0, <2>1, <2>2 DEF Goto, TypeOK, BreakerInv
    <2>4. /\ Admitted' = Admitted
          /\ Cardinality(Running)' = Cardinality(Running) - 1
          /\ Cardinality(Running) >= 1
      BY <1>0, <2>2, GotoIdle
    <2>5. OvershootBounded' /\ SlotsAccountedFor'
      BY <1>0, <2>2, <2>4
      DEF ReleaseSlot, OvershootBounded, SlotsAccountedFor, TypeOK, BreakerTypeOK
    <2> QED BY <2>1, <2>3, <2>5 DEF Inv, BreakerInv
  <1>5. ASSUME NEW c \in Callers, Cancel(c) PROVE Inv'
    <2>1. TypeOK' /\ CountersMatchState'
      BY <1>0, <1>5
      DEF Cancel, Goto, TypeOK, BreakerInv, BreakerTypeOK, CountersMatchState,
          breakerVars
    <2>2. /\ Admitted' = Admitted
          /\ Cardinality(Running)' = Cardinality(Running) - 1
      BY <1>0, <1>5, GotoIdle DEF Cancel
    <2>3. OvershootBounded' /\ SlotsAccountedFor'
      BY <1>0, <1>5, <2>2
      DEF Cancel, breakerVars, OvershootBounded, SlotsAccountedFor, TypeOK,
          BreakerTypeOK
    <2> QED BY <2>1, <2>3 DEF Inv
  <1>6. CASE Reset
    <2>1. BreakerInv'
      BY <1>0, <1>6, ResetKeepsBreakerInv DEF Reset
    <2>2. TypeOK'
      BY <1>0, <1>6, <2>1 DEF Reset, TypeOK, BreakerInv
    <2>3. OvershootBounded' /\ SlotsAccountedFor'
      BY <1>0, <1>6
      DEF Reset, ResetBreaker, OvershootBounded, SlotsAccountedFor, TypeOK,
          BreakerTypeOK, Running, Admitted
    <2> QED BY <2>1, <2>2, <2>3 DEF Inv, BreakerInv
  <1>7. CASE Tick
    <2>1. BreakerInv'
      BY <1>0, <1>7, TimeKeepsBreakerInv DEF Tick
    <2>2. TypeOK'
      BY <1>0, <1>7, <2>1 DEF Tick, TypeOK, BreakerInv
    <2>3. OvershootBounded' /\ SlotsAccountedFor'
      BY <1>0, <1>7
      DEF Tick, PassTime, OvershootBounded, SlotsAccountedFor, Running, Admitted
    <2> QED BY <2>1, <2>2, <2>3 DEF Inv, BreakerInv
  <1>8. CASE DependencyChanges \/ UNCHANGED vars
    BY <1>0, <1>8
    DEF DependencyChanges, vars, breakerVars, Inv, TypeOK, BreakerInv,
        BreakerTypeOK, CountersMatchState, OvershootBounded, SlotsAccountedFor,
        Running, Admitted
  <1> QED
    BY <1>1, <1>2, <1>3, <1>4, <1>5, <1>6, <1>7, <1>8 DEF Next

LEMMA Invariance == Spec => []Inv
  BY InitInv, NextInv, PTL DEF Spec

\* The wrappers of circuit_breaker.py keep the breaker well-typed; above all the
\* slot counter, which three lock blocks change, never becomes negative.
THEOREM BreakerTypes == Spec => []TypeOK
  <1>1. Inv => TypeOK
    BY DEF Inv
  <1> QED BY <1>1, Invariance, PTL

\* The counters agree with the state for any number of callers, however late
\* the results of earlier requests arrive and whenever reset() is called.
THEOREM CountersFollowState == Spec => []CountersMatchState
  <1>1. Inv => CountersMatchState
    BY DEF Inv
  <1> QED BY <1>1, Invariance, PTL

\* Testing the limit and taking the slot in two lock blocks overshoots the limit
\* by less than the number of callers.
THEOREM OvershootIsBounded == Spec => []OvershootBounded
  <1>1. Inv => OvershootBounded
    BY DEF Inv
  <1> QED BY <1>1, Invariance, PTL

\* No path through the wrappers but cancellation loses a slot.
THEOREM BreakerSafety == Spec => []SlotsAccountedFor
  <1>1. Inv => SlotsAccountedFor
    BY DEF Inv
  <1> QED BY <1>1, Invariance, PTL

-----------------------------------------------------------------------------
(* What an open breaker does                                               *)

\* No step taken while the breaker stays open moves its opening instant.
LEMMA StepKeepsOutage ==
    Inv /\ [Next]_vars => (state = "OPEN" /\ state' = "OPEN" => openedAge' >= openedAge)
  <1> SUFFICES ASSUME Inv, [Next]_vars, state = "OPEN", state' = "OPEN"
               PROVE  openedAge' >= openedAge
    OBVIOUS
  <1>0. openedAge \in Nat
    BY BreakerConfig DEF Inv, TypeOK, BreakerTypeOK, OpenedLongAgo
  <1>1. CASE \E c \in Callers : Admit(c) \/ Reject(c) \/ Enter(c) \/ Cancel(c)
    BY <1>0, <1>1 DEF Admit, Reject, AllowRequest, Enter, Cancel, breakerVars
  <1>2. CASE \E c \in Callers : Returns(c)
    BY <1>0, <1>2
    DEF Returns, Succeed, Fail, ClientError, RecordSuccess, RecordFailure,
        RecordIgnoredFailure
  <1>3. CASE Tick
    BY <1>0, <1>3, BreakerConfig DEF Tick, PassTime
  <1>4. CASE Reset
    BY <1>4 DEF Reset, ResetBreaker
  <1>5. CASE DependencyChanges \/ UNCHANGED vars
    BY <1>0, <1>5 DEF DependencyChanges, vars, breakerVars
  <1> QED
    BY <1>1, <1>2, <1>3, <1>4, <1>5 DEF Next

\* Late failures of calls in flight never extend an outage, for any number of
\* callers: record_failure leaves _opened_at alone in the OPEN state.
THEOREM OutageIsNotExtended == Spec => OutageNotExtended
  BY InitInv, NextInv, StepKeepsOutage, PTL DEF Spec, OutageNotExtended

\* No step taken while the breaker stays open admits a caller.
LEMMA StepAdmitsNobody ==
    Inv /\ [Next]_vars =>
        (state = "OPEN" /\ state' = "OPEN" => Admitted' \subseteq Admitted)
  <1> SUFFICES ASSUME Inv, [Next]_vars, state = "OPEN", state' = "OPEN"
               PROVE  Admitted' \subseteq Admitted
    OBVIOUS
  <1>0. pc \in [Callers -> {"idle", "admitted", "running"}]
    BY DEF Inv, TypeOK
  <1>1. ASSUME NEW c \in Callers, Admit(c) PROVE FALSE
    BY <1>1 DEF Admit, Granted, AllowRequest
  <1>2. CASE \E c \in Callers : Enter(c) \/ Returns(c) \/ Cancel(c)
    BY <1>0, <1>2
    DEF Enter, Returns, Succeed, Fail, ClientError, Cancel, Goto, Admitted
  <1>3. CASE \/ \E c \in Callers : Reject(c)
             \/ Reset \/ Tick \/ DependencyChanges \/ UNCHANGED vars
    BY <1>3 DEF Reject, Reset, Tick, DependencyChanges, vars, Admitted
  <1> QED
    BY <1>1, <1>2, <1>3 DEF Next

\* An open breaker admits nobody before it goes half-open: only callers that
\* allow_request let through earlier still reach the dependency.
THEOREM OpenBreakerAdmitsNobody == Spec => OpenAdmitsNobody
  BY InitInv, NextInv, StepAdmitsNobody, PTL DEF Spec, OpenAdmitsNobody
=============================================================================
