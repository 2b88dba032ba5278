--------------------------- MODULE SecurityMonitor --------------------------
(***************************************************************************)
(* SecurityMonitor of marty_common/security/incident_monitor.py: threads   *)
(* evaluate audit events against rules under one threading.Lock, record    *)
(* incidents under the same lock and hand alerts to an executor.  The lock *)
(* is not re-entrant: a thread that asks for it again waits for itself.    *)
(* A rule's condition and its cooldown are abstracted to whether the rule  *)
(* fires for the event; incident fields other than the rule and the status *)
(* are left out.                                                           *)
(***************************************************************************)
EXTENDS Integers, FiniteSets

CONSTANTS
    Threads,    \* threads that call the monitor
    Rules,      \* rule ids
    None        \* nobody, no rule

VARIABLES
    lock,       \* holder of self._lock
    rules,      \* self.rules
    pc,         \* where each thread is
    todo,       \* rules the loop of evaluate_event has still to look at
    firing,     \* the rule _create_incident was called for
    triggered,  \* triggered_incidents of each call
    incidents,  \* self.incidents: rule -> status, "none" when absent
    alerted     \* incidents handed to the executor

vars == <<lock, rules, pc, todo, firing, triggered, incidents, alerted>>

Statuses == {"OPEN", "RESOLVED"}

TypeOK ==
    /\ lock \in Threads \cup {None}
    /\ rules \subseteq Rules
    /\ pc \in [Threads -> {"idle", "loop", "create", "alert"}]
    /\ todo \in [Threads -> SUBSET Rules]
    /\ firing \in [Threads -> Rules \cup {None}]
    /\ triggered \in [Threads -> SUBSET Rules]
    /\ incidents \in [Rules -> Statuses \cup {"none"}]
    /\ alerted \subseteq Rules

Init ==
    /\ lock = None
    /\ rules = Rules
    /\ pc = [t \in Threads |-> "idle"]
    /\ todo = [t \in Threads |-> {}]
    /\ firing = [t \in Threads |-> None]
    /\ triggered = [t \in Threads |-> {}]
    /\ incidents = [r \in Rules |-> "none"]
    /\ alerted = {}

-----------------------------------------------------------------------------
(* evaluate_event                                                          *)

\* An event arrives; the lock is taken and held for the whole loop.
Evaluate(t) ==
    /\ pc[t] = "idle"
    /\ lock = None
    /\ lock' = t
    /\ pc' = [pc EXCEPT ![t] = "loop"]
    /\ todo' = [todo EXCEPT ![t] = rules]
    /\ triggered' = [triggered EXCEPT ![t] = {}]
    /\ UNCHANGED <<rules, firing, incidents, alerted>>

\* The rule is cooling down, does not match, or its condition raises.
SkipRule(t, r) ==
    /\ pc[t] = "loop"
    /\ r \in todo[t]
    /\ todo' = [todo EXCEPT ![t] = @ \ {r}]
    /\ UNCHANGED <<lock, rules, pc, firing, triggered, incidents, alerted>>

\* The rule matches: _create_incident is called, with the lock held.
FireRule(t, r) ==
    /\ pc[t] = "loop"
    /\ r \in todo[t]
    /\ todo' = [todo EXCEPT ![t] = @ \ {r}]
    /\ firing' = [firing EXCEPT ![t] = r]
    /\ pc' = [pc EXCEPT ![t] = "create"]
    /\ UNCHANGED <<lock, rules, triggered, incidents, alerted>>

\* _create_incident takes the lock itself, records the incident and gives
\* the lock back; the loop goes on.
CreateIncident(t) ==
    /\ pc[t] = "create"
    /\ lock = None
    /\ incidents' = [incidents EXCEPT ![firing[t]] = "OPEN"]
    /\ triggered' = [triggered EXCEPT ![t] = @ \cup {firing[t]}]
    /\ firing' = [firing EXCEPT ![t] = None]
    /\ pc' = [pc EXCEPT ![t] = "loop"]
    /\ UNCHANGED <<lock, rules, todo, alerted>>

\* The loop ends and the lock is released.
EndLoop(t) ==
    /\ pc[t] = "loop"
    /\ todo[t] = {}
    /\ lock' = None
    /\ pc' = [pc EXCEPT ![t] = "alert"]
    /\ UNCHANGED <<rules, todo, firing, triggered, incidents, alerted>>

\* "Send alerts for new incidents".
SendAlerts(t) ==
    /\ pc[t] = "alert"
    /\ alerted' = alerted \cup triggered[t]
    /\ pc' = [pc EXCEPT ![t] = "idle"]
    /\ UNCHANGED <<lock, rules, todo, firing, triggered, incidents>>

-----------------------------------------------------------------------------
(* The other methods hold the lock from their first to their last line.    *)

ChangeRules(t, r) ==
    /\ pc[t] = "idle"
    /\ lock = None
    /\ rules' \in {rules \cup {r}, rules \ {r}}
    /\ UNCHANGED <<lock, pc, todo, firing, triggered, incidents, alerted>>

UpdateIncidentStatus(t, r, s) ==
    /\ pc[t] = "idle"
    /\ lock = None
    /\ incidents[r] # "none"
    /\ incidents' = [incidents EXCEPT ![r] = s]
    /\ UNCHANGED <<lock, rules, pc, todo, firing, triggered, alerted>>

-----------------------------------------------------------------------------
EvaluateStep(t) ==
    \/ \E r \in Rules : SkipRule(t, r) \/ FireRule(t, r)
    \/ CreateIncident(t) \/ EndLoop(t) \/ SendAlerts(t)

Next ==
    \E t \in Threads :
        \/ Evaluate(t) \/ EvaluateStep(t)
        \/ \E r \in Rules : ChangeRules(t, r)
        \/ \E r \in Rules, s \in Statuses : UpdateIncidentStatus(t, r, s)

Spec == Init /\ [][Next]_vars

\* Threads inside evaluate_event are scheduled.
FairSpec == Spec /\ \A t \in Threads : WF_vars(EvaluateStep(t))

(***************************************************************************)
(* evaluate_event: "Send alerts for new incidents".  A rule that fires     *)
(* leads to its alerts.                                                    *)
(***************************************************************************)
FiringIsAlerted ==
    \A t \in Threads, r \in Rules : firing[t] = r ~> r \in alerted
=============================================================================
