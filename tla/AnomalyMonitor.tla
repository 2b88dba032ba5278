--------------------------- MODULE AnomalyMonitor ---------------------------
(***************************************************************************)
(* KeyUsageAnomalyMonitor of marty_common/security/key_anomaly_detector.py *)
(* watching one key.  Threads record usage events; the collector's lock is *)
(* held while every registered listener handles the event at once          *)
(* (_process_real_time_event).  A monitor thread analyses the last day     *)
(* from time to time.  Neither takes the monitor's lock for reading the    *)
(* alerts.                                                                 *)
(*                                                                         *)
(* What an event is like (operation, network, hour of the day) is its      *)
(* kind: "plain", "failed", or "forbidden", which stands for each of the   *)
(* four immediate concerns (expired or revoked key, user or operation not  *)
(* allowed) with its alert type.  The frequency and volume statistics are  *)
(* any outcome.                                                            *)
(***************************************************************************)
EXTENDS Integers, Sequences, FiniteSets, FiniteSetsExt

CONSTANTS
    Recorders,
    Hour, Day,      \* in ticks of the clock
    Learning,       \* learning_window_days
    MinEvents,      \* min_events_for_detection
    MaxEvents,      \* bound on recorded events
    MaxStarts,      \* bound on start_monitoring
    MaxTime         \* bound on the clock

VARIABLES
    clock,
    watched,    \* the key is in monitor.keys
    events,     \* collector.events
    holder,     \* collector._lock: the thread that holds it, or "none"
    listeners,  \* collector.event_listeners: registrations of the monitor
    recording,  \* add_event in each recorder
    monitor,    \* the monitor thread
    alerts,     \* self.alerts, as far as anything looks at them: alerts of the
                \* immediate type with their time, and deviations
    immediate   \* history: immediate alerts stored at each time

vars == <<clock, watched, events, holder, listeners, recording, monitor, alerts, immediate>>

Kinds == {"plain", "forbidden", "failed"}
Event == [kind : Kinds, at : 0 .. MaxTime]
Deviations == {"TIME_ANOMALY", "LOCATION_ANOMALY", "PATTERN_DEVIATION"}
Immediate == "OPERATION_ANOMALY"
AnomalyType ==
    Deviations \cup {Immediate, "FAILED_OPERATIONS", "UNUSUAL_FREQUENCY", "VOLUME_SPIKE"}

NotRecording == [pc |-> "idle", event |-> [kind |-> "plain", at |-> 0], left |-> 0]
Stopped == [pc |-> "stopped", now |-> 0, recent |-> <<>>, pattern |-> {}, todo |-> {}]

TypeOK ==
    /\ clock \in 0 .. MaxTime
    /\ watched \in BOOLEAN
    /\ Len(events) <= MaxEvents /\ Range(events) \subseteq Event
    /\ holder \in Recorders \cup {"none"}
    /\ listeners \in 0 .. MaxStarts
    /\ monitor.pc \in {"stopped", "waiting", "recent", "learn", "detect", "raise"}
    /\ alerts \subseteq [type : AnomalyType, at : 0 .. MaxTime]

Init ==
    /\ clock = 0
    /\ watched = FALSE
    /\ events = <<>>
    /\ holder = "none"
    /\ listeners = 0
    /\ recording = [r \in Recorders |-> NotRecording]
    /\ monitor = Stopped
    /\ alerts = {}
    /\ immediate = [n \in 0 .. MaxTime |-> 0]

-----------------------------------------------------------------------------
(* add_event and the listeners                                             *)

AddKey ==
    /\ watched' = TRUE
    /\ UNCHANGED <<clock, events, holder, listeners, recording, monitor, alerts, immediate>>

RemoveKey ==
    /\ watched' = FALSE
    /\ UNCHANGED <<clock, events, holder, listeners, recording, monitor, alerts, immediate>>

\* Mutant: listeners run without the collector's lock.
LockFree_Unlocked == TRUE

LockFree == holder = "none"

AddEvent(r, kind) ==
    /\ recording[r].pc = "idle"
    /\ LockFree
    /\ Len(events) < MaxEvents
    /\ LET e == [kind |-> kind, at |-> clock] IN
        /\ events' = Append(events, e)
        /\ recording' = [recording EXCEPT ![r] =
                [pc |-> "notify", event |-> e, left |-> listeners]]
    /\ holder' = r
    /\ UNCHANGED <<clock, watched, listeners, monitor, alerts, immediate>>

\* timedelta.seconds drops whole days: an alert of the same hour of an
\* earlier day counts as recent, too.
RecentAlert == \E a \in alerts : a.type = Immediate /\ (clock - a.at) % Day < Hour

\* _process_real_time_event up to the look at recent alerts.
Alarming(kind) == watched /\ kind = "forbidden" /\ ~RecentAlert

NextListener(r) ==
    /\ recording[r].pc = "notify" /\ recording[r].left > 0
    /\ recording' = [recording EXCEPT ![r].left = @ - 1,
            ![r].pc = IF Alarming(recording[r].event.kind) THEN "alert" ELSE "notify"]
    /\ UNCHANGED <<clock, watched, events, holder, listeners, monitor, alerts, immediate>>

\* _create_immediate_alert stores the alert and calls back.
StoreImmediateAlert(r) ==
    /\ recording[r].pc = "alert"
    /\ alerts' = alerts \cup {[type |-> Immediate, at |-> clock]}
    /\ immediate' = [immediate EXCEPT ![clock] = @ + 1]
    /\ recording' = [recording EXCEPT ![r].pc = "notify"]
    /\ UNCHANGED <<clock, watched, events, holder, listeners, monitor>>

Release(r) ==
    /\ recording[r].pc = "notify" /\ recording[r].left = 0
    /\ recording' = [recording EXCEPT ![r] = NotRecording]
    /\ holder' = "none"
    /\ UNCHANGED <<clock, watched, events, listeners, monitor, alerts, immediate>>

-----------------------------------------------------------------------------
(* The monitor thread                                                      *)

\* start_monitoring registers the listener again at every start.
StartMonitoring ==
    /\ monitor.pc = "stopped"
    /\ listeners < MaxStarts
    /\ listeners' = listeners + 1
    /\ monitor' = [Stopped EXCEPT !.pc = "waiting"]
    /\ UNCHANGED <<clock, watched, events, holder, recording, alerts, immediate>>

\* stop_monitoring, joined between two rounds of the loop.
StopMonitoring ==
    /\ monitor.pc = "waiting"
    /\ monitor' = Stopped
    /\ UNCHANGED <<clock, watched, events, holder, listeners, recording, alerts, immediate>>

StartAnalysis ==
    /\ monitor.pc = "waiting" /\ watched
    /\ monitor' = [monitor EXCEPT !.pc = "recent", !.now = clock]
    /\ UNCHANGED <<clock, watched, events, holder, listeners, recording, alerts, immediate>>

\* get_events_for_key
Between(first, last) == SelectSeq(events, LAMBDA e : e.at >= first /\ e.at <= last)

FetchRecent ==
    /\ monitor.pc = "recent" /\ LockFree
    /\ LET found == Between(monitor.now - Day, monitor.now) IN
       monitor' = IF found = <<>> THEN [Stopped EXCEPT !.pc = "waiting"]
                  ELSE [monitor EXCEPT !.pc = "learn", !.recent = found]
    /\ UNCHANGED <<clock, watched, events, holder, listeners, recording, alerts, immediate>>

KindsOf(s) == {s[i].kind : i \in DOMAIN s}

\* update_pattern: the kinds in the history become the usual ones; the window ends now, so it
\* includes the analysed day.
Learn ==
    /\ monitor.pc = "learn" /\ LockFree
    /\ monitor' = [monitor EXCEPT !.pc = "detect",
            !.pattern = KindsOf(Between(monitor.now - Learning, monitor.now))]
    /\ UNCHANGED <<clock, watched, events, holder, listeners, recording, alerts, immediate>>

Count(s, Test(_)) == Cardinality({i \in DOMAIN s : Test(s[i].kind)})

Unusual(recent, pattern) == Count(recent, LAMBDA k : k \notin pattern)
When(condition, type) == IF condition THEN {type} ELSE {}

\* Detectors that compare the analysed events with the learned pattern.
detect_time_anomalies(recent, pattern) ==
    When(Unusual(recent, pattern) * 10 > Len(recent) * 3, "TIME_ANOMALY")
detect_ip_anomalies(recent, pattern) ==
    When(Unusual(recent, pattern) * 10 > Len(recent) * 2, "LOCATION_ANOMALY")
detect_pattern_deviation(recent, pattern) ==
    When(Unusual(recent, pattern) * 10 > Len(recent) * 5, "PATTERN_DEVIATION")

\* Statistics over days and hours: any outcome, once there is a pattern.
detect_frequency_anomalies == {{}, {"UNUSUAL_FREQUENCY"}}
detect_volume_spikes == {{}, {"VOLUME_SPIKE"}}

\* Detectors that look at the events and at the key's own settings.
detect_failure_anomalies(recent) ==
    When(Count(recent, LAMBDA k : k = "failed") * 10 > Len(recent), "FAILED_OPERATIONS")
Forbidden(recent) == watched /\ Count(recent, LAMBDA k : k = "forbidden") > 0
detect_operation_anomalies(recent) == When(Forbidden(recent), Immediate)
detect_user_anomalies(recent) == When(Forbidden(recent), Immediate)
detect_expired_key_usage(recent) == When(Forbidden(recent), Immediate)

Detected(recent, pattern, f, v) ==
    UNION {detect_operation_anomalies(recent), detect_user_anomalies(recent),
           detect_failure_anomalies(recent), detect_expired_key_usage(recent)}
    \cup IF pattern = {} THEN {}
         ELSE UNION {detect_time_anomalies(recent, pattern), detect_ip_anomalies(recent, pattern),
                     detect_pattern_deviation(recent, pattern), f, v}

\* detect_anomalies
Detect ==
    /\ monitor.pc = "detect"
    /\ \E f \in detect_frequency_anomalies, v \in detect_volume_spikes :
         monitor' = [Stopped EXCEPT !.pc = "raise",
            !.todo = IF Len(monitor.recent) < MinEvents THEN {}
                     ELSE Detected(monitor.recent, monitor.pattern, f, v)]
    /\ UNCHANGED <<clock, watched, events, holder, listeners, recording, alerts, immediate>>

\* The alert's id holds the time in seconds, so only the same second is a
\* duplicate.  Then the loop waits for the next round.
Raise ==
    /\ monitor.pc = "raise"
    /\ alerts' = alerts \cup
         {[type |-> t, at |-> clock] : t \in monitor.todo \cap (Deviations \cup {Immediate})}
    /\ monitor' = [Stopped EXCEPT !.pc = "waiting"]
    /\ UNCHANGED <<clock, watched, events, holder, listeners, recording, immediate>>

-----------------------------------------------------------------------------
\* Handling an event is short against an hour.
Tick ==
    /\ clock < MaxTime
    /\ holder = "none"
    /\ clock' = clock + 1
    /\ UNCHANGED <<watched, events, holder, listeners, recording, monitor, alerts, immediate>>

Notify(r) ==
    NextListener(r) \/ StoreImmediateAlert(r) \/ Release(r)

Analyse == FetchRecent \/ Learn \/ Detect \/ Raise

Next ==
    \/ AddKey \/ RemoveKey \/ StartMonitoring \/ StopMonitoring
    \/ StartAnalysis \/ Analyse \/ Tick
    \/ \E r \in Recorders : Notify(r) \/ \E kind \in Kinds : AddEvent(r, kind)

Spec == Init /\ [][Next]_vars

-----------------------------------------------------------------------------
(***************************************************************************)
(* "Don't spam alerts": of one type, at most one immediate alert is stored *)
(* per hour, also with listeners registered twice and events recorded by   *)
(* several threads at once: the collector's lock covers look and store.    *)
(***************************************************************************)
NoSpam == \A n \in 0 .. MaxTime - Hour + 1 :
    MapThenSumSet(LAMBDA m : immediate[m], n .. n + Hour - 1) <= 1
=============================================================================
