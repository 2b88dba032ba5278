----------------------------- MODULE Degradation ----------------------------
(***************************************************************************)
(* marty_common/resilience/graceful_degradation.py: one feature of a       *)
(* GracefulDegradationManager with a cache, a backup service and a default *)
(* value as fallback providers, a FeatureToggle whose override an operator *)
(* sets at any time, and the health monitor that sets the level, beside an *)
(* operator who may set it too.                                            *)
(*                                                                         *)
(* A response is named by the context of the question it answers.          *)
(***************************************************************************)
EXTENDS Integers, Sequences

CONSTANTS
    Questions,  \* contexts in use, of those below
    Checks,     \* number of health checks
    TTL,        \* cache_ttl in ticks
    Loops,      \* bound: runs of start_monitoring at the same time
    MaxSets     \* bound: levels set by an operator

VARIABLES
    level,      \* current_level
    healthy,    \* feature_health[feature]
    cache,      \* CachedResponseProvider: response and age for each key
    backup,     \* BackupServiceProvider._available
    call,       \* execute_with_fallback
    enabled,    \* monitoring_enabled
    round,      \* the loop of each start_monitoring: checks done and passed
    up,         \* external: how many of the checked things are healthy
    sets        \* levels set by an operator so far

vars == <<level, healthy, cache, backup, call, enabled, round, up, sets>>

Levels == {"none", "minimal", "partial", "significant", "emergency"}

\* A context: the fields x and y of a dictionary, the text of a value as its characters.
Absent == [kind |-> "absent", text |-> <<>>]
Text(t) == [kind |-> "str", text |-> t]
Context(q) ==
    CASE q = "one" -> [x |-> Text(<<"1">>), y |-> Absent]
      [] q = "int" -> [x |-> [kind |-> "int", text |-> <<"1">>], y |-> Absent]
      [] q = "two" -> [x |-> Text(<<"1">>), y |-> Text(<<"2">>)]
      [] q = "joined" -> [x |-> Text(<<"1", "|", "y", ":", "2">>), y |-> Absent]
      \* the decorator's args and kwargs
      [] q \in {"call", "other_call"} ->
            [x |-> [kind |-> "tuple", text |-> <<>>], y |-> [kind |-> "dict", text |-> <<>>]]
Contexts == {"one", "int", "two", "joined", "call", "other_call"}

\* Every value is a string and no string contains a separator.
Plain(q) ==
    \A v \in {Context(q).x, Context(q).y} :
        v.kind = "absent" \/ (v.kind = "str" /\ Len(v.text) = 1)

\* _generate_cache_key: "x:1|y:2". Values that are not primitive leave no trace.
CacheKey(q) ==
    LET part(name, v) ==
            IF v.kind \in {"str", "int"} THEN <<name, ":">> \o v.text ELSE <<>>
        px == part("x", Context(q).x)
        py == part("y", Context(q).y)
    IN  IF px = <<>> \/ py = <<>> THEN px \o py ELSE px \o <<"|">> \o py
Keys == {CacheKey(q) : q \in Questions}
NoEntry == [value |-> "none", age |-> TTL]
NoCall == [pc |-> "idle", q |-> "none", answer |-> "none"]
Off == [done |-> 0, passed |-> 0, on |-> FALSE]
On == [Off EXCEPT !.on = TRUE]

TypeOK ==
    /\ level \in Levels
    /\ healthy \in BOOLEAN /\ backup \in BOOLEAN
    /\ cache \in [Keys -> [value : Questions \cup {"none"}, age : 0 .. TTL]]
    /\ call.pc \in {"idle", "primary", "cache", "backup", "default", "answered"}
    /\ enabled \in BOOLEAN
    /\ round \in [Loops -> [done : 0 .. Checks, passed : 0 .. Checks, on : BOOLEAN]]
    /\ up \in 0 .. Checks /\ sets \in 0 .. MaxSets

Init ==
    /\ level = "none"
    /\ healthy = TRUE
    /\ cache = [k \in Keys |-> NoEntry]
    /\ backup = TRUE
    /\ call = NoCall
    /\ enabled = FALSE
    /\ round = [l \in Loops |-> Off]
    /\ up = Checks /\ sets = 0

-----------------------------------------------------------------------------
(* execute_with_fallback                                                   *)

\* is_feature_enabled without explicit lists, and FeatureToggle.is_enabled
is_feature_enabled == level \in {"none", "minimal"}
is_enabled(override) ==
    override = "enabled" \/ (override = "default" /\ is_feature_enabled)

\* A caller that honours the toggle asks it first.
Begin(q, override) ==
    /\ call.pc = "idle"
    /\ is_enabled(override)
    /\ call' = [NoCall EXCEPT !.q = q,
                    !.pc = IF is_feature_enabled /\ healthy THEN "primary" ELSE "cache"]
    /\ UNCHANGED <<level, healthy, cache, backup, enabled, round, up, sets>>

\* The response is cached under the key of its context.
PrimarySucceeds ==
    /\ call.pc = "primary"
    /\ cache' = [cache EXCEPT ![CacheKey(call.q)] = [value |-> call.q, age |-> 0]]
    /\ call' = [call EXCEPT !.pc = "answered", !.answer = call.q]
    /\ UNCHANGED <<level, healthy, backup, enabled, round, up, sets>>

\* Timeout or exception
PrimaryFails ==
    /\ call.pc = "primary"
    /\ healthy' = FALSE
    /\ call' = [call EXCEPT !.pc = "cache"]
    /\ UNCHANGED <<level, cache, backup, enabled, round, up, sets>>

\* Mutant: is_available stands in for the test of the entry itself.
CachedFor_AnyFresh(q) ==
    IF \E k \in Keys : cache[k].age < TTL
    THEN cache[CHOOSE k \in Keys : cache[k].age < TTL].value ELSE "none"

\* get_fallback of the cache: nothing, if the entry has expired.
CachedFor(q) == IF cache[CacheKey(q)].age < TTL THEN cache[CacheKey(q)].value ELSE "none"

FromCache ==
    /\ call.pc = "cache"
    /\ call' = IF CachedFor(call.q) # "none"
               THEN [call EXCEPT !.pc = "answered", !.answer = CachedFor(call.q)]
               ELSE [call EXCEPT !.pc = "backup"]
    /\ UNCHANGED <<level, healthy, cache, backup, enabled, round, up, sets>>

\* The backup answers, or fails and is never asked again.
FromBackup ==
    /\ call.pc = "backup"
    /\ \/ backup /\ call' = [call EXCEPT !.pc = "answered", !.answer = call.q] /\ UNCHANGED backup
       \/ call' = [call EXCEPT !.pc = "default"] /\ backup' = FALSE
    /\ UNCHANGED <<level, healthy, cache, enabled, round, up, sets>>

\* The default value, or TransientError when none is configured.
FromDefault ==
    /\ call.pc = "default"
    /\ call' = [call EXCEPT !.pc = "answered", !.answer = "default"]
    /\ UNCHANGED <<level, healthy, cache, backup, enabled, round, up, sets>>

Return ==
    /\ call.pc = "answered"
    /\ call' = NoCall
    /\ UNCHANGED <<level, healthy, cache, backup, enabled, round, up, sets>>

SetFeatureHealth ==
    /\ healthy' \in BOOLEAN
    /\ UNCHANGED <<level, cache, backup, call, enabled, round, up, sets>>

-----------------------------------------------------------------------------
(* HealthBasedDegradationMonitor                                           *)

\* Nothing keeps a second loop from starting, and stop_monitoring waits for none:
\* each tests the flag between its rounds.
StartMonitoring(l) ==
    /\ ~round[l].on
    /\ enabled' = TRUE
    /\ round' = [round EXCEPT ![l] = On]
    /\ UNCHANGED <<level, healthy, cache, backup, call, up, sets>>

StopMonitoring ==
    /\ enabled' = FALSE
    /\ UNCHANGED <<level, healthy, cache, backup, call, round, up, sets>>

\* while self.monitoring_enabled
LoopEnds(l) ==
    /\ round[l] = On /\ ~enabled
    /\ round' = [round EXCEPT ![l] = Off]
    /\ UNCHANGED <<level, healthy, cache, backup, call, enabled, up, sets>>

\* The next of _perform_health_checks; one that raises has not passed.
Check(l) ==
    /\ round[l].on /\ round[l].done < Checks
    /\ round[l].done > 0 \/ enabled
    /\ round' = [round EXCEPT ![l].done = @ + 1,
                              ![l].passed = IF round[l].done < up THEN @ + 1 ELSE @]
    /\ UNCHANGED <<level, healthy, cache, backup, call, enabled, up, sets>>

Target(passed) ==
    CASE passed * 10 >= Checks * 9 -> "none"
      [] passed * 10 < Checks * 9 /\ passed * 10 >= Checks * 7 -> "minimal"
      [] passed * 10 < Checks * 7 /\ passed * 10 >= Checks * 5 -> "partial"
      [] passed * 10 < Checks * 5 /\ passed * 10 >= Checks * 3 -> "significant"
      [] OTHER -> "emergency"

\* Mutant: a recovered system is not taken back to normal.
Adjusted_OnlyWorse(target) == IF target \in {"none", "minimal"} THEN level ELSE target

\* The level becomes the target whenever they differ.
Adjusted(target) == target

Adjust(l) ==
    /\ round[l].on /\ round[l].done = Checks
    /\ level' = Adjusted(Target(round[l].passed))
    /\ round' = [round EXCEPT ![l] = On]
    /\ UNCHANGED <<healthy, cache, backup, call, enabled, up, sets>>

\* set_degradation_level, called by an operator
SetLevel(l) ==
    /\ sets < MaxSets
    /\ level' = l
    /\ sets' = sets + 1
    /\ UNCHANGED <<healthy, cache, backup, call, enabled, round, up>>

-----------------------------------------------------------------------------
Tick ==
    /\ cache' = [k \in Keys |->
            IF cache[k].age + 1 >= TTL THEN NoEntry ELSE [cache[k] EXCEPT !.age = @ + 1]]
    /\ UNCHANGED <<level, healthy, backup, call, enabled, round, up, sets>>

HealthChanges ==
    /\ up' \in 0 .. Checks
    /\ UNCHANGED <<level, healthy, cache, backup, call, enabled, round, sets>>

Answer == PrimarySucceeds \/ PrimaryFails \/ FromCache \/ FromBackup \/ FromDefault \/ Return

Serving ==
    Answer \/ SetFeatureHealth \/ Tick
    \/ \E q \in Questions, o \in {"default", "enabled", "disabled"} : Begin(q, o)

Monitoring(l) == Check(l) \/ Adjust(l) \/ LoopEnds(l)

Next ==
    \/ Serving \/ StopMonitoring \/ HealthChanges
    \/ \E l \in Loops : StartMonitoring(l) \/ Monitoring(l)
    \/ \E l \in Levels : SetLevel(l)

Spec == Init /\ [][Next]_vars
FairSpec == Spec /\ \A l \in Loops : WF_vars(Monitoring(l))

-----------------------------------------------------------------------------
(***************************************************************************)
(* A fallback is an answer to the same question, whatever other calls have *)
(* cached and whatever has expired, unless the two questions share a key;  *)
(* and two contexts of strings without separators never do.                *)
(***************************************************************************)
FallbackFits ==
    call.pc = "answered" =>
        \/ call.answer \in {call.q, "default"}
        \/ /\ CacheKey(call.answer) = CacheKey(call.q)
           /\ ~(Plain(call.answer) /\ Plain(call.q))

(***************************************************************************)
(* The level follows the health of the system down and up again: with the  *)
(* monitor running, once health stays as it is and nobody sets the level,  *)
(* it becomes the one for that health and stays, although a round may mix  *)
(* checks from before and after the last change, and a loop that was       *)
(* stopped may run beside a new one.                                       *)
(***************************************************************************)
LevelFollowsHealth ==
    <>[]enabled /\ <>[][UNCHANGED up]_vars => <>[](level = Target(up))
=============================================================================
