--------------------------- MODULE ProgressProofs ---------------------------
(***************************************************************************)
(* The safety properties of Progress, for all values of its constants. One *)
(* inductive invariant per component, each with the lemma that the         *)
(* component's steps keep it and the lemma that it says what the property  *)
(* says; a step of the composition is a step of one component at most, so  *)
(* the conjunction of them is inductive too.                               *)
(***************************************************************************)
EXTENDS Progress, Sequences, FiniteSetTheorems, SequenceTheorems

-----------------------------------------------------------------------------
(* ServiceHost: the server's state follows the main thread's.              *)

HostBefore == {"new", "constructed", "created", "armed"}
HostUp == {"started", "stopping", "stopped"}
HostDown == {"stopping", "stopped"}

\* A handler that ran was early, or the server is on its way down. MartyGrpcServer installs
\* its handlers last, so there the server is.
HostInv ==
    /\ Host!TypeOK
    /\ Host!PlaintextNeedsUnset
    /\ hostPc \in HostBefore => hostServer \in {"none", "created"} /\ ~hostRunning
    /\ hostPc \in {"started", "waiting"} => hostServer \in HostUp
    /\ hostRunning => hostServer \in HostUp
    /\ hostRequested => hostHandlers /\ (hostEarly \/ hostServer \in HostDown)
    /\ hostImpl = "marty" /\ hostHandlers => hostPc \notin HostBefore \union {"started"}
    /\ hostImpl = "marty" /\ hostRequested => hostServer \in HostDown

-----------------------------------------------------------------------------
(* ServiceMonitor: only the last generation of threads lives.              *)

MonJoined ==
    /\ Monitors!Live \subseteq {monStarted}
    /\ Monitors!LiveAlerting \subseteq {monStarted}
    /\ monStopping => ~monRunning
    /\ ~monRunning /\ ~monStopping => Monitors!Live = {} /\ Monitors!LiveAlerting = {}

MonInv == Monitors!TypeOK /\ (~monImpatient => MonJoined)

-----------------------------------------------------------------------------
(* Notifications: the sinks before the one at hand have an entry.          *)

NoteAt(c) ==
    /\ noteAt[c] \in 1 .. Len(noteSinks) + 1
    /\ notePc[c] = "idle" => noteAt[c] = 1
    /\ notePc[c] \in {"sending", "awaiting"} => noteAt[c] <= Len(noteSinks)
    /\ notePc[c] = "done" => noteAt[c] = Len(noteSinks) + 1
    /\ noteSmtp = c => notePc[c] = "sending"
    /\ \A i \in 1 .. noteAt[c] - 1 : noteResults[c][noteSinks[i]] # "absent"

NoteInv ==
    /\ Notify!TypeOK
    /\ noteSinks = Notify!Initialised(noteConfig)
    /\ \A c \in NoteCalls : NoteAt(c)

-----------------------------------------------------------------------------
(* Degradation: an entry of the cache answers a question with its key.     *)

DegCalls(questions) ==
    [pc : {"idle", "primary", "cache", "backup", "default", "answered"},
     q : questions \union {"none"}, answer : questions \union {"none", "default"}]
DegEntries(questions) == [value : questions \union {"none"}, age : 0 .. DegTTL]
DegRounds(checks) ==
    {r \in [done : 0 .. checks, passed : 0 .. checks, on : BOOLEAN] : r.passed <= r.done}

DegCacheOK ==
    /\ degCache \in [Degrade!Keys -> DegEntries(DegQuestions)]
    /\ \A k \in Degrade!Keys : degCache[k].value # "none" => Degrade!CacheKey(degCache[k].value) = k
DegCallOK ==
    /\ degCall \in DegCalls(DegQuestions)
    /\ degCall.pc # "idle" => degCall.q \in DegQuestions
    /\ degCall.pc = "answered" =>
          \/ degCall.answer \in {degCall.q, "default"}
          \/ /\ degCall.answer \in DegQuestions
             /\ Degrade!CacheKey(degCall.answer) = Degrade!CacheKey(degCall.q)
DegRoundOK == degRound \in [DegLoops -> DegRounds(DegChecks)]
DegRest ==
    /\ degLevel \in Degrade!Levels /\ degHealthy \in BOOLEAN /\ degBackup \in BOOLEAN
    /\ degEnabled \in BOOLEAN /\ degUp \in 0 .. DegChecks /\ degSets \in 0 .. DegMaxSets

DegInv == DegCacheOK /\ DegCallOK /\ DegRoundOK /\ DegRest

\* The same, for the behaviours that are about the monitor.
WatchCacheOK ==
    /\ degCache \in [Watch!Keys -> DegEntries(WatchQuestions)]
    /\ \A k \in Watch!Keys : degCache[k].value # "none" => Watch!CacheKey(degCache[k].value) = k
WatchCallOK ==
    /\ degCall \in DegCalls(WatchQuestions)
    /\ degCall.pc # "idle" => degCall.q \in WatchQuestions
    /\ degCall.pc = "answered" =>
          \/ degCall.answer \in {degCall.q, "default"}
          \/ /\ degCall.answer \in WatchQuestions
             /\ Watch!CacheKey(degCall.answer) = Watch!CacheKey(degCall.q)
WatchRoundOK == degRound \in [WatchLoops -> DegRounds(WatchChecks)]
WatchRest ==
    /\ degLevel \in Watch!Levels /\ degHealthy \in BOOLEAN /\ degBackup \in BOOLEAN
    /\ degEnabled \in BOOLEAN /\ degUp \in 0 .. WatchChecks /\ degSets \in 0 .. DegMaxSets

WatchInv == WatchCacheOK /\ WatchCallOK /\ WatchRoundOK /\ WatchRest

-----------------------------------------------------------------------------
(* ClientInterceptor: no request is counted in, so none is left over.      *)

CliServiceOK == Client!ServiceBreaker!BreakerTypeOK /\ cliSSlots = 0
CliMethodOK == Client!MethodBreaker!BreakerTypeOK /\ cliMSlots = 0
CliRetryOK == Client!RetryBreaker!BreakerTypeOK /\ cliRSlots = 0

CliCalls ==
    [pc : {"idle", "service", "method", "rpc", "tellService", "tellMethod", "tellRetry"},
     attempt : 0 .. CliAttempts, outcome : Client!Outcomes \union {"none"}]

CliInv ==
    /\ CliServiceOK /\ CliMethodOK /\ CliRetryOK
    /\ cliCall \in [CliCallers -> CliCalls]
    /\ cliMetrics \in BOOLEAN /\ cliService \in {"up", "down", "strict"}

-----------------------------------------------------------------------------
LEMMA NatConstants ==
    /\ MonCooldown \in Nat /\ MonStarts \in Nat /\ HostSignals \in Nat /\ DegChecks \in Nat
    /\ WatchChecks \in Nat /\ DegTTL \in Nat /\ DegMaxSets \in Nat /\ LogMaxQueue \in Nat
    /\ LogMaxRecords \in Nat /\ CliAttempts \in Nat \ {0}
BY ProgressConfig

LEMMA HostStep == ASSUME HostInv, [Host!Next]_hostVars PROVE HostInv'
<1> USE DEF HostInv, HostBefore, HostUp, HostDown, Host!TypeOK, Host!Services, Host!Ended,
            Host!PlaintextNeedsUnset
<1>1. CASE UNCHANGED hostVars
  BY <1>1 DEF hostVars
<1>2. CASE Host!register_standard_services
  BY <1>2 DEF Host!register_standard_services
<1>3. ASSUME NEW ok \in SUBSET Host!Services, Host!create_server(ok) PROVE HostInv'
  BY <1>3 DEF Host!create_server, Host!Created, Host!Fail, Host!PortOf, Host!ReportHealth
<1>4. ASSUME NEW ok \in SUBSET Host!Services, Host!setup_server(ok) PROVE HostInv'
  BY <1>4 DEF Host!setup_server, Host!Created, Host!Fail
<1>5. ASSUME NEW ok \in SUBSET Host!Services, Host!setup(ok) PROVE HostInv'
  BY <1>5 DEF Host!setup, Host!Created, Host!Fail
<1>6. CASE Host!Factory_setup_signal_handlers
  BY <1>6 DEF Host!Factory_setup_signal_handlers, Host!Arm
<1>7. CASE Host!Base_init
  BY <1>7 DEF Host!Base_init, Host!Arm
<1>8. CASE Host!Marty_signal_handlers
  BY <1>8 DEF Host!Marty_signal_handlers, Host!Arm
<1>9. CASE Host!Factory_server_start
  BY <1>9 DEF Host!Factory_server_start, Host!Start
<1>10. CASE Host!Base_server_start
  BY <1>10 DEF Host!Base_server_start, Host!Start
<1>11. CASE Host!Marty_server_start
  BY <1>11 DEF Host!Marty_server_start, Host!Start
<1>12. CASE Host!Factory_mark_running
  BY <1>12 DEF Host!Factory_mark_running
<1>13. CASE Host!Base_mark_running
  BY <1>13 DEF Host!Base_mark_running
<1>14. CASE Host!create_standard_server
  BY <1>14 DEF Host!create_standard_server, Host!Fail
<1>15. CASE Host!start_again
  BY <1>15 DEF Host!start_again, Host!Fail
<1>16. CASE Host!Exit
  BY <1>16 DEF Host!Exit
<1>17. CASE Host!Terminate
  BY <1>17 DEF Host!Terminate
<1>18. CASE Host!register_service
  BY <1>18 DEF Host!register_service, Host!register
<1>19. ASSUME NEW found \in BOOLEAN, Host!auto_register_service(found) PROVE HostInv'
  BY <1>19 DEF Host!auto_register_service, Host!register
<1>20. CASE Host!Signal
  <2>0. UNCHANGED <<hostImpl, hostTls, hostHandlers, hostDefinitions, hostRegistered,
                    hostHealth, hostPort>>
    BY <1>20 DEF Host!Signal
  <2>00. UNCHANGED hostPc \/ ~hostHandlers
    BY <1>20 DEF Host!Signal
  <2>1. CASE ~hostHandlers
    BY <1>20, <2>1, ProgressConfig DEF Host!Signal
  <2>2. CASE hostHandlers /\ hostImpl = "marty"
    BY <1>20, <2>2, ProgressConfig DEF Host!Signal, Host!Stopping
  <2>3. CASE hostHandlers /\ hostImpl # "marty" /\ hostRunning
    <3>1. hostRequested' = TRUE /\ hostHandlers' /\ hostRunning' = FALSE /\ hostServer' = Host!Stopping
      BY <1>20, <2>3 DEF Host!Signal, Host!StopIfRunning
    <3>2. hostServer \in HostUp /\ hostServer' \in HostDown
      BY <2>3, <3>1 DEF Host!Stopping
    <3>3. hostEarly' \in BOOLEAN /\ hostImpl' # "marty"
      BY <1>20, <2>3 DEF Host!Signal
    <3>4. hostSignals' \in 0 .. HostSignals
      BY <1>20, ProgressConfig DEF Host!Signal
    <3> QED BY <2>0, <2>00, <2>3, <3>1, <3>2, <3>3, <3>4
  <2>4. CASE hostHandlers /\ hostImpl # "marty" /\ ~hostRunning
    <3>1. hostRequested' = TRUE /\ hostHandlers' /\ hostRunning' = FALSE /\ hostServer' = hostServer
      BY <1>20, <2>4 DEF Host!Signal, Host!StopIfRunning
    <3>2. hostEarly' \in BOOLEAN /\ (hostEarly' \/ hostServer \in HostDown) /\ hostImpl' # "marty"
      BY <1>20, <2>4 DEF Host!Signal
    <3>3. hostSignals' \in 0 .. HostSignals
      BY <1>20, ProgressConfig DEF Host!Signal
    <3> QED BY <2>0, <2>00, <2>4, <3>1, <3>2, <3>3
  <2> QED BY <2>1, <2>2, <2>3, <2>4
<1> HIDE DEF HostInv, HostBefore, HostUp, HostDown, Host!TypeOK, Host!Services, Host!Ended,
            Host!PlaintextNeedsUnset
<1> QED
  BY <1>1, <1>2, <1>3, <1>4, <1>5, <1>6, <1>7, <1>8, <1>9, <1>10, <1>11, <1>12, <1>13, <1>14,
     <1>15, <1>16, <1>17, <1>18, <1>19, <1>20
  DEF Host!Next, Host!Main

-----------------------------------------------------------------------------
MonLoops == [pc : {"none", "round", "wait", "dead"}, todo : SUBSET MonChecks,
             failed : SUBSET MonChecks]

\* A loop that ends or goes on is the same loop.
LEMMA MonLoopStep ==
    ASSUME MonInv, NEW g \in Monitors!Generations, Monitors!HealthLoop(g) \/ Monitors!AlertLoop(g)
    PROVE  MonInv'
<1> USE DEF MonInv, MonJoined, Monitors!TypeOK, Monitors!Generations, Monitors!Statuses,
            Monitors!Live, Monitors!LiveAlerting
<1>1. ASSUME NEW c \in MonChecks, Monitors!run_health_check(g, c) PROVE MonInv'
  <2> DEFINE h == [monHealth[g] EXCEPT !.todo = @ \ {c},
                                       !.failed = IF c \in monOk THEN @ ELSE @ \cup {c}]
  <2>1. monHealth' = [monHealth EXCEPT ![g] = h]
    BY <1>1 DEF Monitors!run_health_check
  <2>2. monHealth[g] \in MonLoops
    BY DEF MonLoops
  <2>3. h \in MonLoops /\ h.pc = monHealth[g].pc
    BY <2>2 DEF MonLoops
  <2> HIDE DEF h
  <2>4. monHealth' \in [1 .. MonStarts -> MonLoops]
    BY <2>1, <2>3 DEF MonLoops
  <2>5. Monitors!Live' = Monitors!Live
    BY <2>1, <2>3
  <2> QED
    BY <1>1, <2>4, <2>5 DEF Monitors!run_health_check, MonLoops
<1>2. CASE Monitors!update_health_status(g)
  BY <1>2 DEF Monitors!update_health_status, Monitors!Verdict, Monitors!Absent
<1>3. CASE Monitors!HealthWakes(g)
  BY <1>3 DEF Monitors!HealthWakes, Monitors!Absent, Monitors!Round
<1>4. CASE Monitors!check_alerts(g)
  <2>1. monAlert' \in {monAlert, Monitors!Triggered, [monAlert EXCEPT !.is_active = FALSE]}
    <3>1. CASE monHigh /\ ~monAlert.is_active
      BY <1>4, <3>1 DEF Monitors!check_alerts
    <3>2. CASE ~monHigh /\ monAlert.is_active
      BY <1>4, <3>2 DEF Monitors!check_alerts
    <3>3. CASE ~(monHigh /\ ~monAlert.is_active) /\ ~(~monHigh /\ monAlert.is_active)
      BY <1>4, <3>3 DEF Monitors!check_alerts
    <3> QED BY <3>1, <3>2, <3>3
  <2>2. monAlert' \in [is_active : BOOLEAN, age : 0 .. MonCooldown + 1]
    <3>1. monAlert \in [is_active : BOOLEAN, age : 0 .. MonCooldown + 1]
      OBVIOUS
    <3>2. [is_active |-> TRUE, age |-> 0] \in [is_active : BOOLEAN, age : 0 .. MonCooldown + 1]
      BY NatConstants
    <3>3. [monAlert EXCEPT !.is_active = FALSE] \in [is_active : BOOLEAN, age : 0 .. MonCooldown + 1]
      BY <3>1
    <3> QED BY <2>1, <3>1, <3>2, <3>3 DEF Monitors!Triggered
  <2>3. monAlerting' = [monAlerting EXCEPT ![g] = "wait"] /\ monAlerting[g] = "round"
    BY <1>4 DEF Monitors!check_alerts
  <2>4. UNCHANGED <<monRunning, monStop, monStopping, monStarted, monHealth, monStatus, monOk,
          monHigh, monKind, monImpatient>>
    BY <1>4 DEF Monitors!check_alerts
  <2> QED BY <2>2, <2>3, <2>4
<1>5. CASE Monitors!AlertWakes(g)
  BY <1>5 DEF Monitors!AlertWakes
<1> QED BY <1>1, <1>2, <1>3, <1>4, <1>5 DEF Monitors!HealthLoop, Monitors!AlertLoop

LEMMA MonStep == ASSUME MonInv, [Monitors!Next]_monVars PROVE MonInv'
<1> USE DEF MonInv, MonJoined, Monitors!TypeOK, Monitors!Generations, Monitors!Statuses,
            Monitors!Live, Monitors!LiveAlerting
<1>1. CASE UNCHANGED monVars
  BY <1>1 DEF monVars
<1>2. CASE Monitors!start_monitoring
  <2>1. monStarted + 1 \in 1 .. MonStarts /\ monStarted' = monStarted + 1 /\ ~monRunning
    BY <1>2, NatConstants DEF Monitors!start_monitoring, Monitors!MayStart
  <2>2. monRunning' = TRUE /\ monStop' = FALSE /\ UNCHANGED <<monStopping, monStatus, monAlert,
          monOk, monHigh, monKind>>
    BY <1>2 DEF Monitors!start_monitoring
  <2>3. monImpatient' \in BOOLEAN /\ (~monImpatient' => ~monImpatient /\ ~monStopping)
    BY <1>2 DEF Monitors!start_monitoring
  <2>4. \/ monHealth' = [monHealth EXCEPT ![monStarted + 1] = Monitors!Round]
           /\ UNCHANGED monAlerting
        \/ monAlerting' = [monAlerting EXCEPT ![monStarted + 1] = "round"]
           /\ UNCHANGED monHealth
    BY <1>2 DEF Monitors!start_monitoring
  <2>5. Monitors!TypeOK'
    <3>1. Monitors!Round \in MonLoops
      BY DEF Monitors!Round, MonLoops
    <3>2. monHealth' \in [1 .. MonStarts -> MonLoops]
      BY <2>1, <2>4, <3>1 DEF MonLoops
    <3>3. monAlerting' \in [1 .. MonStarts -> {"none", "round", "wait", "dead"}]
      BY <2>1, <2>4
    <3>4. monStarted' \in 0 .. MonStarts
      BY <2>1, NatConstants
    <3> QED BY <2>2, <2>3, <3>2, <3>3, <3>4 DEF MonLoops
  <2>6. ASSUME ~monImpatient' PROVE MonJoined'
    <3>1. Monitors!Live = {} /\ Monitors!LiveAlerting = {} /\ ~monStopping
      BY <2>1, <2>3, <2>6
    <3>2. Monitors!Live' \subseteq {monStarted + 1}
      BY <2>1, <2>4, <3>1
    <3>3. Monitors!LiveAlerting' \subseteq {monStarted + 1}
      BY <2>1, <2>4, <3>1
    <3> HIDE DEF Monitors!Live, Monitors!LiveAlerting
    <3> QED BY <2>1, <2>2, <3>1, <3>2, <3>3
  <2> QED BY <2>5, <2>6
<1>3. CASE Monitors!stop_monitoring
  BY <1>3 DEF Monitors!stop_monitoring
<1>4. CASE Monitors!Joined
  <2>1. monImpatient' \in BOOLEAN
        /\ (~monImpatient' => ~monImpatient /\ Monitors!Live = {} /\ Monitors!LiveAlerting = {})
    BY <1>4 DEF Monitors!Joined
  <2>2. monStopping' = FALSE /\ UNCHANGED <<monRunning, monStop, monStarted, monHealth,
          monAlerting, monStatus, monAlert, monOk, monHigh, monKind>>
    BY <1>4 DEF Monitors!Joined
  <2>3. Monitors!Live' = Monitors!Live /\ Monitors!LiveAlerting' = Monitors!LiveAlerting
    BY <2>2
  <2>4. Monitors!TypeOK'
    BY <2>1, <2>2
  <2> HIDE DEF Monitors!Live, Monitors!LiveAlerting, Monitors!TypeOK
  <2> QED BY <2>1, <2>2, <2>3, <2>4
<1>5. CASE Monitors!Tick
  <2>1. monAlert' = [monAlert EXCEPT !.age = @ + 1] /\ monAlert.age <= MonCooldown
    BY <1>5 DEF Monitors!Tick
  <2>2. monAlert' \in [is_active : BOOLEAN, age : 0 .. MonCooldown + 1]
    BY <2>1, NatConstants
  <2>3. UNCHANGED <<monRunning, monStop, monStopping, monStarted, monHealth, monAlerting,
          monStatus, monOk, monHigh, monKind, monImpatient>>
    BY <1>5 DEF Monitors!Tick
  <2> QED BY <2>2, <2>3
<1>6. CASE Monitors!SystemChanges
  <2>1. monOk' \subseteq MonChecks /\ monHigh' \in BOOLEAN
    BY <1>6 DEF Monitors!SystemChanges
  <2>2. UNCHANGED <<monRunning, monStop, monStopping, monStarted, monHealth, monAlerting,
          monStatus, monAlert, monKind, monImpatient>>
    BY <1>6 DEF Monitors!SystemChanges
  <2> QED BY <2>1, <2>2
<1> QED
  BY <1>1, <1>2, <1>3, <1>4, <1>5, <1>6, MonLoopStep DEF Monitors!Next

LEMMA MonSingle == MonInv => Monitors!OneLoopIfJoined
<1>1. ASSUME NEW S, NEW e, S \subseteq {e} PROVE Cardinality(S) <= 1
  <2>1. S = {} \/ S = {e}
    BY <1>1
  <2>2. Cardinality({}) = 0
    BY FS_EmptySet
  <2>3. Cardinality({e}) = 1
    BY FS_Singleton
  <2> QED BY <2>1, <2>2, <2>3
<1>2. ASSUME MonJoined
      PROVE  Cardinality(Monitors!Live) <= 1 /\ Cardinality(Monitors!LiveAlerting) <= 1
  BY <1>1, <1>2 DEF MonJoined
<1>3. ASSUME NEW S PROVE Monitors!Cardinality(S) = Cardinality(S)
  BY DEF Monitors!Cardinality, Cardinality
<1> QED BY <1>2, <1>3 DEF MonInv, Monitors!OneLoopIfJoined

-----------------------------------------------------------------------------
\* Initialised lists the sinks with a valid configuration and no others.
LEMMA NoteSinks ==
    ASSUME NEW cfg \in [Notify!Kinds -> {"disabled", "invalid", "valid"}]
    PROVE  /\ Notify!Initialised(cfg) \in Seq(Notify!Kinds)
           /\ Len(Notify!Initialised(cfg)) \in 0 .. 3
           /\ \A k \in Notify!Kinds : cfg[k] = "valid" =>
                 \E i \in 1 .. Len(Notify!Initialised(cfg)) : Notify!Initialised(cfg)[i] = k
<1> DEFINE if(k) == IF cfg[k] = "valid" THEN <<k>> ELSE <<>>
           s == (if("email") \o if("webhook")) \o if("slack")
<1>1. Notify!Initialised(cfg) = s
  BY DEF Notify!Initialised, Notify!IfValid
<1>2. \A k \in Notify!Kinds : if(k) \in Seq(Notify!Kinds) /\ Len(if(k)) <= 1
                               /\ (cfg[k] = "valid" => if(k) = <<k>>)
  OBVIOUS
<1>3. {"email", "webhook", "slack"} = Notify!Kinds
  BY DEF Notify!Kinds
<1> HIDE DEF if
<1>4. s \in Seq(Notify!Kinds) /\ Len(s) = Len(if("email")) + Len(if("webhook")) + Len(if("slack"))
  BY <1>2, <1>3
<1>5. Len(s) \in 0 .. 3
  <2>1. \A k \in {"email", "webhook", "slack"} : Len(if(k)) \in Nat /\ Len(if(k)) <= 1
    BY <1>2, <1>3
  <2> HIDE DEF s
  <2> QED BY <1>4, <2>1
<1>6. cfg["email"] = "valid" => \E i \in 1 .. Len(s) : s[i] = "email"
  <2> SUFFICES ASSUME cfg["email"] = "valid" PROVE 1 \in 1 .. Len(s) /\ s[1] = "email"
    OBVIOUS
  <2>1. if("email") = <<"email">> /\ if("webhook") \in Seq(Notify!Kinds) /\ if("slack") \in Seq(Notify!Kinds)
    BY <1>2, <1>3
  <2> QED BY <2>1
<1>7. cfg["webhook"] = "valid" => \E i \in 1 .. Len(s) : s[i] = "webhook"
  <2> SUFFICES ASSUME cfg["webhook"] = "valid"
               PROVE  LET i == Len(if("email")) + 1 IN i \in 1 .. Len(s) /\ s[i] = "webhook"
    OBVIOUS
  <2>1. if("webhook") = <<"webhook">> /\ if("email") \in Seq(Notify!Kinds) /\ if("slack") \in Seq(Notify!Kinds)
    BY <1>2, <1>3
  <2> QED BY <2>1
<1>8. cfg["slack"] = "valid" => \E i \in 1 .. Len(s) : s[i] = "slack"
  <2> SUFFICES ASSUME cfg["slack"] = "valid"
               PROVE  Len(s) \in 1 .. Len(s) /\ s[Len(s)] = "slack"
    OBVIOUS
  <2>1. if("slack") = <<"slack">> /\ if("webhook") \in Seq(Notify!Kinds) /\ if("email") \in Seq(Notify!Kinds)
    BY <1>2, <1>3
  <2> DEFINE t == if("email") \o if("webhook")
  <2>2. t \in Seq(Notify!Kinds) /\ Len(t) \in Nat
    BY <2>1
  <2>4. s = t \o <<"slack">>
    BY <2>1
  <2> HIDE DEF t
  <2>3. Len(t \o <<"slack">>) = Len(t) + 1 /\ (t \o <<"slack">>)[Len(t) + 1] = "slack"
    BY <2>2
  <2> HIDE DEF s
  <2> QED BY <2>2, <2>3, <2>4
<1> HIDE DEF s
<1> QED BY <1>1, <1>3, <1>4, <1>5, <1>6, <1>7, <1>8

LEMMA NoteStep == ASSUME NoteInv, [Notify!Next]_noteVars PROVE NoteInv' /\ Notify!MailHoldsTheLoop_Step
<1> USE DEF NoteInv, NoteAt, Notify!TypeOK
<1>0. /\ noteConfig \in [Notify!Kinds -> {"disabled", "invalid", "valid"}]
      /\ noteSinks \in Seq(Notify!Kinds) /\ Len(noteSinks) \in 0 .. 3
  <2>1. noteConfig \in [Notify!Kinds -> {"disabled", "invalid", "valid"}]
    OBVIOUS
  <2>2. noteSinks = Notify!Initialised(noteConfig)
    OBVIOUS
  <2> HIDE DEF NoteInv, NoteAt, Notify!TypeOK
  <2> QED BY <2>1, <2>2, NoteSinks
<1>1. CASE UNCHANGED noteVars
  BY <1>1 DEF noteVars, Notify!MailHoldsTheLoop_Step
<1>2. ASSUME NEW c \in NoteCalls, Notify!Begin(c) PROVE NoteInv' /\ Notify!MailHoldsTheLoop_Step
  <2>1. notePc' = [notePc EXCEPT ![c] = IF noteSinks = <<>> THEN "done" ELSE "sending"]
        /\ notePc[c] = "idle" /\ noteSmtp = "none"
        /\ UNCHANGED <<noteConfig, noteSinks, noteAt, noteResults, noteDelivered, noteSmtp>>
    BY <1>2 DEF Notify!Begin, Notify!LoopFree
  <2>2. Notify!TypeOK'
    BY <2>1
  <2>3. ASSUME NEW d \in NoteCalls, d # c PROVE NoteAt(d)'
    BY <2>1, <2>3
  <2>4. NoteAt(c)'
    <3>1. noteAt[c] = 1 /\ (noteSinks = <<>> => Len(noteSinks) = 0)
          /\ (noteSinks # <<>> => 1 <= Len(noteSinks))
      BY <1>0, <2>1
    <3>2. noteAt'[c] = 1 /\ notePc'[c] = (IF noteSinks = <<>> THEN "done" ELSE "sending")
      BY <2>1, <3>1
    <3>3. noteSmtp' # c /\ noteSinks' = noteSinks
      BY <2>1, ProgressConfig
    <3> HIDE DEF NoteInv, Notify!TypeOK
    <3> QED BY <1>0, <3>1, <3>2, <3>3
  <2> QED BY <2>1, <2>2, <2>3, <2>4 DEF Notify!MailHoldsTheLoop_Step
<1>3. ASSUME NEW c \in NoteCalls, Notify!Connect(c) PROVE NoteInv' /\ Notify!MailHoldsTheLoop_Step
  BY <1>0, <1>3, ProgressConfig DEF Notify!Connect, Notify!LoopFree, Notify!MailHoldsTheLoop_Step
<1>4. ASSUME NEW c \in NoteCalls, Notify!Post(c) PROVE NoteInv' /\ Notify!MailHoldsTheLoop_Step
  BY <1>0, <1>4, ProgressConfig DEF Notify!Post, Notify!LoopFree, Notify!MailHoldsTheLoop_Step
<1>5. ASSUME NEW c \in NoteCalls, Notify!Receive(c) PROVE NoteInv' /\ Notify!MailHoldsTheLoop_Step
  BY <1>0, <1>5 DEF Notify!Receive, Notify!Sink, Notify!MailHoldsTheLoop_Step
<1>6. ASSUME NEW c \in NoteCalls, NEW answer \in {"sent", "failed"}, Notify!Answered(c, answer),
             notePc[c] \in {"sending", "awaiting"}, UNCHANGED <<noteConfig, noteSinks>>,
             noteSmtp \in {c, "none"}, noteSmtp' = "none",
             noteDelivered' \in [NoteCalls -> SUBSET Notify!Kinds]
      PROVE  NoteInv' /\ Notify!MailHoldsTheLoop_Step
  <2>1. noteAt[c] \in 1 .. Len(noteSinks) /\ noteSinks[noteAt[c]] \in Notify!Kinds
    BY <1>0, <1>6
  <2>2. noteResults' = [noteResults EXCEPT ![c] = [noteResults[c] EXCEPT ![noteSinks[noteAt[c]]] = answer]]
        /\ noteAt' = [noteAt EXCEPT ![c] = noteAt[c] + 1]
        /\ notePc' = [notePc EXCEPT ![c] = IF noteAt[c] = Len(noteSinks) THEN "done" ELSE "sending"]
    BY <1>6 DEF Notify!Answered, Notify!Sink
  <2>3. Notify!TypeOK'
    <3>1. noteResults' \in [NoteCalls -> [Notify!Kinds -> {"absent", "sent", "failed"}]]
      <4>1. [noteResults[c] EXCEPT ![noteSinks[noteAt[c]]] = answer]
                \in [Notify!Kinds -> {"absent", "sent", "failed"}]
        BY <2>1
      <4> QED BY <2>2, <4>1
    <3>2. noteAt' \in [NoteCalls -> 1 .. 4]
      <4>1. noteAt[c] + 1 \in 1 .. 4
        <5> HIDE DEF NoteInv, NoteAt, Notify!TypeOK
        <5> QED BY <1>0, <2>1
      <4> QED BY <2>2, <4>1
    <3>3. notePc' \in [NoteCalls -> {"idle", "sending", "awaiting", "done"}]
      BY <2>2
    <3> QED BY <1>6, <3>1, <3>2, <3>3
  <2>4. ASSUME NEW d \in NoteCalls, d # c PROVE NoteAt(d)'
    <3>1. noteAt'[d] = noteAt[d] /\ notePc'[d] = notePc[d] /\ noteResults'[d] = noteResults[d]
      BY <2>2, <2>4
    <3>2. noteSmtp' # d /\ noteSinks' = noteSinks
      BY <1>6, ProgressConfig
    <3>3. NoteAt(d)
      BY DEF NoteInv
    <3> HIDE DEF NoteInv, Notify!TypeOK
    <3> QED BY <3>1, <3>2, <3>3
  <2>5. NoteAt(c)'
    <3>0. noteAt'[c] = noteAt[c] + 1
          /\ notePc'[c] = (IF noteAt[c] = Len(noteSinks) THEN "done" ELSE "sending")
          /\ noteSinks' = noteSinks /\ noteSmtp' # c
      BY <1>6, <2>2, ProgressConfig
    <3>1. noteAt'[c] = noteAt[c] + 1 /\ noteAt'[c] \in 1 .. Len(noteSinks) + 1
      <4> HIDE DEF NoteInv, NoteAt, Notify!TypeOK
      <4> QED BY <1>0, <2>1, <3>0
    <3>2. \/ notePc'[c] = "done" /\ noteAt'[c] = Len(noteSinks) + 1
          \/ notePc'[c] = "sending" /\ noteAt'[c] <= Len(noteSinks)
      <4> HIDE DEF NoteInv, NoteAt, Notify!TypeOK
      <4> QED BY <1>0, <2>1, <3>0
    <3>3. \A i \in 1 .. noteAt'[c] - 1 : noteResults'[c][noteSinks[i]] # "absent"
      <4> SUFFICES ASSUME NEW i \in 1 .. noteAt'[c] - 1
                   PROVE  noteResults'[c][noteSinks[i]] # "absent"
        OBVIOUS
      <4>1. i \in 1 .. noteAt[c] /\ i \in 1 .. Len(noteSinks)
        <5> HIDE DEF NoteInv, NoteAt, Notify!TypeOK
        <5> QED BY <1>0, <2>1, <3>1
      <4>2. noteSinks[i] \in Notify!Kinds
        BY <1>0, <4>1
      <4>3. noteResults'[c] = [noteResults[c] EXCEPT ![noteSinks[noteAt[c]]] = answer]
        BY <2>2
      <4>4. i = noteAt[c] \/ noteResults[c][noteSinks[i]] # "absent"
        <5>1. i = noteAt[c] \/ i \in 1 .. noteAt[c] - 1
          <6> HIDE DEF NoteInv, NoteAt, Notify!TypeOK
          <6> QED BY <1>0, <2>1, <4>1
        <5> QED BY <5>1
      <4> QED BY <1>6, <2>1, <4>2, <4>3, <4>4
    <3> QED BY <3>0, <3>1, <3>2, <3>3
  <2> QED
    BY <1>6, <2>2, <2>3, <2>4, <2>5 DEF Notify!MailHoldsTheLoop_Step
<1>7. ASSUME NEW c \in NoteCalls, NEW received \in BOOLEAN, NEW answer \in {"sent", "failed"},
             Notify!Mailed(c, received, answer)
      PROVE  NoteInv' /\ Notify!MailHoldsTheLoop_Step
  <2>1. noteDelivered' \in [NoteCalls -> SUBSET Notify!Kinds]
    BY <1>7 DEF Notify!Mailed, Notify!Kinds
  <2> QED BY <1>6, <1>7, <2>1 DEF Notify!Mailed
<1>8. ASSUME NEW c \in NoteCalls, Notify!Accepted(c) PROVE NoteInv' /\ Notify!MailHoldsTheLoop_Step
  BY <1>6, <1>8 DEF Notify!Accepted, Notify!LoopFree
<1>9. ASSUME NEW c \in NoteCalls, Notify!TimesOut(c) PROVE NoteInv' /\ Notify!MailHoldsTheLoop_Step
  BY <1>6, <1>9 DEF Notify!TimesOut, Notify!LoopFree
<1> QED
  BY <1>1, <1>2, <1>3, <1>4, <1>5, <1>7, <1>8, <1>9 DEF Notify!Next, Notify!Step

LEMMA NoteReports == NoteInv => Notify!MissingNeedsInvalid
<1> SUFFICES ASSUME NoteInv, NEW c \in NoteCalls, NEW k \in Notify!Kinds, notePc[c] = "done",
                    noteConfig[k] # "disabled", noteResults[c][k] = "absent"
             PROVE  noteConfig[k] = "invalid"
  BY DEF Notify!MissingNeedsInvalid
<1>1. noteConfig[k] # "valid"
  <2> SUFFICES ASSUME noteConfig[k] = "valid" PROVE FALSE
    OBVIOUS
  <2>1. noteConfig \in [Notify!Kinds -> {"disabled", "invalid", "valid"}]
    BY DEF NoteInv, Notify!TypeOK
  <2>2. noteSinks \in Seq(Notify!Kinds) /\ \E i \in 1 .. Len(noteSinks) : noteSinks[i] = k
    BY <2>1, NoteSinks DEF NoteInv
  <2>3. PICK i \in 1 .. Len(noteSinks) : noteSinks[i] = k
    BY <2>2
  <2>4. noteAt[c] = Len(noteSinks) + 1 /\ \A j \in 1 .. noteAt[c] - 1 : noteResults[c][noteSinks[j]] # "absent"
    BY DEF NoteInv, NoteAt
  <2> QED BY <2>2, <2>3, <2>4
<1> QED BY <1>1 DEF NoteInv, Notify!TypeOK

-----------------------------------------------------------------------------
LEMMA LenOfJoined ==
    ASSUME NEW S, NEW a \in Seq(S), NEW b \in Seq(S), NEW c \in Seq(S)
    PROVE  Len(a \o b) = Len(a) + Len(b) /\ Len(a \o b \o c) = Len(a) + Len(b) + Len(c)
<1>1. a \o b \in Seq(S) /\ Len(a \o b) = Len(a) + Len(b)
  BY ConcatProperties
<1> QED BY <1>1, ConcatProperties

\* Contexts of strings without separators have keys of their own.
LEMMA DegPlainKeys ==
    ASSUME NEW a \in Degrade!Contexts, NEW q \in Degrade!Contexts,
           Degrade!Plain(a), Degrade!Plain(q), Degrade!CacheKey(a) = Degrade!CacheKey(q)
    PROVE  a = q
<1>1. ASSUME NEW c \in Degrade!Contexts, Degrade!Plain(c) PROVE c \in {"one", "two"}
  <2>1. c # "int" /\ c # "call" /\ c # "other_call"
    BY <1>1 DEF Degrade!Plain, Degrade!Context, Degrade!Absent, Degrade!Text
  <2>2. c # "joined"
    <3> SUFFICES ASSUME c = "joined" PROVE FALSE
      OBVIOUS
    <3>1. Degrade!Context(c).x = [kind |-> "str", text |-> <<"1", "|", "y", ":", "2">>]
      BY DEF Degrade!Context, Degrade!Text
    <3>2. Degrade!Context(c).x.kind = "str" /\ Len(Degrade!Context(c).x.text) = 5
      BY <3>1
    <3> QED BY <1>1, <3>2 DEF Degrade!Plain
  <2> QED BY <2>1, <2>2 DEF Degrade!Contexts
<1> DEFINE chars == {"x", "y", ":", "|", "1", "2"}
           px == <<"x", ":">> \o <<"1">>
           py == <<"y", ":">> \o <<"2">>
<1>2. px \in Seq(chars) /\ py \in Seq(chars) /\ Len(px) = 3 /\ Len(py) = 3
  <2>1. /\ <<"x", ":">> \in Seq(chars) /\ <<"y", ":">> \in Seq(chars)
        /\ <<"1">> \in Seq(chars) /\ <<"2">> \in Seq(chars)
        /\ Len(<<"x", ":">>) = 2 /\ Len(<<"y", ":">>) = 2 /\ Len(<<"1">>) = 1 /\ Len(<<"2">>) = 1
    OBVIOUS
  <2> QED BY <2>1, ConcatProperties
<1>3. px # <<>> /\ py # <<>>
  BY <1>2, EmptySeq
<1>4. Degrade!CacheKey("one") = px \o <<>>
  <2>1. /\ Degrade!Context("one").x.kind = "str" /\ Degrade!Context("one").x.text = <<"1">>
        /\ Degrade!Context("one").y.kind = "absent"
    BY DEF Degrade!Context, Degrade!Text, Degrade!Absent
  <2> QED BY <2>1 DEF Degrade!CacheKey
<1>5. Degrade!CacheKey("two") = px \o <<"|">> \o py
  <2>1. /\ Degrade!Context("two").x.kind = "str" /\ Degrade!Context("two").x.text = <<"1">>
        /\ Degrade!Context("two").y.kind = "str" /\ Degrade!Context("two").y.text = <<"2">>
    BY DEF Degrade!Context, Degrade!Text
  <2> QED BY <1>3, <2>1 DEF Degrade!CacheKey
<1> HIDE DEF px, py
<1>6. Len(px \o <<>>) = 3 /\ Len(px \o <<"|">> \o py) = 7
  <2>1. /\ <<>> \in Seq(chars) /\ Len(<<>>) = 0
        /\ <<"|">> \in Seq(chars) /\ Len(<<"|">>) = 1
    OBVIOUS
  <2>2. ASSUME NEW p \in Seq(chars), NEW t \in Seq(chars), NEW u \in Seq(chars),
             Len(p) = 3, Len(t) = 1, Len(u) = 3
        PROVE  Len(p \o t \o u) = 7
    <3> HIDE DEF chars
    <3>1. Len(p \o t \o u) = Len(p) + Len(t) + Len(u)
      BY LenOfJoined
    <3> QED BY <2>2, <3>1
  <2>3. ASSUME NEW p \in Seq(chars), NEW t \in Seq(chars), Len(p) = 3, Len(t) = 0
        PROVE  Len(p \o t) = 3
    <3> HIDE DEF chars
    <3>1. Len(p \o t) = Len(p) + Len(t)
      BY LenOfJoined
    <3> QED BY <2>3, <3>1
  <2> HIDE DEF chars
  <2> QED BY <1>2, <2>1, <2>2, <2>3, Zenon
<1> QED BY <1>1, <1>4, <1>5, <1>6

LEMMA DegAnswers == DegInv => Degrade!TypeOK /\ Degrade!FallbackFits
<1> SUFFICES ASSUME DegInv PROVE Degrade!TypeOK /\ Degrade!FallbackFits
  OBVIOUS
<1>1. Degrade!TypeOK
  <2>1. degRound \in [DegLoops -> [done : 0 .. DegChecks, passed : 0 .. DegChecks, on : BOOLEAN]]
    BY DEF DegInv, DegRoundOK, DegRounds
  <2> QED
    BY <2>1 DEF DegInv, DegCacheOK, DegCallOK, DegRest, DegCalls, DegEntries, Degrade!TypeOK
<1>2. \A q \in DegQuestions : q \in Degrade!Contexts
  BY ProgressConfig DEF Degrade!Contexts
<1>3. Degrade!FallbackFits
  BY <1>2, DegPlainKeys DEF DegInv, DegCallOK, Degrade!FallbackFits
<1> QED BY <1>1, <1>3

LEMMA WatchTyped == WatchInv => Watch!TypeOK
<1> SUFFICES ASSUME WatchInv PROVE Watch!TypeOK
  OBVIOUS
<1>1. degRound \in [WatchLoops -> [done : 0 .. WatchChecks, passed : 0 .. WatchChecks, on : BOOLEAN]]
  BY DEF WatchInv, WatchRoundOK, DegRounds
<1>2. degCache \in [Watch!Keys -> [value : WatchQuestions \union {"none"}, age : 0 .. DegTTL]]
  BY DEF WatchInv, WatchCacheOK, DegEntries
<1>3. degCall.pc \in {"idle", "primary", "cache", "backup", "default", "answered"}
  BY DEF WatchInv, WatchCallOK, DegCalls
<1> QED BY <1>1, <1>2, <1>3 DEF WatchInv, WatchRest, Watch!TypeOK

\* A round that begins, and one more check of it, passed or not.
LEMMA DegRoundStarts ==
    ASSUME NEW n \in Nat, NEW r \in DegRounds(n) PROVE [r EXCEPT !.on = TRUE] \in DegRounds(n)
BY DEF DegRounds

LEMMA DegRoundStep ==
    ASSUME NEW n \in Nat, NEW r \in DegRounds(n), r.done < n, NEW p \in {r.passed, r.passed + 1}
    PROVE  [r EXCEPT !.done = @ + 1, !.passed = p] \in DegRounds(n)
<1>1. r \in [done : 0 .. n, passed : 0 .. n, on : BOOLEAN] /\ r.passed <= r.done
  BY DEF DegRounds
<1>2. p \in 0 .. n /\ p <= r.done + 1 /\ r.done + 1 \in 0 .. n
  BY <1>1
<1> QED BY <1>1, <1>2 DEF DegRounds

LEMMA DegStep == ASSUME DegInv, [Degrade!Next]_degVars PROVE DegInv'
<1>0. DegCacheOK /\ DegCallOK /\ DegRoundOK /\ DegRest
  BY DEF DegInv
<1> SUFFICES DegCacheOK' /\ DegCallOK' /\ DegRoundOK' /\ DegRest'
  BY DEF DegInv
<1>1. CASE UNCHANGED degVars
  BY <1>0, <1>1 DEF degVars, DegCacheOK, DegCallOK, DegRoundOK, DegRest
<1>2. ASSUME NEW q \in DegQuestions, NEW o, Degrade!Begin(q, o)
      PROVE  DegCacheOK' /\ DegCallOK' /\ DegRoundOK' /\ DegRest'
  <2>1. DegCallOK'
    BY <1>0, <1>2 DEF Degrade!Begin, Degrade!NoCall, DegCallOK, DegCalls
  <2> QED BY <1>0, <1>2, <2>1 DEF Degrade!Begin, DegCacheOK, DegRoundOK, DegRest
<1>3. CASE Degrade!PrimarySucceeds
  <2>1. DegCallOK'
    BY <1>0, <1>3 DEF Degrade!PrimarySucceeds, DegCallOK, DegCalls
  <2>2. DegCacheOK'
    <3>0. degCall.pc = "primary"
      BY <1>3 DEF Degrade!PrimarySucceeds
    <3>1. degCall.q \in DegQuestions /\ Degrade!CacheKey(degCall.q) \in Degrade!Keys
      BY <1>0, <3>0 DEF Degrade!Keys, DegCallOK
    <3>2. [value |-> degCall.q, age |-> 0] \in DegEntries(DegQuestions)
      BY <3>1, NatConstants DEF DegEntries
    <3>3. degCache' = [degCache EXCEPT ![Degrade!CacheKey(degCall.q)] = [value |-> degCall.q, age |-> 0]]
      BY <1>3 DEF Degrade!PrimarySucceeds
    <3> QED BY <1>0, <3>1, <3>2, <3>3 DEF DegCacheOK
  <2> QED BY <1>0, <1>3, <2>1, <2>2 DEF Degrade!PrimarySucceeds, DegRoundOK, DegRest
<1>4. CASE Degrade!PrimaryFails
  <2>1. DegCallOK'
    BY <1>0, <1>4 DEF Degrade!PrimaryFails, DegCallOK, DegCalls
  <2> QED BY <1>0, <1>4, <2>1 DEF Degrade!PrimaryFails, DegCacheOK, DegRoundOK, DegRest
<1>5. CASE Degrade!FromCache
  <2>1. degCall.q \in DegQuestions /\ degCall \in DegCalls(DegQuestions)
    <3>1. degCall.pc = "cache"
      BY <1>5 DEF Degrade!FromCache
    <3> QED BY <1>0, <3>1 DEF DegCallOK
  <2> DEFINE found == Degrade!CachedFor(degCall.q)
  <2>2. found = "none" \/ (found \in DegQuestions /\ Degrade!CacheKey(found) = Degrade!CacheKey(degCall.q))
    <3>1. Degrade!CacheKey(degCall.q) \in Degrade!Keys
      BY <2>1 DEF Degrade!Keys
    <3> QED BY <1>0, <3>1 DEF Degrade!CachedFor, DegCacheOK, DegEntries
  <2>3. /\ found # "none" => degCall' = [degCall EXCEPT !.pc = "answered", !.answer = found]
        /\ found = "none" => degCall' = [degCall EXCEPT !.pc = "backup"]
    BY <1>5 DEF Degrade!FromCache
  <2> HIDE DEF found
  <2>4. DegCallOK'
    BY <2>1, <2>2, <2>3 DEF DegCallOK, DegCalls
  <2> QED BY <1>0, <1>5, <2>4 DEF Degrade!FromCache, DegCacheOK, DegRoundOK, DegRest
<1>6. CASE Degrade!FromBackup
  <2>1. DegCallOK'
    BY <1>0, <1>6 DEF Degrade!FromBackup, DegCallOK, DegCalls
  <2>2. degBackup' \in BOOLEAN
    BY <1>0, <1>6 DEF Degrade!FromBackup, DegRest
  <2> QED BY <1>0, <1>6, <2>1, <2>2 DEF Degrade!FromBackup, DegCacheOK, DegRoundOK, DegRest
<1>7. CASE Degrade!FromDefault
  <2>1. DegCallOK'
    BY <1>0, <1>7 DEF Degrade!FromDefault, DegCallOK, DegCalls
  <2> QED BY <1>0, <1>7, <2>1 DEF Degrade!FromDefault, DegCacheOK, DegRoundOK, DegRest
<1>8. CASE Degrade!Return
  <2>1. DegCallOK'
    BY <1>8 DEF Degrade!Return, Degrade!NoCall, DegCallOK, DegCalls
  <2> QED BY <1>0, <1>8, <2>1 DEF Degrade!Return, DegCacheOK, DegRoundOK, DegRest
<1>9. CASE Degrade!SetFeatureHealth \/ Degrade!StopMonitoring \/ Degrade!HealthChanges
  BY <1>0, <1>9
  DEF Degrade!SetFeatureHealth, Degrade!StopMonitoring, Degrade!HealthChanges, DegCacheOK, DegCallOK, DegRoundOK,
      DegRest
<1>10. ASSUME NEW l \in DegLoops, Degrade!StartMonitoring(l) \/ Degrade!LoopEnds(l) \/ Degrade!Adjust(l)
       PROVE  DegCacheOK' /\ DegCallOK' /\ DegRoundOK' /\ DegRest'
  <2>1. Degrade!On \in DegRounds(DegChecks) /\ Degrade!Off \in DegRounds(DegChecks)
    <3>1. Degrade!Off \in DegRounds(DegChecks)
      BY NatConstants DEF Degrade!Off, DegRounds
    <3> QED BY <3>1, NatConstants, DegRoundStarts DEF Degrade!On
  <2>2. \E r \in {Degrade!On, Degrade!Off} : degRound' = [degRound EXCEPT ![l] = r]
    BY <1>10 DEF Degrade!StartMonitoring, Degrade!LoopEnds, Degrade!Adjust
  <2>3. DegRoundOK'
    BY <1>0, <2>1, <2>2 DEF DegRoundOK
  <2>4. Degrade!Target(degRound[l].passed) \in Degrade!Levels
    BY SMT DEF Degrade!Target, Degrade!Levels
  <2>5. degLevel' \in Degrade!Levels /\ degEnabled' \in BOOLEAN
    BY <1>0, <1>10, <2>4
    DEF Degrade!StartMonitoring, Degrade!LoopEnds, Degrade!Adjust, Degrade!Adjusted, DegRest
  <2>6. UNCHANGED <<degHealthy, degCache, degBackup, degCall, degUp, degSets>>
    BY <1>10 DEF Degrade!StartMonitoring, Degrade!LoopEnds, Degrade!Adjust
  <2> QED BY <1>0, <2>3, <2>5, <2>6 DEF DegCacheOK, DegCallOK, DegRest
<1>11. ASSUME NEW l \in DegLoops, Degrade!Check(l)
       PROVE  DegCacheOK' /\ DegCallOK' /\ DegRoundOK' /\ DegRest'
  <2>1. degRound[l] \in DegRounds(DegChecks) /\ degRound[l].done < DegChecks
    BY <1>0, <1>11 DEF Degrade!Check, DegRoundOK
  <2>2. PICK p \in {degRound[l].passed, degRound[l].passed + 1} :
            degRound' = [degRound EXCEPT ![l] = [degRound[l] EXCEPT !.done = @ + 1, !.passed = p]]
    <3> DEFINE q == IF degRound[l].done < degUp THEN degRound[l].passed + 1 ELSE degRound[l].passed
    <3>1. degRound' = [degRound EXCEPT ![l] = [degRound[l] EXCEPT !.done = @ + 1, !.passed = q]]
      BY <1>0, <1>11 DEF Degrade!Check, DegRoundOK, DegRounds
    <3> QED BY <3>1
  <2>3. [degRound[l] EXCEPT !.done = @ + 1, !.passed = p] \in DegRounds(DegChecks)
    BY <2>1, NatConstants, DegRoundStep
  <2>4. DegRoundOK'
    BY <1>0, <2>2, <2>3 DEF DegRoundOK
  <2> QED BY <1>0, <1>11, <2>4 DEF Degrade!Check, DegCacheOK, DegCallOK, DegRest
<1>12. ASSUME NEW l \in Degrade!Levels, Degrade!SetLevel(l)
       PROVE  DegCacheOK' /\ DegCallOK' /\ DegRoundOK' /\ DegRest'
  <2>1. degSets' \in 0 .. DegMaxSets
    BY <1>0, <1>12, NatConstants DEF Degrade!SetLevel, DegRest
  <2> QED BY <1>0, <1>12, <2>1 DEF Degrade!SetLevel, DegCacheOK, DegCallOK, DegRoundOK, DegRest
<1>13. CASE Degrade!Tick
  <2>1. DegCacheOK'
    <3>1. Degrade!NoEntry \in DegEntries(DegQuestions) /\ Degrade!NoEntry.value = "none"
      BY NatConstants DEF Degrade!NoEntry, DegEntries
    <3> DEFINE aged(k) == IF degCache[k].age + 1 >= DegTTL THEN Degrade!NoEntry
                          ELSE [degCache[k] EXCEPT !.age = @ + 1]
    <3>2. ASSUME NEW k \in Degrade!Keys
          PROVE  aged(k) \in DegEntries(DegQuestions) /\ aged(k).value \in {degCache[k].value, "none"}
      <4>1. degCache[k] \in DegEntries(DegQuestions)
        BY <1>0 DEF DegCacheOK
      <4>2. CASE degCache[k].age + 1 >= DegTTL
        BY <3>1, <4>2
      <4>3. CASE ~(degCache[k].age + 1 >= DegTTL)
        BY <4>1, <4>3, NatConstants DEF DegEntries
      <4> QED BY <4>2, <4>3
    <3>3. degCache' = [k \in Degrade!Keys |-> aged(k)]
      BY <1>13 DEF Degrade!Tick
    <3> HIDE DEF aged
    <3> QED BY <1>0, <3>2, <3>3 DEF DegCacheOK
  <2> QED BY <1>0, <1>13, <2>1 DEF Degrade!Tick, DegCallOK, DegRoundOK, DegRest
<1> QED
  BY <1>1, <1>2, <1>3, <1>4, <1>5, <1>6, <1>7, <1>8, <1>9, <1>10, <1>11, <1>12, <1>13
  DEF Degrade!Next, Degrade!Serving, Degrade!Answer, Degrade!Monitoring

LEMMA DegInit == Degrade!Init => DegInv
<1> SUFFICES ASSUME Degrade!Init PROVE DegInv
  OBVIOUS
<1>1. Degrade!NoEntry \in DegEntries(DegQuestions) /\ Degrade!NoEntry.value = "none"
  BY NatConstants DEF Degrade!NoEntry, DegEntries
<1>2. DegCacheOK
  BY <1>1 DEF Degrade!Init, DegCacheOK
<1>3. DegCallOK
  BY DEF Degrade!Init, Degrade!NoCall, DegCallOK, DegCalls
<1>4. DegRoundOK
  BY NatConstants DEF Degrade!Init, Degrade!Off, DegRoundOK, DegRounds
<1>5. DegRest
  <2>1. DegChecks \in 0 .. DegChecks /\ 0 \in 0 .. DegMaxSets
    BY NatConstants
  <2> QED BY <2>1 DEF Degrade!Init, Degrade!Levels, DegRest
<1> QED BY <1>2, <1>3, <1>4, <1>5 DEF DegInv

LEMMA WatchStep == ASSUME WatchInv, [Watch!Next]_degVars PROVE WatchInv'
<1>0. WatchCacheOK /\ WatchCallOK /\ WatchRoundOK /\ WatchRest
  BY DEF WatchInv
<1> SUFFICES WatchCacheOK' /\ WatchCallOK' /\ WatchRoundOK' /\ WatchRest'
  BY DEF WatchInv
<1>1. CASE UNCHANGED degVars
  BY <1>0, <1>1 DEF degVars, WatchCacheOK, WatchCallOK, WatchRoundOK, WatchRest
<1>2. ASSUME NEW q \in WatchQuestions, NEW o, Watch!Begin(q, o)
      PROVE  WatchCacheOK' /\ WatchCallOK' /\ WatchRoundOK' /\ WatchRest'
  <2>1. WatchCallOK'
    BY <1>0, <1>2 DEF Watch!Begin, Watch!NoCall, WatchCallOK, DegCalls
  <2> QED BY <1>0, <1>2, <2>1 DEF Watch!Begin, WatchCacheOK, WatchRoundOK, WatchRest
<1>3. CASE Watch!PrimarySucceeds
  <2>1. WatchCallOK'
    BY <1>0, <1>3 DEF Watch!PrimarySucceeds, WatchCallOK, DegCalls
  <2>2. WatchCacheOK'
    <3>0. degCall.pc = "primary"
      BY <1>3 DEF Watch!PrimarySucceeds
    <3>1. degCall.q \in WatchQuestions /\ Watch!CacheKey(degCall.q) \in Watch!Keys
      BY <1>0, <3>0 DEF Watch!Keys, WatchCallOK
    <3>2. [value |-> degCall.q, age |-> 0] \in DegEntries(WatchQuestions)
      BY <3>1, NatConstants DEF DegEntries
    <3>3. degCache' = [degCache EXCEPT ![Watch!CacheKey(degCall.q)] = [value |-> degCall.q, age |-> 0]]
      BY <1>3 DEF Watch!PrimarySucceeds
    <3> QED BY <1>0, <3>1, <3>2, <3>3 DEF WatchCacheOK
  <2> QED BY <1>0, <1>3, <2>1, <2>2 DEF Watch!PrimarySucceeds, WatchRoundOK, WatchRest
<1>4. CASE Watch!PrimaryFails
  <2>1. WatchCallOK'
    BY <1>0, <1>4 DEF Watch!PrimaryFails, WatchCallOK, DegCalls
  <2> QED BY <1>0, <1>4, <2>1 DEF Watch!PrimaryFails, WatchCacheOK, WatchRoundOK, WatchRest
<1>5. CASE Watch!FromCache
  <2>1. degCall.q \in WatchQuestions /\ degCall \in DegCalls(WatchQuestions)
    <3>1. degCall.pc = "cache"
      BY <1>5 DEF Watch!FromCache
    <3> QED BY <1>0, <3>1 DEF WatchCallOK
  <2> DEFINE found == Watch!CachedFor(degCall.q)
  <2>2. found = "none" \/ (found \in WatchQuestions /\ Watch!CacheKey(found) = Watch!CacheKey(degCall.q))
    <3>1. Watch!CacheKey(degCall.q) \in Watch!Keys
      BY <2>1 DEF Watch!Keys
    <3> QED BY <1>0, <3>1 DEF Watch!CachedFor, WatchCacheOK, DegEntries
  <2>3. /\ found # "none" => degCall' = [degCall EXCEPT !.pc = "answered", !.answer = found]
        /\ found = "none" => degCall' = [degCall EXCEPT !.pc = "backup"]
    BY <1>5 DEF Watch!FromCache
  <2> HIDE DEF found
  <2>4. WatchCallOK'
    BY <2>1, <2>2, <2>3 DEF WatchCallOK, DegCalls
  <2> QED BY <1>0, <1>5, <2>4 DEF Watch!FromCache, WatchCacheOK, WatchRoundOK, WatchRest
<1>6. CASE Watch!FromBackup
  <2>1. WatchCallOK'
    BY <1>0, <1>6 DEF Watch!FromBackup, WatchCallOK, DegCalls
  <2>2. degBackup' \in BOOLEAN
    BY <1>0, <1>6 DEF Watch!FromBackup, WatchRest
  <2> QED BY <1>0, <1>6, <2>1, <2>2 DEF Watch!FromBackup, WatchCacheOK, WatchRoundOK, WatchRest
<1>7. CASE Watch!FromDefault
  <2>1. WatchCallOK'
    BY <1>0, <1>7 DEF Watch!FromDefault, WatchCallOK, DegCalls
  <2> QED BY <1>0, <1>7, <2>1 DEF Watch!FromDefault, WatchCacheOK, WatchRoundOK, WatchRest
<1>8. CASE Watch!Return
  <2>1. WatchCallOK'
    BY <1>8 DEF Watch!Return, Watch!NoCall, WatchCallOK, DegCalls
  <2> QED BY <1>0, <1>8, <2>1 DEF Watch!Return, WatchCacheOK, WatchRoundOK, WatchRest
<1>9. CASE Watch!SetFeatureHealth \/ Watch!StopMonitoring \/ Watch!HealthChanges
  BY <1>0, <1>9
  DEF Watch!SetFeatureHealth, Watch!StopMonitoring, Watch!HealthChanges, WatchCacheOK, WatchCallOK, WatchRoundOK,
      WatchRest
<1>10. ASSUME NEW l \in WatchLoops, Watch!StartMonitoring(l) \/ Watch!LoopEnds(l) \/ Watch!Adjust(l)
       PROVE  WatchCacheOK' /\ WatchCallOK' /\ WatchRoundOK' /\ WatchRest'
  <2>1. Watch!On \in DegRounds(WatchChecks) /\ Watch!Off \in DegRounds(WatchChecks)
    <3>1. Watch!Off \in DegRounds(WatchChecks)
      BY NatConstants DEF Watch!Off, DegRounds
    <3> QED BY <3>1, NatConstants, DegRoundStarts DEF Watch!On
  <2>2. \E r \in {Watch!On, Watch!Off} : degRound' = [degRound EXCEPT ![l] = r]
    BY <1>10 DEF Watch!StartMonitoring, Watch!LoopEnds, Watch!Adjust
  <2>3. WatchRoundOK'
    BY <1>0, <2>1, <2>2 DEF WatchRoundOK
  <2>4. Watch!Target(degRound[l].passed) \in Watch!Levels
    BY SMT DEF Watch!Target, Watch!Levels
  <2>5. degLevel' \in Watch!Levels /\ degEnabled' \in BOOLEAN
    BY <1>0, <1>10, <2>4
    DEF Watch!StartMonitoring, Watch!LoopEnds, Watch!Adjust, Watch!Adjusted, WatchRest
  <2>6. UNCHANGED <<degHealthy, degCache, degBackup, degCall, degUp, degSets>>
    BY <1>10 DEF Watch!StartMonitoring, Watch!LoopEnds, Watch!Adjust
  <2> QED BY <1>0, <2>3, <2>5, <2>6 DEF WatchCacheOK, WatchCallOK, WatchRest
<1>11. ASSUME NEW l \in WatchLoops, Watch!Check(l)
       PROVE  WatchCacheOK' /\ WatchCallOK' /\ WatchRoundOK' /\ WatchRest'
  <2>1. degRound[l] \in DegRounds(WatchChecks) /\ degRound[l].done < WatchChecks
    BY <1>0, <1>11 DEF Watch!Check, WatchRoundOK
  <2>2. PICK p \in {degRound[l].passed, degRound[l].passed + 1} :
            degRound' = [degRound EXCEPT ![l] = [degRound[l] EXCEPT !.done = @ + 1, !.passed = p]]
    <3> DEFINE q == IF degRound[l].done < degUp THEN degRound[l].passed + 1 ELSE degRound[l].passed
    <3>1. degRound' = [degRound EXCEPT ![l] = [degRound[l] EXCEPT !.done = @ + 1, !.passed = q]]
      BY <1>0, <1>11 DEF Watch!Check, WatchRoundOK, DegRounds
    <3> QED BY <3>1
  <2>3. [degRound[l] EXCEPT !.done = @ + 1, !.passed = p] \in DegRounds(WatchChecks)
    BY <2>1, NatConstants, DegRoundStep
  <2>4. WatchRoundOK'
    BY <1>0, <2>2, <2>3 DEF WatchRoundOK
  <2> QED BY <1>0, <1>11, <2>4 DEF Watch!Check, WatchCacheOK, WatchCallOK, WatchRest
<1>12. ASSUME NEW l \in Watch!Levels, Watch!SetLevel(l)
       PROVE  WatchCacheOK' /\ WatchCallOK' /\ WatchRoundOK' /\ WatchRest'
  <2>1. degSets' \in 0 .. DegMaxSets
    BY <1>0, <1>12, NatConstants DEF Watch!SetLevel, WatchRest
  <2> QED BY <1>0, <1>12, <2>1 DEF Watch!SetLevel, WatchCacheOK, WatchCallOK, WatchRoundOK, WatchRest
<1>13. CASE Watch!Tick
  <2>1. WatchCacheOK'
    <3>1. Watch!NoEntry \in DegEntries(WatchQuestions) /\ Watch!NoEntry.value = "none"
      BY NatConstants DEF Watch!NoEntry, DegEntries
    <3> DEFINE aged(k) == IF degCache[k].age + 1 >= DegTTL THEN Watch!NoEntry
                          ELSE [degCache[k] EXCEPT !.age = @ + 1]
    <3>2. ASSUME NEW k \in Watch!Keys
          PROVE  aged(k) \in DegEntries(WatchQuestions) /\ aged(k).value \in {degCache[k].value, "none"}
      <4>1. degCache[k] \in DegEntries(WatchQuestions)
        BY <1>0 DEF WatchCacheOK
      <4>2. CASE degCache[k].age + 1 >= DegTTL
        BY <3>1, <4>2
      <4>3. CASE ~(degCache[k].age + 1 >= DegTTL)
        BY <4>1, <4>3, NatConstants DEF DegEntries
      <4> QED BY <4>2, <4>3
    <3>3. degCache' = [k \in Watch!Keys |-> aged(k)]
      BY <1>13 DEF Watch!Tick
    <3> HIDE DEF aged
    <3> QED BY <1>0, <3>2, <3>3 DEF WatchCacheOK
  <2> QED BY <1>0, <1>13, <2>1 DEF Watch!Tick, WatchCallOK, WatchRoundOK, WatchRest
<1> QED
  BY <1>1, <1>2, <1>3, <1>4, <1>5, <1>6, <1>7, <1>8, <1>9, <1>10, <1>11, <1>12, <1>13
  DEF Watch!Next, Watch!Serving, Watch!Answer, Watch!Monitoring

LEMMA WatchInit == Watch!Init => WatchInv
<1> SUFFICES ASSUME Watch!Init PROVE WatchInv
  OBVIOUS
<1>1. Watch!NoEntry \in DegEntries(WatchQuestions) /\ Watch!NoEntry.value = "none"
  BY NatConstants DEF Watch!NoEntry, DegEntries
<1>2. WatchCacheOK
  BY <1>1 DEF Watch!Init, WatchCacheOK
<1>3. WatchCallOK
  BY DEF Watch!Init, Watch!NoCall, WatchCallOK, DegCalls
<1>4. WatchRoundOK
  BY NatConstants DEF Watch!Init, Watch!Off, WatchRoundOK, DegRounds
<1>5. WatchRest
  <2>1. WatchChecks \in 0 .. WatchChecks /\ 0 \in 0 .. DegMaxSets
    BY NatConstants
  <2> QED BY <2>1 DEF Watch!Init, Watch!Levels, WatchRest
<1> QED BY <1>2, <1>3, <1>4, <1>5 DEF WatchInv

-----------------------------------------------------------------------------
LEMMA CliServiceTold ==
    ASSUME CliServiceOK,
           \/ Client!ServiceBreaker!AllowRequest \/ Client!ServiceBreaker!RecordSuccess
           \/ Client!ServiceBreaker!RecordFailure \/ Client!ServiceBreaker!PassTime
           \/ UNCHANGED Client!serviceVars
    PROVE  CliServiceOK'
<1>0. CliServiceRecovery \in Nat /\ CliServiceThreshold \in Nat
  BY ProgressConfig
<1> USE <1>0
    DEF CliServiceOK, Client!ServiceBreaker!BreakerTypeOK, Client!ServiceBreaker!States, Client!ServiceBreaker!OpenedLongAgo,
        Client!ServiceBreaker!FailedLongAgo, Client!ServiceBreaker!ReleaseSlot
<1>1. CASE Client!ServiceBreaker!AllowRequest
  BY <1>1 DEF Client!ServiceBreaker!AllowRequest
<1>2. CASE Client!ServiceBreaker!RecordSuccess
  BY <1>2 DEF Client!ServiceBreaker!RecordSuccess
<1>3. CASE Client!ServiceBreaker!RecordFailure
  BY <1>3 DEF Client!ServiceBreaker!RecordFailure
<1>4. CASE Client!ServiceBreaker!PassTime
  BY <1>4 DEF Client!ServiceBreaker!PassTime
<1>5. CASE UNCHANGED Client!serviceVars
  BY <1>5 DEF Client!serviceVars
<1> QED BY <1>1, <1>2, <1>3, <1>4, <1>5

LEMMA CliMethodTold ==
    ASSUME CliMethodOK,
           \/ Client!MethodBreaker!AllowRequest \/ Client!MethodBreaker!RecordSuccess
           \/ Client!MethodBreaker!RecordFailure \/ Client!MethodBreaker!PassTime
           \/ UNCHANGED Client!methodVars
    PROVE  CliMethodOK'
<1>0. CliMethodRecovery \in Nat /\ CliMethodThreshold \in Nat
  BY ProgressConfig
<1> USE <1>0
    DEF CliMethodOK, Client!MethodBreaker!BreakerTypeOK, Client!MethodBreaker!States, Client!MethodBreaker!OpenedLongAgo,
        Client!MethodBreaker!FailedLongAgo, Client!MethodBreaker!ReleaseSlot
<1>1. CASE Client!MethodBreaker!AllowRequest
  BY <1>1 DEF Client!MethodBreaker!AllowRequest
<1>2. CASE Client!MethodBreaker!RecordSuccess
  BY <1>2 DEF Client!MethodBreaker!RecordSuccess
<1>3. CASE Client!MethodBreaker!RecordFailure
  BY <1>3 DEF Client!MethodBreaker!RecordFailure
<1>4. CASE Client!MethodBreaker!PassTime
  BY <1>4 DEF Client!MethodBreaker!PassTime
<1>5. CASE UNCHANGED Client!methodVars
  BY <1>5 DEF Client!methodVars
<1> QED BY <1>1, <1>2, <1>3, <1>4, <1>5

LEMMA CliRetryTold ==
    ASSUME CliRetryOK,
           \/ Client!RetryBreaker!AllowRequest \/ Client!RetryBreaker!RecordSuccess
           \/ Client!RetryBreaker!RecordFailure \/ Client!RetryBreaker!PassTime
           \/ UNCHANGED Client!retryVars
    PROVE  CliRetryOK'
<1>0. CliRetryRecovery \in Nat /\ CliRetryThreshold \in Nat
  BY ProgressConfig
<1> USE <1>0
    DEF CliRetryOK, Client!RetryBreaker!BreakerTypeOK, Client!RetryBreaker!States, Client!RetryBreaker!OpenedLongAgo,
        Client!RetryBreaker!FailedLongAgo, Client!RetryBreaker!ReleaseSlot
<1>1. CASE Client!RetryBreaker!AllowRequest
  BY <1>1 DEF Client!RetryBreaker!AllowRequest
<1>2. CASE Client!RetryBreaker!RecordSuccess
  BY <1>2 DEF Client!RetryBreaker!RecordSuccess
<1>3. CASE Client!RetryBreaker!RecordFailure
  BY <1>3 DEF Client!RetryBreaker!RecordFailure
<1>4. CASE Client!RetryBreaker!PassTime
  BY <1>4 DEF Client!RetryBreaker!PassTime
<1>5. CASE UNCHANGED Client!retryVars
  BY <1>5 DEF Client!retryVars
<1> QED BY <1>1, <1>2, <1>3, <1>4, <1>5

LEMMA CliServiceInit == Client!ServiceBreaker!BreakerInit => CliServiceOK
<1>1. CliServiceRecovery \in Nat /\ CliServiceThreshold \in Nat
  BY ProgressConfig
<1> QED
  BY <1>1 DEF CliServiceOK, Client!ServiceBreaker!BreakerInit, Client!ServiceBreaker!BreakerTypeOK, Client!ServiceBreaker!States,
     Client!ServiceBreaker!OpenedLongAgo, Client!ServiceBreaker!FailedLongAgo

LEMMA CliMethodInit == Client!MethodBreaker!BreakerInit => CliMethodOK
<1>1. CliMethodRecovery \in Nat /\ CliMethodThreshold \in Nat
  BY ProgressConfig
<1> QED
  BY <1>1 DEF CliMethodOK, Client!MethodBreaker!BreakerInit, Client!MethodBreaker!BreakerTypeOK, Client!MethodBreaker!States,
     Client!MethodBreaker!OpenedLongAgo, Client!MethodBreaker!FailedLongAgo

LEMMA CliRetryInit == Client!RetryBreaker!BreakerInit => CliRetryOK
<1>1. CliRetryRecovery \in Nat /\ CliRetryThreshold \in Nat
  BY ProgressConfig
<1> QED
  BY <1>1 DEF CliRetryOK, Client!RetryBreaker!BreakerInit, Client!RetryBreaker!BreakerTypeOK, Client!RetryBreaker!States,
     Client!RetryBreaker!OpenedLongAgo, Client!RetryBreaker!FailedLongAgo

LEMMA CliGrants == CliInv => Client!TypeOK /\ Client!NoLockout
<1> SUFFICES ASSUME CliInv PROVE Client!TypeOK /\ Client!NoLockout
  OBVIOUS
<1>1. Client!TypeOK
  BY DEF CliInv, CliServiceOK, CliMethodOK, CliRetryOK, CliCalls, Client!TypeOK
<1>2. cliSOpened >= CliServiceRecovery => Client!ServiceBreaker!Granted
  BY DEF CliInv, CliServiceOK, Client!ServiceBreaker!Granted, Client!ServiceBreaker!RecoveryDue,
         Client!ServiceBreaker!CanMakeRequest
<1>3. cliMOpened >= CliMethodRecovery => Client!MethodBreaker!Granted
  BY DEF CliInv, CliMethodOK, Client!MethodBreaker!Granted, Client!MethodBreaker!RecoveryDue,
         Client!MethodBreaker!CanMakeRequest
<1>4. cliROpened >= CliRetryRecovery => Client!RetryBreaker!Granted
  BY DEF CliInv, CliRetryOK, Client!RetryBreaker!Granted, Client!RetryBreaker!RecoveryDue,
         Client!RetryBreaker!CanMakeRequest
<1> QED BY <1>1, <1>2, <1>3, <1>4 DEF Client!NoLockout

\* A step of one call replaces its record by another of its type.
LEMMA CliCallStep ==
    ASSUME cliCall \in [CliCallers -> CliCalls], NEW c \in CliCallers, Client!Step(c)
    PROVE  cliCall' \in [CliCallers -> CliCalls]
<1>1. CliAttempts \in Nat \ {0} /\ cliCall[c] \in CliCalls
  BY NatConstants
<1>2. ASSUME NEW r \in CliCalls, cliCall' = [cliCall EXCEPT ![c] = r]
      PROVE  cliCall' \in [CliCallers -> CliCalls]
  BY <1>2
<1>3. ASSUME NEW pc2 \in {"service", "method", "rpc", "tellService", "tellMethod", "tellRetry"},
             NEW o \in Client!Outcomes \union {"none"}
      PROVE  /\ [cliCall[c] EXCEPT !.pc = pc2] \in CliCalls
             /\ [cliCall[c] EXCEPT !.pc = pc2, !.outcome = o] \in CliCalls
             /\ [cliCall[c] EXCEPT !.outcome = o, !.pc = pc2] \in CliCalls
  BY <1>1 DEF CliCalls
<1>4. Client!Idle \in CliCalls
  BY <1>1 DEF CliCalls, Client!Idle
<1>5. CASE Client!End(c)
  BY <1>4, <1>5 DEF Client!End
<1>6. ASSUME NEW pc2 \in {"service", "method", "rpc", "tellService", "tellMethod", "tellRetry"},
             Client!Goto(c, pc2)
      PROVE  cliCall' \in [CliCallers -> CliCalls]
  BY <1>1, <1>2, <1>3, <1>6 DEF Client!Goto
<1>7. ASSUME NEW o \in Client!Outcomes \union {"none"}, Client!Raise(c, o)
      PROVE  cliCall' \in [CliCallers -> CliCalls]
  <2>1. cliCall' = [cliCall EXCEPT ![c] = [cliCall[c] EXCEPT !.pc = "tellRetry", !.outcome = o]]
    BY <1>7 DEF Client!Raise
  <2> QED BY <1>2, <1>3, <2>1
<1>8. {"result", "broken", "error"} = Client!Outcomes
  BY DEF Client!Outcomes
<1>9. CASE Client!AskRetry(c)
  <2>1. CASE Client!RetryBreaker!Granted
    <3>1. [Client!Idle EXCEPT !.pc = "service", !.attempt = 1] \in CliCalls
      <4>1. 1 \in 0 .. CliAttempts
        BY <1>1
      <4>2. ASSUME NEW r \in CliCalls PROVE [r EXCEPT !.pc = "service", !.attempt = 1] \in CliCalls
        BY <4>1, <4>2 DEF CliCalls
      <4> QED BY <1>4, <4>2
    <3>2. cliCall' = [cliCall EXCEPT ![c] = [Client!Idle EXCEPT !.pc = "service", !.attempt = 1]]
      BY <1>9, <2>1 DEF Client!AskRetry
    <3> QED BY <1>2, <3>1, <3>2
  <2>2. CASE ~Client!RetryBreaker!Granted
    BY <1>5, <1>9, <2>2 DEF Client!AskRetry
  <2> QED BY <2>1, <2>2
<1>10. CASE Client!AskService(c) \/ Client!AskMethod(c)
  BY <1>6, <1>7, <1>8, <1>10 DEF Client!AskService, Client!AskMethod
<1>11. CASE Client!Continuation(c)
  <2>1. CASE Client!Raise(c, "error")
    BY <1>7, <1>8, <2>1
  <2>2. CASE \E o \in {"result", "error", "broken"} :
                cliCall' = [cliCall EXCEPT ![c].outcome = o, ![c].pc = "tellService"]
    <3>1. PICK o \in {"result", "error", "broken"} :
              cliCall' = [cliCall EXCEPT ![c] = [cliCall[c] EXCEPT !.outcome = o, !.pc = "tellService"]]
      BY <2>2
    <3> QED BY <1>2, <1>3, <1>8, <3>1
  <2> QED BY <1>11, <2>1, <2>2 DEF Client!Continuation
<1>12. CASE Client!TellService(c)
  BY <1>6, <1>12 DEF Client!TellService
<1>13. CASE Client!TellMethod(c)
  <2>1. CASE cliCall[c].outcome = "result" /\ cliMetrics
    <3>1. cliCall' = [cliCall EXCEPT ![c] = [cliCall[c] EXCEPT !.pc = "tellService", !.outcome = "error"]]
      BY <1>13, <2>1 DEF Client!TellMethod, Client!RecordingRaises
    <3> QED BY <1>2, <1>3, <1>8, <3>1
  <2>2. CASE ~(cliCall[c].outcome = "result" /\ cliMetrics)
    <3>1. Client!Raise(c, IF cliMetrics THEN "error" ELSE cliCall[c].outcome)
      BY <1>13, <2>2 DEF Client!TellMethod, Client!RecordingRaises
    <3>2. cliCall[c].outcome \in Client!Outcomes \union {"none"}
      BY <1>1 DEF CliCalls
    <3> QED BY <1>7, <1>8, <3>1, <3>2
  <2> QED BY <2>1, <2>2
<1>14. CASE Client!TellRetry(c)
  <2>1. CASE Client!End(c)
    BY <1>5, <2>1
  <2>2. CASE ~Client!End(c)
    <3> DEFINE r == [cliCall[c] EXCEPT !.pc = "service", !.outcome = "none", !.attempt = @ + 1]
    <3>1. cliCall[c].attempt < CliAttempts /\ cliCall' = [cliCall EXCEPT ![c] = r]
      BY <1>14, <2>2 DEF Client!TellRetry, Client!Retries
    <3>2. cliCall[c].attempt \in Nat /\ cliCall[c].attempt + 1 \in 0 .. CliAttempts
      BY <1>1, <3>1 DEF CliCalls
    <3>3. r \in CliCalls
      BY <1>1, <3>2 DEF CliCalls
    <3> HIDE DEF r
    <3> QED BY <1>2, <3>1, <3>3
  <2> QED BY <2>1, <2>2
<1> QED
  BY <1>9, <1>10, <1>11, <1>12, <1>13, <1>14 DEF Client!Step

\* Each breaker is asked, told or left alone by every step.
LEMMA CliStep == ASSUME CliInv, [Client!Next]_cliVars PROVE CliInv'
<1>0. /\ CliServiceOK /\ CliMethodOK /\ CliRetryOK /\ cliCall \in [CliCallers -> CliCalls]
      /\ cliMetrics \in BOOLEAN /\ cliService \in {"up", "down", "strict"}
  BY DEF CliInv
<1>1. ASSUME NEW c \in CliCallers, Client!Step(c) PROVE CliInv'
  <2>1. UNCHANGED <<cliMetrics, cliService>>
    BY <1>1
    DEF Client!Step, Client!AskRetry, Client!AskService, Client!AskMethod, Client!Continuation,
        Client!TellService, Client!TellMethod, Client!TellRetry
  <2>2. CliServiceOK'
    BY <1>0, <1>1, CliServiceTold
    DEF Client!Step, Client!AskRetry, Client!AskService, Client!AskMethod, Client!Continuation,
        Client!TellService, Client!TellMethod, Client!TellRetry
  <2>3. CliMethodOK'
    BY <1>0, <1>1, CliMethodTold
    DEF Client!Step, Client!AskRetry, Client!AskService, Client!AskMethod, Client!Continuation,
        Client!TellService, Client!TellMethod, Client!TellRetry, Client!MethodHears
  <2>4. CliRetryOK'
    BY <1>0, <1>1, CliRetryTold
    DEF Client!Step, Client!AskRetry, Client!AskService, Client!AskMethod, Client!Continuation,
        Client!TellService, Client!TellMethod, Client!TellRetry, Client!RetryHears
  <2>5. cliCall' \in [CliCallers -> CliCalls]
    BY <1>0, <1>1, CliCallStep
  <2> QED BY <1>0, <2>1, <2>2, <2>3, <2>4, <2>5 DEF CliInv
<1>2. CASE Client!Tick
  BY <1>0, <1>2, CliServiceTold, CliMethodTold, CliRetryTold DEF Client!Tick, CliInv
<1>3. CASE Client!ServiceChanges
  BY <1>0, <1>3, CliServiceTold, CliMethodTold, CliRetryTold DEF Client!ServiceChanges, CliInv
<1>4. CASE UNCHANGED cliVars
  <2>1. /\ UNCHANGED <<cliCall, cliMetrics, cliService>>
        /\ UNCHANGED Client!serviceVars /\ UNCHANGED Client!methodVars /\ UNCHANGED Client!retryVars
    BY <1>4 DEF cliVars, Client!serviceVars, Client!methodVars, Client!retryVars
  <2> QED BY <1>0, <2>1, CliServiceTold, CliMethodTold, CliRetryTold DEF CliInv
<1> QED BY <1>1, <1>2, <1>3, <1>4 DEF Client!Next

LEMMA CliInit == Client!Init => CliInv
<1> SUFFICES ASSUME Client!Init PROVE CliInv
  OBVIOUS
<1>1. CliServiceOK /\ CliMethodOK /\ CliRetryOK
  BY CliServiceInit, CliMethodInit, CliRetryInit DEF Client!Init
<1>2. Client!Idle \in CliCalls
  BY NatConstants DEF CliCalls, Client!Idle
<1> QED BY <1>1, <1>2 DEF Client!Init, CliInv

-----------------------------------------------------------------------------
\* A queue never grows beyond its size.
LEMMA LogPut ==
    ASSUME NEW q \in Seq(Nat), Len(q) <= LogMaxQueue, NEW n \in Nat
    PROVE  Logs!Put(q, n) \in Seq(Nat) /\ Len(Logs!Put(q, n)) <= LogMaxQueue
<1>0. LogMaxQueue \in Nat /\ Len(q) \in Nat
  BY NatConstants, LenProperties
<1>1. Append(q, n) \in Seq(Nat) /\ Len(Append(q, n)) = Len(q) + 1
  BY AppendProperties
<1> QED BY <1>0, <1>1 DEF Logs!Put

LEMMA LogEmit ==
    ASSUME Logs!TypeOK, NEW k \in {1, 2}, NEW on, NEW listeners, Logs!emit(k, on, listeners, logQueue)
    PROVE  /\ logRecords' \in Nat /\ logQueue' \in [LogClients -> Seq(Nat)]
           /\ \A c \in LogClients : Len(logQueue'[c]) <= LogMaxQueue
<1>1. logRecords \in Nat /\ logRecords + 1 \in Nat /\ logRecords + 2 \in Nat /\ logRecords' = logRecords + k
  BY DEF Logs!TypeOK, Logs!emit
<1> DEFINE one(c) == Logs!Put(logQueue[c], logRecords + 1)
           new(c) == IF ~on \/ c \notin listeners THEN logQueue[c]
                     ELSE IF k = 1 THEN one(c) ELSE Logs!Put(one(c), logRecords + 2)
<1>2. logQueue' = [c \in LogClients |-> new(c)]
  BY DEF Logs!emit
<1>3. ASSUME NEW c \in LogClients PROVE new(c) \in Seq(Nat) /\ Len(new(c)) <= LogMaxQueue
  <2>1. logQueue[c] \in Seq(Nat) /\ Len(logQueue[c]) <= LogMaxQueue
    BY DEF Logs!TypeOK
  <2>2. one(c) \in Seq(Nat) /\ Len(one(c)) <= LogMaxQueue
    BY <1>1, <2>1, LogPut
  <2> HIDE DEF one
  <2>3. LET two == Logs!Put(one(c), logRecords + 2) IN two \in Seq(Nat) /\ Len(two) <= LogMaxQueue
    BY <1>1, <2>2, LogPut
  <2> QED BY <2>1, <2>2, <2>3
<1> HIDE DEF new
<1> QED BY <1>1, <1>2, <1>3

LEMMA LogStep == ASSUME Logs!TypeOK, [Logs!Next]_logVars PROVE Logs!TypeOK'
<1>1. CASE UNCHANGED logVars
  BY <1>1 DEF logVars, Logs!TypeOK
<1>2. CASE Logs!setup_logging_off \/ Logs!LoggingStreamerServicer
  BY <1>2 DEF Logs!setup_logging_off, Logs!LoggingStreamerServicer, Logs!TypeOK
<1>3. CASE Logs!setup_grpc_logging
  <2>1. Logs!emit(2, TRUE, logSubscribed, logQueue)
    BY <1>3 DEF Logs!setup_grpc_logging
  <2> QED BY <1>3, <2>1, LogEmit DEF Logs!setup_grpc_logging, Logs!TypeOK
<1>4. CASE Logs!LogRecord
  <2>1. Logs!emit(1, logAttached, logSubscribed, logQueue)
    BY <1>4 DEF Logs!LogRecord
  <2> QED BY <1>4, <2>1, LogEmit DEF Logs!LogRecord, Logs!TypeOK
<1>5. ASSUME NEW c \in LogClients, Logs!StreamLogs(c) PROVE Logs!TypeOK'
  <2>1. CASE logServicer = "mute"
    <3>1. Logs!emit(1, logAttached, logSubscribed, logQueue)
      BY <1>5, <2>1 DEF Logs!StreamLogs
    <3> QED BY <1>5, <2>1, <3>1, LogEmit DEF Logs!StreamLogs, Logs!TypeOK
  <2>2. CASE logServicer # "mute"
    <3>1. Logs!emit(2, logAttached, logSubscribed \union {c}, logQueue)
      BY <1>5, <2>2 DEF Logs!StreamLogs
    <3> QED BY <1>5, <2>2, <3>1, LogEmit DEF Logs!StreamLogs, Logs!TypeOK
  <2> QED BY <2>1, <2>2
<1>6. ASSUME NEW c \in LogClients, Logs!Yield(c) PROVE Logs!TypeOK'
  <2>1. logQueue' = [logQueue EXCEPT ![c] = Tail(logQueue[c])] /\ logQueue[c] # <<>>
    BY <1>6 DEF Logs!Yield
  <2>2. logQueue[c] \in Seq(Nat) /\ Len(logQueue[c]) \in Nat /\ Len(logQueue[c]) <= LogMaxQueue
    BY LenProperties DEF Logs!TypeOK
  <2>3. Tail(logQueue[c]) \in Seq(Nat) /\ Len(Tail(logQueue[c])) = Len(logQueue[c]) - 1
    BY <2>1, <2>2, HeadTailProperties
  <2>4. logQueue' \in [LogClients -> Seq(Nat)] /\ \A d \in LogClients : Len(logQueue'[d]) <= LogMaxQueue
    BY <2>1, <2>2, <2>3, NatConstants DEF Logs!TypeOK
  <2> QED BY <1>6, <2>4 DEF Logs!Yield, Logs!TypeOK
<1>7. ASSUME NEW c \in LogClients, Logs!Leave(c) PROVE Logs!TypeOK'
  <2>1. Logs!emit(2, logAttached, logSubscribed \ {c}, logQueue)
    BY <1>7 DEF Logs!Leave
  <2> QED BY <1>7, <2>1, LogEmit DEF Logs!Leave, Logs!TypeOK
<1>8. ASSUME NEW c \in LogClients, Logs!Disconnect(c) PROVE Logs!TypeOK'
  BY <1>8 DEF Logs!Disconnect, Logs!TypeOK
<1> QED
  BY <1>1, <1>2, <1>3, <1>4, <1>5, <1>6, <1>7, <1>8 DEF Logs!Next, Logs!Step

-----------------------------------------------------------------------------
(* Idempotency: the requests of one key are executed once, for any number  *)
(* of them, with and without Redis, unless a response was not cached, a    *)
(* lock expired under its owner or was taken with a response cached.       *)

\* Where a request is sure of its lock: not once the script that may have deleted it has
\* failed, but again when it has read its own token.
OnceHolding == {"handling", "succeeded", "failed", "release", "deleting"}

\* The first named cause.
OnceExpired == "expired" \in onceCauses
OnceCalm == onceCauses = {}

\* A request past its claim holds the lock.
HoldersHoldLock == \A r \in OnceRequests : oncePc[r] \in OnceHolding => onceLock = r

\* Until the one that holds the lock stores its response there is none.
NotYetCached ==
    \A r \in OnceRequests :
        oncePc[r] \in {"handling", "succeeded", "failed"} => onceCache = Once!None

\* A success is in the cache, or behind the lock of the request on its way there.
SuccessIsVisible ==
    \A r \in onceExecuted : onceCache = r \/ (onceLock = r /\ oncePc[r] = "succeeded")

OneSuccess == \A r, s \in onceExecuted : r = s

\* The parts that hold only while none of the causes is there.
OnceCalmInv == NotYetCached /\ SuccessIsVisible /\ OneSuccess

\* The inductive invariant: without Redis no lock expires and none is claimed late; unless one
\* expires the lock excludes; and without a cause lock and cache exclude a second success.
OnceInv ==
    /\ Once!TypeOK
    /\ onceBackend = "memory" => onceCauses \subseteq {"uncached"}
    /\ ~OnceExpired => HoldersHoldLock
    /\ OnceCalm => OnceCalmInv

LEMMA OnceInit == ASSUME Once!None \notin OnceRequests PROVE Once!Init => OnceInv
  BY
  DEF Once!Init, OnceInv, Once!TypeOK, OnceCalm, OnceExpired, OnceCalmInv, HoldersHoldLock,
      NotYetCached, SuccessIsVisible, OneSuccess, OnceHolding, Once!None, Once!Causes

LEMMA OnceTypeStep == ASSUME Once!TypeOK, [Once!Next]_onceVars PROVE Once!TypeOK'
<1> USE DEF Once!TypeOK, Once!Goto, Once!Answer, Once!End, Once!Because, Once!Causes
<1>1. CASE UNCHANGED onceVars
  BY <1>1 DEF onceVars
<1>2. CASE Once!LockExpires \/ Once!CacheExpires
  BY <1>2 DEF Once!LockExpires, Once!CacheExpires
<1>3. ASSUME NEW r \in OnceRequests, Once!GetCached(r) \/ Once!ReadLock(r) \/ Once!LookRaises(r)
      PROVE  Once!TypeOK'
  BY <1>3 DEF Once!GetCached, Once!ReadLock, Once!LookRaises, Once!FromCache, Once!FromClaim
<1>4. ASSUME NEW r \in OnceRequests, Once!Claim(r) \/ Once!ClaimRaises(r) PROVE Once!TypeOK'
  BY <1>4 DEF Once!Claim, Once!ClaimRaises
<1>5. ASSUME NEW r \in OnceRequests, NEW b \in BOOLEAN,
             Once!StoreCached(r) \/ Once!SkipCache(r) \/ Once!StoreFails(r, b) \/ Once!HandlerEnds(r, b)
      PROVE  Once!TypeOK'
  BY <1>5 DEF Once!StoreCached, Once!SkipCache, Once!StoreFails, Once!HandlerEnds
<1>6. ASSUME NEW r \in OnceRequests, NEW b \in BOOLEAN,
             \/ Once!Release(r) \/ Once!ScriptFails(r) \/ Once!ReleaseSkipped(r)
             \/ Once!ReadToken(r, b) \/ Once!DeleteLock(r, b)
      PROVE  Once!TypeOK'
  BY <1>6
  DEF Once!Release, Once!ScriptFails, Once!ReleaseSkipped, Once!ReadToken, Once!DeleteLock,
      Once!Released
<1>7. ASSUME NEW r \in OnceRequests, Once!EndMemory(r) \/ Once!FailMemory(r) PROVE Once!TypeOK'
  BY <1>7 DEF Once!EndMemory, Once!FailMemory
<1>8. ASSUME NEW r \in OnceRequests, NEW b \in BOOLEAN, Once!DispatchMemory(r, b)
      PROVE  Once!TypeOK'
  BY <1>8 DEF Once!DispatchMemory, Once!FromCache, Once!FromClaim
<1>9. ASSUME NEW r \in OnceRequests, Once!Crash(r) PROVE Once!TypeOK'
  BY <1>9 DEF Once!Crash
<1>10. ASSUME NEW r \in OnceRequests, NEW how \in {"returned", "raised"}, Once!RenewEnds(r, how)
      PROVE  Once!TypeOK'
  BY <1>10 DEF Once!RenewEnds
<1> HIDE DEF Once!TypeOK, Once!Goto, Once!Answer, Once!End, Once!Because, Once!Causes
<1> QED
  BY <1>1, <1>2, <1>3, <1>4, <1>5, <1>6, <1>7, <1>8, <1>9, <1>10 DEF Once!Next, Once!Step

\* Causes are remembered, and the memory of the process knows one of them only.
LEMMA OnceCauseStep ==
    ASSUME [Once!Next]_onceVars
    PROVE  /\ onceCauses \subseteq onceCauses' /\ onceBackend' = onceBackend
           /\ onceBackend = "memory" => onceCauses' \subseteq onceCauses \union {"uncached"}
<1> USE DEF Once!Because
<1>1. CASE UNCHANGED onceVars
  BY <1>1 DEF onceVars
<1>2. CASE Once!LockExpires \/ Once!CacheExpires
  BY <1>2 DEF Once!LockExpires, Once!CacheExpires
<1>3. ASSUME NEW r \in OnceRequests, Once!Step(r)
      PROVE  /\ onceCauses \subseteq onceCauses' /\ onceBackend' = onceBackend
             /\ onceBackend = "memory" => onceCauses' \subseteq onceCauses \union {"uncached"}
  BY <1>3
  DEF Once!Step, Once!GetCached, Once!Claim, Once!ClaimRaises, Once!ReadLock,
      Once!LookRaises, Once!StoreCached, Once!SkipCache, Once!Release, Once!ScriptFails,
      Once!ReleaseSkipped, Once!EndMemory, Once!FailMemory, Once!HandlerEnds,
      Once!StoreFails, Once!ReadToken, Once!DeleteLock, Once!DispatchMemory
<1>4. ASSUME NEW r \in OnceRequests,
             Once!Crash(r) \/ \E how \in {"returned", "raised"} : Once!RenewEnds(r, how)
      PROVE  /\ onceCauses \subseteq onceCauses' /\ onceBackend' = onceBackend
             /\ onceBackend = "memory" => onceCauses' \subseteq onceCauses \union {"uncached"}
  BY <1>4 DEF Once!Crash, Once!RenewEnds
<1> QED BY <1>1, <1>2, <1>3, <1>4 DEF Once!Next

\* A request claims a lock that is free, and gives up only its own, unless it deletes one
\* that it has read before.
LEMMA OnceLockStep ==
    ASSUME Once!TypeOK, NEW r \in OnceRequests, Once!Step(r)
    PROVE  /\ \A s \in OnceRequests : s # r => oncePc'[s] = oncePc[s]
           /\ oncePc'[r] \in OnceHolding => onceLock' = r \/ (oncePc[r] \in OnceHolding /\ UNCHANGED onceLock)
           /\ \/ onceLock \in {r, Once!None}
              \/ UNCHANGED onceLock
              \/ oncePc[r] \in OnceHolding /\ onceBackend = "memory"
              \/ oncePc[r] = "deleting"
<1> USE DEF Once!TypeOK, OnceHolding, Once!Goto, Once!Answer, Once!End
<1>1. CASE Once!GetCached(r) \/ Once!ReadLock(r) \/ Once!LookRaises(r)
  BY <1>1 DEF Once!GetCached, Once!ReadLock, Once!LookRaises
<1>2. CASE Once!Claim(r) \/ Once!ClaimRaises(r)
  BY <1>2 DEF Once!Claim, Once!ClaimRaises, Once!Claimable
<1>3. ASSUME NEW b \in BOOLEAN,
             Once!StoreCached(r) \/ Once!SkipCache(r) \/ Once!StoreFails(r, b) \/ Once!HandlerEnds(r, b)
      PROVE  /\ \A s \in OnceRequests : s # r => oncePc'[s] = oncePc[s]
             /\ oncePc[r] \in OnceHolding /\ UNCHANGED onceLock
  BY <1>3 DEF Once!StoreCached, Once!SkipCache, Once!StoreFails, Once!HandlerEnds
<1>4. CASE Once!Release(r) \/ Once!ScriptFails(r) \/ Once!ReleaseSkipped(r)
  BY <1>4 DEF Once!Release, Once!ScriptFails, Once!ReleaseSkipped, Once!Released
<1>5. ASSUME NEW b \in BOOLEAN, Once!ReadToken(r, b)
      PROVE  /\ \A s \in OnceRequests : s # r => oncePc'[s] = oncePc[s]
             /\ oncePc'[r] \in OnceHolding => onceLock' = r
             /\ UNCHANGED onceLock
  BY <1>5 DEF Once!ReadToken
<1>6. ASSUME NEW b \in BOOLEAN, Once!DeleteLock(r, b)
      PROVE  /\ \A s \in OnceRequests : s # r => oncePc'[s] = oncePc[s]
             /\ oncePc'[r] \notin OnceHolding
             /\ oncePc[r] = "deleting"
  BY <1>6 DEF Once!DeleteLock
<1>7. CASE Once!EndMemory(r) \/ Once!FailMemory(r)
  BY <1>7 DEF Once!EndMemory, Once!FailMemory
<1>8. ASSUME NEW b \in BOOLEAN, Once!DispatchMemory(r, b)
      PROVE  /\ \A s \in OnceRequests : s # r => oncePc'[s] = oncePc[s]
             /\ oncePc'[r] \in OnceHolding => onceLock' = r
             /\ onceLock = Once!None \/ UNCHANGED onceLock
  BY <1>8 DEF Once!DispatchMemory
<1> HIDE DEF Once!TypeOK, OnceHolding, Once!Goto, Once!Answer, Once!End
<1> QED BY <1>1, <1>2, <1>3, <1>4, <1>5, <1>6, <1>7, <1>8 DEF Once!Step

LEMMA OnceLockKept ==
    ASSUME Once!None \notin OnceRequests, Once!TypeOK, HoldersHoldLock, ~OnceExpired',
           [Once!Next]_onceVars
    PROVE  HoldersHoldLock'
<1>1. CASE UNCHANGED onceVars
  BY <1>1 DEF HoldersHoldLock, onceVars
<1>2. CASE Once!LockExpires
  <2>1. ~Once!Holds(onceLock)
    BY <1>2 DEF Once!LockExpires, Once!Because, OnceExpired
  <2>2. ASSUME NEW s \in OnceRequests PROVE oncePc[s] \notin OnceHolding
    BY <2>1 DEF HoldersHoldLock, OnceHolding, Once!Holds, Once!Claiming
  <2> QED BY <1>2, <2>2 DEF Once!LockExpires, HoldersHoldLock
<1>3. CASE Once!CacheExpires
  BY <1>3 DEF Once!CacheExpires, HoldersHoldLock
<1>4. ASSUME NEW r \in OnceRequests, Once!Step(r) PROVE HoldersHoldLock'
  <2> SUFFICES ASSUME NEW s \in OnceRequests, oncePc'[s] \in OnceHolding PROVE onceLock' = s
    BY DEF HoldersHoldLock
  <2>1. CASE s = r
    BY <1>4, <2>1, OnceLockStep DEF HoldersHoldLock
  <2>2. CASE s # r
    <3>1. onceLock = s
      BY <1>4, <2>2, OnceLockStep DEF HoldersHoldLock
    <3>2. oncePc[r] \notin OnceHolding /\ "deleting" \in OnceHolding
      BY <2>2, <3>1 DEF HoldersHoldLock, OnceHolding
    <3> QED BY <1>4, <2>2, <3>1, <3>2, OnceLockStep
  <2> QED BY <2>1, <2>2
<1>5. ASSUME NEW r \in OnceRequests, Once!Crash(r) PROVE HoldersHoldLock'
  BY <1>5 DEF Once!TypeOK, Once!Crash, Once!Goto, HoldersHoldLock, OnceHolding
<1>6. ASSUME NEW r \in OnceRequests, NEW how \in {"returned", "raised"}, Once!RenewEnds(r, how)
      PROVE  HoldersHoldLock'
  BY <1>6 DEF Once!RenewEnds, HoldersHoldLock
<1> QED BY <1>1, <1>2, <1>3, <1>4, <1>5, <1>6 DEF Once!Next

(* What each step leaves of the exclusion, if no cause is there after it   *)

\* Look-ups, and what follows the store, touch neither cache nor successes.
LEMMA LooksKeep ==
    ASSUME Once!TypeOK, Once!None \notin OnceRequests, HoldersHoldLock, OnceCalmInv,
           NEW r \in OnceRequests, NEW b \in BOOLEAN,
           \/ Once!GetCached(r) \/ Once!ReadLock(r) \/ Once!LookRaises(r) \/ Once!ClaimRaises(r)
           \/ Once!Release(r) \/ Once!ScriptFails(r) \/ Once!ReleaseSkipped(r)
           \/ Once!ReadToken(r, b) \/ Once!DeleteLock(r, b)
    PROVE  OnceCalmInv'
<1>1. /\ UNCHANGED <<onceCache, onceExecuted>>
      /\ oncePc[r] \notin {"handling", "succeeded", "failed"}
      /\ \E p \in {"done", "missed", "reading", "deleting"} : oncePc' = [oncePc EXCEPT ![r] = p]
  BY
  DEF Once!GetCached, Once!ReadLock, Once!LookRaises, Once!ClaimRaises, Once!Release,
      Once!ScriptFails, Once!ReleaseSkipped, Once!ReadToken, Once!DeleteLock, Once!Goto, Once!End
<1>2. ASSUME NEW s \in OnceRequests, onceLock = s, oncePc[s] = "succeeded" PROVE onceLock' = s
  <2>1. s # r /\ oncePc[r] \notin OnceHolding
    BY <1>1, <1>2 DEF HoldersHoldLock
  <2> QED
    BY <1>2, <2>1
    DEF Once!GetCached, Once!ReadLock, Once!LookRaises, Once!ClaimRaises, Once!Release,
        Once!ScriptFails, Once!ReleaseSkipped, Once!ReadToken, Once!DeleteLock, OnceHolding
<1>3. \A s \in OnceRequests :
         \/ oncePc'[s] = oncePc[s]
         \/ {oncePc[s], oncePc'[s]} \intersect {"handling", "succeeded", "failed"} = {}
  BY <1>1 DEF Once!TypeOK
<1>4. NotYetCached'
  BY <1>1, <1>3 DEF OnceCalmInv, NotYetCached
<1>5. SuccessIsVisible' /\ OneSuccess'
  BY <1>1, <1>2, <1>3 DEF Once!TypeOK, OnceCalmInv, SuccessIsVisible, OneSuccess
<1> QED BY <1>4, <1>5 DEF OnceCalmInv

\* A claim succeeds on a free lock and, without a cause, an empty cache: then nothing was
\* executed before.
LEMMA ClaimKeeps ==
    ASSUME Once!TypeOK, Once!None \notin OnceRequests, HoldersHoldLock, OnceCalmInv,
           NEW r \in OnceRequests, Once!Claim(r), OnceCalm'
    PROVE  OnceCalmInv'
<1>1. CASE onceLock = Once!None
  <2>1. onceCache = Once!None /\ onceExecuted = {}
    BY <1>1
    DEF Once!TypeOK, OnceCalmInv, SuccessIsVisible, Once!Claim, Once!Claimable, Once!Because,
        OnceCalm
  <2> QED
    BY <1>1, <2>1
    DEF Once!TypeOK, OnceCalmInv, NotYetCached, SuccessIsVisible, OneSuccess, Once!Claim,
        Once!Claimable, Once!Goto
<1>2. CASE onceLock # Once!None
  BY <1>2
  DEF Once!TypeOK, OnceCalmInv, NotYetCached, SuccessIsVisible, OneSuccess, Once!Claim,
      Once!Claimable, Once!Goto
<1> QED BY <1>1, <1>2

\* The handler that ends holds the lock and found no response, so it is the first.
LEMMA HandlerKeeps ==
    ASSUME Once!TypeOK, Once!None \notin OnceRequests, HoldersHoldLock, OnceCalmInv,
           NEW r \in OnceRequests, NEW ok \in BOOLEAN, Once!HandlerEnds(r, ok)
    PROVE  OnceCalmInv'
<1>1. onceLock = r /\ onceCache = Once!None /\ oncePc[r] = "handling"
  BY DEF OnceCalmInv, HoldersHoldLock, NotYetCached, OnceHolding, Once!HandlerEnds
<1>2. onceExecuted = {}
  BY <1>1 DEF Once!TypeOK, OnceCalmInv, SuccessIsVisible
<1> QED
  BY <1>1, <1>2
  DEF Once!TypeOK, OnceCalmInv, NotYetCached, SuccessIsVisible, OneSuccess, Once!HandlerEnds,
      Once!Goto

\* The only success moves from behind the lock into the cache, or there is none.
LEMMA StoreKeeps ==
    ASSUME Once!TypeOK, Once!None \notin OnceRequests, HoldersHoldLock, OnceCalmInv, OnceCalm',
           NEW r \in OnceRequests, NEW b \in BOOLEAN,
           \/ Once!StoreCached(r) \/ Once!SkipCache(r) \/ Once!StoreFails(r, b)
           \/ Once!EndMemory(r) \/ Once!FailMemory(r)
    PROVE  OnceCalmInv'
<1>1. oncePc[r] \in {"succeeded", "failed"} /\ onceLock = r /\ onceCache = Once!None
  BY
  DEF OnceCalmInv, HoldersHoldLock, NotYetCached, OnceHolding, Once!StoreCached, Once!SkipCache,
      Once!StoreFails, Once!EndMemory, Once!FailMemory
<1>2. \A s \in OnceRequests : oncePc[s] \in OnceHolding => s = r
  BY <1>1 DEF HoldersHoldLock
<1>3. \A s \in onceExecuted : s = r /\ oncePc[r] = "succeeded"
  BY <1>1 DEF Once!TypeOK, OnceCalmInv, SuccessIsVisible
<1>4. onceExecuted' = onceExecuted /\ \E p \in {"release", "done"} : oncePc' = [oncePc EXCEPT ![r] = p]
  BY
  DEF Once!StoreCached, Once!SkipCache, Once!StoreFails, Once!EndMemory, Once!FailMemory,
      Once!Goto, Once!End
<1>5. oncePc[r] = "succeeded" => onceCache' = r
  BY
  DEF Once!StoreCached, Once!SkipCache, Once!StoreFails, Once!EndMemory, Once!FailMemory,
      Once!Because, OnceCalm
<1>6. NotYetCached'
  BY <1>2, <1>4 DEF Once!TypeOK, NotYetCached, OnceHolding
<1> QED BY <1>3, <1>4, <1>5, <1>6 DEF OnceCalmInv, SuccessIsVisible, OneSuccess

\* Without Redis the look-ups and the claim are one step.
LEMMA DispatchKeeps ==
    ASSUME Once!TypeOK, Once!None \notin OnceRequests, HoldersHoldLock, OnceCalmInv, OnceCalm',
           NEW r \in OnceRequests, NEW b \in BOOLEAN, Once!DispatchMemory(r, b)
    PROVE  OnceCalmInv'
<1>1. ~b /\ UNCHANGED <<onceCache, onceExecuted>>
  BY DEF Once!DispatchMemory, Once!Because, OnceCalm
<1>2. CASE onceCache = Once!None /\ onceLock = Once!None
  <2>1. onceExecuted = {}
    BY <1>2 DEF Once!TypeOK, OnceCalmInv, SuccessIsVisible
  <2> QED
    BY <1>1, <1>2, <2>1 DEF OnceCalmInv, NotYetCached, SuccessIsVisible, OneSuccess
<1>3. CASE ~(onceCache = Once!None /\ onceLock = Once!None)
  <2>1. oncePc' = [oncePc EXCEPT ![r] = "done"] /\ UNCHANGED onceLock /\ oncePc[r] = "new"
    BY <1>1, <1>3 DEF Once!DispatchMemory, Once!End, Once!Goto
  <2> QED
    BY <1>1, <2>1 DEF Once!TypeOK, OnceCalmInv, NotYetCached, SuccessIsVisible, OneSuccess
<1> QED BY <1>2, <1>3

LEMMA OnceCalmKept ==
    ASSUME Once!None \notin OnceRequests, Once!TypeOK, HoldersHoldLock, OnceCalmInv,
           [Once!Next]_onceVars, OnceCalm'
    PROVE  OnceCalmInv'
<1>1. CASE UNCHANGED onceVars
  BY <1>1 DEF OnceCalmInv, NotYetCached, SuccessIsVisible, OneSuccess, onceVars
<1>2. CASE Once!LockExpires
  <2>1. ~Once!Holds(onceLock)
    BY <1>2 DEF Once!LockExpires, Once!Because, OnceCalm
  <2> QED
    BY <1>2, <2>1
    DEF Once!LockExpires, Once!TypeOK, OnceCalmInv, NotYetCached, SuccessIsVisible, OneSuccess,
        Once!Holds, Once!Claiming
<1>3. CASE Once!CacheExpires
  BY <1>3 DEF Once!CacheExpires, Once!Because, OnceCalm
<1>4. ASSUME NEW r \in OnceRequests, Once!Step(r) PROVE OnceCalmInv'
  BY <1>4, LooksKeep, ClaimKeeps, HandlerKeeps, StoreKeeps, DispatchKeeps DEF Once!Step
<1>5. ASSUME NEW r \in OnceRequests, Once!Crash(r) PROVE OnceCalmInv'
  <2>1. oncePc[r] # "succeeded" /\ oncePc' = [oncePc EXCEPT ![r] = "crashed"]
        /\ UNCHANGED <<onceCache, onceLock, onceExecuted>>
    BY <1>5 DEF Once!Crash, Once!Goto, Once!Because, OnceCalm
  <2> QED
    BY <2>1 DEF Once!TypeOK, OnceCalmInv, NotYetCached, SuccessIsVisible, OneSuccess
<1>6. ASSUME NEW r \in OnceRequests, NEW how \in {"returned", "raised"}, Once!RenewEnds(r, how)
      PROVE  OnceCalmInv'
  BY <1>6 DEF OnceCalmInv, NotYetCached, SuccessIsVisible, OneSuccess, Once!RenewEnds
<1> QED BY <1>1, <1>2, <1>3, <1>4, <1>5, <1>6 DEF Once!Next

\* What OneSuccess says in the words of the properties.
LEMMA OnceAtMostOne ==
    ASSUME OneSuccess PROVE ~(Once!Cardinality(onceExecuted) > 1)
<1>0. Once!Cardinality(onceExecuted) = Cardinality(onceExecuted)
  BY DEF Once!Cardinality, Cardinality
<1>1. CASE onceExecuted = {}
  BY <1>0, <1>1, FS_EmptySet
<1>2. CASE onceExecuted # {}
  <2>1. PICK r \in onceExecuted : TRUE
    BY <1>2
  <2>2. onceExecuted = {r}
    BY <2>1 DEF OneSuccess
  <2>3. Cardinality({r}) = 1
    BY FS_Singleton
  <2> QED BY <1>0, <2>2, <2>3
<1> QED BY <1>1, <1>2

LEMMA OnceAnswers == OnceInv => Once!TypeOK /\ Once!OnceInMemory /\ Once!TwiceNeedsRace
<1> SUFFICES ASSUME OnceInv, Once!Cardinality(onceExecuted) > 1
             PROVE  onceCauses # {} /\ (onceBackend = "memory" => "uncached" \in onceCauses)
  BY DEF OnceInv, Once!OnceInMemory, Once!TwiceNeedsRace
<1>1. ~OnceCalm
  BY OnceAtMostOne DEF OnceInv, OnceCalmInv
<1> QED BY <1>1 DEF OnceInv, OnceCalm

\* A request that takes away another's lock deletes it, and does not hold one: its own expired.
LEMMA OnceReleaseStep == ASSUME OnceInv, [Once!Next]_onceVars PROVE Once!ReleasesOwnOnly_Step
<1> SUFFICES ASSUME NEW s \in OnceRequests, oncePc'[s] # oncePc[s], onceLock \notin {s, Once!None},
                    onceLock' # onceLock
             PROVE  oncePc[s] = "deleting" /\ "expired" \in onceCauses
  BY DEF Once!ReleasesOwnOnly_Step
<1>0. Once!TypeOK /\ (~OnceExpired => HoldersHoldLock) /\ "deleting" \in OnceHolding
  BY DEF OnceInv, OnceHolding
<1>1. CASE UNCHANGED onceVars
  BY <1>1 DEF onceVars
<1>2. CASE Once!LockExpires \/ Once!CacheExpires
  BY <1>2 DEF Once!LockExpires, Once!CacheExpires
<1>3. ASSUME NEW r \in OnceRequests, Once!Step(r)
      PROVE  oncePc[s] = "deleting" /\ "expired" \in onceCauses
  <2>1. r = s
    BY <1>0, <1>3, OnceLockStep
  <2>2. oncePc[s] \in OnceHolding => OnceExpired
    BY <1>0 DEF HoldersHoldLock
  <2>3. onceBackend = "memory" => ~OnceExpired
    BY DEF OnceInv, OnceExpired
  <2>4. oncePc[s] = "deleting"
    BY <1>0, <1>3, <2>1, <2>2, <2>3, OnceLockStep
  <2> QED BY <1>0, <2>2, <2>4 DEF OnceExpired
<1>4. ASSUME NEW r \in OnceRequests,
             Once!Crash(r) \/ \E how \in {"returned", "raised"} : Once!RenewEnds(r, how)
      PROVE  FALSE
  BY <1>4 DEF Once!Crash, Once!RenewEnds
<1> QED BY <1>1, <1>2, <1>3, <1>4 DEF Once!Next

LEMMA OnceStep ==
    ASSUME OnceInv, [Once!Next]_onceVars PROVE OnceInv' /\ Once!ReleasesOwnOnly_Step
<1>0. Once!None \notin OnceRequests /\ Once!TypeOK
  BY ProgressConfig DEF Once!None, OnceInv
<1>1. Once!TypeOK'
  BY <1>0, OnceTypeStep
<1>2. (onceBackend = "memory" => onceCauses \subseteq {"uncached"})'
  BY OnceCauseStep DEF OnceInv
<1>3. ~OnceExpired' => ~OnceExpired /\ HoldersHoldLock'
  <2>1. ~OnceExpired' => ~OnceExpired
    BY OnceCauseStep DEF OnceExpired
  <2> QED BY <1>0, <2>1, OnceLockKept DEF OnceInv
<1>4. OnceCalm' => OnceCalmInv'
  <2>1. OnceCalm' => OnceCalm /\ ~OnceExpired
    BY OnceCauseStep DEF OnceCalm, OnceExpired
  <2> QED BY <1>0, <2>1, OnceCalmKept DEF OnceInv
<1>5. Once!ReleasesOwnOnly_Step
  BY OnceReleaseStep
<1> QED BY <1>1, <1>2, <1>3, <1>4, <1>5 DEF OnceInv

-----------------------------------------------------------------------------
(* Retries behind a breaker: an operation trades an attempt it had left for *)
(* one it starts, and only a second or later attempt is slept for.         *)

\* Nobody sleeps before its first attempt.
SleepsForRetries == \A c \in Callers : pc[c] = "sleeping" => attempt[c] >= 2

RetryInv == TypeOK /\ CountersMatchState /\ SleepsForRetries /\ OpenTrafficBounded

-----------------------------------------------------------------------------
\* The attempts left are a number, one less for an operation that calls.
LEMMA LeftIsInt ==
    ASSUME TypeOK, NEW c \in Callers
    PROVE  /\ AttemptsLeft(c) \in Int
           /\ SleepsForRetries => AttemptsLeft(c) <= MaxAttempts - 1
           /\ pc[c] = "idle" => AttemptsLeft(c) = 0
           /\ pc[c] = "calling" => AttemptsLeft(c) = MaxAttempts - attempt[c]
           /\ pc[c] = "sleeping" => AttemptsLeft(c) = MaxAttempts - attempt[c] + 1
           /\ AttemptsLeft(c) >= 0
  <1>1. /\ attempt[c] \in 1 .. MaxAttempts /\ MaxAttempts \in Nat \ {0}
        /\ pc[c] \in {"idle", "calling", "sleeping"}
    BY RetryConfig DEF TypeOK
  <1>2. CASE pc[c] = "idle"
    BY <1>1, <1>2 DEF AttemptsLeft
  <1>3. CASE pc[c] = "calling"
    BY <1>1, <1>3 DEF AttemptsLeft
  <1>4. CASE pc[c] = "sleeping"
    BY <1>1, <1>4 DEF AttemptsLeft, SleepsForRetries
  <1> QED BY <1>1, <1>2, <1>3, <1>4

\* The same, one step later.
LEMMA LeftIsIntPrimed ==
    ASSUME TypeOK', NEW c \in Callers
    PROVE  /\ AttemptsLeft(c)' \in Int
           /\ SleepsForRetries' => AttemptsLeft(c)' <= MaxAttempts - 1
           /\ pc'[c] = "idle" => AttemptsLeft(c)' = 0
           /\ pc'[c] = "calling" => AttemptsLeft(c)' = MaxAttempts - attempt'[c]
           /\ pc'[c] = "sleeping" => AttemptsLeft(c)' = MaxAttempts - attempt'[c] + 1
           /\ AttemptsLeft(c)' >= 0
  <1>1. /\ attempt'[c] \in 1 .. MaxAttempts /\ MaxAttempts \in Nat \ {0}
        /\ pc'[c] \in {"idle", "calling", "sleeping"}
    BY RetryConfig DEF TypeOK
  <1>2. CASE pc'[c] = "idle"
    BY <1>1, <1>2 DEF AttemptsLeft
  <1>3. CASE pc'[c] = "calling"
    BY <1>1, <1>3 DEF AttemptsLeft
  <1>4. CASE pc'[c] = "sleeping"
    BY <1>1, <1>4 DEF AttemptsLeft, SleepsForRetries
  <1> QED BY <1>1, <1>2, <1>3, <1>4

\* The history stays a count, whoever starts an attempt.
LEMMA CountedIsTyped ==
    ASSUME TypeOK, NEW started \in SUBSET Callers, CountStarted(started)
    PROVE  callsWhileOpen' \in [Callers -> Nat]
  BY DEF TypeOK, CountStarted

\* At the start of a stay in OPEN nothing has been counted.
LEMMA FreshBound ==
    ASSUME TypeOK', SleepsForRetries', \A c \in Callers : callsWhileOpen'[c] = 0
    PROVE  OpenTrafficBounded'
  <1> SUFFICES ASSUME NEW c \in Callers
               PROVE  callsWhileOpen'[c] + AttemptsLeft(c)' <= MaxAttempts - 1
    BY DEF OpenTrafficBounded
  <1>1. AttemptsLeft(c)' \in Int /\ AttemptsLeft(c)' <= MaxAttempts - 1
    BY LeftIsIntPrimed
  <1> QED BY <1>1

\* During it no operation gains more attempts than the history loses.
LEMMA CarriedBound ==
    ASSUME TypeOK, TypeOK', OpenTrafficBounded, state = "OPEN",
           \A c \in Callers :
              callsWhileOpen'[c] + AttemptsLeft(c)' <= callsWhileOpen[c] + AttemptsLeft(c)
    PROVE  OpenTrafficBounded'
  <1> SUFFICES ASSUME NEW c \in Callers
               PROVE  callsWhileOpen'[c] + AttemptsLeft(c)' <= MaxAttempts - 1
    BY DEF OpenTrafficBounded
  <1>1. /\ callsWhileOpen[c] + AttemptsLeft(c) <= MaxAttempts - 1
        /\ callsWhileOpen'[c] + AttemptsLeft(c)' <= callsWhileOpen[c] + AttemptsLeft(c)
    BY DEF OpenTrafficBounded
  <1>2. AttemptsLeft(c) \in Int /\ AttemptsLeft(c)' \in Int /\ MaxAttempts \in Int
    BY RetryConfig, LeftIsInt, LeftIsIntPrimed
  <1>3. callsWhileOpen[c] \in Int /\ callsWhileOpen'[c] \in Int
    BY DEF TypeOK
  <1> QED BY <1>1, <1>2, <1>3

\* A step that starts no attempt leaves each operation as it is, ends it, or
\* sends it to sleep before its next attempt.
LEMMA EndedBound ==
    ASSUME TypeOK, TypeOK', SleepsForRetries', OpenTrafficBounded, CountStarted({}),
           \A c \in Callers :
              \/ pc'[c] = "idle"
              \/ pc'[c] = pc[c] /\ attempt'[c] = attempt[c]
              \/ pc[c] = "calling" /\ pc'[c] = "sleeping" /\ attempt'[c] = attempt[c] + 1
    PROVE  OpenTrafficBounded'
  <1>1. CASE state = "OPEN" /\ state' = "OPEN"
    <2>1. \A c \in Callers : callsWhileOpen'[c] = callsWhileOpen[c]
      BY <1>1 DEF CountStarted
    <2>2. ASSUME NEW c \in Callers
          PROVE  callsWhileOpen'[c] + AttemptsLeft(c)' <= callsWhileOpen[c] + AttemptsLeft(c)
      <3>1. /\ attempt[c] \in 1 .. MaxAttempts /\ attempt'[c] \in 1 .. MaxAttempts
            /\ MaxAttempts \in Nat /\ callsWhileOpen[c] \in Nat
            /\ pc[c] \in {"idle", "calling", "sleeping"}
        BY RetryConfig DEF TypeOK
      <3>2. AttemptsLeft(c)' <= AttemptsLeft(c)
        BY <3>1, LeftIsInt, LeftIsIntPrimed
      <3>3. AttemptsLeft(c) \in Int /\ AttemptsLeft(c)' \in Int
        BY LeftIsInt, LeftIsIntPrimed
      <3> QED BY <2>1, <3>1, <3>2, <3>3
    <2> QED BY <1>1, <2>2, CarriedBound
  <1>2. CASE ~(state = "OPEN" /\ state' = "OPEN")
    <2>1. \A c \in Callers : callsWhileOpen'[c] = 0
      BY <1>2 DEF CountStarted
    <2> QED BY <2>1, FreshBound
  <1> QED BY <1>1, <1>2

-----------------------------------------------------------------------------
LEMMA RetryInit == Init => RetryInv
  <1> SUFFICES ASSUME Init PROVE RetryInv
    OBVIOUS
  <1>1. BreakerInv
    BY InitKeepsBreakerInv DEF Init
  <1>2. TypeOK /\ SleepsForRetries
    BY <1>1, RetryConfig DEF Init, TypeOK, BreakerInv, SleepsForRetries
  <1>3. OpenTrafficBounded
    BY DEF Init, BreakerInit, OpenTrafficBounded
  <1> QED
    BY <1>1, <1>2, <1>3 DEF RetryInv, BreakerInv

\* allow_request is asked once, when an operation begins: an open breaker either
\* refuses or is open no longer.
LEMMA BeginInv ==
    ASSUME RetryInv, NEW c \in Callers, Begin(c) \/ Refused(c)
    PROVE  RetryInv'
  <1>0. TypeOK /\ BreakerInv /\ OpenTrafficBounded /\ SleepsForRetries
    BY DEF RetryInv, TypeOK, BreakerInv
  <1>1. BreakerInv'
    BY <1>0, AllowKeepsBreakerInv DEF Begin, Refused
  <1>2. CASE Begin(c)
    <2>1. TypeOK' /\ SleepsForRetries'
      BY <1>0, <1>1, <1>2, CountedIsTyped DEF Begin, TypeOK, BreakerInv, SleepsForRetries
    <2>2. ~(state = "OPEN" /\ state' = "OPEN")
      BY <1>2 DEF Begin, Granted, AllowRequest
    <2>3. \A b \in Callers : callsWhileOpen'[b] = 0
      BY <1>2, <2>2 DEF Begin, CountStarted
    <2>4. OpenTrafficBounded'
      BY <2>1, <2>3, FreshBound
    <2> QED BY <1>1, <2>1, <2>4 DEF RetryInv, BreakerInv
  <1>3. CASE Refused(c)
    <2>1. TypeOK' /\ SleepsForRetries'
      BY <1>0, <1>1, <1>3, CountedIsTyped DEF Refused, TypeOK, BreakerInv, SleepsForRetries
    <2>2. OpenTrafficBounded'
      BY <1>0, <1>3, <2>1, EndedBound DEF Refused
    <2> QED BY <1>1, <2>1, <2>2 DEF RetryInv, BreakerInv
  <1> QED BY <1>2, <1>3

\* The ends of an attempt, of a backoff or of the whole operation.
LEMMA EndInv ==
    ASSUME RetryInv, NEW c \in Callers, AttemptEnds(c) \/ TimesOut(c) \/ Cancelled(c)
    PROVE  RetryInv'
  <1>0. TypeOK /\ BreakerInv /\ OpenTrafficBounded /\ SleepsForRetries
    BY DEF RetryInv, TypeOK, BreakerInv
  <1>1. BreakerInv'
    <2>1. CASE UNCHANGED breakerVars
      BY <1>0, <2>1 DEF breakerVars, BreakerInv, BreakerTypeOK, CountersMatchState
    <2>2. CASE RecordSuccess \/ RecordFailure \/ RecordIgnoredFailure
      BY <1>0, <2>2, SuccessKeepsBreakerInv, FailureKeepsBreakerInv, IgnoredKeepsBreakerInv
    <2> QED
      BY <2>1, <2>2 DEF AttemptEnds, AttemptSucceeds, AttemptFails, AttemptFailsForGood,
                        CallerError, TimesOut, Cancelled
  <1>2. /\ CountStarted({}) /\ UNCHANGED <<healthy, outbound>>
        /\ \/ Finish(c)
           \/ /\ attempt[c] < MaxAttempts /\ pc[c] = "calling"
              /\ pc' = [pc EXCEPT ![c] = "sleeping"]
              /\ attempt' = [attempt EXCEPT ![c] = attempt[c] + 1]
    <2>1. attempt[c] \in Nat /\ MaxAttempts \in Nat
      BY <1>0, RetryConfig DEF TypeOK
    <2> QED
      BY <2>1 DEF AttemptEnds, AttemptSucceeds, AttemptFails, AttemptFailsForGood,
                  CallerError, TimesOut, Cancelled, GivesUpAfter
  <1>3. pc' \in [Callers -> {"idle", "calling", "sleeping"}]
    BY <1>0, <1>2 DEF TypeOK, Finish
  <1>4. attempt' \in [Callers -> 1 .. MaxAttempts]
    BY <1>0, <1>2, RetryConfig DEF TypeOK, Finish
  <1>5. TypeOK'
    BY <1>0, <1>1, <1>2, <1>3, <1>4, CountedIsTyped DEF TypeOK, BreakerInv
  <1>6. \A b \in Callers :
           \/ pc'[b] = "idle"
           \/ pc'[b] = pc[b] /\ attempt'[b] = attempt[b]
           \/ pc[b] = "calling" /\ pc'[b] = "sleeping" /\ attempt'[b] = attempt[b] + 1
    BY <1>0, <1>2 DEF TypeOK, Finish
  <1>7. SleepsForRetries'
    <2>1. \A b \in Callers : attempt[b] \in Nat /\ attempt[b] >= 1
      BY <1>0, RetryConfig DEF TypeOK
    <2> QED BY <1>0, <1>6, <2>1 DEF SleepsForRetries
  <1>8. OpenTrafficBounded'
    BY <1>0, <1>2, <1>5, <1>6, <1>7, EndedBound
  <1> QED
    BY <1>1, <1>5, <1>7, <1>8 DEF RetryInv, BreakerInv

\* A retry starts without asking: it was counted among the attempts left.
LEMMA ResumeInv ==
    ASSUME RetryInv, NEW c \in Callers, Resume(c)
    PROVE  RetryInv'
  <1>0. TypeOK /\ BreakerInv /\ OpenTrafficBounded /\ SleepsForRetries
    BY DEF RetryInv, TypeOK, BreakerInv
  <1>1. /\ pc[c] = "sleeping" /\ pc' = [pc EXCEPT ![c] = "calling"]
        /\ UNCHANGED <<breakerVars, attempt, healthy, outbound>> /\ CountStarted({c})
    BY DEF Resume
  <1>2. BreakerInv' /\ TypeOK' /\ SleepsForRetries'
    BY <1>0, <1>1, CountedIsTyped
    DEF breakerVars, BreakerInv, BreakerTypeOK, CountersMatchState, TypeOK, SleepsForRetries
  <1>3. OpenTrafficBounded'
    <2>1. CASE state = "OPEN" /\ state' = "OPEN"
      <3>1. ASSUME NEW b \in Callers
            PROVE  callsWhileOpen'[b] + AttemptsLeft(b)' <= callsWhileOpen[b] + AttemptsLeft(b)
        <4>1. /\ attempt[b] \in Nat /\ MaxAttempts \in Nat /\ callsWhileOpen[b] \in Nat
              /\ attempt'[b] = attempt[b] /\ pc[b] \in {"idle", "calling", "sleeping"}
          BY <1>0, <1>1, RetryConfig DEF TypeOK
        <4>2. CASE b = c
          <5>1. /\ AttemptsLeft(b) = MaxAttempts - attempt[b] + 1
                /\ AttemptsLeft(b)' = MaxAttempts - attempt[b]
            BY <1>0, <1>1, <1>2, <4>1, <4>2, LeftIsInt, LeftIsIntPrimed DEF TypeOK
          <5>2. callsWhileOpen'[b] = callsWhileOpen[b] + 1
            BY <1>1, <2>1, <4>2 DEF CountStarted
          <5> QED BY <4>1, <5>1, <5>2
        <4>3. CASE b # c
          <5>1. AttemptsLeft(b)' = AttemptsLeft(b)
            BY <1>0, <1>1, <4>3 DEF AttemptsLeft, TypeOK
          <5>2. callsWhileOpen'[b] = callsWhileOpen[b]
            BY <1>1, <2>1, <4>3 DEF CountStarted
          <5> QED BY <1>0, <4>1, <5>1, <5>2, LeftIsInt
        <4> QED BY <4>2, <4>3
      <3> QED BY <1>0, <1>2, <2>1, <3>1, CarriedBound
    <2>2. CASE ~(state = "OPEN" /\ state' = "OPEN")
      <3>1. \A b \in Callers : callsWhileOpen'[b] = 0
        BY <1>1, <2>2 DEF CountStarted
      <3> QED BY <1>2, <3>1, FreshBound
    <2> QED BY <2>1, <2>2
  <1> QED
    BY <1>2, <1>3 DEF RetryInv, BreakerInv

LEMMA RetryStep == RetryInv /\ [Next]_vars => RetryInv'
  <1> SUFFICES ASSUME RetryInv, [Next]_vars PROVE RetryInv'
    OBVIOUS
  <1>0. TypeOK /\ BreakerInv /\ OpenTrafficBounded /\ SleepsForRetries
    BY DEF RetryInv, TypeOK, BreakerInv
  <1>1. CASE \E c \in Callers : Begin(c) \/ Refused(c)
    BY <1>1, BeginInv
  <1>2. CASE \E c \in Callers : AttemptEnds(c) \/ TimesOut(c) \/ Cancelled(c)
    BY <1>2, EndInv
  <1>3. CASE \E c \in Callers : Resume(c)
    BY <1>3, ResumeInv
  <1>4. CASE Tick
    <2>1. BreakerInv'
      BY <1>0, <1>4, TimeKeepsBreakerInv DEF Tick
    <2>2. TypeOK' /\ SleepsForRetries'
      BY <1>0, <1>4, <2>1 DEF Tick, TypeOK, BreakerInv, SleepsForRetries
    <2>3. OpenTrafficBounded'
      BY <1>0, <1>4 DEF Tick, PassTime, OpenTrafficBounded, AttemptsLeft
    <2> QED BY <2>1, <2>2, <2>3 DEF RetryInv, BreakerInv
  <1>5. CASE DependencyChanges \/ UNCHANGED vars
    <2>1. /\ UNCHANGED <<breakerVars, pc, attempt, outbound, callsWhileOpen>>
          /\ healthy' \in BOOLEAN
      BY <1>0, <1>5 DEF DependencyChanges, vars, TypeOK
    <2> QED
      BY <1>0, <2>1 DEF breakerVars, RetryInv, TypeOK, BreakerInv, BreakerTypeOK,
         CountersMatchState, OpenTrafficBounded, AttemptsLeft, SleepsForRetries
  <1> QED
    BY <1>1, <1>2, <1>3, <1>4, <1>5 DEF Next

-----------------------------------------------------------------------------
(* All of them together.                                                   *)

ProgressInv ==
    /\ RetryInv /\ CliInv /\ MonInv /\ OnceInv /\ HostInv /\ Logs!TypeOK /\ NoteInv
    /\ IF focus = "monitoring" THEN WatchInv ELSE DegInv

\* A step of the composition is a step of one component and none of the others.
LEMMA Projected ==
    ASSUME [ProgressNext]_allVars
    PROVE  /\ [Next]_vars /\ [Client!Next]_cliVars /\ [Monitors!Next]_monVars
           /\ [Once!Next]_onceVars /\ [Host!Next]_hostVars /\ [Logs!Next]_logVars
           /\ [Notify!Next]_noteVars
           /\ focus' = focus
           /\ IF focus = "monitoring" THEN [Watch!Next]_degVars ELSE [Degrade!Next]_degVars
BY DEF ProgressNext, allVars, OnlyRetries, OnlyDegradation, OnlyMonitoring, OnlyClient,
       OnlyMonitors, OnlyIdempotency, OnlyHost, OnlyLogs, OnlyNotifications

LEMMA ProgressInitInv == ProgressInit => ProgressInv
<1> SUFFICES ASSUME ProgressInit PROVE ProgressInv
  OBVIOUS
<1>1. RetryInv
  BY RetryInit DEF ProgressInit
<1>2. IF focus = "monitoring" THEN WatchInv ELSE DegInv
  BY DegInit, WatchInit DEF ProgressInit
<1>3. CliInv
  BY CliInit DEF ProgressInit
<1>4. MonInv
  <2>1. Monitors!Init
    BY DEF ProgressInit
  <2>2. Monitors!Live = {} /\ Monitors!LiveAlerting = {} /\ ~monStopping
    BY <2>1 DEF Monitors!Init, Monitors!Live, Monitors!LiveAlerting, Monitors!Absent
  <2>3. MonJoined
    BY <2>2 DEF MonJoined
  <2>4. Monitors!TypeOK
    <3>1. 0 \in 0 .. MonStarts /\ MonCooldown + 1 \in 0 .. MonCooldown + 1
      BY NatConstants
    <3>2. Monitors!Absent \in MonLoops
      BY DEF Monitors!Absent, MonLoops
    <3>3. monHealth \in [Monitors!Generations -> MonLoops]
      BY <2>1, <3>2 DEF Monitors!Init
    <3>4. monAlert \in [is_active : BOOLEAN, age : 0 .. MonCooldown + 1]
      BY <2>1, <3>1 DEF Monitors!Init
    <3> QED BY <2>1, <3>1, <3>3, <3>4 DEF Monitors!Init, Monitors!TypeOK, Monitors!Statuses, MonLoops
  <2> QED BY <2>3, <2>4 DEF MonInv
<1>5. OnceInv
  <2>1. Once!Init /\ Once!None \notin OnceRequests
    BY ProgressConfig DEF ProgressInit, Once!None
  <2> QED BY <2>1, OnceInit
<1>6. HostInv
  <2>1. Host!Init
    BY DEF ProgressInit
  <2>2. hostSignals \in 0 .. HostSignals
    BY <2>1, NatConstants DEF Host!Init
  <2>3. Host!TypeOK
    BY <2>1, <2>2 DEF Host!Init, Host!TypeOK, Host!Services, Host!Ended
  <2>4. hostPc \in HostBefore /\ hostServer \in {"none", "created"} /\ hostPort = "none"
    BY <2>1 DEF Host!Init, HostBefore
  <2>5. hostRunning = FALSE /\ hostRequested = FALSE /\ hostHandlers = FALSE /\ hostPc = "new"
    BY <2>1 DEF Host!Init
  <2> QED BY <2>3, <2>4, <2>5 DEF HostInv, Host!PlaintextNeedsUnset
<1>7. Logs!TypeOK
  <2>1. Logs!Init
    BY DEF ProgressInit
  <2>2. <<>> \in Seq(Nat) /\ Len(<<>>) <= LogMaxQueue
    BY NatConstants, EmptySeq
  <2>3. logQueue \in [LogClients -> Seq(Nat)] /\ \A c \in LogClients : Len(logQueue[c]) <= LogMaxQueue
    BY <2>1, <2>2 DEF Logs!Init
  <2> QED BY <2>1, <2>3 DEF Logs!Init, Logs!TypeOK
<1>8. NoteInv
  <2>1. Notify!Init
    BY DEF ProgressInit
  <2>2. noteConfig \in [Notify!Kinds -> {"disabled", "invalid", "valid"}]
        /\ noteSinks = Notify!Initialised(noteConfig)
    BY <2>1 DEF Notify!Init
  <2>3. noteSinks \in Seq(Notify!Kinds) /\ Len(noteSinks) \in 0 .. 3
    BY <2>2, NoteSinks
  <2>4. Notify!TypeOK
    <3>1. \A i \in DOMAIN noteSinks : noteSinks[i] \in Notify!Kinds
      BY <2>3
    <3> QED BY <2>1, <3>1 DEF Notify!Init, Notify!TypeOK
  <2>5. ASSUME NEW c \in NoteCalls PROVE NoteAt(c)
    <3>1. noteAt[c] = 1 /\ notePc[c] = "idle" /\ noteSmtp = "none" /\ c # "none"
      BY <2>1, ProgressConfig DEF Notify!Init
    <3> QED BY <2>3, <3>1 DEF NoteAt
  <2> QED BY <2>2, <2>4, <2>5 DEF NoteInv
<1> QED
  BY <1>1, <1>2, <1>3, <1>4, <1>5, <1>6, <1>7, <1>8 DEF ProgressInv

LEMMA ProgressStepInv == ASSUME ProgressInv, [ProgressNext]_allVars PROVE ProgressInv'
<1> USE DEF ProgressInv
<1>0. (IF focus = "monitoring" THEN WatchInv ELSE DegInv)'
  BY Projected, DegStep, WatchStep
<1>1. RetryInv' /\ CliInv'
  BY Projected, RetryStep, CliStep
<1>2. MonInv' /\ OnceInv' /\ HostInv'
  BY Projected, MonStep, OnceStep, HostStep
<1>3. Logs!TypeOK' /\ NoteInv'
  BY Projected, LogStep, NoteStep
<1> QED BY <1>0, <1>1, <1>2, <1>3

LEMMA ProgressInvHolds == ProgressSpec => []ProgressInv
  BY ProgressInitInv, ProgressStepInv, PTL DEF ProgressSpec

\* Every component keeps its state within its type, whatever the bounds: queues within
\* MAX_CLIENT_QUEUE_SIZE, levels, breakers and locks among their values.
THEOREM ComponentsAreTyped == ProgressSpec => []ComponentsTyped
<1>1. ProgressInv => ComponentsTyped
  <2> SUFFICES ASSUME ProgressInv PROVE ComponentsTyped
    OBVIOUS
  <2>1. TypeOK /\ Client!TypeOK /\ IF focus = "monitoring" THEN Watch!TypeOK ELSE Degrade!TypeOK
    BY DegAnswers, WatchTyped, CliGrants DEF ProgressInv, RetryInv
  <2>2. Monitors!TypeOK /\ Once!TypeOK /\ Host!TypeOK
    BY OnceAnswers DEF ProgressInv, MonInv, HostInv
  <2> QED BY <2>1, <2>2 DEF ProgressInv, NoteInv, ComponentsTyped
<1> QED BY <1>1, ProgressInvHolds, PTL

\* For any number of callers, requests and attempts, any thresholds and timeouts: a fallback
\* answers the question asked or one that shares its key, three breakers around a call never
\* lock it out for good, and a request of one key succeeds twice only for one of the named
\* causes, whatever the calls of Redis raise.
THEOREM AnswersStayRight == ProgressSpec => []AnswersAreRight
<1>1. ProgressInv => AnswersAreRight
  BY DegAnswers, CliGrants, OnceAnswers DEF ProgressInv, AnswersAreRight
<1> QED BY <1>1, ProgressInvHolds, PTL

\* For any number of restarts, signals, checks and notifications: a thread too many, a signal
\* nobody honours, a listener in plaintext or a sink missing from a report has the one cause
\* that is named.
THEOREM FailuresKeepTheirCause == ProgressSpec => []FailuresHaveCause
<1>1. HostInv => Host!LostNeedsEarly /\ Host!PlaintextNeedsUnset
  BY DEF HostInv, HostDown, HostBefore, Host!LostNeedsEarly
<1>2. ProgressInv => FailuresHaveCause
  BY <1>1, MonSingle, NoteReports DEF ProgressInv, FailuresHaveCause
<1> QED BY <1>2, ProgressInvHolds, PTL

\* Whoever is interrupted where: a request takes away no lock but its own, unless that expired
\* between the get and the delete of the fallback, and no other notification moves while a
\* message is handed to the mail server.
THEOREM HoldersAreRespected == ProgressSpec => HeldUntilReleased
<1>1. ASSUME ProgressInv, [ProgressNext]_allVars
      PROVE  /\ [Once!ReleasesOwnOnly_Step]_onceVars
             /\ [Notify!MailHoldsTheLoop_Step]_noteVars
  BY <1>1, Projected, OnceStep, NoteStep DEF ProgressInv
<1> QED BY <1>1, ProgressInvHolds, PTL DEF ProgressSpec, HeldUntilReleased

\* Retries that are under way when the breaker opens are bounded by the attempts they had
\* left, for any number of operations, any number of attempts and any configuration of the
\* breaker, in advanced_retry.py and in outbound.py alike.
THEOREM OpenTrafficIsBounded == ProgressSpec => []OpenTrafficBounded
<1>1. ProgressInv => OpenTrafficBounded
  BY DEF ProgressInv, RetryInv
<1> QED BY <1>1, ProgressInvHolds, PTL

\* A breaker that is used without counting its requests in, and that is not told of successes
\* by outbound.py, keeps its counters in step with its state.
THEOREM RetriesKeepCounters == ProgressSpec => []CountersMatchState
<1>1. ProgressInv => CountersMatchState
  BY DEF ProgressInv, RetryInv
<1> QED BY <1>1, ProgressInvHolds, PTL

====
