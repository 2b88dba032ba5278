--------------------------- MODULE Notifications ----------------------------
(***************************************************************************)
(* NotificationManager and its sinks (notify.py): coroutines on one event  *)
(* loop send a notification to every sink in turn. E-mail goes out through *)
(* smtplib, which blocks the loop and has no timeout; the two HTTP sinks   *)
(* await an answer with a timeout.                                         *)
(***************************************************************************)
EXTENDS Naturals, Sequences, FiniteSets

CONSTANT Calls      \* concurrent calls of notify

VARIABLES
    config,         \* sink -> "disabled", "invalid" or "valid"
    sinks,          \* the sinks that were initialised, in order
    pc,             \* call -> "idle", "sending", "awaiting", "done"
    at,             \* call -> index of the sink at hand
    results,        \* call -> sink -> what notify returns for it, "absent" without an entry
    delivered,      \* call -> sinks that received the notification
    smtp            \* the call inside smtplib, which holds the event loop, or "none"

vars == <<config, sinks, pc, at, results, delivered, smtp>>

Kinds == {"email", "webhook", "slack"}

TypeOK ==
    /\ config \in [Kinds -> {"disabled", "invalid", "valid"}]
    /\ \A i \in DOMAIN sinks : sinks[i] \in Kinds
    /\ pc \in [Calls -> {"idle", "sending", "awaiting", "done"}]
    /\ at \in [Calls -> 1 .. 4]
    /\ results \in [Calls -> [Kinds -> {"absent", "sent", "failed"}]]
    /\ delivered \in [Calls -> SUBSET Kinds]
    /\ smtp \in Calls \union {"none"}

IfValid(cfg, k) == IF cfg[k] = "valid" THEN <<k>> ELSE <<>>

Initialised_Together(cfg) ==
    IF \E k \in Kinds : cfg[k] = "invalid" THEN <<>>
    ELSE IfValid(cfg, "email") \o IfValid(cfg, "webhook") \o IfValid(cfg, "slack")

\* NotificationManager.__init__: a sink whose configuration is rejected is only logged.
Initialised(cfg) ==
    IfValid(cfg, "email") \o IfValid(cfg, "webhook") \o IfValid(cfg, "slack")

Init ==
    /\ config \in [Kinds -> {"disabled", "invalid", "valid"}]
    /\ sinks = Initialised(config)
    /\ pc = [c \in Calls |-> "idle"] /\ at = [c \in Calls |-> 1]
    /\ results = [c \in Calls |-> [k \in Kinds |-> "absent"]]
    /\ delivered = [c \in Calls |-> {}]
    /\ smtp = "none"

-----------------------------------------------------------------------------
LoopFree_Threaded == TRUE

\* No coroutine runs while one is inside smtplib.
LoopFree == smtp = "none"

Sink(c) == sinks[at[c]]

\* notify, called by one of the notify_certificate methods.
Begin(c) ==
    /\ LoopFree /\ pc[c] = "idle"
    /\ pc' = [pc EXCEPT ![c] = IF sinks = <<>> THEN "done" ELSE "sending"]
    /\ UNCHANGED <<config, sinks, at, results, delivered, smtp>>

\* The loop of notify goes on, whatever the sink returned.
Answered(c, answer) ==
    /\ results' = [results EXCEPT ![c][Sink(c)] = answer]
    /\ at' = [at EXCEPT ![c] = @ + 1]
    /\ pc' = [pc EXCEPT ![c] = IF at[c] = Len(sinks) THEN "done" ELSE "sending"]

\* EmailNotifier.send up to the connection to the server.
Connect(c) ==
    /\ LoopFree /\ pc[c] = "sending" /\ Sink(c) = "email"
    /\ smtp' = c
    /\ UNCHANGED <<config, sinks, pc, at, results, delivered>>

\* The server accepts the message, or refuses or drops the connection before or after it.
Mailed(c, received, answer) ==
    /\ smtp = c
    /\ answer = "sent" => received
    /\ delivered' = IF received THEN [delivered EXCEPT ![c] = @ \union {"email"}] ELSE delivered
    /\ smtp' = "none"
    /\ Answered(c, answer)
    /\ UNCHANGED <<config, sinks>>

\* WebhookNotifier.send and SlackNotifier.send up to the await of the answer.
Post(c) ==
    /\ LoopFree /\ pc[c] = "sending" /\ Sink(c) # "email"
    /\ pc' = [pc EXCEPT ![c] = "awaiting"]
    /\ UNCHANGED <<config, sinks, at, results, delivered, smtp>>

\* The receiver takes the request in its own time.
Receive(c) ==
    /\ pc[c] = "awaiting" /\ Sink(c) \notin delivered[c]
    /\ delivered' = [delivered EXCEPT ![c] = @ \union {Sink(c)}]
    /\ UNCHANGED <<config, sinks, pc, at, results, smtp>>

\* A success status comes back.
Accepted(c) ==
    /\ LoopFree /\ pc[c] = "awaiting" /\ Sink(c) \in delivered[c]
    /\ Answered(c, "sent")
    /\ UNCHANGED <<config, sinks, delivered, smtp>>

TimesOut_Never(c) == FALSE

\* The timeout passes or an error comes back: raise_for_status, the except clause.
TimesOut(c) ==
    /\ LoopFree /\ pc[c] = "awaiting"
    /\ Answered(c, "failed")
    /\ UNCHANGED <<config, sinks, delivered, smtp>>

Step(c) == Begin(c) \/ Connect(c) \/ Post(c) \/ Accepted(c) \/ TimesOut(c)

Next ==
    \E c \in Calls :
        \/ Step(c) \/ Receive(c)
        \/ \E received \in BOOLEAN, answer \in {"sent", "failed"} : Mailed(c, received, answer)

\* The loop runs its ready coroutines and its timers; the mail server owes nothing.
Fairness == \A c \in Calls : WF_vars(Step(c))
Spec == Init /\ [][Next]_vars /\ Fairness

-----------------------------------------------------------------------------
(* A finished notification reports on every sink that was enabled, unless  *)
(* the configuration of that sink was rejected at start-up: then it is     *)
(* missing from the report and all the entries may read success.           *)
MissingNeedsInvalid ==
    \A c \in Calls, k \in Kinds :
        pc[c] = "done" /\ config[k] # "disabled" /\ results[c][k] = "absent" => config[k] = "invalid"

MailHoldsTheLoop_Step ==
    smtp # "none" => \A c \in Calls : pc'[c] # pc[c] => c = smtp

(* While a message is handed to the mail server the whole event loop is    *)
(* held: no other notification begins, posts or ends.                      *)
MailHoldsTheLoop == [][MailHoldsTheLoop_Step]_vars

(* Every notification ends, whatever the HTTP sinks do, unless the mail    *)
(* server keeps a connection open: smtplib has no timeout, and the others  *)
(* then wait with it.                                                      *)
NotifyEnds == \A c \in Calls : (pc[c] # "idle") ~> (pc[c] = "done" \/ [](smtp # "none"))
=============================================================================
