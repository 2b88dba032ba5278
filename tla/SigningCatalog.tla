--------------------------- MODULE SigningCatalog ---------------------------
(***************************************************************************)
(* scripts/seed_marty_org_catalog.py: the script that brings the registry  *)
(* of signing services, kept by the gateway, to the catalog written in the *)
(* script. It reads the registry, merges the catalog into what it read,    *)
(* compares, and writes the merged registry back with a PATCH that carries *)
(* no version. Several runs, and other clients of the gateway, overlap.    *)
(*                                                                         *)
(* Of a signing service the model keeps its endpoint (one of the fields    *)
(* the comparison looks at), its token reference (one of those it does     *)
(* not), both taken from the environment of the run, and its status (one   *)
(* of the fields that only the gateway sets). "defaults" stands for the    *)
(* three routing defaults, which are compared and written together.        *)
(***************************************************************************)
EXTENDS TLC

CONSTANTS
    Runs,           \* executions of the script
    Signers,        \* the ids of DESIRED_SERVICES
    Foreign,        \* ids that other clients register
    Endpoints,      \* values of OPENBAO_ADDR
    TokenRefs       \* values of OPENBAO_TOKEN_SECRET_REF

VARIABLES
    services,       \* the gateway's registry: id -> service
    defaults,       \* its routing defaults
    pc,             \* run -> where it is
    env,            \* run -> its environment
    written,        \* run -> the services it is about to PATCH
    raced,          \* ids that were registered or updated between a run's read and its PATCH
    known,          \* ids that other clients have registered
    settled,        \* environment of the run that ended well last, if nobody started or wrote since
    wrote           \* whether that run sent a PATCH

vars == <<services, defaults, pc, env, written, raced, known, settled, wrote>>

Service == [endpoint : Endpoints, token : TokenRefs, status : BOOLEAN]
Registries == UNION {[S -> Service] : S \in SUBSET (Signers \cup Foreign)}
Environments == [endpoint : Endpoints, token : TokenRefs]
NoRun == [endpoint |-> "none", token |-> "none"]
NoServices == [s \in {} |-> 0]

TypeOK ==
    /\ services \in Registries
    /\ defaults \in {"unset", "catalog", "other"}
    /\ pc \in [Runs -> {"idle", "reading", "patching"}]
    /\ env \in [Runs -> Environments \cup {NoRun}]
    /\ \A r \in Runs : written[r] \in Registries
    /\ raced \subseteq Signers \cup Foreign /\ known \subseteq Foreign
    /\ settled \in Environments \cup {NoRun} /\ wrote \in BOOLEAN

-----------------------------------------------------------------------------
\* The entry of the catalog under the environment e of a run.
DESIRED_SERVICES(e) == [endpoint |-> e.endpoint, token |-> e.token, status |-> FALSE]

build_desired_registry_NoRuntime(e, existing) ==
    [s \in DOMAIN existing \cup Signers |->
        IF s \notin Signers THEN existing[s] ELSE DESIRED_SERVICES(e)]

build_desired_registry_Clobbers(e, existing) ==
    [s \in Signers |->
        [DESIRED_SERVICES(e) EXCEPT !.status = s \in DOMAIN existing /\ existing[s].status]]

\* The services of other clients stay; those of the catalog are replaced and
\* keep the fields that the gateway set.
build_desired_registry(e, existing) ==
    [s \in DOMAIN existing \cup Signers |->
        IF s \notin Signers THEN existing[s]
        ELSE [DESIRED_SERVICES(e) EXCEPT !.status = s \in DOMAIN existing /\ existing[s].status]]

registry_needs_update_IdsOnly(current, routing, desired) ==
    ~ DOMAIN desired \subseteq DOMAIN current \/ routing # "catalog"

\* CHECK_KEYS holds the endpoint and not the token reference.
registry_needs_update(current, routing, desired) ==
    \/ ~ DOMAIN desired \subseteq DOMAIN current
    \/ routing # "catalog"
    \/ \E s \in DOMAIN desired \cap DOMAIN current : desired[s].endpoint # current[s].endpoint

-----------------------------------------------------------------------------
\* A registry that does not exist yet (404) reads as an empty one.
Init ==
    /\ services = NoServices /\ defaults = "unset"
    /\ pc = [r \in Runs |-> "idle"] /\ env = [r \in Runs |-> NoRun]
    /\ written = [r \in Runs |-> NoServices]
    /\ raced = {} /\ known = {} /\ settled = NoRun /\ wrote = FALSE

\* The operator runs the script, for the first time or again.
main(r) ==
    /\ pc[r] = "idle"
    /\ pc' = [pc EXCEPT ![r] = "reading"]
    /\ \E e \in Environments : env' = [env EXCEPT ![r] = e]
    /\ settled' = NoRun /\ wrote' = FALSE
    /\ UNCHANGED <<services, defaults, written, raced, known>>

Exit(r) ==
    /\ pc' = [pc EXCEPT ![r] = "idle"]
    /\ env' = [env EXCEPT ![r] = NoRun]
    /\ written' = [written EXCEPT ![r] = NoServices]

\* get_config, the merge and the comparison: nothing is awaited between them.
seed(r) ==
    /\ pc[r] = "reading"
    /\ LET desired == build_desired_registry(env[r], services) IN
       \/ /\ registry_needs_update(services, defaults, desired)
          /\ pc' = [pc EXCEPT ![r] = "patching"]
          /\ written' = [written EXCEPT ![r] = desired]
          /\ UNCHANGED <<env, settled, wrote>>
       \/ /\ ~registry_needs_update(services, defaults, desired)
          /\ Exit(r) /\ settled' = env[r] /\ wrote' = FALSE
    /\ UNCHANGED <<services, defaults, raced, known>>

\* With --dry-run the differences are printed and nothing is written.
DryRun(r) ==
    /\ pc[r] = "reading"
    /\ Exit(r)
    /\ UNCHANGED <<services, defaults, raced, known, settled, wrote>>

\* The registry becomes what the run sends; the answer may be lost, and the
\* run then fails with its write applied.
patch_config(r) ==
    /\ pc[r] = "patching"
    /\ services' = written[r] /\ defaults' = "catalog"
    /\ Exit(r)
    /\ \E answered \in BOOLEAN : /\ settled' = IF answered THEN env[r] ELSE NoRun
                                 /\ wrote' = answered
    /\ UNCHANGED <<raced, known>>

\* Neither the GET nor the PATCH is retried.
RequestFails(r) ==
    /\ pc[r] \in {"reading", "patching"}
    /\ Exit(r)
    /\ UNCHANGED <<services, defaults, raced, known, settled, wrote>>

\* A run has read the registry and not yet written it.
Raced(s) == raced' = IF \E r \in Runs : pc[r] = "patching" THEN raced \cup {s} ELSE raced

\* Another client of the gateway registers a service of its own.
Register(s) ==
    /\ s \in Foreign \ known
    /\ services' = (s :> [endpoint |-> CHOOSE e \in Endpoints : TRUE, token |-> CHOOSE t \in TokenRefs : TRUE,
                         status |-> FALSE]) @@ services
    /\ known' = known \cup {s}
    /\ Raced(s)
    /\ settled' = NoRun /\ wrote' = FALSE
    /\ UNCHANGED <<defaults, pc, env, written>>

\* The gateway finds a service alive and sets the fields it keeps for itself.
Discover(s) ==
    /\ s \in DOMAIN services /\ ~services[s].status
    /\ services' = [services EXCEPT ![s].status = TRUE]
    /\ Raced(s)
    /\ UNCHANGED <<defaults, pc, env, written, known, settled, wrote>>

Reroute ==
    /\ defaults = "catalog"
    /\ defaults' = "other"
    /\ settled' = NoRun /\ wrote' = FALSE
    /\ UNCHANGED <<services, pc, env, written, raced, known>>

Next ==
    \/ \E r \in Runs : main(r) \/ seed(r) \/ DryRun(r) \/ patch_config(r) \/ RequestFails(r)
    \/ \E s \in Foreign : Register(s)
    \/ \E s \in Signers \cup Foreign : Discover(s)
    \/ Reroute

Spec == Init /\ [][Next]_vars

-----------------------------------------------------------------------------
\* A run that ended well, and that nobody followed, leaves a registry that the
\* same settings would not change: _registry_needs_update accepts what
\* _build_desired_registry produced, whatever runs overlapped before. The
\* docstring's "idempotent" (lines 24-25) is this, for the compared fields. A
\* token reference that alone has changed is not detected: services carry the
\* run's token reference for sure only if the run wrote.
SeedingSettles ==
    settled # NoRun =>
        /\ ~registry_needs_update(services, defaults, build_desired_registry(settled, services))
        /\ \A s \in Signers : s \in DOMAIN services /\ services[s].endpoint = settled.endpoint
        /\ wrote => \A s \in Signers : services[s].token = settled.token

\* A service that another client registered disappears only if it was
\* registered, or updated, between a run's get_config and its patch_config:
\* the merge keeps every service it has read, but the PATCH carries no version.
LostNeedsRace == known \ DOMAIN services \subseteq raced

ForgottenNeedsRace_Step ==
    \A s \in DOMAIN services \cap DOMAIN services' :
        services[s].status /\ ~services'[s].status => s \in raced

\* What the gateway found out about a service is taken back by a run only if
\* it was found while some run was between its read and its write.
ForgottenNeedsRace == [][ForgottenNeedsRace_Step]_vars

=============================================================================
