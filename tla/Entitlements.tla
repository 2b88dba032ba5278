---------------------------- MODULE Entitlements ----------------------------
(***************************************************************************)
(* The components of the services that decide who may do what, and that    *)
(* share no state with one another: the gateway's authorization, the       *)
(* guards inside a service, the policy engine, the identity of gRPC        *)
(* callers, sessions, the roles of keys and the eligibility of crew. A     *)
(* behaviour follows one of them, the one in focus, from its initial       *)
(* states; v1 .. v12 hold the state of that component under the            *)
(* substitution of its INSTANCE. The constants of these components are     *)
(* constants here too, so that what is proved of them holds for all        *)
(* values; the other components of the same modules, which Services adds,  *)
(* have theirs fixed.                                                      *)
(***************************************************************************)
EXTENDS Naturals

CONSTANTS
    UserRoles, UserPermissions, SessionTokens, SessionHours,    \* AccessControl
    SessionMaxTime,
    Organizations, ResourceOwner, KeyScopes,                    \* the gateway
    RpcWorkers, RpcIdentities,                                  \* the gRPC identity
    CrewCleaners, CrewValidity, CrewRetention, CrewGrace,       \* CrewPolicy
    CrewMaxChecks, CrewMaxTime

\* What the components assume of them; "none" and "unknown" name nobody.
ASSUME EntitlementsConfig ==
    /\ {SessionMaxTime, CrewValidity, CrewRetention, CrewGrace, CrewMaxChecks,
        CrewMaxTime} \subseteq Nat /\ SessionHours \in Nat \ {0}
    /\ ResourceOwner \in Organizations /\ "none" \notin Organizations
    /\ "none" \notin DOMAIN UserRoles /\ DOMAIN UserPermissions = DOMAIN UserRoles
    /\ {"none", "unknown"} \cap RpcIdentities = {}

VARIABLES
    focus,          \* the component the behaviour is about
    v1, v2, v3, v4, v5, v6, v7, v8, v9, v10, v11, v12

vars == <<focus, v1, v2, v3, v4, v5, v6, v7, v8, v9, v10, v11, v12>>

\* Values for model checking: one user with a custom permission, and API keys of the gateway:
\* an administrator's, a reader's and a writer's.
OneOperator == [u1 |-> {"operator"}]
MayRotate == [u1 |-> {"rotate_key"}]
ThreeKeys ==
    {{"admin:full"},
     {"templates:read", "applications:read", "trust:read", "users:read", "roles:read",
      "integrations:read", "flows:read", "credentials:read", "compliance:read", "deployment:read"},
     {"templates:write", "trust:write", "flows:write", "credentials:issue"}}

Access == INSTANCE AccessControl WITH
    Roles <- UserRoles, Custom <- UserPermissions, Tokens <- SessionTokens,
    Hours <- SessionHours, MaxTime <- SessionMaxTime,
    account <- v1, expires <- v2, sessions <- v3, pending <- v4,
    holder <- v5, deadline <- v6, overlapping <- v7, late <- v8, log <- v9, writable <- v10,
    denied <- v11, now <- v12
Authz == INSTANCE RequestAuthorization WITH
    GatewayOrgs <- Organizations, Owner <- ResourceOwner, Scopes <- KeyScopes, stage <- v1,
    permission <- v2, shape <- v3, supplied <- v4, caller <- v5, scopes <- v6, org <- v7,
    looked <- v8, gatewayStatus <- v9,
    Workers <- RpcWorkers, Identities <- RpcIdentities, auth <- v1, call <- v2, outcome <- v3,
    engine <- v4,
    member <- v1, key <- v2, service <- v3, serviceReq <- v4,
    MaxBody <- 2, app <- v1, webBody <- v2, held <- v3, webReq <- v4, log <- v5, resp <- v6,
    policies <- v1, meant <- v2, lost <- v3, request <- v4, decision <- v5
Custody == INSTANCE KeyCustody WITH
    roleKey <- v1, holders <- v2, signers <- v3, accepted <- v4,
    VaultCallers <- {"a", "b"}, MaxVersion <- 2, MaxFaults <- 1, vaultKey <- v1,
    vaultToken <- v2, pc <- v3, asked <- v4, signature <- v5, material <- v6, types <- v7,
    rotated <- v8, faults <- v9,
    XpkiCallers <- {"a", "b"}, MaxTokens <- 3, service <- v1, xpkiToken <- v2, fresh <- v3,
    valid <- v4, opened <- v5, call <- v6
Crew == INSTANCE CrewPolicy WITH
    Cleaners <- CrewCleaners, Validity <- CrewValidity, Retention <- CrewRetention,
    Grace <- CrewGrace, MaxChecks <- CrewMaxChecks, MaxTime <- CrewMaxTime, checks <- v1,
    record <- v2, visa <- v3, granted <- v4, regranted <- v5, cleaned <- v6, chosen <- v7,
    raised <- v8, overlapped <- v9, now <- v10

-----------------------------------------------------------------------------
\* The variables a component has no use for.
Unused12 == v12 = "unused"
Unused11 == v11 = "unused" /\ Unused12
Unused10 == v10 = "unused" /\ Unused11
Unused9 == v9 = "unused" /\ Unused10
Unused8 == v8 = "unused" /\ Unused9
Unused7 == v7 = "unused" /\ Unused8
Unused6 == v6 = "unused" /\ Unused7
Unused5 == v5 = "unused" /\ Unused6
Unused4 == v4 = "unused" /\ Unused5

EntitlementInit ==
    \/ focus = "access_control" /\ Access!Init
    \/ focus = "gateway" /\ Authz!GatewayInit /\ Unused10
    \/ focus = "rpc" /\ Authz!RpcInit /\ Unused5
    \/ focus = "roles" /\ Custody!RoleInit /\ Unused5
    \/ focus = "crew" /\ Crew!Init /\ Unused11
    \/ focus = "service_authorization" /\ Authz!ServiceInit /\ Unused5
    \/ focus = "policies" /\ Authz!PolicyInit /\ Unused6

EntitlementNext ==
    \/ focus = "access_control" /\ Access!Next /\ UNCHANGED <<focus>>
    \/ focus = "gateway" /\ Authz!GatewayNext /\ UNCHANGED <<focus, v10, v11, v12>>
    \/ focus = "rpc" /\ Authz!RpcNext /\ UNCHANGED <<focus, v5, v6, v7, v8, v9, v10, v11, v12>>
    \/ focus = "roles" /\ Custody!RoleNext /\ UNCHANGED <<focus, v5, v6, v7, v8, v9, v10, v11, v12>>
    \/ focus = "crew" /\ Crew!Next /\ UNCHANGED <<focus, v11, v12>>
    \/ focus = "service_authorization" /\ Authz!ServiceNext /\ UNCHANGED <<focus, v5, v6, v7, v8, v9, v10, v11, v12>>
    \/ focus = "policies" /\ Authz!PolicyNext /\ UNCHANGED <<focus, v6, v7, v8, v9, v10, v11, v12>>

EntitlementSpec == EntitlementInit /\ [][EntitlementNext]_vars

-----------------------------------------------------------------------------
\* Who may do what: the organization, identity, session or role an operation is checked against
\* is the one it acts on, and a check that cannot be made refuses.
\* - OwnerDecides: A request is checked against another organization than the owner of what its
\*   path names only if the path names nothing that is looked up and no identifier of an
\*   organization; and then against the one the query, the body or the session supplied.
\* - LookupFailsClosed: The lookup of a resource's owner fails closed: a request about a
\*   looked-up resource that is passed on has been checked against the answer of the lookup.
\* - ReadScopesOnlyRead: A key that has only read scopes is passed on for reading only, on every
\*   resource but verification, which it may execute.
\* - ActsForCaller: A required function acts for the caller of the call in progress, and outside
\*   a call, when its worker has served others before, for nobody.
\* - BundledDeniesAll: With the bundled policies no required function ever runs: they permit by
\*   role, and an identity taken from a certificate has none.
\* - LateNeedsOverlap: A session is accepted past its own hours only if its user has logged in
\*   beside an open session: a later login extends the earlier one's expiry, and ending either
\*   one clears it for both.
\* - AuditByUser: What the audit log says of a user: every denial written while the file was
\*   writable is found by a query for that user, and a refused login never is.
\* - KeysStayInside: However a key is passed on, one hop at a time, certificate and document
\*   signing keys stay with the role that made them, and keys of wallets and holders with those
\*   two; every other private key, VDS-NC signing keys included, can reach the readers.
\* - OnlyOwnersSign: Copies do not sign: only the role the key was made for does, and a
\*   verification role never.
\* - FullIdsRefused: "The cred:* namespace is enforced by this module for all credential
\*   operations": a key is accepted under the id it was given and never under its full_key_id,
\*   which begins with the role, also when the id itself is in the namespace.
\* - GrantsAreEntitled: A handler runs only for a request that, at some point on its way, was
\*   entitled to it by what the organization service knew, or that came with the gateway's
\*   complete binding of a machine: neither a failing service, nor a refused key beside a
\*   session, nor a membership that changes underway lets another one through.
\* - MachinesStayNarrow: Behind the guards that rest on require_org_membership a machine runs
\*   with the one permission that the gateway named, and never behind a role or owner guard.
\* - UnfitNeedsLoss: A revoked or expired credential, one whose required status nobody checked,
\*   one of an untrusted issuer and one that breaks its profile is accepted from nobody, an
\*   owner included, unless the trust rules are not meant to be there or from_files did not find
\*   them, which it does not say.
\* - LowTrustNeedsRole: The rule that asks for a trust level of 50 is a permit: an engine with
\*   the gateway's permits accepts less from whoever these let verify, and from nobody else.
\* - ApprovalNeedsEvidence: What with_approval_rules says of itself: an engine made for
\*   approvals does not inherit the gateway's permits.
\* - BeyondGrantNeedsRegrant: Eligibility for a country outside the last grant needs a grant
\*   made on an existing record, whose countries are not replaced: one created without countries
\*   is good for all of them, whatever is granted later.
RequestsAreEntitled ==
    /\ focus = "gateway" =>
        /\ Authz!OwnerDecides
        /\ Authz!LookupFailsClosed
        /\ Authz!ReadScopesOnlyRead
    /\ focus = "rpc" => Authz!ActsForCaller /\ Authz!BundledDeniesAll
    /\ focus = "access_control" => Access!LateNeedsOverlap /\ Access!AuditByUser
    /\ focus = "roles" =>
        /\ Custody!KeysStayInside
        /\ Custody!OnlyOwnersSign
        /\ Custody!FullIdsRefused
    /\ focus = "service_authorization" =>
        /\ Authz!GrantsAreEntitled
        /\ Authz!MachinesStayNarrow
    /\ focus = "policies" =>
        /\ Authz!UnfitNeedsLoss
        /\ Authz!LowTrustNeedsRole
        /\ Authz!ApprovalNeedsEvidence
    /\ focus = "crew" => Crew!BeyondGrantNeedsRegrant
=============================================================================
