------------------------ MODULE RequestAuthorization ------------------------
(***************************************************************************)
(* Who may do what at the HTTP gateway, inside the services and at the     *)
(* gRPC servers, and what a request meets on its way: five components that *)
(* share no state, one section each, with its own Init and Next.           *)
(***************************************************************************)
EXTENDS Naturals, FiniteSets, TLC

-----------------------------------------------------------------------------
(***************************************************************************)
(* CedarAuthMiddleware of marty_common/cedar_middleware.py with the route  *)
(* tables of cedar_actions.py: which permission a request needs, which     *)
(* organization it is about, and whether it is passed on. A route stands   *)
(* for its pattern, an identifier for the organization that owns it.       *)
(***************************************************************************)
CONSTANTS
    GatewayOrgs,    \* organizations
    Owner,          \* the organization that owns the resource named in the path
    Scopes          \* the sets of scopes an API key may have

NoOrg == "none"
NoPermission == [resource |-> "none", action |-> "none"]

VARIABLES
    stage,          \* "idle", "owner", "caller", "member", "passed" or "refused"
    permission,     \* required permission
    shape,          \* where the path says whose resource it is, one of Shapes
    supplied,       \* the organization of the query, body or session
    caller,         \* "user", "anonymous" or "key"
    scopes,         \* api_key_scopes
    org,            \* resolved organization
    looked,         \* answer of the owner lookup
    gatewayStatus   \* HTTP status of a refusal, 200 when passed on checked, 0 unchecked

gatewayVars == <<stage, permission, shape, supplied, caller, scopes, org, looked, gatewayStatus>>

\* An organization's identifier, a resource whose owner is looked up, nothing; or a segment
\* after organizations that the pattern of extract_org_id does not take for an identifier.
Shapes == {"path", "lookup", "none", "segment"}

(* Routes: the permission each method needs                                *)

Reading == {"GET", "HEAD", "OPTIONS"}
Methods == Reading \union {"POST", "PUT", "PATCH", "DELETE"}

Route(shp, resource, actions) == [shape |-> shp, resource |-> resource, actions |-> actions]
On(methods, action) == [m \in methods |-> action]
Post(action) == On({"POST"}, action)
Get(action) == On({"GET"}, action)
Edit(verbs) ==
    [m \in Methods \ {"HEAD", "OPTIONS"} |->
        CASE m = "GET" -> "view" [] m = "POST" -> verbs[1] [] m = "DELETE" -> verbs[3]
          [] OTHER -> verbs[2]]

CanvasRoutes ==
    {Route(s, "integration-connector", a) :
        s \in {"lookup"},
        a \in {Get("view"), Post("view"), Post("edit"), On({"PUT"}, "edit"), On({"DELETE"}, "edit")}}
    \union {Route("none", "integration-connector", a) : a \in {Post("edit"), Post("view")}}

CredentialRoutes ==
    {Route("lookup", "credential-template", Post(a)) : a \in {"activate", "deprecate", "version"}}
    \union {Route("lookup", "revocation-profile", Post("activate")),
            Route("none", "issuance", Post("initiate"))}
    \union {Route(s, "issuance", On(Reading, "view")) : s \in {"lookup", "none"}}
    \union {Route("lookup", "issuance", Post(a)) : a \in {"revoke", "initiate"}}
    \union {Route(s, "issuance",
                  [m \in Reading \union {"POST"} |-> IF m = "POST" THEN "initiate" ELSE "view"]) :
               s \in {"lookup", "none"}}
    \union {Route(s, "application", a) :      \* any segment after organizations matches
               s \in {"path", "segment"},
               a \in {Get("review"), Post("approve"), Post("reject"), On(Methods \ {"PUT"}, "review")}}
    \union {Route(s, "issuance", Post("initiate")) : s \in {"path", "segment"}}

FlowRoutes ==
    {Route("none", "verification", Post("execute")), Route("lookup", "flow-definition", Post("activate"))}
    \union {Route(s, "flow-instance",
                  [m \in Reading \union {"POST"} |-> IF m = "POST" THEN "start" ELSE "view"]) :
               s \in {"lookup", "none"}}
    \union {Route(s, "flow-definition", Edit(<<"create", "edit", "delete">>)) :
               s \in {"lookup", "none"}}

OrganizationRoutes ==
    {Route("path", "organization", Post("transfer-ownership")),
     Route("path", "organization", Get("view")),
     Route("path", "role", On({"PUT", "POST", "DELETE"}, "assign")),
     Route("path", "role", Edit(<<"create", "edit", "delete">>)),
     Route("path", "role", Get("view")),
     Route("path", "team", Edit(<<"invite", "manage", "manage">>)),
     Route("path", "api-key", Edit(<<"create", "edit", "revoke">>)),
     Route("path", "audit", Get("export")), Route("path", "audit", Get("view")),
     Route("none", "policy-set", Post("validate"))}
    \union {Route(s, "policy-set", Post(a)) :
               s \in {"path", "lookup"}, a \in {"activate", "archive", "validate"}}

SPECIAL_ROUTE_RULES == CanvasRoutes \union CredentialRoutes \union FlowRoutes \union OrganizationRoutes

GENERIC_RESOURCE_MAP ==
    {"credential-template", "trust-profile", "trusted-issuer", "compliance-profile",
     "presentation-policy", "revocation-profile", "deployment-profile", "flow-definition",
     "flow-instance", "application-template", "verification", "integration-connector", "policy-set"}

\* A member of a collection is looked up, unless its segment has no entry in
\* RESOURCE_LOOKUP_MAP or the identifier is one of the reserved words.
RESOURCE_LOOKUP_MAP ==
    GENERIC_RESOURCE_MAP \ {"flow-instance", "verification", "integration-connector"}

resolve_generic_org_permission(method, resource) ==
    [resource |-> resource,
     action |->
        CASE method \in Reading -> "view"
          [] method \notin Reading /\ method # "DELETE" /\ resource = "verification" -> "execute"
          [] method = "POST" /\ resource = "flow-instance" -> "start"
          [] method = "POST" /\ resource \notin {"verification", "flow-instance"} -> "create"
          [] method \in {"PUT", "PATCH"} /\ resource # "verification" -> "edit"
          [] method = "DELETE" -> "delete"]

\* A special rule that matches decides, also when it has no entry for the method.
resolve_special(route, method) ==
    IF method \in DOMAIN route.actions
    THEN [resource |-> route.resource, action |-> route.actions[method]] ELSE NoPermission

resolve_resource_lookup(resource, hasId) ==
    IF hasId /\ resource \in RESOURCE_LOOKUP_MAP THEN "lookup" ELSE "none"

GatewayTypeOK ==
    /\ stage \in {"idle", "owner", "caller", "member", "passed", "refused"}
    /\ shape \in Shapes
    /\ {supplied, org} \subseteq GatewayOrgs \union {NoOrg}
    /\ caller \in {"user", "anonymous", "key"}
    /\ scopes \in Scopes \union {{}}
    /\ looked \in GatewayOrgs \union {NoOrg, "error"}
    /\ gatewayStatus \in {0, 200, 401, 403, 404, 500, 502, 503}

GatewayInit ==
    /\ stage = "idle"
    /\ permission = NoPermission
    /\ shape = "none" /\ supplied = NoOrg /\ org = NoOrg /\ looked = NoOrg
    /\ caller = "anonymous" /\ scopes = {}
    /\ gatewayStatus = 0

\* The organization of the query, else of a JSON body, else of the request's state.
extract_body_org_id(method, body) == IF method \in Reading THEN NoOrg ELSE body
Supplied(query, body, session) ==
    CASE query # NoOrg -> query [] query = NoOrg /\ body # NoOrg -> body [] OTHER -> session

GatewayArrive(perm, shp, method) ==
    /\ stage = "idle"
    /\ permission' = perm
    /\ shape' = shp
    /\ \E query, body, session \in GatewayOrgs \union {NoOrg} :
          supplied' = Supplied(query, extract_body_org_id(method, body), session)
    /\ \/ caller' \in {"user", "anonymous"} /\ scopes' = {}
       \/ caller' = "key" /\ scopes' \in Scopes
    \* SKIP_PATTERNS and routes without a permission are passed on
    /\ stage' = IF perm = NoPermission THEN "passed" ELSE "owner"
    /\ UNCHANGED <<org, looked, gatewayStatus>>

ArriveSkipped == \E m \in Methods : GatewayArrive(NoPermission, "none", m)
ArriveSpecial ==
    \E r \in SPECIAL_ROUTE_RULES, m \in Methods : GatewayArrive(resolve_special(r, m), r.shape, m)
ArriveGeneric ==
    \E r \in GENERIC_RESOURCE_MAP, m \in Methods :
       \/ GatewayArrive(resolve_generic_org_permission(m, r), "path", m)
       \/ \E hasId \in BOOLEAN :
             GatewayArrive(resolve_generic_org_permission(m, r), resolve_resource_lookup(r, hasId), m)

GatewayRefuse(code) ==
    /\ stage' = "refused" /\ gatewayStatus' = code
    /\ UNCHANGED <<permission, shape, supplied, caller, scopes>>

Resolve(o) ==
    /\ org' = o
    /\ stage' = IF o = NoOrg THEN "passed" ELSE "caller"
    /\ UNCHANGED <<permission, shape, supplied, caller, scopes, gatewayStatus>>

OrgOfRequest_ClientFirst(owner) == IF supplied # NoOrg THEN supplied ELSE owner

\* resolve_request_org_id: what the client supplies counts only when the path does not
\* tell the organization.
OrgOfRequest(owner) == IF owner # NoOrg THEN owner ELSE supplied

ResolveByPath ==
    /\ stage = "owner" /\ shape = "path"
    /\ Resolve(OrgOfRequest(Owner))
    /\ UNCHANGED looked

\* Neither extract_org_id nor RESOURCE_LOOKUP_MAP knows a segment that is not an identifier.
ResolveBySupplied ==
    /\ stage = "owner" /\ shape \in {"none", "segment"}
    /\ Resolve(OrgOfRequest(NoOrg))
    /\ UNCHANGED looked

LookupFailed_PassedOver(code) == looked' = "error" /\ Resolve(OrgOfRequest(NoOrg))

\* Every failure of the lookup ends the request: 503 when the registry, the service or
\* the call fails, 404 and 403 of the service, 502 for any other answer.
LookupFailed(code) == looked' = "error" /\ org' = NoOrg /\ GatewayRefuse(code)

lookup_resource_org_id ==
    /\ stage = "owner" /\ shape = "lookup"
    /\ \/ looked' = Owner /\ Resolve(OrgOfRequest(Owner))
       \/ \E code \in {404, 403, 502, 503} : LookupFailed(code)

(* API keys                                                                *)

resource_scopes ==
    [r \in {"credential-template", "application-template", "application", "trust-profile",
            "trusted-issuer", "presentation-policy", "compliance-profile", "deployment-profile",
            "webhook", "notification", "team", "role", "policy-set", "organization",
            "integration-connector"} |->
        CASE r = "credential-template" -> <<"templates:read", "templates:write">>
          [] r \in {"application-template", "application"} -> <<"applications:read", "applications:write">>
          [] r \in {"trust-profile", "trusted-issuer", "presentation-policy"} -> <<"trust:read", "trust:write">>
          [] r = "compliance-profile" -> <<"compliance:read", "compliance:write">>
          [] r = "deployment-profile" -> <<"deployment:read", "deployment:write">>
          [] r = "webhook" -> <<"webhooks:read", "webhooks:write">>
          [] r = "notification" -> <<"notifications:read", "notifications:send">>
          [] r \in {"team", "organization"} -> <<"users:read", "users:invite">>
          [] r = "role" -> <<"roles:read", "roles:write">>
          [] r = "policy-set" -> <<"trust:read", "trust:admin">>
          [] r = "integration-connector" -> <<"integrations:read", "integrations:write">>]

read_action == {"view", "read", "list"}
write_action == {"create", "edit", "delete", "write", "activate", "archive", "validate"}

MappedAllowed_ReadSuffices(p, s) == {resource_scopes[p.resource][1], resource_scopes[p.resource][2]} \cap s # {}

MappedAllowed(p, s) ==
    CASE p.action \in read_action ->
            {resource_scopes[p.resource][1], resource_scopes[p.resource][2]} \cap s # {}
      [] p.action \in write_action -> resource_scopes[p.resource][2] \in s
      [] OTHER -> FALSE

api_key_allowed(p, s) ==
    \/ "admin:full" \in s
    \/ p.resource = "flow-instance" /\ {"flows:execute", "flows:write"} \cap s # {}
    \/ /\ p.resource = "flow-definition"
       /\ IF p.action \in read_action
          THEN {"flows:read", "flows:write", "flows:execute"} \cap s # {} ELSE "flows:write" \in s
    \/ p.resource = "verification" /\ {"flows:execute", "credentials:read"} \cap s # {}
    \/ /\ p.resource = "issuance"
       /\ CASE p.action = "initiate" -> "credentials:issue" \in s
            [] p.action = "revoke" -> "credentials:revoke" \in s
            [] OTHER -> {"credentials:read", "credentials:issue"} \cap s # {}
    \/ p.resource \in DOMAIN resource_scopes /\ MappedAllowed(p, s)

Pass ==
    /\ stage' = "passed" /\ gatewayStatus' = 200
    /\ UNCHANGED <<permission, shape, supplied, caller, scopes>>

\* The key belongs to Owner or to another organization.
CheckKey ==
    /\ stage = "caller" /\ caller = "key"
    /\ \E keyOrg \in GatewayOrgs :
          IF keyOrg = org /\ api_key_allowed(permission, scopes) THEN Pass ELSE GatewayRefuse(403)
    /\ UNCHANGED <<org, looked>>

(* Users                                                                   *)

CheckUser ==
    /\ stage = "caller" /\ caller # "key"
    /\ \/ /\ caller = "anonymous"
          /\ GatewayRefuse(401)
       \/ /\ caller = "user"       \* org_client may be missing from the app's state
          /\ \/ GatewayRefuse(500)
             \/ stage' = "member"
                /\ UNCHANGED <<permission, shape, supplied, caller, scopes, gatewayStatus>>
    /\ UNCHANGED <<org, looked>>

Roles == {"none", "inactive", "viewer", "member", "owner"}
gateway_has_permission(role, p) ==
    CASE p.action = "transfer-ownership" -> role = "owner"
      [] role = "viewer" -> p.action = "view"
      [] OTHER -> role \in {"member", "owner"}

\* The answer of get_membership, or its exception.
CheckMembership ==
    /\ stage = "member"
    /\ \/ \E role \in Roles : IF gateway_has_permission(role, permission) THEN Pass ELSE GatewayRefuse(403)
       \/ \E code \in {500, 503} : GatewayRefuse(code)
    /\ UNCHANGED <<org, looked>>

GatewayNext ==
    \/ ArriveSkipped \/ ArriveSpecial \/ ArriveGeneric
    \/ ResolveByPath \/ ResolveBySupplied \/ lookup_resource_org_id
    \/ CheckKey \/ CheckUser \/ CheckMembership

GatewaySpec == GatewayInit /\ [][GatewayNext]_gatewayVars

\* A request is checked against another organization than the owner of what its path names
\* only if the path names nothing that is looked up and no identifier of an organization,
\* which a segment outside [a-f0-9-]{36} is not; and then against the one the query, the
\* body or the session supplied.
OwnerDecides ==
    (stage \in {"caller", "member"} \/ gatewayStatus = 200) /\ org # Owner =>
        shape \in {"none", "segment"} /\ org = supplied

\* The lookup of a resource's owner fails closed: a request about a looked-up resource
\* that is passed on has been checked against the answer of the lookup.
LookupFailsClosed ==
    (stage = "passed" /\ shape = "lookup" /\ permission # NoPermission) =>
        looked = Owner /\ gatewayStatus = 200

\* A key that has only read scopes is passed on for reading only, on every resource but
\* verification, which it may execute.
ReadScopesOnlyRead ==
    (stage = "passed" /\ gatewayStatus = 200 /\ caller = "key"
        /\ scopes \subseteq {"templates:read", "applications:read", "trust:read", "users:read",
                             "roles:read", "integrations:read", "flows:read", "credentials:read",
                             "compliance:read", "deployment:read"}) =>
        permission.action = "view" \/ permission.resource = "verification"

-----------------------------------------------------------------------------
(***************************************************************************)
(* Who a gRPC handler acts for: AuthServerInterceptor of                   *)
(* marty_common/auth_interceptor.py puts the verified TLS identity into a  *)
(* ContextVar while the handler runs, and the require decorator of         *)
(* authorization.py asks the Cedar policies about that identity. A worker  *)
(* is the asyncio task or the pool thread whose context the variable       *)
(* belongs to; a thread serves one call after another.                     *)
(***************************************************************************)
CONSTANTS
    Workers,        \* contexts that handlers run in
    Identities      \* identities of client certificates

RpcNone == "none"
\* AuthContext() of a health check, an unauthenticated identity.
Unknown == "unknown"

VARIABLES
    auth,           \* the ContextVar, per worker: None, Unknown or an identity
    call,           \* the call a worker serves
    outcome,        \* what the last use of a required function came to, per worker
    engine          \* the default policy engine: "unset", or which policies it holds

rpcVars == <<auth, call, outcome, engine>>

\* The bundled policies, those of CEDAR_POLICIES_DIR or a setter, or ones that do not parse.
Policies == {"unset", "bundled", "custom", "broken"}

RpcIdle == [stage |-> "idle", peer |-> RpcNone, token |-> RpcNone]
Outcomes == [result : {"none", "ran", "denied", "failed", "unauthenticated"},
             as : Identities \union {RpcNone}, peer : Identities \union {RpcNone, Unknown},
             policies : Policies]
NoOutcome == [result |-> "none", as |-> RpcNone, peer |-> RpcNone, policies |-> "unset"]

RpcTypeOK ==
    /\ auth \in [Workers -> Identities \union {RpcNone, Unknown}]
    /\ call \in [Workers -> [stage : {"idle", "running"}, peer : Identities \union {RpcNone, Unknown},
                             token : Identities \union {RpcNone, Unknown}]]
    /\ outcome \in [Workers -> Outcomes]
    /\ engine \in Policies

RpcInit ==
    /\ auth = [w \in Workers |-> RpcNone]
    /\ call = [w \in Workers |-> RpcIdle]
    /\ outcome = [w \in Workers |-> NoOutcome]
    /\ engine = "unset"

(* Authentication                                                          *)

\* _authenticate_request_sync: a bearer credential is a failure even beside a valid
\* certificate. _authenticate_mtls_sync: a TLS peer with exactly one identity.
authenticate_mtls(peer) == IF peer.tls /\ Cardinality(peer.ids) = 1 THEN peer.ids ELSE {}
authenticate_request(peer) == IF peer.bearer THEN {} ELSE authenticate_mtls(peer)

Peers == [tls : BOOLEAN, bearer : BOOLEAN, ids : SUBSET Identities]

\* The wrapper sets the variable and calls the handler; a call that is not authenticated
\* is aborted and leaves nothing behind.
Enter(w, peer) ==
    /\ call[w].stage = "idle"
    /\ \E id \in authenticate_request(peer) :
          /\ call' = [call EXCEPT ![w] = [stage |-> "running", peer |-> id, token |-> auth[w]]]
          /\ auth' = [auth EXCEPT ![w] = id]
    /\ outcome' = [outcome EXCEPT ![w] = NoOutcome]
    /\ UNCHANGED engine

\* Health checks bypass authentication; their context is not an authenticated one.
EnterHealthCheck(w) ==
    /\ call[w].stage = "idle"
    /\ call' = [call EXCEPT ![w] = [stage |-> "running", peer |-> Unknown, token |-> auth[w]]]
    /\ auth' = [auth EXCEPT ![w] = Unknown]
    /\ outcome' = [outcome EXCEPT ![w] = NoOutcome]
    /\ UNCHANGED engine

Restored_Kept(w) == auth[w]

\* The finally block, also when the handler raises or is cancelled.
Restored(w) == call[w].token

Exit(w) ==
    /\ call[w].stage = "running"
    /\ auth' = [auth EXCEPT ![w] = Restored(w)]
    /\ call' = [call EXCEPT ![w] = RpcIdle]
    /\ UNCHANGED <<outcome, engine>>

(* Policies                                                                *)

\* The claims of a TLS identity are {"cert_subject"}: it has no roles.
RolesOf_FromClaims(id) == {"admin"}
RolesOf(id) == {}

build_entities(id) == [user |-> id, roles |-> RolesOf(id), status |-> "ACTIVE"]

BundledPermits(entities) ==
    /\ entities.status \notin {"SUSPENDED", "DEACTIVATED"}
    /\ entities.roles \cap {"admin", "administrator", "document_signer", "inspection_officer",
                            "trust_manager", "applicant"} # {}

\* A policy of the operator may permit an identity by name.
Permits(entities) ==
    BundledPermits(entities) \/ (engine = "custom" /\ entities.user \in Identities)

\* _extract_auth_context: only an authenticated identity of the context counts.
extract_auth_context(w) == IF auth[w] \in Identities THEN {auth[w]} ELSE {}

\* _get_default_policy_engine, on the first use. Without a lock two workers may each make
\* one, of the same policies. A file that cannot be read raises and leaves it unset.
NewEngine(w) ==
    /\ engine = "unset" /\ extract_auth_context(w) # {}
    /\ engine' \in Policies \ {"unset"}
    /\ UNCHANGED <<auth, call, outcome>>

Finish(w, result, id) ==
    /\ outcome' = [outcome EXCEPT ![w] = [result |-> result, as |-> id, peer |-> call[w].peer,
                                          policies |-> engine]]
    /\ UNCHANGED <<auth, call, engine>>

\* The wrapper of require. Policies that do not parse make evaluate raise.
require(w) ==
    /\ engine # "unset" \/ extract_auth_context(w) = {}
    /\ \/ /\ extract_auth_context(w) = {}
          /\ Finish(w, "unauthenticated", RpcNone)
       \/ \E id \in extract_auth_context(w) :
             CASE engine = "broken" -> Finish(w, "failed", id)
               [] engine # "broken" /\ Permits(build_entities(id)) -> Finish(w, "ran", id)
               [] OTHER -> Finish(w, "denied", id)

\* The application replaces the policies of the engine.
RpcSetPolicies ==
    /\ engine # "unset"
    /\ engine' \in Policies \ {"unset"}
    /\ UNCHANGED <<auth, call, outcome>>

RpcNext ==
    \/ \E w \in Workers, p \in Peers : Enter(w, p)
    \/ \E w \in Workers : EnterHealthCheck(w) \/ Exit(w) \/ NewEngine(w) \/ require(w)
    \/ RpcSetPolicies

RpcSpec == RpcInit /\ [][RpcNext]_rpcVars

\* A required function acts for the caller of the call in progress, and outside a call,
\* when its worker has served others before, for nobody.
ActsForCaller ==
    \A w \in Workers :
        outcome[w].result \in {"ran", "denied", "failed"} => outcome[w].as = outcome[w].peer

\* With the bundled policies no required function ever runs: they permit by role, and an
\* identity taken from a certificate has none.
BundledDeniesAll == \A w \in Workers : outcome[w].result = "ran" => outcome[w].policies = "custom"

-----------------------------------------------------------------------------
(***************************************************************************)
(* The guards of marty_common/org_authorization.py inside a service: how   *)
(* the headers of a request, the API key service and the membership of its *)
(* user decide whether a handler runs. A request is followed from its      *)
(* headers to its status while keys and memberships change beside it.      *)
(* get_membership with its cache is the module OrgAuthorization; here it   *)
(* answers what the organization service holds at the moment of the call.  *)
(***************************************************************************)
\* The organization in the path of every request, and another one.
Mine == "mine"
Other == "other"
ServiceOrgs == {Mine, Other}
ServiceNone == "none"

VARIABLES
    member,         \* the service: the user's membership of Mine
    key,            \* the service: the API key
    service,        \* "up", "down", or "unset" when app.state has no org_client
    serviceReq      \* the request

serviceVars == <<member, key, service, serviceReq>>

(* What the organization service knows                                     *)

Memberships == {ServiceNone, "plain", "owner", "suspended"}

\* OrganizationMembership: a suspended owner keeps roles and permissions.
is_active(m) == m # "suspended"
permissions(m) == CASE m = ServiceNone -> {} [] m = "plain" -> {"view"} [] OTHER -> {"view", "edit"}
has_role(m, role) == IF m = "plain" THEN role = "staff" ELSE m # ServiceNone /\ role = "admin"
is_owner(m) == m \in {"owner", "suspended"}

Keys == [valid : BOOLEAN, org : ServiceOrgs, scopes : SUBSET {"issue"}]

(* Requests                                                                *)

MemberGuards == {"member", "permission", "role", "owner", "ensure"}
KeyGuards == {"key", "scope", "key_or_session"}

\* Headers. The gateway sets user, key_id, org and named together for a machine; a
\* handler may be reached with any part of them. "key" is the API key, "junk" is not one.
Headers == [user : {ServiceNone, "u", "api_key:k"}, key_id : {ServiceNone, "k"}, org : ServiceOrgs \union {ServiceNone},
            named : {ServiceNone, "view", "edit"}, bearer : {ServiceNone, "empty", "key", "junk"},
            x_api_key : {ServiceNone, "key", "junk"}]
Relevant(g, needs, h) ==
    /\ IF g \in MemberGuards THEN h.bearer = ServiceNone /\ h.x_api_key = ServiceNone
       ELSE h.key_id = ServiceNone /\ h.org = ServiceNone /\ h.named = ServiceNone
    /\ g \in {"permission", "ensure"} \/ needs = "view"

NoContext == [source |-> ServiceNone, member |-> ServiceNone, permissions |-> {}]
Contexts == [source : {ServiceNone, "session", "api_key"}, member : Memberships,
             permissions : SUBSET {"view", "edit"}]

NoHeaders == [user |-> ServiceNone, key_id |-> ServiceNone, org |-> ServiceNone, named |-> ServiceNone, bearer |-> ServiceNone,
              x_api_key |-> ServiceNone]
ServiceIdle == [stage |-> "idle", guard |-> "member", needs |-> "view", headers |-> NoHeaders,
                context |-> NoContext, entitled |-> FALSE, status |-> 0]

ServiceTypeOK ==
    /\ member \in Memberships /\ key \in Keys /\ service \in {"up", "down", "unset"}
    /\ serviceReq \in [stage : {"idle", "key", "membership", "decide", "done"},
                       guard : MemberGuards \union KeyGuards, needs : {"view", "edit"},
                       headers : Headers, context : Contexts, entitled : BOOLEAN,
                       status : {0, 200, 401, 403, 500, 503}]

ServiceInit ==
    /\ member \in Memberships /\ key \in Keys /\ service \in {"up", "down", "unset"}
    /\ serviceReq = ServiceIdle

\* What the request would need by what the service knows: the key it presents is valid for
\* the organization, or its user is an active member who has what the guard asks for.
Entitled(r) ==
    LET presented == IF r.headers.bearer # ServiceNone THEN r.headers.bearer ELSE r.headers.x_api_key
        byKey == /\ presented = "key" /\ key.valid
                 /\ r.guard = "key_or_session" => key.org = Mine
                 /\ r.guard = "scope" => "issue" \in key.scopes
        byUser == /\ r.headers.user = "u" /\ member \in {"plain", "owner"}
                  /\ r.guard \in {"permission", "ensure"} => r.needs \in permissions(member)
                  /\ r.guard = "role" => has_role(member, "admin")
                  /\ r.guard = "owner" => member = "owner"
    IN  (r.guard \in KeyGuards /\ byKey) \/ (r.guard \notin {"key", "scope"} /\ byUser)

\* The request goes on as r; what it is entitled to now counts for it.
Go(r) ==
    /\ serviceReq' = [r EXCEPT !.entitled = @ \/ Entitled(r)]
    /\ UNCHANGED <<member, key, service>>
ServiceRefuse(status) == Go([serviceReq EXCEPT !.stage = "done", !.status = status])
Decide(context) == Go([serviceReq EXCEPT !.stage = "decide", !.context = context])

ServiceArrive(g, needs, h) ==
    /\ Relevant(g, needs, h)
    /\ Go([ServiceIdle EXCEPT !.stage = IF g \in KeyGuards THEN "key" ELSE "membership",
                              !.guard = g, !.needs = needs, !.headers = h])

Complete_SameUser(h) == h.user = "api_key:k" /\ h.org = Mine

\* The complete binding the gateway makes: identity, organization and one permission.
Complete(h) == h.user = "api_key:k" /\ h.org = Mine /\ h.named # ServiceNone

KeyPermissions_All(h) == {"view", "edit"}

KeyPermissions(h) == {h.named}

\* require_org_membership for a machine: no service is asked.
MachineContext ==
    /\ serviceReq.stage = "membership" /\ serviceReq.guard # "ensure"
    /\ serviceReq.headers.user # ServiceNone /\ serviceReq.headers.key_id # ServiceNone
    /\ IF Complete(serviceReq.headers)
       THEN Decide([source |-> "api_key", member |-> ServiceNone,
                    permissions |-> KeyPermissions(serviceReq.headers) \ {ServiceNone}])
       ELSE ServiceRefuse(403)

Unidentified ==
    /\ serviceReq.stage = "membership" /\ serviceReq.headers.user = ServiceNone
    /\ ServiceRefuse(401)

Refusable_MissingOnly(m) == m = ServiceNone

\* No membership, or one that is not active; ensure_active_membership says the same.
Refusable(m) == m = ServiceNone \/ ~is_active(m)

\* get_organization_client and get_membership: 500, 503, or an answer. An "api_key:" user
\* is nobody's membership.
SessionContext ==
    /\ serviceReq.stage = "membership" /\ serviceReq.headers.user # ServiceNone
    /\ serviceReq.headers.key_id = ServiceNone \/ serviceReq.guard \in {"ensure", "key_or_session"}
    /\ LET m == IF serviceReq.headers.user = "u" THEN member ELSE ServiceNone
       IN  CASE service = "unset" -> ServiceRefuse(500)
             [] service = "down" -> ServiceRefuse(503)
             [] Refusable(m) -> ServiceRefuse(403)
             [] OTHER -> Decide([source |-> "session", member |-> m,
                                 permissions |-> permissions(m)])

(* API keys that a service validates itself                                *)

\* A Bearer header hides X-API-Key, also when nothing follows it.
Presented(h) ==
    IF h.bearer # ServiceNone THEN (IF h.bearer = "empty" THEN ServiceNone ELSE h.bearer) ELSE h.x_api_key

\* validate_api_key of the client: nothing for a key the service does not accept.
validate_api_key(k) == IF k = "key" /\ key.valid THEN {key} ELSE {}

NotAccessible_Unchecked(k) == FALSE

NotAccessible(k) == k.org # Mine

require_api_key_with_scope(k) == "issue" \in k.scopes

\* What the client does with a key when the service answers not at all.
ServiceFails(status) == (service = "unset" /\ status = 500) \/ (service = "down" /\ status = 503)

KeyContext == [source |-> "api_key", member |-> ServiceNone, permissions |-> {}]

\* require_api_key, and its scopes.
require_api_key ==
    /\ serviceReq.stage = "key" /\ serviceReq.guard # "key_or_session"
    /\ LET k == Presented(serviceReq.headers)
       IN  \/ k = ServiceNone /\ ServiceRefuse(401)
           \/ k # ServiceNone /\ \E status \in {500, 503} : ServiceFails(status) /\ ServiceRefuse(status)
           \/ /\ k # ServiceNone /\ service = "up" /\ validate_api_key(k) = {}
              /\ ServiceRefuse(401)
           \/ /\ k # ServiceNone /\ service = "up"
              /\ \E found \in validate_api_key(k) :
                    IF serviceReq.guard = "scope" /\ ~require_api_key_with_scope(found)
                    THEN ServiceRefuse(403) ELSE Decide(KeyContext)

\* require_api_key_or_session: without a key, or with one that is not accepted, it goes on
\* to the session.
require_api_key_or_session ==
    /\ serviceReq.stage = "key" /\ serviceReq.guard = "key_or_session"
    /\ LET k == Presented(serviceReq.headers)
       IN  \/ k # ServiceNone /\ \E status \in {500, 503} : ServiceFails(status) /\ ServiceRefuse(status)
           \/ /\ k = ServiceNone \/ (service = "up" /\ validate_api_key(k) = {})
              /\ Go([serviceReq EXCEPT !.stage = "membership"])
           \/ /\ k # ServiceNone /\ service = "up"
              /\ \E found \in validate_api_key(k) :
                    IF NotAccessible(found) THEN ServiceRefuse(403) ELSE Decide(KeyContext)

(* What is asked about the context                                         *)

service_has_permission(context, needs) == needs \in context.permissions
ensure_membership_permission(context) == service_has_permission(context, serviceReq.needs)
require_org_role(context) == context.member # ServiceNone /\ has_role(context.member, "admin")
require_org_owner(context) == context.member # ServiceNone /\ is_owner(context.member)

Allowed ==
    CASE serviceReq.guard = "permission" -> service_has_permission(serviceReq.context, serviceReq.needs)
      [] serviceReq.guard = "ensure" -> ensure_membership_permission(serviceReq.context)
      [] serviceReq.guard = "role" -> require_org_role(serviceReq.context)
      [] serviceReq.guard = "owner" -> require_org_owner(serviceReq.context)
      [] OTHER -> TRUE

Guarded ==
    /\ serviceReq.stage = "decide"
    /\ ServiceRefuse(IF Allowed THEN 200 ELSE 403)

\* Keys are revoked, members come, go and are suspended, the service fails and recovers;
\* a request under way meets what holds when it asks.
Change ==
    /\ serviceReq.stage \notin {"idle", "done"}
    /\ \/ member' \in Memberships \ {member} /\ UNCHANGED <<key, service>>
       \/ key.valid /\ key' = [key EXCEPT !.valid = FALSE] /\ UNCHANGED <<member, service>>
       \/ service = "up" /\ service' = "down" /\ UNCHANGED <<member, key>>
       \/ service = "down" /\ service' = "up" /\ UNCHANGED <<member, key>>
    /\ UNCHANGED serviceReq

ServiceNext ==
    \/ /\ serviceReq.stage = "idle"
       /\ \E g \in MemberGuards \union KeyGuards, needs \in {"view", "edit"}, h \in Headers :
             ServiceArrive(g, needs, h)
    \/ MachineContext \/ Unidentified \/ SessionContext
    \/ require_api_key \/ require_api_key_or_session \/ Guarded
    \/ Change

ServiceSpec == ServiceInit /\ [][ServiceNext]_serviceVars

\* A handler runs only for a request that, at some point on its way, was entitled to it by
\* what the organization service knew, or that came with the gateway's complete binding of
\* a machine: neither a failing service, nor a refused key beside a session, nor a
\* membership that changes underway lets another one through.
GrantsAreEntitled ==
    serviceReq.status = 200 => \/ serviceReq.entitled
                               \/ serviceReq.headers.key_id # ServiceNone /\ Complete(serviceReq.headers)

\* Behind the guards that rest on require_org_membership a machine runs with the one
\* permission that the gateway named, and never behind a role or owner guard.
MachinesStayNarrow ==
    (serviceReq.status = 200 /\ serviceReq.headers.key_id # ServiceNone /\ serviceReq.guard # "ensure") =>
               /\ serviceReq.headers.named # ServiceNone
               /\ serviceReq.guard = "permission" => serviceReq.headers.named = serviceReq.needs
               /\ serviceReq.guard \notin {"role", "owner"}

-----------------------------------------------------------------------------
(***************************************************************************)
(* A request through the middleware of marty_common/web_middleware.py, in  *)
(* the order create_service_app of service_setup.py stacks it: the layers  *)
(* added last are outermost. SecurityHeaders, RequestId, Logging and CORS  *)
(* are always there; a service may add UserContext, ETag and, with         *)
(* register_exception_handlers of errors/fastapi_handlers.py, a second     *)
(* layer for request ids. A client repeats requests for one resource,      *)
(* which changes, and sends back the ETag it holds.                        *)
(***************************************************************************)
CONSTANTS
    MaxBody         \* versions of the resource, the bound of the model

WebNone == "none"
Bodies == 0 .. MaxBody
NoBody == MaxBody + 1
\* The id a client sends, and those made by the outer and by the inner layer.
Ids == {"client", "outer", "inner", WebNone}

VARIABLES
    app,            \* the layers the service added
    webBody,        \* the resource
    held,           \* the version whose body and ETag the client holds
    webReq,         \* the request on its way in
    log,            \* the id of "Request started", and whether "completed" followed
    resp            \* the response on its way out

webVars == <<app, webBody, held, webReq, log, resp>>

WebNoRequest == [stage |-> "idle", id |-> WebNone, exempt |-> FALSE, user |-> WebNone, route |-> "open",
                 match |-> NoBody]
NoResponse == [status |-> 0, raised |-> FALSE, private |-> FALSE, id |-> WebNone, secured |-> FALSE,
               body |-> NoBody, tag |-> NoBody]
NoLog == [id |-> WebNone, completed |-> FALSE]

WebTypeOK ==
    /\ app \in [handlers : BOOLEAN, context : BOOLEAN, etag : {"none", "inside", "outside"}]
    /\ webBody \in Bodies /\ held \in Bodies \union {NoBody}
    /\ webReq \in [stage : {"idle", "handler", "out", "sent"}, id : Ids, exempt : BOOLEAN,
                   user : {WebNone, "user", "member"}, route : {"open", "user", "org"},
                   match : Bodies \union {NoBody}]
    /\ log \in [id : Ids, completed : BOOLEAN]
    /\ resp \in [status : {0, 200, 304, 401, 403, 500}, raised : BOOLEAN, private : BOOLEAN,
                 id : Ids, secured : BOOLEAN, body : Bodies \union {NoBody},
                 tag : Bodies \union {NoBody}]

\* ETag is added before or after the exception handlers: inside or outside their layer.
WebInit ==
    /\ app \in [handlers : BOOLEAN, context : BOOLEAN, etag : {"none", "inside", "outside"}]
    /\ webBody = 0 /\ held = NoBody
    /\ webReq = WebNoRequest /\ log = NoLog /\ resp = NoResponse

(* Inwards                                                                 *)

\* Both layers take the client's id or make one, each its own.
RequestId(layer, sent) == IF sent # WebNone THEN sent ELSE layer

Logged_Outside(sent) == WebNone

\* Logging runs inside RequestId and finds its id in the request's state.
Logged(sent) == RequestId("inner", sent)

WebArrive(sent, exempt, user, route, match) ==
    /\ webReq' = [stage |-> "handler", id |-> sent, exempt |-> exempt, user |-> user,
                  route |-> route, match |-> match]
    /\ log' = [id |-> Logged(sent), completed |-> FALSE]
    /\ resp' = NoResponse
    /\ UNCHANGED <<app, webBody, held>>

\* get_current_user: what UserContextMiddleware found in the gateway's headers.
CurrentUser == IF app.context THEN webReq.user ELSE WebNone

require_authenticated == CurrentUser # WebNone
require_organization == CurrentUser = "member"

Refusal ==
    CASE webReq.route # "open" /\ ~require_authenticated -> 401
      [] webReq.route = "org" /\ require_authenticated /\ ~require_organization -> 403
      [] OTHER -> 0

\* The route's handler: a response, or an exception nobody expected.
Handle ==
    /\ webReq.stage = "handler"
    /\ \/ \E private \in BOOLEAN :
             resp' = [NoResponse EXCEPT !.status = IF Refusal = 0 THEN 200 ELSE Refusal,
                                        !.private = private /\ Refusal = 0,
                                        !.body = IF Refusal = 0 THEN webBody ELSE NoBody]
       \/ resp' = [NoResponse EXCEPT !.status = 500, !.raised = TRUE]
    /\ webReq' = [webReq EXCEPT !.stage = "out"]
    /\ UNCHANGED <<app, webBody, held, log>>

(* Outwards                                                                *)

\* An exception no handler takes passes all layers; the server's own error layer answers
\* it, with the id when the exception handlers are registered.
Unhandled == [resp EXCEPT !.id = IF app.handlers THEN RequestId("outer", webReq.id) ELSE WebNone]

\* Logging, RequestId and SecurityHeaders.
Standard == [resp EXCEPT !.id = RequestId("inner", webReq.id), !.secured = TRUE]

Stamped(r) == IF app.handlers THEN [r EXCEPT !.id = RequestId("outer", webReq.id)] ELSE r

Matches_Any(tag) == webReq.match # NoBody

\* If-None-Match is the tag of this body.
Matches(tag) == webReq.match = tag

\* ETagMiddleware: not for exempt requests (another method than GET, an Authorization
\* header or a cookie), nor for what is not a success or says private or no-store in its
\* Cache-Control. The 304 is a new response without the headers of the other.
Tagged(r) ==
    IF app.etag = "none" \/ webReq.exempt \/ r.status # 200 \/ r.private THEN r
    ELSE IF Matches(r.body) THEN [NoResponse EXCEPT !.status = 304, !.tag = r.body]
    ELSE [r EXCEPT !.tag = r.body]

WebOutcome ==
    IF app.etag = "outside" THEN Tagged(Stamped(Standard)) ELSE Stamped(Tagged(Standard))

Respond ==
    /\ webReq.stage = "out"
    /\ resp' = IF resp.raised THEN Unhandled ELSE WebOutcome
    /\ log' = [log EXCEPT !.completed = ~resp.raised]
    /\ webReq' = [webReq EXCEPT !.stage = "sent"]
    /\ UNCHANGED <<app, webBody, held>>

\* The client takes the answer: the body it got, or the one it holds.
Receive ==
    /\ webReq.stage = "sent"
    /\ held' = IF resp.status = 200 /\ resp.tag # NoBody THEN resp.body ELSE held
    /\ webReq' = WebNoRequest /\ resp' = NoResponse /\ log' = NoLog
    /\ UNCHANGED <<app, webBody>>

ChangeBody ==
    /\ webBody < MaxBody /\ webBody' = webBody + 1
    /\ UNCHANGED <<app, held, webReq, log, resp>>

WebNext ==
    \/ /\ webReq.stage = "idle"
       /\ \E sent \in {WebNone, "client"}, exempt \in BOOLEAN, user \in {WebNone, "user", "member"},
             route \in {"open", "user", "org"}, match \in {NoBody, held} :
             WebArrive(sent, exempt, user, route, match)
    \/ Handle \/ Respond \/ Receive \/ ChangeBody

WebSpec == WebInit /\ [][WebNext]_webVars

\* The id that a response carries is the one its request was logged under, unless the
\* exception handlers brought a second layer and the client sent none: then each layer
\* makes an id, and the log knows the other one.
OtherIdNeedsTwoLayers ==
    (resp.id # WebNone /\ resp.id # log.id) => app.handlers /\ webReq.id = WebNone

\* 304 is answered only to a client that holds what the handler just returned, however the
\* resource changed in between, and never to a request with credentials or another method.
NotModifiedIsHeld ==
    (webReq.stage = "sent" /\ resp.status = 304) => resp.tag = held /\ ~webReq.exempt

-----------------------------------------------------------------------------
(***************************************************************************)
(* CedarEngine of marty_common/cedar_engine.py with the entities of        *)
(* cedar_entities.py and the policies bundled under marty_common/cedar:    *)
(* how an engine gets its policies, and what it decides about users, API   *)
(* keys and service accounts, credentials to be verified and applications  *)
(* to be approved. Cedar itself is external: a request is allowed when a   *)
(* permit matches and no forbid does.                                      *)
(***************************************************************************)
Files == {"gateway", "verification", "approval"}

VARIABLES
    policies,       \* the policy files whose text the engine holds; {"none"}: no engine
    meant,          \* the files that were to be in it
    lost,           \* one of them was not found
    request,        \* the request decided last
    decision        \* "none", "allow" or "deny"

policyVars == <<policies, meant, lost, request, decision>>

(* Entities: build_user_entities, build_apikey_entities                    *)

\* Role names and states are stored in several spellings; the entities have one.
Lower == ("Owner" :> "owner") @@ ("member" :> "member") @@ ("VIEWER" :> "viewer") @@
         ("Guest" :> "guest")
Upper == ("active" :> "ACTIVE") @@ ("Suspended" :> "SUSPENDED") @@
         ("organization" :> "ORGANIZATION") @@ ("DEPLOYMENT" :> "DEPLOYMENT")

build_user_entities(role, status) ==
    [type |-> "User", role |-> Lower[role], status |-> Upper[status]]

build_apikey_entities(scope, enabled) ==
    [type |-> "ApiKey", scope |-> Upper[scope], enabled |-> enabled]

Account == [type |-> "ServiceAccount"]

Principals ==
    {build_user_entities(r, "active") : r \in DOMAIN Lower}
    \union {build_user_entities("Owner", "Suspended")}
    \union {build_apikey_entities(s, e) : s \in {"organization", "DEPLOYMENT"}, e \in BOOLEAN}
    \union {Account}

\* A credential to be verified: its issuer's trust level is below 10, below 50 or above; a
\* fault is one against the profile it claims (a format, no holder binding, too old), or a
\* weak algorithm.
Credentials ==
    [required : BOOLEAN, checked : BOOLEAN, revoked : BOOLEAN, expired : BOOLEAN,
     trust : {5, 30, 90}, fault : {"none", "profile", "algorithm"}]

\* The evidence for an application.
Evidence == [verified : BOOLEAN, scope : BOOLEAN, complete : BOOLEAN]

PolicyNoRequest == [action |-> "none"]
Requests ==
    [principal : Principals, action : {"credentials:verify"}, about : Credentials]
    \union [principal : Principals, action : {"applications:approve"}, about : Evidence]
    \union [principal : Principals, action : {"credentials:read", "users:write"}]

(* The bundled policies                                                    *)

MemberActions == {"credentials:verify", "credentials:read", "applications:approve"}
ViewerActions == {"credentials:read"}

GatewayPermits(p, action) ==
    \/ /\ p.type = "User"
       /\ \/ p.role = "owner"
          \/ p.role = "member" /\ action \in MemberActions
          \/ p.role = "viewer" /\ action \in ViewerActions
    \/ p.type = "ApiKey" /\ p.scope = "ORGANIZATION" /\ p.enabled

GatewayForbids(p) ==
    \/ p.type = "ApiKey" /\ ~p.enabled
    \/ p.type = "User" /\ p.status = "SUSPENDED"

VerificationPermits(c) ==
    /\ c.required => c.checked /\ ~c.revoked
    /\ ~c.expired /\ c.trust >= 50

VerificationForbids_RequiredOnly(c) ==
    (c.required /\ (~c.checked \/ c.revoked)) \/ c.expired \/ c.trust < 10 \/ c.fault # "none"

VerificationForbids(c) ==
    c.revoked \/ (c.required /\ ~c.checked) \/ c.expired \/ c.trust < 10 \/ c.fault # "none"

ApprovalPermits(p, e) == p.type = "ServiceAccount" /\ e.verified /\ e.scope /\ e.complete
ApprovalForbids(p, e) == p.type = "ServiceAccount" /\ (~e.verified \/ ~e.scope)

Permitted(r) ==
    \/ "gateway" \in policies /\ GatewayPermits(r.principal, r.action)
    \/ /\ "verification" \in policies /\ r.action = "credentials:verify"
       /\ VerificationPermits(r.about)
    \/ /\ "approval" \in policies /\ r.action = "applications:approve"
       /\ ApprovalPermits(r.principal, r.about)

Forbidden(r) ==
    \/ "gateway" \in policies /\ GatewayForbids(r.principal)
    \/ /\ "verification" \in policies /\ r.action = "credentials:verify"
       /\ VerificationForbids(r.about)
    \/ /\ "approval" \in policies /\ r.action = "applications:approve"
       /\ ApprovalForbids(r.principal, r.about)

(* Engines                                                                 *)

PolicyTypeOK ==
    /\ meant \subseteq Files /\ lost \in BOOLEAN
    /\ policies \subseteq Files \/ policies = {"none"}
    /\ request.action = "none" <=> decision = "none"
    /\ request # PolicyNoRequest => request.principal \in Principals
    /\ decision \in {"none", "allow", "deny"}

PolicyInit ==
    /\ policies = {"none"} /\ meant = {} /\ lost = FALSE
    /\ request = PolicyNoRequest /\ decision = "none"

Make(asked, found) ==
    /\ policies = {"none"}
    /\ policies' = found /\ meant' = asked /\ lost' = (found # asked)
    /\ UNCHANGED <<request, decision>>

with_defaults == Make({"gateway"}, {"gateway"})

\* _load_policy_files: a path that does not exist is passed over.
Loaded(paths, absent) == paths \ absent

from_files(paths, absent) == Make(paths, Loaded(paths, absent))

\* The defaults, and the trust rules appended to them.
with_credential_verification == Make({"gateway", "verification"}, {"gateway", "verification"})

ApprovalRules_OnDefaults == {"gateway", "approval"}
ApprovalRules == {"approval"}

with_approval_rules == Make({"approval"}, ApprovalRules)

append_policies(f) ==
    /\ policies # {"none"} /\ decision = "none"
    /\ policies' = policies \union {f} /\ meant' = meant \union {f}
    /\ UNCHANGED <<lost, request, decision>>

\* The setter of the property: whatever was there is gone.
PolicySetPolicies(f) ==
    /\ policies # {"none"} /\ decision = "none"
    /\ policies' = {f} /\ meant' = {f} /\ lost' = FALSE
    /\ UNCHANGED <<request, decision>>

PolicyOutcome_Open(r, raises) == IF raises \/ (Permitted(r) /\ ~Forbidden(r)) THEN "allow" ELSE "deny"

\* An exception of the evaluation denies.
PolicyOutcome(r, raises) == IF ~raises /\ Permitted(r) /\ ~Forbidden(r) THEN "allow" ELSE "deny"

is_authorized(r, raises) ==
    /\ policies # {"none"} /\ decision = "none"
    /\ request' = r
    /\ decision' = PolicyOutcome(r, raises)
    /\ UNCHANGED <<policies, meant, lost>>

\* The caller has acted on the decision.
Acted ==
    /\ decision # "none"
    /\ request' = PolicyNoRequest /\ decision' = "none"
    /\ UNCHANGED <<policies, meant, lost>>

PolicyNext ==
    \/ with_defaults \/ with_credential_verification \/ with_approval_rules
    \/ \E paths \in SUBSET Files : \E absent \in SUBSET paths : from_files(paths, absent)
    \/ \E f \in Files : append_policies(f) \/ PolicySetPolicies(f)
    \/ decision = "none" /\ \E r \in Requests, raises \in BOOLEAN : is_authorized(r, raises)
    \/ Acted

PolicySpec == PolicyInit /\ [][PolicyNext]_policyVars

Unfit(c) ==
    c.revoked \/ (c.required /\ ~c.checked) \/ c.expired \/ c.trust < 10 \/ c.fault # "none"

\* A revoked or expired credential, one whose required status nobody checked, one of an
\* untrusted issuer and one that breaks its profile is accepted from nobody, an owner
\* included, unless the trust rules are not meant to be there or from_files did not find
\* them, which it does not say.
UnfitNeedsLoss ==
    decision = "allow" /\ request.action = "credentials:verify" /\ Unfit(request.about) =>
      "verification" \notin meant \/ lost

\* The rule that asks for a trust level of 50 is a permit: an engine with the gateway's
\* permits accepts less from whoever these let verify, and from nobody else.
LowTrustNeedsRole ==
    decision = "allow" /\ request.action = "credentials:verify" /\ request.about.trust < 50 =>
      "gateway" \in policies /\ GatewayPermits(request.principal, "credentials:verify")

\* What with_approval_rules says of itself: an engine made for approvals does not inherit
\* the gateway's permits. Unless they are added, an approval has complete, verified evidence.
ApprovalNeedsEvidence ==
    decision = "allow" /\ request.action = "applications:approve" /\ meant = {"approval"} =>
      request.about = [verified |-> TRUE, scope |-> TRUE, complete |-> TRUE]
=============================================================================
