------------------------- MODULE EntitlementsProofs -------------------------
(***************************************************************************)
(* RequestsAreEntitled for all values of the constants of Entitlements:    *)
(* one inductive invariant per component, with the lemmas that it holds    *)
(* initially, that the component's steps keep it and, where it is not a    *)
(* conjunct of it, that it implies the property.                           *)
(***************************************************************************)
EXTENDS Entitlements, Sequences, TLAPS

-----------------------------------------------------------------------------
(* The gateway: the organization that a waiting request is checked against *)
(* is the owner's where the path tells it, otherwise the supplied one, and  *)
(* its permission is one that the route tables name.                       *)

\* What the route tables never name: an action "read" or "list", and on issuance anything but
\* initiating, revoking and viewing.
Named(resource, action) ==
    /\ action \notin {"read", "list"}
    /\ resource = "issuance" => action \in {"initiate", "revoke", "view"}

ActionsNamed(r) == \A m \in DOMAIN r.actions : Named(r.resource, r.actions[m])

GatewayInv ==
    /\ v3 \in Authz!Shapes
    /\ v1 \in {"idle", "owner", "caller", "member"} => v9 = 0
    /\ v1 \in {"caller", "member"} \/ v9 = 200 =>
          /\ v3 \in {"path", "lookup"} => v7 = ResourceOwner
          /\ v3 \in {"none", "segment"} => v7 = v4
          /\ v3 = "lookup" => v8 = ResourceOwner
    /\ v1 = "member" => v5 # "key"
    /\ v1 = "passed" /\ v3 = "lookup" /\ v2 # Authz!NoPermission => v8 = ResourceOwner /\ v9 = 200
    /\ v1 = "passed" /\ v9 = 200 /\ v5 = "key" => Authz!api_key_allowed(v2, v6)
    /\ Named(v2.resource, v2.action)

LEMMA RouteParts ==
    ASSUME NEW s, NEW x, NEW a
    PROVE  /\ Authz!Route(s, x, a).shape = s /\ Authz!Route(s, x, a).resource = x
           /\ Authz!Route(s, x, a).actions = a
  BY DEF Authz!Route

\* A route with one action, with one for posting and one for reading, and an editing route.
LEMMA OneAction ==
    ASSUME NEW s, NEW x, NEW ms, NEW a, Named(x, a)
    PROVE  ActionsNamed(Authz!Route(s, x, Authz!On(ms, a)))
  BY RouteParts DEF ActionsNamed, Authz!On

LEMMA TwoActions ==
    ASSUME NEW s, NEW x, NEW ms, NEW a, NEW b, Named(x, a), Named(x, b)
    PROVE  ActionsNamed(Authz!Route(s, x, [m \in ms |-> IF m = "POST" THEN a ELSE b]))
  BY RouteParts DEF ActionsNamed

LEMMA EditActions ==
    ASSUME NEW s, NEW x, NEW a, NEW b, NEW c,
           Named(x, "view"), Named(x, a), Named(x, b), Named(x, c)
    PROVE  ActionsNamed(Authz!Route(s, x, Authz!Edit(<<a, b, c>>)))
<1> DEFINE e == Authz!Edit(<<a, b, c>>)
<1>1. \A m \in DOMAIN e : e[m] \in {"view", a, b, c}
  BY DEF Authz!Edit
<1> HIDE DEF e
<1>2. \A m \in DOMAIN e : Named(x, e[m])
  BY <1>1
<1> QED BY <1>2, RouteParts DEF ActionsNamed, e

LEMMA CanvasNamed == ASSUME NEW r \in Authz!CanvasRoutes PROVE ActionsNamed(r)
<1>1. \E s \in {"lookup", "none"}, ms \in SUBSET Authz!Methods, a \in {"view", "edit"} :
         r = Authz!Route(s, "integration-connector", Authz!On(ms, a))
  BY DEF Authz!CanvasRoutes, Authz!Get, Authz!Post, Authz!Methods, Authz!Reading
<1> QED BY <1>1, OneAction DEF Named

LEMMA CredentialNamed == ASSUME NEW r \in Authz!CredentialRoutes PROVE ActionsNamed(r)
<1>1. \/ \E s \in Authz!Shapes,
           x \in {"credential-template", "revocation-profile", "application"},
           ms \in SUBSET Authz!Methods,
           a \in {"activate", "deprecate", "version", "review", "approve", "reject"} :
              r = Authz!Route(s, x, Authz!On(ms, a))
      \/ \E s \in Authz!Shapes, ms \in SUBSET Authz!Methods,
            a \in {"initiate", "revoke", "view"} : r = Authz!Route(s, "issuance", Authz!On(ms, a))
      \/ \E s \in {"lookup", "none"} :
            r = Authz!Route(s, "issuance", [m \in Authz!Reading \union {"POST"} |->
                                                  IF m = "POST" THEN "initiate" ELSE "view"])
  BY DEF Authz!CredentialRoutes, Authz!Get, Authz!Post, Authz!Methods, Authz!Reading, Authz!Shapes
<1>2. ASSUME NEW s, NEW x \in {"credential-template", "revocation-profile", "application"}, NEW ms,
             NEW a \in {"activate", "deprecate", "version", "review", "approve", "reject"},
             r = Authz!Route(s, x, Authz!On(ms, a))
      PROVE  ActionsNamed(r)
  BY <1>2, OneAction DEF Named
<1>3. ASSUME NEW s, NEW ms, NEW a \in {"initiate", "revoke", "view"},
             r = Authz!Route(s, "issuance", Authz!On(ms, a))
      PROVE  ActionsNamed(r)
  BY <1>3, OneAction DEF Named
<1>4. ASSUME NEW s,
             r = Authz!Route(s, "issuance", [m \in Authz!Reading \union {"POST"} |->
                                                IF m = "POST" THEN "initiate" ELSE "view"])
      PROVE  ActionsNamed(r)
  <2>1. Named("issuance", "initiate") /\ Named("issuance", "view")
    BY DEF Named
  <2> QED BY <1>4, <2>1, TwoActions
<1> QED BY <1>1, <1>2, <1>3, <1>4

LEMMA FlowNamed == ASSUME NEW r \in Authz!FlowRoutes PROVE ActionsNamed(r)
<1>1. \/ r = Authz!Route("none", "verification", Authz!On({"POST"}, "execute"))
      \/ r = Authz!Route("lookup", "flow-definition", Authz!On({"POST"}, "activate"))
      \/ \E s \in {"lookup", "none"} :
            r = Authz!Route(s, "flow-instance", [m \in Authz!Reading \union {"POST"} |->
                                                       IF m = "POST" THEN "start" ELSE "view"])
      \/ \E s \in {"lookup", "none"} :
            r = Authz!Route(s, "flow-definition", Authz!Edit(<<"create", "edit", "delete">>))
  BY DEF Authz!FlowRoutes, Authz!Post
<1>2. /\ \A a \in {"activate", "create", "edit", "delete", "view"} : Named("flow-definition", a)
      /\ Named("verification", "execute")
      /\ Named("flow-instance", "start") /\ Named("flow-instance", "view")
  BY DEF Named
<1> QED BY <1>1, <1>2, OneAction, TwoActions, EditActions

LEMMA OrganizationNamed == ASSUME NEW r \in Authz!OrganizationRoutes PROVE ActionsNamed(r)
<1>1. \/ r = Authz!Route("path", "organization", Authz!On({"POST"}, "transfer-ownership"))
      \/ r = Authz!Route("path", "organization", Authz!On({"GET"}, "view"))
      \/ r = Authz!Route("path", "role", Authz!On({"PUT", "POST", "DELETE"}, "assign"))
      \/ r = Authz!Route("path", "role", Authz!Edit(<<"create", "edit", "delete">>))
      \/ r = Authz!Route("path", "role", Authz!On({"GET"}, "view"))
      \/ r = Authz!Route("path", "team", Authz!Edit(<<"invite", "manage", "manage">>))
      \/ r = Authz!Route("path", "api-key", Authz!Edit(<<"create", "edit", "revoke">>))
      \/ r = Authz!Route("path", "audit", Authz!On({"GET"}, "export"))
      \/ r = Authz!Route("path", "audit", Authz!On({"GET"}, "view"))
      \/ r = Authz!Route("none", "policy-set", Authz!On({"POST"}, "validate"))
      \/ \E s \in {"path", "lookup"}, a \in {"activate", "archive", "validate"} :
            r = Authz!Route(s, "policy-set", Authz!On({"POST"}, a))
  BY DEF Authz!OrganizationRoutes, Authz!Get, Authz!Post
<1>2. /\ \A a \in {"transfer-ownership", "view"} : Named("organization", a)
      /\ \A a \in {"view", "assign", "create", "edit", "delete"} : Named("role", a)
      /\ \A a \in {"view", "invite", "manage"} : Named("team", a)
      /\ \A a \in {"view", "create", "edit", "revoke"} : Named("api-key", a)
      /\ \A a \in {"view", "export"} : Named("audit", a)
      /\ \A a \in {"activate", "archive", "validate"} : Named("policy-set", a)
  BY DEF Named
<1> QED BY <1>1, <1>2, OneAction, EditActions

\* The permission that a route needs, from both tables.
LEMMA SpecialNamed ==
    ASSUME NEW r \in Authz!SPECIAL_ROUTE_RULES, NEW m
    PROVE  LET p == Authz!resolve_special(r, m) IN Named(p.resource, p.action)
<1>1. ActionsNamed(r)
  BY CanvasNamed, CredentialNamed, FlowNamed, OrganizationNamed DEF Authz!SPECIAL_ROUTE_RULES
<1>2. CASE m \in DOMAIN r.actions
  BY <1>1, <1>2 DEF Authz!resolve_special, ActionsNamed
<1>3. CASE m \notin DOMAIN r.actions
  BY <1>3 DEF Authz!resolve_special, Authz!NoPermission, Named
<1> QED BY <1>2, <1>3

LEMMA GenericNamed ==
    ASSUME NEW x \in Authz!GENERIC_RESOURCE_MAP, NEW m \in Authz!Methods
    PROVE  LET p == Authz!resolve_generic_org_permission(m, x) IN Named(p.resource, p.action)
<1> DEFINE p == Authz!resolve_generic_org_permission(m, x)
<1>1. p.resource = x /\ x # "issuance"
  BY DEF Authz!resolve_generic_org_permission, Authz!GENERIC_RESOURCE_MAP
<1>2. p.action \in {"view", "execute", "start", "create", "edit", "delete"}
  BY DEF Authz!resolve_generic_org_permission, Authz!Methods, Authz!Reading
<1> QED BY <1>1, <1>2 DEF Named

\* A key with read scopes only: what it may do with such a permission.
ReadScopes ==
    {"templates:read", "applications:read", "trust:read", "users:read", "roles:read",
     "integrations:read", "flows:read", "credentials:read", "compliance:read", "deployment:read"}

LEMMA WriteScopes ==
    ASSUME NEW x \in DOMAIN Authz!resource_scopes
    PROVE  Authz!resource_scopes[x][2] \notin ReadScopes
<1>1. Authz!resource_scopes[x][2] \in {"templates:write", "applications:write", "trust:write",
         "compliance:write", "deployment:write", "webhooks:write", "notifications:send",
         "users:invite", "roles:write", "trust:admin", "integrations:write"}
  BY DEF Authz!resource_scopes
<1> QED BY <1>1 DEF ReadScopes

LEMMA ReadScopesRead ==
    ASSUME NEW p, NEW s \in SUBSET ReadScopes, Named(p.resource, p.action),
           Authz!api_key_allowed(p, s)
    PROVE  p.action = "view" \/ p.resource = "verification"
<1>1. /\ "admin:full" \notin s /\ "flows:execute" \notin s /\ "flows:write" \notin s
      /\ "credentials:issue" \notin s /\ "credentials:revoke" \notin s
  BY DEF ReadScopes
<1>2. p.action \in Authz!read_action => p.action = "view"
  BY DEF Named, Authz!read_action
<1>3. CASE p.resource = "flow-instance" /\ {"flows:execute", "flows:write"} \cap s # {}
  BY <1>1, <1>3
<1>4. CASE /\ p.resource = "flow-definition"
           /\ IF p.action \in Authz!read_action
              THEN {"flows:read", "flows:write", "flows:execute"} \cap s # {}
              ELSE "flows:write" \in s
  BY <1>1, <1>2, <1>4
<1>5. CASE /\ p.resource = "issuance"
           /\ CASE p.action = "initiate" -> "credentials:issue" \in s
                [] p.action = "revoke" -> "credentials:revoke" \in s
                [] OTHER -> {"credentials:read", "credentials:issue"} \cap s # {}
  BY <1>1, <1>5 DEF Named
<1>6. CASE p.resource \in DOMAIN Authz!resource_scopes /\ Authz!MappedAllowed(p, s)
  <2>1. Authz!resource_scopes[p.resource][2] \notin s
    BY <1>6, WriteScopes
  <2>2. p.action \in Authz!read_action
    BY <1>6, <2>1, Zenon DEF Authz!MappedAllowed
  <2> QED BY <1>2, <2>2
<1> QED BY <1>1, <1>3, <1>4, <1>5, <1>6 DEF Authz!api_key_allowed

LEMMA GatewayAnswers ==
    GatewayInv => Authz!OwnerDecides /\ Authz!LookupFailsClosed /\ Authz!ReadScopesOnlyRead
<1> SUFFICES ASSUME GatewayInv
             PROVE  Authz!OwnerDecides /\ Authz!LookupFailsClosed /\ Authz!ReadScopesOnlyRead
  OBVIOUS
<1>1. Authz!OwnerDecides /\ Authz!LookupFailsClosed
  BY DEF GatewayInv, Authz!OwnerDecides, Authz!LookupFailsClosed, Authz!Shapes
<1>2. Authz!ReadScopesOnlyRead
  BY ReadScopesRead DEF GatewayInv, Authz!ReadScopesOnlyRead, ReadScopes
<1> QED BY <1>1, <1>2

LEMMA GatewayStart == Authz!GatewayInit => GatewayInv
  BY DEF Authz!GatewayInit, GatewayInv, Authz!NoPermission, Named, Authz!Shapes

\* A request arrives with a permission of the tables, and passes unchecked without one.
LEMMA GatewayArrives ==
    ASSUME GatewayInv, NEW perm, NEW shp \in Authz!Shapes, NEW method,
           Named(perm.resource, perm.action), Authz!GatewayArrive(perm, shp, method)
    PROVE  GatewayInv'
<1>1. v2' = perm /\ v3' = shp /\ v9' = 0
  BY DEF Authz!GatewayArrive, GatewayInv
<1>2. (v1' = "passed" /\ perm = Authz!NoPermission) \/ v1' = "owner"
  BY DEF Authz!GatewayArrive
<1> QED BY <1>1, <1>2 DEF GatewayInv

LEMMA GatewayRefuses ==
    ASSUME GatewayInv, NEW code \in {401, 403, 404, 500, 502, 503}, Authz!GatewayRefuse(code)
    PROVE  GatewayInv'
  BY DEF GatewayInv, Authz!GatewayRefuse

LEMMA GatewayPasses ==
    ASSUME GatewayInv, v1 \in {"caller", "member"}, Authz!Pass, UNCHANGED <<v7, v8>>,
           v5 = "key" => Authz!api_key_allowed(v2, v6)
    PROVE  GatewayInv'
<1>1. v1' = "passed" /\ v9' = 200 /\ UNCHANGED <<v2, v3, v4, v5, v6, v7, v8>>
  BY DEF Authz!Pass
<1>2. v3 = "lookup" => v8 = ResourceOwner
  BY DEF GatewayInv
<1>3. v5 = "key" => Authz!api_key_allowed(v2', v6')
  BY <1>1
<1> HIDE DEF Authz!api_key_allowed
<1> QED BY <1>1, <1>2, <1>3 DEF GatewayInv

LEMMA RouteShapes ==
    ASSUME NEW r \in Authz!SPECIAL_ROUTE_RULES PROVE r.shape \in Authz!Shapes
<1> USE DEF Authz!Shapes
<1>1. r \in Authz!CanvasRoutes => r.shape \in {"lookup", "none"}
  BY DEF Authz!CanvasRoutes, Authz!Route
<1>2. r \in Authz!CredentialRoutes => r.shape \in Authz!Shapes
  BY DEF Authz!CredentialRoutes, Authz!Route
<1>3. r \in Authz!FlowRoutes => r.shape \in {"lookup", "none"}
  BY DEF Authz!FlowRoutes, Authz!Route
<1>4. r \in Authz!OrganizationRoutes => r.shape \in {"path", "lookup", "none"}
  BY DEF Authz!OrganizationRoutes, Authz!Route
<1> QED BY <1>1, <1>2, <1>3, <1>4 DEF Authz!SPECIAL_ROUTE_RULES

LEMMA GatewayStep == ASSUME GatewayInv, [Authz!GatewayNext]_(Authz!gatewayVars) PROVE GatewayInv'
<1>1. CASE UNCHANGED Authz!gatewayVars
  BY <1>1 DEF Authz!gatewayVars, GatewayInv
<1>2. CASE Authz!ArriveSkipped
  <2>1. Named(Authz!NoPermission.resource, Authz!NoPermission.action)
    BY DEF Authz!NoPermission, Named
  <2> QED BY <1>2, <2>1, GatewayArrives DEF Authz!ArriveSkipped, Authz!Shapes
<1>3. CASE Authz!ArriveSpecial
  <2>1. PICK r \in Authz!SPECIAL_ROUTE_RULES, m \in Authz!Methods :
           Authz!GatewayArrive(Authz!resolve_special(r, m), r.shape, m)
    BY <1>3 DEF Authz!ArriveSpecial
  <2>2. r.shape \in Authz!Shapes
    BY RouteShapes
  <2> QED BY <2>1, <2>2, GatewayArrives, SpecialNamed
<1>4. CASE Authz!ArriveGeneric
  <2>1. PICK x \in Authz!GENERIC_RESOURCE_MAP, m \in Authz!Methods :
           \E shp \in Authz!Shapes :
              Authz!GatewayArrive(Authz!resolve_generic_org_permission(m, x), shp, m)
    BY <1>4 DEF Authz!ArriveGeneric, Authz!resolve_resource_lookup, Authz!Shapes
  <2> QED BY <2>1, GatewayArrives, GenericNamed
<1>5. CASE Authz!ResolveByPath \/ Authz!lookup_resource_org_id
  <2>1. Authz!OrgOfRequest(ResourceOwner) = ResourceOwner /\ ResourceOwner # Authz!NoOrg
    BY EntitlementsConfig DEF Authz!OrgOfRequest, Authz!NoOrg
  <2>2. CASE /\ Authz!Resolve(ResourceOwner) /\ v1 = "owner"
             /\ v3 = "path" \/ v8' = ResourceOwner
    <3>1. v7' = ResourceOwner /\ v1' = "caller" /\ UNCHANGED <<v2, v3, v4, v9>>
      BY <2>1, <2>2 DEF Authz!Resolve
    <3>2. v3 \in {"path", "lookup"} /\ (v3 = "lookup" => v8' = ResourceOwner)
      BY <1>5, <2>2 DEF Authz!ResolveByPath, Authz!lookup_resource_org_id
    <3> QED BY <2>2, <3>1, <3>2 DEF GatewayInv
  <2>3. CASE \E code \in {404, 403, 502, 503} : Authz!LookupFailed(code)
    BY <2>3, GatewayRefuses DEF Authz!LookupFailed
  <2> QED BY <1>5, <2>1, <2>2, <2>3 DEF Authz!ResolveByPath, Authz!lookup_resource_org_id
<1>6. CASE Authz!ResolveBySupplied
  <2>1. /\ v3 \in {"none", "segment"} /\ v1 = "owner" /\ v1' \in {"passed", "caller"}
        /\ v7' = v4 /\ UNCHANGED <<v2, v3, v4, v9>>
    BY <1>6 DEF Authz!ResolveBySupplied, Authz!Resolve, Authz!OrgOfRequest
  <2> QED BY <2>1 DEF GatewayInv
<1>7. CASE Authz!CheckKey
  <2>1. \/ Authz!api_key_allowed(v2, v6) /\ Authz!Pass
        \/ Authz!GatewayRefuse(403)
    BY <1>7, Zenon DEF Authz!CheckKey
  <2>2. v1 = "caller" /\ UNCHANGED <<v7, v8>>
    BY <1>7 DEF Authz!CheckKey
  <2> QED BY <2>1, <2>2, GatewayPasses, GatewayRefuses
<1>8. CASE Authz!CheckUser
  <2>1. CASE \E code \in {401, 500} : Authz!GatewayRefuse(code)
    BY <2>1, GatewayRefuses
  <2>2. CASE v1' = "member" /\ UNCHANGED <<v2, v3, v4, v5, v6, v9>>
    <3>1. v1 = "caller" /\ v5 # "key" /\ UNCHANGED <<v7, v8>>
      BY <1>8 DEF Authz!CheckUser
    <3> QED BY <2>2, <3>1 DEF GatewayInv
  <2> QED BY <1>8, <2>1, <2>2 DEF Authz!CheckUser
<1>9. CASE Authz!CheckMembership
  <2>0. v1 = "member" /\ UNCHANGED <<v7, v8>> /\ v5 # "key"
    BY <1>9 DEF Authz!CheckMembership, GatewayInv
  <2>1. Authz!Pass \/ \E code \in {403, 500, 503} : Authz!GatewayRefuse(code)
    BY <1>9 DEF Authz!CheckMembership
  <2> QED BY <2>0, <2>1, GatewayPasses, GatewayRefuses
<1> QED
  BY <1>1, <1>2, <1>3, <1>4, <1>5, <1>6, <1>7, <1>8, <1>9 DEF Authz!GatewayNext

-----------------------------------------------------------------------------
(* gRPC: the context variable of a worker is the peer of its call, and     *)
(* nobody's between calls.                                                 *)

ContextIsPeer ==
    \A w \in RpcWorkers :
        \/ v2[w].stage = "running" /\ v1[w] = v2[w].peer /\ v2[w].token = Authz!RpcNone
        \/ v2[w].stage = "idle" /\ v1[w] = Authz!RpcNone

RpcInv == Authz!RpcTypeOK /\ ContextIsPeer /\ Authz!ActsForCaller /\ Authz!BundledDeniesAll

LEMMA RpcStart == Authz!RpcInit => RpcInv
  BY DEF Authz!RpcInit, RpcInv, Authz!RpcTypeOK, ContextIsPeer, Authz!ActsForCaller,
         Authz!BundledDeniesAll,
         Authz!RpcIdle, Authz!NoOutcome, Authz!RpcNone, Authz!Policies, Authz!Outcomes

\* A function that is required acts for the identity in the context, and the bundled
\* policies permit by role only.
LEMMA RpcRequire ==
    ASSUME RpcInv, NEW w \in RpcWorkers, Authz!require(w) PROVE RpcInv'
<1> USE DEF Authz!RpcNone, Authz!Unknown
<1>1. ASSUME NEW result \in {"ran", "denied", "failed"}, NEW id \in RpcIdentities,
             v1[w] = id, result = "ran" => v4 = "custom", Authz!Finish(w, result, id)
      PROVE  RpcInv'
  <2>1. v2[w].peer = id
    BY <1>1, EntitlementsConfig DEF RpcInv, ContextIsPeer
  <2> QED
    BY <1>1, <2>1
    DEF Authz!Finish, RpcInv, Authz!RpcTypeOK, ContextIsPeer, Authz!ActsForCaller,
        Authz!BundledDeniesAll, Authz!Outcomes
<1>2. CASE Authz!Finish(w, "unauthenticated", Authz!RpcNone)
  BY <1>2
  DEF Authz!Finish, RpcInv, Authz!RpcTypeOK, ContextIsPeer, Authz!ActsForCaller,
      Authz!BundledDeniesAll, Authz!Outcomes
<1>3. ASSUME NEW id \in Authz!extract_auth_context(w) PROVE id \in RpcIdentities /\ v1[w] = id
  BY DEF Authz!extract_auth_context
<1>4. ASSUME NEW id, Authz!Permits(Authz!build_entities(id)) PROVE v4 = "custom"
  BY <1>4
  DEF Authz!Permits, Authz!build_entities, Authz!RolesOf, Authz!BundledPermits
<1>5. ASSUME NEW id \in Authz!extract_auth_context(w),
             CASE v4 = "broken" -> Authz!Finish(w, "failed", id)
               [] v4 # "broken" /\ Authz!Permits(Authz!build_entities(id)) ->
                    Authz!Finish(w, "ran", id)
               [] OTHER -> Authz!Finish(w, "denied", id)
      PROVE  RpcInv'
  BY <1>1, <1>3, <1>4, <1>5
<1> QED BY <1>2, <1>5 DEF Authz!require

LEMMA RpcStep == ASSUME RpcInv, [Authz!RpcNext]_(Authz!rpcVars) PROVE RpcInv'
<1> USE DEF Authz!RpcNone, Authz!Unknown
<1>1. CASE UNCHANGED Authz!rpcVars
  BY <1>1
  DEF RpcInv, Authz!rpcVars, Authz!RpcTypeOK, ContextIsPeer, Authz!ActsForCaller,
      Authz!BundledDeniesAll
<1>2. ASSUME NEW w \in RpcWorkers, NEW p \in Authz!Peers, Authz!Enter(w, p) PROVE RpcInv'
  <2>1. PICK id \in RpcIdentities :
            /\ v2' = [v2 EXCEPT ![w] = [stage |-> "running", peer |-> id, token |-> v1[w]]]
            /\ v1' = [v1 EXCEPT ![w] = id]
    BY <1>2 DEF Authz!Enter, Authz!authenticate_request, Authz!authenticate_mtls, Authz!Peers
  <2>2. v3' = [v3 EXCEPT ![w] = Authz!NoOutcome] /\ v4' = v4 /\ v2[w].stage = "idle"
    BY <1>2 DEF Authz!Enter
  <2> QED
    BY <2>1, <2>2
    DEF RpcInv, Authz!RpcTypeOK, ContextIsPeer, Authz!ActsForCaller, Authz!BundledDeniesAll,
        Authz!NoOutcome,
        Authz!Outcomes, Authz!Policies
<1>3. ASSUME NEW w \in RpcWorkers, Authz!EnterHealthCheck(w) PROVE RpcInv'
  BY <1>3
  DEF Authz!EnterHealthCheck, RpcInv, Authz!RpcTypeOK, ContextIsPeer, Authz!ActsForCaller,
      Authz!BundledDeniesAll,
      Authz!NoOutcome, Authz!Outcomes, Authz!Policies
<1>4. ASSUME NEW w \in RpcWorkers, Authz!Exit(w) PROVE RpcInv'
  BY <1>4
  DEF Authz!Exit, Authz!Restored, Authz!RpcIdle, RpcInv, Authz!RpcTypeOK, ContextIsPeer,
      Authz!ActsForCaller,
      Authz!BundledDeniesAll
<1>5. CASE Authz!RpcSetPolicies \/ \E w \in RpcWorkers : Authz!NewEngine(w)
  BY <1>5
  DEF Authz!RpcSetPolicies, Authz!NewEngine, RpcInv, Authz!RpcTypeOK, ContextIsPeer,
      Authz!ActsForCaller,
      Authz!BundledDeniesAll
<1>6. ASSUME NEW w \in RpcWorkers, Authz!require(w) PROVE RpcInv'
  BY <1>6, RpcRequire
<1> QED BY <1>1, <1>2, <1>3, <1>4, <1>5, <1>6 DEF Authz!RpcNext

-----------------------------------------------------------------------------
(* Access control: a user who never logged in beside an open session has   *)
(* one open session at most, and its deadline is the user's expiry.        *)

TokensAreHeld ==
    \A t \in SessionTokens :
        /\ v3[t] # "none" => v3[t] = v5[t] /\ t \notin v4
        /\ t \in v4 => v5[t] # "none"
        /\ v5[t] # "none" => v6[t] > 0

\* Token t is open for user u.
OpenFor(t, u) == v5[t] = u /\ (v3[t] = u \/ t \in v4)

OneExpiry ==
    \A u \in DOMAIN UserRoles \ v7 : \A t \in SessionTokens :
        OpenFor(t, u) =>
            /\ v2[u] = v6[t]
            /\ \A s \in SessionTokens : OpenFor(s, u) => s = t

DenialsLogged ==
    \A u \in DOMAIN UserRoles :
        /\ u \in v11 => Access!Entry("PERMISSION_DENIED", u, "failure") \in v9
        /\ Access!Entry("USER_LOGIN", u, "failure") \notin v9

AccessInv == Access!TypeOK /\ TokensAreHeld /\ OneExpiry /\ Access!LateNeedsOverlap /\ DenialsLogged

LEMMA AccessStart == Access!Init => AccessInv
  BY EntitlementsConfig
  DEF Access!Init, AccessInv, Access!TypeOK, TokensAreHeld, OneExpiry, OpenFor,
      Access!LateNeedsOverlap,
      DenialsLogged, Access!Users, Access!None, Access!NoExpiry

LEMMA AccessAnswers == AccessInv => Access!LateNeedsOverlap /\ Access!AuditByUser
<1> SUFFICES ASSUME AccessInv, NEW u \in DOMAIN UserRoles
             PROVE  /\ u \in v11 => \E e \in Access!query_events(u) : e.event = "PERMISSION_DENIED"
                    /\ Access!Entry("USER_LOGIN", u, "failure") \notin Access!query_events(u)
  BY DEF AccessInv, Access!AuditByUser, Access!Users
<1> DEFINE denial == Access!Entry("PERMISSION_DENIED", u, "failure")
<1>1. denial.event = "PERMISSION_DENIED" /\ denial.user = u
  BY DEF Access!Entry
<1>2. u \in v11 => denial \in Access!query_events(u)
  BY <1>1 DEF AccessInv, DenialsLogged, Access!query_events
<1>3. Access!Entry("USER_LOGIN", u, "failure") \notin Access!query_events(u)
  BY DEF AccessInv, DenialsLogged, Access!query_events
<1> QED BY <1>1, <1>2, <1>3

\* An entry of the log that is not a refused login of a user keeps what is said of the log.
LEMMA Logged ==
    ASSUME DenialsLogged, Access!TypeOK,
           NEW event \in {"USER_LOGIN", "USER_LOGOUT", "PERMISSION_DENIED"},
           NEW user \in DOMAIN UserRoles \union {"none"}, NEW result \in {"success", "failure"},
           event # "USER_LOGIN" \/ user = "none" \/ result = "success",
           Access!log_event(event, user, result)
    PROVE  /\ v9' \subseteq Access!Entries
           /\ v11' = v11 => DenialsLogged'
           /\ v9 \subseteq v9'
<1>1. Access!Entry(event, user, result) \in Access!Entries
  BY DEF Access!Entries, Access!Users, Access!None
<1>2. \A u \in DOMAIN UserRoles :
         Access!Entry("USER_LOGIN", u, "failure") # Access!Entry(event, user, result)
  BY EntitlementsConfig DEF Access!Entry
<1>3. v9' = v9 \/ v9' = v9 \union {Access!Entry(event, user, result)}
  BY DEF Access!log_event
<1> QED BY <1>1, <1>2, <1>3 DEF Access!TypeOK, DenialsLogged

LEMMA AccessStep == ASSUME AccessInv, [Access!Next]_(Access!vars) PROVE AccessInv'
<1> USE DEF Access!Users, Access!None, Access!NoExpiry
<1>0. CASE UNCHANGED Access!vars
  BY <1>0
  DEF Access!vars, AccessInv, Access!TypeOK, TokensAreHeld, OneExpiry, OpenFor,
      Access!LateNeedsOverlap, DenialsLogged
<1>t. /\ SessionHours \in Nat \ {0} /\ SessionMaxTime \in Nat
      /\ "none" \notin DOMAIN UserRoles
  BY EntitlementsConfig
\* Steps that write the log and change nothing a session depends on.
<1>1. ASSUME NEW u \in DOMAIN UserRoles,
             Access!create_user(u) \/ Access!Deactivate(u) \/ Access!AuthenticationRefused(u)
      PROVE  AccessInv'
  <2>1. v9' \subseteq Access!Entries /\ DenialsLogged'
    BY <1>1, Logged
    DEF AccessInv, Access!create_user, Access!Deactivate, Access!AuthenticationRefused,
        Access!FailureUser, Access!TypeOK, DenialsLogged
  <2>2. /\ v1' \in [DOMAIN UserRoles -> {"absent", "active", "inactive"}]
        /\ UNCHANGED <<v2, v3, v4, v5, v6, v7, v8, v10, v11, v12>>
    BY <1>1
    DEF AccessInv, Access!create_user, Access!Deactivate, Access!AuthenticationRefused,
        Access!TypeOK
  <2> QED
    BY <2>1, <2>2
    DEF AccessInv, Access!TypeOK, TokensAreHeld, OneExpiry, OpenFor, Access!LateNeedsOverlap
<1>2. ASSUME NEW u \in DOMAIN UserRoles, NEW p \in Access!Permission, Access!PermissionDenied(u, p)
      PROVE  AccessInv'
  <2>1. v9' \subseteq Access!Entries /\ v9 \subseteq v9'
    BY <1>2, Logged DEF AccessInv, Access!PermissionDenied
  <2>2. DenialsLogged'
    BY <1>2, EntitlementsConfig
    DEF AccessInv, DenialsLogged, Access!PermissionDenied, Access!log_event, Access!Entry
  <2>3. v11' \subseteq DOMAIN UserRoles /\ UNCHANGED <<v1, v2, v3, v4, v5, v6, v7, v8, v10, v12>>
    BY <1>2 DEF AccessInv, Access!TypeOK, Access!PermissionDenied
  <2> QED
    BY <2>1, <2>2, <2>3
    DEF AccessInv, Access!TypeOK, TokensAreHeld, OneExpiry, OpenFor, Access!LateNeedsOverlap
<1>3. CASE Access!NoUserProvided
  <2>1. v9' \subseteq Access!Entries /\ DenialsLogged'
    BY <1>3, Logged DEF AccessInv, Access!NoUserProvided
  <2> QED
    BY <1>3, <2>1
    DEF AccessInv, Access!TypeOK, TokensAreHeld, OneExpiry, OpenFor, Access!LateNeedsOverlap,
        Access!NoUserProvided
<1>4. CASE Access!LogFileFails
  <2>1. /\ v10' = FALSE
        /\ UNCHANGED <<v1, v2, v3, v4, v5, v6, v7, v8, v9, v11, v12>>
    BY <1>4 DEF Access!LogFileFails
  <2>2. Access!TypeOK'
    BY <2>1 DEF AccessInv, Access!TypeOK
  <2>3. TokensAreHeld' /\ OneExpiry' /\ Access!LateNeedsOverlap' /\ DenialsLogged'
    BY <2>1 DEF AccessInv, TokensAreHeld, OneExpiry, OpenFor, Access!LateNeedsOverlap, DenialsLogged
  <2> QED BY <2>2, <2>3 DEF AccessInv
<1>5. CASE Access!Tick
  BY <1>5, <1>t
  DEF AccessInv, Access!TypeOK, TokensAreHeld, OneExpiry, OpenFor, Access!LateNeedsOverlap,
      DenialsLogged, Access!Tick
<1>6. ASSUME NEW u \in DOMAIN UserRoles, NEW t \in SessionTokens, Access!authenticate_user(u, t)
      PROVE  AccessInv'
  <2>1. Access!TypeOK'
    BY <1>6, <1>t DEF AccessInv, Access!TypeOK, Access!authenticate_user
  <2>2. TokensAreHeld'
    BY <1>6, <1>t DEF AccessInv, Access!TypeOK, Access!authenticate_user, TokensAreHeld
  <2>3. OneExpiry'
    <3> SUFFICES ASSUME NEW x \in DOMAIN UserRoles \ v7', NEW s \in SessionTokens, OpenFor(s, x)'
                 PROVE  /\ v2'[x] = v6'[s]
                        /\ \A r \in SessionTokens : OpenFor(r, x)' => r = s
      BY <1>6 DEF OneExpiry
    <3>1. \A r \in SessionTokens : r # t =>
             /\ v5'[r] = v5[r] /\ v6'[r] = v6[r] /\ v3'[r] = v3[r] /\ (r \in v4' <=> r \in v4)
      BY <1>6 DEF AccessInv, Access!TypeOK, Access!authenticate_user
    <3>2. v5'[t] = u /\ v6'[t] = v12 + SessionHours /\ v2'[u] = v12 + SessionHours
      BY <1>6 DEF AccessInv, Access!TypeOK, Access!authenticate_user
    <3>3. CASE x = u
      <4>1. Access!Open(u) = {}
        BY <1>6, <3>3 DEF Access!authenticate_user
      <4>2. \A r \in SessionTokens : r # t => ~OpenFor(r, u)'
        BY <3>1, <4>1 DEF OpenFor, Access!Open
      <4> QED BY <3>2, <3>3, <4>2
    <3>4. CASE x # u
      <4>1. s # t /\ \A r \in SessionTokens : OpenFor(r, x)' => r # t
        BY <3>2, <3>4 DEF OpenFor
      <4>2. x \in DOMAIN UserRoles \ v7 /\ v2'[x] = v2[x]
        BY <1>6, <3>4 DEF AccessInv, Access!TypeOK, Access!authenticate_user
      <4>3. \A r \in SessionTokens : r # t => (OpenFor(r, x)' <=> OpenFor(r, x))
        BY <3>1 DEF OpenFor
      <4> QED BY <3>1, <4>1, <4>2, <4>3 DEF AccessInv, OneExpiry
    <3> QED BY <3>3, <3>4
  <2>4. Access!LateNeedsOverlap'
    BY <1>6, <1>t DEF AccessInv, Access!TypeOK, Access!authenticate_user, Access!LateNeedsOverlap
  <2>5. DenialsLogged'
    BY <1>6 DEF AccessInv, Access!authenticate_user, DenialsLogged
  <2> QED BY <2>1, <2>2, <2>3, <2>4, <2>5 DEF AccessInv
<1>7. ASSUME NEW t \in SessionTokens, Access!StoreSession(t) PROVE AccessInv'
  <2>1. v5[t] \in DOMAIN UserRoles /\ v3[t] = "none"
    BY <1>7 DEF AccessInv, Access!TypeOK, Access!StoreSession, TokensAreHeld
  <2>2. v9' \subseteq Access!Entries /\ DenialsLogged'
    BY <1>7, <2>1, Logged DEF AccessInv, Access!StoreSession
  <2>3. \A s \in SessionTokens, u \in DOMAIN UserRoles : OpenFor(s, u)' => OpenFor(s, u)
    BY <1>7, <2>1 DEF AccessInv, Access!TypeOK, OpenFor, Access!StoreSession
  <2>4. OneExpiry'
    BY <1>7, <2>3 DEF AccessInv, OneExpiry, Access!StoreSession
  <2>5. Access!TypeOK' /\ TokensAreHeld' /\ Access!LateNeedsOverlap'
    BY <1>7, <2>1, <2>2
    DEF AccessInv, Access!TypeOK, TokensAreHeld, Access!LateNeedsOverlap, Access!StoreSession
  <2> QED BY <2>2, <2>4, <2>5 DEF AccessInv
<1>8. ASSUME NEW t \in SessionTokens, Access!logout_user(t) PROVE AccessInv'
  <2>1. v3[t] \in DOMAIN UserRoles /\ v5[t] = v3[t] /\ t \notin v4
    BY <1>8 DEF AccessInv, Access!TypeOK, Access!logout_user, TokensAreHeld
  <2>2. v9' \subseteq Access!Entries /\ DenialsLogged'
    BY <1>8, <2>1, Logged DEF AccessInv, Access!logout_user
  <2>3. \A s \in SessionTokens, u \in DOMAIN UserRoles : OpenFor(s, u)' => OpenFor(s, u) /\ s # t
    BY <1>8, <2>1 DEF AccessInv, Access!TypeOK, OpenFor, Access!logout_user
  <2>4. \A u \in DOMAIN UserRoles : u # v3[t] => v2'[u] = v2[u]
    BY <1>8 DEF AccessInv, Access!TypeOK, Access!logout_user
  <2>5. OpenFor(t, v3[t])
    BY <2>1 DEF OpenFor
  <2>6. OneExpiry'
    BY <1>8, <2>1, <2>3, <2>4, <2>5 DEF AccessInv, OneExpiry, Access!logout_user
  <2>7. Access!TypeOK' /\ TokensAreHeld' /\ Access!LateNeedsOverlap'
    BY <1>8, <1>t, <2>1, <2>2
    DEF AccessInv, Access!TypeOK, TokensAreHeld, Access!LateNeedsOverlap, Access!logout_user
  <2> QED BY <2>2, <2>6, <2>7 DEF AccessInv
<1>9. ASSUME NEW t \in SessionTokens, Access!get_user_by_session(t) PROVE AccessInv'
  <2>1. CASE Access!Expired(v3[t])
    BY <1>8, <1>9, <2>1 DEF Access!get_user_by_session
  <2>2. CASE ~Access!Expired(v3[t])
    <3>1. v3[t] \in DOMAIN UserRoles /\ v5[t] = v3[t] /\ OpenFor(t, v3[t]) /\ v6[t] > 0
      BY <1>9 DEF AccessInv, Access!TypeOK, Access!get_user_by_session, TokensAreHeld, OpenFor
    <3>2. v12 > v6[t] => v5[t] \in v7
      BY <2>2, <3>1 DEF AccessInv, Access!TypeOK, OneExpiry, Access!Expired
    <3>3. Access!LateNeedsOverlap'
      BY <1>9, <2>2, <3>2 DEF AccessInv, Access!LateNeedsOverlap, Access!get_user_by_session
    <3>4. v8' \subseteq SessionTokens /\ UNCHANGED <<v1, v2, v3, v4, v5, v6, v7, v9, v10, v11, v12>>
      BY <1>9, <2>2 DEF AccessInv, Access!TypeOK, Access!get_user_by_session
    <3> QED BY <3>3, <3>4
      DEF AccessInv, Access!TypeOK, TokensAreHeld, OneExpiry, OpenFor, DenialsLogged
  <2> QED BY <2>1, <2>2
<1> QED BY <1>0, <1>1, <1>2, <1>3, <1>4, <1>5, <1>6, <1>7, <1>8, <1>9 DEF Access!Next

-----------------------------------------------------------------------------
(* Role separation: keys, one hop at a time.                               *)

RoleInv ==
    /\ v1 \in Custody!KeyIdentity
    /\ Custody!KeysStayInside /\ Custody!OnlyOwnersSign /\ Custody!FullIdsRefused

LEMMA RoleNames ==
    Custody!CryptoRole =
      {"csca", "dsc", "reader", "verifier", "wallet", "holder", "audit", "evidence"}
  BY DEF Custody!CryptoRole, Custody!ROLE_POLICIES

\* What the policies of the roles say about the keys that must not leave.
LEMMA RolePurposes ==
    ASSUME NEW k \in Custody!KeyIdentity
    PROVE  /\ k.role \in Custody!CryptoRole
           /\ k.purpose \in {"certificate_signing", "document_signing"} =>
                k.role \in {"csca", "dsc"}
           /\ k.role \in {"wallet", "holder"} =>
                k.purpose \notin {"signature_verification", "certificate_validation"}
<1>1. k.role \in Custody!CryptoRole /\ k.purpose \in Custody!ROLE_POLICIES[k.role]
  BY DEF Custody!KeyIdentity, Custody!is_compatible_purpose
<1> QED BY <1>1, RoleNames DEF Custody!ROLE_POLICIES

\* The name of a key begins with its role, which is not the namespace.
LEMMA FullNames ==
    ASSUME NEW k \in Custody!KeyIdentity PROVE ~Custody!is_credential_key(Custody!full_key_id(k))
<1> DEFINE parts == {"1", "cred", k.role, k.purpose} \union Custody!KeyTypes
<1>1. k.id \in Seq(parts)
  <2>1. CASE k.id = <<"1">>
    BY <2>1
  <2>2. CASE \E t \in Custody!KeyTypes : k.id = <<"cred", t, "1">>
    BY <2>2
  <2> QED BY <2>1, <2>2 DEF Custody!KeyIdentity, Custody!make_credential_key_id
<1>2. k.role # "cred"
  BY RolePurposes, RoleNames
<1>3. (<<k.role, k.purpose>> \o k.id)[1] = k.role
  BY <1>1
<1> QED BY <1>2, <1>3 DEF Custody!is_credential_key, Custody!full_key_id

LEMMA RoleStep == ASSUME RoleInv, [Custody!RoleNext]_(Custody!roleVars) PROVE RoleInv'
<1>1. CASE UNCHANGED Custody!roleVars
  BY <1>1
  DEF RoleInv, Custody!roleVars, Custody!KeysStayInside, Custody!OnlyOwnersSign,
      Custody!FullIdsRefused
<1>2. ASSUME NEW r \in Custody!CryptoRole, Custody!Sign(r) PROVE RoleInv'
  <2>1. v1.role \in Custody!CryptoRole
    BY RolePurposes DEF RoleInv
  <2>2. r = v1.role /\ r \notin {"reader", "verifier"}
    BY <1>2, <2>1 DEF Custody!Sign, Custody!validate_key_operation, Custody!can_cross_boundaries
  <2> QED
    BY <1>2, <2>2
    DEF RoleInv, Custody!Sign, Custody!KeysStayInside, Custody!OnlyOwnersSign,
        Custody!FullIdsRefused
<1>3. ASSUME NEW s \in Custody!CryptoRole, NEW t \in Custody!CryptoRole, Custody!Share(s, t)
      PROVE  RoleInv'
  <2>1. v1.purpose \notin {"certificate_signing", "document_signing"}
    BY <1>3, RolePurposes
    DEF RoleInv, Custody!KeysStayInside, Custody!Share, Custody!validate_key_sharing
  <2>2. v1.role \in {"wallet", "holder"} => t \in {"wallet", "holder"}
    BY <1>3, RolePurposes
    DEF RoleInv, Custody!KeysStayInside, Custody!Share, Custody!validate_key_sharing
  <2> QED
    BY <1>3, <2>1, <2>2
    DEF RoleInv, Custody!Share, Custody!KeysStayInside, Custody!OnlyOwnersSign,
        Custody!FullIdsRefused
<1>4. ASSUME NEW id \in {Custody!full_key_id(v1), v1.id},
             Custody!validate_credential_key_namespace(id)
      PROVE  RoleInv'
  <2>1. id = v1.id
    BY <1>4, FullNames DEF RoleInv, Custody!validate_credential_key_namespace
  <2> QED
    BY <1>4, <2>1
    DEF RoleInv, Custody!validate_credential_key_namespace, Custody!KeysStayInside,
        Custody!OnlyOwnersSign,
        Custody!FullIdsRefused
<1> QED BY <1>1, <1>2, <1>3, <1>4 DEF Custody!RoleNext

LEMMA RoleStart == Custody!RoleInit => RoleInv
  BY DEF Custody!RoleInit, RoleInv, Custody!KeysStayInside, Custody!OnlyOwnersSign,
         Custody!FullIdsRefused

-----------------------------------------------------------------------------
(* The guards inside a service: a request that waits for its decision is   *)
(* entitled, bound by the gateway, or about to be refused.                 *)

Codes == {0, 200, 401, 403, 500, 503}

ReqType ==
    [stage : {"idle", "key", "membership", "decide", "done"},
     guard : Authz!MemberGuards \union Authz!KeyGuards, needs : {"view", "edit"},
     headers : Authz!Headers, context : Authz!Contexts, entitled : BOOLEAN,
     status : Codes]

Bound(r) == r.headers.key_id # "none" /\ Authz!Complete(r.headers)

\* Allowed, of a request r.
AllowedFor(r) ==
    CASE r.guard \in {"permission", "ensure"} -> r.needs \in r.context.permissions
      [] r.guard = "role" -> r.context.member # "none" /\ Authz!has_role(r.context.member, "admin")
      [] r.guard = "owner" -> r.context.member # "none" /\ Authz!is_owner(r.context.member)
      [] OTHER -> TRUE

ReqOK(r) ==
    /\ r.stage # "done" => r.status = 0
    /\ r.stage = "key" => r.guard \in Authz!KeyGuards
    /\ r.stage = "membership" => r.guard \notin {"key", "scope"}
    /\ r.guard \in Authz!KeyGuards => r.headers.key_id = "none"
    /\ r.stage = "decide" /\ AllowedFor(r) => r.entitled \/ Bound(r)
    /\ r.stage = "decide" /\ r.headers.key_id # "none" /\ r.guard # "ensure" =>
          /\ r.headers.named # "none"
          /\ r.context.member = "none" /\ r.context.permissions = {r.headers.named}
    /\ r.status = 200 => r.entitled \/ Bound(r)
    /\ r.status = 200 /\ r.headers.key_id # "none" /\ r.guard # "ensure" =>
          /\ r.headers.named # "none"
          /\ r.guard = "permission" => r.headers.named = r.needs
          /\ r.guard \notin {"role", "owner"}

GuardInv == Authz!ServiceTypeOK /\ ReqOK(v4)

LEMMA GuardAnswers == GuardInv => Authz!GrantsAreEntitled /\ Authz!MachinesStayNarrow
  BY DEF GuardInv, ReqOK, Bound, Authz!GrantsAreEntitled, Authz!MachinesStayNarrow,
         Authz!ServiceNone

LEMMA GuardTypes == Authz!ServiceTypeOK <=>
    /\ v1 \in Authz!Memberships /\ v2 \in Authz!Keys /\ v3 \in {"up", "down", "unset"}
    /\ v4 \in ReqType
  BY DEF Authz!ServiceTypeOK, ReqType, Codes

LEMMA IdleType == Authz!ServiceIdle \in ReqType
  BY DEF Authz!ServiceIdle, ReqType, Codes, Authz!MemberGuards, Authz!KeyGuards, Authz!Headers,
         Authz!NoHeaders,
         Authz!NoContext, Authz!Contexts, Authz!ServiceNone, Authz!Memberships

LEMMA GuardStart == Authz!ServiceInit => GuardInv
<1> SUFFICES ASSUME Authz!ServiceInit PROVE GuardInv
  OBVIOUS
<1>2. ReqOK(Authz!ServiceIdle)
  BY DEF Authz!ServiceIdle, ReqOK, Authz!KeyGuards, Authz!NoHeaders, Authz!ServiceNone
<1> QED BY <1>2, IdleType, GuardTypes DEF GuardInv, Authz!ServiceInit

\* A request that goes on is what it was made, and perhaps entitled.
LEMMA Goes ==
    ASSUME Authz!ServiceTypeOK, NEW r \in ReqType, Authz!Go(r)
    PROVE  /\ Authz!ServiceTypeOK'
           /\ \E e \in BOOLEAN :
                 /\ v4' = [r EXCEPT !.entitled = e]
                 /\ r.entitled \/ Authz!Entitled(r) => e = TRUE
<1>1. PICK e : /\ v4' = [r EXCEPT !.entitled = e] /\ e = (r.entitled \/ Authz!Entitled(r))
                /\ UNCHANGED <<v1, v2, v3>>
  BY DEF Authz!Go
<1>2. e \in BOOLEAN /\ (r.entitled \/ Authz!Entitled(r) => e = TRUE)
  BY <1>1
<1>3. v4' \in ReqType
  <2>1. [r EXCEPT !.entitled = e] \in ReqType
    BY <1>2 DEF ReqType
  <2> QED BY <1>1, <2>1
<1> QED BY <1>1, <1>2, <1>3 DEF Authz!ServiceTypeOK, ReqType, Codes

LEMMA TwoChanges ==
    ASSUME NEW q, NEW x
    PROVE  /\ [q EXCEPT !.stage = "done", !.status = x]
              = [[q EXCEPT !.stage = "done"] EXCEPT !.status = x]
           /\ [q EXCEPT !.stage = "decide", !.context = x]
              = [[q EXCEPT !.stage = "decide"] EXCEPT !.context = x]
  OBVIOUS

LEMMA Restaged ==
    ASSUME NEW q \in ReqType, NEW stage \in {"membership", "decide", "done"}
    PROVE  [q EXCEPT !.stage = stage] \in ReqType
  BY DEF ReqType

LEMMA RefusedType ==
    ASSUME NEW q \in ReqType, NEW code \in Codes
    PROVE  [q EXCEPT !.stage = "done", !.status = code] \in ReqType
<1>1. [[q EXCEPT !.stage = "done"] EXCEPT !.status = code] \in ReqType
  BY Restaged DEF ReqType
<1> QED BY <1>1, TwoChanges

LEMMA DecideType ==
    ASSUME NEW q \in ReqType, NEW c \in Authz!Contexts
    PROVE  [q EXCEPT !.stage = "decide", !.context = c] \in ReqType
<1>1. [[q EXCEPT !.stage = "decide"] EXCEPT !.context = c] \in ReqType
  BY Restaged DEF ReqType
<1> QED BY <1>1, TwoChanges

\* To refuse is always right.
LEMMA Refused ==
    ASSUME GuardInv, NEW code \in {401, 403, 500, 503}, Authz!ServiceRefuse(code)
    PROVE  GuardInv'
<1> DEFINE r == [v4 EXCEPT !.stage = "done", !.status = code]
<1>0. v4 \in ReqType
  BY GuardTypes DEF GuardInv
<1>1. r \in ReqType /\ Authz!Go(r)
  <2>0. code \in Codes
    BY DEF Codes
  <2>1. r \in ReqType
    BY <1>0, <2>0, RefusedType, Zenon
  <2>2. Authz!Go(r)
    BY DEF Authz!ServiceRefuse
  <2> QED BY <2>1, <2>2
<1>2. PICK e \in BOOLEAN : v4' = [r EXCEPT !.entitled = e]
  BY <1>1, Goes DEF GuardInv
<1>3. /\ v4'.stage = "done" /\ v4'.status = code
      /\ v4'.guard = v4.guard /\ v4'.headers = v4.headers
  BY <1>1, <1>2, GuardTypes DEF GuardInv, ReqType
<1>4. ReqOK(v4')
  BY <1>3 DEF GuardInv, ReqOK
<1> QED BY <1>1, <1>4, Goes DEF GuardInv

\* A context by which the request is entitled if it is allowed.
LEMMA Decided ==
    ASSUME GuardInv, NEW c \in Authz!Contexts, Authz!Decide(c),
           v4.headers.key_id # "none" /\ v4.guard # "ensure" =>
              v4.headers.named # "none" /\ c.member = "none" /\ c.permissions = {v4.headers.named},
           LET r == [v4 EXCEPT !.stage = "decide", !.context = c]
           IN  AllowedFor(r) => r.entitled \/ Authz!Entitled(r) \/ Bound(r),
           v4.status = 0
    PROVE  GuardInv'
<1> DEFINE r == [v4 EXCEPT !.stage = "decide", !.context = c]
<1>0. v4 \in ReqType
  BY GuardTypes DEF GuardInv
<1>1. r \in ReqType /\ Authz!Go(r)
  <2>1. r \in ReqType
    BY <1>0, DecideType, Zenon
  <2>2. Authz!Go(r)
    BY DEF Authz!Decide
  <2> QED BY <2>1, <2>2
<1>2. PICK e \in BOOLEAN :
        v4' = [r EXCEPT !.entitled = e] /\ (r.entitled \/ Authz!Entitled(r) => e = TRUE)
  BY <1>1, Goes DEF GuardInv
<1>3. /\ v4'.stage = "decide" /\ v4'.status = 0 /\ v4'.context = c /\ v4'.needs = v4.needs
      /\ v4'.guard = v4.guard /\ v4'.headers = v4.headers /\ v4'.entitled = e
      /\ r.context = c /\ r.needs = v4.needs /\ r.guard = v4.guard /\ r.headers = v4.headers
  BY <1>1, <1>2, GuardTypes DEF GuardInv, ReqType
<1>4. AllowedFor(v4') <=> AllowedFor(r)
  BY <1>3 DEF AllowedFor
<1>5. AllowedFor(v4') => v4'.entitled \/ Bound(v4')
  BY <1>2, <1>3, <1>4 DEF Bound
<1>6. ReqOK(v4')
  BY <1>3, <1>5 DEF GuardInv, ReqOK
<1> QED BY <1>1, <1>6, Goes DEF GuardInv

LEMMA FourChanges ==
    ASSUME NEW q, NEW s, NEW t, NEW u, NEW w
    PROVE  [q EXCEPT !.stage = s, !.guard = t, !.needs = u, !.headers = w]
           = [[[[q EXCEPT !.stage = s] EXCEPT !.guard = t] EXCEPT !.needs = u] EXCEPT !.headers = w]
  OBVIOUS

\* A request arrives with headers that the guard looks at.
LEMMA Arrived ==
    ASSUME GuardInv, NEW g \in Authz!MemberGuards \union Authz!KeyGuards,
           NEW needs \in {"view", "edit"}, NEW h \in Authz!Headers,
           Authz!ServiceArrive(g, needs, h)
    PROVE  GuardInv'
<1> DEFINE first == IF g \in Authz!KeyGuards THEN "key" ELSE "membership"
           r == [Authz!ServiceIdle EXCEPT !.stage = first, !.guard = g, !.needs = needs,
                                          !.headers = h]
<1>0. Authz!ServiceIdle \in ReqType /\ first \in {"key", "membership"}
  BY IdleType
<1> HIDE DEF first
<1>2. r \in ReqType /\ r.stage = first /\ r.guard = g /\ r.needs = needs /\ r.headers = h
      /\ r.status = Authz!ServiceIdle.status
  <2> DEFINE q == Authz!ServiceIdle
             a == [q EXCEPT !.stage = first]
             b == [a EXCEPT !.guard = g]
             c == [b EXCEPT !.needs = needs]
             d == [c EXCEPT !.headers = h]
  <2>1. q \in ReqType
    BY <1>0
  <2> HIDE DEF q
  <2>2. a \in ReqType /\ a.stage = first /\ a.status = q.status
    BY <1>0, <2>1 DEF ReqType
  <2> HIDE DEF a
  <2>3. b \in ReqType /\ b.stage = first /\ b.guard = g /\ b.status = q.status
    BY <2>2 DEF ReqType
  <2> HIDE DEF b
  <2>4. c \in ReqType /\ c.stage = first /\ c.guard = g /\ c.needs = needs /\ c.status = q.status
    BY <2>3 DEF ReqType
  <2> HIDE DEF c
  <2>5. d \in ReqType /\ d.stage = first /\ d.guard = g /\ d.needs = needs /\ d.headers = h
        /\ d.status = q.status
    BY <2>4 DEF ReqType
  <2>6. r = d
    BY FourChanges DEF q, a, b, c, d
  <2> QED BY <2>5, <2>6 DEF q
<1>1. r.status = 0
  BY <1>2 DEF Authz!ServiceIdle
<1>3. Authz!Go(r)
  BY DEF Authz!ServiceArrive, first
<1>4. PICK e \in BOOLEAN : v4' = [r EXCEPT !.entitled = e]
  BY <1>2, <1>3, Goes DEF GuardInv
<1>5. v4'.stage = first /\ v4'.guard = g /\ v4'.headers = h /\ v4'.status = 0
  BY <1>1, <1>2, <1>4 DEF ReqType
<1>6. g \in Authz!KeyGuards => h.key_id = "none"
  BY DEF Authz!ServiceArrive, Authz!Relevant, Authz!MemberGuards, Authz!KeyGuards, Authz!ServiceNone
<1>7. /\ first = "key" => g \in Authz!KeyGuards
      /\ first # "key" => g \notin {"key", "scope"}
  BY DEF Authz!KeyGuards, first
<1>8. ReqOK(v4')
  BY <1>0, <1>5, <1>6, <1>7 DEF ReqOK
<1> QED BY <1>2, <1>3, <1>8, Goes DEF GuardInv

\* A machine's context, from the gateway's binding.
LEMMA MachineKept == ASSUME GuardInv, Authz!MachineContext PROVE GuardInv'
<1> USE DEF Authz!ServiceNone
<1>0. v4 \in ReqType /\ v4.headers \in Authz!Headers
  BY GuardTypes DEF GuardInv, ReqType
<1>1. CASE ~Authz!Complete(v4.headers)
  BY <1>1, Refused DEF Authz!MachineContext
<1>2. CASE Authz!Complete(v4.headers)
  <2> DEFINE c == [source |-> "api_key", member |-> "none",
                   permissions |-> Authz!KeyPermissions(v4.headers) \ {"none"}]
  <2>1. Authz!Decide(c) /\ v4.headers.key_id # "none" /\ v4.stage = "membership"
    BY <1>2 DEF Authz!MachineContext
  <2>2. v4.headers.named # "none" /\ v4.headers.named \in {"none", "view", "edit"}
    BY <1>0, <1>2 DEF Authz!Complete, Authz!Headers
  <2>3. c.member = "none" /\ c.permissions = {v4.headers.named}
    BY <2>2 DEF Authz!KeyPermissions
  <2>4. c \in Authz!Contexts
    BY <2>2 DEF Authz!Contexts, Authz!Memberships, Authz!KeyPermissions
  <2>5. Bound([v4 EXCEPT !.stage = "decide", !.context = c])
    <3>1. [v4 EXCEPT !.stage = "decide", !.context = c].headers = v4.headers
      BY <1>0 DEF ReqType
    <3> QED BY <1>2, <2>1, <3>1 DEF Bound
  <2>6. v4.status = 0
    BY <2>1 DEF GuardInv, ReqOK
  <2> HIDE DEF c
  <2> QED BY <2>1, <2>2, <2>3, <2>4, <2>5, <2>6, Decided
<1> QED BY <1>1, <1>2

\* A user's context, from the membership the service knows now.
LEMMA SessionKept == ASSUME GuardInv, Authz!SessionContext PROVE GuardInv'
<1> USE DEF Authz!ServiceNone
<1>0. v4 \in ReqType /\ v4.headers \in Authz!Headers /\ v1 \in Authz!Memberships
      /\ v3 \in {"up", "down", "unset"}
  BY GuardTypes DEF GuardInv, ReqType
<1> DEFINE m == IF v4.headers.user = "u" THEN v1 ELSE "none"
           c == [source |-> "session", member |-> m, permissions |-> Authz!permissions(m)]
           r == [v4 EXCEPT !.stage = "decide", !.context = c]
<1>1. \/ Authz!ServiceRefuse(500) \/ Authz!ServiceRefuse(503) \/ Authz!ServiceRefuse(403)
      \/ ~Authz!Refusable(m) /\ Authz!Decide(c)
  BY <1>0 DEF Authz!SessionContext
<1>2. CASE ~Authz!Refusable(m) /\ Authz!Decide(c)
  <2>1. /\ v4.stage = "membership" /\ v4.headers.user # "none"
        /\ v4.headers.key_id = "none" \/ v4.guard \in {"ensure", "key_or_session"}
    BY DEF Authz!SessionContext
  <2>2. m = v1 /\ v4.headers.user = "u" /\ v1 \in {"plain", "owner"}
    BY <1>0, <1>2 DEF Authz!Refusable, Authz!is_active, Authz!Memberships
  <2>3. c \in Authz!Contexts
    BY <2>2 DEF Authz!Contexts, Authz!Memberships, Authz!permissions
  <2>4. v4.guard \notin {"key", "scope"} /\ v4.status = 0
        /\ (v4.guard = "key_or_session" => v4.headers.key_id = "none")
    BY <2>1 DEF GuardInv, ReqOK, Authz!KeyGuards
  <2>5. r.guard = v4.guard /\ r.headers = v4.headers /\ r.needs = v4.needs /\ r.context = c
    BY <1>0 DEF ReqType
  <2>6. AllowedFor(r) => Authz!Entitled(r)
    <3>1. c.member = v1 /\ c.permissions = Authz!permissions(v1)
      BY <2>2
    <3> HIDE DEF c, r
    <3> QED
      BY <2>2, <2>4, <2>5, <3>1
      DEF AllowedFor, Authz!Entitled, Authz!is_owner
  <2> HIDE DEF c, m
  <2> QED BY <1>2, <2>1, <2>3, <2>4, <2>6, Decided
<1> QED BY <1>1, <1>2, Refused

\* A key that the service accepts now, with its scope and its organization where the guard
\* asks for them.
LEMMA KeyKept ==
    ASSUME GuardInv, v4.stage = "key", Authz!Decide(Authz!KeyContext),
           NEW k \in Authz!validate_api_key(Authz!Presented(v4.headers)),
           v4.guard = "scope" => "issue" \in k.scopes,
           v4.guard = "key_or_session" => k.org = Authz!Mine
    PROVE  GuardInv'
<1> USE DEF Authz!ServiceNone
<1> DEFINE r == [v4 EXCEPT !.stage = "decide", !.context = Authz!KeyContext]
<1>0. v4 \in ReqType /\ v4.headers \in Authz!Headers
  BY GuardTypes DEF GuardInv, ReqType
<1>1. k = v2 /\ v2.valid /\ Authz!Presented(v4.headers) = "key"
  BY DEF Authz!validate_api_key
<1>2. r.guard = v4.guard /\ r.headers = v4.headers
  BY <1>0 DEF ReqType
<1>3. v4.guard \in Authz!KeyGuards /\ v4.headers.key_id = "none" /\ v4.status = 0
  BY DEF GuardInv, ReqOK
<1>4. Authz!Entitled(r)
  <2> HIDE DEF r
  <2>1. v4.headers.bearer = "key" \/ (v4.headers.bearer = "none" /\ v4.headers.x_api_key = "key")
    BY <1>1 DEF Authz!Presented
  <2> QED BY <1>1, <1>2, <1>3, <2>1 DEF Authz!Entitled
<1>5. Authz!KeyContext \in Authz!Contexts
  BY DEF Authz!KeyContext, Authz!Contexts, Authz!Memberships
<1> HIDE DEF Authz!KeyContext
<1> QED BY <1>3, <1>4, <1>5, Decided

\* Without a key that is accepted the session decides.
LEMMA SessionNext ==
    ASSUME GuardInv, v4.stage = "key", v4.guard = "key_or_session",
           Authz!Go([v4 EXCEPT !.stage = "membership"])
    PROVE  GuardInv'
<1> DEFINE r == [v4 EXCEPT !.stage = "membership"]
<1>0. v4 \in ReqType
  BY GuardTypes DEF GuardInv
<1>1. r \in ReqType
  BY <1>0, Restaged
<1>2. PICK e \in BOOLEAN : v4' = [r EXCEPT !.entitled = e]
  BY <1>1, Goes DEF GuardInv
<1>3. /\ v4'.stage = "membership" /\ v4'.status = v4.status
      /\ v4'.guard = v4.guard /\ v4'.headers = v4.headers
  BY <1>0, <1>2 DEF ReqType
<1>4. ReqOK(v4')
  BY <1>3 DEF GuardInv, ReqOK
<1> QED BY <1>1, <1>4, Goes DEF GuardInv

\* The decision itself.
LEMMA GuardedKept == ASSUME GuardInv, Authz!Guarded PROVE GuardInv'
<1> USE DEF Authz!ServiceNone
<1>0. v4 \in ReqType /\ v4.stage = "decide"
  BY GuardTypes DEF GuardInv, Authz!Guarded
<1>1. Authz!Allowed <=> AllowedFor(v4)
  BY DEF Authz!Allowed, AllowedFor, Authz!service_has_permission,
         Authz!ensure_membership_permission,
         Authz!require_org_role, Authz!require_org_owner
<1>2. CASE ~Authz!Allowed
  BY <1>2, Refused DEF Authz!Guarded
<1>3. CASE Authz!Allowed
  <2> DEFINE r == [v4 EXCEPT !.stage = "done", !.status = 200]
  <2>0. 200 \in Codes
    BY DEF Codes
  <2>1. r \in ReqType
    BY <1>0, <2>0, RefusedType, Zenon
  <2>2. Authz!Go(r)
    BY <1>3 DEF Authz!Guarded, Authz!ServiceRefuse
  <2>3. PICK e \in BOOLEAN :
           v4' = [r EXCEPT !.entitled = e] /\ (r.entitled \/ Authz!Entitled(r) => e = TRUE)
    BY <2>1, <2>2, Goes DEF GuardInv
  <2>4. /\ v4'.stage = "done" /\ v4'.status = 200 /\ v4'.needs = v4.needs
        /\ v4'.guard = v4.guard /\ v4'.headers = v4.headers
        /\ v4'.entitled = e /\ r.entitled = v4.entitled
    BY <1>0, <2>1, <2>3 DEF ReqType
  <2>5. v4'.entitled \/ Bound(v4')
    BY <1>0, <1>1, <1>3, <2>3, <2>4 DEF GuardInv, ReqOK, Bound
  <2>6. v4.headers.key_id # "none" /\ v4.guard # "ensure" =>
           /\ v4.headers.named # "none"
           /\ v4.guard = "permission" => v4.headers.named = v4.needs
           /\ v4.guard \notin {"role", "owner"}
    BY <1>0, <1>1, <1>3 DEF GuardInv, ReqOK, AllowedFor
  <2>7. ReqOK(v4')
    BY <2>4, <2>5, <2>6 DEF GuardInv, ReqOK
  <2> QED BY <2>1, <2>2, <2>7, Goes DEF GuardInv
<1> QED BY <1>2, <1>3

LEMMA GuardStep == ASSUME GuardInv, [Authz!ServiceNext]_(Authz!serviceVars) PROVE GuardInv'
<1>1. CASE UNCHANGED Authz!serviceVars
  BY <1>1 DEF Authz!serviceVars, GuardInv, Authz!ServiceTypeOK
<1>2. ASSUME NEW g \in Authz!MemberGuards \union Authz!KeyGuards, NEW needs \in {"view", "edit"},
             NEW h \in Authz!Headers, Authz!ServiceArrive(g, needs, h)
      PROVE  GuardInv'
  BY <1>2, Arrived
<1>3. CASE Authz!MachineContext
  BY <1>3, MachineKept
<1>4. CASE Authz!Unidentified
  BY <1>4, Refused DEF Authz!Unidentified
<1>5. CASE Authz!SessionContext
  BY <1>5, SessionKept
<1>6. CASE Authz!require_api_key
  <2>1. ASSUME NEW k \in Authz!validate_api_key(Authz!Presented(v4.headers)),
               ~(v4.guard = "scope" /\ ~Authz!require_api_key_with_scope(k)),
               Authz!Decide(Authz!KeyContext)
        PROVE  GuardInv'
    BY <1>6, <2>1, KeyKept DEF Authz!require_api_key, Authz!require_api_key_with_scope
  <2>2. \/ \E code \in {401, 403, 500, 503} : Authz!ServiceRefuse(code)
        \/ \E k \in Authz!validate_api_key(Authz!Presented(v4.headers)) :
              /\ ~(v4.guard = "scope" /\ ~Authz!require_api_key_with_scope(k))
              /\ Authz!Decide(Authz!KeyContext)
    BY <1>6 DEF Authz!require_api_key
  <2> QED BY <2>1, <2>2, Refused
<1>7. CASE Authz!require_api_key_or_session
  <2>1. ASSUME NEW k \in Authz!validate_api_key(Authz!Presented(v4.headers)),
               ~Authz!NotAccessible(k), Authz!Decide(Authz!KeyContext)
        PROVE  GuardInv'
    BY <1>7, <2>1, KeyKept DEF Authz!require_api_key_or_session, Authz!NotAccessible
  <2>2. \/ \E code \in {401, 403, 500, 503} : Authz!ServiceRefuse(code)
        \/ Authz!Go([v4 EXCEPT !.stage = "membership"])
        \/ \E k \in Authz!validate_api_key(Authz!Presented(v4.headers)) :
              ~Authz!NotAccessible(k) /\ Authz!Decide(Authz!KeyContext)
    BY <1>7 DEF Authz!require_api_key_or_session
  <2>3. CASE Authz!Go([v4 EXCEPT !.stage = "membership"])
    BY <1>7, <2>3, SessionNext DEF Authz!require_api_key_or_session
  <2> QED BY <2>1, <2>2, <2>3, Refused
<1>8. CASE Authz!Guarded
  BY <1>8, GuardedKept
<1>9. CASE Authz!Change
  <2>1. v4' = v4
    BY <1>9 DEF Authz!Change
  <2>2. v2 \in Authz!Keys => [v2 EXCEPT !.valid = FALSE] \in Authz!Keys
    BY DEF Authz!Keys
  <2>3. v1' \in Authz!Memberships /\ v2' \in Authz!Keys /\ v3' \in {"up", "down", "unset"}
    <3>1. /\ v1' = v1 \/ v1' \in Authz!Memberships
          /\ v2' = v2 \/ v2' = [v2 EXCEPT !.valid = FALSE]
          /\ v3' = v3 \/ v3' \in {"up", "down"}
      <4>1. \/ v1' \in Authz!Memberships \ {v1} /\ UNCHANGED <<v2, v3>>
            \/ v2' = [v2 EXCEPT !.valid = FALSE] /\ UNCHANGED <<v1, v3>>
            \/ v3' = "down" /\ UNCHANGED <<v1, v2>>
            \/ v3' = "up" /\ UNCHANGED <<v1, v2>>
        BY <1>9 DEF Authz!Change
      <4> QED BY <4>1
    <3>2. v1 \in Authz!Memberships /\ v2 \in Authz!Keys /\ v3 \in {"up", "down", "unset"}
      BY GuardTypes DEF GuardInv
    <3> QED BY <2>2, <3>1, <3>2
  <2>4. Authz!ServiceTypeOK'
    BY <2>1, <2>3 DEF GuardInv, Authz!ServiceTypeOK
  <2>5. ReqOK(v4')
    BY <2>1 DEF GuardInv
  <2> QED BY <2>4, <2>5 DEF GuardInv
<1> QED BY <1>1, <1>2, <1>3, <1>4, <1>5, <1>6, <1>7, <1>8, <1>9 DEF Authz!ServiceNext

-----------------------------------------------------------------------------
(* Policy decisions: an engine that lost no file holds what it was meant   *)
(* to hold, and one meant for approvals holds nothing else.                *)

PolicyInv ==
    /\ v3 \in BOOLEAN
    /\ v1 # {"none"} => v1 \subseteq v2 /\ (v3 = FALSE => v1 = v2)
    /\ v5 \in {"none", "allow", "deny"}
    /\ v1 = {"none"} => v5 = "none"
    /\ Authz!UnfitNeedsLoss /\ Authz!LowTrustNeedsRole /\ Authz!ApprovalNeedsEvidence

LEMMA PolicyStart == Authz!PolicyInit => PolicyInv
  BY DEF Authz!PolicyInit, PolicyInv, Authz!UnfitNeedsLoss, Authz!LowTrustNeedsRole,
         Authz!ApprovalNeedsEvidence

\* A new engine, or new policies of one, while nothing is decided.
LEMMA Undecided ==
    ASSUME v5' = "none", v3' \in BOOLEAN, v1' \subseteq v2', v3' = FALSE => v1' = v2'
    PROVE  PolicyInv'
  BY DEF PolicyInv, Authz!UnfitNeedsLoss, Authz!LowTrustNeedsRole, Authz!ApprovalNeedsEvidence

LEMMA PolicyMake ==
    ASSUME PolicyInv, NEW asked, NEW found, found \subseteq asked, Authz!Make(asked, found)
    PROVE  PolicyInv'
<1>1. v5' = "none" /\ v1' = found /\ v2' = asked /\ v3' = (found # asked)
  BY DEF PolicyInv, Authz!Make
<1>2. v3' \in BOOLEAN /\ (v3' = FALSE => found = asked)
  BY <1>1
<1> QED BY <1>1, <1>2, Undecided

LEMMA PolicyDecides ==
    ASSUME PolicyInv, NEW r \in Authz!Requests, NEW raises \in BOOLEAN,
           Authz!is_authorized(r, raises)
    PROVE  PolicyInv'
<1>1. v4' = r /\ UNCHANGED <<v1, v2, v3>> /\ v1 # {"none"} /\ v5' \in {"allow", "deny"}
  BY DEF Authz!is_authorized, Authz!PolicyOutcome
<1>2. v5' = "allow" => Authz!Permitted(r) /\ ~Authz!Forbidden(r)
  BY DEF Authz!is_authorized, Authz!PolicyOutcome
<1>3. Authz!UnfitNeedsLoss'
  <2> SUFFICES ASSUME v5' = "allow", r.action = "credentials:verify", Authz!Unfit(r.about),
                      "verification" \in v2, v3 = FALSE
               PROVE  FALSE
    BY <1>1 DEF PolicyInv, Authz!UnfitNeedsLoss
  <2>1. "verification" \in v1
    BY <1>1 DEF PolicyInv
  <2>2. Authz!VerificationForbids(r.about)
    BY DEF Authz!Unfit, Authz!VerificationForbids
  <2> QED BY <1>2, <2>1, <2>2 DEF Authz!Forbidden
<1>4. Authz!LowTrustNeedsRole'
  <2> SUFFICES ASSUME v5' = "allow", r.action = "credentials:verify", r.about.trust < 50
               PROVE  "gateway" \in v1 /\ Authz!GatewayPermits(r.principal, "credentials:verify")
    BY <1>1 DEF Authz!LowTrustNeedsRole
  <2>0. r.about \in Authz!Credentials
    BY DEF Authz!Requests
  <2>1. ~Authz!VerificationPermits(r.about)
    BY <2>0 DEF Authz!VerificationPermits, Authz!Credentials
  <2>2. r.action # "applications:approve"
    OBVIOUS
  <2> QED BY <1>2, <2>1, <2>2 DEF Authz!Permitted
<1>5. Authz!ApprovalNeedsEvidence'
  <2> SUFFICES ASSUME v5' = "allow", r.action = "applications:approve", v2 = {"approval"}
               PROVE  r.about = [verified |-> TRUE, scope |-> TRUE, complete |-> TRUE]
    BY <1>1 DEF Authz!ApprovalNeedsEvidence
  <2>1. "gateway" \notin v1
    BY <1>1 DEF PolicyInv
  <2>2. Authz!ApprovalPermits(r.principal, r.about)
    BY <1>2, <2>1 DEF Authz!Permitted
  <2>3. r.about \in Authz!Evidence
    BY DEF Authz!Requests
  <2> QED BY <2>2, <2>3 DEF Authz!ApprovalPermits, Authz!Evidence
<1> QED BY <1>1, <1>3, <1>4, <1>5 DEF PolicyInv

LEMMA PolicyStep == ASSUME PolicyInv, [Authz!PolicyNext]_(Authz!policyVars) PROVE PolicyInv'
<1>1. CASE UNCHANGED Authz!policyVars
  BY <1>1
  DEF Authz!policyVars, PolicyInv, Authz!UnfitNeedsLoss, Authz!LowTrustNeedsRole,
      Authz!ApprovalNeedsEvidence
<1>2. CASE Authz!with_defaults \/ Authz!with_credential_verification \/ Authz!with_approval_rules
  BY <1>2, PolicyMake
  DEF Authz!with_defaults, Authz!with_credential_verification, Authz!with_approval_rules,
      Authz!ApprovalRules
<1>3. ASSUME NEW paths \in SUBSET Authz!Files, NEW absent \in SUBSET paths,
             Authz!from_files(paths, absent)
      PROVE  PolicyInv'
  BY <1>3, PolicyMake DEF Authz!from_files, Authz!Loaded
<1>4. ASSUME NEW f \in Authz!Files, Authz!append_policies(f) \/ Authz!PolicySetPolicies(f)
      PROVE  PolicyInv'
  BY <1>4, Undecided DEF PolicyInv, Authz!append_policies, Authz!PolicySetPolicies
<1>5. ASSUME NEW r \in Authz!Requests, NEW raises \in BOOLEAN, Authz!is_authorized(r, raises)
      PROVE  PolicyInv'
  BY <1>5, PolicyDecides
<1>6. CASE Authz!Acted
  BY <1>6
  DEF Authz!Acted, PolicyInv, Authz!UnfitNeedsLoss, Authz!LowTrustNeedsRole,
      Authz!ApprovalNeedsEvidence
<1> QED BY <1>1, <1>2, <1>3, <1>4, <1>5, <1>6 DEF Authz!PolicyNext

-----------------------------------------------------------------------------
(* Crew policies: a visa-free record that one grant made has its countries. *)

CrewInv ==
    /\ v3.exists \in BOOLEAN /\ v5 \in BOOLEAN
    /\ v3.exists = TRUE /\ v3.status = "eligible" /\ ~v5 => v3.countries = v4

LEMMA AbsentIsNot == Crew!Absent.exists = FALSE
  BY DEF Crew!Absent

LEMMA CrewStart == Crew!Init => CrewInv
  BY AbsentIsNot DEF Crew!Init, CrewInv

LEMMA CrewAnswers == CrewInv => Crew!BeyondGrantNeedsRegrant
  BY DEF CrewInv, Crew!BeyondGrantNeedsRegrant, Crew!is_eligible_for_country,
         Crew!is_currently_eligible

LEMMA CrewGrant ==
    ASSUME CrewInv, NEW status \in {"eligible", "suspended"}, NEW countries, NEW until,
           Crew!manage_visa_free_status(status, countries, until)
    PROVE  CrewInv'
<1>1. /\ v3'.exists = TRUE /\ v3'.status = status
      /\ v3'.countries = IF v3.exists THEN v3.countries ELSE countries
  BY DEF Crew!manage_visa_free_status, Crew!CountriesOf
<1>2. v3.exists \in BOOLEAN
  BY DEF CrewInv
<1>3. CASE status = "eligible"
  BY <1>1, <1>2, <1>3 DEF CrewInv, Crew!manage_visa_free_status
<1>4. CASE status = "suspended"
  BY <1>1, <1>4 DEF CrewInv, Crew!manage_visa_free_status
<1> QED BY <1>3, <1>4

LEMMA CrewStep == ASSUME CrewInv, [Crew!Next]_(Crew!vars) PROVE CrewInv'
<1>1. CASE UNCHANGED <<v3, v4, v5>>
  BY <1>1 DEF CrewInv
<1>2. ASSUME NEW c \in CrewCleaners, Crew!cleanup_records(c) PROVE CrewInv'
  <2>1. (v3' = v3 \/ v3' = Crew!Absent) /\ UNCHANGED <<v4, v5>>
    BY <1>2 DEF Crew!cleanup_records
  <2>2. CASE v3' = Crew!Absent
    BY <2>1, <2>2, AbsentIsNot DEF CrewInv
  <2> QED BY <1>1, <2>1, <2>2
<1>3. ASSUME NEW u \in {Crew!Never, v10}, Crew!manage_visa_free_status("eligible", {"A"}, u)
      PROVE  CrewInv'
  BY <1>3, CrewGrant
<1>4. CASE Crew!manage_visa_free_status("suspended", {}, Crew!Never)
  BY <1>4, CrewGrant
<1>5. CASE UNCHANGED Crew!vars
  BY <1>1, <1>5 DEF Crew!vars
<1>6. CASE \/ Crew!initiate_background_check \/ Crew!create_electronic_record
           \/ Crew!link_background_check \/ Crew!AlterHolder \/ Crew!Tick
           \/ \E i \in DOMAIN v1, s \in Crew!Statuses, p \in BOOLEAN :
                 Crew!update_background_check(i, s, p)
           \/ \E c \in CrewCleaners : Crew!cleanup_checks(c)
  BY <1>1, <1>6
  DEF Crew!initiate_background_check, Crew!create_electronic_record, Crew!link_background_check,
      Crew!AlterHolder, Crew!Tick, Crew!update_background_check, Crew!cleanup_checks
<1> QED BY <1>2, <1>3, <1>4, <1>5, <1>6 DEF Crew!Next

-----------------------------------------------------------------------------
(* All of them: focus never changes, so a behaviour is one of its          *)
(* component's.                                                            *)

EntitlementInv ==
    /\ focus = "gateway" => GatewayInv
    /\ focus = "rpc" => RpcInv
    /\ focus = "access_control" => AccessInv
    /\ focus = "roles" => RoleInv
    /\ focus = "service_authorization" => GuardInv
    /\ focus = "policies" => PolicyInv
    /\ focus = "crew" => CrewInv

LEMMA EntitlementStart == EntitlementInit => EntitlementInv
<1> SUFFICES ASSUME EntitlementInit PROVE EntitlementInv
  OBVIOUS
<1>1. /\ focus = "gateway" => Authz!GatewayInit
      /\ focus = "rpc" => Authz!RpcInit
      /\ focus = "access_control" => Access!Init
      /\ focus = "roles" => Custody!RoleInit
      /\ focus = "service_authorization" => Authz!ServiceInit
      /\ focus = "policies" => Authz!PolicyInit
      /\ focus = "crew" => Crew!Init
  BY DEF EntitlementInit
<1> QED
  BY <1>1, GatewayStart, RpcStart, AccessStart, RoleStart, GuardStart, PolicyStart, CrewStart
  DEF EntitlementInv

LEMMA OneComponent ==
    ASSUME [EntitlementNext]_vars
    PROVE  /\ focus' = focus
           /\ focus = "gateway" => [Authz!GatewayNext]_(Authz!gatewayVars)
           /\ focus = "rpc" => [Authz!RpcNext]_(Authz!rpcVars)
           /\ focus = "access_control" => [Access!Next]_(Access!vars)
           /\ focus = "roles" => [Custody!RoleNext]_(Custody!roleVars)
           /\ focus = "service_authorization" => [Authz!ServiceNext]_(Authz!serviceVars)
           /\ focus = "policies" => [Authz!PolicyNext]_(Authz!policyVars)
           /\ focus = "crew" => [Crew!Next]_(Crew!vars)
<1>1. CASE UNCHANGED vars
  BY <1>1
  DEF vars, Authz!gatewayVars, Authz!rpcVars, Access!vars, Custody!roleVars,
      Authz!serviceVars, Authz!policyVars, Crew!vars
<1>2. CASE EntitlementNext
  BY <1>2 DEF EntitlementNext
<1> QED BY <1>1, <1>2

LEMMA EntitlementStep == ASSUME EntitlementInv, [EntitlementNext]_vars PROVE EntitlementInv'
<1> USE DEF EntitlementInv
<1>1. /\ focus = "gateway" => GatewayInv'
      /\ focus = "rpc" => RpcInv'
      /\ focus = "access_control" => AccessInv'
      /\ focus = "roles" => RoleInv'
  BY OneComponent, GatewayStep, RpcStep, AccessStep, RoleStep
<1>2. /\ focus = "service_authorization" => GuardInv'
      /\ focus = "policies" => PolicyInv'
      /\ focus = "crew" => CrewInv'
  BY OneComponent, GuardStep, PolicyStep, CrewStep
<1> QED BY <1>1, <1>2, OneComponent

\* For any users, keys, organizations, workers and limits, and whatever happens between a check
\* and its use: nobody is let in, signs or is accepted without what the code asks for. The
\* gateway checks the owner's organization and fails closed, a service's guard grants only
\* what the membership, the key or the gateway's binding gave while the request was there, a
\* worker acts for the caller it serves, keys stay with their roles, and each exception has the
\* cause that the property names.
THEOREM RequestsStayEntitled == EntitlementSpec => []RequestsAreEntitled
<1>1. EntitlementInv => RequestsAreEntitled
  BY GatewayAnswers, AccessAnswers, GuardAnswers, CrewAnswers
  DEF EntitlementInv, RpcInv, RoleInv, PolicyInv, RequestsAreEntitled
<1> QED BY <1>1, EntitlementStart, EntitlementStep, PTL DEF EntitlementSpec

=============================================================================
