-------------------------- MODULE OrgAuthorization --------------------------
(***************************************************************************)
(* Organization-scoped authorization of user sessions,                     *)
(* marty_common/org_authorization.py: OrganizationClient.get_membership    *)
(* with its Redis cache, and require_org_membership / require_permission   *)
(* on top of it, for one organization and one required permission.  Every  *)
(* await (Redis, gRPC) is a step of its own; the membership can change at  *)
(* the organization service between any two of them.                       *)
(*                                                                         *)
(* Redis and the organization service are external.  Redis errors are      *)
(* swallowed by the client; an error of the service denies or gives 503.   *)
(* Requests with an API key never reach the cache and are left out.        *)
(***************************************************************************)
EXTENDS Integers

CONSTANTS
    Users,
    Requests,   \* request handlers running side by side
    CacheTTL,   \* OrganizationClient.cache_ttl
    None

ASSUME OrgAuthorizationConfig ==
    /\ CacheTTL \in Nat \ {0}
    /\ None \notin Users

VARIABLES
    member,     \* external: the membership the organization service holds
    up,         \* external: TRUE when the organization service answers
    cache,      \* Redis: membership and remaining time to live, or nothing
    pc,         \* the await each request is in
    user,       \* x_user_id of each request
    answer,     \* the membership each request has been answered with
    decision    \* the outcome of each user's last request

vars == <<member, up, cache, pc, user, answer, decision>>

\* OrganizationMembership: its status and whether it has the permission.
Membership == [status : {"active", "suspended"}, permitted : BOOLEAN]
NoMember == [status |-> "none", permitted |-> FALSE]
NotCached == [status |-> "none", permitted |-> FALSE, ttl |-> 0]
Cached == [status : {"active", "suspended"}, permitted : BOOLEAN, ttl : 1 .. CacheTTL]

TypeOK ==
    /\ member \in [Users -> Membership \cup {NoMember}]
    /\ up \in BOOLEAN
    /\ cache \in [Users -> Cached \cup {NotCached}]
    /\ pc \in [Requests -> {"idle", "lookup", "fetch", "store"}]
    /\ user \in [Requests -> Users \cup {None}]
    /\ answer \in [Requests -> Membership \cup {NoMember}]
    /\ decision \in [Users -> {"none", "granted", "denied", "unavailable"}]

Init ==
    /\ member \in [Users -> Membership \cup {NoMember}]
    /\ up \in BOOLEAN
    /\ cache = [u \in Users |-> NotCached]
    /\ pc = [q \in Requests |-> "idle"]
    /\ user = [q \in Requests |-> None]
    /\ answer = [q \in Requests |-> NoMember]
    /\ decision = [u \in Users |-> "none"]

-----------------------------------------------------------------------------
Begin(q, u) ==
    /\ pc[q] = "idle"
    /\ pc' = [pc EXCEPT ![q] = "lookup"]
    /\ user' = [user EXCEPT ![q] = u]
    /\ UNCHANGED <<member, up, cache, answer, decision>>

\* require_org_membership and require_permission on a membership.
Verdict(m) == IF m.status = "active" /\ m.permitted THEN "granted" ELSE "denied"

\* The request ends with an outcome.
End(q, outcome) ==
    /\ pc' = [pc EXCEPT ![q] = "idle"]
    /\ user' = [user EXCEPT ![q] = None]
    /\ answer' = [answer EXCEPT ![q] = NoMember]
    /\ decision' = [decision EXCEPT ![user[q]] = outcome]

\* Mutant: a hit renews the entry.
AfterHit_Renewed(u) == [cache EXCEPT ![u].ttl = CacheTTL]

\* A hit leaves the entry and its time to live alone.
AfterHit(u) == cache

Hit(q) ==
    /\ pc[q] = "lookup"
    /\ cache[user[q]] # NotCached
    /\ cache' = AfterHit(user[q])
    /\ End(q, Verdict(cache[user[q]]))
    /\ UNCHANGED <<member, up>>

\* Nothing is cached, or reading the cache fails.
Miss(q) ==
    /\ pc[q] = "lookup"
    /\ pc' = [pc EXCEPT ![q] = "fetch"]
    /\ UNCHANGED <<member, up, cache, user, answer, decision>>

\* GetMember: the service answers with what it holds at this moment.
Fetch(q) ==
    /\ pc[q] = "fetch"
    /\ up
    /\ \/ /\ member[user[q]] = NoMember
          /\ End(q, "denied")
       \/ /\ member[user[q]] # NoMember
          /\ answer' = [answer EXCEPT ![q] = member[user[q]]]
          /\ pc' = [pc EXCEPT ![q] = "store"]
          /\ UNCHANGED <<user, decision>>
    /\ UNCHANGED <<member, up, cache>>

\* Mutant: an error code is taken for an answer from before.
FailedOutcomes_Open == {"granted", "unavailable"}

\* UNKNOWN, NOT_FOUND and INVALID_ARGUMENT count as "not a member"; any other
\* code becomes a 503.
FailedOutcomes == {"denied", "unavailable"}

FetchFails(q) ==
    /\ pc[q] = "fetch"
    /\ ~up
    /\ \E outcome \in FailedOutcomes : End(q, outcome)
    /\ UNCHANGED <<member, up, cache>>

\* Mutant: the entry outlives cache_ttl.
Entry_Longer(m) == [status |-> m.status, permitted |-> m.permitted, ttl |-> CacheTTL + 1]

Entry(m) == [status |-> m.status, permitted |-> m.permitted, ttl |-> CacheTTL]

\* setex, which may fail, then the decision on the answer.
Store(q) ==
    /\ pc[q] = "store"
    /\ cache' \in {cache, [cache EXCEPT ![user[q]] = Entry(answer[q])]}
    /\ End(q, Verdict(answer[q]))
    /\ UNCHANGED <<member, up>>

\* invalidate_cache; a Redis error is swallowed.
InvalidateCache(u) ==
    /\ cache' \in {cache, [cache EXCEPT ![u] = NotCached]}
    /\ UNCHANGED <<member, up, pc, user, answer, decision>>

-----------------------------------------------------------------------------
Expire(e) == IF e.ttl <= 1 THEN NotCached ELSE [e EXCEPT !.ttl = @ - 1]

\* Time passes for the entries in Redis.
Tick ==
    /\ cache' = [u \in Users |-> Expire(cache[u])]
    /\ UNCHANGED <<member, up, pc, user, answer, decision>>

MembershipChanges(u) ==
    /\ \E m \in Membership \cup {NoMember} : member' = [member EXCEPT ![u] = m]
    /\ UNCHANGED <<up, cache, pc, user, answer, decision>>

ServiceChanges ==
    /\ up' = ~up
    /\ UNCHANGED <<member, cache, pc, user, answer, decision>>

Proceed(q) == Hit(q) \/ Miss(q) \/ Fetch(q) \/ FetchFails(q) \/ Store(q)

Next ==
    \/ \E q \in Requests : Proceed(q) \/ \E u \in Users : Begin(q, u)
    \/ \E u \in Users : InvalidateCache(u) \/ MembershipChanges(u)
    \/ Tick \/ ServiceChanges

Spec == Init /\ [][Next]_vars

\* Every user sends requests again and again, their awaits end, time passes.
FairSpec ==
    /\ Spec
    /\ \A q \in Requests : WF_vars(Proceed(q))
    /\ \A q \in Requests, u \in Users : SF_vars(Begin(q, u))
    /\ WF_vars(Tick)

-----------------------------------------------------------------------------
(***************************************************************************)
(* Failures never grant access: a request is granted only if an active     *)
(* membership with the permission is at the service, in the cache or in an *)
(* answer on its way, whichever of Redis and the service fail and however  *)
(* late answers are stored.                                                *)
(***************************************************************************)
Grants(m) == m.status = "active" /\ m.permitted

MayBeGranted(u) ==
    \/ Grants(member[u])
    \/ Grants(cache[u])
    \/ \E q \in Requests : user[q] = u /\ Grants(answer[q])

GrantsAreVouched ==
    [][\A u \in Users :
          decision[u] # "granted" /\ decision'[u] = "granted" => MayBeGranted(u)]_vars

(***************************************************************************)
(* A change of membership takes effect, whether or not invalidate_cache    *)
(* was called or got through, and although answers fetched before the      *)
(* change may be cached after it: once membership and service stay as they *)
(* are, every decision from some moment on is the right one.               *)
(***************************************************************************)
DecisionsConverge ==
    \A u \in Users, m \in Membership \cup {NoMember} :
        <>[](up /\ member[u] = m) => <>[](decision[u] = Verdict(m))
=============================================================================
