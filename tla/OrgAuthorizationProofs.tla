----------------------- MODULE OrgAuthorizationProofs -----------------------
(***************************************************************************)
(* Failures never grant access, for any number of users and requests and   *)
(* any time to live.  The type invariant is inductive together with the    *)
(* fact that a request under way has a user.                               *)
(***************************************************************************)
EXTENDS OrgAuthorization, TLAPS

BusyHasUser == \A q \in Requests : pc[q] # "idle" => user[q] \in Users

\* Only a request past GetMember holds an answer that is a membership.
StoringHasAnswer == \A q \in Requests : pc[q] = "store" => answer[q] \in Membership

Inv == TypeOK /\ BusyHasUser /\ StoringHasAnswer

Outcomes == {"granted", "denied", "unavailable"}

\* A decision on a membership is one of the outcomes.
LEMMA VerdictType == \A m : Verdict(m) \in Outcomes
  BY DEF Verdict, Outcomes

\* Ending a request keeps the invariant.
LEMMA EndInv ==
    ASSUME Inv, NEW q \in Requests, NEW outcome \in Outcomes, End(q, outcome),
           cache' \in [Users -> Cached \cup {NotCached}], UNCHANGED <<member, up>>
    PROVE  Inv'
  <1>1. TypeOK'
    <2>1. decision' \in [Users -> {"none", "granted", "denied", "unavailable"}]
      BY DEF Inv, TypeOK, End, Outcomes
    <2>2. /\ pc' \in [Requests -> {"idle", "lookup", "fetch", "store"}]
          /\ user' \in [Requests -> Users \cup {None}]
          /\ answer' \in [Requests -> Membership \cup {NoMember}]
      BY DEF Inv, TypeOK, End
    <2> QED
      BY <2>1, <2>2 DEF Inv, TypeOK
  <1>2. BusyHasUser' /\ StoringHasAnswer'
    BY DEF Inv, TypeOK, End, BusyHasUser, StoringHasAnswer
  <1> QED
    BY <1>1, <1>2 DEF Inv

\* What setex writes is a well-formed entry.
LEMMA EntryType == \A m \in Membership : Entry(m) \in Cached
  BY OrgAuthorizationConfig DEF Entry, Membership, Cached

\* An entry that ages is still well-formed or gone.
LEMMA ExpireType ==
    \A e \in Cached \cup {NotCached} : Expire(e) \in Cached \cup {NotCached}
  BY OrgAuthorizationConfig DEF Expire, Cached, NotCached

\* Every step of a request keeps the invariant.
LEMMA ProceedInv == ASSUME Inv, NEW q \in Requests, Proceed(q) PROVE Inv'
  <1>0. TypeOK /\ BusyHasUser /\ StoringHasAnswer
    BY DEF Inv
  <1>1. CASE Hit(q)
    <2>1. cache' \in [Users -> Cached \cup {NotCached}]
      BY <1>0, <1>1 DEF TypeOK, Hit, AfterHit
    <2> QED
      BY <1>1, <2>1, EndInv, VerdictType DEF Hit
  <1>2. CASE Miss(q)
    BY <1>0, <1>2 DEF Inv, TypeOK, BusyHasUser, StoringHasAnswer, Miss
  <1>3. CASE Fetch(q)
    <2>1. CASE End(q, "denied")
      BY <1>0, <1>3, <2>1, EndInv DEF Fetch, TypeOK, Outcomes
    <2>2. CASE /\ member[user[q]] # NoMember
               /\ answer' = [answer EXCEPT ![q] = member[user[q]]]
               /\ pc' = [pc EXCEPT ![q] = "store"]
               /\ UNCHANGED <<user, decision>>
      <3>1. user[q] \in Users /\ member[user[q]] \in Membership
        BY <1>0, <1>3, <2>2 DEF TypeOK, BusyHasUser, Fetch
      <3> QED
        BY <1>0, <1>3, <2>2, <3>1
        DEF Inv, TypeOK, BusyHasUser, StoringHasAnswer, Fetch
    <2> QED
      BY <1>3, <2>1, <2>2 DEF Fetch
  <1>4. CASE FetchFails(q)
    <2>1. PICK outcome \in FailedOutcomes : End(q, outcome)
      BY <1>4 DEF FetchFails
    <2> QED
      BY <1>0, <1>4, <2>1, EndInv DEF FetchFails, FailedOutcomes, Outcomes, TypeOK
  <1>5. CASE Store(q)
    <2>1. user[q] \in Users /\ Entry(answer[q]) \in Cached
      BY <1>0, <1>5, EntryType DEF BusyHasUser, StoringHasAnswer, Store
    <2>2. cache' \in [Users -> Cached \cup {NotCached}]
      BY <1>0, <1>5, <2>1 DEF TypeOK, Store
    <2> QED
      BY <1>5, <2>2, EndInv, VerdictType DEF Store
  <1> QED
    BY <1>1, <1>2, <1>3, <1>4, <1>5 DEF Proceed

LEMMA InitInv == Init => Inv
  BY DEF Init, Inv, TypeOK, BusyHasUser, StoringHasAnswer

LEMMA NextInv == Inv /\ [Next]_vars => Inv'
  <1> SUFFICES ASSUME Inv, [Next]_vars PROVE Inv'
    OBVIOUS
  <1>0. TypeOK /\ BusyHasUser /\ StoringHasAnswer
    BY DEF Inv
  <1>1. CASE \E q \in Requests : Proceed(q)
    BY <1>1, ProceedInv
  <1>2. ASSUME NEW q \in Requests, NEW u \in Users, Begin(q, u) PROVE Inv'
    BY <1>0, <1>2 DEF Inv, TypeOK, BusyHasUser, StoringHasAnswer, Begin
  <1>3. ASSUME NEW u \in Users, InvalidateCache(u) PROVE Inv'
    BY <1>0, <1>3 DEF Inv, TypeOK, BusyHasUser, StoringHasAnswer, InvalidateCache
  <1>4. ASSUME NEW u \in Users, MembershipChanges(u) PROVE Inv'
    BY <1>0, <1>4 DEF Inv, TypeOK, BusyHasUser, StoringHasAnswer, MembershipChanges
  <1>5. CASE Tick
    <2>1. cache' \in [Users -> Cached \cup {NotCached}]
      BY <1>0, <1>5, ExpireType DEF TypeOK, Tick
    <2> QED
      BY <1>0, <1>5, <2>1 DEF Inv, TypeOK, BusyHasUser, StoringHasAnswer, Tick
  <1>6. CASE ServiceChanges
    BY <1>0, <1>6 DEF Inv, TypeOK, BusyHasUser, StoringHasAnswer, ServiceChanges
  <1>7. CASE UNCHANGED vars
    BY <1>0, <1>7 DEF Inv, TypeOK, BusyHasUser, StoringHasAnswer, vars
  <1> QED
    BY <1>1, <1>2, <1>3, <1>4, <1>5, <1>6, <1>7 DEF Next

-----------------------------------------------------------------------------
\* A request that ends changes the decision of its own user only.
LEMMA EndDecides ==
    ASSUME TypeOK, NEW q \in Requests, NEW outcome, End(q, outcome),
           NEW u \in Users, decision[u] # "granted", decision'[u] = "granted"
    PROVE  user[q] = u /\ outcome = "granted"
  BY DEF TypeOK, End

\* A membership that is judged "granted" grants.
LEMMA VerdictGrants == \A m : Verdict(m) = "granted" => Grants(m)
  BY DEF Verdict, Grants

LEMMA StepIsVouched ==
    ASSUME Inv, [Next]_vars, NEW u \in Users,
           decision[u] # "granted", decision'[u] = "granted"
    PROVE  MayBeGranted(u)
  <1>0. TypeOK
    BY DEF Inv
  <1>1. PICK q \in Requests : Proceed(q)
    BY DEF Next, vars, Begin, InvalidateCache, MembershipChanges, Tick, ServiceChanges
  <1>2. CASE Hit(q)
    <2>1. user[q] = u /\ Verdict(cache[user[q]]) = "granted"
      BY <1>0, <1>2, EndDecides DEF Hit
    <2> QED
      BY <2>1, VerdictGrants DEF MayBeGranted
  <1>3. CASE Miss(q)
    BY <1>3 DEF Miss
  <1>4. CASE Fetch(q)
    <2>1. decision' = decision \/ End(q, "denied")
      BY <1>4 DEF Fetch
    <2> QED
      BY <1>0, <2>1, EndDecides
  <1>5. CASE FetchFails(q)
    <2>1. PICK outcome \in FailedOutcomes : End(q, outcome)
      BY <1>5 DEF FetchFails
    <2> QED
      BY <1>0, <2>1, EndDecides DEF FailedOutcomes
  <1>6. CASE Store(q)
    <2>1. user[q] = u /\ Verdict(answer[q]) = "granted"
      BY <1>0, <1>6, EndDecides DEF Store
    <2> QED
      BY <2>1, VerdictGrants DEF MayBeGranted
  <1> QED
    BY <1>1, <1>2, <1>3, <1>4, <1>5, <1>6 DEF Proceed

(***************************************************************************)
(* Requests, cache and decisions keep their types, for any users, requests *)
(* and time to live: a request under way has a user, and only one past the *)
(* fetch of get_membership carries a membership to store.                  *)
(***************************************************************************)
THEOREM MembershipTypes == Spec => []TypeOK
  <1>1. Inv => TypeOK
    BY DEF Inv
  <1> QED
    BY <1>1, InitInv, NextInv, PTL DEF Spec

(***************************************************************************)
(* No failure of Redis or of the organization service, and no late answer, *)
(* makes get_membership and the checks on top of it grant access that no   *)
(* membership warrants, for any number of users and requests.              *)
(***************************************************************************)
THEOREM FailuresGrantNothing == Spec => GrantsAreVouched
  <1>1. Inv /\ [Next]_vars =>
          [\A u \in Users :
              decision[u] # "granted" /\ decision'[u] = "granted" => MayBeGranted(u)]_vars
    BY StepIsVouched
  <1> QED
    BY <1>1, InitInv, NextInv, PTL DEF Spec, GrantsAreVouched
=============================================================================
