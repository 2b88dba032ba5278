----------------------------- MODULE Idempotency ----------------------------
(***************************************************************************)
(* marty_common/web_middleware.py: IdempotencyMiddleware for the requests  *)
(* that carry one Idempotency-Key. With Redis a cached response and a lock *)
(* with a time to live are kept there, and every call of the client is an  *)
(* await that may raise, before or after Redis did what it was asked;      *)
(* without it two dictionaries of the process are used, and no await       *)
(* separates the look-ups from the claim. The dictionaries are those of    *)
(* one process: a restart forgets them.                                    *)
(***************************************************************************)
EXTENDS Naturals, FiniteSets

CONSTANT Requests   \* requests with the same key, from one user

VARIABLES
    backend,        \* "redis" or "memory"
    others,         \* requests with another method, path, query or body than the rest
    cache,          \* the cached response, by the request that produced it, or "none"
    lock,           \* the request whose token the lock (or _inflight) holds, or "none"
    pc,             \* where each request is
    renew,          \* the renewal task of each request
    answer,         \* what each request got
    executed,       \* requests whose handler ended with a 2xx response
    causes          \* history: what may let a second request of the key be processed

vars == <<backend, others, cache, lock, pc, renew, answer, executed, causes>>

\* expired: the lock expired before its owner was done with it; late_claim: it was taken
\* with a response already cached; uncached: a 2xx response was not stored, or dropped
\* after its ttl.
Causes == {"expired", "late_claim", "uncached"}

None == "none"

\* _request_hash; all of them different from none is all of them alike.
Hash(r) == r \in others

TypeOK ==
    /\ backend \in {"redis", "memory"} /\ others \subseteq Requests
    /\ cache \in Requests \union {None} /\ lock \in Requests \union {None}
    /\ pc \in [Requests -> {"new", "missed", "refused", "handling", "succeeded", "failed",
                            "release", "reading", "deleting", "done", "crashed"}]
    /\ renew \in [Requests -> {"off", "on", "returned", "raised"}]
    /\ answer \in [Requests -> {"none", "response", "replay", "conflict", "in_progress",
                                "error"}]
    /\ executed \subseteq Requests
    /\ causes \subseteq Causes

Init ==
    /\ backend \in {"redis", "memory"} /\ others \in SUBSET Requests \ {Requests}
    /\ cache = None /\ lock = None
    /\ pc = [r \in Requests |-> "new"]
    /\ renew = [r \in Requests |-> "off"]
    /\ answer = [r \in Requests |-> "none"]
    /\ executed = {}
    /\ causes = {}

Goto(r, label) == pc' = [pc EXCEPT ![r] = label]
Answer(r, a) == answer' = [answer EXCEPT ![r] = a]
End(r, a) == Goto(r, "done") /\ Answer(r, a)
Because(cause, holds) == causes' = IF holds THEN causes \union {cause} ELSE causes

\* A response in the cache: replayed to the same request, a conflict for another one.
FromCache(r) == IF Hash(cache) = Hash(r) THEN "replay" ELSE "conflict"
\* A claim of another request: wait and retry, or a conflict.
FromClaim(r) == IF Hash(lock) = Hash(r) THEN "in_progress" ELSE "conflict"

\* The requests whose claim is still theirs to give up.
Claiming == {"handling", "succeeded", "failed", "release", "reading", "deleting"}
Holds(r) == pc[r] \in Claiming

-----------------------------------------------------------------------------
(* _dispatch_redis                                                         *)

GetCached(r) ==
    /\ backend = "redis" /\ pc[r] = "new"
    /\ IF cache # None THEN End(r, FromCache(r)) ELSE Goto(r, "missed") /\ UNCHANGED answer
    /\ UNCHANGED <<backend, others, cache, lock, renew, executed, causes>>

Claimable_Overwrites(r) == TRUE
Claimable(r) == lock = None

\* set(..., nx=True). The cache is not looked at again once the lock is taken.
Claim(r) ==
    /\ backend = "redis" /\ pc[r] = "missed"
    /\ IF Claimable(r)
       THEN /\ lock' = r
            /\ Goto(r, "handling")
            /\ renew' = [renew EXCEPT ![r] = "on"]
            /\ Because("late_claim", cache # None)
       ELSE Goto(r, "refused") /\ UNCHANGED <<lock, renew, causes>>
    /\ UNCHANGED <<backend, others, cache, answer, executed>>

\* The answer of Redis is lost: the lock may have been taken, for nobody.
ClaimRaises(r) ==
    /\ backend = "redis" /\ pc[r] = "missed"
    /\ lock' \in {lock, IF lock = None THEN r ELSE lock}
    /\ End(r, "error")
    /\ UNCHANGED <<backend, others, cache, renew, executed, causes>>

\* The refused request reads the lock in another call; it may be gone by then.
ReadLock(r) ==
    /\ pc[r] = "refused"
    /\ End(r, IF lock = None THEN "in_progress" ELSE FromClaim(r))
    /\ UNCHANGED <<backend, others, cache, lock, renew, executed, causes>>

\* get raises, of the cached response or of the lock.
LookRaises(r) ==
    /\ backend = "redis" /\ pc[r] \in {"new", "refused"}
    /\ End(r, "error")
    /\ UNCHANGED <<backend, others, cache, lock, renew, executed, causes>>

\* _renew_redis_lock: it stops when the token is no longer its own and when expire
\* fails; an exception of get ends the task with it.
RenewEnds(r, how) ==
    /\ renew[r] = "on" /\ pc[r] \in {"handling", "succeeded", "failed"}
    /\ renew' = [renew EXCEPT ![r] = how]
    /\ UNCHANGED <<backend, others, cache, lock, pc, answer, executed, causes>>

Expiring_NoTTL(r) == FALSE
\* The lock is set with _LOCK_TTL, three renewals or more fit into it.
Expiring(r) == renew[r] # "on"

\* Redis drops the lock once nobody renews it.
LockExpires ==
    /\ backend = "redis" /\ lock # None
    /\ Expiring(lock)
    /\ lock' = None
    /\ Because("expired", Holds(lock))
    /\ UNCHANGED <<backend, others, cache, pc, renew, answer, executed>>

\* Redis drops the response ttl seconds after setex.
CacheExpires ==
    /\ backend = "redis" /\ cache # None
    /\ cache' = None
    /\ Because("uncached", TRUE)
    /\ UNCHANGED <<backend, others, lock, pc, renew, answer, executed>>

\* call_next: the handler's response, with its effects if it is a success; or its
\* exception, or a cancellation.
HandlerEnds(r, ok) ==
    /\ pc[r] = "handling"
    /\ Goto(r, IF ok THEN "succeeded" ELSE "failed")
    /\ executed' = IF ok THEN executed \union {r} ELSE executed
    /\ UNCHANGED <<backend, others, cache, lock, renew, answer, causes>>

\* _collect_response and setex
StoreCached(r) ==
    /\ backend = "redis" /\ pc[r] = "succeeded"
    /\ cache' = r
    /\ Goto(r, "release") /\ Answer(r, "response")
    /\ UNCHANGED <<backend, others, lock, renew, executed, causes>>

\* One of the two raises or is cancelled: the effects of the handler stay, and the
\* response is cached only if it was the answer of setex that got lost.
StoreFails(r, stored) ==
    /\ backend = "redis" /\ pc[r] = "succeeded"
    /\ cache' = IF stored THEN r ELSE cache
    /\ Because("uncached", ~stored)
    /\ Goto(r, "release") /\ Answer(r, "error")
    /\ UNCHANGED <<backend, others, lock, renew, executed>>

\* Another status than 2xx, or an exception.
SkipCache(r) ==
    /\ backend = "redis" /\ pc[r] = "failed"
    /\ Goto(r, "release") /\ \E a \in {"response", "error"} : Answer(r, a)
    /\ UNCHANGED <<backend, others, cache, lock, renew, executed, causes>>

Released_Unchecked(r) == None
\* The script of _release_redis_lock deletes the lock only if it holds the request's token.
Released(r) == IF lock = r THEN None ELSE lock

\* The finally block: await of the renewal task, then the script.
Release(r) ==
    /\ pc[r] = "release" /\ renew[r] # "raised"
    /\ lock' = Released(r)
    /\ renew' = [renew EXCEPT ![r] = "off"]
    /\ Goto(r, "done")
    /\ UNCHANGED <<backend, others, cache, answer, executed, causes>>

\* eval raises, before or after it ran, or there is none.
ScriptFails(r) ==
    /\ pc[r] = "release" /\ renew[r] # "raised"
    /\ lock' \in {lock, Released(r)}
    /\ renew' = [renew EXCEPT ![r] = "off"]
    /\ Goto(r, "reading")
    /\ UNCHANGED <<backend, others, cache, answer, executed, causes>>

\* The fallback: get and compare; an exception of get is only logged.
ReadToken(r, raises) ==
    /\ pc[r] = "reading"
    /\ Goto(r, IF ~raises /\ lock = r THEN "deleting" ELSE "done")
    /\ UNCHANGED <<backend, others, cache, lock, renew, answer, executed, causes>>

\* delete takes no token: it deletes the lock that is there by now, or raises.
DeleteLock(r, raises) ==
    /\ pc[r] = "deleting"
    /\ lock' = IF raises THEN lock ELSE None
    /\ Goto(r, "done")
    /\ UNCHANGED <<backend, others, cache, renew, answer, executed, causes>>

\* The exception of a renewal task that raised leaves from the await, in place of
\* the response and of the release.
ReleaseSkipped(r) ==
    /\ pc[r] = "release" /\ renew[r] = "raised"
    /\ End(r, "error")
    /\ UNCHANGED <<backend, others, cache, lock, renew, executed, causes>>

\* The process ends: its renewal task with it, the lock stays in Redis. (Before the
\* claim a crash leaves nothing behind.)
Crash(r) ==
    /\ backend = "redis" /\ Holds(r)
    /\ Goto(r, "crashed")
    /\ renew' = [renew EXCEPT ![r] = "off"]
    /\ Because("uncached", pc[r] = "succeeded")
    /\ UNCHANGED <<backend, others, cache, lock, answer, executed>>

-----------------------------------------------------------------------------
(* dispatch without Redis                                                  *)

\* _evict_expired comes first, and does its work every ten minutes.
DispatchMemory(r, evicts) ==
    /\ backend = "memory" /\ pc[r] = "new"
    /\ evicts => cache # None
    /\ cache' = IF evicts THEN None ELSE cache
    /\ Because("uncached", evicts)
    /\ CASE cache' # None -> End(r, FromCache(r)) /\ UNCHANGED lock
         [] cache' = None /\ lock # None -> End(r, FromClaim(r)) /\ UNCHANGED lock
         [] OTHER -> lock' = r /\ Goto(r, "handling") /\ UNCHANGED answer
    /\ UNCHANGED <<backend, others, renew, executed>>

\* The dictionary in the same step as the end of the claim; _collect_response awaits
\* between the end of the handler and this step.
EndMemory_ReleasesOnly(r) ==
    /\ backend = "memory" /\ pc[r] \in {"succeeded", "failed"}
    /\ cache' = cache
    /\ lock' = None
    /\ End(r, "response")
    /\ UNCHANGED <<backend, others, renew, executed, causes>>

EndMemory(r) ==
    /\ backend = "memory" /\ pc[r] \in {"succeeded", "failed"}
    /\ cache' = IF pc[r] = "succeeded" THEN r ELSE cache
    /\ lock' = None
    /\ End(r, "response")
    /\ UNCHANGED <<backend, others, renew, executed, causes>>

\* The handler or _collect_response raises, or the task is cancelled.
FailMemory(r) ==
    /\ backend = "memory" /\ pc[r] \in {"succeeded", "failed"}
    /\ lock' = None
    /\ End(r, "error")
    /\ Because("uncached", pc[r] = "succeeded")
    /\ UNCHANGED <<backend, others, cache, renew, executed>>

Step(r) ==
    \/ GetCached(r) \/ Claim(r) \/ ClaimRaises(r) \/ ReadLock(r) \/ LookRaises(r)
    \/ StoreCached(r) \/ SkipCache(r) \/ Release(r) \/ ScriptFails(r) \/ ReleaseSkipped(r)
    \/ EndMemory(r) \/ FailMemory(r)
    \/ \E b \in BOOLEAN :
          \/ HandlerEnds(r, b) \/ StoreFails(r, b) \/ ReadToken(r, b) \/ DeleteLock(r, b)
          \/ DispatchMemory(r, b)

Next ==
    \/ LockExpires \/ CacheExpires
    \/ \E r \in Requests :
          Step(r) \/ Crash(r) \/ \E how \in {"returned", "raised"} : RenewEnds(r, how)

\* The event loop resumes every coroutine, handlers end, and Redis drops what expires.
Spec == Init /\ [][Next]_vars /\ WF_vars(LockExpires) /\ \A r \in Requests : WF_vars(Step(r))

-----------------------------------------------------------------------------
\* The class comment of IdempotencyMiddleware: the first request with a key is processed
\* and its response kept for ttl seconds, later ones get that response. Without Redis a
\* second request of a key is processed with success only if the response of an earlier
\* one could not be collected or has been kept for its time.
OnceInMemory ==
    backend = "memory" /\ Cardinality(executed) > 1 => "uncached" \in causes

\* With Redis there are two more ways: a lock that expired under its owner, and a request
\* that looked for a cached response before there was one and took the lock after the
\* response had been stored and the lock released: nothing looks again. However claims,
\* renewals, releases and crashes interleave, there is no fourth.
TwiceNeedsRace == Cardinality(executed) > 1 => causes # {}

ReleasesOwnOnly_Step ==
    \A r \in Requests :
      pc'[r] # pc[r] /\ lock \notin {r, None} /\ lock' # lock =>
          pc[r] = "deleting" /\ "expired" \in causes

\* A request that ends takes away no lock but its own, also when its lock had expired and
\* another request holds one by then; only the fallback of the script may, whose own lock
\* was there at its get and expired before its delete.
ReleasesOwnOnly == [][ReleasesOwnOnly_Step]_vars

\* A lock does not outlive its request for ever, neither after a crash nor when the
\* renewal task's exception skips the release or the release fails.
LockFreed == \A r \in Requests : (lock = r) ~> (lock # r)
=============================================================================
