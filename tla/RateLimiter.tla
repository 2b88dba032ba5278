----------------------------- MODULE RateLimiter ----------------------------
(***************************************************************************)
(* RateLimiter.check_limit of marty_common/middleware/rate_limiter.py for  *)
(* one client, called by several server threads.  The limiter's lock only  *)
(* covers its rules: a thread reads the client's bucket, refills it,       *)
(* decides and stores it back in separate steps.                           *)
(*                                                                         *)
(* MemoryRateLimitBackend hands out the stored ClientBucket itself, so     *)
(* threads mutate one object; RedisRateLimitBackend builds a new one, with *)
(* an empty window, at every read, its entry has a time to live, and its   *)
(* errors are swallowed: a failed read looks like a new client.  Buckets   *)
(* are objects on a heap for that reason.  Time is counted in ticks; one   *)
(* token comes back per tick, and every request costs one.                 *)
(***************************************************************************)
EXTENDS Integers, Sequences, FiniteSets, FiniteSetsExt

CONSTANTS
    Threads,
    Burst,      \* rule.burst_size
    PerMinute,  \* rule.requests_per_minute
    PerHour,    \* rule.requests_per_hour
    Minute,     \* length of the short window in ticks
    Hour,       \* length of the long window, and of the life of an idle entry
    MaxTime     \* bound on the clock

VARIABLES
    redis,      \* which backend the limiter was built with
    clock,
    stored,     \* the client's entry at the backend: an object, or 0 for none
    expires,    \* when Redis drops the entry, 0 for never
    heap,       \* the ClientBucket objects
    call,       \* check_limit in each thread
    admitted,   \* history: how many requests were let through at each time
                \* (kept for the memory backend only)
    doubled     \* history: two threads have found the tokens of one bucket enough
                \* before either took its own

vars == <<redis, clock, stored, expires, heap, call, admitted, doubled>>

\* One object per thread, one the memory backend keeps, and Redis' own copy.
RedisHash == Cardinality(Threads) + 2
Objects == 1 .. RedisHash
Bucket == [tokens : Int, last_refill : Nat, window : Seq(Nat)]
Free == [tokens |-> 0, last_refill |-> 0, window |-> <<>>]
Idle == [pc |-> "idle", now |-> 0, obj |-> 0, refilled |-> 0]

TypeOK ==
    /\ {redis, doubled} \subseteq BOOLEAN
    /\ clock \in 0 .. MaxTime
    /\ stored \in Objects \cup {0}
    /\ expires \in Nat
    /\ heap \in [Objects -> Bucket]
    /\ \A t \in Threads : call[t].obj \in Objects \cup {0}

Init ==
    /\ redis \in BOOLEAN
    /\ clock = 0
    /\ stored = 0
    /\ expires = 0
    /\ heap = [o \in Objects |-> Free]
    /\ call = [t \in Threads |-> Idle]
    /\ admitted = [n \in 0 .. MaxTime |-> 0]
    /\ doubled = FALSE

-----------------------------------------------------------------------------
(* The backends                                                            *)

InUse(o) == o = stored \/ o = RedisHash \/ \E t \in Threads : call[t].obj = o
New == CHOOSE o \in Objects : ~InUse(o)

\* cleanup_expired of the memory backend; that of Redis does nothing.
cleanup_expired(before) ==
    IF ~redis /\ stored # 0 /\ heap[stored].last_refill < before THEN 0 ELSE stored

\* The backend has no entry, or Redis' time to live has ended it.
Absent == stored = 0 \/ (redis /\ expires \in 1 .. clock)

\* get_client_data, and the new bucket made for None: the object thread t goes
\* on with, and the heap that holds it.
Fetched(t, none) ==
    IF none
    THEN [obj |-> New, heap |-> [heap EXCEPT ![New] =
            [tokens |-> Burst, last_refill |-> call[t].now, window |-> <<>>]]]
    ELSE IF redis
    THEN [obj |-> New, heap |-> [heap EXCEPT ![New] = [heap[stored] EXCEPT !.window = <<>>]]]
    ELSE [obj |-> stored, heap |-> heap]

\* Objects nobody refers to any more are forgotten.
Collect(h, s, c) ==
    [o \in Objects |->
        IF o = s \/ \E t \in Threads : c[t].obj = o THEN h[o] ELSE Free]

\* set_client_data, then the call returns and drops its reference.  hset may
\* succeed and the expire after it fail: the entry keeps the life it had.
StoreAndReturn(t, bucket) ==
    LET o == call[t].obj
        s == IF redis THEN RedisHash ELSE o
        h == [heap EXCEPT ![o] = bucket, ![s] = bucket]
    IN  /\ call' = [call EXCEPT ![t] = Idle]
        /\ stored' = s
        /\ heap' = Collect(h, s, call')
        /\ expires' \in IF redis THEN {clock + Hour, IF Absent THEN 0 ELSE expires}
                                 ELSE {0}

\* hset fails: the entry stays as it was.
DropAndReturn(t) ==
    /\ redis
    /\ call' = [call EXCEPT ![t] = Idle]
    /\ heap' = Collect(heap, stored, call')
    /\ UNCHANGED <<stored, expires>>

Return(t, bucket) == StoreAndReturn(t, bucket) \/ DropAndReturn(t)

-----------------------------------------------------------------------------
(* check_limit                                                             *)

\* The time is taken once; the periodic cleanup may be due.
Begin(t) ==
    /\ call[t].pc = "idle"
    /\ call' = [call EXCEPT ![t] = [Idle EXCEPT !.pc = "fetch", !.now = clock]]
    /\ stored' \in {stored, cleanup_expired(clock - Hour)}
    /\ heap' = Collect(heap, stored', call')
    /\ UNCHANGED <<redis, clock, expires, admitted, doubled>>

\* A failed read of Redis is logged and returns None.
Fetch(t) ==
    /\ call[t].pc = "fetch"
    /\ \E none \in IF redis THEN {Absent, TRUE} ELSE {Absent} :
          LET f == Fetched(t, none) IN
          /\ call' = [call EXCEPT ![t].pc = "refill", ![t].obj = f.obj]
          /\ heap' = f.heap
    /\ UNCHANGED <<redis, clock, stored, expires, admitted, doubled>>

Least(a, b) == IF a < b THEN a ELSE b

\* Mutant: the refill is not capped at the burst size.
Refilled_Uncapped(bucket, now) == bucket.tokens + (now - bucket.last_refill)

\* The balance _refill_bucket computes from what it has read.
Refilled(bucket, now) == Least(Burst, bucket.tokens + (now - bucket.last_refill))

\* _refill_bucket reads the bucket; the call of min lets other threads run.
Refill(t) ==
    /\ call[t].pc = "refill"
    /\ LET bucket == heap[call[t].obj] IN
        call' = [call EXCEPT ![t] =
            IF call[t].now <= bucket.last_refill THEN [@ EXCEPT !.pc = "check"]
            ELSE [@ EXCEPT !.pc = "refilled", !.refilled = Refilled(bucket, call[t].now)]]
    /\ UNCHANGED <<redis, clock, stored, expires, heap, admitted, doubled>>

\* It writes the balance and the time, whatever the bucket holds by now.
WriteRefill(t) ==
    /\ call[t].pc = "refilled"
    /\ heap' = [heap EXCEPT ![call[t].obj].tokens = call[t].refilled,
                            ![call[t].obj].last_refill = call[t].now]
    /\ call' = [call EXCEPT ![t].pc = "check", ![t].refilled = 0]
    /\ UNCHANGED <<redis, clock, stored, expires, admitted, doubled>>

\* Requests older than an hour leave the window, from its left end.
Trimmed(window, now) ==
    LET kept == {i \in 1 .. Len(window) : window[i] >= now - Hour}
        first == IF kept = {} THEN Len(window) + 1
                 ELSE CHOOSE i \in kept : \A j \in kept : i <= j
    IN  SubSeq(window, first, Len(window))

\* _check_window_limits on the trimmed window.
WindowOpen(window, now) ==
    /\ Cardinality({i \in 1 .. Len(window) : window[i] >= now - Minute}) < PerMinute
    /\ Len(window) < PerHour

\* The burst limit: the tokens are compared and left as they are.
Check(t) ==
    /\ call[t].pc = "check"
    /\ LET bucket == heap[call[t].obj] IN
        \/ /\ bucket.tokens < 1
           /\ Return(t, bucket)
           /\ UNCHANGED doubled
        \/ /\ bucket.tokens >= 1
           /\ call' = [call EXCEPT ![t].pc = "window"]
           /\ doubled' = (doubled \/ \E u \in Threads :
                 call[u].obj = call[t].obj /\ call[u].pc \in {"window", "consume"})
           /\ UNCHANGED <<stored, expires, heap>>
    /\ UNCHANGED <<redis, clock, admitted>>

\* The window limits.
Window(t) ==
    /\ call[t].pc = "window"
    /\ LET bucket == heap[call[t].obj]
           trimmed == [bucket EXCEPT !.window = Trimmed(@, call[t].now)]
       IN  \/ /\ ~WindowOpen(trimmed.window, call[t].now)
              /\ Return(t, trimmed)
           \/ /\ WindowOpen(trimmed.window, call[t].now)
              /\ heap' = [heap EXCEPT ![call[t].obj] = trimmed]
              /\ call' = [call EXCEPT ![t].pc = "consume"]
              /\ UNCHANGED <<stored, expires>>
    /\ UNCHANGED <<redis, clock, admitted, doubled>>

\* Mutant: a request that is let through is not recorded in the window.
Consumed_Unrecorded(bucket, now) == [bucket EXCEPT !.tokens = @ - 1]

\* One token less than the bucket has by now; the request enters the window.
Consumed(bucket, now) == [bucket EXCEPT !.tokens = @ - 1, !.window = Append(@, now)]

\* The interpreter does not switch threads inside tokens -= 1.
Consume(t) ==
    /\ call[t].pc = "consume"
    /\ heap' = [heap EXCEPT ![call[t].obj] = Consumed(@, call[t].now)]
    /\ call' = [call EXCEPT ![t].pc = "store"]
    /\ admitted' = IF redis THEN admitted ELSE [admitted EXCEPT ![call[t].now] = @ + 1]
    /\ UNCHANGED <<redis, clock, stored, expires, doubled>>

Store(t) ==
    /\ call[t].pc = "store"
    /\ Return(t, heap[call[t].obj])
    /\ UNCHANGED <<redis, clock, admitted, doubled>>

-----------------------------------------------------------------------------
\* A call outlasts at most one tick: checks are short against the windows.
Tick ==
    /\ clock < MaxTime
    /\ \A t \in Threads : call[t].pc # "idle" => call[t].now = clock
    /\ clock' = clock + 1
    /\ UNCHANGED <<redis, stored, expires, heap, call, admitted, doubled>>

Proceed(t) ==
    \/ Fetch(t) \/ Refill(t) \/ WriteRefill(t) \/ Check(t) \/ Window(t) \/ Consume(t)
    \/ Store(t)

Next == Tick \/ \E t \in Threads : Begin(t) \/ Proceed(t)

Spec == Init /\ [][Next]_vars

-----------------------------------------------------------------------------
(***************************************************************************)
(* The balance of a bucket is refilled, compared and debited without a     *)
(* lock.  A client runs into debt only with the memory backend, and only   *)
(* once two threads have both found its last token before either took it:  *)
(* Redis gives every call a bucket of its own, and no refill written late, *)
(* over debits and refills made since it was computed, does it alone.      *)
(* Nothing lifts a balance above burst_size.                               *)
(***************************************************************************)
DebtNeedsOverlap ==
    \A o \in Objects :
        /\ heap[o].tokens <= Burst
        /\ heap[o].tokens < 0 => ~redis /\ doubled

(***************************************************************************)
(* In the first hour of a client the memory backend admits at most one     *)
(* full window per thread, plus one request of each other thread that saw  *)
(* the last free place: a thread that created the client's bucket while    *)
(* others filled theirs discards one window when it stores its own.        *)
(***************************************************************************)
LimitOvershoot ==
    LET n == Cardinality(Threads) IN
    ~redis /\ clock <= Hour =>
        MapThenSumSet(LAMBDA m : admitted[m], 0 .. MaxTime) <= n * PerHour + (n - 1)
=============================================================================
