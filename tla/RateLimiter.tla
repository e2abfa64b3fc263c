----------------------------- MODULE RateLimiter -----------------------------
(***************************************************************************)
(* middlewares.RateLimiter: a map from client address to rate.Limiter and  *)
(* lastSeen under a mutex, the requests that fetch a limiter and then ask  *)
(* it outside the mutex, and the goroutine that evicts idle entries.       *)
(* Evicting forgets a bucket; TokenBucket says what a client may notice of *)
(* that: nothing.                                                          *)
(***************************************************************************)
EXTENDS Rate, Sequences

CONSTANTS
    Procs,         \* requests being handled concurrently
    Limiters,      \* the rate.Limiter objects that can be allocated
    None,          \* no limiter, no promise
    IdleLimit,     \* ticks without a request before an entry is evicted
    MaxDelay,      \* ticks a request may stay in the middleware
    TicksPerSecond,
    MaxTime        \* bound on the clock

\* A bucket drained by the slowest request fills up (one minute) before its
\* entry is evicted (five minutes): requests may take four minutes.
ASSUME RateAssumption ==
    /\ TicksPerSecond \in Nat \ {0}
    /\ IdleLimit \in Nat /\ MaxDelay \in Nat /\ IdleLimit >= MaxDelay + Capacity
    /\ None \notin Limiters /\ None \notin Nat
    /\ MaxTime \in Nat

VARIABLES
    now,      \* the clock, in ticks
    visitors, \* visitors[ip]: the limiter of ip, None when there is no entry
    lastSeen, \* lastSeen[ip]: when that entry was last fetched
    credits,  \* credits[l]: what limiter l had at stamp[l]
    stamp,
    cleaning, \* the cleanup goroutine runs
    at,       \* at[p]: where request p is in the middleware
    from,     \* from[p]: the address it came from
    held,     \* held[p]: the limiter it fetched
    promise,  \* history: until when the last Retry-After of ip asked to wait
    grants    \* history: when the requests of ip were let through

request == <<at, from, held>>
vars == <<now, visitors, lastSeen, credits, stamp, cleaning, at, from, held, promise, grants>>

\* limiter.Tokens(), in credits: refilled since the last change, up to the burst.
Tokens(l) ==
    LET c == credits[l] + (now - stamp[l]) IN IF c < Capacity THEN c ELSE Capacity

Init ==
    /\ now = 0
    /\ visitors = [ip \in IPs |-> None]
    /\ lastSeen = [ip \in IPs |-> 0]
    /\ credits = [l \in Limiters |-> Capacity]
    /\ stamp = [l \in Limiters |-> 0]
    /\ cleaning = TRUE
    /\ at = [p \in Procs |-> "idle"]
    /\ from = [p \in Procs |-> None]
    /\ held = [p \in Procs |-> None]
    /\ promise = [ip \in IPs |-> None]
    /\ grants = [ip \in IPs |-> <<>>]

-----------------------------------------------------------------------------
Referenced(l) == (\E ip \in IPs : visitors[ip] = l) \/ (\E p \in Procs : held[p] = l)

Fetch(p, ip, l) ==
    /\ at' = [at EXCEPT ![p] = "got"]
    /\ from' = [from EXCEPT ![p] = ip]
    /\ held' = [held EXCEPT ![p] = l]

\* Mutant: fetching an existing entry does not refresh lastSeen.
getLimiterStale(p, ip) ==
    /\ at[p] = "idle"
    /\ \/ /\ visitors[ip] # None
          /\ Fetch(p, ip, visitors[ip])
          /\ UNCHANGED <<visitors, credits, stamp, lastSeen>>
       \/ /\ visitors[ip] = None
          /\ \E l \in Limiters :
                /\ ~Referenced(l)
                /\ visitors' = [visitors EXCEPT ![ip] = l]
                /\ credits' = [credits EXCEPT ![l] = Capacity]
                /\ stamp' = [stamp EXCEPT ![l] = now]
                /\ Fetch(p, ip, l)
          /\ lastSeen' = [lastSeen EXCEPT ![ip] = now]
    /\ UNCHANGED <<now, cleaning, promise, grants>>

\* getLimiter, under the mutex: the entry of ip, or a new one with a full bucket.
getLimiter(p, ip) ==
    /\ at[p] = "idle"
    /\ \/ visitors[ip] # None /\ Fetch(p, ip, visitors[ip]) /\ UNCHANGED <<visitors, credits, stamp>>
       \/ /\ visitors[ip] = None
          /\ \E l \in Limiters :
                /\ ~Referenced(l)
                /\ visitors' = [visitors EXCEPT ![ip] = l]
                /\ credits' = [credits EXCEPT ![l] = Capacity]
                /\ stamp' = [stamp EXCEPT ![l] = now]
                /\ Fetch(p, ip, l)
    /\ lastSeen' = [lastSeen EXCEPT ![ip] = now]
    /\ UNCHANGED <<now, cleaning, promise, grants>>

Finish(p) ==
    /\ at' = [at EXCEPT ![p] = "idle"]
    /\ from' = [from EXCEPT ![p] = None]
    /\ held' = [held EXCEPT ![p] = None]

\* Mutant: a token is reserved, whether or not there is one.
AllowReserved(p) ==
    LET l == held[p] ip == from[p] IN
    /\ at[p] = "got"
    /\ credits' = [credits EXCEPT ![l] = Tokens(l) - Cost]
    /\ stamp' = [stamp EXCEPT ![l] = now]
    /\ grants' = [grants EXCEPT ![ip] = Append(@, now)]
    /\ promise' = [promise EXCEPT ![ip] = None]
    /\ Finish(p)
    /\ UNCHANGED <<now, visitors, lastSeen, cleaning>>

\* limiter.Allow(), outside the mutex: takes a token, or leaves the bucket alone.
Allow(p) ==
    LET l == held[p] ip == from[p] IN
    /\ at[p] = "got"
    /\ \/ /\ Tokens(l) >= Cost
          /\ credits' = [credits EXCEPT ![l] = Tokens(l) - Cost]
          /\ stamp' = [stamp EXCEPT ![l] = now]
          /\ grants' = [grants EXCEPT ![ip] = Append(@, now)]
          /\ promise' = [promise EXCEPT ![ip] = None]
          /\ Finish(p)
       \/ /\ Tokens(l) < Cost
          /\ at' = [at EXCEPT ![p] = "denied"]
          /\ UNCHANGED <<credits, stamp, grants, promise, from, held>>
    /\ UNCHANGED <<now, visitors, lastSeen, cleaning>>

\* Mutant: the wait is rounded down.
retryAfterFloor(l) ==
    IF Tokens(l) >= Cost THEN 0 ELSE (Cost - Tokens(l)) \div TicksPerSecond

\* Whole seconds until a token has flowed in, rounded up.
retryAfterSeconds(l) ==
    IF Tokens(l) >= Cost THEN 0
    ELSE (Cost - Tokens(l) + TicksPerSecond - 1) \div TicksPerSecond

\* The 429 response; the bucket is read again for its Retry-After.
Reject(p) ==
    /\ at[p] = "denied"
    /\ promise' = [promise EXCEPT ![from[p]] = now + retryAfterSeconds(held[p]) * TicksPerSecond]
    /\ Finish(p)
    /\ UNCHANGED <<now, visitors, lastSeen, credits, stamp, cleaning, grants>>

\* One pass of the cleanup goroutine, under the mutex.
cleanup ==
    /\ cleaning
    /\ \E ip \in IPs : visitors[ip] # None /\ now - lastSeen[ip] > IdleLimit
    /\ visitors' = [ip \in IPs |-> IF now - lastSeen[ip] > IdleLimit THEN None ELSE visitors[ip]]
    /\ UNCHANGED <<now, lastSeen, credits, stamp, cleaning, request, promise, grants>>

Stop ==
    /\ cleaning
    /\ cleaning' = FALSE
    /\ UNCHANGED <<now, visitors, lastSeen, credits, stamp, request, promise, grants>>

\* Time passes; no request stays in the middleware longer than MaxDelay.
Tick ==
    /\ now < MaxTime
    /\ \A p \in Procs : at[p] # "idle" => now < lastSeen[from[p]] + MaxDelay
    /\ now' = now + 1
    /\ UNCHANGED <<visitors, lastSeen, credits, stamp, cleaning, request, promise, grants>>

Next ==
    \/ \E p \in Procs, ip \in IPs : getLimiter(p, ip)
    \/ \E p \in Procs : Allow(p)
    \/ \E p \in Procs : Reject(p)
    \/ cleanup
    \/ Stop
    \/ Tick

Spec == Init /\ [][Next]_vars

-----------------------------------------------------------------------------
(* Properties.                                                             *)

\* What the bucket of ip holds; a client without an entry has a full one.
Level(ip) == IF visitors[ip] = None THEN Capacity ELSE Tokens(visitors[ip])

\* Every variable has its shape; a bucket is never overdrawn nor overfull.
TypeOK ==
    /\ now \in 0..MaxTime
    /\ visitors \in [IPs -> Limiters \cup {None}]
    /\ lastSeen \in [IPs -> 0..MaxTime]
    /\ credits \in [Limiters -> 0..Capacity] /\ stamp \in [Limiters -> 0..MaxTime]
    /\ cleaning \in BOOLEAN
    /\ at \in [Procs -> {"idle", "got", "denied"}]
    /\ from \in [Procs -> IPs \cup {None}] /\ held \in [Procs -> Limiters \cup {None}]
    /\ promise \in [IPs -> Nat \cup {None}] /\ grants \in [IPs -> Seq(Nat)]

Bucket == INSTANCE TokenBucket WITH level <- [ip \in IPs |-> Level(ip)]

\* However requests, the cleanup goroutine and Stop interleave, a client sees
\* one token bucket: evicting its entry never gives it tokens.
ImplementsBucket == Bucket!BucketSpec

\* A client that waits as long as the Retry-After of its 429 asks, and has no
\* other request let through meanwhile, finds a token.
RetryAfterSuffices ==
    \A ip \in IPs : promise[ip] # None /\ now >= promise[ip] => Level(ip) >= Cost

=============================================================================
