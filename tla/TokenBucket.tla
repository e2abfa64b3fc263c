----------------------------- MODULE TokenBucket -----------------------------
(***************************************************************************)
(* What the rate limiter promises every client: one bucket of Burst        *)
(* tokens, refilled at a constant rate, a token for each request that is   *)
(* let through.                                                            *)
(***************************************************************************)
EXTENDS Rate, Sequences

VARIABLES
    now,   \* the clock, in ticks
    level, \* level[ip]: the credits in the bucket of ip
    grants \* history: when the requests of ip were let through

bucketVars == <<now, level, grants>>

BucketInit ==
    /\ now = 0
    /\ level = [ip \in IPs |-> Capacity]
    /\ grants = [ip \in IPs |-> <<>>]

Grant(ip) ==
    /\ level[ip] >= Cost
    /\ level' = [level EXCEPT ![ip] = @ - Cost]
    /\ grants' = [grants EXCEPT ![ip] = Append(@, now)]
    /\ UNCHANGED now

BucketTick ==
    /\ now' = now + 1
    /\ level' = [ip \in IPs |-> IF level[ip] < Capacity THEN level[ip] + 1 ELSE Capacity]
    /\ UNCHANGED grants

BucketNext == BucketTick \/ \E ip \in IPs : Grant(ip)

BucketSpec == BucketInit /\ [][BucketNext]_bucketVars

\* In any window a client gets at most a full bucket and what flows in
\* meanwhile: the k requests from the i-th to the j-th that were let through
\* cost no more than Capacity and the ticks between them.
WindowBounded ==
    \A ip \in IPs : \A i, j \in 1..Len(grants[ip]) :
        i <= j => Cost * (j - i + 1) <= Capacity + grants[ip][j] - grants[ip][i]

\* The same, with the bucket itself in the account: what is left in it, and the
\* requests let through since the i-th, are paid for by a full bucket and the
\* ticks since then.
Paid ==
    \A ip \in IPs : \A i \in 1..Len(grants[ip]) :
        level[ip] + Cost * (Len(grants[ip]) - i + 1) <= Capacity + now - grants[ip][i]

=============================================================================
