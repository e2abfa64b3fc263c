-------------------------- MODULE RateLimiterProofs --------------------------
(***************************************************************************)
(* RateLimiter implements TokenBucket, and a token bucket bounds what its  *)
(* client gets in every window: for any clients, requests, burst, rate and *)
(* idle limit that RateAssumption allows.                                  *)
(***************************************************************************)
EXTENDS RateLimiter, TLAPS

\* A request in the middleware holds the limiter of its client, and has not been
\* there for longer than MaxDelay.
Fetched ==
    \A p \in Procs : at[p] # "idle" =>
        /\ from[p] \in IPs
        /\ held[p] \in Limiters
        /\ visitors[from[p]] = held[p]
        /\ now <= lastSeen[from[p]] + MaxDelay

\* Two clients never share a limiter.
Unshared ==
    \A ip, jp \in IPs : visitors[ip] = visitors[jp] /\ visitors[ip] # None => ip = jp

\* No bucket was drained after the slowest request that may have fetched it.
Clock ==
    /\ \A l \in Limiters : stamp[l] <= now
    /\ \A ip \in IPs :
          /\ lastSeen[ip] <= now
          /\ visitors[ip] # None => stamp[visitors[ip]] <= lastSeen[ip] + MaxDelay

\* What is missing to a token flows in before the promise ends.
Promised ==
    \A ip \in IPs :
        promise[ip] # None => Level(ip) >= Cost \/ Cost - Level(ip) <= promise[ip] - now

IInv ==
    /\ TypeOK
    /\ Fetched
    /\ Unshared
    /\ Clock
    /\ Promised

-----------------------------------------------------------------------------
(* Credits and levels.                                                     *)

\* A full bucket is a whole number of credits, and holds a token.
LEMMA CapacityType == Capacity \in Nat /\ Cost \in Nat \ {0} /\ Cost <= Capacity
<1>1. /\ Burst \in Nat /\ Burst >= 1
      /\ Cost \in Nat \ {0}
  BY BucketAssumption
<1>2. Burst * Cost \in Nat
  BY <1>1
<1>3. 1 * Cost <= Burst * Cost
  BY <1>1
<1> QED
  BY <1>1, <1>2, <1>3 DEF Capacity

\* Tokens reads between nothing and a full bucket.
LEMMA TokensType ==
  ASSUME TypeOK, Clock, NEW l \in Limiters
  PROVE  /\ Tokens(l) \in 0..Capacity
         /\ credits[l] + (now - stamp[l]) <= Capacity => Tokens(l) = credits[l] + (now - stamp[l])
         /\ credits[l] + (now - stamp[l]) >= Capacity => Tokens(l) = Capacity
<1>1. now \in Nat /\ stamp[l] \in Nat /\ stamp[l] <= now /\ credits[l] \in 0..Capacity
  BY RateAssumption, CapacityType DEF TypeOK, Clock
<1> QED
  BY <1>1, CapacityType DEF Tokens

LEMMA LevelType ==
  ASSUME TypeOK, Clock, NEW ip \in IPs
  PROVE  Level(ip) \in 0..Capacity
<1>1. visitors[ip] # None => visitors[ip] \in Limiters
  BY DEF TypeOK
<1> QED
  BY <1>1, TokensType, CapacityType DEF Level

\* Rounding up to whole seconds never shortens a wait.
LEMMA RoundingUp ==
  ASSUME NEW a \in Nat, NEW d \in Nat \ {0}
  PROVE  /\ (a + d - 1) \div d \in Nat
         /\ ((a + d - 1) \div d) * d \in Nat
         /\ ((a + d - 1) \div d) * d >= a
<1> DEFINE q == (a + d - 1) \div d
<1>1. q \in Int /\ d * q <= a + d - 1 /\ a + d - 1 < d * q + d
  OBVIOUS
<1>2. q >= 0
  OBVIOUS
<1> HIDE DEF q
<1>3. d * q = q * d /\ q * d \in Int
  BY <1>1
<1>4. q * d >= 0
  BY <1>1, <1>2
<1>5. q \in Nat /\ q * d \in Nat /\ q * d >= a
  BY <1>1, <1>2, <1>3, <1>4
<1> QED
  BY <1>5 DEF q

\* Retry-After asks for no less than what is missing to a token.
LEMMA RetryAfterCovers ==
  ASSUME TypeOK, Clock, NEW l \in Limiters
  PROVE  /\ retryAfterSeconds(l) * TicksPerSecond \in Nat
         /\ Tokens(l) < Cost => Cost - Tokens(l) <= retryAfterSeconds(l) * TicksPerSecond
<1>1. Tokens(l) \in Nat /\ TicksPerSecond \in Nat \ {0}
  BY TokensType, CapacityType, RateAssumption
<1>2. CASE Tokens(l) >= Cost
  BY <1>1, <1>2, CapacityType DEF retryAfterSeconds
<1>3. CASE Tokens(l) < Cost
  <2>1. Cost - Tokens(l) \in Nat
    BY <1>1, <1>3, CapacityType
  <2>2. retryAfterSeconds(l) = ((Cost - Tokens(l)) + TicksPerSecond - 1) \div TicksPerSecond
    BY <1>1, <1>3, CapacityType DEF retryAfterSeconds
  <2> QED
    BY <1>1, <2>1, <2>2, RoundingUp
<1> QED
  BY <1>1, <1>2, <1>3, CapacityType

-----------------------------------------------------------------------------
(* What each step does to the levels, and that it preserves the invariant. *)

SameLevels == \A ip \in IPs : Level(ip)' = Level(ip)

\* Where clock and levels stand still and no promise is made, promises hold on.
LEMMA PromisedFrame ==
  ASSUME Promised, SameLevels, UNCHANGED now,
         \A ip \in IPs : promise'[ip] \in {promise[ip], None}
  PROVE  Promised'
  BY DEF Promised, SameLevels

LEMMA InitIInv == Init => IInv
<1> SUFFICES ASSUME Init PROVE IInv
  OBVIOUS
<1>1. TypeOK
  <2>1. 0 \in 0..MaxTime /\ Capacity \in 0..Capacity
    BY CapacityType, RateAssumption
  <2>2. grants \in [IPs -> Seq(Nat)]
    BY DEF Init
  <2> QED
    BY <2>1, <2>2 DEF Init, TypeOK
<1>2. Fetched /\ Unshared /\ Promised
  BY DEF Init, Fetched, Unshared, Promised
<1>3. Clock
  BY DEF Init, Clock
<1> QED
  BY <1>1, <1>2, <1>3 DEF IInv

\* getLimiter of a client that has an entry: nothing but lastSeen changes.
LEMMA KnownClient ==
  ASSUME NEW p \in Procs, NEW ip \in IPs, IInv, at[p] = "idle", visitors[ip] # None,
         Fetch(p, ip, visitors[ip]), lastSeen' = [lastSeen EXCEPT ![ip] = now],
         UNCHANGED <<visitors, credits, stamp, now, cleaning, promise, grants>>
  PROVE  IInv' /\ SameLevels
<1> USE DEF IInv
<1>1. visitors[ip] \in Limiters /\ now \in Nat /\ now \in 0..MaxTime
  BY RateAssumption DEF TypeOK
<1>2. TypeOK'
  BY <1>1 DEF TypeOK, Fetch
<1>3. SameLevels
  BY DEF SameLevels, Level, Tokens
<1>4. \A jp \in IPs : lastSeen[jp] \in Nat /\ lastSeen'[jp] = IF jp = ip THEN now ELSE lastSeen[jp]
  BY RateAssumption DEF TypeOK
<1>5. /\ at'[p] = "got" /\ from'[p] = ip /\ held'[p] = visitors[ip]
      /\ \A q \in Procs \ {p} : at'[q] = at[q] /\ from'[q] = from[q] /\ held'[q] = held[q]
  BY DEF TypeOK, Fetch
<1>6. Fetched'
  <2>1. ASSUME NEW q \in Procs, at'[q] # "idle", q # p
        PROVE  now <= lastSeen'[from[q]] + MaxDelay /\ from[q] \in IPs
    BY <1>1, <1>4, <1>5, <2>1, RateAssumption DEF Fetched, Clock
  <2> QED
    BY <1>1, <1>4, <1>5, <2>1, RateAssumption DEF Fetched
<1>7. Unshared'
  BY DEF Unshared
<1>8. Clock'
  <2>1. ASSUME NEW jp \in IPs, visitors[jp] # None
        PROVE  stamp[visitors[jp]] <= lastSeen'[jp] + MaxDelay
    <3>1. visitors[jp] \in Limiters
      BY <2>1 DEF TypeOK
    <3>2. stamp[visitors[jp]] \in Nat /\ stamp[visitors[jp]] <= now
      BY <3>1, RateAssumption DEF TypeOK, Clock
    <3> QED
      BY <1>1, <1>4, <2>1, <3>2, RateAssumption DEF Clock
  <2> QED
    BY <1>1, <1>4, <2>1 DEF Clock
<1>9. Promised'
  BY <1>3, PromisedFrame
<1> QED
  BY <1>2, <1>3, <1>6, <1>7, <1>8, <1>9

\* getLimiter of a new client: the fresh bucket is full, as if it had been there,
\* and no other client's.
LEMMA NewClient ==
  ASSUME NEW p \in Procs, NEW ip \in IPs, NEW l \in Limiters, IInv,
         at[p] = "idle", visitors[ip] = None, ~Referenced(l),
         visitors' = [visitors EXCEPT ![ip] = l], credits' = [credits EXCEPT ![l] = Capacity],
         stamp' = [stamp EXCEPT ![l] = now], Fetch(p, ip, l),
         lastSeen' = [lastSeen EXCEPT ![ip] = now], UNCHANGED <<now, cleaning, promise, grants>>
  PROVE  IInv' /\ SameLevels
<1> USE DEF IInv
<1>1. now \in Nat /\ now \in 0..MaxTime /\ Capacity \in 0..Capacity
  BY RateAssumption, CapacityType DEF TypeOK
<1>2. TypeOK'
  BY <1>1 DEF TypeOK, Fetch
<1>3. /\ \A jp \in IPs : visitors[jp] # l
      /\ \A q \in Procs : held[q] # l
  BY DEF Referenced
<1>4. /\ \A jp \in IPs : lastSeen[jp] \in Nat /\ lastSeen'[jp] = IF jp = ip THEN now ELSE lastSeen[jp]
      /\ \A jp \in IPs : visitors'[jp] = IF jp = ip THEN l ELSE visitors[jp]
      /\ \A m \in Limiters : /\ stamp'[m] = IF m = l THEN now ELSE stamp[m]
                             /\ credits'[m] = IF m = l THEN Capacity ELSE credits[m]
  BY RateAssumption DEF TypeOK
<1>5. /\ at'[p] = "got" /\ from'[p] = ip /\ held'[p] = l
      /\ \A q \in Procs \ {p} : at'[q] = at[q] /\ from'[q] = from[q] /\ held'[q] = held[q]
  BY DEF TypeOK, Fetch
<1>6. SameLevels
  <2>1. Level(ip)' = Level(ip)
    BY <1>1, <1>4, RateAssumption, CapacityType DEF Level, Tokens
  <2>2. ASSUME NEW jp \in IPs \ {ip} PROVE Level(jp)' = Level(jp)
    <3>1. visitors[jp] # None => visitors[jp] \in Limiters \ {l}
      BY <1>3 DEF TypeOK
    <3> QED
      BY <1>4, <3>1 DEF Level, Tokens
  <2> QED
    BY <2>1, <2>2 DEF SameLevels
<1>7. Fetched'
  <2>1. ASSUME NEW q \in Procs, at'[q] # "idle", q # p
        PROVE  /\ from[q] \in IPs \ {ip} /\ held[q] \in Limiters
               /\ now <= lastSeen'[from[q]] + MaxDelay
               /\ visitors'[from[q]] = held[q]
    <3>1. from[q] \in IPs \ {ip} /\ held[q] \in Limiters /\ visitors[from[q]] = held[q]
      BY <1>5, <2>1, RateAssumption DEF Fetched
    <3> QED
      BY <1>4, <1>5, <2>1, <3>1 DEF Fetched
  <2> QED
    BY <1>1, <1>4, <1>5, <2>1, RateAssumption DEF Fetched
<1>8. Unshared'
  BY <1>3, <1>4 DEF Unshared
<1>9. Clock'
  <2>1. \A m \in Limiters : stamp'[m] <= now
    BY <1>1, <1>4 DEF Clock
  <2>2. \A jp \in IPs : lastSeen'[jp] <= now
    BY <1>1, <1>4 DEF Clock
  <2>3. ASSUME NEW jp \in IPs, visitors'[jp] # None
        PROVE  stamp'[visitors'[jp]] <= lastSeen'[jp] + MaxDelay
    <3>1. CASE jp = ip
      BY <1>1, <1>4, <3>1, RateAssumption
    <3>2. CASE jp # ip
      <4>1. visitors'[jp] = visitors[jp] /\ visitors[jp] \in Limiters \ {l}
        BY <1>3, <1>4, <2>3, <3>2 DEF TypeOK
      <4> QED
        BY <1>4, <2>3, <3>2, <4>1 DEF Clock
    <3> QED
      BY <3>1, <3>2
  <2> QED
    BY <2>1, <2>2, <2>3 DEF Clock
<1>10. Promised'
  BY <1>6, PromisedFrame
<1> QED
  BY <1>2, <1>6, <1>7, <1>8, <1>9, <1>10

LEMMA GetLimiterStep ==
  ASSUME NEW p \in Procs, NEW ip \in IPs, IInv, getLimiter(p, ip)
  PROVE  IInv' /\ SameLevels /\ UNCHANGED <<now, grants>>
  BY KnownClient, NewClient DEF getLimiter

\* Finish: the request holds nothing any more, and the others keep what they hold.
LEMMA FinishKeeps ==
  ASSUME TypeOK, NEW p \in Procs, Finish(p)
  PROVE  /\ at' \in [Procs -> {"idle", "got", "denied"}]
         /\ from' \in [Procs -> IPs \cup {None}] /\ held' \in [Procs -> Limiters \cup {None}]
         /\ at'[p] = "idle"
         /\ \A q \in Procs \ {p} : at'[q] = at[q] /\ from'[q] = from[q] /\ held'[q] = held[q]
  BY DEF TypeOK, Finish

\* Allow with a token left: the bucket of the client, and of no other, is drained
\* by one token.
LEMMA AllowGranted ==
  ASSUME NEW p \in Procs, NEW l \in Limiters, NEW ip \in IPs, IInv, l = held[p], ip = from[p],
         at[p] # "idle", Tokens(l) >= Cost,
         credits' = [credits EXCEPT ![l] = Tokens(l) - Cost],
         stamp' = [stamp EXCEPT ![l] = now], grants' = [grants EXCEPT ![ip] = Append(@, now)],
         promise' = [promise EXCEPT ![ip] = None], Finish(p),
         UNCHANGED <<now, visitors, lastSeen, cleaning>>
  PROVE  /\ IInv'
         /\ Level(ip) >= Cost
         /\ \A jp \in IPs : Level(jp)' = IF jp = ip THEN Level(jp) - Cost ELSE Level(jp)
<1> USE DEF IInv
<1>0. visitors[ip] = l /\ l # None /\ now <= lastSeen[ip] + MaxDelay
  BY RateAssumption DEF Fetched
<1>1. /\ Tokens(l) \in 0..Capacity /\ now \in Nat /\ now \in 0..MaxTime
      /\ Tokens(l) - Cost \in 0..Capacity
  <2>1. Tokens(l) \in 0..Capacity
    BY TokensType
  <2>2. now \in Nat /\ now \in 0..MaxTime
    BY RateAssumption DEF TypeOK
  <2> QED
    BY <2>1, <2>2, CapacityType
<1>3. TypeOK'
  <2>1. credits' \in [Limiters -> 0..Capacity] /\ stamp' \in [Limiters -> 0..MaxTime]
    BY <1>1 DEF TypeOK
  <2>2. promise' \in [IPs -> Nat \cup {None}] /\ grants' \in [IPs -> Seq(Nat)]
    BY <1>1 DEF TypeOK
  <2> QED
    BY <2>1, <2>2, FinishKeeps DEF TypeOK
<1>4. /\ \A m \in Limiters : /\ stamp'[m] = IF m = l THEN now ELSE stamp[m]
                             /\ credits'[m] = IF m = l THEN Tokens(l) - Cost ELSE credits[m]
      /\ \A jp \in IPs : promise'[jp] = IF jp = ip THEN None ELSE promise[jp]
  BY DEF TypeOK
<1>5. Level(ip) = Tokens(l) /\ Level(ip)' = Tokens(l) - Cost
  <2>1. Tokens(l)' = IF Tokens(l) - Cost + (now - now) < Capacity
                     THEN Tokens(l) - Cost + (now - now) ELSE Capacity
    BY <1>4 DEF Tokens
  <2>2. Tokens(l)' = Tokens(l) - Cost
    BY <1>1, <2>1, CapacityType
  <2> QED
    BY <1>0, <2>2 DEF Level
<1>6. ASSUME NEW jp \in IPs, jp # ip PROVE Level(jp)' = Level(jp)
  <2>1. visitors[jp] # None => visitors[jp] \in Limiters \ {l}
    BY <1>0, <1>6 DEF TypeOK, Unshared
  <2> QED
    BY <1>4, <2>1 DEF Level, Tokens
<1>7. Fetched'
  BY FinishKeeps DEF Fetched
<1>8. Unshared'
  BY DEF Unshared
<1>9. Clock'
  <2>1. \A m \in Limiters : stamp'[m] <= now
    BY <1>1, <1>4 DEF Clock
  <2>2. ASSUME NEW jp \in IPs, visitors[jp] # None
        PROVE  stamp'[visitors[jp]] <= lastSeen[jp] + MaxDelay
    <3>1. CASE jp = ip
      BY <1>0, <1>4, <3>1
    <3>2. CASE jp # ip
      <4>1. visitors[jp] \in Limiters \ {l}
        BY <1>0, <2>2, <3>2 DEF TypeOK, Unshared
      <4> QED
        BY <1>4, <2>2, <4>1 DEF Clock
    <3> QED
      BY <3>1, <3>2
  <2> QED
    BY <2>1, <2>2 DEF Clock
<1>10. Promised'
  BY <1>4, <1>6 DEF Promised
<1> QED
  BY <1>3, <1>5, <1>6, <1>7, <1>8, <1>9, <1>10

\* Allow without a token left: the bucket is not touched.
LEMMA AllowDenied ==
  ASSUME NEW p \in Procs, IInv, at[p] # "idle", at' = [at EXCEPT ![p] = "denied"],
         UNCHANGED <<now, visitors, lastSeen, credits, stamp, cleaning, from, held, promise, grants>>
  PROVE  IInv' /\ SameLevels
<1> USE DEF IInv
<1>1. TypeOK'
  BY DEF TypeOK
<1>2. SameLevels
  BY DEF SameLevels, Level, Tokens
<1>3. Fetched'
  BY DEF Fetched, TypeOK
<1>4. Unshared' /\ Clock'
  BY DEF Unshared, Clock
<1>5. Promised'
  BY <1>2, PromisedFrame
<1> QED
  BY <1>1, <1>2, <1>3, <1>4, <1>5

LEMMA AllowStep ==
  ASSUME NEW p \in Procs, IInv, Allow(p)
  PROVE  /\ IInv'
         /\ UNCHANGED now
         /\ \/ SameLevels /\ UNCHANGED grants
            \/ \E ip \in IPs :
                  /\ Level(ip) >= Cost
                  /\ \A jp \in IPs : Level(jp)' = IF jp = ip THEN Level(jp) - Cost ELSE Level(jp)
                  /\ grants' = [grants EXCEPT ![ip] = Append(@, now)]
<1>1. PICK l \in Limiters, ip \in IPs : l = held[p] /\ ip = from[p] /\ at[p] # "idle"
  BY DEF IInv, Fetched, Allow
<1>2. CASE /\ Tokens(l) >= Cost
           /\ credits' = [credits EXCEPT ![l] = Tokens(l) - Cost]
           /\ stamp' = [stamp EXCEPT ![l] = now]
           /\ grants' = [grants EXCEPT ![ip] = Append(@, now)]
           /\ promise' = [promise EXCEPT ![ip] = None]
           /\ Finish(p)
           /\ UNCHANGED <<now, visitors, lastSeen, cleaning>>
  BY <1>1, <1>2, AllowGranted
<1>3. CASE /\ at' = [at EXCEPT ![p] = "denied"]
           /\ UNCHANGED <<now, visitors, lastSeen, credits, stamp, cleaning, from, held, promise,
                          grants>>
  BY <1>1, <1>3, AllowDenied
<1> QED
  BY <1>1, <1>2, <1>3 DEF Allow

\* Reject: the promise made is kept by what flows in.
LEMMA RejectStep ==
  ASSUME NEW p \in Procs, IInv, Reject(p)
  PROVE  IInv' /\ SameLevels /\ UNCHANGED <<now, grants>>
<1> USE DEF IInv
<1>1. PICK l \in Limiters, ip \in IPs :
         l = held[p] /\ ip = from[p] /\ visitors[ip] = l /\ l # None
  BY RateAssumption DEF Fetched, Reject
<1>2. /\ promise' = [promise EXCEPT ![ip] = now + retryAfterSeconds(l) * TicksPerSecond]
      /\ Finish(p)
      /\ UNCHANGED <<now, visitors, lastSeen, credits, stamp, cleaning, grants>>
  BY <1>1 DEF Reject
<1>3. /\ now \in Nat /\ retryAfterSeconds(l) * TicksPerSecond \in Nat
      /\ Tokens(l) < Cost => Cost - Tokens(l) <= retryAfterSeconds(l) * TicksPerSecond
      /\ Level(ip) = Tokens(l) /\ Tokens(l) \in Nat
  <2>1. now \in Nat
    BY RateAssumption DEF TypeOK
  <2>2. Tokens(l) \in Nat
    BY TokensType, CapacityType
  <2>3. Level(ip) = Tokens(l)
    BY <1>1 DEF Level
  <2> QED
    BY <2>1, <2>2, <2>3, RetryAfterCovers
<1>4. now + retryAfterSeconds(l) * TicksPerSecond \in Nat
  BY <1>3
<1>5. TypeOK'
  <2>1. promise' \in [IPs -> Nat \cup {None}]
    BY <1>2, <1>4 DEF TypeOK
  <2> QED
    BY <1>2, <2>1, FinishKeeps DEF TypeOK
<1>6. SameLevels
  BY <1>2 DEF SameLevels, Level, Tokens
<1>7. Fetched'
  BY <1>2, FinishKeeps DEF Fetched
<1>8. Unshared' /\ Clock'
  BY <1>2 DEF Unshared, Clock
<1>9. Promised'
  <2>1. promise'[ip] = now + retryAfterSeconds(l) * TicksPerSecond
    BY <1>2 DEF TypeOK
  <2>2. Level(ip) >= Cost \/ Cost - Level(ip) <= promise'[ip] - now
    <3> DEFINE wait == retryAfterSeconds(l) * TicksPerSecond
    <3>1. wait \in Nat /\ promise'[ip] = now + wait
            /\ (Tokens(l) < Cost => Cost - Tokens(l) <= wait)
      BY <1>3, <2>1
    <3> HIDE DEF wait
    <3> QED
      BY <1>3, <3>1, CapacityType
  <2>3. \A jp \in IPs : jp # ip => promise'[jp] = promise[jp]
    BY <1>2 DEF TypeOK
  <2>4. \A jp \in IPs : Level(jp)' = Level(jp)
    BY <1>6 DEF SameLevels
  <2> QED
    BY <1>2, <2>2, <2>3, <2>4 DEF Promised
<1> QED
  BY <1>2, <1>5, <1>6, <1>7, <1>8, <1>9

\* cleanup: whoever is evicted has a full bucket by then, and no request holds it.
LEMMA CleanupStep ==
  ASSUME IInv, cleanup
  PROVE  IInv' /\ SameLevels /\ UNCHANGED <<now, grants>>
<1> USE DEF IInv
<1>0. /\ visitors' = [ip \in IPs |-> IF now - lastSeen[ip] > IdleLimit THEN None ELSE visitors[ip]]
      /\ UNCHANGED <<now, lastSeen, credits, stamp, cleaning, at, from, held, promise, grants>>
  BY DEF cleanup, request
<1>1. now \in Nat /\ \A ip \in IPs : lastSeen[ip] \in Nat
  BY RateAssumption DEF TypeOK
<1>2. TypeOK'
  BY <1>0 DEF TypeOK
<1>3. SameLevels
  <2> SUFFICES ASSUME NEW ip \in IPs PROVE Level(ip)' = Level(ip)
    BY DEF SameLevels
  <2>1. CASE visitors'[ip] = visitors[ip]
    BY <1>0, <2>1 DEF Level, Tokens
  <2>2. CASE now - lastSeen[ip] > IdleLimit /\ visitors[ip] # None
    <3>1. PICK l \in Limiters : visitors[ip] = l
      BY <2>2 DEF TypeOK
    <3>2. stamp[l] \in Nat /\ credits[l] \in Nat /\ stamp[l] <= lastSeen[ip] + MaxDelay
      BY <2>2, <3>1, RateAssumption, CapacityType DEF TypeOK, Clock
    <3>3. credits[l] + (now - stamp[l]) >= Capacity
      BY <1>1, <2>2, <3>2, RateAssumption, CapacityType
    <3>4. Tokens(l) = Capacity
      BY <3>3, TokensType
    <3> QED
      BY <1>0, <2>2, <3>1, <3>4 DEF Level
  <2> QED
    BY <1>0, <2>1, <2>2
<1>4. Fetched'
  <2> SUFFICES ASSUME NEW p \in Procs, at[p] # "idle"
               PROVE  visitors'[from[p]] = visitors[from[p]]
    BY <1>0 DEF Fetched
  <2>1. from[p] \in IPs /\ now <= lastSeen[from[p]] + MaxDelay
    BY DEF Fetched
  <2>2. ~(now - lastSeen[from[p]] > IdleLimit)
    BY <1>1, <2>1, RateAssumption, CapacityType
  <2> QED
    BY <1>0, <2>1, <2>2
<1>5. Unshared'
  BY <1>0 DEF Unshared
<1>6. Clock'
  BY <1>0 DEF Clock
<1>7. Promised'
  BY <1>0, <1>3, PromisedFrame
<1> QED
  BY <1>0, <1>2, <1>3, <1>4, <1>5, <1>6, <1>7

\* Stop, or no step at all.
LEMMA IdleStep ==
  ASSUME IInv, cleaning' = cleaning \/ cleaning' = FALSE,
         UNCHANGED <<now, visitors, lastSeen, credits, stamp, at, from, held, promise, grants>>
  PROVE  IInv' /\ SameLevels
<1> USE DEF IInv
<1>1. TypeOK'
  BY DEF TypeOK
<1>2. SameLevels
  BY DEF SameLevels, Level, Tokens
<1>3. Fetched' /\ Unshared' /\ Clock'
  BY DEF Fetched, Unshared, Clock
<1>4. Promised'
  BY <1>2, PromisedFrame
<1> QED
  BY <1>1, <1>2, <1>3, <1>4

\* Tick: a credit flows into every bucket that is not full.
LEMMA TickStep ==
  ASSUME IInv, Tick
  PROVE  /\ IInv'
         /\ now' = now + 1 /\ UNCHANGED grants
         /\ \A ip \in IPs : Level(ip)' = IF Level(ip) < Capacity THEN Level(ip) + 1 ELSE Capacity
<1> USE DEF IInv
<1>0. /\ now' = now + 1 /\ now < MaxTime
      /\ \A p \in Procs : at[p] # "idle" => now < lastSeen[from[p]] + MaxDelay
      /\ UNCHANGED <<visitors, lastSeen, credits, stamp, cleaning, at, from, held, promise, grants>>
  BY DEF Tick, request
<1>1. /\ now \in Nat /\ now' \in 0..MaxTime
      /\ \A ip \in IPs : lastSeen[ip] \in Nat
      /\ \A l \in Limiters : stamp[l] \in Nat
  BY <1>0, RateAssumption DEF TypeOK
<1>2. TypeOK'
  BY <1>0, <1>1 DEF TypeOK
<1>3. ASSUME NEW ip \in IPs
      PROVE  Level(ip)' = IF Level(ip) < Capacity THEN Level(ip) + 1 ELSE Capacity
  <2>1. CASE visitors[ip] = None
    BY <1>0, <2>1, CapacityType DEF Level
  <2>2. CASE visitors[ip] # None
    <3>1. PICK l \in Limiters : visitors[ip] = l
      BY <2>2 DEF TypeOK
    <3>2. stamp[l] \in Nat /\ credits[l] \in Nat
      BY <1>1, CapacityType DEF TypeOK
    <3>3. Level(ip) = Tokens(l) /\ Level(ip)' = Tokens(l)'
      BY <1>0, <2>2, <3>1 DEF Level
    <3>4. Tokens(l)' = IF Tokens(l) < Capacity THEN Tokens(l) + 1 ELSE Capacity
      BY <1>0, <1>1, <3>2, CapacityType DEF Tokens
    <3> QED
      BY <3>3, <3>4
  <2> QED
    BY <2>1, <2>2
<1>4. Fetched'
  <2>1. ASSUME NEW p \in Procs, at[p] # "idle" PROVE now + 1 <= lastSeen[from[p]] + MaxDelay
    <3>1. from[p] \in IPs
      BY <2>1 DEF Fetched
    <3> QED
      BY <1>0, <1>1, <2>1, <3>1, RateAssumption
  <2> QED
    BY <1>0, <2>1 DEF Fetched
<1>5. Unshared'
  BY <1>0 DEF Unshared
<1>6. Clock'
  BY <1>0, <1>1 DEF Clock
<1>7. Promised'
  <2> SUFFICES ASSUME NEW ip \in IPs, promise[ip] # None
               PROVE  Level(ip)' >= Cost \/ Cost - Level(ip)' <= promise[ip] - (now + 1)
    BY <1>0 DEF Promised
  <2>1. promise[ip] \in Nat
    BY DEF TypeOK
  <2>2. Level(ip) \in 0..Capacity
    BY LevelType
  <2>3. Level(ip) >= Cost \/ Cost - Level(ip) <= promise[ip] - now
    BY DEF Promised
  <2> QED
    BY <1>1, <1>3, <2>1, <2>2, <2>3, CapacityType
<1> QED
  BY <1>0, <1>2, <1>3, <1>4, <1>5, <1>6, <1>7

LEMMA NextIInv == IInv /\ [Next]_vars => IInv'
<1> SUFFICES ASSUME IInv, [Next]_vars PROVE IInv'
  OBVIOUS
<1>1. CASE Stop
  BY <1>1, IdleStep DEF Stop, request
<1>2. CASE UNCHANGED vars
  BY <1>2, IdleStep DEF vars
<1> QED
  BY <1>1, <1>2, GetLimiterStep, AllowStep, RejectStep, CleanupStep, TickStep DEF Next

-----------------------------------------------------------------------------
(* The account of one client of a token bucket: level l and grants g, at   *)
(* time n.                                                                 *)

\* What is left in the bucket and the requests let through since the i-th are
\* paid for by a full bucket and the ticks since then.
PaidFor(l, g, n) ==
    \A i \in 1..Len(g) : l + Cost * (Len(g) - i + 1) <= Capacity + n - g[i]

Bounded(g) ==
    \A i, j \in 1..Len(g) : i <= j => Cost * (j - i + 1) <= Capacity + g[j] - g[i]

Account(l, g, n) ==
    /\ l \in 0..Capacity /\ g \in Seq(Nat) /\ n \in Nat
    /\ PaidFor(l, g, n)
    /\ Bounded(g)

\* A client without grants owes nothing.
LEMMA NewAccount == Account(Capacity, <<>>, 0)
  BY CapacityType DEF Account, PaidFor, Bounded

\* The price of k requests is a number, and one request more costs one token more.
LEMMA PriceType ==
  ASSUME NEW k \in Int
  PROVE  Cost * k \in Int /\ Cost * (k + 1) = Cost * k + Cost
<1>1. Cost \in Int
  BY CapacityType
<1> QED
  BY <1>1

\* A tick pays for the credit that may flow in.
LEMMA TickArithmetic ==
  ASSUME NEW l \in Int, NEW m \in Int, NEW s \in Int, NEW k \in Int, NEW t \in Int,
         NEW u \in Int, l + s <= k + t - u, m <= l + 1
  PROVE  m + s <= k + (t + 1) - u
  OBVIOUS

\* A credit flows in with every tick.
LEMMA TickAccount ==
  ASSUME NEW l, NEW g, NEW n, Account(l, g, n)
  PROVE  Account(IF l < Capacity THEN l + 1 ELSE Capacity, g, n + 1)
<1> DEFINE m == IF l < Capacity THEN l + 1 ELSE Capacity
<1>1. /\ l \in Nat /\ g \in Seq(Nat) /\ n \in Nat /\ Len(g) \in Nat
      /\ m \in 0..Capacity /\ m <= l + 1
  BY CapacityType DEF Account
<1> HIDE DEF m
<1>2. ASSUME NEW i \in 1..Len(g)
      PROVE  m + Cost * (Len(g) - i + 1) <= Capacity + (n + 1) - g[i]
  <2>1. Len(g) - i + 1 \in Int /\ g[i] \in Nat
    BY <1>1
  <2>2. PICK price \in Int : price = Cost * (Len(g) - i + 1)
    BY <2>1, PriceType
  <2>3. l + price <= Capacity + n - g[i]
    BY <2>2 DEF Account, PaidFor
  <2>4. l \in Int /\ m \in Int /\ n \in Int /\ Capacity \in Int /\ g[i] \in Int
    BY <1>1, <2>1, CapacityType
  <2>5. m + price <= Capacity + (n + 1) - g[i]
    BY ONLY <1>1, <2>2, <2>3, <2>4, TickArithmetic
  <2> QED
    BY <2>2, <2>5
<1>3. Account(m, g, n + 1)
  BY <1>1, <1>2 DEF Account, PaidFor
<1> QED
  BY <1>3 DEF m

\* A grant is paid for by the bucket: PaidFor the grants before it bounds every
\* window that ends with it.
LEMMA GrantAccount ==
  ASSUME NEW l, NEW g, NEW n, Account(l, g, n), l >= Cost
  PROVE  Account(l - Cost, Append(g, n), n)
<1> DEFINE h == Append(g, n)
<1>1. /\ l \in Nat /\ l <= Capacity /\ g \in Seq(Nat) /\ n \in Nat /\ Len(g) \in Nat
      /\ l - Cost \in 0..Capacity /\ l - Cost \in Nat
  BY CapacityType DEF Account
<1>2. /\ h \in Seq(Nat) /\ Len(h) = Len(g) + 1 /\ h[Len(g) + 1] = n
      /\ \A i \in 1..Len(g) : h[i] = g[i]
  BY <1>1
<1> HIDE DEF h
<1>3. ASSUME NEW i \in 1..Len(h)
      PROVE  (l - Cost) + Cost * (Len(h) - i + 1) <= Capacity + n - h[i]
  <2>1. CASE i \in 1..Len(g)
    <3>1. Len(g) - i + 1 \in Int /\ g[i] \in Nat /\ Len(h) - i + 1 = (Len(g) - i + 1) + 1
      BY <1>1, <1>2, <2>1
    <3>2. PICK price \in Int : price = Cost * (Len(g) - i + 1)
      BY <3>1, PriceType
    <3>3. l + price <= Capacity + n - g[i]
      BY <2>1, <3>2 DEF Account, PaidFor
    <3>4. Cost * (Len(h) - i + 1) = price + Cost
      BY <3>1, <3>2, PriceType
    <3>5. (l - Cost) + (price + Cost) <= Capacity + n - g[i]
      BY <1>1, <3>1, <3>3, CapacityType
    <3> QED
      BY <1>2, <2>1, <3>4, <3>5
  <2>2. CASE i = Len(g) + 1
    <3>1. Len(h) - i + 1 = 1 /\ h[i] = n
      BY <1>1, <1>2, <2>2
    <3>2. Cost * 1 = Cost
      BY CapacityType
    <3> QED
      BY <1>1, <3>1, <3>2, CapacityType
  <2> QED
    BY <1>1, <1>2, <2>1, <2>2
<1>4. ASSUME NEW i \in 1..Len(h), NEW j \in 1..Len(h), i <= j
      PROVE  Cost * (j - i + 1) <= Capacity + h[j] - h[i]
  <2>1. CASE j \in 1..Len(g)
    <3>1. i \in 1..Len(g)
      BY <1>1, <1>2, <1>4, <2>1
    <3> QED
      BY <1>2, <1>4, <2>1, <3>1 DEF Account, Bounded
  <2>2. CASE j = Len(h)
    <3>1. j - i + 1 \in Int /\ h[i] \in Nat /\ h[j] = n /\ Len(h) \in Nat
      BY <1>1, <1>2, <2>2
    <3>2. PICK price \in Int : price = Cost * (j - i + 1)
      BY <3>1, PriceType
    <3>3. (l - Cost) + price <= Capacity + n - h[i]
      BY <1>3, <2>2, <3>2
    <3>4. price <= Capacity + n - h[i]
      BY <1>1, <3>1, <3>3, CapacityType
    <3> QED
      BY <3>1, <3>2, <3>4
  <2> QED
    BY <1>1, <1>2, <2>1, <2>2
<1>5. Account(l - Cost, h, n)
  BY <1>1, <1>2, <1>3, <1>4 DEF Account, PaidFor, Bounded
<1> QED
  BY <1>5 DEF h

-----------------------------------------------------------------------------
(* The results.                                                            *)

\* However requests, eviction, Stop and the clock interleave, a request in the
\* middleware holds its client's limiter and no evicted bucket lacked a credit.
THEOREM LimiterInvariance == Spec => []IInv
  BY InitIInv, NextIInv, PTL DEF Spec

\* The state of RateLimiter keeps its shape: no bucket is overdrawn nor overfull,
\* although requests ask their limiters outside the mutex.
THEOREM BucketsInRange == Spec => []TypeOK
<1>1. IInv => TypeOK
  BY DEF IInv
<1> QED
  BY <1>1, LimiterInvariance, PTL

\* A client that waits as long as retryAfterSeconds told it finds a token, unless
\* another of its requests was let through: for every rate and every number of
\* ticks to the second, and although the bucket is read again after Allow.
THEOREM RetryAfterIsEnough == Spec => []RetryAfterSuffices
<1>1. IInv => RetryAfterSuffices
  <2> SUFFICES ASSUME IInv, NEW ip \in IPs, promise[ip] # None, now >= promise[ip]
               PROVE  Level(ip) >= Cost
    BY DEF RetryAfterSuffices
  <2>1. promise[ip] \in Nat /\ now \in Nat
    BY RateAssumption DEF IInv, TypeOK
  <2>2. Level(ip) \in 0..Capacity
    BY LevelType DEF IInv
  <2>3. Level(ip) >= Cost \/ Cost - Level(ip) <= promise[ip] - now
    BY DEF IInv, Promised
  <2> QED
    BY <2>1, <2>2, <2>3, CapacityType
<1> QED
  BY <1>1, LimiterInvariance, PTL

\* Both modules take their buckets from Rate.
LEMMA SameCapacity == Bucket!Capacity = Capacity
  BY DEF Capacity, Bucket!Capacity

\* Steps that leave levels, clock and grants alone are no steps of the bucket.
LEMMA BucketStutters ==
  ASSUME SameLevels, UNCHANGED <<now, grants>>
  PROVE  UNCHANGED Bucket!bucketVars
  BY DEF SameLevels, Bucket!bucketVars

\* Every step of RateLimiter is one of TokenBucket, or none.
LEMMA NextRefines == IInv /\ [Next]_vars => [Bucket!BucketNext]_(Bucket!bucketVars)
<1> SUFFICES ASSUME IInv, [Next]_vars
             PROVE  Bucket!BucketNext \/ UNCHANGED Bucket!bucketVars
  OBVIOUS
<1>1. ASSUME NEW p \in Procs, NEW ip \in IPs, getLimiter(p, ip)
      PROVE  UNCHANGED Bucket!bucketVars
  BY <1>1, GetLimiterStep, BucketStutters
<1>2. ASSUME NEW p \in Procs, Allow(p)
      PROVE  Bucket!BucketNext \/ UNCHANGED Bucket!bucketVars
  <2>1. CASE SameLevels /\ UNCHANGED <<now, grants>>
    BY <2>1, BucketStutters
  <2>2. ASSUME NEW ip \in IPs, Level(ip) >= Cost, UNCHANGED now,
               \A jp \in IPs : Level(jp)' = IF jp = ip THEN Level(jp) - Cost ELSE Level(jp),
               grants' = [grants EXCEPT ![ip] = Append(@, now)]
        PROVE  Bucket!Grant(ip)
    <3>1. [jp \in IPs |-> Level(jp)][ip] >= Cost
      BY <2>2
    <3>2. [jp \in IPs |-> Level(jp)]' = [[jp \in IPs |-> Level(jp)] EXCEPT ![ip] = @ - Cost]
      BY <2>2
    <3> QED
      BY <2>2, <3>1, <3>2 DEF Bucket!Grant
  <2> QED
    BY <1>2, <2>1, <2>2, AllowStep DEF Bucket!BucketNext
<1>3. ASSUME NEW p \in Procs, Reject(p) PROVE UNCHANGED Bucket!bucketVars
  BY <1>3, RejectStep, BucketStutters
<1>4. CASE cleanup
  BY <1>4, CleanupStep, BucketStutters
<1>5. CASE Stop
  BY <1>5, IdleStep, BucketStutters DEF Stop, request
<1>6. CASE Tick
  <2>1. /\ now' = now + 1 /\ UNCHANGED grants
        /\ \A ip \in IPs : Level(ip)' = IF Level(ip) < Capacity THEN Level(ip) + 1 ELSE Capacity
    BY <1>6, TickStep
  <2>2. Bucket!BucketTick
    BY <2>1, SameCapacity DEF Bucket!BucketTick
  <2> QED
    BY <2>2 DEF Bucket!BucketNext
<1>7. CASE UNCHANGED vars
  BY <1>7, IdleStep, BucketStutters DEF vars
<1> QED
  BY <1>1, <1>2, <1>3, <1>4, <1>5, <1>6, <1>7 DEF Next

\* A client sees one token bucket, whatever getLimiter, Allow, cleanup and Stop do
\* to its entry: RateLimiter implements TokenBucket.
THEOREM RateLimiterImplementsBucket == Spec => ImplementsBucket
<1>1. Init => Bucket!BucketInit
  BY SameCapacity DEF Init, Bucket!BucketInit, Level
<1> QED
  BY <1>1, NextRefines, LimiterInvariance, PTL
     DEF Spec, ImplementsBucket, Bucket!BucketSpec

\* TokenBucket's inductive invariant: every client's account is in order.
BucketInv ==
    /\ now \in Nat /\ grants \in [IPs -> Seq(Nat)]
    /\ \A ip \in IPs : Account(Level(ip), grants[ip], now)

LEMMA NextBucketInv == BucketInv /\ [Bucket!BucketNext]_(Bucket!bucketVars) => BucketInv'
<1> SUFFICES ASSUME BucketInv, Bucket!BucketNext \/ UNCHANGED Bucket!bucketVars
             PROVE  BucketInv'
  OBVIOUS
<1>1. CASE Bucket!BucketTick
  <2>1. /\ now' = now + 1 /\ grants' = grants
        /\ [ip \in IPs |-> Level(ip)'] =
              [ip \in IPs |-> IF [jp \in IPs |-> Level(jp)][ip] < Capacity
                              THEN [jp \in IPs |-> Level(jp)][ip] + 1 ELSE Capacity]
    BY <1>1, SameCapacity DEF Bucket!BucketTick
  <2>2. \A ip \in IPs : Level(ip)' = IF Level(ip) < Capacity THEN Level(ip) + 1 ELSE Capacity
    BY <2>1
  <2>3. \A ip \in IPs : Account(Level(ip)', grants'[ip], now')
    BY <2>1, <2>2, TickAccount DEF BucketInv
  <2> QED
    BY <2>1, <2>3 DEF BucketInv
<1>2. ASSUME NEW c \in IPs, Bucket!Grant(c) PROVE BucketInv'
  <2>1. /\ now' = now /\ grants' = [grants EXCEPT ![c] = Append(@, now)]
        /\ [ip \in IPs |-> Level(ip)][c] >= Cost
        /\ [ip \in IPs |-> Level(ip)'] = [[ip \in IPs |-> Level(ip)] EXCEPT ![c] = @ - Cost]
    BY <1>2 DEF Bucket!Grant
  <2>2. /\ Level(c) >= Cost
        /\ \A ip \in IPs : Level(ip)' = IF ip = c THEN Level(ip) - Cost ELSE Level(ip)
        /\ \A ip \in IPs : grants'[ip] = IF ip = c THEN Append(grants[ip], now) ELSE grants[ip]
    BY <2>1 DEF BucketInv
  <2>3. \A ip \in IPs : Account(Level(ip)', grants'[ip], now')
    BY <2>1, <2>2, GrantAccount DEF BucketInv
  <2>4. grants' \in [IPs -> Seq(Nat)]
    BY <2>1 DEF BucketInv
  <2> QED
    BY <2>1, <2>3, <2>4 DEF BucketInv
<1>3. CASE UNCHANGED Bucket!bucketVars
  <2>1. /\ now' = now /\ grants' = grants
        /\ [ip \in IPs |-> Level(ip)'] = [ip \in IPs |-> Level(ip)]
    BY <1>3 DEF Bucket!bucketVars
  <2>2. \A ip \in IPs : Level(ip)' = Level(ip)
    BY <2>1
  <2> QED
    BY <2>1, <2>2 DEF BucketInv
<1> QED
  BY <1>1, <1>2, <1>3 DEF Bucket!BucketNext

LEMMA BucketInvariance == Bucket!BucketSpec => []BucketInv
<1>1. Bucket!BucketInit => BucketInv
  <2> SUFFICES ASSUME Bucket!BucketInit PROVE BucketInv
    OBVIOUS
  <2>1. /\ now = 0 /\ grants = [ip \in IPs |-> <<>>]
        /\ [ip \in IPs |-> Level(ip)] = [ip \in IPs |-> Capacity]
    BY SameCapacity DEF Bucket!BucketInit
  <2>2. \A ip \in IPs : Level(ip) = Capacity /\ grants[ip] = <<>>
    BY <2>1
  <2>3. grants \in [IPs -> Seq(Nat)]
    BY <2>1
  <2> QED
    BY <2>1, <2>2, <2>3, NewAccount DEF BucketInv
<1> QED
  BY <1>1, NextBucketInv, PTL DEF Bucket!BucketSpec

\* In every window of time a client of a token bucket gets at most a full bucket
\* and what flows in meanwhile, whatever the burst and the rate: the promise
\* RateLimiter implements.
THEOREM BucketBoundsWindows == Bucket!BucketSpec => []Bucket!WindowBounded
<1>1. BucketInv => Bucket!WindowBounded
  BY SameCapacity DEF BucketInv, Account, Bounded, Bucket!WindowBounded
<1> QED
  BY <1>1, BucketInvariance, PTL

\* What is left in a bucket and the requests let through since any one of them
\* are always paid for: no interleaving of grants and ticks overdraws a bucket,
\* or overfills it.
THEOREM BucketNeverOverdrawn ==
  Bucket!BucketSpec => [](Bucket!Paid /\ \A ip \in IPs : Level(ip) \in 0..Capacity)
<1>1. BucketInv => Bucket!Paid /\ \A ip \in IPs : Level(ip) \in 0..Capacity
  BY SameCapacity DEF BucketInv, Account, PaidFor, Bucket!Paid
<1> QED
  BY <1>1, BucketInvariance, PTL

\* The middleware itself: concurrent requests, the cleanup goroutine and Stop let
\* no client have more than a full bucket and what flows in meanwhile through, in
\* any window.
THEOREM MiddlewareBoundsWindows == Spec => []Bucket!WindowBounded
  BY RateLimiterImplementsBucket, BucketBoundsWindows, PTL DEF ImplementsBucket

=============================================================================
