-------------------------------- MODULE Redis --------------------------------
(***************************************************************************)
(* The Redis client the auth usecase works with (caches.RedisCache): every *)
(* call is one atomic command on one key, bounded by a timeout.  A call    *)
(* that returns an error was lost before it took effect, or took effect    *)
(* and lost its answer.  Values go through JSON both ways and come back    *)
(* the strings they were; counters are never read with Get.                *)
(***************************************************************************)
EXTENDS Integers

CONSTANTS
    None,   \* a key without a value
    Faults  \* the ways a call may go wrong: "lost", "unacked", "crash"

ASSUME FaultsAssumption == Faults \subseteq {"lost", "unacked", "crash"}
ASSUME NoneAssumption == None \notin Nat

VARIABLES
    kv,       \* kv[k]: the value of key k
    volatile, \* the keys that have a TTL
    slipped   \* history: a call has failed, or the process has stopped

redis == <<kv, volatile, slipped>>

\* How one call ends for its caller.
Outcomes == {"ok"} \cup (Faults \cap {"lost", "unacked"})

\* A call that does not end well is remembered.
Slip(o) == slipped' = (slipped \/ o # "ok")

\* Mutant: Set leaves the key without a TTL.
RedisSetForever(k, v, o) ==
    /\ Slip(o)
    /\ IF o = "lost" THEN UNCHANGED <<kv, volatile>>
       ELSE /\ kv' = [kv EXCEPT ![k] = v]
            /\ volatile' = volatile \ {k}

\* Set gives the key the cache-wide TTL.
RedisSet(k, v, o) ==
    /\ Slip(o)
    /\ IF o = "lost" THEN UNCHANGED <<kv, volatile>>
       ELSE /\ kv' = [kv EXCEPT ![k] = v]
            /\ volatile' = volatile \cup {k}

RedisDel(k, o) ==
    /\ Slip(o)
    /\ IF o = "lost" THEN UNCHANGED <<kv, volatile>>
       ELSE /\ kv' = [kv EXCEPT ![k] = None]
            /\ volatile' = volatile \ {k}

\* What a counter stands at; Incr makes a missing one 1, without a TTL.
Count(k) == IF kv[k] = None THEN 0 ELSE kv[k]

RedisIncr(k, o) ==
    /\ Slip(o)
    /\ IF o = "lost" THEN UNCHANGED <<kv, volatile>>
       ELSE /\ kv' = [kv EXCEPT ![k] = Count(k) + 1]
            /\ UNCHANGED volatile

\* Expire replaces the TTL of an existing key.
RedisExpire(k, o) ==
    /\ Slip(o)
    /\ IF o = "lost" \/ kv[k] = None THEN UNCHANGED <<kv, volatile>>
       ELSE /\ volatile' = volatile \cup {k}
            /\ UNCHANGED kv

\* The server drops a key whose TTL has run out.
RedisLapse(k) ==
    /\ k \in volatile
    /\ kv' = [kv EXCEPT ![k] = None]
    /\ volatile' = volatile \ {k}
    /\ UNCHANGED slipped

\* The process stops, whatever calls are under way.
RedisCrash == slipped' = TRUE /\ UNCHANGED <<kv, volatile>>

=============================================================================
