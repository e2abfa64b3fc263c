------------------------------ MODULE UserStore ------------------------------
(***************************************************************************)
(* The users usecase: the users table in Postgres, the process-local       *)
(* ristretto cache in front of it (keyed by email, filled through          *)
(* singleflight, written asynchronously) and the calls that read and write *)
(* them.  One request handler is a member of Procs; each of its accesses   *)
(* to the table, the cache or the singleflight group is a step of its own. *)
(***************************************************************************)
EXTENDS Integers, Sequences

CONSTANTS
    Users,       \* email addresses (normalised), one row at most for each
    Procs,       \* request handlers running concurrently
    None,        \* no row, no cache entry, no user
    MaxPassword, \* bound on the password changes of one user
    MaxSetBuf    \* capacity of ristretto's write buffer, per key

Row == [password : Nat, active : BOOLEAN]

ASSUME NoneAssumption == None \notin Row /\ None \notin Users
ASSUME BoundAssumption == MaxPassword \in Nat /\ MaxSetBuf \in Nat

VARIABLES
    table,   \* table[u]: the row of u in Postgres
    cache,   \* cache[u]: the row ristretto returns for "user/<u>"
    setBuf,  \* setBuf[u]: buffered ristretto writes; a row is a Set, None a Del
    phase,   \* phase[u]: how far the singleflight call for u has come
    loaded,  \* loaded[u]: the row that call has read
    at,      \* at[p]: where handler p is in its call of the usecase
    user,    \* user[p]: the user that call is about
    got,     \* got[p]: the row GetByEmail returned
    floor,   \* history: the password a clean read must reach, a write will ack
    acked,   \* history: the newest password of u whose UpdatePassword returned
    excused  \* history: the last write of u was not, or too early, invalidated

ristretto == <<cache, setBuf>>
group == <<phase, loaded>>
handler == <<at, user, got, floor>>
vars == <<table, cache, setBuf, phase, loaded, at, user, got, floor, acked, excused>>

Phases == {"none", "load", "loaded", "filled", "failed"}
Steps == {"returned", "miss", "wait", "getByID", "invalidate"}

Init ==
    /\ table = [u \in Users |-> None]
    /\ cache = [u \in Users |-> None]
    /\ setBuf = [u \in Users |-> <<>>]
    /\ phase = [u \in Users |-> "none"]
    /\ loaded = [u \in Users |-> None]
    /\ at = [p \in Procs |-> "returned"]
    /\ user = [p \in Procs |-> None]
    /\ got = [p \in Procs |-> None]
    /\ floor = [p \in Procs |-> 0]
    /\ acked = [u \in Users |-> 0]
    /\ excused = [u \in Users |-> FALSE]

-----------------------------------------------------------------------------
(* The ristretto cache.                                                    *)

\* Set: an existing entry is overwritten in place, a new one goes through the
\* buffer, and either the buffer or the admission policy may drop it.
RistrettoSet(u, r) ==
    \/ /\ cache[u] # None
       /\ cache' = [cache EXCEPT ![u] = r]
       /\ UNCHANGED setBuf
    \/ /\ cache[u] = None
       /\ Len(setBuf[u]) < MaxSetBuf
       /\ setBuf' = [setBuf EXCEPT ![u] = Append(@, r)]
       /\ UNCHANGED cache
    \/ /\ cache[u] = None
       /\ UNCHANGED <<cache, setBuf>>

\* Mutant: Del removes the entry but overtakes the Sets still buffered.
RistrettoDelUnordered(u) ==
    /\ cache' = [cache EXCEPT ![u] = None]
    /\ UNCHANGED setBuf

\* Del: the entry goes at once, and again behind every Set already buffered.
RistrettoDel(u) ==
    /\ Len(setBuf[u]) < MaxSetBuf
    /\ cache' = [cache EXCEPT ![u] = None]
    /\ setBuf' = [setBuf EXCEPT ![u] = Append(@, None)]

\* The cache's own goroutine applies the oldest buffered write.
RistrettoApply(u) ==
    /\ setBuf[u] # <<>>
    /\ setBuf' = [setBuf EXCEPT ![u] = Tail(@)]
    /\ \/ cache' = [cache EXCEPT ![u] = Head(setBuf[u])]
       \/ Head(setBuf[u]) # None /\ UNCHANGED cache
    /\ UNCHANGED <<table, group, handler, acked, excused>>

\* Mutant: entries are set without a TTL.
RistrettoExpireNever(u) == FALSE /\ UNCHANGED vars

\* The entry's TTL runs out, or the entry is evicted.
RistrettoExpire(u) ==
    /\ cache[u] # None
    /\ cache' = [cache EXCEPT ![u] = None]
    /\ excused' = [excused EXCEPT ![u] = @ /\ setBuf[u] # <<>>]
    /\ UNCHANGED <<table, setBuf, group, handler, acked>>

-----------------------------------------------------------------------------
(* GetByEmail: cache first, then one shared load per email.                *)

Ready(p) == at[p] = "returned"

\* No write of u escaped its invalidation, no cache write of u is buffered and
\* no load of u has already read the table.
Quiet(u) ==
    /\ ~excused[u]
    /\ setBuf[u] = <<>>
    /\ phase[u] \in {"none", "load"}

GetByEmail(p, u) ==
    /\ Ready(p)
    /\ at' = [at EXCEPT ![p] = IF cache[u] # None THEN "returned" ELSE "miss"]
    /\ user' = [user EXCEPT ![p] = u]
    /\ got' = [got EXCEPT ![p] = cache[u]]
    /\ floor' = [floor EXCEPT ![p] = IF Quiet(u) THEN acked[u] ELSE 0]
    /\ UNCHANGED <<table, ristretto, group, acked, excused>>

\* Group.Do: start the load, or wait for the one in progress.
Do(p) ==
    /\ at[p] = "miss"
    /\ at' = [at EXCEPT ![p] = "wait"]
    /\ phase' = [phase EXCEPT ![user[p]] = IF @ = "none" THEN "load" ELSE @]
    /\ UNCHANGED <<table, ristretto, loaded, user, got, floor, acked, excused>>

\* repo.GetByEmail inside the flight; a missing row or a failing query is an
\* error, which is never cached.
Load(u) ==
    /\ phase[u] = "load"
    /\ \/ /\ table[u] # None
          /\ phase' = [phase EXCEPT ![u] = "loaded"]
          /\ loaded' = [loaded EXCEPT ![u] = table[u]]
       \/ /\ phase' = [phase EXCEPT ![u] = "failed"]
          /\ UNCHANGED loaded
    /\ UNCHANGED <<table, ristretto, handler, acked, excused>>

Fill(u) ==
    /\ phase[u] = "loaded"
    /\ RistrettoSet(u, loaded[u])
    /\ phase' = [phase EXCEPT ![u] = "filled"]
    /\ excused' = [excused EXCEPT ![u] = @ \/ loaded[u] # table[u]]
    /\ UNCHANGED <<table, loaded, handler, acked>>

Waits(p, u) == at[p] = "wait" /\ user[p] = u

\* The flight ends: everyone waiting on it returns its row, or its error.
Deliver(u) ==
    /\ phase[u] \in {"filled", "failed"}
    /\ at' = [p \in Procs |-> IF Waits(p, u) THEN "returned" ELSE at[p]]
    /\ got' = [p \in Procs |-> IF Waits(p, u) THEN loaded[u] ELSE got[p]]
    /\ phase' = [phase EXCEPT ![u] = "none"]
    /\ loaded' = [loaded EXCEPT ![u] = None]
    /\ UNCHANGED <<table, ristretto, user, floor, acked, excused>>

-----------------------------------------------------------------------------
(* The writing calls.  A write that reports an error may still have been   *)
(* committed (the connection or the request's context ended meanwhile).    *)

\* Handler p enters its call about u at step s, with v to be acknowledged.
Begin(p, u, s, v) ==
    /\ at' = [at EXCEPT ![p] = s]
    /\ user' = [user EXCEPT ![p] = u]
    /\ got' = [got EXCEPT ![p] = None]
    /\ floor' = [floor EXCEPT ![p] = v]

\* INSERT: the row appears inactive; a taken email is a conflict.
RepoStore(u) ==
    /\ table[u] = None
    /\ table' = [table EXCEPT ![u] = [password |-> 0, active |-> FALSE]]

\* UPDATE of the password, of a row that exists.
RepoUpdatePassword(u) ==
    /\ table[u] # None
    /\ table[u].password < MaxPassword
    /\ table' = [table EXCEPT ![u].password = @ + 1]

RepoChangeActiveUser(u) ==
    /\ table[u] # None
    /\ table' = [table EXCEPT ![u].active = TRUE]

Store(p, u) ==
    /\ Ready(p)
    /\ RepoStore(u)
    /\ Begin(p, u, "returned", 0)
    /\ UNCHANGED <<ristretto, group, acked, excused>>

\* UpdatePassword: acknowledged, or committed behind an error.
UpdatePassword(p, u) ==
    /\ Ready(p)
    /\ RepoUpdatePassword(u)
    /\ \/ Begin(p, u, "invalidate", table[u].password + 1) /\ UNCHANGED excused
       \/ Begin(p, u, "returned", 0) /\ excused' = [excused EXCEPT ![u] = TRUE]
    /\ UNCHANGED <<ristretto, group, acked>>

Activate(p, u) ==
    /\ Ready(p)
    /\ RepoChangeActiveUser(u)
    /\ \/ Begin(p, u, "getByID", 0) /\ UNCHANGED excused
       \/ Begin(p, u, "returned", 0) /\ excused' = [excused EXCEPT ![u] = TRUE]
    /\ UNCHANGED <<ristretto, group, acked>>

\* Activate needs the email to invalidate; when GetByID fails it returns
\* success without invalidating.
GetByID(p) ==
    /\ at[p] = "getByID"
    /\ \/ /\ at' = [at EXCEPT ![p] = "invalidate"]
          /\ UNCHANGED excused
       \/ /\ at' = [at EXCEPT ![p] = "returned"]
          /\ excused' = [excused EXCEPT ![user[p]] = TRUE]
    /\ UNCHANGED <<table, ristretto, group, user, got, floor, acked>>

\* Mutant: the write returns without its Del.
InvalidateForgotten(p) ==
    LET u == user[p] IN
    /\ at[p] = "invalidate"
    /\ at' = [at EXCEPT ![p] = "returned"]
    /\ acked' = [acked EXCEPT ![u] = IF floor[p] > @ THEN floor[p] ELSE @]
    /\ excused' = [excused EXCEPT ![u] = FALSE]
    /\ UNCHANGED <<table, ristretto, group, user, got, floor>>

\* The Del that ends UpdatePassword and Activate.  Both callers of UpdatePassword
\* pass a user they read from the table, so its email is there and the lookup
\* for an empty one is never made.
Invalidate(p) ==
    LET u == user[p] IN
    /\ at[p] = "invalidate"
    /\ RistrettoDel(u)
    /\ at' = [at EXCEPT ![p] = "returned"]
    /\ acked' = [acked EXCEPT ![u] = IF floor[p] > @ THEN floor[p] ELSE @]
    /\ excused' = [excused EXCEPT ![u] = FALSE]
    /\ UNCHANGED <<table, group, user, got, floor>>

\* The process stops and is started again: only the table survives.
Restart ==
    /\ cache' = [u \in Users |-> None]
    /\ setBuf' = [u \in Users |-> <<>>]
    /\ phase' = [u \in Users |-> "none"]
    /\ loaded' = [u \in Users |-> None]
    /\ at' = [p \in Procs |-> "returned"]
    /\ user' = [p \in Procs |-> None]
    /\ got' = [p \in Procs |-> None]
    /\ floor' = [p \in Procs |-> 0]
    /\ excused' = [u \in Users |-> FALSE]
    /\ UNCHANGED <<table, acked>>

Next ==
    \/ \E p \in Procs, u \in Users : GetByEmail(p, u)
    \/ \E p \in Procs : Do(p)
    \/ \E u \in Users : Load(u)
    \/ \E u \in Users : Fill(u)
    \/ \E u \in Users : Deliver(u)
    \/ \E p \in Procs, u \in Users : Store(p, u)
    \/ \E p \in Procs, u \in Users : UpdatePassword(p, u)
    \/ \E p \in Procs, u \in Users : Activate(p, u)
    \/ \E p \in Procs : GetByID(p)
    \/ \E p \in Procs : Invalidate(p)
    \/ \E u \in Users : RistrettoApply(u)
    \/ \E u \in Users : RistrettoExpire(u)
    \/ Restart

Spec == Init /\ [][Next]_vars

\* Loads answer (or their context ends), ristretto's goroutine runs, entries
\* expire and a writing handler finishes.  Nothing makes anyone call again.
Fairness ==
    /\ \A u \in Users : WF_vars(Load(u)) /\ WF_vars(Fill(u)) /\ WF_vars(Deliver(u))
    /\ \A u \in Users : WF_vars(RistrettoApply(u)) /\ WF_vars(RistrettoExpire(u))
    /\ \A p \in Procs : WF_vars(Do(p)) /\ WF_vars(GetByID(p)) /\ WF_vars(Invalidate(p))

FairSpec == Spec /\ Fairness

-----------------------------------------------------------------------------
(* Properties.                                                             *)

\* Every variable has its shape, no buffer outgrows its capacity, and a
\* handler in the middle of a call works for a user.
TypeOK ==
    /\ table \in [Users -> Row \cup {None}]
    /\ cache \in [Users -> Row \cup {None}]
    /\ setBuf \in [Users -> Seq(Row \cup {None})]
    /\ \A u \in Users : Len(setBuf[u]) <= MaxSetBuf
    /\ phase \in [Users -> Phases] /\ loaded \in [Users -> Row \cup {None}]
    /\ at \in [Procs -> Steps] /\ user \in [Procs -> Users \cup {None}]
    /\ \A p \in Procs : at[p] # "returned" => user[p] \in Users
    /\ got \in [Procs -> Row \cup {None}] /\ floor \in [Procs -> Nat]
    /\ acked \in [Users -> Nat]
    /\ excused \in [Users -> BOOLEAN]

\* What is cached for u (position 0) and what is buffered behind it.
Entry(u, i) == IF i = 0 THEN cache[u] ELSE setBuf[u][i]

\* A Del follows position i of buffer b.
Doomed(b, i) == \E j \in DOMAIN b : j > i /\ b[j] = None

\* Some handler committed a write of u and has its Del before it.
Invalidating(u) ==
    \E p \in Procs : user[p] = u /\ at[p] \in {"getByID", "invalidate"}

\* The Del of UpdatePassword and Activate reaches every entry that was cached,
\* or on its way into the cache, when the write committed: unless a write went
\* without its Del, or a load that had read the old row filled the cache after
\* the Del, a row differing from the table's is about to be deleted.
InvalidationEffective ==
    \A u \in Users : ~excused[u] /\ ~Invalidating(u) =>
        \A i \in 0..Len(setBuf[u]) :
            Entry(u, i) \notin {None, table[u]} => Doomed(setBuf[u], i)

\* A GetByEmail that begins while u is quiet returns a row at least as new as
\* every UpdatePassword that had returned by then, whether it is answered by
\* the cache, by its own load or by a load it joined.
QuietReadFresh ==
    \A p \in Procs :
        Ready(p) /\ got[p] # None => got[p].password >= floor[p]

\* However reads, writes, lost invalidations and restarts interleave, once the
\* writes stop the cache agrees with the table again, and for good.
EventuallyCoherent ==
    <>[](\A u \in Users : cache[u] \in {None, table[u]})

\* UpdatePassword invalidates "so the next Login doesn't read the stale
\* (old-hash) cached user": no settled entry is older than a returned update.
NextLoginReadsNewHash ==
    \A u \in Users :
        cache[u] # None /\ setBuf[u] = <<>> => cache[u].password >= acked[u]

=============================================================================
