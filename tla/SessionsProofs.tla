--------------------------- MODULE SessionsProofs ---------------------------
(***************************************************************************)
(* Proofs about the sessions of an account, for any number of handlers and *)
(* token pairs, any clock, any limit and any combination of faults.        *)
(***************************************************************************)
EXTENDS Sessions, TLAPS

Stored == Tokens \cup (Nat \ {0}) \cup {None}

RedisOK ==
    /\ kv \in [Keys -> Stored]
    /\ \A j \in Tokens : kv[RefreshKey(j)] \in {None, j}
    /\ kv[LoginAttemptsKey] \in (Nat \ {0}) \cup {None}
    /\ slipped \in BOOLEAN

HandlersOK ==
    /\ at \in [Procs -> Steps]
    /\ tok \in [Procs -> Tokens \cup {None}]
    /\ ver \in [Procs -> Nat]
    /\ new \in [Procs -> Tokens \cup {None}]
    /\ stamp \in [Procs -> Nat]
    /\ late \in [Procs -> BOOLEAN]

TypeOK ==
    /\ RedisOK
    /\ HandlersOK
    /\ now \in Nat
    /\ rows \in Seq(Nat)
    /\ minted \in [Tokens -> Nat \cup {None}]
    /\ sent \subseteq Tokens
    /\ parent \in [Tokens -> Tokens \cup {None}]
    /\ pwd \in [Tokens -> Nat]
    /\ crossed \subseteq Tokens
    /\ fate \in [Tokens -> {"none", "rotated", "logout", "expired"}]
    /\ tries \in Nat

\* Where a handler has a pair that no client has seen yet.
Holding == {"remember", "ttl", "clear", "rotate"}

\* What a handler holds: a token that was handed out, and a pair of its own
\* that nobody has touched, stored from "ttl" on unless it has expired.
HandlerOK(p) ==
    /\ tok[p] # None => tok[p] \in sent
    /\ at[p] \in Holding => /\ new[p] \in Tokens \ sent
                            /\ minted[new[p]] # None
                            /\ parent[new[p]] = tok[p]
    /\ at[p] = "remember" => /\ fate[new[p]] = "none"
                             /\ kv[RefreshKey(new[p])] = None
    /\ at[p] \in {"ttl", "clear", "rotate"} /\ fate[new[p]] = "none"
            => kv[RefreshKey(new[p])] # None
    /\ at[p] = "clear" => tok[p] = None
    /\ at[p] = "rotate" => tok[p] # None

\* Two handlers never hold the same pair.
Apart ==
    \A p, q \in Procs :
        at[p] \in Holding /\ at[q] \in Holding /\ new[p] = new[q] => p = q

\* What Redis and the histories say of a token: only minted ones are stored,
\* handed out or removed, and only handed-out ones are rotated or logged out.
TokenOK(j) ==
    /\ RefreshKey(j) \in volatile => kv[RefreshKey(j)] # None
    /\ kv[RefreshKey(j)] # None => minted[j] # None
    /\ fate[j] # "none" => minted[j] # None
    /\ j \in sent => minted[j] # None
    /\ j \notin sent => fate[j] \in {"none", "expired"}

Books ==
    /\ \A p \in Procs : HandlerOK(p)
    /\ Apart
    /\ \A j \in Tokens : TokenOK(j)
    /\ RevokedStayRevoked
    /\ SessionSurvives

\* While Redis answers, the token a handed-out pair replaced has been removed.
Replaced ==
    ~slipped => \A c \in sent : parent[c] # None => fate[parent[c]] # "none"

\* A pair not minted across a password change is older than every later
\* version of the row, and than every change about to be committed.
Outdated(j) ==
    minted[j] # None /\ j \notin crossed =>
        /\ \A v \in 1..Len(rows) : v > pwd[j] => rows[v] > minted[j]
        /\ \A q \in Procs : at[q] = "update" => stamp[q] > minted[j]

Clock ==
    /\ \A j \in Tokens : minted[j] # None => minted[j] < now
    /\ \A j \in Tokens : Outdated(j)
    /\ SessionsClosed

\* While Redis answers the counter is not behind the attempts let through.
Counted ==
    ~slipped => /\ tries <= Count(LoginAttemptsKey)
                /\ tries <= LoginMaxAttempts

\* A client got only what was sent, and a handler between two calls, or
\* with its answer, holds no token.
Responses ==
    /\ known \subseteq sent
    /\ \A p \in Procs : at[p] = "answer" => new[p] \in sent
    /\ \A p \in Procs : at[p] \in {"idle", "answer"} => tok[p] = None

Core ==
    /\ TypeOK
    /\ Books
    /\ Replaced
    /\ ReplayFails
    /\ Clock
    /\ Counted
    /\ LockoutEnds

IInv == Core /\ Responses

-----------------------------------------------------------------------------
(* Keys and commands.                                                      *)

\* Most leaves are first-order; those that need SMT say so.
USE Zenon

\* The keys of different tokens, and those of anything else, differ.
LEMMA KeysApart ==
    /\ LoginAttemptsKey \in Keys
    /\ \A j \in Tokens : RefreshKey(j) \in Keys /\ RefreshKey(j) # LoginAttemptsKey
    /\ \A i, j \in Tokens : RefreshKey(i) = RefreshKey(j) => i = j
  BY DEF Keys, RefreshKey, LoginAttemptsKey

\* Redis has answered so far only if it answered before and this call too.
LEMMA NoSlip ==
  ASSUME NEW o, Slip(o), ~slipped'
  PROVE  ~slipped /\ o = "ok"
  BY DEF Slip

LEMMA SlipType ==
  ASSUME NEW o, Slip(o), slipped \in BOOLEAN
  PROVE  slipped' \in BOOLEAN
  BY DEF Slip

\* The numeric date of a pair is not after the moment it was minted.
LEMMA IssuedBefore ==
  ASSUME NEW j \in Tokens, minted[j] \in Nat
  PROVE  IssuedAt(j) \in Nat /\ IssuedAt(j) <= minted[j]
  BY ClockAssumption, SMT DEF IssuedAt

\* The steps that leave the counter, or the refresh tokens, as they are.
KeepsCounter ==
    /\ kv'[LoginAttemptsKey] = kv[LoginAttemptsKey]
    /\ LoginAttemptsKey \in volatile => LoginAttemptsKey \in volatile'

KeepsToken(j) ==
    /\ kv'[RefreshKey(j)] = kv[RefreshKey(j)]
    /\ RefreshKey(j) \in volatile' <=> RefreshKey(j) \in volatile

\* A command on the key of token j: nothing else is touched.
LEMMA TokenCommand ==
  ASSUME RedisOK, NEW j \in Tokens, NEW o,
         \/ RedisSet(RefreshKey(j), j, o)
         \/ RedisDel(RefreshKey(j), o)
         \/ RedisExpire(RefreshKey(j), o)
  PROVE  /\ RedisOK'
         /\ ~slipped' => ~slipped /\ o = "ok"
         /\ KeepsCounter
         /\ \A i \in Tokens \ {j} : KeepsToken(i)
<1>1. Slip(o)
  BY DEF RedisSet, RedisDel, RedisExpire
<1>2. ~slipped' => ~slipped /\ o = "ok"
  BY <1>1, NoSlip
<1>3. slipped' \in BOOLEAN
  BY <1>1, SlipType DEF RedisOK
<1>4. \E v \in {None, j} : kv' = kv \/ kv' = [kv EXCEPT ![RefreshKey(j)] = v]
  BY DEF RedisSet, RedisDel, RedisExpire
<1>5. volatile' \in {volatile, volatile \cup {RefreshKey(j)}, volatile \ {RefreshKey(j)}}
  BY DEF RedisSet, RedisDel, RedisExpire
<1>6. /\ kv' \in [Keys -> Stored]
      /\ kv'[RefreshKey(j)] \in {None, j}
      /\ \A k \in Keys \ {RefreshKey(j)} : kv'[k] = kv[k]
  BY <1>4, KeysApart DEF RedisOK, Stored
<1>7. RedisOK'
  BY <1>3, <1>6, KeysApart DEF RedisOK
<1>8. KeepsCounter /\ \A i \in Tokens \ {j} : KeepsToken(i)
  BY <1>5, <1>6, KeysApart DEF KeepsCounter, KeepsToken
<1> QED
  BY <1>2, <1>7, <1>8

\* A command on the counter: no refresh token is touched.
LEMMA CounterCommand ==
  ASSUME RedisOK, NEW o,
         \/ RedisIncr(LoginAttemptsKey, o)
         \/ RedisDel(LoginAttemptsKey, o)
         \/ RedisExpire(LoginAttemptsKey, o)
  PROVE  /\ RedisOK'
         /\ ~slipped' => ~slipped /\ o = "ok"
         /\ \A j \in Tokens : KeepsToken(j)
<1>1. Slip(o)
  BY DEF RedisIncr, RedisDel, RedisExpire
<1>2. ~slipped' => ~slipped /\ o = "ok"
  BY <1>1, NoSlip
<1>3. slipped' \in BOOLEAN
  BY <1>1, SlipType DEF RedisOK
<1>4. Count(LoginAttemptsKey) \in Nat
  BY DEF Count, RedisOK
<1>5. \/ kv' = kv
      \/ kv' = [kv EXCEPT ![LoginAttemptsKey] = None]
      \/ kv' = [kv EXCEPT ![LoginAttemptsKey] = Count(LoginAttemptsKey) + 1]
  BY DEF RedisIncr, RedisDel, RedisExpire
<1>6. volatile' \in {volatile, volatile \cup {LoginAttemptsKey}, volatile \ {LoginAttemptsKey}}
  BY DEF RedisIncr, RedisDel, RedisExpire
<1>7. /\ kv' \in [Keys -> Stored]
      /\ kv'[LoginAttemptsKey] \in (Nat \ {0}) \cup {None}
      /\ \A k \in Keys \ {LoginAttemptsKey} : kv'[k] = kv[k]
  BY <1>4, <1>5, KeysApart, SMT DEF RedisOK, Stored
<1>8. RedisOK'
  BY <1>3, <1>7, KeysApart DEF RedisOK
<1>9. \A j \in Tokens : KeepsToken(j)
  BY <1>6, <1>7, KeysApart DEF KeepsToken
<1> QED
  BY <1>2, <1>8, <1>9

-----------------------------------------------------------------------------
(* The handlers' own state.                                                *)

Keeps(q) ==
    /\ at'[q] = at[q] /\ tok'[q] = tok[q] /\ ver'[q] = ver[q]
    /\ new'[q] = new[q] /\ stamp'[q] = stamp[q] /\ late'[q] = late[q]

\* A handler that moves on keeps what it holds.
LEMMA MoveKeeps ==
  ASSUME HandlersOK, NEW p \in Procs, NEW s \in Steps, Move(p, s)
  PROVE  /\ HandlersOK'
         /\ \A q \in Procs \ {p} : Keeps(q)
         /\ at'[p] = s /\ tok'[p] = tok[p] /\ ver'[p] = ver[p]
         /\ new'[p] = new[p] /\ stamp'[p] = stamp[p] /\ late'[p] = late[p]
  BY DEF HandlersOK, Keeps, Move

\* One that returns holds nothing.
LEMMA ReturnKeeps ==
  ASSUME HandlersOK, NEW p \in Procs, Return(p)
  PROVE  /\ HandlersOK'
         /\ \A q \in Procs \ {p} : Keeps(q)
         /\ at'[p] = "idle" /\ tok'[p] = None /\ ~late'[p]
<1>1. /\ at' \in [Procs -> Steps] /\ tok' \in [Procs -> Tokens \cup {None}]
      /\ ver' \in [Procs -> Nat]
  BY DEF HandlersOK, Return, Steps
<1>2. /\ new' \in [Procs -> Tokens \cup {None}] /\ stamp' \in [Procs -> Nat]
      /\ late' \in [Procs -> BOOLEAN]
  BY DEF HandlersOK, Return
<1>3. \A q \in Procs \ {p} : Keeps(q)
  BY DEF HandlersOK, Keeps, Return
<1>4. at'[p] = "idle" /\ tok'[p] = None /\ ~late'[p]
  BY DEF HandlersOK, Return
<1> QED
  BY <1>1, <1>2, <1>3, <1>4 DEF HandlersOK

\* One whose usecase returned a pair holds it still, and what it was presented no
\* longer.
LEMMA ReturnPairKeeps ==
  ASSUME HandlersOK, NEW p \in Procs, ReturnPair(p)
  PROVE  /\ HandlersOK'
         /\ \A q \in Procs \ {p} : Keeps(q)
         /\ at'[p] = "answer" /\ tok'[p] = None /\ new'[p] = new[p] /\ ~late'[p]
<1>1. /\ at' \in [Procs -> Steps] /\ tok' \in [Procs -> Tokens \cup {None}]
      /\ ver' \in [Procs -> Nat]
  BY DEF HandlersOK, ReturnPair, Steps
<1>2. /\ new' \in [Procs -> Tokens \cup {None}] /\ stamp' \in [Procs -> Nat]
      /\ late' \in [Procs -> BOOLEAN]
  BY DEF HandlersOK, ReturnPair
<1>3. \A q \in Procs \ {p} : Keeps(q)
  BY DEF HandlersOK, Keeps, ReturnPair
<1>4. at'[p] = "answer" /\ tok'[p] = None /\ new'[p] = new[p] /\ ~late'[p]
  BY DEF HandlersOK, ReturnPair
<1> QED
  BY <1>1, <1>2, <1>3, <1>4 DEF HandlersOK

\* A lookup ends the call, or finds a version of the row to mint for.
LEMMA LookupKeeps ==
  ASSUME TypeOK, NEW p \in Procs,
         \/ Return(p)
         \/ \E v \in 1..Len(rows) : /\ ver' = [ver EXCEPT ![p] = v]
                                    /\ at' = [at EXCEPT ![p] = "mint"]
                                    /\ UNCHANGED <<tok, new, stamp, late>>
  PROVE  /\ HandlersOK'
         /\ \A q \in Procs \ {p} : Keeps(q)
         /\ \/ at'[p] = "idle" /\ tok'[p] = None
            \/ at'[p] = "mint" /\ tok'[p] = tok[p]
         /\ late'[p] => late[p]
<1>1. CASE Return(p)
  BY <1>1, ReturnKeeps DEF TypeOK
<1>2. ASSUME NEW v \in 1..Len(rows), ver' = [ver EXCEPT ![p] = v],
             at' = [at EXCEPT ![p] = "mint"], UNCHANGED <<tok, new, stamp, late>>
      PROVE  /\ HandlersOK'
             /\ \A q \in Procs \ {p} : Keeps(q)
             /\ at'[p] = "mint" /\ tok'[p] = tok[p]
             /\ late'[p] = late[p]
  <2>1. v \in Nat
    BY SMT DEF TypeOK
  <2> QED
    BY <1>2, <2>1 DEF TypeOK, HandlersOK, Keeps, Steps
<1> QED
  BY <1>1, <1>2

-----------------------------------------------------------------------------
(* What a step must leave alone for each part of the invariant.            *)

\* Counter and attempts: the steps that have nothing to do with the counter.
LEMMA CountFrame ==
  ASSUME Counted, LockoutEnds, KeepsCounter, UNCHANGED tries, slipped => slipped',
         \A p \in Procs : at[p] = "expire" => at'[p] = "expire"
  PROVE  Counted' /\ LockoutEnds'
  BY DEF Counted, LockoutEnds, KeepsCounter, Count

\* Clock: no pair is minted, no row committed, and no handler comes to the point
\* where it mints or commits.
LEMMA ClockFrame ==
  ASSUME Clock, TypeOK, now' = now \/ now' = now + 1,
         UNCHANGED <<rows, minted, pwd, crossed>>,
         \A p \in Procs :
            /\ at'[p] = "update" => at[p] = "update" /\ stamp'[p] = stamp[p]
            /\ at'[p] = "mint" =>
                  at[p] = "mint" /\ tok'[p] = tok[p] /\ ver'[p] = ver[p]
  PROVE  Clock'
<1>1. \A j \in Tokens : minted'[j] # None => minted'[j] < now'
  BY SMT DEF Clock, TypeOK
<1>2. \A j \in Tokens : Outdated(j)'
  BY DEF Clock, Outdated
<1>3. SessionsClosed'
  BY DEF Clock, SessionsClosed
<1> QED
  BY <1>1, <1>2, <1>3 DEF Clock

\* Apart: no handler comes to hold a pair.
LEMMA ApartFrame ==
  ASSUME Apart,
         \A q \in Procs : at'[q] \in Holding => at[q] \in Holding /\ new'[q] = new[q]
  PROVE  Apart'
  BY DEF Apart

\* Books: no token is minted, handed out, stored or removed, and a handler
\* with a pair in hand keeps it, or drops it.
LEMMA BooksFrame ==
  ASSUME Books, TypeOK,
         UNCHANGED <<minted, sent, parent, fate>>,
         \A j \in Tokens : KeepsToken(j),
         \A p \in Procs :
            /\ tok'[p] # None => tok'[p] \in sent
            /\ at'[p] \in Holding =>
                  /\ at[p] \in Holding /\ tok'[p] = tok[p] /\ new'[p] = new[p]
                  /\ at'[p] = "remember" <=> at[p] = "remember"
                  /\ at'[p] = "clear" => tok[p] = None
                  /\ at'[p] = "rotate" => tok[p] # None
  PROVE  Books'
<1>1. \A p \in Procs : HandlerOK(p)'
  <2> SUFFICES ASSUME NEW p \in Procs PROVE HandlerOK(p)'
    OBVIOUS
  <2>1. HandlerOK(p)
    BY DEF Books
  <2>2. CASE at'[p] \in Holding
    <3>1. new[p] \in Tokens /\ new'[p] = new[p]
      BY <2>1, <2>2 DEF HandlerOK
    <3>2. kv'[RefreshKey(new[p])] = kv[RefreshKey(new[p])]
      BY <3>1 DEF KeepsToken
    <3> QED
      BY <2>1, <2>2, <3>1, <3>2, SMT DEF HandlerOK, Holding
  <2>3. CASE at'[p] \notin Holding
    BY <2>3 DEF HandlerOK, Holding
  <2> QED
    BY <2>2, <2>3
<1>2. Apart'
  BY DEF Books, Apart
<1>3. \A j \in Tokens : TokenOK(j)'
  BY DEF Books, TokenOK, KeepsToken
<1>4. RevokedStayRevoked'
  BY DEF Books, RevokedStayRevoked, KeepsToken
<1>5. SessionSurvives'
  <2> SUFFICES ASSUME NEW j \in sent
               PROVE  /\ fate[j] = "none" => kv'[RefreshKey(j)] # None
                      /\ fate[j] = "rotated" => Spent(j)'
    BY DEF SessionSurvives
  <2>1. /\ fate[j] = "none" => kv[RefreshKey(j)] # None
        /\ fate[j] = "rotated" => Spent(j)
    BY DEF Books, SessionSurvives
  <2>2. j \in Tokens /\ KeepsToken(j)
    BY DEF TypeOK
  <2> QED
    BY <2>1, <2>2 DEF KeepsToken, Spent
<1> QED
  BY <1>1, <1>2, <1>3, <1>4, <1>5 DEF Books

\* Books again: one handler has moved to a step where it holds no pair.
LEMMA BooksRelease ==
  ASSUME Books, TypeOK, NEW p \in Procs,
         UNCHANGED <<minted, sent, parent, fate>>,
         \A j \in Tokens : KeepsToken(j),
         \A q \in Procs \ {p} : Keeps(q),
         at'[p] \notin Holding, tok'[p] = None \/ tok'[p] = tok[p]
  PROVE  Books'
<1>1. \A q \in Procs : HandlerOK(q)
  BY DEF Books
<1>2. tok'[p] # None => tok'[p] \in sent
  BY <1>1 DEF HandlerOK
<1>3. ASSUME NEW q \in Procs \ {p}
      PROVE  /\ tok'[q] # None => tok'[q] \in sent
             /\ at'[q] = "clear" => tok[q] = None
             /\ at'[q] = "rotate" => tok[q] # None
             /\ at'[q] = at[q] /\ tok'[q] = tok[q] /\ new'[q] = new[q]
  BY <1>1, SMT DEF HandlerOK, Keeps
<1> QED
  BY <1>2, <1>3, BooksFrame

\* Replays: nothing is handed out, and no Refresh starts.
LEMMA ReplayFrame ==
  ASSUME Replaced, ReplayFails, UNCHANGED <<sent, parent, fate>>, slipped => slipped',
         \A p \in Procs : late'[p] => late[p]
  PROVE  Replaced' /\ ReplayFails'
  BY DEF Replaced, ReplayFails

-----------------------------------------------------------------------------
(* Every step preserves the invariant.                                     *)

LEMMA InitInv == Init => IInv
<1> SUFFICES ASSUME Init PROVE IInv
  OBVIOUS
<1>0. \A k \in Keys : kv[k] = None
  BY DEF Init
<1>1. TypeOK
  <2>1. RedisOK
    BY KeysApart DEF Init, Stored, RedisOK
  <2>2. HandlersOK
    BY DEF Init, Steps, HandlersOK
  <2> QED
    BY <2>1, <2>2, SMT DEF Init, TypeOK
<1>2. Books
  <2>1. \A p \in Procs : HandlerOK(p)
    BY DEF Init, HandlerOK, Holding
  <2>2. Apart
    BY DEF Init, Apart, Holding
  <2>3. \A j \in Tokens : TokenOK(j)
    BY <1>0, KeysApart DEF Init, TokenOK
  <2>4. RevokedStayRevoked /\ SessionSurvives
    BY <1>0, KeysApart DEF Init, RevokedStayRevoked, SessionSurvives
  <2> QED
    BY <2>1, <2>2, <2>3, <2>4 DEF Books
<1>3. Replaced /\ ReplayFails
  BY DEF Init, Replaced, ReplayFails
<1>4. Clock
  BY DEF Init, Clock, Outdated, SessionsClosed
<1>5. Counted /\ LockoutEnds
  BY <1>0, KeysApart, LimitAssumption, SMT DEF Init, Counted, Count, LockoutEnds
<1>6. Responses
  BY DEF Init, Responses
<1> QED
  BY <1>1, <1>2, <1>3, <1>4, <1>5, <1>6 DEF IInv, Core

\* Login: an attempt is let through with the count it was given.
LEMMA LoginStep ==
  ASSUME NEW p \in Procs, IInv, Login(p)
  PROVE  Core'
<1> USE DEF IInv, Core, issued
<1> DEFINE n(o) == IF o = "ok" THEN Count(LoginAttemptsKey) + 1 ELSE 0
<1>0. PICK o \in Outcomes :
        /\ RedisIncr(LoginAttemptsKey, o)
        /\ \/ n(o) = 1 /\ Move(p, "expire") /\ Try
           \/ n(o) # 1 /\ n(o) <= LoginMaxAttempts /\ Move(p, "lookup") /\ Try
           \/ n(o) > LoginMaxAttempts /\ Return(p) /\ UNCHANGED tries
  BY DEF Login
<1>a. /\ at[p] = "idle"
      /\ UNCHANGED <<now, rows, minted, sent, parent, pwd, crossed, fate>>
  BY DEF Login
<1>b. Move(p, "expire") \/ Move(p, "lookup") \/ Return(p)
  BY <1>0
<1>c. HandlersOK /\ RedisOK
  BY DEF TypeOK
<1>e. /\ RedisOK' /\ \A j \in Tokens : KeepsToken(j)
      /\ ~slipped' => ~slipped /\ o = "ok"
  BY <1>0, <1>c, CounterCommand
<1>f. /\ HandlersOK'
      /\ \A q \in Procs \ {p} : Keeps(q)
      /\ at'[p] \in {"expire", "lookup", "idle"} /\ tok'[p] \in {None, tok[p]}
      /\ late'[p] => late[p]
  BY <1>b, <1>c, MoveKeeps, ReturnKeeps DEF Steps
<1>1. TypeOK'
  <2>1. tries' \in Nat
    BY <1>0, LimitAssumption, SMT DEF Try, TypeOK
  <2> QED
    BY <1>a, <1>e, <1>f, <2>1 DEF TypeOK
<1>2. Books'
  <2>1. at'[p] \notin Holding /\ (tok'[p] = None \/ tok'[p] = tok[p])
    BY <1>f DEF Holding
  <2> QED
    BY <1>a, <1>e, <1>f, <2>1, BooksRelease
<1>3. Replaced' /\ ReplayFails'
  BY <1>a, <1>e, <1>f, ReplayFrame DEF Keeps
<1>4. Clock'
  BY <1>a, <1>f, ClockFrame DEF Keeps
<1>5. Counted'
  <2> SUFFICES ASSUME ~slipped'
               PROVE  tries' <= Count(LoginAttemptsKey)' /\ tries' <= LoginMaxAttempts
    BY DEF Counted
  <2>1. /\ ~slipped /\ n(o) = Count(LoginAttemptsKey) + 1
        /\ Count(LoginAttemptsKey) \in Nat
    BY <1>c, <1>e DEF RedisOK, Count
  <2>2. Count(LoginAttemptsKey)' = Count(LoginAttemptsKey) + 1
    <3>1. kv'[LoginAttemptsKey] = Count(LoginAttemptsKey) + 1
      BY <1>0, <1>c, <1>e, KeysApart DEF RedisIncr, RedisOK
    <3> QED
      BY <2>1, <3>1, NoneAssumption, SMT DEF Count
  <2>3. /\ tries <= Count(LoginAttemptsKey) /\ tries <= LoginMaxAttempts
        /\ tries \in Nat /\ LoginMaxAttempts \in Nat \ {0}
    BY <2>1, LimitAssumption DEF Counted, TypeOK
  <2>4. CASE n(o) <= LoginMaxAttempts /\ Try
    BY <2>1, <2>2, <2>3, <2>4, SMT DEF Try
  <2>5. CASE UNCHANGED tries
    BY <2>1, <2>2, <2>3, <2>5, SMT
  <2> QED
    BY <1>0, <2>3, <2>4, <2>5, SMT
<1>6. LockoutEnds'
  <2> SUFFICES ASSUME ~slipped'
               PROVE  LoginAttemptsKey \in volatile' \/ \E q \in Procs : at'[q] = "expire"
    BY DEF LockoutEnds
  <2>1. ~slipped /\ n(o) = Count(LoginAttemptsKey) + 1 /\ volatile' = volatile
    BY <1>0, <1>e DEF RedisIncr
  <2>2. CASE kv[LoginAttemptsKey] = None
    <3>1. n(o) = 1
      BY <2>1, <2>2, SMT DEF Count
    <3>2. Move(p, "expire")
      BY <1>0, <3>1, LimitAssumption, SMT
    <3> QED
      BY <1>c, <3>2 DEF Move, HandlersOK
  <2>3. CASE kv[LoginAttemptsKey] # None
    <3>1. LoginAttemptsKey \in volatile \/ \E q \in Procs : at[q] = "expire"
      BY <2>1, <2>3 DEF LockoutEnds
    <3> QED
      BY <1>a, <1>f, <2>1, <3>1 DEF Keeps
  <2> QED
    BY <2>2, <2>3
<1> QED
  BY <1>1, <1>2, <1>3, <1>4, <1>5, <1>6

\* LoginExpire: the counter gets its TTL, while Redis answers.
LEMMA LoginExpireStep ==
  ASSUME NEW p \in Procs, IInv, LoginExpire(p)
  PROVE  Core'
<1> USE DEF IInv, Core, issued
<1>0. PICK o \in Outcomes : RedisExpire(LoginAttemptsKey, o)
  BY DEF LoginExpire
<1>a. /\ at[p] = "expire" /\ Move(p, "lookup")
      /\ UNCHANGED <<now, rows, minted, sent, parent, pwd, crossed, fate, tries>>
  BY DEF LoginExpire
<1>b. /\ HandlersOK' /\ \A q \in Procs \ {p} : Keeps(q)
      /\ at'[p] = "lookup" /\ tok'[p] = tok[p] /\ late'[p] = late[p]
  BY <1>a, MoveKeeps DEF TypeOK, Steps
<1>c. /\ RedisOK' /\ \A j \in Tokens : KeepsToken(j)
      /\ ~slipped' => ~slipped /\ o = "ok"
  BY <1>0, CounterCommand DEF TypeOK
<1>1. TypeOK'
  BY <1>a, <1>b, <1>c DEF TypeOK
<1>2. Books'
  <2>1. at'[p] \notin Holding /\ (tok'[p] = None \/ tok'[p] = tok[p])
    BY <1>a, <1>b, <1>c DEF Holding
  <2> QED
    BY <1>a, <1>b, <1>c, <2>1, BooksRelease
<1>3. Replaced' /\ ReplayFails'
  BY <1>a, <1>b, <1>c, ReplayFrame DEF Keeps
<1>4. Clock'
  BY <1>a, <1>b, ClockFrame DEF Keeps
<1>5. Counted'
  BY <1>0, <1>a, <1>c DEF Counted, Count, RedisExpire
<1>6. LockoutEnds'
  BY <1>0, <1>c DEF LockoutEnds, RedisExpire
<1> QED
  BY <1>1, <1>2, <1>3, <1>4, <1>5, <1>6

\* LoginLookup: a Login has no token whose session could be closed.
LEMMA LoginLookupStep ==
  ASSUME NEW p \in Procs, IInv, LoginLookup(p)
  PROVE  Core'
<1> USE DEF IInv, Core, issued, redis
<1>a. /\ at[p] = "lookup" /\ tok[p] = None
      /\ UNCHANGED <<kv, volatile, slipped, now, rows, minted, sent, parent, pwd, crossed,
                     fate, tries>>
  BY DEF LoginLookup
<1>b. /\ HandlersOK' /\ \A q \in Procs \ {p} : Keeps(q)
      /\ at'[p] \in {"idle", "mint"} /\ tok'[p] = None
      /\ late'[p] => late[p]
  BY <1>a, LookupKeeps DEF LoginLookup
<1>1. TypeOK'
  BY <1>a, <1>b DEF TypeOK, RedisOK
<1>2. Books'
  <2>1. at'[p] \notin Holding /\ (tok'[p] = None \/ tok'[p] = tok[p])
    BY <1>a, <1>b DEF Holding
  <2>2. \A j \in Tokens : KeepsToken(j)
    BY <1>a DEF KeepsToken
  <2> QED
    BY <1>a, <1>b, <2>1, <2>2, BooksRelease
<1>3. Replaced' /\ ReplayFails'
  BY <1>a, <1>b, ReplayFrame DEF Keeps
<1>4. Clock'
  <2>1. \A j \in Tokens : minted'[j] # None => minted'[j] < now'
    BY <1>a DEF Clock
  <2>2. \A j \in Tokens : Outdated(j)'
    BY <1>a, <1>b DEF Clock, Outdated, Keeps
  <2>3. SessionsClosed'
    BY <1>a, <1>b DEF Clock, SessionsClosed, Keeps
  <2> QED
    BY <2>1, <2>2, <2>3 DEF Clock
<1>5. Counted' /\ LockoutEnds'
  BY <1>a, <1>b, CountFrame DEF KeepsCounter, Keeps
<1> QED
  BY <1>1, <1>2, <1>3, <1>4, <1>5

\* What becomes of a token's key and fate when it is left alone or revoked.
Settled(j) ==
    /\ fate'[j] # "none" => kv'[RefreshKey(j)] = None
    /\ fate'[j] = "none" /\ kv[RefreshKey(j)] # None => kv'[RefreshKey(j)] # None
    /\ kv'[RefreshKey(j)] # None => kv[RefreshKey(j)] # None
    /\ RefreshKey(j) \in volatile' => kv'[RefreshKey(j)] # None

\* Revoke removes one token; the others keep key and fate.
LEMMA RevokeKeeps ==
  ASSUME TypeOK, Books, NEW j \in Tokens, NEW why \in {"rotated", "logout"}, NEW o,
         Revoke(j, why, o)
  PROVE  /\ RedisOK' /\ KeepsCounter
         /\ fate' \in [Tokens -> {"none", "rotated", "logout", "expired"}]
         /\ \A i \in Tokens \ {j} : KeepsToken(i) /\ fate'[i] = fate[i]
         /\ \A i \in Tokens : Settled(i)
         /\ fate'[j] = fate[j] \/ fate'[j] = why
         /\ \A i \in Tokens : fate[i] # "none" => fate'[i] # "none"
         /\ ~slipped' => ~slipped /\ fate'[j] # "none"
<1>0. /\ RedisDel(RefreshKey(j), o)
      /\ fate' = IF o = "lost" \/ fate[j] # "none" THEN fate ELSE [fate EXCEPT ![j] = why]
  BY DEF Revoke
<1>1. /\ RedisOK' /\ KeepsCounter
      /\ ~slipped' => ~slipped /\ o = "ok"
      /\ \A i \in Tokens \ {j} : KeepsToken(i)
  BY <1>0, TokenCommand DEF TypeOK
<1>2. /\ fate' \in [Tokens -> {"none", "rotated", "logout", "expired"}]
      /\ \A i \in Tokens \ {j} : fate'[i] = fate[i]
      /\ fate'[j] = fate[j] \/ fate'[j] = why
      /\ o # "lost" => fate'[j] # "none"
      /\ o = "lost" => fate'[j] = fate[j]
      /\ fate[j] # "none" => fate'[j] # "none"
  BY <1>0 DEF TypeOK
<1>3. Settled(j)
  <2>1. TokenOK(j) /\ (fate[j] # "none" => kv[RefreshKey(j)] = None)
    BY DEF Books, RevokedStayRevoked
  <2>2. CASE o = "lost"
    BY <1>0, <1>2, <2>1, <2>2 DEF RedisDel, Settled, TokenOK
  <2>3. CASE o # "lost"
    <3>1. kv'[RefreshKey(j)] = None /\ RefreshKey(j) \notin volatile'
      BY <1>0, <2>3, KeysApart DEF RedisDel, TypeOK, RedisOK
    <3> QED
      BY <1>2, <2>3, <3>1 DEF Settled
  <2> QED
    BY <2>2, <2>3
<1>4. ASSUME NEW i \in Tokens \ {j} PROVE Settled(i)
  <2>1. TokenOK(i) /\ (fate[i] # "none" => kv[RefreshKey(i)] = None)
    BY DEF Books, RevokedStayRevoked
  <2> QED
    BY <1>1, <1>2, <2>1 DEF Settled, TokenOK, KeepsToken
<1>5. \A i \in Tokens : fate[i] # "none" => fate'[i] # "none"
  BY <1>2
<1>6. \A i \in Tokens : Settled(i)
  BY <1>3, <1>4
<1>7. \A i \in Tokens \ {j} : KeepsToken(i) /\ fate'[i] = fate[i]
  BY <1>1, <1>2
<1>8. ~slipped' => ~slipped /\ fate'[j] # "none"
  BY <1>1, <1>2
<1> QED
  BY <1>1, <1>2, <1>5, <1>6, <1>7, <1>8

\* LoginClear and RefreshRotate return the handler's own pair, to be sent;
\* RefreshRotate has removed the token that it replaces.
LEMMA PairReturned ==
  ASSUME TypeOK, Books, NEW p \in Procs, at[p] \in {"clear", "rotate"}, ReturnPair(p),
         sent' = sent \cup {new[p]}, UNCHANGED <<minted, parent>>,
         NEW gone \in {tok[p], None},
         \A i \in Tokens \ {gone} : KeepsToken(i) /\ fate'[i] = fate[i],
         \A i \in Tokens : Settled(i),
         gone # None => fate'[gone] \in {fate[gone], "rotated"}
  PROVE  Books'
<1>0. /\ HandlerOK(p) /\ new[p] \in Tokens \ sent /\ minted[new[p]] # None
      /\ parent[new[p]] = tok[p] /\ (gone # None => gone \in sent)
      /\ fate[new[p]] \in {"none", "expired"}
  <2>1. HandlerOK(p) /\ new[p] \in Tokens \ sent
    BY DEF Books, HandlerOK, Holding
  <2>2. TokenOK(new[p])
    BY <2>1 DEF Books
  <2> QED
    BY <2>1, <2>2 DEF HandlerOK, Holding, TokenOK
<1>a. /\ \A q \in Procs \ {p} : Keeps(q)
      /\ at'[p] = "answer" /\ tok'[p] = None
  BY ReturnPairKeeps DEF TypeOK
<1>1. ASSUME NEW q \in Procs PROVE HandlerOK(q)'
  <2>1. CASE q = p
    BY <1>a, <2>1 DEF HandlerOK, Holding
  <2>2. CASE q # p
    <3>1. HandlerOK(q) /\ Keeps(q)
      BY <1>a, <2>2 DEF Books
    <3>2. CASE at[q] \in Holding
      <4>1. new[q] \in Tokens \ sent /\ new[q] # new[p] /\ new[q] # gone
        <5>1. Apart /\ at[p] \in Holding
          BY DEF Books, Holding
        <5>2. new[q] \in Tokens \ sent
          BY <3>1, <3>2 DEF HandlerOK
        <5>3. new[q] # new[p]
          BY <2>2, <3>2, <5>1 DEF Apart
        <5> QED
          BY <1>0, <5>2, <5>3, TokenAssumption
      <4>2. KeepsToken(new[q]) /\ fate'[new[q]] = fate[new[q]]
        BY <4>1
      <4> QED
        BY <3>1, <3>2, <4>1, <4>2 DEF HandlerOK, Keeps, KeepsToken, Holding
    <3>3. CASE at[q] \notin Holding
      BY <3>1, <3>3 DEF HandlerOK, Keeps, Holding
    <3> QED
      BY <3>2, <3>3
  <2> QED
    BY <2>1, <2>2
<1>2. Apart'
  <2>1. Apart
    BY DEF Books
  <2>2. \A q \in Procs : at'[q] \in Holding => at[q] \in Holding /\ new'[q] = new[q]
    BY <1>a DEF Keeps, Holding
  <2> QED
    BY <2>1, <2>2, ApartFrame
<1>3. ASSUME NEW i \in Tokens PROVE TokenOK(i)'
  <2>1. TokenOK(i) /\ Settled(i)
    BY DEF Books
  <2>2. CASE i = gone
    BY <1>0, <2>1, <2>2, TokenAssumption DEF TokenOK, Settled
  <2>3. CASE i # gone
    BY <1>0, <2>1, <2>3 DEF TokenOK, Settled
  <2> QED
    BY <2>2, <2>3
<1>4. RevokedStayRevoked'
  BY DEF RevokedStayRevoked, Settled
<1>5. SessionSurvives'
  <2> SUFFICES ASSUME NEW j \in sent'
               PROVE  /\ fate'[j] = "none" => kv'[RefreshKey(j)] # None
                      /\ fate'[j] = "rotated" => Spent(j)'
    BY DEF SessionSurvives
  <2>0. j \in Tokens /\ Settled(j)
    BY <1>0 DEF TypeOK
  <2>1. \A i \in Tokens : Spent(i) => Spent(i)'
    BY DEF Spent
  <2>2. CASE j = gone
    <3>1. j = tok[p] /\ j \in sent /\ gone # None
      BY <1>0, <2>0, <2>2, TokenAssumption
    <3>2. Spent(j)'
      BY <1>0, <3>1 DEF Spent
    <3>3. fate[j] = "none" => kv[RefreshKey(j)] # None
      BY <3>1 DEF Books, SessionSurvives
    <3> QED
      BY <2>0, <2>2, <3>1, <3>2, <3>3 DEF Settled
  <2>3. CASE j # gone /\ j = new[p]
    <3>1. fate'[j] = fate[j] /\ KeepsToken(j)
      BY <2>0, <2>3
    <3> QED
      BY <1>0, <2>3, <3>1 DEF HandlerOK, KeepsToken
  <2>4. CASE j # gone /\ j # new[p]
    <3>1. fate'[j] = fate[j] /\ KeepsToken(j) /\ j \in sent
      BY <2>0, <2>4
    <3>2. /\ fate[j] = "none" => kv[RefreshKey(j)] # None
          /\ fate[j] = "rotated" => Spent(j)
      BY <3>1 DEF Books, SessionSurvives
    <3> QED
      BY <2>0, <2>1, <3>1, <3>2 DEF KeepsToken
  <2> QED
    BY <2>2, <2>3, <2>4
<1> QED
  BY <1>1, <1>2, <1>3, <1>4, <1>5 DEF Books

\* LoginClear: attempts and counter start again together.
LEMMA LoginClearStep ==
  ASSUME NEW p \in Procs, IInv, LoginClear(p)
  PROVE  Core'
<1> USE DEF IInv, Core
<1>0. PICK o \in Outcomes : /\ RedisDel(LoginAttemptsKey, o)
                            /\ tries' = IF o = "lost" THEN tries ELSE 0
  BY DEF LoginClear
<1>a. /\ at[p] = "clear" /\ ReturnPair(p) /\ sent' = sent \cup {new[p]}
      /\ UNCHANGED <<now, rows, minted, parent, pwd, crossed, fate>>
  BY DEF LoginClear, ReturnPair
<1>b. /\ HandlersOK' /\ \A q \in Procs \ {p} : Keeps(q)
      /\ at'[p] = "answer" /\ tok'[p] = None /\ ~late'[p]
  BY <1>a, ReturnPairKeeps DEF TypeOK
<1>c. /\ RedisOK' /\ \A j \in Tokens : KeepsToken(j)
      /\ ~slipped' => ~slipped /\ o = "ok"
  BY <1>0, CounterCommand DEF TypeOK
<1>d. /\ new[p] \in Tokens /\ parent[new[p]] = tok[p] /\ tok[p] = None
  BY <1>a DEF Books, HandlerOK, Holding
<1>1. TypeOK'
  BY <1>0, <1>a, <1>b, <1>c, <1>d DEF TypeOK
<1>2. Books'
  <2>1. \A i \in Tokens : Settled(i)
    BY <1>a, <1>c DEF Books, RevokedStayRevoked, TokenOK, KeepsToken, Settled
  <2> QED
    BY <1>a, <1>c, <2>1, PairReturned
<1>3. Replaced' /\ ReplayFails'
  BY <1>a, <1>b, <1>c, <1>d DEF Replaced, ReplayFails, Keeps
<1>4. Clock'
  BY <1>a, <1>b, ClockFrame DEF Keeps
<1>5. Counted' /\ LockoutEnds'
  <2> SUFFICES ASSUME ~slipped' PROVE Counted' /\ LockoutEnds'
    BY DEF Counted, LockoutEnds
  <2>1. kv'[LoginAttemptsKey] = None /\ tries' = 0
    BY <1>0, <1>c, KeysApart DEF RedisDel, TypeOK, RedisOK
  <2> QED
    BY <2>1, LimitAssumption, SMTT(30) DEF Counted, Count, LockoutEnds
<1> QED
  BY <1>1, <1>2, <1>3, <1>4, <1>5

\* RefreshRotate: the successor is to be sent as the old token goes.
LEMMA RefreshRotateStep ==
  ASSUME NEW p \in Procs, IInv, RefreshRotate(p)
  PROVE  Core'
<1> USE DEF IInv, Core
<1>0. PICK o \in Outcomes : Revoke(tok[p], "rotated", o)
  BY DEF RefreshRotate
<1>a. /\ at[p] = "rotate" /\ ReturnPair(p) /\ sent' = sent \cup {new[p]}
      /\ UNCHANGED <<now, rows, minted, parent, pwd, crossed, tries>>
  BY DEF RefreshRotate, ReturnPair
<1>b. /\ HandlersOK' /\ \A q \in Procs \ {p} : Keeps(q)
      /\ at'[p] = "answer" /\ tok'[p] = None /\ ~late'[p]
  BY <1>a, ReturnPairKeeps DEF TypeOK
<1>c. /\ new[p] \in Tokens /\ parent[new[p]] = tok[p] /\ tok[p] \in sent
      /\ tok[p] \in Tokens
  BY <1>a DEF Books, HandlerOK, Holding, TypeOK
<1>d. /\ RedisOK' /\ KeepsCounter
      /\ fate' \in [Tokens -> {"none", "rotated", "logout", "expired"}]
      /\ \A i \in Tokens \ {tok[p]} : KeepsToken(i) /\ fate'[i] = fate[i]
      /\ \A i \in Tokens : Settled(i)
      /\ fate'[tok[p]] \in {fate[tok[p]], "rotated"}
      /\ \A i \in Tokens : fate[i] # "none" => fate'[i] # "none"
      /\ ~slipped' => ~slipped /\ fate'[tok[p]] # "none"
  BY <1>0, <1>c, RevokeKeeps
<1>1. TypeOK'
  BY <1>a, <1>b, <1>c, <1>d DEF TypeOK
<1>2. Books'
  BY <1>a, <1>d, PairReturned
<1>3. Replaced'
  <2> SUFFICES ASSUME ~slipped', NEW c \in sent', parent[c] # None
               PROVE  fate'[parent[c]] # "none"
    BY <1>a DEF Replaced
  <2>1. CASE c = new[p]
    BY <1>c, <1>d, <2>1
  <2>2. CASE c # new[p]
    <3>1. c \in sent /\ parent[c] \in Tokens
      BY <1>a, <2>2 DEF TypeOK
    <3> QED
      BY <1>d, <3>1 DEF Replaced
  <2> QED
    BY <2>1, <2>2
<1>4. ReplayFails'
  BY <1>b, <1>d DEF ReplayFails, Keeps
<1>5. Clock'
  BY <1>a, <1>b, ClockFrame DEF Keeps
<1>6. Counted' /\ LockoutEnds'
  BY <1>a, <1>b, <1>d, CountFrame DEF Keeps
<1> QED
  BY <1>1, <1>2, <1>3, <1>4, <1>5, <1>6

\* Logout: a token of the client goes, and no other.
LEMMA LogoutStep ==
  ASSUME NEW j \in Tokens, IInv, Logout(j)
  PROVE  Core'
<1> USE DEF IInv, Core
<1>0. PICK o \in Outcomes : Revoke(j, "logout", o)
  BY DEF Logout
<1>a. /\ j \in sent
      /\ UNCHANGED <<now, rows, at, tok, ver, new, stamp, minted, sent, parent, pwd, crossed,
                     late, tries>>
  BY DEF Logout, handler, issued, Responses
<1>d. /\ RedisOK' /\ KeepsCounter
      /\ fate' \in [Tokens -> {"none", "rotated", "logout", "expired"}]
      /\ \A i \in Tokens \ {j} : KeepsToken(i) /\ fate'[i] = fate[i]
      /\ \A i \in Tokens : Settled(i)
      /\ fate'[j] \in {fate[j], "logout"}
      /\ \A i \in Tokens : fate[i] # "none" => fate'[i] # "none"
      /\ ~slipped' => ~slipped /\ fate'[j] # "none"
  BY <1>0, RevokeKeeps
<1>1. TypeOK'
  BY <1>a, <1>d DEF TypeOK, HandlersOK
<1>2. Books'
  <2>1. ASSUME NEW q \in Procs PROVE HandlerOK(q)'
    <3>1. HandlerOK(q)
      BY DEF Books
    <3>2. CASE at[q] \in Holding
      <4>1. KeepsToken(new[q]) /\ fate'[new[q]] = fate[new[q]]
        BY <1>a, <1>d, <3>1, <3>2 DEF HandlerOK
      <4> QED
        BY <1>a, <3>1, <4>1 DEF HandlerOK, KeepsToken
    <3>3. CASE at[q] \notin Holding
      BY <1>a, <3>1, <3>3 DEF HandlerOK, Holding
    <3> QED
      BY <3>2, <3>3
  <2>2. Apart'
    BY <1>a DEF Books, Apart
  <2>3. ASSUME NEW i \in Tokens PROVE TokenOK(i)'
    <3>1. TokenOK(i) /\ Settled(i)
      BY <1>d DEF Books
    <3> QED
      BY <1>a, <1>d, <3>1 DEF TokenOK, Settled
  <2>4. RevokedStayRevoked'
    BY <1>d DEF RevokedStayRevoked, Settled
  <2>5. SessionSurvives'
    <3> SUFFICES ASSUME NEW i \in sent
                 PROVE  /\ fate'[i] = "none" => kv'[RefreshKey(i)] # None
                        /\ fate'[i] = "rotated" => Spent(i)'
      BY <1>a DEF SessionSurvives
    <3>1. i \in Tokens /\ Settled(i)
      BY <1>d DEF TypeOK
    <3>2. /\ fate[i] = "none" => kv[RefreshKey(i)] # None
          /\ fate[i] = "rotated" => Spent(i)
      BY DEF Books, SessionSurvives
    <3>3. /\ fate'[i] = "none" => fate[i] = "none"
          /\ fate'[i] = "rotated" => fate[i] = "rotated"
      BY <1>d, <3>1
    <3> QED
      BY <1>a, <3>1, <3>2, <3>3 DEF Settled, Spent
  <2> QED
    BY <2>1, <2>2, <2>3, <2>4, <2>5 DEF Books
<1>3. Replaced' /\ ReplayFails'
  BY <1>a, <1>d DEF Replaced, ReplayFails, TypeOK
<1>4. Clock'
  BY <1>a, ClockFrame
<1>5. Counted' /\ LockoutEnds'
  BY <1>a, <1>d, CountFrame
<1> QED
  BY <1>1, <1>2, <1>3, <1>4, <1>5

\* MintPair: the new pair is nobody else's, and unless it crosses a password
\* change it is minted for the latest version of the row.
LEMMA MintPairStep ==
  ASSUME NEW p \in Procs, NEW j \in Tokens, IInv, at[p] = "mint", MintPair(p, j),
         UNCHANGED <<kv, volatile, slipped, rows, sent, fate, tries>>
  PROVE  Core'
<1> USE DEF IInv, Core
<1>a. /\ minted[j] = None /\ now \in Nat /\ now' = now + 1
      /\ minted' = [minted EXCEPT ![j] = now]
      /\ new' = [new EXCEPT ![p] = j]
      /\ at' = [at EXCEPT ![p] = "remember"]
      /\ parent' = [parent EXCEPT ![j] = tok[p]]
      /\ pwd' = [pwd EXCEPT ![j] = IF tok[p] = None THEN ver[p] ELSE pwd[tok[p]]]
      /\ UNCHANGED <<tok, ver, stamp, late>>
  BY DEF MintPair, TypeOK
<1>g. now \in Nat /\ now' = now + 1 /\ now' \in Nat
  BY <1>a, SMTT(30)
<1>b. crossed' = IF \/ ver[p] # Len(rows)
                    \/ \E q \in Procs : at[q] = "update"
                    \/ tok[p] \in crossed
                 THEN crossed \cup {j} ELSE crossed
  BY DEF MintPair
<1>c. /\ j \notin sent /\ fate[j] = "none" /\ kv[RefreshKey(j)] = None
      /\ HandlerOK(p)
  BY <1>a DEF Books, TokenOK
<1>d. tok[p] # None => tok[p] \in Tokens /\ tok[p] # j /\ minted[tok[p]] # None
  BY <1>a, <1>c DEF HandlerOK, Books, TokenOK, TypeOK
<1>e. /\ at'[p] = "remember" /\ new'[p] = j
      /\ minted'[j] = now /\ now # None
      /\ parent'[j] = tok[p]
      /\ pwd'[j] = (IF tok[p] = None THEN ver[p] ELSE pwd[tok[p]])
  BY <1>a, NoneAssumption DEF TypeOK, HandlersOK
<1>f. /\ \A q \in Procs \ {p} : at'[q] = at[q] /\ new'[q] = new[q]
      /\ \A i \in Tokens \ {j} :
            minted'[i] = minted[i] /\ parent'[i] = parent[i] /\ pwd'[i] = pwd[i]
  BY <1>a DEF TypeOK, HandlersOK
<1>1. TypeOK'
  <2>1. HandlersOK'
    BY <1>a DEF TypeOK, HandlersOK, Steps
  <2>2. pwd' \in [Tokens -> Nat]
    BY <1>a, <1>d DEF TypeOK, HandlersOK
  <2>3. /\ minted' \in [Tokens -> Nat \cup {None}]
        /\ parent' \in [Tokens -> Tokens \cup {None}]
    BY <1>a DEF TypeOK, HandlersOK
  <2>4. crossed' \subseteq Tokens
    BY <1>b DEF TypeOK
  <2>5. RedisOK'
    BY DEF TypeOK, RedisOK
  <2>6. /\ now' \in Nat /\ rows' \in Seq(Nat) /\ sent' \subseteq Tokens /\ tries' \in Nat
        /\ fate' \in [Tokens -> {"none", "rotated", "logout", "expired"}]
    BY <1>g DEF TypeOK
  <2> HIDE DEF IInv, Core
  <2> QED
    BY <2>1, <2>2, <2>3, <2>4, <2>5, <2>6 DEF TypeOK
<1>2. Books'
  <2>1. ASSUME NEW q \in Procs PROVE HandlerOK(q)'
    <3>1. HandlerOK(q)
      BY DEF Books
    <3>2. CASE q = p
      <4>1. tok'[p] # None => tok'[p] \in sent'
        BY <1>a, <1>c DEF HandlerOK
      <4>2. tok'[p] = tok[p] /\ kv' = kv /\ fate' = fate /\ sent' = sent
        BY <1>a
      <4> HIDE DEF IInv, Core
      <4> QED
        BY <1>c, <1>e, <3>2, <4>1, <4>2 DEF HandlerOK, Holding
    <3>3. CASE q # p /\ at[q] \in Holding
      <4>1. new[q] # j /\ new[q] \in Tokens
        BY <1>a, <3>1, <3>3 DEF HandlerOK
      <4> QED
        <5>1. at'[q] = at[q] /\ new'[q] = new[q] /\ tok'[q] = tok[q]
          BY <1>a, <1>f, <3>3
        <5>2. minted'[new[q]] = minted[new[q]] /\ parent'[new[q]] = parent[new[q]]
          BY <1>f, <4>1
        <5>3. kv' = kv /\ fate' = fate /\ sent' = sent
          OBVIOUS
        <5> HIDE DEF IInv, Core
        <5> QED
          BY <3>1, <3>3, <5>1, <5>2, <5>3 DEF HandlerOK
    <3>4. CASE q # p /\ at[q] \notin Holding
      BY <1>a, <1>f, <3>1, <3>4 DEF HandlerOK, Holding
    <3> QED
      BY <3>2, <3>3, <3>4
  <2>2. Apart'
    <3>1. \A q \in Procs : at[q] \in Holding => new[q] # j
      BY <1>a DEF Books, HandlerOK
    <3>2. Apart
      BY DEF Books
    <3> HIDE DEF IInv, Core
    <3> QED
      <4> SUFFICES ASSUME NEW q \in Procs, NEW r \in Procs,
                          at'[q] \in Holding, at'[r] \in Holding, new'[q] = new'[r]
                   PROVE  q = r
        BY DEF Apart
      <4>1. CASE q # p /\ r # p
        BY <1>f, <3>2, <4>1 DEF Apart
      <4>2. CASE q = p \/ r = p
        BY <1>e, <1>f, <3>1, <4>2
      <4> QED
        BY <4>1, <4>2
  <2>3. ASSUME NEW i \in Tokens PROVE TokenOK(i)'
    <3>1. TokenOK(i)
      BY DEF Books
    <3>2. minted[i] # None => minted'[i] # None
      BY <1>e, <1>f
    <3> QED
      BY <3>1, <3>2 DEF TokenOK
  <2>4. RevokedStayRevoked'
    BY DEF Books, RevokedStayRevoked
  <2>5. SessionSurvives'
    <3>1. ASSUME NEW i \in sent, Spent(i) PROVE Spent(i)'
      BY <1>c, <1>f, <3>1 DEF Spent, TypeOK
    <3> QED
      BY <3>1 DEF Books, SessionSurvives
  <2> QED
    BY <2>1, <2>2, <2>3, <2>4, <2>5 DEF Books
<1>3. Replaced' /\ ReplayFails'
  BY <1>a, <1>c, <1>f DEF Replaced, ReplayFails, TypeOK
<1>4. ASSUME NEW i \in Tokens, minted'[i] # None PROVE minted'[i] < now'
  <2>1. minted[i] # None => minted[i] \in Nat /\ minted[i] < now
    BY DEF Clock, TypeOK
  <2> HIDE DEF IInv, Core
  <2>2. CASE i = j
    BY <1>e, <1>g, <2>2, SMTT(30)
  <2>3. CASE i # j
    BY <1>4, <1>f, <1>g, <2>1, <2>3, SMT
  <2> QED
    BY <2>2, <2>3
<1>5. ASSUME NEW i \in Tokens PROVE Outdated(i)'
  <2> SUFFICES ASSUME minted'[i] # None, i \notin crossed'
               PROVE  /\ \A v \in 1..Len(rows) : v > pwd'[i] => rows[v] > minted'[i]
                      /\ \A q \in Procs : at'[q] = "update" => stamp[q] > minted'[i]
    BY <1>a DEF Outdated
  <2>1. \A q \in Procs : at'[q] = "update" => at[q] = "update"
    BY <1>e, <1>f
  <2>2. CASE i # j
    BY <1>b, <1>f, <2>1, <2>2 DEF Clock, Outdated
  <2>3. CASE i = j
    <3>1. /\ ver[p] = Len(rows) /\ tok[p] \notin crossed
          /\ ~\E q \in Procs : at[q] = "update"
      BY <1>b, <2>3
    <3>2. Len(rows) <= pwd'[j] /\ Len(rows) \in Nat /\ pwd'[j] \in Nat
      <4>1. /\ Len(rows) \in Nat /\ pwd'[j] \in Nat /\ ver[p] \in Nat
            /\ tok[p] # None => ver[p] <= pwd[tok[p]]
        BY <1>1, <3>1, SMTT(30) DEF Clock, SessionsClosed, TypeOK, HandlersOK
      <4> HIDE DEF IInv, Core
      <4> QED
        BY <1>e, <3>1, <4>1, SMTT(30)
    <3> HIDE DEF IInv, Core
    <3> QED
      BY <2>1, <2>3, <3>1, <3>2, SMTT(30)
  <2> QED
    BY <2>2, <2>3
<1>6. SessionsClosed'
  <2> SUFFICES ASSUME NEW q \in Procs, at'[q] = "mint", tok[q] # None, tok[q] \notin crossed'
               PROVE  ver[q] <= pwd'[tok[q]]
    BY <1>a DEF SessionsClosed
  <2>1. q # p /\ at[q] = "mint" /\ tok[q] \notin crossed
    BY <1>b, <1>e, <1>f
  <2>2. tok[q] \in Tokens /\ tok[q] # j
    BY <1>a DEF Books, HandlerOK, TokenOK, TypeOK
  <2> QED
    BY <1>f, <2>1, <2>2 DEF Clock, SessionsClosed
<1>7. Counted' /\ LockoutEnds'
  BY <1>e, <1>f, CountFrame DEF KeepsCounter
<1> QED
  BY <1>1, <1>2, <1>3, <1>4, <1>5, <1>6, <1>7 DEF Clock

\* A handler that only returns.
LEMMA ReturnStep ==
  ASSUME NEW p \in Procs, IInv, Return(p), at[p] # "expire",
         UNCHANGED <<kv, volatile, slipped, now, rows, minted, sent, parent, pwd, crossed,
                     fate, tries>>
  PROVE  Core'
<1> USE DEF IInv, Core
<1>b. /\ HandlersOK' /\ \A q \in Procs \ {p} : Keeps(q)
      /\ at'[p] = "idle" /\ tok'[p] = None /\ ~late'[p]
  BY ReturnKeeps DEF TypeOK
<1>1. TypeOK'
  BY <1>b DEF TypeOK, RedisOK
<1>2. Books'
  <2>1. at'[p] \notin Holding /\ (tok'[p] = None \/ tok'[p] = tok[p])
    BY <1>b DEF Holding
  <2>2. \A j \in Tokens : KeepsToken(j)
    BY DEF KeepsToken
  <2> QED
    BY <1>b, <2>1, <2>2, BooksRelease
<1>3. Replaced' /\ ReplayFails'
  BY <1>b, ReplayFrame DEF Keeps
<1>4. Clock'
  BY <1>b, ClockFrame DEF Keeps
<1>5. Counted' /\ LockoutEnds'
  BY <1>b, CountFrame DEF KeepsCounter, Keeps
<1> QED
  BY <1>1, <1>2, <1>3, <1>4, <1>5

LEMMA MintStep ==
  ASSUME NEW p \in Procs, IInv, Mint(p)
  PROVE  Core'
<1>1. CASE Return(p) /\ UNCHANGED <<now, issued>>
  BY <1>1, ReturnStep DEF Mint, issued, redis
<1>2. ASSUME NEW j \in Tokens, MintPair(p, j), UNCHANGED sent
      PROVE  Core'
  BY <1>2, MintPairStep DEF Mint, redis
<1> QED
  BY <1>1, <1>2 DEF Mint

\* Remember: the pair that is stored has not been touched by anybody.
LEMMA RememberStep ==
  ASSUME NEW p \in Procs, IInv, Remember(p)
  PROVE  Core'
<1> USE DEF IInv, Core
<1> DEFINE j == new[p]
<1>0. PICK o \in Outcomes : /\ RedisSet(RefreshKey(j), j, o)
                            /\ IF o = "ok" THEN Move(p, "ttl") ELSE Return(p)
  BY DEF Remember
<1>a. /\ at[p] = "remember"
      /\ UNCHANGED <<now, rows, minted, sent, parent, pwd, crossed, fate, tries>>
  BY DEF Remember, issued
<1>b. /\ HandlersOK' /\ \A q \in Procs \ {p} : Keeps(q)
      /\ \/ at'[p] = "idle" /\ tok'[p] = None
         \/ at'[p] = "ttl" /\ o = "ok" /\ tok'[p] = tok[p] /\ new'[p] = j
      /\ late'[p] => late[p]
  BY <1>0, MoveKeeps, ReturnKeeps DEF TypeOK, Steps
<1>c. /\ HandlerOK(p) /\ j \in Tokens \ sent /\ minted[j] # None
      /\ fate[j] = "none" /\ kv[RefreshKey(j)] = None
  BY <1>a DEF Books, HandlerOK, Holding
<1>d. /\ RedisOK' /\ KeepsCounter
      /\ ~slipped' => ~slipped /\ o = "ok"
      /\ \A i \in Tokens \ {j} : KeepsToken(i)
  BY <1>0, <1>c, TokenCommand DEF TypeOK
<1>e. /\ o = "ok" => kv'[RefreshKey(j)] # None
      /\ RefreshKey(j) \in volatile' => kv'[RefreshKey(j)] # None
  BY <1>0, <1>c, KeysApart, TokenAssumption DEF RedisSet, TypeOK, RedisOK, Books, TokenOK
<1>1. TypeOK'
  BY <1>a, <1>b, <1>d DEF TypeOK
<1>2. Books'
  <2>1. ASSUME NEW q \in Procs PROVE HandlerOK(q)'
    <3>1. HandlerOK(q)
      BY DEF Books
    <3>2. CASE q = p
      BY <1>a, <1>b, <1>c, <1>e, <3>1, <3>2 DEF HandlerOK, Holding
    <3>3. CASE q # p /\ at[q] \in Holding
      <4>1. new[q] \in Tokens /\ new[q] # j
        BY <1>a, <3>1, <3>3 DEF HandlerOK, Books, Apart, Holding
      <4>2. KeepsToken(new[q]) /\ Keeps(q)
        BY <1>b, <1>d, <3>3, <4>1
      <4> QED
        BY <1>a, <3>1, <3>3, <4>2 DEF HandlerOK, KeepsToken, Keeps
    <3>4. CASE q # p /\ at[q] \notin Holding
      BY <1>a, <1>b, <3>1, <3>4 DEF HandlerOK, Holding, Keeps
    <3> QED
      BY <3>2, <3>3, <3>4
  <2>2. Apart'
    <3>1. Apart
      BY DEF Books
    <3>2. at'[p] \in Holding => at[p] \in Holding /\ new'[p] = new[p]
      BY <1>a, <1>b DEF Holding
    <3>3. \A q \in Procs \ {p} : at'[q] = at[q] /\ new'[q] = new[q]
      BY <1>b DEF Keeps
    <3> HIDE DEF IInv, Core
    <3> QED
      BY <3>1, <3>2, <3>3, ApartFrame
  <2>3. ASSUME NEW i \in Tokens PROVE TokenOK(i)'
    <3>1. TokenOK(i)
      BY DEF Books
    <3> QED
      BY <1>a, <1>c, <1>d, <1>e, <3>1 DEF TokenOK, KeepsToken
  <2>4. RevokedStayRevoked'
    BY <1>a, <1>c, <1>d DEF Books, RevokedStayRevoked, KeepsToken
  <2>5. SessionSurvives'
    <3> SUFFICES ASSUME NEW i \in sent
                 PROVE  /\ fate[i] = "none" => kv'[RefreshKey(i)] # None
                        /\ fate[i] = "rotated" => Spent(i)'
      BY <1>a DEF SessionSurvives
    <3>1. i \in Tokens \ {j} /\ KeepsToken(i)
      BY <1>c, <1>d DEF TypeOK
    <3>2. /\ fate[i] = "none" => kv[RefreshKey(i)] # None
          /\ fate[i] = "rotated" => Spent(i)
      BY DEF Books, SessionSurvives
    <3> QED
      BY <1>a, <3>1, <3>2 DEF KeepsToken, Spent
  <2> QED
    BY <2>1, <2>2, <2>3, <2>4, <2>5 DEF Books
<1>3. Replaced' /\ ReplayFails'
  BY <1>a, <1>b, <1>d, ReplayFrame DEF Keeps
<1>4. Clock'
  BY <1>a, <1>b, ClockFrame DEF Keeps
<1>5. Counted' /\ LockoutEnds'
  BY <1>a, <1>b, <1>d, CountFrame DEF Keeps
<1> QED
  BY <1>1, <1>2, <1>3, <1>4, <1>5

\* RememberTTL: Expire does nothing to a key that is gone.
LEMMA RememberTTLStep ==
  ASSUME NEW p \in Procs, IInv, RememberTTL(p)
  PROVE  Core'
<1> USE DEF IInv, Core
<1> DEFINE j == new[p]
<1>0. PICK o \in Outcomes :
        /\ RedisExpire(RefreshKey(j), o)
        /\ IF o = "ok" THEN Move(p, IF tok[p] = None THEN "clear" ELSE "rotate")
           ELSE Return(p)
  BY DEF RememberTTL
<1>a. /\ at[p] = "ttl"
      /\ UNCHANGED <<now, rows, minted, sent, parent, pwd, crossed, fate, tries>>
  BY DEF RememberTTL, issued
<1>b. /\ HandlersOK' /\ \A q \in Procs \ {p} : Keeps(q)
      /\ \/ at'[p] = "idle" /\ tok'[p] = None
         \/ /\ at'[p] = IF tok[p] = None THEN "clear" ELSE "rotate"
            /\ tok'[p] = tok[p] /\ new'[p] = j
      /\ late'[p] => late[p]
  BY <1>0, MoveKeeps, ReturnKeeps DEF TypeOK, Steps
<1>c. HandlerOK(p) /\ j \in Tokens \ sent
  BY <1>a DEF Books, HandlerOK, Holding
<1>d. /\ RedisOK' /\ KeepsCounter
      /\ ~slipped' => ~slipped /\ o = "ok"
  <2>1. RedisOK /\ new[p] \in Tokens
    BY <1>c DEF TypeOK
  <2>2. RedisExpire(RefreshKey(new[p]), o)
    BY <1>0
  <2> HIDE DEF IInv, Core, j
  <2> QED
    BY <2>1, <2>2, TokenCommand, SMT
<1>e. /\ UNCHANGED kv
      /\ volatile' = volatile
            \/ (kv[RefreshKey(j)] # None /\ volatile' = volatile \cup {RefreshKey(j)})
  BY <1>0 DEF RedisExpire
<1>1. TypeOK'
  BY <1>a, <1>b, <1>d DEF TypeOK
<1>2. Books'
  <2>1. ASSUME NEW q \in Procs PROVE HandlerOK(q)'
    <3>1. HandlerOK(q)
      BY DEF Books
    <3> HIDE DEF IInv, Core
    <3>2. CASE q = p
      BY <1>a, <1>b, <1>e, <3>1, <3>2 DEF HandlerOK, Holding
    <3>3. CASE q # p
      <4>1. Keeps(q)
        BY <1>b, <3>3
      <4> QED
        BY <1>a, <1>e, <3>1, <4>1 DEF HandlerOK, Keeps
    <3> QED
      BY <3>2, <3>3
  <2>2. Apart'
    <3>1. Apart
      BY DEF Books
    <3>2. at'[p] \in Holding => at[p] \in Holding /\ new'[p] = new[p]
      BY <1>a, <1>b DEF Holding
    <3>3. \A q \in Procs \ {p} : at'[q] = at[q] /\ new'[q] = new[q]
      BY <1>b DEF Keeps
    <3> HIDE DEF IInv, Core
    <3> QED
      BY <3>1, <3>2, <3>3, ApartFrame
  <2>3. ASSUME NEW i \in Tokens PROVE TokenOK(i)'
    <3>1. TokenOK(i)
      BY DEF Books
    <3>2. RefreshKey(i) \in volatile' => kv[RefreshKey(i)] # None
      BY <1>c, <1>e, <3>1, KeysApart DEF TokenOK
    <3> QED
      BY <1>a, <1>e, <3>1, <3>2 DEF TokenOK
  <2>4. RevokedStayRevoked' /\ SessionSurvives'
    BY <1>a, <1>e DEF Books, RevokedStayRevoked, SessionSurvives, Spent
  <2> QED
    BY <2>1, <2>2, <2>3, <2>4 DEF Books
<1>3. Replaced' /\ ReplayFails'
  BY <1>a, <1>b, <1>d, ReplayFrame DEF Keeps
<1>4. Clock'
  BY <1>a, <1>b, ClockFrame DEF Keeps
<1>5. Counted' /\ LockoutEnds'
  BY <1>a, <1>b, <1>d, CountFrame DEF Keeps
<1> QED
  BY <1>1, <1>2, <1>3, <1>4, <1>5

\* Refresh: a live token has no successor and was not logged out.
LEMMA RefreshStep ==
  ASSUME NEW p \in Procs, NEW j \in Tokens, IInv, Refresh(p, j)
  PROVE  Core'
<1> USE DEF IInv, Core
<1>a. /\ at[p] = "idle" /\ j \in sent /\ kv[RefreshKey(j)] # None
      /\ at' = [at EXCEPT ![p] = "lookup"]
      /\ tok' = [tok EXCEPT ![p] = j]
      /\ late' = [late EXCEPT ![p] = Spent(j) \/ fate[j] = "logout"]
      /\ UNCHANGED <<kv, volatile, slipped, now, rows, ver, new, stamp, minted, sent, parent,
                     pwd, crossed, fate, tries>>
  BY DEF Refresh, redis, issued, Responses
<1>b. /\ at' \in [Procs -> Steps] /\ tok' \in [Procs -> Tokens \cup {None}]
      /\ at'[p] = "lookup" /\ tok'[p] = j
      /\ \A q \in Procs \ {p} : at'[q] = at[q] /\ tok'[q] = tok[q] /\ late'[q] = late[q]
  BY <1>a DEF TypeOK, HandlersOK, Steps
<1>1. TypeOK'
  <2>1. late' \in [Procs -> BOOLEAN]
    <3>1. (Spent(j) \/ fate[j] = "logout") \in BOOLEAN
      BY DEF Spent
    <3> QED
      BY <1>a, <3>1 DEF TypeOK, HandlersOK
  <2> QED
    BY <1>a, <1>b, <2>1 DEF TypeOK, HandlersOK, RedisOK
<1>2. Books'
  <2>1. \A q \in Procs : HandlerOK(q)
    BY DEF Books
  <2> QED
    BY <1>a, <1>b, <2>1, BooksFrame DEF HandlerOK, Holding, KeepsToken
<1>3. Replaced' /\ ReplayFails'
  <2>1. fate[j] = "none"
    BY <1>a DEF Books, RevokedStayRevoked
  <2>2. ~slipped => ~Spent(j)
    BY <2>1, TokenAssumption DEF Replaced, Spent
  <2>3. ~slipped => ~late'[p]
    BY <1>a, <2>1, <2>2 DEF TypeOK, HandlersOK
  <2> QED
    BY <1>a, <1>b, <2>3 DEF Replaced, ReplayFails
<1>4. Clock'
  BY <1>a, <1>b, ClockFrame
<1>5. Counted' /\ LockoutEnds'
  BY <1>a, <1>b, CountFrame DEF KeepsCounter
<1> QED
  BY <1>1, <1>2, <1>3, <1>4, <1>5

\* RefreshLookup: the cutoff of a later password is after the token's iat.
LEMMA RefreshLookupStep ==
  ASSUME NEW p \in Procs, IInv, RefreshLookup(p)
  PROVE  Core'
<1> USE DEF IInv, Core
<1>a. /\ at[p] = "lookup" /\ tok[p] # None
      /\ UNCHANGED <<kv, volatile, slipped, now, rows, minted, sent, parent, pwd, crossed,
                     fate, tries>>
  BY DEF RefreshLookup, redis, issued
<1>b. \/ Return(p)
      \/ \E v \in 1..Len(rows) : /\ ~Revoked(tok[p], v)
                                 /\ ver' = [ver EXCEPT ![p] = v]
                                 /\ at' = [at EXCEPT ![p] = "mint"]
                                 /\ UNCHANGED <<tok, new, stamp, late>>
  BY DEF RefreshLookup
<1>c. /\ HandlersOK' /\ \A q \in Procs \ {p} : Keeps(q)
      /\ \/ at'[p] = "idle" /\ tok'[p] = None
         \/ at'[p] = "mint" /\ tok'[p] = tok[p]
      /\ late'[p] => late[p]
  BY <1>b, LookupKeeps
<1>1. TypeOK'
  BY <1>a, <1>c DEF TypeOK, RedisOK
<1>2. Books'
  <2>1. at'[p] \notin Holding /\ (tok'[p] = None \/ tok'[p] = tok[p])
    BY <1>a, <1>c DEF Holding
  <2>2. \A j \in Tokens : KeepsToken(j)
    BY <1>a DEF KeepsToken
  <2> QED
    BY <1>a, <1>c, <2>1, <2>2, BooksRelease
<1>3. Replaced' /\ ReplayFails'
  BY <1>a, <1>c, ReplayFrame DEF Keeps
<1>4. \A j \in Tokens : minted'[j] # None => minted'[j] < now'
  BY <1>a DEF Clock
<1>5. \A j \in Tokens : Outdated(j)'
  BY <1>a, <1>c DEF Clock, Outdated, Keeps
<1>6. ASSUME at'[p] = "mint", tok[p] \notin crossed
      PROVE  ver'[p] <= pwd[tok[p]]
  <2>1. PICK v \in 1..Len(rows) : ~Revoked(tok[p], v) /\ ver' = [ver EXCEPT ![p] = v]
    BY <1>b, <1>6, ReturnKeeps DEF TypeOK
  <2>2. tok[p] \in sent /\ tok[p] \in Tokens
    BY <1>a DEF Books, HandlerOK, TypeOK
  <2>3. minted[tok[p]] \in Nat /\ minted[tok[p]] # None
    BY <2>2 DEF Books, TokenOK, TypeOK
  <2>4. v > pwd[tok[p]] => rows[v] > minted[tok[p]]
    BY <1>6, <2>2, <2>3 DEF Clock, Outdated
  <2>5. IssuedAt(tok[p]) \in Nat /\ IssuedAt(tok[p]) <= minted[tok[p]]
    BY <2>2, <2>3, IssuedBefore
  <2>6. rows[v] \in Nat /\ pwd[tok[p]] \in Nat /\ v \in Nat
    BY <2>2, SMT DEF TypeOK
  <2>7. ~(v > pwd[tok[p]])
    BY <2>1, <2>3, <2>4, <2>5, <2>6, SMT DEF Revoked
  <2>8. ver'[p] = v
    BY <2>1 DEF TypeOK, HandlersOK
  <2> QED
    <3> HIDE DEF IInv, Core
    <3> QED
      BY <2>6, <2>7, <2>8, SMT
<1>7. SessionsClosed'
  BY <1>a, <1>c, <1>6 DEF Clock, SessionsClosed, Keeps
<1>8. Counted' /\ LockoutEnds'
  BY <1>a, <1>c, CountFrame DEF KeepsCounter, Keeps
<1> QED
  BY <1>1, <1>2, <1>3, <1>4, <1>5, <1>7, <1>8 DEF Clock

\* ChangePassword: the stamp is later than every pair minted so far.
LEMMA ChangePasswordStep ==
  ASSUME NEW p \in Procs, IInv, ChangePassword(p)
  PROVE  Core'
<1> USE DEF IInv, Core
<1>a. /\ at[p] = "idle" /\ now \in Nat /\ now' = now + 1
      /\ at' = [at EXCEPT ![p] = "update"]
      /\ stamp' = [stamp EXCEPT ![p] = now]
      /\ UNCHANGED <<kv, volatile, slipped, rows, tok, ver, new, minted, sent, parent, pwd,
                     crossed, fate, late, tries>>
  BY DEF ChangePassword, redis, issued, TypeOK
<1>b. /\ at' \in [Procs -> Steps] /\ stamp' \in [Procs -> Nat]
      /\ at'[p] = "update" /\ stamp'[p] = now
      /\ \A q \in Procs \ {p} : at'[q] = at[q] /\ stamp'[q] = stamp[q]
  BY <1>a DEF TypeOK, HandlersOK, Steps
<1>1. TypeOK'
  <2>1. HandlersOK'
    BY <1>a, <1>b DEF TypeOK, HandlersOK
  <2>2. RedisOK'
    BY <1>a DEF TypeOK, RedisOK
  <2>3. now' \in Nat
    BY <1>a, SMT
  <2> QED
    BY <1>a, <2>1, <2>2, <2>3 DEF TypeOK
<1>2. Books'
  <2>1. \A q \in Procs : HandlerOK(q)
    BY DEF Books
  <2> QED
    BY <1>a, <1>b, <2>1, BooksFrame DEF HandlerOK, Holding, KeepsToken
<1>3. Replaced' /\ ReplayFails'
  BY <1>a, ReplayFrame
<1>4. \A j \in Tokens : minted'[j] # None => minted'[j] < now'
  BY <1>a, SMT DEF Clock, TypeOK
<1>5. \A j \in Tokens : Outdated(j)'
  BY <1>a, <1>b DEF Clock, Outdated
<1>6. SessionsClosed'
  BY <1>a, <1>b DEF Clock, SessionsClosed
<1>7. Counted' /\ LockoutEnds'
  BY <1>a, <1>b, CountFrame DEF KeepsCounter
<1> QED
  BY <1>1, <1>2, <1>3, <1>4, <1>5, <1>6, <1>7 DEF Clock

\* ChangeUpdate: what is committed is a stamp.
LEMMA ChangeUpdateStep ==
  ASSUME NEW p \in Procs, IInv, ChangeUpdate(p)
  PROVE  Core'
<1> USE DEF IInv, Core
<1>a. /\ at[p] = "update" /\ Return(p)
      /\ rows' = Append(rows, stamp[p]) \/ rows' = rows
      /\ UNCHANGED <<kv, volatile, slipped, now, minted, sent, parent, pwd, crossed, fate,
                     tries>>
  BY DEF ChangeUpdate, redis, issued
<1>b. /\ HandlersOK' /\ \A q \in Procs \ {p} : Keeps(q)
      /\ at'[p] = "idle" /\ tok'[p] = None /\ ~late'[p]
  BY <1>a, ReturnKeeps DEF TypeOK
<1>c. stamp[p] \in Nat /\ rows \in Seq(Nat)
  BY DEF TypeOK, HandlersOK
<1>1. TypeOK'
  <2>1. rows' \in Seq(Nat)
    <3> HIDE DEF IInv, Core
    <3> QED
      BY <1>a, <1>c, SMT
  <2> QED
    BY <1>a, <1>b, <2>1 DEF TypeOK, RedisOK
<1>2. Books'
  <2>1. at'[p] \notin Holding /\ (tok'[p] = None \/ tok'[p] = tok[p])
    BY <1>a, <1>b DEF Holding
  <2>2. \A j \in Tokens : KeepsToken(j)
    BY <1>a DEF KeepsToken
  <2> QED
    BY <1>a, <1>b, <2>1, <2>2, BooksRelease
<1>3. Replaced' /\ ReplayFails'
  BY <1>a, <1>b, ReplayFrame DEF Keeps
<1>4. \A j \in Tokens : minted'[j] # None => minted'[j] < now'
  BY <1>a DEF Clock
<1>5. ASSUME NEW j \in Tokens PROVE Outdated(j)'
  <2> SUFFICES ASSUME minted[j] # None, j \notin crossed
               PROVE  /\ \A v \in 1..Len(rows') : v > pwd[j] => rows'[v] > minted[j]
                      /\ \A q \in Procs : at'[q] = "update" => stamp'[q] > minted[j]
    BY <1>a DEF Outdated
  <2>1. /\ \A v \in 1..Len(rows) : v > pwd[j] => rows[v] > minted[j]
        /\ \A q \in Procs : at[q] = "update" => stamp[q] > minted[j]
    BY DEF Clock, Outdated
  <2>2. \A v \in 1..Len(rows') : rows'[v] = stamp[p] \/ (v \in 1..Len(rows) /\ rows'[v] = rows[v])
    BY <1>a, <1>c, SMT
  <2>3. \A v \in 1..Len(rows') : v > pwd[j] => rows'[v] > minted[j]
    BY <1>a, <2>1, <2>2
  <2>4. \A q \in Procs : at'[q] = "update" => stamp'[q] > minted[j]
    BY <1>b, <2>1 DEF Keeps
  <2> QED
    BY <2>3, <2>4
<1>6. SessionsClosed'
  BY <1>a, <1>b DEF Clock, SessionsClosed, Keeps
<1>7. Counted' /\ LockoutEnds'
  BY <1>a, <1>b, CountFrame DEF KeepsCounter, Keeps
<1> QED
  BY <1>1, <1>2, <1>3, <1>4, <1>5, <1>6, <1>7 DEF Clock

\* LapseRefresh: a pair about to be stored has no TTL that could run out.
LEMMA LapseRefreshStep ==
  ASSUME NEW j \in Tokens, IInv, LapseRefresh(j)
  PROVE  Core'
<1> USE DEF IInv, Core
<1>a. /\ RefreshKey(j) \in volatile
      /\ kv' = [kv EXCEPT ![RefreshKey(j)] = None]
      /\ volatile' = volatile \ {RefreshKey(j)}
      /\ fate' = [fate EXCEPT ![j] = "expired"]
      /\ UNCHANGED <<slipped, now, rows, at, tok, ver, new, stamp, minted, sent, parent, pwd,
                     crossed, late, tries>>
  BY DEF LapseRefresh, RedisLapse, handler, issued
<1>b. kv[RefreshKey(j)] # None /\ minted[j] # None
  BY <1>a DEF Books, TokenOK
<1>c. /\ RedisOK' /\ KeepsCounter
      /\ kv'[RefreshKey(j)] = None /\ RefreshKey(j) \notin volatile'
      /\ \A i \in Tokens \ {j} : KeepsToken(i)
  BY <1>a, KeysApart DEF TypeOK, RedisOK, Stored, KeepsCounter, KeepsToken
<1>d. /\ fate' \in [Tokens -> {"none", "rotated", "logout", "expired"}]
      /\ fate'[j] = "expired" /\ \A i \in Tokens \ {j} : fate'[i] = fate[i]
  BY <1>a DEF TypeOK
<1>1. TypeOK'
  BY <1>a, <1>c, <1>d DEF TypeOK, HandlersOK
<1>2. Books'
  <2>1. ASSUME NEW q \in Procs PROVE HandlerOK(q)'
    <3>1. HandlerOK(q)
      BY DEF Books
    <3>2. CASE at[q] \in Holding /\ new[q] # j
      <4>1. KeepsToken(new[q]) /\ fate'[new[q]] = fate[new[q]]
        BY <1>c, <1>d, <3>1, <3>2 DEF HandlerOK
      <4> QED
        BY <1>a, <3>1, <4>1 DEF HandlerOK, KeepsToken
    <3>3. CASE at[q] \in Holding /\ new[q] = j
      BY <1>a, <1>b, <1>d, <3>1, <3>3 DEF HandlerOK
    <3>4. CASE at[q] \notin Holding
      BY <1>a, <3>1, <3>4 DEF HandlerOK, Holding
    <3> QED
      BY <3>2, <3>3, <3>4
  <2>2. Apart'
    BY <1>a DEF Books, Apart
  <2>3. ASSUME NEW i \in Tokens PROVE TokenOK(i)'
    <3>1. TokenOK(i)
      BY DEF Books
    <3>2. CASE i = j
      BY <1>a, <1>b, <1>c, <1>d, <3>1, <3>2 DEF TokenOK
    <3>3. CASE i # j
      BY <1>a, <1>c, <1>d, <3>1, <3>3 DEF TokenOK, KeepsToken
    <3> QED
      BY <3>2, <3>3
  <2>4. RevokedStayRevoked'
    BY <1>c, <1>d DEF Books, RevokedStayRevoked, KeepsToken
  <2>5. SessionSurvives'
    <3> SUFFICES ASSUME NEW i \in sent
                 PROVE  /\ fate'[i] = "none" => kv'[RefreshKey(i)] # None
                        /\ fate'[i] = "rotated" => Spent(i)'
      BY <1>a DEF SessionSurvives
    <3>1. CASE i = j
      BY <1>d, <3>1
    <3>2. CASE i # j
      <4>1. fate'[i] = fate[i] /\ KeepsToken(i)
        BY <1>c, <1>d, <3>2 DEF TypeOK
      <4>2. /\ fate[i] = "none" => kv[RefreshKey(i)] # None
            /\ fate[i] = "rotated" => Spent(i)
        BY DEF Books, SessionSurvives
      <4> QED
        BY <1>a, <4>1, <4>2 DEF KeepsToken, Spent
    <3> QED
      BY <3>1, <3>2
  <2> QED
    BY <2>1, <2>2, <2>3, <2>4, <2>5 DEF Books
<1>3. Replaced' /\ ReplayFails'
  <2>1. \A c \in sent : parent[c] # None => parent[c] \in Tokens
    BY DEF TypeOK
  <2>2. \A i \in Tokens : fate[i] # "none" => fate'[i] # "none"
    BY <1>d
  <2>3. UNCHANGED <<slipped, sent, parent, late>>
    BY <1>a
  <2>4. Replaced /\ ReplayFails
    OBVIOUS
  <2> HIDE DEF IInv, Core
  <2> QED
    BY <2>1, <2>2, <2>3, <2>4 DEF Replaced, ReplayFails
<1>4. Clock'
  BY <1>a, ClockFrame
<1>5. Counted' /\ LockoutEnds'
  BY <1>a, <1>c, CountFrame
<1> QED
  BY <1>1, <1>2, <1>3, <1>4, <1>5

\* LapseAttempts: the counter is gone, and the attempts count from zero.
LEMMA LapseAttemptsStep ==
  ASSUME IInv, LapseAttempts
  PROVE  Core'
<1> USE DEF IInv, Core
<1>a. /\ kv' = [kv EXCEPT ![LoginAttemptsKey] = None]
      /\ volatile' = volatile \ {LoginAttemptsKey} /\ tries' = 0
      /\ UNCHANGED <<slipped, now, rows, at, tok, ver, new, stamp, minted, sent, parent, pwd,
                     crossed, fate, late>>
  BY DEF LapseAttempts, RedisLapse, handler, issued
<1>b. /\ RedisOK' /\ kv'[LoginAttemptsKey] = None
      /\ \A j \in Tokens : KeepsToken(j)
  BY <1>a, KeysApart DEF TypeOK, RedisOK, Stored, KeepsToken
<1>1. TypeOK'
  BY <1>a, <1>b DEF TypeOK, HandlersOK
<1>2. Books'
  <2>1. \A q \in Procs : HandlerOK(q)
    BY DEF Books
  <2> QED
    BY <1>a, <1>b, <2>1, BooksFrame DEF HandlerOK, Holding
<1>3. Replaced' /\ ReplayFails'
  BY <1>a, ReplayFrame
<1>4. Clock'
  BY <1>a, ClockFrame
<1>5. Counted' /\ LockoutEnds'
  BY <1>a, <1>b, LimitAssumption, SMT DEF Counted, Count, LockoutEnds
<1> QED
  BY <1>1, <1>2, <1>3, <1>4, <1>5

\* Tick, or no step at all.
LEMMA IdleStep ==
  ASSUME IInv, now' = now \/ now' = now + 1,
         UNCHANGED <<kv, volatile, slipped, rows, at, tok, ver, new, stamp, minted, sent,
                     parent, pwd, crossed, fate, late, tries>>
  PROVE  Core'
<1> USE DEF IInv, Core
<1>1. TypeOK'
  <2>1. RedisOK'
    BY DEF TypeOK, RedisOK
  <2>2. HandlersOK'
    BY DEF TypeOK, HandlersOK
  <2> QED
    BY <2>1, <2>2, SMT DEF TypeOK
<1>2. Books'
  <2>1. \A q \in Procs : HandlerOK(q)
    BY DEF Books
  <2> QED
    BY <2>1, BooksFrame DEF HandlerOK, Holding, KeepsToken
<1>3. Replaced' /\ ReplayFails'
  BY ReplayFrame
<1>4. Clock'
  BY ClockFrame
<1>5. Counted' /\ LockoutEnds'
  BY CountFrame DEF KeepsCounter
<1> QED
  BY <1>1, <1>2, <1>3, <1>4, <1>5

\* Restart: a pair in hand is lost, stored or not; no client knows of it.
LEMMA RestartStep ==
  ASSUME IInv, Restart
  PROVE  Core'
<1> USE DEF IInv, Core
<1>a. /\ slipped' = TRUE
      /\ at' = [q \in Procs |-> "idle"] /\ tok' = [q \in Procs |-> None]
      /\ ver' = [q \in Procs |-> 1] /\ new' = [q \in Procs |-> None]
      /\ stamp' = [q \in Procs |-> 0] /\ late' = [q \in Procs |-> FALSE]
      /\ UNCHANGED <<kv, volatile, now, rows, minted, sent, parent, pwd, crossed, fate, tries>>
  BY DEF Restart, RedisCrash, issued
<1>1. TypeOK'
  <2>1. HandlersOK'
    BY <1>a DEF HandlersOK, Steps
  <2> QED
    BY <1>a, <2>1 DEF TypeOK, RedisOK
<1>2. Books'
  BY <1>a, BooksFrame DEF Holding, KeepsToken
<1>3. Replaced' /\ ReplayFails' /\ Counted' /\ LockoutEnds'
  BY <1>a DEF Replaced, ReplayFails, Counted, LockoutEnds
<1>4. Clock'
  BY <1>a, ClockFrame
<1> QED
  BY <1>1, <1>2, <1>3, <1>4

\* Answer: the response with the pair arrives, or not.
LEMMA AnswerStep ==
  ASSUME NEW p \in Procs, IInv, Answer(p)
  PROVE  Core'
  BY ReturnStep DEF Answer, redis

\* What a client gets was sent before.
LEMMA ResponsesStep ==
  ASSUME IInv, [Next]_vars
  PROVE  Responses'
<1> USE DEF Responses
<1>0. /\ HandlersOK /\ known \subseteq sent
      /\ \A q \in Procs : at[q] = "answer" => new[q] \in sent
      /\ \A q \in Procs : at[q] \in {"idle", "answer"} => tok[q] = None
  BY DEF IInv, Core, TypeOK
<1>1. ASSUME sent \subseteq sent', known' = known, NEW p \in Procs,
             \A q \in Procs \ {p} : at'[q] = at[q] /\ new'[q] = new[q] /\ tok'[q] = tok[q],
             at'[p] = "answer" => new'[p] \in sent',
             at'[p] \in {"idle", "answer"} => tok'[p] = None
      PROVE  Responses'
  BY <1>0, <1>1
<1>2. ASSUME UNCHANGED <<at, new, tok, sent, known>> PROVE Responses'
  BY <1>0, <1>2
<1>3. ASSUME NEW p \in Procs, NEW s \in Steps \ {"idle", "answer"}, Move(p, s) \/ Return(p),
             UNCHANGED <<sent, known>>
      PROVE  Responses'
  <2>1. /\ \A q \in Procs \ {p} : Keeps(q)
        /\ at'[p] # "answer" /\ (at'[p] = "idle" => tok'[p] = None)
    BY <1>0, <1>3, MoveKeeps, ReturnKeeps
  <2> QED
    BY <1>1, <1>3, <2>1 DEF Keeps
<1>4. ASSUME NEW p \in Procs, Continue(p) PROVE Responses'
  <2>1. CASE LoginExpire(p)
    BY <1>3, <2>1 DEF LoginExpire, issued, Steps
  <2>2. CASE LoginLookup(p) \/ RefreshLookup(p)
    <3>1. UNCHANGED <<sent, known>> /\ HandlersOK
      BY <1>0, <2>2 DEF LoginLookup, RefreshLookup, issued
    <3>2. /\ \A q \in Procs \ {p} : Keeps(q)
          /\ at'[p] # "answer" /\ (at'[p] = "idle" => tok'[p] = None)
      <4>1. \/ Return(p)
            \/ \E v \in 1..Len(rows) : /\ ver' = [ver EXCEPT ![p] = v]
                                       /\ at' = [at EXCEPT ![p] = "mint"]
                                       /\ UNCHANGED <<tok, new, stamp, late>>
        BY <2>2 DEF LoginLookup, RefreshLookup
      <4> QED
        BY <4>1, LookupKeeps DEF IInv, Core
    <3> QED
      BY <1>1, <3>1, <3>2 DEF Keeps
  <2>3. CASE LoginClear(p) \/ RefreshRotate(p)
    <3>1. ReturnPair(p)
      BY <2>3 DEF LoginClear, RefreshRotate
    <3> QED
      BY <1>0, <1>1, <3>1, ReturnPairKeeps DEF ReturnPair, Keeps
  <2>4. CASE Mint(p)
    <3>1. CASE Return(p) /\ UNCHANGED <<now, issued>>
      <4>1. "mint" \in Steps \ {"idle", "answer"}
        BY DEF Steps
      <4> QED
        BY <1>3, <3>1, <4>1 DEF issued
    <3>2. ASSUME NEW j \in Tokens, MintPair(p, j), UNCHANGED <<sent, known>>
          PROVE  Responses'
      BY <1>0, <1>1, <3>2 DEF MintPair, HandlersOK
    <3> QED
      BY <2>4, <3>1, <3>2 DEF Mint
  <2>5. CASE Remember(p) \/ RememberTTL(p) \/ ChangeUpdate(p)
    BY <1>3, <2>5 DEF Remember, RememberTTL, ChangeUpdate, issued, Steps
  <2>6. CASE Answer(p)
    <3>1. /\ known' \subseteq sent' /\ sent' = sent /\ Return(p)
      BY <1>0, <2>6 DEF Answer
    <3> QED
      BY <1>0, <3>1, ReturnKeeps DEF Keeps
  <2> QED
    BY <1>4, <2>1, <2>2, <2>3, <2>4, <2>5, <2>6 DEF Continue
<1>5. ASSUME NEW p \in Procs, Login(p) PROVE Responses'
  <2>1. {"expire", "lookup"} \subseteq Steps \ {"idle", "answer"}
    BY DEF Steps
  <2>2. /\ UNCHANGED <<sent, known>>
        /\ Move(p, "expire") \/ Move(p, "lookup") \/ Return(p)
    BY <1>5 DEF Login, issued
  <2> QED
    BY <1>3, <2>1, <2>2
<1>6. ASSUME NEW p \in Procs, ChangePassword(p) \/ \E j \in Tokens : Refresh(p, j)
      PROVE  Responses'
  <2>1. /\ UNCHANGED <<sent, known, new>>
        /\ at' = [at EXCEPT ![p] = "update"] \/ at' = [at EXCEPT ![p] = "lookup"]
        /\ tok' = tok \/ \E j \in Tokens : tok' = [tok EXCEPT ![p] = j]
    BY <1>6 DEF ChangePassword, Refresh, issued
  <2> QED
    BY <1>0, <1>1, <2>1 DEF HandlersOK
<1>7. CASE Restart
  BY <1>0, <1>7 DEF Restart, issued
<1>8. CASE \/ \E j \in Tokens : Logout(j) \/ LapseRefresh(j)
           \/ LapseAttempts \/ Tick \/ UNCHANGED vars
  BY <1>2, <1>8 DEF Logout, LapseRefresh, LapseAttempts, Tick, vars, handler, issued
<1> QED
  BY <1>4, <1>5, <1>6, <1>7, <1>8 DEF Next

-----------------------------------------------------------------------------
\* The invariant holds in every reachable state.
THEOREM SessionsInvariance == Spec => []IInv
<1>1. IInv /\ [Next]_vars => IInv'
  <2> SUFFICES ASSUME IInv, [Next]_vars PROVE Core'
    BY ResponsesStep DEF IInv
  <2>1. CASE Next
    <3>1. ASSUME NEW p \in Procs, Continue(p) PROVE Core'
      BY <3>1, LoginExpireStep, LoginLookupStep, LoginClearStep, MintStep, RememberStep,
         RememberTTLStep, RefreshLookupStep, RefreshRotateStep, AnswerStep, ChangeUpdateStep
         DEF Continue
    <3>2. CASE Tick
      BY <3>2, IdleStep DEF Tick, redis, handler, issued
    <3> QED
      BY <2>1, <3>1, <3>2, LoginStep, RefreshStep, LogoutStep, ChangePasswordStep,
         LapseRefreshStep, LapseAttemptsStep, RestartStep DEF Next
  <2>2. CASE UNCHANGED vars
    BY <2>2, IdleStep DEF vars
  <2> QED
    BY <2>1, <2>2
<1> QED
  BY InitInv, <1>1, PTL DEF Spec

\* Nothing brings back a jti that Logout, a rotation or its TTL has removed from
\* Redis, whatever the handlers that are storing jtis meanwhile.
THEOREM RevocationIsFinal == Spec => []RevokedStayRevoked
<1>1. IInv => RevokedStayRevoked
  BY DEF IInv, Core, Books
<1> QED
  BY <1>1, SessionsInvariance, PTL

\* A Refresh that fails at any point, or whose process dies before it returns,
\* costs the client nothing: its token stays live until a successor that is stored
\* is on its way.
THEOREM SessionsSurvive == Spec => []SessionSurvives
<1>1. IInv => SessionSurvives
  BY DEF IInv, Core, Books
<1> QED
  BY <1>1, SessionsInvariance, PTL

\* Past the cutoff check of Refresh there is no session of an older password,
\* apart from one with a pair minted while the change was under way.
THEOREM PasswordChangeCloses == Spec => []SessionsClosed
<1>1. IInv => SessionsClosed
  BY DEF IInv, Core, Clock
<1> QED
  BY <1>1, SessionsInvariance, PTL

\* While Redis answers, a Refresh never starts from a token that was rotated or
\* logged out before.
THEOREM ReplaysFail == Spec => []ReplayFails
<1>1. IInv => ReplayFails
  BY DEF IInv, Core
<1> QED
  BY <1>1, SessionsInvariance, PTL

\* Login lets at most LoginMaxAttempts attempts through per reset of its
\* counter, with any number of handlers, while Redis answers.
THEOREM LoginsAreBounded == Spec => []TriesBounded
<1>1. IInv => TriesBounded
  BY DEF IInv, Core, Counted, TriesBounded
<1> QED
  BY <1>1, SessionsInvariance, PTL

\* A counter of Login without a TTL has a handler about to give it one, while
\* Redis answers: nobody is locked out for good.
THEOREM LockoutIsTemporary == Spec => []LockoutEnds
<1>1. IInv => LockoutEnds
  BY DEF IInv, Core
<1> QED
  BY <1>1, SessionsInvariance, PTL

-----------------------------------------------------------------------------
(* Sessions implements RefreshTokens.                                      *)

\* What a token has become depends on its key, its minting and its fate.
LEMMA SameLife ==
  ASSUME NEW j \in Tokens, kv'[RefreshKey(j)] = kv[RefreshKey(j)],
         minted'[j] = minted[j], fate'[j] = fate[j]
  PROVE  Life(j)' = Life(j)
  BY DEF Life

\* A step in the life of one token.
LEMMA OneLife ==
  ASSUME NEW j \in Tokens, NEW s, Life(j)' = s, \A i \in Tokens \ {j} : Life(i)' = Life(i)
  PROVE  [i \in Tokens |-> Life(i)]' = [[i \in Tokens |-> Life(i)] EXCEPT ![j] = s]
  OBVIOUS

\* A failure is not forgotten, and no handler comes to hold another token.
Steady ==
    /\ slipped' \in {slipped, TRUE}
    /\ \A q \in Procs : tok'[q] \in {None, tok[q]}

LEMMA SteadyAbandon ==
  ASSUME IInv, IInv', Steady
  PROVE  Lives!Abandon
<1>1. tok \in [Procs -> Tokens \cup {None}] /\ tok' \in [Procs -> Tokens \cup {None}]
  BY DEF IInv, Core, TypeOK, HandlersOK
<1>2. \A q \in Procs : tok'[q] = IF tok'[q] = None THEN None ELSE tok[q]
  BY DEF Steady
<1>3. tok' = [q \in Procs |-> tok'[q]]
  BY <1>1
<1> QED
  BY <1>2, <1>3, SMT DEF Lives!Abandon

\* A step that moves a token's life is one of RefreshTokens.
LEMMA LifeMoves ==
  ASSUME NEW j \in Tokens, Life(j)' # Life(j), slipped' \in {slipped, TRUE},
         Lives!Mint(j) \/ Lives!Store(j) \/ Lives!Logout(j) \/ Lives!Expire(j)
  PROVE  Lives!Next
<1>1. Lives!Move(j)
  BY DEF Lives!Move
<1> QED
  BY <1>1 DEF Lives!Next

\* What the invariant says of a token's life: live means that Redis has it, and
\* one that a handler has yet to store, or has sent, is where it must be.
LEMMA LifeFacts ==
  ASSUME IInv, NEW j \in Tokens
  PROVE  /\ minted[j] = None => kv[RefreshKey(j)] = None /\ fate[j] = "none"
         /\ fate[j] # "none" => Life(j) = fate[j]
         /\ j \in sent /\ fate[j] = "none" => Life(j) = "live"
         /\ kv[RefreshKey(j)] # None => Life(j) = "live" /\ fate[j] = "none"
<1>1. TokenOK(j) /\ (fate[j] # "none" => kv[RefreshKey(j)] = None)
  BY DEF IInv, Core, Books, RevokedStayRevoked
<1>2. j \in sent /\ fate[j] = "none" => kv[RefreshKey(j)] # None
  BY DEF IInv, Core, Books, SessionSurvives
<1> QED
  BY <1>1, <1>2 DEF TokenOK, Life

\* Nothing happens to a token, apart from calls that end without a pair.
LEMMA QuietRefines ==
  ASSUME IInv, IInv', Steady, UNCHANGED <<minted, sent, known, parent, fate>>,
         \A j \in Tokens : kv'[RefreshKey(j)] = kv[RefreshKey(j)]
  PROVE  Lives!Next
<1>1. [j \in Tokens |-> Life(j)]' = [j \in Tokens |-> Life(j)]
  BY SameLife
<1> QED
  BY <1>1, SteadyAbandon DEF Lives!Next, Steady

\* Mint: an unused jti, for a Login or for the token presented.
LEMMA MintRefines ==
  ASSUME IInv, IInv', Steady, NEW p \in Procs, Mint(p)
  PROVE  Lives!Next
<1>1. CASE UNCHANGED issued
  BY <1>1, QuietRefines DEF Mint, redis, issued
<1>2. ASSUME NEW j \in Tokens, MintPair(p, j), UNCHANGED <<sent, known>>
      PROVE  Lives!Next
  <2>1. /\ minted[j] = None /\ minted' = [minted EXCEPT ![j] = now]
        /\ parent' = [parent EXCEPT ![j] = tok[p]]
        /\ UNCHANGED <<kv, fate, sent, known, tok>>
    BY <1>2 DEF MintPair, Mint, redis
  <2>2. now # None /\ minted \in [Tokens -> Nat \cup {None}]
    BY NoneAssumption DEF IInv, Core, TypeOK
  <2>3. kv[RefreshKey(j)] = None /\ fate[j] = "none"
    BY <2>1, LifeFacts
  <2>4. Life(j) = "unused" /\ Life(j)' = "minted"
    BY <2>1, <2>2, <2>3 DEF Life
  <2>5. \A i \in Tokens \ {j} : Life(i)' = Life(i)
    BY <2>1, <2>2, SameLife
  <2>6. Lives!Mint(j)
    BY <2>1, <2>4, <2>5, OneLife DEF Lives!Mint
  <2> QED
    BY <2>4, <2>6, LifeMoves DEF Steady
<1> QED
  BY <1>1, <1>2 DEF Mint

\* Remember: the handler's own pair becomes live, unless the Set is lost.
LEMMA RememberRefines ==
  ASSUME IInv, IInv', Steady, NEW p \in Procs, Remember(p)
  PROVE  Lives!Next
<1>1. at[p] = "remember" /\ UNCHANGED <<minted, sent, known, parent, fate>>
  BY DEF Remember, issued
<1>2. PICK j \in Tokens : j = new[p]
  BY <1>1 DEF IInv, Core, Books, HandlerOK, Holding
<1>3. PICK o \in Outcomes : RedisSet(RefreshKey(j), j, o)
  BY <1>2 DEF Remember
<1>4. /\ j \notin sent /\ minted[j] # None
      /\ fate[j] = "none" /\ kv[RefreshKey(j)] = None
  BY <1>1, <1>2 DEF IInv, Core, Books, HandlerOK, Holding
<1>5. CASE UNCHANGED kv
  BY <1>1, <1>5, QuietRefines
<1>6. CASE kv' = [kv EXCEPT ![RefreshKey(j)] = j]
  <2>1. kv \in [Keys -> Stored] /\ j # None
    BY TokenAssumption DEF IInv, Core, TypeOK, RedisOK
  <2>2. kv'[RefreshKey(j)] = j /\ \A i \in Tokens \ {j} : kv'[RefreshKey(i)] = kv[RefreshKey(i)]
    BY <1>6, <2>1, KeysApart
  <2>3. Life(j) = "minted" /\ Life(j)' = "live"
    BY <1>1, <1>4, <2>1, <2>2 DEF Life
  <2>4. \A i \in Tokens \ {j} : Life(i)' = Life(i)
    BY <1>1, <2>2, SameLife
  <2>5. Lives!Store(j)
    BY <1>1, <1>4, <2>3, <2>4, OneLife, SteadyAbandon DEF Lives!Store
  <2> QED
    BY <2>3, <2>5, LifeMoves DEF Steady
<1> QED
  BY <1>3, <1>5, <1>6 DEF RedisSet

\* The pair a handler is about to return has been live, and is for its token.
LEMMA PairLife ==
  ASSUME IInv, NEW p \in Procs, at[p] \in {"clear", "rotate"}
  PROVE  /\ new[p] \in Tokens \ sent /\ Life(new[p]) \in {"live", "expired"}
         /\ parent[new[p]] = tok[p]
<1>1. /\ new[p] \in Tokens \ sent /\ minted[new[p]] # None /\ parent[new[p]] = tok[p]
      /\ fate[new[p]] = "none" => kv[RefreshKey(new[p])] # None
  BY DEF IInv, Core, Books, HandlerOK, Holding
<1>2. fate[new[p]] \in {"none", "expired"}
  BY <1>1 DEF IInv, Core, Books, TokenOK
<1> QED
  BY <1>1, <1>2, LifeFacts

\* LoginClear: the pair of a Login is issued.
LEMMA LoginClearRefines ==
  ASSUME IInv, Steady, NEW p \in Procs, LoginClear(p)
  PROVE  Lives!Next
<1>1. /\ at[p] = "clear" /\ tok[p] = None
      /\ UNCHANGED <<minted, parent, known, fate>>
      /\ tok' = [tok EXCEPT ![p] = None] /\ sent' = sent \cup {new[p]}
      /\ \E o \in Outcomes : RedisDel(LoginAttemptsKey, o)
  BY DEF LoginClear, ReturnPair, IInv, Core, Books, HandlerOK
<1>2. \A j \in Tokens : kv'[RefreshKey(j)] = kv[RefreshKey(j)]
  BY <1>1, CounterCommand DEF IInv, Core, TypeOK, KeepsToken
<1>3. [j \in Tokens |-> Life(j)]' = [j \in Tokens |-> Life(j)]
  BY <1>1, <1>2, SameLife
<1>4. PICK c \in Tokens \ sent : /\ c = new[p] /\ Life(c) \in {"live", "expired"}
                                 /\ parent[c] = tok[p]
  BY <1>1, PairLife
<1>5. Lives!Issue(p, c)
  BY <1>1, <1>3, <1>4 DEF Lives!Issue
<1> QED
  BY <1>5 DEF Lives!Next, Steady

\* The Del of token j: it ends, unless it has already ended or the Del is lost.
LEMMA RevokeLife ==
  ASSUME IInv, NEW j \in Tokens, NEW why \in {"rotated", "logout"}, NEW o \in Outcomes,
         Revoke(j, why, o), UNCHANGED minted, j \in sent
  PROVE  \/ /\ \A i \in Tokens : Life(i)' = Life(i)
            /\ Life(j) # "live" \/ slipped'
         \/ /\ Life(j) = "live" /\ Life(j)' = why
            /\ \A i \in Tokens \ {j} : Life(i)' = Life(i)
<1>1. kv \in [Keys -> Stored] /\ fate \in [Tokens -> {"none", "rotated", "logout", "expired"}]
  BY DEF IInv, Core, TypeOK, RedisOK
<1>2. minted[j] # None /\ (fate[j] # "none" => kv[RefreshKey(j)] = None)
  BY DEF IInv, Core, Books, TokenOK, RevokedStayRevoked
<1>3. CASE o = "lost" /\ UNCHANGED <<kv, fate>>
  <2>1. slipped'
    BY <1>3 DEF Revoke, RedisDel, Slip
  <2> QED
    BY <1>3, <2>1, SameLife
<1>4. CASE kv' = [kv EXCEPT ![RefreshKey(j)] = None] /\ fate[j] # "none" /\ UNCHANGED fate
  <2>1. \A i \in Tokens : kv'[RefreshKey(i)] = kv[RefreshKey(i)]
    BY <1>1, <1>2, <1>4, KeysApart
  <2>2. Life(j) # "live"
    BY <1>1, <1>4, LifeFacts
  <2> QED
    BY <1>4, <2>1, <2>2, SameLife
<1>5. CASE /\ kv' = [kv EXCEPT ![RefreshKey(j)] = None]
           /\ fate[j] = "none" /\ fate' = [fate EXCEPT ![j] = why]
  <2>1. /\ kv'[RefreshKey(j)] = None
        /\ \A i \in Tokens \ {j} : kv'[RefreshKey(i)] = kv[RefreshKey(i)]
    BY <1>1, <1>5, KeysApart
  <2>2. fate'[j] = why /\ \A i \in Tokens \ {j} : fate'[i] = fate[i]
    BY <1>1, <1>5
  <2>3. Life(j) = "live"
    BY <1>5, LifeFacts
  <2>4. Life(j)' = why
    BY <1>2, <2>1, <2>2 DEF Life
  <2>5. \A i \in Tokens \ {j} : Life(i)' = Life(i)
    BY <2>1, <2>2, SameLife
  <2> QED
    BY <2>3, <2>4, <2>5
<1> QED
  BY <1>3, <1>4, <1>5 DEF Revoke, RedisDel

\* RefreshRotate: the successor is issued, and the token it replaces ends.
LEMMA RefreshRotateRefines ==
  ASSUME IInv, Steady, NEW p \in Procs, RefreshRotate(p)
  PROVE  Lives!Next
<1>1. /\ at[p] = "rotate" /\ UNCHANGED <<minted, parent, known>>
      /\ tok' = [tok EXCEPT ![p] = None] /\ sent' = sent \cup {new[p]}
      /\ \E o \in Outcomes : Revoke(tok[p], "rotated", o)
  BY DEF RefreshRotate, ReturnPair
<1>2. PICK c \in Tokens \ sent : /\ c = new[p] /\ Life(c) \in {"live", "expired"}
                                 /\ parent[c] = tok[p]
  BY <1>1, PairLife
<1>3. PICK j \in Tokens : j = tok[p] /\ j \in sent /\ j # None
  <2>1. tok[p] \in sent /\ sent \subseteq Tokens
    BY <1>1 DEF IInv, Core, TypeOK, Books, HandlerOK
  <2> QED
    BY <2>1, TokenAssumption
<1>4. \/ /\ \A i \in Tokens : Life(i)' = Life(i)
         /\ Life(j) # "live" \/ slipped'
      \/ /\ Life(j) = "live" /\ Life(j)' = "rotated"
         /\ \A i \in Tokens \ {j} : Life(i)' = Life(i)
  BY <1>1, <1>3, RevokeLife
<1>5. CASE /\ \A i \in Tokens : Life(i)' = Life(i)
           /\ Life(j) # "live" \/ slipped'
  <2>1. [i \in Tokens |-> Life(i)]' = [i \in Tokens |-> Life(i)]
    BY <1>5
  <2> QED
    BY <1>1, <1>2, <1>3, <1>5, <2>1 DEF Lives!Issue, Lives!Next, Steady
<1>6. CASE /\ Life(j) = "live" /\ Life(j)' = "rotated"
           /\ \A i \in Tokens \ {j} : Life(i)' = Life(i)
  <2>1. [i \in Tokens |-> Life(i)]' = [[i \in Tokens |-> Life(i)] EXCEPT ![j] = "rotated"]
    BY <1>6, OneLife
  <2> QED
    BY <1>1, <1>2, <1>3, <1>6, <2>1 DEF Lives!Issue, Lives!Next, Steady
<1> QED
  BY <1>4, <1>5, <1>6

\* Answer: the client gets what was sent, or not.
LEMMA AnswerRefines ==
  ASSUME IInv, IInv', Steady, NEW p \in Procs, Answer(p)
  PROVE  Lives!Next
<1>1. /\ at[p] = "answer"
      /\ known' = known \cup {new[p]} \/ known' = known
      /\ UNCHANGED <<kv, minted, sent, parent, fate>> /\ Return(p)
  BY DEF Answer, redis
<1>2. CASE known' = known
  BY <1>1, <1>2, QuietRefines
<1>3. CASE new[p] \notin known /\ known' = known \cup {new[p]}
  <2>1. tok[p] = None /\ new[p] \in sent /\ sent \subseteq Tokens
    BY <1>1 DEF IInv, Core, TypeOK, Responses
  <2>2. tok' = tok
    BY <1>1, <2>1 DEF Return, IInv, Core, TypeOK, HandlersOK
  <2>3. [i \in Tokens |-> Life(i)]' = [i \in Tokens |-> Life(i)]
    BY <1>1, SameLife
  <2>4. PICK j \in Tokens : j = new[p] /\ j \in sent
    BY <2>1
  <2>5. Lives!Receive(j)
    BY <1>1, <1>3, <2>2, <2>3, <2>4 DEF Lives!Receive
  <2> QED
    BY <2>5 DEF Lives!Next, Steady
<1>4. CASE new[p] \in known /\ known' = known \cup {new[p]}
  BY <1>2, <1>4
<1> QED
  BY <1>1, <1>2, <1>3, <1>4

\* Refresh: a client presents a live token.
LEMMA RefreshRefines ==
  ASSUME IInv, NEW p \in Procs, NEW j \in Tokens, Refresh(p, j)
  PROVE  Lives!Next
<1>1. /\ at[p] = "idle" /\ j \in known /\ kv[RefreshKey(j)] # None
      /\ tok' = [tok EXCEPT ![p] = j]
      /\ UNCHANGED <<kv, slipped, minted, sent, known, parent, fate>>
  BY DEF Refresh, redis, issued
<1>2. tok[p] = None /\ Life(j) = "live"
  BY <1>1, LifeFacts DEF IInv, Responses
<1>3. [i \in Tokens |-> Life(i)]' = [i \in Tokens |-> Life(i)]
  BY <1>1, SameLife
<1>4. Lives!Present(p, j)
  BY <1>1, <1>2, <1>3 DEF Lives!Present
<1> QED
  BY <1>1, <1>4 DEF Lives!Next

\* Logout: a token the client holds ends.
LEMMA LogoutRefines ==
  ASSUME IInv, IInv', Steady, NEW j \in Tokens, Logout(j)
  PROVE  Lives!Next
<1>1. /\ j \in known /\ UNCHANGED <<minted, sent, known, parent, tok>>
      /\ \E o \in Outcomes : Revoke(j, "logout", o)
  BY DEF Logout, issued, handler
<1>2. CASE \A i \in Tokens : Life(i)' = Life(i)
  <2>1. [i \in Tokens |-> Life(i)]' = [i \in Tokens |-> Life(i)]
    BY <1>2
  <2> QED
    BY <1>1, <2>1, SteadyAbandon DEF Lives!Next, Steady
<1>3. CASE /\ Life(j) = "live" /\ Life(j)' = "logout"
           /\ \A i \in Tokens \ {j} : Life(i)' = Life(i)
  <2>1. Lives!Logout(j)
    BY <1>1, <1>3, OneLife DEF Lives!Logout
  <2> QED
    BY <1>3, <2>1, LifeMoves DEF Steady
<1>4. j \in sent
  BY <1>1 DEF IInv, Responses
<1> QED
  BY <1>1, <1>2, <1>3, <1>4, RevokeLife

\* LapseRefresh: a stored token expires.
LEMMA LapseRefines ==
  ASSUME IInv, Steady, NEW j \in Tokens, LapseRefresh(j)
  PROVE  Lives!Next
<1>1. /\ kv \in [Keys -> Stored] /\ fate \in [Tokens -> {"none", "rotated", "logout", "expired"}]
      /\ RefreshKey(j) \in volatile /\ kv' = [kv EXCEPT ![RefreshKey(j)] = None]
      /\ fate' = [fate EXCEPT ![j] = "expired"]
      /\ UNCHANGED <<minted, sent, known, parent, tok>>
  BY DEF LapseRefresh, RedisLapse, issued, handler, IInv, Core, TypeOK, RedisOK
<1>2. kv[RefreshKey(j)] # None /\ minted[j] # None
  BY <1>1 DEF IInv, Core, Books, TokenOK
<1>3. /\ kv'[RefreshKey(j)] = None /\ fate'[j] = "expired"
      /\ \A i \in Tokens \ {j} : kv'[RefreshKey(i)] = kv[RefreshKey(i)] /\ fate'[i] = fate[i]
  BY <1>1, KeysApart
<1>4. Life(j) = "live" /\ Life(j)' = "expired"
  BY <1>1, <1>2, <1>3, LifeFacts DEF Life
<1>5. \A i \in Tokens \ {j} : Life(i)' = Life(i)
  BY <1>1, <1>3, SameLife
<1>6. Lives!Expire(j)
  BY <1>1, <1>4, <1>5, OneLife DEF Lives!Expire
<1> QED
  BY <1>4, <1>6, LifeMoves DEF Steady

\* The commands on the counter and on TTLs.
LEMMA CounterRefines ==
  ASSUME IInv, IInv', Steady, UNCHANGED <<minted, sent, known, parent, fate>>, NEW o,
         \/ RedisIncr(LoginAttemptsKey, o)
         \/ RedisExpire(LoginAttemptsKey, o)
         \/ RedisLapse(LoginAttemptsKey)
  PROVE  Lives!Next
<1>1. \A j \in Tokens : kv'[RefreshKey(j)] = kv[RefreshKey(j)]
  <2>1. CASE RedisIncr(LoginAttemptsKey, o) \/ RedisExpire(LoginAttemptsKey, o)
    BY <2>1, CounterCommand DEF IInv, Core, TypeOK, KeepsToken
  <2>2. CASE RedisLapse(LoginAttemptsKey)
    BY <2>2, KeysApart DEF RedisLapse, IInv, Core, TypeOK, RedisOK
  <2> QED
    BY <2>1, <2>2
<1> QED
  BY <1>1, QuietRefines

\* A call of Redis that fails is remembered.
LEMMA SlipSteady ==
  ASSUME NEW o, Slip(o), slipped \in BOOLEAN
  PROVE  slipped' \in {slipped, TRUE}
  BY DEF Slip

\* Only a Refresh that starts comes to hold a token.
LEMMA ContinueSteady ==
  ASSUME IInv, NEW p \in Procs, Continue(p) \/ Login(p)
  PROVE  Steady
<1>0. slipped \in BOOLEAN /\ tok \in [Procs -> Tokens \cup {None}]
  BY DEF IInv, Core, TypeOK, RedisOK, HandlersOK
<1>1. slipped' \in {slipped, TRUE}
  <2>1. CASE \E o : Slip(o)
    BY <1>0, <2>1, SlipSteady
  <2>2. CASE UNCHANGED slipped
    BY <2>2
  <2>3. CASE Login(p) \/ LoginExpire(p) \/ LoginClear(p)
    BY <2>1, <2>3 DEF Login, LoginExpire, LoginClear, RedisIncr, RedisExpire, RedisDel
  <2>4. CASE Remember(p) \/ RememberTTL(p) \/ RefreshRotate(p)
    BY <2>1, <2>4 DEF Remember, RememberTTL, RefreshRotate, Revoke,
                      RedisSet, RedisExpire, RedisDel
  <2>5. CASE \/ LoginLookup(p) \/ RefreshLookup(p) \/ Mint(p) \/ Answer(p) \/ ChangeUpdate(p)
    BY <2>2, <2>5 DEF LoginLookup, RefreshLookup, Mint, Answer, ChangeUpdate, redis
  <2> QED
    BY <2>3, <2>4, <2>5 DEF Continue
<1>2. tok' = tok \/ tok' = [tok EXCEPT ![p] = None]
  <2>1. CASE Login(p) \/ LoginExpire(p) \/ Remember(p) \/ RememberTTL(p)
    BY <2>1 DEF Login, LoginExpire, Remember, RememberTTL, Move, Return
  <2>2. CASE LoginClear(p) \/ RefreshRotate(p) \/ Answer(p) \/ ChangeUpdate(p)
    BY <2>2 DEF LoginClear, RefreshRotate, ReturnPair, Answer, ChangeUpdate, Return
  <2>3. CASE LoginLookup(p) \/ RefreshLookup(p) \/ Mint(p)
    BY <2>3 DEF LoginLookup, RefreshLookup, Mint, MintPair, Return
  <2> QED
    BY <2>1, <2>2, <2>3 DEF Continue
<1> QED
  BY <1>0, <1>1, <1>2 DEF Steady

\* The continuation of a call.
LEMMA ContinueRefines ==
  ASSUME IInv, IInv', NEW p \in Procs, Continue(p)
  PROVE  Lives!Next
<1>0. Steady
  BY ContinueSteady
<1>1. CASE LoginExpire(p)
  BY <1>0, <1>1, CounterRefines DEF LoginExpire, issued
<1>2. CASE LoginLookup(p) \/ RefreshLookup(p) \/ ChangeUpdate(p)
  <2>1. UNCHANGED <<kv, minted, sent, known, parent, fate>>
    BY <1>2 DEF LoginLookup, RefreshLookup, ChangeUpdate, redis, issued
  <2> QED
    BY <1>0, <2>1, QuietRefines
<1>3. CASE RememberTTL(p)
  <2>1. UNCHANGED <<kv, minted, sent, known, parent, fate>>
    BY <1>3 DEF RememberTTL, RedisExpire, issued
  <2> QED
    BY <1>0, <2>1, QuietRefines
<1> QED
  BY <1>0, <1>1, <1>2, <1>3, LoginClearRefines, MintRefines, RememberRefines,
     RefreshRotateRefines, AnswerRefines DEF Continue

\* Every step of Sessions is one of RefreshTokens, or none.
LEMMA NextRefines == IInv /\ IInv' /\ [Next]_vars => [Lives!Next]_(Lives!vars)
<1> SUFFICES ASSUME IInv, IInv', Next \/ UNCHANGED vars PROVE Lives!Next
  OBVIOUS
<1>0. slipped \in BOOLEAN
  BY DEF IInv, Core, TypeOK, RedisOK
<1>1. ASSUME NEW p \in Procs, Login(p) PROVE Lives!Next
  BY <1>1, ContinueSteady, CounterRefines DEF Login, issued
<1>2. CASE \/ Tick \/ Restart \/ UNCHANGED vars \/ \E p \in Procs : ChangePassword(p)
  <2>1. UNCHANGED <<kv, minted, sent, known, parent, fate>>
    BY <1>2 DEF Tick, Restart, ChangePassword, RedisCrash, vars, redis, issued
  <2>2. Steady
    <3>1. slipped' \in {slipped, TRUE}
      BY <1>2 DEF Tick, Restart, ChangePassword, RedisCrash, vars, redis
    <3>2. tok' = tok \/ tok' = [q \in Procs |-> None]
      BY <1>2 DEF Tick, Restart, ChangePassword, vars, handler
    <3> QED
      BY <3>1, <3>2 DEF Steady
  <2> QED
    BY <2>1, <2>2, QuietRefines
<1>3. CASE LapseAttempts
  <2>1. Steady
    BY <1>3 DEF LapseAttempts, RedisLapse, handler, Steady
  <2> QED
    BY <1>3, <2>1, CounterRefines DEF LapseAttempts, issued
<1>4. ASSUME NEW j \in Tokens, Logout(j) PROVE Lives!Next
  <2>1. UNCHANGED tok /\ \E o : Slip(o)
    BY <1>4 DEF Logout, Revoke, RedisDel, handler
  <2>2. Steady
    BY <1>0, <2>1, SlipSteady DEF Steady
  <2> QED
    BY <1>4, <2>2, LogoutRefines
<1>5. ASSUME NEW j \in Tokens, LapseRefresh(j) PROVE Lives!Next
  <2>1. Steady
    BY <1>5 DEF LapseRefresh, RedisLapse, handler, Steady
  <2> QED
    BY <1>5, <2>1, LapseRefines
<1> QED
  BY <1>1, <1>2, <1>3, <1>4, <1>5, ContinueRefines, RefreshRefines DEF Next

\* The handlers keep the promise of RefreshTokens, however their calls interleave,
\* fail or are cut off: Sessions implements it.
THEOREM SessionsImplementTokens == Spec => ImplementsRefreshTokens
<1>1. Init => Lives!Init
  BY DEF Init, Lives!Init, Life
<1> QED
  BY <1>1, NextRefines, SessionsInvariance, PTL
     DEF Spec, ImplementsRefreshTokens, Lives!Spec

-----------------------------------------------------------------------------
(* What RefreshTokens promises.                                            *)

\* Lineage, in terms of the tokens of Sessions.
Heir(j) ==
    /\ j \in sent => Life(j) = "live" \/ Life(j) \in Lives!Ended
    /\ Life(j) = "rotated" => \E c \in sent : parent[c] = j
    /\ \A k \in Tokens : j \in sent /\ parent[j] = k /\ ~slipped => Life(k) \in Lives!Ended

\* The invariant: what is held was sent, what is presented or replaced too.
LivesInv ==
    /\ sent \subseteq Tokens
    /\ known \subseteq sent
    /\ parent \in [Tokens -> sent \cup {None}]
    /\ tok \in [Procs -> sent \cup {None}]
    /\ \A j \in Tokens : Heir(j)

LEMMA LineageIs == LivesInv => Lives!Lineage
<1> SUFFICES ASSUME LivesInv, NEW j \in Tokens
             PROVE  /\ j \in sent => Life(j) = "live" \/ Life(j) \in Lives!Ended
                    /\ Life(j) = "rotated" => \E c \in sent : parent[c] = j
                    /\ j \in sent /\ parent[j] # None /\ ~slipped =>
                          [i \in Tokens |-> Life(i)][parent[j]] \in Lives!Ended
  BY DEF Lives!Lineage
<1>1. parent[j] # None => parent[j] \in Tokens
  BY DEF LivesInv
<1> QED
  BY <1>1 DEF LivesInv, Heir

\* A step in the life of one token, seen from below.
LEMMA LifeOf ==
  ASSUME NEW j \in Tokens, NEW s,
         [i \in Tokens |-> Life(i)]' = [[i \in Tokens |-> Life(i)] EXCEPT ![j] = s]
  PROVE  Life(j)' = s /\ \A i \in Tokens \ {j} : Life(i)' = Life(i)
  OBVIOUS

LEMMA NoLife ==
  ASSUME [i \in Tokens |-> Life(i)]' = [i \in Tokens |-> Life(i)]
  PROVE  \A i \in Tokens : Life(i)' = Life(i)
<1> TAKE j \in Tokens
<1>1. [i \in Tokens |-> Life(i)]'[j] = [i \in Tokens |-> Life(i)][j]
  OBVIOUS
<1> QED
  BY <1>1

\* Calls that end without a pair hold nothing they did not hold before.
LEMMA AbandonType ==
  ASSUME LivesInv, Lives!Abandon
  PROVE  tok' \in [Procs -> sent \cup {None}]
  BY DEF LivesInv, Lives!Abandon

\* No token that has ended moves.
Kept == \A i \in Tokens : Life(i) \in Lives!Ended => Life(i)' = Life(i)

\* What keeps the lineage of token i: nothing that has ended or was sent is taken
\* back, and i itself is rotated, or sent, as it should be.
LEMMA HeirStep ==
  ASSUME NEW i \in Tokens, Heir(i), slipped' \in {slipped, TRUE}, sent \subseteq sent',
         \A c \in sent : parent'[c] = parent[c],
         \A k \in Tokens : Life(k) \in Lives!Ended => Life(k)' \in Lives!Ended,
         i \in sent' => Life(i)' = "live" \/ Life(i)' \in Lives!Ended,
         Life(i)' = "rotated" /\ Life(i) # "rotated" => \E c \in sent' : parent'[c] = i,
         \A k \in Tokens : i \in sent' \ sent /\ parent'[i] = k /\ ~slipped' =>
                              Life(k)' \in Lives!Ended
  PROVE  Heir(i)'
<1>1. Life(i)' = "rotated" => \E c \in sent' : parent'[c] = i
  BY DEF Heir
<1>2. ASSUME NEW k \in Tokens, i \in sent', parent'[i] = k, ~slipped'
      PROVE  Life(k)' \in Lives!Ended
  <2>1. ~slipped
    BY <1>2
  <2>2. CASE i \in sent
    <3>1. Life(k) \in Lives!Ended
      BY <1>2, <2>1, <2>2 DEF Heir
    <3> QED
      BY <3>1
  <2> QED
    BY <1>2, <2>2
<1> QED
  BY <1>1, <1>2 DEF Heir

LEMMA MintKeeps ==
  ASSUME LivesInv, slipped' \in {slipped, TRUE}, NEW j \in Tokens, Lives!Mint(j)
  PROVE  LivesInv' /\ Kept
<1> USE DEF Lives!Ended
<1>1. /\ Life(j) = "unused" /\ UNCHANGED <<sent, known, tok>>
      /\ [i \in Tokens |-> Life(i)]' = [[i \in Tokens |-> Life(i)] EXCEPT ![j] = "minted"]
      /\ \E c \in Procs : parent' = [parent EXCEPT ![j] = tok[c]]
  BY DEF Lives!Mint
<1>2. Life(j)' = "minted" /\ \A i \in Tokens \ {j} : Life(i)' = Life(i)
  BY <1>1, LifeOf
<1>3. j \notin sent
  BY <1>1 DEF LivesInv, Heir
<1>4. /\ parent' \in [Tokens -> sent \cup {None}]
      /\ \A c \in sent : parent'[c] = parent[c]
  BY <1>1, <1>3 DEF LivesInv
<1>5. \A i \in Tokens : Heir(i)'
  <2> TAKE i \in Tokens
  <2>1. Heir(i)
    BY DEF LivesInv
  <2>2. \A k \in Tokens : Life(k) \in Lives!Ended => Life(k)' \in Lives!Ended
    BY <1>1, <1>2
  <2> QED
    BY <1>1, <1>2, <1>3, <1>4, <2>1, <2>2, HeirStep DEF Heir
<1> QED
  BY <1>1, <1>2, <1>4, <1>5 DEF LivesInv, Kept

\* Store, Logout and Expire move one token on.
LEMMA MoveOn ==
  ASSUME LivesInv, slipped' \in {slipped, TRUE}, NEW j \in Tokens,
         Lives!Store(j) \/ Lives!Logout(j) \/ Lives!Expire(j)
  PROVE  LivesInv' /\ Kept
<1> USE DEF Lives!Ended
<1>1. PICK s \in {"live", "logout", "expired"} :
          /\ \/ Life(j) = "minted" /\ s = "live"
             \/ Life(j) = "live" /\ s \in {"logout", "expired"}
          /\ [i \in Tokens |-> Life(i)]' = [[i \in Tokens |-> Life(i)] EXCEPT ![j] = s]
  BY DEF Lives!Store, Lives!Logout, Lives!Expire
<1>2. UNCHANGED <<sent, known, parent>> /\ tok' \in [Procs -> sent \cup {None}]
  BY AbandonType DEF Lives!Store, Lives!Logout, Lives!Expire, LivesInv
<1>3. Life(j)' = s /\ \A i \in Tokens \ {j} : Life(i)' = Life(i)
  BY <1>1, LifeOf
<1>4. \A i \in Tokens : Heir(i)'
  <2> TAKE i \in Tokens
  <2>1. Heir(i)
    BY DEF LivesInv
  <2>2. \A k \in Tokens : Life(k) \in Lives!Ended => Life(k)' \in Lives!Ended
    BY <1>1, <1>3
  <2> QED
    BY <1>1, <1>2, <1>3, <2>1, <2>2, HeirStep DEF Heir
<1> QED
  BY <1>1, <1>2, <1>3, <1>4 DEF LivesInv, Kept

LEMMA IssueKeeps ==
  ASSUME LivesInv, slipped' \in {slipped, TRUE}, NEW p \in Procs, NEW j \in Tokens,
         Lives!Issue(p, j)
  PROVE  LivesInv' /\ Kept
<1> USE DEF Lives!Ended
<1>1. /\ j \notin sent /\ sent' = sent \cup {j} /\ Life(j) \in {"live", "expired"}
      /\ tok' = [tok EXCEPT ![p] = None] /\ UNCHANGED <<known, parent>>
  BY DEF Lives!Issue
<1>2. /\ sent' \subseteq Tokens /\ known' \subseteq sent'
      /\ parent' \in [Tokens -> sent' \cup {None}] /\ tok' \in [Procs -> sent' \cup {None}]
  BY <1>1 DEF LivesInv
<1>3. ASSUME NEW k \in Tokens, parent[j] = k, Life(k) = "live", Life(k)' = "rotated",
             \A i \in Tokens \ {k} : Life(i)' = Life(i)
      PROVE  LivesInv' /\ Kept
  <2>1. \A i \in Tokens : Life(i) \in Lives!Ended => Life(i)' = Life(i)
    BY <1>3
  <2>2. \A i \in Tokens : Heir(i)'
    <3> TAKE i \in Tokens
    <3>1. Heir(i)
      BY DEF LivesInv
    <3>2. i \in sent' => Life(i)' = "live" \/ Life(i)' \in Lives!Ended
      BY <1>1, <1>3, <3>1 DEF Heir
    <3>3. Life(i)' = "rotated" /\ Life(i) # "rotated" => \E c \in sent' : parent'[c] = i
      BY <1>1, <1>3
    <3>4. \A m \in Tokens : i \in sent' \ sent /\ parent'[i] = m => Life(m)' \in Lives!Ended
      BY <1>1, <1>3
    <3> QED
      BY <1>1, <2>1, <3>1, <3>2, <3>3, <3>4, HeirStep
  <2> QED
    BY <1>2, <2>1, <2>2 DEF LivesInv, Kept
<1>4. ASSUME \A i \in Tokens : Life(i)' = Life(i),
             \A k \in Tokens : parent[j] = k => Life(k) # "live" \/ slipped'
      PROVE  LivesInv' /\ Kept
  <2>1. \A k \in Tokens : parent[j] = k /\ ~slipped' => Life(k) \in Lives!Ended
    <3> SUFFICES ASSUME NEW k \in Tokens, parent[j] = k, ~slipped'
                 PROVE  Life(k) \in Lives!Ended
      OBVIOUS
    <3>1. k \in sent
      BY TokenAssumption DEF LivesInv
    <3> QED
      BY <1>4, <3>1 DEF LivesInv, Heir
  <2>2. \A i \in Tokens : Heir(i)'
    <3> TAKE i \in Tokens
    <3>1. Heir(i)
      BY DEF LivesInv
    <3> QED
      BY <1>1, <1>4, <2>1, <3>1, HeirStep DEF Heir
  <2> QED
    BY <1>2, <1>4, <2>2 DEF LivesInv, Kept
<1>5. CASE /\ parent[j] # None /\ [i \in Tokens |-> Life(i)][parent[j]] = "live"
           /\ [i \in Tokens |-> Life(i)]' =
                 [[i \in Tokens |-> Life(i)] EXCEPT ![parent[j]] = "rotated"]
  <2>1. PICK k \in Tokens : k = parent[j]
    BY <1>5 DEF LivesInv
  <2>2. Life(k) = "live" /\ Life(k)' = "rotated" /\ \A i \in Tokens \ {k} : Life(i)' = Life(i)
    BY <1>5, <2>1, LifeOf
  <2> QED
    BY <1>3, <2>1, <2>2
<1>6. CASE /\ \/ parent[j] = None \/ slipped'
              \/ [i \in Tokens |-> Life(i)][parent[j]] # "live"
           /\ [i \in Tokens |-> Life(i)]' = [i \in Tokens |-> Life(i)]
  <2>1. \A i \in Tokens : Life(i)' = Life(i)
    BY <1>6, NoLife
  <2>2. \A k \in Tokens : parent[j] = k => Life(k) # "live" \/ slipped'
    BY <1>6, TokenAssumption
  <2> QED
    BY <1>4, <2>1, <2>2
<1> QED
  BY <1>5, <1>6 DEF Lives!Issue

\* Steps in which no token's life moves and nothing is sent.
LEMMA StillKeeps ==
  ASSUME LivesInv, slipped' \in {slipped, TRUE}, UNCHANGED <<sent, parent>>,
         known' \subseteq sent, tok' \in [Procs -> sent \cup {None}],
         [i \in Tokens |-> Life(i)]' = [i \in Tokens |-> Life(i)]
  PROVE  LivesInv' /\ Kept
<1>1. \A i \in Tokens : Life(i)' = Life(i)
  BY NoLife
<1>2. \A i \in Tokens : Heir(i)'
  <2> TAKE i \in Tokens
  <2>1. Heir(i)
    BY DEF LivesInv
  <2>2. i \in sent' => Life(i)' = "live" \/ Life(i)' \in Lives!Ended
    BY <1>1, <2>1 DEF Heir
  <2> QED
    BY <1>1, <2>1, <2>2, HeirStep
<1> QED
  BY <1>1, <1>2 DEF LivesInv, Kept

\* A step of RefreshTokens keeps every lineage, and ends nothing twice.
LEMMA LineageStep ==
  ASSUME LivesInv, [Lives!Next]_(Lives!vars)
  PROVE  LivesInv' /\ Kept
<1>1. CASE UNCHANGED Lives!vars
  BY <1>1, StillKeeps DEF Lives!vars, LivesInv
<1>2. CASE Lives!Next
  <2>0. slipped' \in {slipped, TRUE}
    BY <1>2 DEF Lives!Next
  <2>1. CASE /\ UNCHANGED <<sent, known, parent>> /\ Lives!Abandon
             /\ [i \in Tokens |-> Life(i)]' = [i \in Tokens |-> Life(i)]
    BY <2>0, <2>1, StillKeeps, AbandonType DEF LivesInv
  <2>2. ASSUME NEW j \in Tokens, Lives!Move(j) PROVE LivesInv' /\ Kept
    BY <2>0, <2>2, MintKeeps, MoveOn DEF Lives!Move
  <2>3. ASSUME NEW j \in Tokens, Lives!Receive(j) PROVE LivesInv' /\ Kept
    BY <2>0, <2>3, StillKeeps DEF Lives!Receive, LivesInv
  <2>4. ASSUME NEW p \in Procs, NEW j \in Tokens, Lives!Present(p, j) PROVE LivesInv' /\ Kept
    BY <2>0, <2>4, StillKeeps DEF Lives!Present, LivesInv
  <2>5. ASSUME NEW p \in Procs, NEW j \in Tokens, Lives!Issue(p, j) PROVE LivesInv' /\ Kept
    BY <2>0, <2>5, IssueKeeps
  <2> QED
    BY <1>2, <2>1, <2>2, <2>3, <2>4, <2>5 DEF Lives!Next
<1> QED
  BY <1>1, <1>2

\* The invariant of RefreshTokens.
LEMMA LivesInvariance == Lives!Spec => []LivesInv
<1>1. Lives!Init => LivesInv
  <2> SUFFICES ASSUME Lives!Init PROVE LivesInv
    OBVIOUS
  <2>1. /\ [i \in Tokens |-> Life(i)] = [i \in Tokens |-> "unused"]
        /\ sent = {} /\ known = {}
        /\ parent = [i \in Tokens |-> None] /\ tok = [q \in Procs |-> None]
    BY DEF Lives!Init
  <2>2. \A i \in Tokens : Life(i) = "unused"
    <3> TAKE j \in Tokens
    <3>1. [i \in Tokens |-> Life(i)][j] = [i \in Tokens |-> "unused"][j]
      BY <2>1
    <3> QED
      BY <3>1
  <2> QED
    BY <2>1, <2>2 DEF LivesInv, Heir
<1> QED
  BY <1>1, LineageStep, PTL DEF Lives!Spec

\* In RefreshTokens a token that was sent is live or has ended, one that was
\* rotated has a successor that was sent, and while nothing fails every token
\* with a successor that was sent has ended.
THEOREM TokensHaveHeirs == Lives!Spec => []Lives!Lineage
  BY LineageIs, LivesInvariance, PTL

\* In RefreshTokens no token that has ended is used again.
THEOREM TokensEndOnce == Lives!Spec => Lives!EndsOnce
<1>1. LivesInv /\ [Lives!Next]_(Lives!vars) => [Lives!KeepsEnded]_(Lives!vars)
  <2> SUFFICES ASSUME LivesInv, [Lives!Next]_(Lives!vars),
                      NEW j \in Tokens, [i \in Tokens |-> Life(i)][j] \in Lives!Ended
               PROVE  [i \in Tokens |-> Life(i)]'[j] = [i \in Tokens |-> Life(i)][j]
    BY DEF Lives!KeepsEnded
  <2>1. Life(j)' = Life(j)
    BY LineageStep DEF Kept
  <2> QED
    BY <2>1
<1> QED
  BY <1>1, LivesInvariance, PTL DEF Lives!Spec, Lives!EndsOnce

\* And so for the handlers: no interleaving and no failure of their calls brings a
\* token back, ends one that was sent before its successor is on its way, or, while
\* Redis answers, leaves one alive beside its successor.
THEOREM SessionsKeepLineage == Spec => []Lives!Lineage /\ Lives!EndsOnce
  BY SessionsImplementTokens, TokensHaveHeirs, TokensEndOnce, PTL DEF ImplementsRefreshTokens

=============================================================================
