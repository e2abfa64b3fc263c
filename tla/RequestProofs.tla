----------------------------- MODULE RequestProofs -----------------------------
(***************************************************************************)
(* What a request meets, proved in two parts.                              *)
(*                                                                         *)
(* The auth middleware (AccessTokens), for every number of tokens,         *)
(* requests and password changes and for every lifetime: a published       *)
(* password change refuses the access tokens issued before it              *)
(* (RotationRefuses), and only a change that reached the users row refuses *)
(* any (RefusedForCause).                                                  *)
(*                                                                         *)
(* The handlers and the audit stream (Handlers, as the instance Http), for *)
(* every finite set of requests to any routes and any number of calls of   *)
(* SetOutput: an answer and its audit line agree (AnswersAreAudited), and  *)
(* the counter shows every request that is over (EveryRequestCounted).     *)
(***************************************************************************)
EXTENDS AccessTokens, Sequences, FiniteSetTheorems, TLAPS

-----------------------------------------------------------------------------
(* Seconds and ticks.                                                      *)

\* A tick lies in the second Unix says, and seconds follow one another in the
\* order of their ticks.
LEMMA SecondOfTick ==
    ASSUME NEW t \in Nat
    PROVE  Unix(t) \in Nat /\ Second(Unix(t)) <= t /\ t < Second(Unix(t)) + TicksPerSecond
BY TimeAssumption, Z3 DEF Unix, Second

LEMMA SecondNat ==
    ASSUME NEW n \in Nat
    PROVE  Second(n) \in Nat
BY TimeAssumption, Z3 DEF Second

LEMMA EarlierSecond ==
    ASSUME NEW t \in Nat, NEW n \in Nat, Unix(t) < n
    PROVE  t < Second(n)
<1>1. Second(Unix(t)) + TicksPerSecond <= Second(n)
  BY SecondOfTick, TimeAssumption, Z3 DEF Second
<1>. QED  BY <1>1, SecondOfTick, SecondNat, TimeAssumption

LEMMA LaterTick ==
    ASSUME NEW t \in Nat, NEW n \in Nat, Second(n) <= t
    PROVE  n <= Unix(t)
<1>1. Unix(t) \in Nat
  BY SecondOfTick
<1>2. Second(n) \in Nat
  BY SecondNat
<1>3. Unix(t) < n => t < Second(n)
  BY EarlierSecond
<1>. QED  BY <1>1, <1>2, <1>3

-----------------------------------------------------------------------------
(* The inductive invariant.                                                *)

\* The cutoff in Redis, and the one a changer is about to publish, are those
\* of a change that reached the users row.
CommitInv ==
    /\ cutoff <= changed
    /\ \A c \in Changers : at[c] \in {"publish", "ttl"} => Unix(stamp[c]) <= changed

\* A stamp lies in the past.
StampInv == \A c \in Changers : stamp[c] <= now

\* A parsed token was minted, had not expired when it was parsed, and its
\* request is not older than one call to Redis.
ParsedInv ==
    \A r \in Requests :
        res[r] = "parsed" =>
            /\ minted[tok[r]] # 0
            /\ asked[r] < ExpiresAt(tok[r])
            /\ now <= asked[r] + Lag

\* While nothing has failed and changes do not overlap, stamps are published in
\* their order ...
OrderInv ==
    /\ Second(published) <= now
    /\ \A c, d \in Changers : at[c] # "idle" /\ at[d] # "idle" => c = d
    /\ \A c \in Changers : at[c] \in {"update", "publish"} => published <= Unix(stamp[c])

\* ... a changer finds its own cutoff, alive, when it sets the TTL ...
SetInv ==
    \A c \in Changers :
        at[c] = "ttl" =>
            /\ published = Unix(stamp[c]) /\ cutoff = published
            /\ until = since[c] + CacheTTL /\ now <= since[c] + Lag

\* ... between changes the cutoff lives for CutoffTTL after its second ...
LifeInv ==
    (\A c \in Changers : at[c] # "ttl") /\ published # 0 /\ now < Second(published) + CutoffTTL =>
        cutoff = published /\ Second(published) + CutoffTTL <= until

\* ... and a token that was shut out when it was parsed still is.
ShutInv == \A r \in Requests : res[r] = "parsed" /\ shut[r] => IssuedAt(tok[r]) < published

IInv ==
    /\ TypeOK /\ CommitInv /\ StampInv /\ ParsedInv
    /\ Calm => OrderInv /\ SetInv /\ LifeInv /\ ShutInv

-----------------------------------------------------------------------------
(* Every step preserves it.                                                *)

LEMMA InitIInv == Init => IInv
<1>. SUFFICES ASSUME Init PROVE IInv
  OBVIOUS
<1>1. TypeOK
  BY TimeAssumption, Zenon DEF Init, TypeOK
<1>2. CommitInv /\ StampInv /\ ParsedInv
  BY TimeAssumption DEF Init, CommitInv, StampInv, ParsedInv
<1>3. OrderInv /\ SetInv /\ LifeInv /\ ShutInv
  <2>1. Second(published) <= now
    BY TimeAssumption DEF Init, Second
  <2>. QED  BY <2>1 DEF Init, OrderInv, SetInv, LifeInv, ShutInv
<1>. QED  BY <1>1, <1>2, <1>3 DEF IInv

\* A call that slips is remembered.
LEMMA NoSlip ==
    ASSUME NEW o, Slip(o), ~slipped'
    PROVE  ~slipped /\ o = "ok"
BY Zenon DEF Slip

\* No step makes the system calm again.
LEMMA CalmBefore ==
    ASSUME TypeOK, [Next]_vars, Calm'
    PROVE  Calm
<1>1. CASE \E j \in Tokens : SignAccess(j)
  BY <1>1 DEF SignAccess, Calm, changer
<1>2. CASE \E c \in Changers : Change(c)
  <2>. PICK c \in Changers : Change(c)
    BY <1>2
  <2>1. CASE ChangePassword(c)
    BY <2>1, Zenon DEF ChangePassword, Calm
  <2>2. CASE UpdatePassword(c)
    BY <2>2, NoSlip, Zenon DEF UpdatePassword, Commit, Calm
  <2>3. CASE RecordTokenCutoff(c)
    BY <2>3, NoSlip, Zenon DEF RecordTokenCutoff, Calm
  <2>4. CASE RecordTokenCutoffTTL(c)
    BY <2>4, NoSlip, Zenon DEF RecordTokenCutoffTTL, Calm
  <2>. QED  BY <2>1, <2>2, <2>3, <2>4 DEF Change
<1>3. CASE \E r \in Requests : Handle(r)
  BY <1>3 DEF Handle, Calm, changer
<1>4. CASE \E r \in Requests : CheckCutoff(r)
  <2>. PICK r \in Requests : CheckCutoff(r)
    BY <1>4
  <2>1. ~slipped
    BY NoSlip, Zenon DEF CheckCutoff, Calm
  <2>2. ~overlapped
    BY DEF CheckCutoff, changer, Calm
  <2>. QED  BY <2>1, <2>2 DEF Calm
<1>5. CASE Tick
  BY <1>5 DEF Tick, Calm, changer
<1>6. CASE Restart
  BY <1>6 DEF Restart, Calm
<1>7. CASE UNCHANGED vars
  BY <1>7 DEF vars, Calm
<1>. QED  BY <1>1, <1>2, <1>3, <1>4, <1>5, <1>6, <1>7 DEF Next

LEMMA NextTypeOK == TypeOK /\ [Next]_vars => TypeOK'
<1>. SUFFICES ASSUME TypeOK, [Next]_vars PROVE TypeOK'
  OBVIOUS
<1>. USE DEF TypeOK
<1>1. ASSUME NEW j \in Tokens, SignAccess(j) PROVE TypeOK'
  BY <1>1 DEF SignAccess, redis, changer, request
<1>2. ASSUME NEW c \in Changers, ChangePassword(c) PROVE TypeOK'
  BY <1>2 DEF ChangePassword, clock, redis, request
<1>3. ASSUME NEW c \in Changers, UpdatePassword(c) PROVE TypeOK'
  BY <1>3, SecondOfTick DEF UpdatePassword, Commit, Slip, Return, clock, redis, request
<1>4. ASSUME NEW c \in Changers, RecordTokenCutoff(c) PROVE TypeOK'
  BY <1>4, SecondOfTick, TimeAssumption DEF RecordTokenCutoff, Slip, Return, clock, redis, request
<1>5. ASSUME NEW c \in Changers, RecordTokenCutoffTTL(c) PROVE TypeOK'
  BY <1>5, TimeAssumption DEF RecordTokenCutoffTTL, Slip, Return, clock, redis, request
<1>6. ASSUME NEW r \in Requests, Handle(r) PROVE TypeOK'
  <2>1. \A j \in Tokens : (IssuedAt(j) < published) \in BOOLEAN
    BY SecondOfTick DEF IssuedAt
  <2>2. CASE res' = [res EXCEPT ![r] = "invalid"] /\ UNCHANGED <<tok, asked, shut>>
    BY <1>6, <2>2 DEF Handle, clock, redis, changer
  <2>3. ASSUME NEW j \in Tokens,
               res' = [res EXCEPT ![r] = "parsed"], tok' = [tok EXCEPT ![r] = j],
               asked' = [asked EXCEPT ![r] = now],
               shut' = [shut EXCEPT ![r] = IssuedAt(j) < published]
        PROVE  TypeOK'
    <3>1. shut' \in [Requests -> BOOLEAN]
      BY <2>1, <2>3
    <3>. QED  BY <1>6, <2>3, <3>1, NoneAssumption DEF Handle, clock, redis, changer
  <2>. QED  BY <1>6, <2>2, <2>3 DEF Handle
<1>7. ASSUME NEW r \in Requests, CheckCutoff(r) PROVE TypeOK'
  BY <1>7 DEF CheckCutoff, Slip, clock, redis, changer
<1>8. CASE Tick
  BY <1>8 DEF Tick, redis, changer, request
<1>9. CASE Restart
  BY <1>9 DEF Restart, clock, redis
<1>10. CASE UNCHANGED vars
  BY <1>10 DEF vars
<1>. QED  BY <1>1, <1>2, <1>3, <1>4, <1>5, <1>6, <1>7, <1>8, <1>9, <1>10 DEF Next, Change

LEMMA NextCommitInv == TypeOK /\ CommitInv /\ [Next]_vars => CommitInv'
<1>. SUFFICES ASSUME TypeOK, CommitInv, [Next]_vars PROVE CommitInv'
  OBVIOUS
<1>. USE DEF CommitInv, TypeOK
<1>0. \A c \in Changers : Unix(stamp[c]) \in Nat
  BY SecondOfTick
<1>1. ASSUME NEW j \in Tokens, SignAccess(j) PROVE CommitInv'
  BY <1>1 DEF SignAccess, redis, changer, Unix
<1>2. ASSUME NEW c \in Changers, ChangePassword(c) PROVE CommitInv'
  BY <1>2, <1>0 DEF ChangePassword, clock, redis
<1>3. ASSUME NEW c \in Changers, UpdatePassword(c) PROVE CommitInv'
  <2>1. PICK o \in Outcomes :
            /\ Commit(c, o)
            /\ IF o = "ok" THEN at' = [at EXCEPT ![c] = "publish"] /\ UNCHANGED <<stamp, since>>
               ELSE Return(c)
    BY <1>3 DEF UpdatePassword
  <2>2. cutoff' = cutoff
    BY <1>3 DEF UpdatePassword, redis
  <2>3. changed' >= changed /\ changed' \in Nat /\ (o = "ok" => Unix(stamp[c]) <= changed')
    BY <2>1, <1>0 DEF Commit
  <2>4. CASE o = "ok"
    BY <2>1, <2>2, <2>3, <2>4, <1>0
  <2>5. CASE o # "ok"
    BY <2>1, <2>2, <2>3, <2>5, <1>0 DEF Return
  <2>. QED  BY <2>4, <2>5
<1>4. ASSUME NEW c \in Changers, RecordTokenCutoff(c) PROVE CommitInv'
  <2>1. cutoff' \in {cutoff, Unix(stamp[c])} /\ changed' = changed /\ at[c] = "publish"
    BY <1>4 DEF RecordTokenCutoff, redis
  <2>2. \A d \in Changers : at'[d] # "idle" => stamp'[d] = stamp[d]
    BY <1>4 DEF RecordTokenCutoff, Return
  <2>3. \A d \in Changers : at'[d] \in {"publish", "ttl"} => at[d] \in {"publish", "ttl"}
    BY <1>4 DEF RecordTokenCutoff, Return
  <2>. QED  BY <2>1, <2>2, <2>3, <1>0
<1>5. ASSUME NEW c \in Changers, RecordTokenCutoffTTL(c) PROVE CommitInv'
  BY <1>5, <1>0 DEF RecordTokenCutoffTTL, Return, clock
<1>6. ASSUME NEW r \in Requests, Handle(r) PROVE CommitInv'
  BY <1>6 DEF Handle, redis, changer
<1>7. ASSUME NEW r \in Requests, CheckCutoff(r) PROVE CommitInv'
  BY <1>7 DEF CheckCutoff, redis, changer
<1>8. CASE Tick
  BY <1>8 DEF Tick, redis, changer
<1>9. CASE Restart
  BY <1>9 DEF Restart, redis
<1>10. CASE UNCHANGED vars
  BY <1>10 DEF vars
<1>. QED  BY <1>1, <1>2, <1>3, <1>4, <1>5, <1>6, <1>7, <1>8, <1>9, <1>10 DEF Next, Change

LEMMA NextStampInv == TypeOK /\ StampInv /\ [Next]_vars => StampInv'
<1>. SUFFICES ASSUME TypeOK, StampInv, [Next]_vars PROVE StampInv'
  OBVIOUS
<1>. USE DEF StampInv, TypeOK
<1>1. ASSUME NEW j \in Tokens, SignAccess(j) PROVE StampInv'
  BY <1>1 DEF SignAccess, changer
<1>2. ASSUME NEW c \in Changers, ChangePassword(c) PROVE StampInv'
  BY <1>2 DEF ChangePassword, clock
<1>3. ASSUME NEW c \in Changers, UpdatePassword(c) PROVE StampInv'
  BY <1>3 DEF UpdatePassword, Return, clock
<1>4. ASSUME NEW c \in Changers, RecordTokenCutoff(c) PROVE StampInv'
  BY <1>4 DEF RecordTokenCutoff, Return, clock
<1>5. ASSUME NEW c \in Changers, RecordTokenCutoffTTL(c) PROVE StampInv'
  BY <1>5 DEF RecordTokenCutoffTTL, Return, clock
<1>6. ASSUME NEW r \in Requests, Handle(r) PROVE StampInv'
  BY <1>6 DEF Handle, clock, changer
<1>7. ASSUME NEW r \in Requests, CheckCutoff(r) PROVE StampInv'
  BY <1>7 DEF CheckCutoff, clock, changer
<1>8. CASE Tick
  BY <1>8 DEF Tick, changer
<1>9. CASE Restart
  BY <1>9 DEF Restart, clock
<1>10. CASE UNCHANGED vars
  BY <1>10 DEF vars
<1>. QED  BY <1>1, <1>2, <1>3, <1>4, <1>5, <1>6, <1>7, <1>8, <1>9, <1>10 DEF Next, Change

LEMMA NextParsedInv == TypeOK /\ ParsedInv /\ [Next]_vars => ParsedInv'
<1>. SUFFICES ASSUME TypeOK, ParsedInv, [Next]_vars PROVE ParsedInv'
  OBVIOUS
<1>. USE DEF ParsedInv, TypeOK
<1>1. ASSUME NEW j \in Tokens, SignAccess(j) PROVE ParsedInv'
  BY <1>1 DEF SignAccess, request, ExpiresAt
<1>2. ASSUME NEW c \in Changers, Change(c) PROVE ParsedInv'
  BY <1>2 DEF Change, ChangePassword, UpdatePassword, RecordTokenCutoff, RecordTokenCutoffTTL,
     clock, request, ExpiresAt
<1>3. ASSUME NEW r \in Requests, Handle(r) PROVE ParsedInv'
  BY <1>3, TimeAssumption DEF Handle, ParseToken, clock, ExpiresAt
<1>4. ASSUME NEW r \in Requests, CheckCutoff(r) PROVE ParsedInv'
  BY <1>4 DEF CheckCutoff, clock, ExpiresAt
<1>5. CASE Tick
  BY <1>5, TimeAssumption DEF Tick, request, ExpiresAt
<1>6. CASE Restart
  BY <1>6 DEF Restart
<1>7. CASE UNCHANGED vars
  BY <1>7 DEF vars, ExpiresAt
<1>. QED  BY <1>1, <1>2, <1>3, <1>4, <1>5, <1>6, <1>7 DEF Next

-----------------------------------------------------------------------------
(* The calm part.                                                          *)

CalmInv == OrderInv /\ SetInv /\ LifeInv /\ ShutInv

LEMMA ChangePasswordCalm ==
    ASSUME TypeOK, StampInv, CalmInv, NEW c \in Changers, ChangePassword(c), Calm'
    PROVE  CalmInv'
<1>. USE DEF TypeOK
<1>1. now' = now /\ published' = published /\ cutoff' = cutoff /\ until' = until /\ since' = since
  BY DEF ChangePassword, clock, redis
<1>2. \A d \in Changers : at[d] = "idle"
  BY Zenon DEF ChangePassword, Calm
<1>3. at' = [at EXCEPT ![c] = "update"] /\ stamp' = [stamp EXCEPT ![c] = now]
  BY DEF ChangePassword
<1>4. published <= Unix(now)
  BY LaterTick DEF CalmInv, OrderInv
<1>5. OrderInv'
  BY <1>1, <1>2, <1>3, <1>4 DEF CalmInv, OrderInv
<1>6. SetInv'
  BY <1>2, <1>3 DEF SetInv
<1>7. LifeInv'
  BY <1>1, <1>2, <1>3 DEF CalmInv, LifeInv
<1>8. ShutInv'
  BY <1>1 DEF ChangePassword, request, clock, CalmInv, ShutInv, IssuedAt
<1>. QED  BY <1>5, <1>6, <1>7, <1>8 DEF CalmInv

LEMMA UpdatePasswordCalm ==
    ASSUME TypeOK, CalmInv, NEW c \in Changers, UpdatePassword(c), Calm'
    PROVE  CalmInv'
<1>. USE DEF TypeOK
<1>1. now' = now /\ published' = published /\ cutoff' = cutoff /\ until' = until
  BY DEF UpdatePassword, clock, redis
<1>2. at' = [at EXCEPT ![c] = "publish"] /\ stamp' = stamp /\ since' = since
  BY NoSlip, Zenon DEF UpdatePassword, Commit, Calm
<1>3. at[c] = "update"
  BY DEF UpdatePassword
<1>4. OrderInv'
  BY <1>1, <1>2, <1>3 DEF CalmInv, OrderInv
<1>5. SetInv'
  BY <1>1, <1>2, <1>3 DEF CalmInv, SetInv
<1>6. LifeInv'
  BY <1>1, <1>2, <1>3 DEF CalmInv, LifeInv
<1>7. ShutInv'
  BY <1>1 DEF UpdatePassword, request, clock, CalmInv, ShutInv, IssuedAt
<1>. QED  BY <1>4, <1>5, <1>6, <1>7 DEF CalmInv

LEMMA RecordTokenCutoffCalm ==
    ASSUME TypeOK, StampInv, CalmInv, NEW c \in Changers, RecordTokenCutoff(c), Calm'
    PROVE  CalmInv'
<1>. USE DEF TypeOK
<1>1. /\ now' = now /\ cutoff' = Unix(stamp[c]) /\ published' = Unix(stamp[c])
      /\ until' = now + CacheTTL /\ since' = [since EXCEPT ![c] = now]
      /\ at' = [at EXCEPT ![c] = "ttl"] /\ stamp' = stamp
  BY NoSlip, Zenon DEF RecordTokenCutoff, Calm, clock
<1>2. at[c] = "publish"
  BY DEF RecordTokenCutoff
<1>3. Unix(stamp[c]) \in Nat /\ Second(Unix(stamp[c])) \in Nat /\ Second(Unix(stamp[c])) <= stamp[c]
  BY SecondOfTick, SecondNat
<1>4. \A d \in Changers : d # c => at[d] = "idle"
  BY <1>2 DEF CalmInv, OrderInv
<1>5. OrderInv'
  <2>1. Second(published') <= now'
    BY <1>1, <1>3 DEF StampInv
  <2>. QED  BY <1>1, <1>2, <1>4, <2>1 DEF OrderInv
<1>6. SetInv'
  BY <1>1, <1>4, TimeAssumption DEF SetInv
<1>7. LifeInv'
  BY <1>1 DEF LifeInv
<1>8. ShutInv'
  <2>1. published <= published'
    BY <1>1, <1>2 DEF CalmInv, OrderInv
  <2>2. minted' = minted /\ res' = res /\ tok' = tok /\ shut' = shut
    BY DEF RecordTokenCutoff, clock, request
  <2>3. \A j \in Tokens : IssuedAt(j) \in Nat
    BY SecondOfTick DEF IssuedAt
  <2>. QED  BY <1>1, <1>3, <2>1, <2>2, <2>3 DEF CalmInv, ShutInv, IssuedAt
<1>. QED  BY <1>5, <1>6, <1>7, <1>8 DEF CalmInv

LEMMA RecordTokenCutoffTTLCalm ==
    ASSUME TypeOK, StampInv, CalmInv, NEW c \in Changers, RecordTokenCutoffTTL(c), Calm'
    PROVE  CalmInv'
<1>. USE DEF TypeOK
<1>1. /\ now' = now /\ cutoff' = cutoff /\ published' = published
      /\ at' = [at EXCEPT ![c] = "idle"] /\ stamp' = [stamp EXCEPT ![c] = 0]
      /\ since' = [since EXCEPT ![c] = 0]
  BY DEF RecordTokenCutoffTTL, Return, clock
<1>2. until' = IF Alive THEN now + CutoffTTL ELSE until
  BY NoSlip, Zenon DEF RecordTokenCutoffTTL, Calm
<1>3. at[c] = "ttl"
  BY DEF RecordTokenCutoffTTL
<1>4. \A d \in Changers : d # c => at[d] = "idle"
  BY <1>3 DEF CalmInv, OrderInv
<1>5. OrderInv'
  BY <1>1, <1>4 DEF CalmInv, OrderInv
<1>6. SetInv'
  BY <1>1, <1>4 DEF SetInv
<1>7. LifeInv'
  <2>1. cutoff = published /\ Second(published) <= now
    BY <1>3 DEF CalmInv, SetInv, OrderInv
  <2>2. Second(published) \in Nat
    BY SecondNat
  <2>3. published # 0 => until' = now + CutoffTTL
    BY <1>2, <2>1 DEF Alive
  <2>. QED  BY <1>1, <2>1, <2>2, <2>3, TimeAssumption DEF LifeInv
<1>8. ShutInv'
  BY <1>1 DEF RecordTokenCutoffTTL, request, clock, CalmInv, ShutInv, IssuedAt
<1>. QED  BY <1>5, <1>6, <1>7, <1>8 DEF CalmInv

LEMMA TickCalm ==
    ASSUME TypeOK, CalmInv, Tick
    PROVE  CalmInv'
<1>. USE DEF TypeOK
<1>1. /\ now' = now + 1 /\ published' = published /\ at' = at /\ stamp' = stamp /\ since' = since
      /\ IF now' < until THEN cutoff' = cutoff /\ until' = until ELSE cutoff' = 0 /\ until' = 0
  BY DEF Tick, redis, changer
<1>2. Second(published) \in Nat
  BY SecondNat
<1>3. OrderInv'
  BY <1>1, <1>2 DEF CalmInv, OrderInv
<1>4. SetInv'
  <2>. SUFFICES ASSUME NEW c \in Changers, at[c] = "ttl"
                PROVE  /\ published = Unix(stamp[c]) /\ cutoff' = published
                       /\ until' = since[c] + CacheTTL /\ now' <= since[c] + Lag
    BY <1>1 DEF SetInv
  <2>1. now < since[c] + Lag
    BY DEF Tick
  <2>2. now' < until
    BY <1>1, <2>1, TimeAssumption DEF CalmInv, SetInv
  <2>. QED  BY <1>1, <2>1, <2>2, TimeAssumption DEF CalmInv, SetInv
<1>5. LifeInv'
  BY <1>1, <1>2, TimeAssumption DEF CalmInv, LifeInv
<1>6. ShutInv'
  BY <1>1 DEF Tick, request, CalmInv, ShutInv, IssuedAt
<1>. QED  BY <1>3, <1>4, <1>5, <1>6 DEF CalmInv

LEMMA SignAccessCalm ==
    ASSUME TypeOK, ParsedInv, CalmInv, NEW j \in Tokens, SignAccess(j)
    PROVE  CalmInv'
<1>. USE DEF TypeOK
<1>1. UNCHANGED <<now, cutoff, until, at, stamp, since, published>>
  BY DEF SignAccess, redis, changer
<1>2. OrderInv' /\ SetInv' /\ LifeInv'
  BY <1>1 DEF CalmInv, OrderInv, SetInv, LifeInv
<1>3. ShutInv'
  BY DEF SignAccess, changer, request, CalmInv, ParsedInv, ShutInv, IssuedAt
<1>. QED  BY <1>2, <1>3 DEF CalmInv

LEMMA RequestCalm ==
    ASSUME TypeOK, CalmInv, NEW r \in Requests, Handle(r) \/ CheckCutoff(r)
    PROVE  CalmInv'
<1>. USE DEF TypeOK
<1>1. UNCHANGED <<now, minted, cutoff, until, at, stamp, since, published>>
  BY DEF Handle, CheckCutoff, clock, redis, changer
<1>2. OrderInv' /\ SetInv' /\ LifeInv'
  BY <1>1 DEF CalmInv, OrderInv, SetInv, LifeInv
<1>3. ShutInv'
  <2>1. CASE Handle(r)
    BY <1>1, <2>1, Zenon DEF Handle, CalmInv, ShutInv, IssuedAt
  <2>2. CASE CheckCutoff(r)
    BY <1>1, <2>2 DEF CheckCutoff, CalmInv, ShutInv, IssuedAt
  <2>. QED  BY <2>1, <2>2
<1>. QED  BY <1>2, <1>3 DEF CalmInv

LEMMA NextIInv == IInv /\ [Next]_vars => IInv'
<1>. SUFFICES ASSUME IInv, [Next]_vars PROVE IInv'
  OBVIOUS
<1>1. TypeOK' /\ CommitInv' /\ StampInv' /\ ParsedInv'
  BY NextTypeOK, NextCommitInv, NextStampInv, NextParsedInv DEF IInv
<1>2. ASSUME Calm' PROVE CalmInv'
  <2>1. TypeOK /\ StampInv /\ ParsedInv /\ CalmInv
    BY <1>2, CalmBefore DEF IInv, CalmInv
  <2>2. CASE \E j \in Tokens : SignAccess(j)
    BY <2>1, <2>2, SignAccessCalm
  <2>3. CASE \E c \in Changers : Change(c)
    BY <1>2, <2>1, <2>3, ChangePasswordCalm, UpdatePasswordCalm, RecordTokenCutoffCalm,
       RecordTokenCutoffTTLCalm DEF Change
  <2>4. CASE \E r \in Requests : Handle(r) \/ CheckCutoff(r)
    BY <2>1, <2>4, RequestCalm
  <2>5. CASE Tick
    BY <2>1, <2>5, TickCalm
  <2>6. CASE Restart
    BY <1>2, <2>6 DEF Restart, Calm
  <2>7. CASE UNCHANGED vars
    BY <2>1, <2>7 DEF vars, CalmInv, OrderInv, SetInv, LifeInv, ShutInv, IssuedAt
  <2>. QED  BY <2>2, <2>3, <2>4, <2>5, <2>6, <2>7 DEF Next
<1>. QED  BY <1>1, <1>2 DEF IInv, CalmInv

-----------------------------------------------------------------------------
(* The theorems.                                                           *)

\* The inductive invariant holds throughout: signAccess, the three steps of a
\* password change, the middleware and the clock all preserve it.
THEOREM Invariance == Spec => []IInv
BY InitIInv, NextIInv, PTL DEF Spec

\* AuthMiddleware refuses a token only because of a password change that
\* reached the users row in a later second than the token's iat.
THEOREM RefusalHasCause == Spec => RefusedForCause
<1>1. ASSUME IInv, [Next]_vars
      PROVE  [\A r \in Requests : Answers(r, "revoked") => IssuedAt(tok[r]) < changed]_vars
  <2>. SUFFICES ASSUME NEW r \in Requests, Answers(r, "revoked")
                PROVE  IssuedAt(tok[r]) < changed
    OBVIOUS
  <2>1. res[r] = "parsed" /\ res'[r] = "revoked"
    BY DEF Answers
  <2>2. CheckCutoff(r)
    BY <1>1, <2>1 DEF Next, IInv, TypeOK, SignAccess, Change, ChangePassword, UpdatePassword,
       RecordTokenCutoff, RecordTokenCutoffTTL, Handle, CheckCutoff, Tick, Restart, vars, request
  <2>3. IssuedAt(tok[r]) < cutoff
    BY <2>1, <2>2, <1>1 DEF CheckCutoff, Revoked, IInv, TypeOK
  <2>4. IssuedAt(tok[r]) \in Nat
    BY <1>1, <2>1, SecondOfTick DEF IInv, TypeOK, IssuedAt
  <2>. QED  BY <1>1, <2>3, <2>4 DEF IInv, TypeOK, CommitInv
<1>. QED  BY <1>1, Invariance, PTL DEF Spec, RefusedForCause

\* When tokenCutoffTTL covers JWT_EXPIRED and one Redis call, a published
\* password change shuts out every access token issued before its second, for
\* the rest of the token's life.
THEOREM RotationShutsOut == Spec => RotationRefuses
<1>1. ASSUME IInv, [Next]_vars
      PROVE  [LongEnough /\ Calm' =>
                 \A r \in Requests : Answers(r, "admitted") => ~shut[r]]_vars
  <2>. SUFFICES ASSUME LongEnough, Calm', NEW r \in Requests, Answers(r, "admitted"), shut[r]
                PROVE  FALSE
    OBVIOUS
  <2>1. res[r] = "parsed" /\ res'[r] = "admitted"
    BY DEF Answers
  <2>2. CheckCutoff(r)
    BY <1>1, <2>1 DEF Next, IInv, TypeOK, SignAccess, Change, ChangePassword, UpdatePassword,
       RecordTokenCutoff, RecordTokenCutoffTTL, Handle, CheckCutoff, Tick, Restart, vars, request
  <2>3. TypeOK /\ ParsedInv /\ CalmInv
    BY <1>1, CalmBefore DEF IInv, CalmInv
  <2>4. res' = [res EXCEPT ![r] = IF Revoked(tok[r]) THEN "revoked" ELSE "admitted"]
    BY <2>2, NoSlip, Zenon DEF CheckCutoff, Calm
  <2>5. ~Revoked(tok[r])
    BY <2>1, <2>3, <2>4 DEF TypeOK
  <2>6. tok[r] \in Tokens /\ minted[tok[r]] \in Nat
    BY <2>1, <2>3 DEF TypeOK
  <2>7. IssuedAt(tok[r]) \in Nat /\ IssuedAt(tok[r]) < published
    BY <2>1, <2>3, <2>6, SecondOfTick, Zenon DEF CalmInv, ShutInv, IssuedAt
  <2>8. CASE \E c \in Changers : at[c] = "ttl"
    <3>1. cutoff = published
      BY <2>3, <2>8 DEF CalmInv, SetInv
    <3>. QED  BY <3>1, <2>3, <2>5, <2>7 DEF Revoked, Alive, TypeOK
  <2>9. CASE \A c \in Changers : at[c] # "ttl"
    <3>1. minted[tok[r]] < Second(published)
      BY <2>3, <2>6, <2>7, EarlierSecond DEF IssuedAt, TypeOK
    <3>2. ExpiresAt(tok[r]) \in Nat /\ ExpiresAt(tok[r]) <= minted[tok[r]] + AccessLife
      BY <2>6, SecondOfTick, SecondNat, TimeAssumption DEF ExpiresAt, NumericDate
    <3>3. now <= asked[r] + Lag /\ asked[r] < ExpiresAt(tok[r])
      BY <2>1, <2>3 DEF ParsedInv
    <3>4. now < Second(published) + CutoffTTL
      BY <2>3, <2>6, <3>1, <3>2, <3>3, SecondNat, TimeAssumption DEF LongEnough, TypeOK
    <3>5. cutoff = published
      BY <2>3, <2>7, <2>9, <3>4 DEF CalmInv, LifeInv, TypeOK
    <3>. QED  BY <3>5, <2>3, <2>5, <2>7 DEF Revoked, Alive, TypeOK
  <2>. QED  BY <2>8, <2>9
<1>. QED  BY <1>1, Invariance, PTL DEF Spec, RotationRefuses

-----------------------------------------------------------------------------
(* The handlers and their inductive invariant.                             *)

CONSTANTS SinkFaults, MaxSwaps, Mixes
VARIABLES encMu, enc, err, setting, step, using, lines, silenced,
          place, route, cause, outcome, status, httpRequestsTotal

\* The handlers; place is where a request is in its chain.
Http == INSTANCE Handlers WITH at <- place

Places == {"new", "usecase", "record", "answered", "done"}
Codes == {200, 201, 400, 401, 403, 404, 409, 422, 429, 500}
Returns == Http!ErrorTypes \cup {"ok"}
Events == {r.ok : r \in Http!Routes} \cup {r.fail : r \in Http!Routes} \cup {"otp_lockout"}
Lines == [request : Requests, event : Events, success : BOOLEAN]

\* The requests and their answers.
RequestsOK ==
    /\ place \in [Requests -> Places]
    /\ route \in [Requests -> Http!Routes]
    /\ outcome \in [Requests -> Returns \cup {None}]
    /\ status \in [Requests -> Codes \cup {None}]

\* The stream and the Record calls on it.
StreamOK ==
    /\ step \in [Requests -> {"none", "load", "encode", "done"}]
    /\ using \in [Requests -> Http!Encoders \cup {None}]
    /\ err \in [Http!Encoders -> BOOLEAN]
    /\ setting \in BOOLEAN /\ enc \in Http!Encoders /\ (setting => enc < MaxSwaps)
    /\ lines \in Seq(Lines)

\* A request has an outcome once its usecase has returned, and the status of its
\* answer then says which; its event is recorded after the usecase, and before
\* the answer.
Answered(q) ==
    /\ place[q] \in {"new", "usecase"} => outcome[q] = None
    /\ place[q] = "record" => outcome[q] # None
    /\ place[q] \in {"answered", "done"} => status[q] \in Codes
    /\ place[q] \in {"answered", "done"} /\ outcome[q] # None =>
          /\ status[q] < 400 <=> outcome[q] = "ok"
          /\ Http!Event(q) = None \/ step[q] = "done"
    /\ step[q] # "none" => outcome[q] # None /\ Http!Event(q) # None

\* A Record has no line before it is done and then one, with the outcome of its
\* request, unless its encoder has failed.
Recorded(q) ==
    /\ step[q] \in {"encode", "done"} => using[q] \in Http!Encoders
    /\ step[q] # "done" => Http!LinesOf(q) = {}
    /\ step[q] = "done" =>
          \/ \E i \in Http!LinesOf(q) : Http!LinesOf(q) = {i} /\ lines[i].success = (outcome[q] = "ok")
          \/ Http!LinesOf(q) = {} /\ err[using[q]]

AuditInv == \A q \in Requests : Answered(q) /\ Recorded(q)

HttpInv == RequestsOK /\ StreamOK /\ AuditInv /\ Http!EveryRequestCounted

-----------------------------------------------------------------------------
(* Routes, statuses and lines.                                             *)

\* Most leaves below are first-order; those that need SMT say so.
USE Zenon

\* What a usecase returns is an error type or nil, and what its handler records
\* is an event or nothing.
LEMMA RouteErrors ==
  ASSUME NEW r \in Http!Routes
  PROVE  /\ \A e \in r.errors : e[2] \in Returns
         /\ r.ok \in Events /\ r.fail \in Events
<1>1. r.ok \in Events /\ r.fail \in Events
  BY DEF Events
<1>2. CASE r \in {Http!Register, Http!Login, Http!Refresh}
  BY <1>1, <1>2, SMT DEF Http!Register, Http!Login, Http!Refresh, Returns, Http!ErrorTypes
<1>3. CASE r \in {Http!Logout, Http!SendOTP, Http!VerifyOTP}
  BY <1>1, <1>3, SMT DEF Http!Logout, Http!SendOTP, Http!VerifyOTP, Returns, Http!ErrorTypes
<1>4. CASE r \in {Http!ForgotPassword, Http!ResetPassword, Http!ChangePassword, Http!GetUserData}
  BY <1>1, <1>4, SMT DEF Http!ForgotPassword, Http!ResetPassword, Http!ChangePassword, Http!GetUserData, Returns, Http!ErrorTypes
<1> QED
  BY <1>2, <1>3, <1>4 DEF Http!Routes, Http!AuthRoutes

\* An error is never answered with a status below 400.
LEMMA StatusOfOutcome ==
  ASSUME NEW t
  PROVE  Http!mapDomainErrorToHTTP(t) \in {400, 401, 403, 404, 409, 500}
  BY SMT DEF Http!mapDomainErrorToHTTP

\* A middleware that refuses answers with a status.
LEMMA RefusalCodes ==
  ASSUME NEW r, NEW c \in Http!Refusals(r)
  PROVE  c \in Codes
  BY SMT DEF Http!Refusals, Http!MiddlewareRefusals, Http!BindingRefusals, Codes

\* A line appended is its request's only new one.
LEMMA AppendLine ==
  ASSUME lines \in Seq(Lines), NEW l \in Lines, lines' = Append(lines, l), NEW q \in Requests
  PROVE  /\ lines' \in Seq(Lines)
         /\ \A i \in Http!LinesOf(q) : lines'[i] = lines[i]
         /\ l.request # q => Http!LinesOf(q)' = Http!LinesOf(q)
         /\ l.request = q => Http!LinesOf(q)' = Http!LinesOf(q) \cup {Len(lines) + 1}
         /\ lines'[Len(lines) + 1] = l
<1>1. /\ lines' \in Seq(Lines) /\ Len(lines) \in Nat /\ Len(lines') = Len(lines) + 1
      /\ \A i \in 1..Len(lines) : lines'[i] = lines[i]
      /\ lines'[Len(lines) + 1] = l
  BY SMT
<1>2. \A i : i \in 1..Len(lines') <=> i \in 1..Len(lines) \/ i = Len(lines) + 1
  BY <1>1, SMT
<1>3. \A i \in Http!LinesOf(q) : lines'[i] = lines[i]
  BY <1>1 DEF Http!LinesOf
<1>4. l.request # q => Http!LinesOf(q)' = Http!LinesOf(q)
  BY <1>1, <1>2 DEF Http!LinesOf
<1>5. l.request = q => Http!LinesOf(q)' = Http!LinesOf(q) \cup {Len(lines) + 1}
  BY <1>1, <1>2 DEF Http!LinesOf
<1> QED
  BY <1>1, <1>3, <1>4, <1>5

-----------------------------------------------------------------------------
(* What a step leaves alone, and what it counts.                           *)

\* A step leaves request q where it is.
Keeps(q) ==
    /\ place'[q] = place[q] /\ route'[q] = route[q] /\ outcome'[q] = outcome[q]
    /\ status'[q] = status[q] /\ step'[q] = step[q] /\ using'[q] = using[q]

\* A request left where it is keeps its part of the invariant.
LEMMA AnsweredFrame ==
  ASSUME NEW q \in Requests, Keeps(q), Answered(q)
  PROVE  Answered(q)'
  BY DEF Keeps, Answered, Http!Event

\* Its lines stay, and an encoder that has failed does not recover.
LEMMA RecordedFrame ==
  ASSUME NEW q \in Requests, Recorded(q),
         outcome'[q] = outcome[q], step'[q] = step[q], using'[q] = using[q],
         Http!LinesOf(q)' = Http!LinesOf(q), \A i \in Http!LinesOf(q) : lines'[i] = lines[i],
         \A k \in Http!Encoders : err[k] => err'[k]
  PROVE  Recorded(q)'
  BY DEF Recorded

\* Nothing is counted, and what is over stays as it was.
LEMMA CountFrame ==
  ASSUME Http!EveryRequestCounted, UNCHANGED httpRequestsTotal,
         \A q \in Requests : place'[q] = "done" <=> place[q] = "done",
         \A q \in Requests : place[q] = "done" => route'[q] = route[q] /\ status'[q] = status[q]
  PROVE  Http!EveryRequestCounted'
<1>1. Http!Over' = Http!Over
  BY DEF Http!Over
<1>2. \A q \in Http!Over : Http!Label(q)' = Http!Label(q)
  BY DEF Http!Over, Http!Label
<1>3. {Http!Label(q) : q \in Http!Over}' = {Http!Label(q) : q \in Http!Over}
  BY <1>1, <1>2
<1>4. \A l : {q \in Http!Over : Http!Label(q) = l}' = {q \in Http!Over : Http!Label(q) = l}
  BY <1>1, <1>2
<1> QED
  BY <1>3, <1>4 DEF Http!EveryRequestCounted, Http!BagToSet

\* One more request is over, and its counter has gone up by one.
CountedUp(q) ==
    LET B == httpRequestsTotal IN
    /\ DOMAIN B' = DOMAIN B \cup {Http!Label(q)}
    /\ \A l \in DOMAIN B' :
          B'[l] = (IF l \in DOMAIN B THEN B[l] ELSE 0) + (IF l = Http!Label(q) THEN 1 ELSE 0)

\* The instance counts as FiniteSets does.
LEMMA SameCardinality ==
  ASSUME NEW S
  PROVE  Http!Cardinality(S) = Cardinality(S) /\ Http!IsFiniteSet(S) = IsFiniteSet(S)
  BY DEF Cardinality, Http!Cardinality, IsFiniteSet, Http!IsFiniteSet

\* A request more and one more under its label: the counter still shows them all.
LEMMA CountOne ==
  ASSUME Http!WellFormed, Http!EveryRequestCounted, NEW q \in Requests \ Http!Over,
         Http!Over' = Http!Over \cup {q},
         \A r \in Requests : Http!Label(r)' = Http!Label(r), CountedUp(q)
  PROVE  Http!EveryRequestCounted'
<1> DEFINE B == httpRequestsTotal
           At(l) == {r \in Http!Over : Http!Label(r) = l}
<1>1. /\ DOMAIN B' = DOMAIN B \cup {Http!Label(q)}
      /\ \A l \in DOMAIN B' : B'[l] = (IF l \in DOMAIN B THEN B[l] ELSE 0)
                                       + (IF l = Http!Label(q) THEN 1 ELSE 0)
  BY DEF CountedUp
<1>2. DOMAIN B = {Http!Label(r) : r \in Http!Over} /\ \A l \in DOMAIN B : B[l] = Cardinality(At(l))
  BY SameCardinality DEF Http!EveryRequestCounted, Http!BagToSet
<1>3. {Http!Label(r) : r \in Http!Over}' = {Http!Label(r) : r \in Http!Over} \cup {Http!Label(q)}
  BY DEF Http!Over
<1>4. ASSUME NEW l \in DOMAIN B'
      PROVE  B'[l] = Cardinality({r \in Http!Over : Http!Label(r) = l}')
  <2>1. At(l) \subseteq Requests /\ IsFiniteSet(At(l)) /\ Cardinality(At(l)) \in Nat
    <3>1. At(l) \subseteq Requests
      BY DEF Http!Over
    <3>2. IsFiniteSet(At(l))
      BY <3>1, FS_Subset, SameCardinality DEF Http!WellFormed
    <3> QED
      BY <3>1, <3>2, FS_CardinalityType
  <2>2. l \notin DOMAIN B => Cardinality(At(l)) = 0
    <3>1. l \notin DOMAIN B => At(l) = {}
      BY <1>2
    <3> QED
      BY <3>1, FS_EmptySet
  <2>3. (IF l \in DOMAIN B THEN B[l] ELSE 0) = Cardinality(At(l))
    BY <1>2, <2>2
  <2>4. CASE l = Http!Label(q)
    <3>1. {r \in Http!Over : Http!Label(r) = l}' = At(l) \cup {q} /\ q \notin At(l)
      BY <2>4 DEF Http!Over
    <3>2. Cardinality(At(l) \cup {q}) = Cardinality(At(l)) + 1
      BY <2>1, <3>1, FS_AddElement
    <3> QED
      BY <1>1, <1>4, <2>3, <2>4, <3>1, <3>2
  <2>5. CASE l # Http!Label(q)
    <3>1. {r \in Http!Over : Http!Label(r) = l}' = At(l)
      BY <2>5 DEF Http!Over
    <3> QED
      <4>1. B'[l] = (IF l \in DOMAIN B THEN B[l] ELSE 0) + 0
        BY <1>1, <1>4, <2>5
      <4> HIDE DEF B, At
      <4> QED
        BY <2>1, <2>3, <3>1, <4>1, SMT
  <2> QED
    BY <2>4, <2>5
<1> QED
  BY <1>1, <1>2, <1>3, <1>4, SameCardinality DEF Http!EveryRequestCounted, Http!BagToSet

-----------------------------------------------------------------------------
(* Every step preserves the invariant.                                     *)

\* Nothing has been asked, recorded or counted.
LEMMA HttpInitInv ==
  ASSUME Http!WellFormed, Http!Init
  PROVE  HttpInv
<1> USE DEF Http!Init, Http!AuditInit
<1>1. RequestsOK
  BY DEF RequestsOK, Http!WellFormed, Places
<1>2. StreamOK
  <2>1. 0 \in Http!Encoders
    BY SMT DEF Http!WellFormed, Http!Encoders
  <2>2. setting \in BOOLEAN /\ ~setting
    OBVIOUS
  <2>3. <<>> \in Seq(Lines)
    BY SMT
  <2>4. step \in [Requests -> {"none"}] /\ using \in [Requests -> {None}] /\ err \in [Http!Encoders -> {FALSE}]
    OBVIOUS
  <2> QED
    BY <2>1, <2>2, <2>3, <2>4 DEF StreamOK
<1>3. AuditInv
  <2> SUFFICES ASSUME NEW q \in Requests PROVE Answered(q) /\ Recorded(q)
    BY DEF AuditInv
  <2>1. place[q] = "new" /\ step[q] = "none" /\ outcome[q] = None
    OBVIOUS
  <2>2. Http!LinesOf(q) = {}
    BY SMT DEF Http!LinesOf
  <2> QED
    BY <2>1, <2>2 DEF Answered, Recorded
<1>4. Http!EveryRequestCounted
  <2>1. Http!Over = {}
    BY DEF Http!Over
  <2> QED
    BY <2>1 DEF Http!EveryRequestCounted, Http!BagToSet, Http!EmptyBag, Http!SetToBag
<1> QED
  BY <1>1, <1>2, <1>3, <1>4 DEF HttpInv

\* Steps of the chain of request q: the stream is left alone, and so are the
\* other requests.
LEMMA ChainStep ==
  ASSUME HttpInv, NEW q \in Requests, UNCHANGED Http!auditVars, RequestsOK', Answered(q)',
         outcome'[q] = outcome[q] \/ step[q] = "none",
         \A r \in Requests \ {q} : Keeps(r)
  PROVE  StreamOK' /\ AuditInv'
<1> USE DEF HttpInv, Http!auditVars
<1>1. StreamOK'
  BY DEF StreamOK
<1>2. ASSUME NEW r \in Requests PROVE Recorded(r)'
  <2>1. Recorded(r) /\ Http!LinesOf(r)' = Http!LinesOf(r)
    BY DEF AuditInv, Http!LinesOf
  <2>2. CASE outcome'[r] = outcome[r]
    BY <2>1, <2>2, RecordedFrame
  <2>3. CASE outcome'[r] # outcome[r]
    <3>1. step[r] = "none"
      BY <2>3 DEF Keeps
    <3> QED
      BY <2>1, <3>1 DEF Recorded
  <2> QED
    BY <2>2, <2>3
<1>3. ASSUME NEW r \in Requests PROVE Answered(r)'
  BY AnsweredFrame DEF AuditInv
<1> QED
  BY <1>1, <1>2, <1>3 DEF AuditInv

\* Enter: a refused request is answered without an outcome, and has no event.
LEMMA EnterStep ==
  ASSUME HttpInv, NEW q \in Requests, Http!Enter(q)
  PROVE  HttpInv'
<1> USE DEF HttpInv
<1>1. /\ place[q] = "new" /\ UNCHANGED <<Http!auditVars, route, outcome, httpRequestsTotal>>
      /\ \/ place' = [place EXCEPT ![q] = "usecase"] /\ UNCHANGED status
         \/ \E c \in Codes : /\ place' = [place EXCEPT ![q] = "answered"]
                             /\ status' = [status EXCEPT ![q] = c]
  BY RefusalCodes DEF Http!Enter, Http!Answer
<1>2. RequestsOK'
  BY <1>1 DEF RequestsOK, Places
<1>3. \A r \in Requests \ {q} : Keeps(r)
  BY <1>1 DEF RequestsOK, Keeps, Http!auditVars
<1>4. Answered(q)'
  <2>1. Answered(q)
    BY DEF AuditInv
  <2> QED
    BY <1>1, <2>1 DEF Answered, Http!Event, RequestsOK, Http!auditVars
<1>5. StreamOK' /\ AuditInv'
  BY <1>1, <1>2, <1>3, <1>4, ChainStep
<1>6. place'[q] # "done"
  BY <1>1 DEF RequestsOK
<1>7. Http!EveryRequestCounted'
  BY <1>1, <1>3, <1>6, CountFrame DEF Keeps
<1> QED
  BY <1>2, <1>5, <1>7

\* Usecase: the outcome is set before the event is recorded.
LEMMA UsecaseStep ==
  ASSUME Http!WellFormed, HttpInv, NEW q \in Requests, Http!Usecase(q)
  PROVE  HttpInv'
<1> USE DEF HttpInv
<1>0. PICK e \in {<<"ok", "ok">>} \cup route[q].errors :
          outcome' = [outcome EXCEPT ![q] = e[2]]
  BY DEF Http!Usecase
<1>1. /\ place[q] = "usecase" /\ place' = [place EXCEPT ![q] = "record"]
      /\ UNCHANGED <<Http!auditVars, route, status, httpRequestsTotal>>
  BY DEF Http!Usecase
<1>2. route[q] \in Http!Routes /\ e[2] \in Returns /\ e[2] # None
  <2>1. route[q] \in Http!Routes
    BY DEF RequestsOK
  <2>2. e[2] \in Returns
    BY <2>1, RouteErrors, SMT DEF Returns
  <2> QED
    BY <2>1, <2>2 DEF Http!WellFormed, Returns
<1>3. RequestsOK'
  BY <1>0, <1>1, <1>2 DEF RequestsOK, Places
<1>4. \A r \in Requests \ {q} : Keeps(r)
  BY <1>0, <1>1 DEF RequestsOK, Keeps, Http!auditVars
<1>5. Answered(q) /\ step[q] = "none" /\ step'[q] = "none" /\ place'[q] = "record" /\ outcome'[q] # None
  BY <1>0, <1>1, <1>2 DEF AuditInv, Answered, RequestsOK, Http!auditVars
<1>6. Answered(q)'
  BY <1>5 DEF Answered
<1>7. StreamOK' /\ AuditInv'
  BY <1>1, <1>3, <1>4, <1>5, <1>6, ChainStep
<1>8. Http!EveryRequestCounted'
  BY <1>1, <1>4, <1>5, CountFrame DEF Keeps
<1> QED
  BY <1>3, <1>7, <1>8

\* Recover: a panic is answered without an outcome.
LEMMA RecoverStep ==
  ASSUME HttpInv, NEW q \in Requests, Http!Recover(q)
  PROVE  HttpInv'
<1> USE DEF HttpInv
<1>1. /\ place[q] = "usecase" /\ UNCHANGED <<Http!auditVars, route, outcome, httpRequestsTotal>>
      /\ place' = [place EXCEPT ![q] = "answered"] /\ status' = [status EXCEPT ![q] = 500]
  BY DEF Http!Recover, Http!Answer
<1>2. RequestsOK'
  BY <1>1, SMT DEF RequestsOK, Places, Codes
<1>3. \A r \in Requests \ {q} : Keeps(r)
  BY <1>1 DEF RequestsOK, Keeps, Http!auditVars
<1>4. place'[q] = "answered" /\ outcome'[q] = None /\ status'[q] \in Codes /\ step'[q] = "none"
  <2>1. Answered(q)
    BY DEF AuditInv
  <2>2. outcome[q] = None /\ step[q] = "none"
    BY <1>1, <2>1 DEF Answered
  <2> QED
    BY <1>1, <2>2, SMT DEF RequestsOK, Codes, Http!auditVars
<1>5. Answered(q)'
  BY <1>4 DEF Answered
<1>6. StreamOK' /\ AuditInv'
  BY <1>1, <1>2, <1>3, <1>5, ChainStep
<1>7. Http!EveryRequestCounted'
  BY <1>1, <1>3, <1>4, CountFrame DEF Keeps
<1> QED
  BY <1>2, <1>6, <1>7

\* Respond: the event has been recorded, and the status says what it says.
LEMMA RespondStep ==
  ASSUME HttpInv, NEW q \in Requests, Http!Respond(q)
  PROVE  HttpInv'
<1> USE DEF HttpInv
<1> DEFINE code == IF outcome[q] = "ok" THEN IF route[q] = Http!Register THEN 201 ELSE 200
                   ELSE Http!mapDomainErrorToHTTP(outcome[q])
<1>1. /\ place[q] = "record" /\ (Http!Event(q) = None \/ step[q] = "done")
      /\ UNCHANGED <<Http!auditVars, route, outcome, httpRequestsTotal>>
      /\ place' = [place EXCEPT ![q] = "answered"] /\ status' = [status EXCEPT ![q] = code]
  BY DEF Http!Respond, Http!Answer
<1>2. code \in Codes /\ (code < 400 <=> outcome[q] = "ok")
  <2>1. Http!mapDomainErrorToHTTP(outcome[q]) \in {400, 401, 403, 404, 409, 500}
    BY StatusOfOutcome, SMT
  <2> QED
    BY <2>1, SMT DEF Codes
<1> HIDE DEF code
<1>3. RequestsOK'
  BY <1>1, <1>2 DEF RequestsOK, Places
<1>4. \A r \in Requests \ {q} : Keeps(r)
  BY <1>1 DEF RequestsOK, Keeps, Http!auditVars
<1>5. /\ place'[q] = "answered" /\ status'[q] = code /\ outcome'[q] = outcome[q]
      /\ step'[q] = step[q] /\ Http!Event(q)' = Http!Event(q) /\ outcome[q] # None
  BY <1>1 DEF RequestsOK, AuditInv, Answered, Http!Event, Http!auditVars
<1>6. Answered(q)'
  <2>1. step[q] # "none" => Http!Event(q) # None
    BY DEF AuditInv, Answered
  <2> QED
    BY <1>1, <1>2, <1>5, <2>1 DEF Answered
<1>7. StreamOK' /\ AuditInv'
  BY <1>1, <1>3, <1>4, <1>5, <1>6, ChainStep
<1>8. Http!EveryRequestCounted'
  BY <1>1, <1>4, <1>5, CountFrame DEF Keeps
<1> QED
  BY <1>3, <1>7, <1>8

\* Count: the request is over, with the status its label has.
LEMMA CountStep ==
  ASSUME Http!WellFormed, HttpInv, NEW q \in Requests, Http!Count(q)
  PROVE  HttpInv'
<1> USE DEF HttpInv
<1>1. /\ place[q] = "answered" /\ place' = [place EXCEPT ![q] = "done"]
      /\ CountedUp(q)
      /\ UNCHANGED <<Http!auditVars, route, outcome, status>>
  BY DEF Http!Count, CountedUp, Http!(+), Http!SetToBag
<1>2. RequestsOK'
  BY <1>1 DEF RequestsOK, Places
<1>3. \A r \in Requests \ {q} : Keeps(r)
  BY <1>1 DEF RequestsOK, Keeps, Http!auditVars
<1>4. Answered(q)'
  <2>1. Answered(q) /\ place'[q] = "done"
    BY <1>1 DEF AuditInv, RequestsOK
  <2> QED
    BY <1>1, <2>1 DEF Answered, Http!Event, Http!auditVars
<1>5. StreamOK' /\ AuditInv'
  BY <1>1, <1>2, <1>3, <1>4, ChainStep
<1>6. q \notin Http!Over /\ Http!Over' = Http!Over \cup {q} /\ \A r \in Requests : Http!Label(r)' = Http!Label(r)
  BY <1>1 DEF Http!Over, Http!Label, RequestsOK
<1>7. Http!EveryRequestCounted'
  BY <1>1, <1>6, CountOne
<1> QED
  BY <1>2, <1>5, <1>7

\* A step of Record: the chain stands still, and the other requests with it.
LEMMA RecordStep ==
  ASSUME HttpInv, NEW q \in Requests, Http!RecordEvent(q)
  PROVE  HttpInv'
<1> USE DEF HttpInv
<1>1. /\ place[q] = "record" /\ Http!Event(q) # None /\ outcome[q] # None /\ UNCHANGED Http!handlerVars
      /\ Http!Lock(q) \/ Http!Load(q) \/ Http!Encode(q, Http!Line(q))
  BY DEF Http!RecordEvent, Http!Record, AuditInv, Answered
<1>2. RequestsOK' /\ Http!Event(q)' = Http!Event(q)
  BY <1>1 DEF Http!handlerVars, RequestsOK, Http!Event
<1>3. Http!EveryRequestCounted'
  BY <1>1, CountFrame DEF Http!handlerVars
<1>4. Answered(q)'
  BY <1>1, <1>2 DEF AuditInv, Answered, Http!handlerVars
<1>5. \A r \in Requests \ {q} : Keeps(r)
  BY <1>1 DEF Http!Lock, Http!Load, Http!Encode, StreamOK, Keeps, Http!handlerVars
<1>6. \A r \in Requests : Answered(r)'
  BY <1>4, <1>5, AnsweredFrame DEF AuditInv
<1>7. \A r \in Requests \ {q} : outcome'[r] = outcome[r] /\ step'[r] = step[r] /\ using'[r] = using[r]
  BY <1>5 DEF Keeps
<1>8. CASE Http!Lock(q) \/ Http!Load(q)
  <2>1. StreamOK'
    BY <1>8, SMT DEF Http!Lock, Http!Load, StreamOK
  <2>2. lines' = lines /\ err' = err /\ \A r \in Requests : Http!LinesOf(r)' = Http!LinesOf(r)
    BY <1>8 DEF Http!Lock, Http!Load, Http!LinesOf
  <2>3. Recorded(q)'
    <3>1. /\ step'[q] \in {"load", "encode"} /\ (step'[q] = "encode" => using'[q] \in Http!Encoders)
          /\ step[q] # "done"
      BY <1>8 DEF Http!Lock, Http!Load, StreamOK
    <3> QED
      BY <2>2, <3>1 DEF AuditInv, Recorded
  <2>4. \A r \in Requests : Recorded(r)'
    BY <1>7, <2>2, <2>3, RecordedFrame DEF AuditInv
  <2> QED
    BY <1>2, <1>3, <1>6, <2>1, <2>4 DEF AuditInv
<1>9. CASE Http!Encode(q, Http!Line(q))
  <2>1. /\ step[q] = "encode" /\ step' = [step EXCEPT ![q] = "done"]
        /\ UNCHANGED <<enc, setting, using>>
        /\ using[q] \in Http!Encoders /\ Http!LinesOf(q) = {}
        /\ \/ lines' = Append(lines, Http!Line(q)) /\ UNCHANGED err
           \/ err' = [err EXCEPT ![using[q]] = TRUE] /\ UNCHANGED lines
           \/ err[using[q]] /\ UNCHANGED <<err, lines>>
    BY <1>9 DEF Http!Encode, AuditInv, Recorded
  <2>2. /\ Http!Line(q) \in Lines /\ Http!Line(q).request = q
        /\ Http!Line(q).success = (outcome[q] = "ok")
    <3>1. Http!Event(q) \in Events
      BY RouteErrors DEF Http!Event, Events, RequestsOK
    <3> QED
      BY <3>1 DEF Http!Line, Lines
  <2>3. lines \in Seq(Lines) /\ err \in [Http!Encoders -> BOOLEAN]
    BY DEF StreamOK
  <2>4. \A k \in Http!Encoders : err[k] => err'[k]
    BY <2>1, <2>3
  <2>5. CASE lines' = Append(lines, Http!Line(q)) /\ UNCHANGED err
    <3>1. lines' \in Seq(Lines)
      BY <2>2, <2>3, <2>5, AppendLine
    <3>2. StreamOK'
      BY <2>1, <2>5, <3>1 DEF StreamOK
    <3>3. Recorded(q)'
      <4>1. Http!LinesOf(q)' = {Len(lines) + 1} /\ lines'[Len(lines) + 1] = Http!Line(q)
        BY <2>1, <2>2, <2>3, <2>5, AppendLine
      <4>2. step'[q] = "done" /\ using'[q] \in Http!Encoders /\ outcome'[q] = outcome[q]
        BY <1>1, <2>1 DEF StreamOK, Http!handlerVars
      <4> QED
        BY <2>2, <4>1, <4>2 DEF Recorded
    <3>4. ASSUME NEW r \in Requests, r # q PROVE Recorded(r)'
      <4>1. Http!LinesOf(r)' = Http!LinesOf(r) /\ \A i \in Http!LinesOf(r) : lines'[i] = lines[i]
        BY <2>2, <2>3, <2>5, <3>4, AppendLine
      <4> QED
        BY <1>7, <2>4, <3>4, <4>1, RecordedFrame DEF AuditInv
    <3> QED
      BY <1>2, <1>3, <1>6, <3>2, <3>3, <3>4 DEF AuditInv
  <2>6. CASE err'[using[q]] /\ UNCHANGED lines
    <3>1. StreamOK'
      BY <2>1, <2>6 DEF StreamOK
    <3>2. \A r \in Requests : Http!LinesOf(r)' = Http!LinesOf(r)
      BY <2>6 DEF Http!LinesOf
    <3>3. Recorded(q)'
      <4>1. step'[q] = "done" /\ using'[q] = using[q]
        BY <2>1 DEF StreamOK
      <4> QED
        BY <2>1, <2>6, <3>2, <4>1 DEF Recorded
    <3>4. ASSUME NEW r \in Requests, r # q PROVE Recorded(r)'
      BY <1>7, <2>4, <2>6, <3>2, <3>4, RecordedFrame DEF AuditInv
    <3> QED
      BY <1>2, <1>3, <1>6, <3>1, <3>3, <3>4 DEF AuditInv
  <2> QED
    BY <2>1, <2>3, <2>5, <2>6
<1> QED
  BY <1>1, <1>8, <1>9

\* SetOutput: the encoder a Record has read, and what it has seen, stay.
LEMMA SetOutputStep ==
  ASSUME Http!WellFormed, HttpInv, Http!SetOutput, UNCHANGED Http!handlerVars
  PROVE  HttpInv'
<1> USE DEF HttpInv
<1>1. RequestsOK'
  BY DEF RequestsOK, Http!handlerVars
<1>2. StreamOK'
  <2>1. enc' \in Http!Encoders /\ setting' \in BOOLEAN /\ (setting' => enc' < MaxSwaps)
    <3>1. setting' \in BOOLEAN
      BY DEF Http!SetOutput
    <3>2. CASE enc < MaxSwaps /\ UNCHANGED enc
      BY <3>1, <3>2 DEF StreamOK
    <3>3. CASE setting /\ enc' = enc + 1 /\ ~setting'
      BY <3>1, <3>3, SMT DEF StreamOK, Http!Encoders, Http!WellFormed
    <3> QED
      BY <3>2, <3>3 DEF Http!SetOutput
  <2> QED
    BY <2>1 DEF Http!SetOutput, StreamOK
<1>3. \A q \in Requests : Keeps(q) /\ Http!LinesOf(q)' = Http!LinesOf(q) /\ lines' = lines /\ err' = err
  BY DEF Http!SetOutput, Http!handlerVars, Keeps, Http!LinesOf
<1>4. AuditInv'
  BY <1>3, AnsweredFrame, RecordedFrame DEF AuditInv, Keeps
<1>5. Http!EveryRequestCounted'
  BY CountFrame DEF Http!handlerVars
<1> QED
  BY <1>1, <1>2, <1>4, <1>5

\* Nothing happens.
LEMMA StutterStep ==
  ASSUME HttpInv, UNCHANGED Http!vars
  PROVE  HttpInv'
<1> USE DEF HttpInv, Http!vars, Http!auditVars, Http!handlerVars
<1>1. RequestsOK' /\ StreamOK'
  BY DEF RequestsOK, StreamOK
<1>2. \A q \in Requests : Keeps(q) /\ Http!LinesOf(q)' = Http!LinesOf(q)
  BY DEF Keeps, Http!LinesOf
<1>3. AuditInv'
  BY <1>2, AnsweredFrame, RecordedFrame DEF AuditInv, Keeps
<1>4. Http!EveryRequestCounted'
  BY CountFrame
<1> QED
  BY <1>1, <1>3, <1>4

\* The invariant holds in every state of every run of the handlers.
THEOREM HttpInvariance ==
  ASSUME Http!WellFormed
  PROVE  Http!Spec => []HttpInv
<1>1. Http!Init => HttpInv
  BY HttpInitInv
<1>2. HttpInv /\ [Http!Next]_Http!vars => HttpInv'
  BY EnterStep, UsecaseStep, RecoverStep, RecordStep, RespondStep, CountStep, SetOutputStep,
     StutterStep DEF Http!Next
<1> QED
  BY <1>1, <1>2, PTL DEF Http!Spec

\* Whatever SetOutput and the other requests do, an answer that has an event has
\* its one line in the audit stream, which says success exactly when the answer
\* does, unless the encoder failed; an answer without one has none.
THEOREM Audited ==
  ASSUME Http!WellFormed
  PROVE  Http!Spec => []Http!AnswersAreAudited
<1>1. HttpInv => Http!AnswersAreAudited
  <2> SUFFICES ASSUME HttpInv, NEW q \in Requests
               PROVE  /\ place[q] \in {"answered", "done"} /\ outcome[q] # None /\ Http!Event(q) # None =>
                           \/ \E i \in Http!LinesOf(q) : Http!LinesOf(q) = {i} /\ lines[i].success = (status[q] < 400)
                           \/ Http!LinesOf(q) = {} /\ step[q] = "done" /\ err[using[q]]
                      /\ outcome[q] = None \/ Http!Event(q) = None => Http!LinesOf(q) = {}
    BY DEF Http!AnswersAreAudited
  <2>1. Answered(q) /\ Recorded(q)
    BY DEF HttpInv, AuditInv
  <2>2. outcome[q] = None \/ Http!Event(q) = None => Http!LinesOf(q) = {}
    BY <2>1 DEF Answered, Recorded
  <2>3. ASSUME place[q] \in {"answered", "done"}, outcome[q] # None, Http!Event(q) # None
        PROVE  \/ \E i \in Http!LinesOf(q) : Http!LinesOf(q) = {i} /\ lines[i].success = (status[q] < 400)
               \/ Http!LinesOf(q) = {} /\ step[q] = "done" /\ err[using[q]]
    <3>1. step[q] = "done" /\ (status[q] < 400 <=> outcome[q] = "ok") /\ status[q] \in Codes
      BY <2>1, <2>3 DEF Answered
    <3>2. (status[q] < 400) = (outcome[q] = "ok")
      BY <3>1, SMT DEF Codes
    <3> QED
      BY <2>1, <3>1, <3>2 DEF Recorded
  <2> QED
    BY <2>2, <2>3
<1> QED
  BY <1>1, HttpInvariance, PTL

\* /metrics shows every request that is over once, under its route and the status
\* its client got.
THEOREM Counted ==
  ASSUME Http!WellFormed
  PROVE  Http!Spec => []Http!EveryRequestCounted
<1>1. HttpInv => Http!EveryRequestCounted
  BY DEF HttpInv
<1> QED
  BY <1>1, HttpInvariance, PTL

=============================================================================
