----------------------------- MODULE AccessTokens -----------------------------
(***************************************************************************)
(* Access tokens against password changes, in measured time: what          *)
(* jwtService signs and parses, the cutoff ChangePassword and              *)
(* ResetPassword publish, its lifetime in Redis, and the two checks        *)
(* AuthMiddleware makes one after the other, the expiry and then the       *)
(* cutoff.  One account; the refresh side of the same change is Sessions.  *)
(*                                                                         *)
(* Time is counted in ticks.  It starts after second 0, so that 0 can      *)
(* stand for "never" in every time the model keeps.                        *)
(***************************************************************************)
EXTENDS Integers

CONSTANTS
    Tokens,         \* the access tokens that can be minted
    Changers,       \* ChangePassword and ResetPassword calls
    Requests,       \* requests to a route behind AuthMiddleware
    TicksPerSecond, \* clock readings within one second
    AccessLife,     \* JWT_EXPIRED
    CacheTTL,       \* REDIS_EXPIRED, the TTL every Set gives
    CutoffTTL,      \* tokenCutoffTTL
    Lag,            \* the longest a Redis call keeps its caller waiting
    MaxTime,        \* bound on the clock
    Faults,         \* the ways a call may go wrong: "lost", "unacked", "crash"
    None            \* no token

ASSUME NoneAssumption == None \notin Tokens
ASSUME TimeAssumption ==
    /\ TicksPerSecond \in Nat \ {0}
    /\ AccessLife \in Nat \ {0} /\ CutoffTTL \in Nat \ {0} /\ MaxTime \in Nat
    /\ Lag \in Nat /\ CacheTTL \in Nat /\ Lag < CacheTTL
ASSUME FaultAssumption == Faults \subseteq {"lost", "unacked", "crash"}

VARIABLES
    now,        \* the clock
    minted,     \* minted[j]: when token j was signed
    cutoff,     \* the value of the cutoff key, in Unix seconds
    until,      \* when the key's TTL runs out
    at,         \* at[c]: where changer c is
    stamp,      \* stamp[c]: its PasswordChangedAt
    since,      \* since[c]: when its Set took effect
    res,        \* res[r]: where request r is, or how it was answered
    tok,        \* tok[r]: the token it presents
    asked,      \* asked[r]: when its token was parsed
    changed,    \* history: the latest stamp that reached the users row, in seconds
    published,  \* history: the stamp published last, in seconds
    shut,       \* history: r presents a token published as revoked
    slipped,    \* history: a call has failed, or the process has stopped
    overlapped  \* history: two password changes have run at the same time

clock == <<now, minted>>
redis == <<cutoff, until>>
changer == <<at, stamp, since, changed, published, overlapped>>
request == <<res, tok, asked, shut>>
vars == <<now, minted, cutoff, until, at, stamp, since, res, tok, asked,
          changed, published, shut, slipped, overlapped>>

\* time.Time.Unix, the first tick of second n, and a NumericDate, which keeps
\* whole seconds.
Unix(t) == t \div TicksPerSecond
Second(n) == TicksPerSecond * n
NumericDate(t) == Second(Unix(t))

Init ==
    /\ now = TicksPerSecond
    /\ minted = [j \in Tokens |-> 0]
    /\ cutoff = 0 /\ until = 0
    /\ at = [c \in Changers |-> "idle"]
    /\ stamp = [c \in Changers |-> 0]
    /\ since = [c \in Changers |-> 0]
    /\ res = [r \in Requests |-> "none"]
    /\ tok = [r \in Requests |-> None]
    /\ asked = [r \in Requests |-> 0]
    /\ changed = 0
    /\ published = 0
    /\ shut = [r \in Requests |-> FALSE]
    /\ slipped = FALSE
    /\ overlapped = FALSE

\* How one call ends for its caller.
Outcomes == {"ok"} \cup (Faults \cap {"lost", "unacked"})

Slip(o) == slipped' = (slipped \/ o # "ok")

-----------------------------------------------------------------------------
(* Tokens.                                                                 *)

\* signAccess: iat and exp are NumericDates.
IssuedAt(j) == Unix(minted[j])
ExpiresAt(j) == NumericDate(minted[j] + AccessLife)

\* A Login or a Refresh mints a pair.
SignAccess(j) ==
    /\ minted[j] = 0
    /\ minted' = [minted EXCEPT ![j] = now]
    /\ UNCHANGED <<now, redis, changer, request, slipped>>

\* The signature is ours, the kind is not "refresh", and exp lies ahead.
ParseToken(j, kind) == minted[j] # 0 /\ kind # "refresh" /\ now < ExpiresAt(j)

-----------------------------------------------------------------------------
(* ChangePassword and ResetPassword, from the hash on.                     *)

\* The call ends, with or without an error.
Return(c) ==
    /\ at' = [at EXCEPT ![c] = "idle"]
    /\ stamp' = [stamp EXCEPT ![c] = 0]
    /\ since' = [since EXCEPT ![c] = 0]

\* domain.User.ChangePassword stamps PasswordChangedAt.
ChangePassword(c) ==
    /\ at[c] = "idle"
    /\ at' = [at EXCEPT ![c] = "update"]
    /\ stamp' = [stamp EXCEPT ![c] = now]
    /\ overlapped' = (overlapped \/ \E d \in Changers : at[d] # "idle")
    /\ UNCHANGED <<clock, redis, since, changed, published, request, slipped>>

\* The update reaches the users row, unless it is lost.
Commit(c, o) ==
    /\ Slip(o)
    /\ changed' = IF o # "lost" /\ Unix(stamp[c]) > changed THEN Unix(stamp[c]) ELSE changed

\* users.UpdatePassword; an error, even one after the commit, ends the call.
UpdatePassword(c) ==
    /\ at[c] = "update"
    /\ \E o \in Outcomes :
        /\ Commit(c, o)
        /\ IF o = "ok" THEN at' = [at EXCEPT ![c] = "publish"] /\ UNCHANGED <<stamp, since>>
           ELSE Return(c)
    /\ UNCHANGED <<clock, redis, published, overlapped, request>>

\* recordTokenCutoff: Set gives the key the cache-wide TTL.
RecordTokenCutoff(c) ==
    /\ at[c] = "publish"
    /\ \E o \in Outcomes :
        /\ Slip(o)
        /\ IF o = "lost" THEN UNCHANGED <<redis, published>>
           ELSE /\ cutoff' = Unix(stamp[c])
                /\ until' = now + CacheTTL
                /\ published' = Unix(stamp[c])
        /\ IF o # "ok" THEN Return(c)
           ELSE /\ at' = [at EXCEPT ![c] = "ttl"]
                /\ since' = [since EXCEPT ![c] = now]
                /\ UNCHANGED stamp
    /\ UNCHANGED <<clock, changed, overlapped, request>>

\* The key is there.
Alive == cutoff # 0

\* Mutant: the cutoff keeps the cache-wide TTL.
RecordTokenCutoffTTLForgotten(c) ==
    /\ at[c] = "ttl"
    /\ Return(c)
    /\ UNCHANGED <<clock, redis, changed, published, overlapped, request, slipped>>

\* Expire gives an existing key a TTL of its own; its error is ignored.
RecordTokenCutoffTTL(c) ==
    /\ at[c] = "ttl"
    /\ \E o \in Outcomes :
        /\ Slip(o)
        /\ until' = IF o # "lost" /\ Alive THEN now + CutoffTTL ELSE until
    /\ Return(c)
    /\ UNCHANGED <<clock, cutoff, changed, published, overlapped, request>>

-----------------------------------------------------------------------------
(* AuthMiddleware.Handle.                                                  *)

\* The header holds no token, or one ParseToken refuses; or it parses.
Handle(r) ==
    /\ res[r] # "parsed"
    /\ \/ res' = [res EXCEPT ![r] = "invalid"] /\ UNCHANGED <<tok, asked, shut>>
       \/ \E j \in Tokens, kind \in {"access", "refresh"} :
            /\ ParseToken(j, kind)
            /\ res' = [res EXCEPT ![r] = "parsed"]
            /\ tok' = [tok EXCEPT ![r] = j]
            /\ asked' = [asked EXCEPT ![r] = now]
            /\ shut' = [shut EXCEPT ![r] = IssuedAt(j) < published]
    /\ UNCHANGED <<clock, redis, changer, slipped>>

\* Mutant: a token of the cutoff's own second is refused too.
RevokedSameSecond(j) == Alive /\ IssuedAt(j) <= cutoff

\* The cutoff is in Redis and the token was issued before it.
Revoked(j) == Alive /\ IssuedAt(j) < cutoff

\* Get of the cutoff; a Redis error lets the token through.  The privilege
\* check that follows refuses nobody: NewApp builds the middleware with isAdmin
\* false, and no user both differs from that and is not an admin.
CheckCutoff(r) ==
    /\ res[r] = "parsed"
    /\ \E o \in Outcomes :
        LET revoked == o = "ok" /\ Revoked(tok[r]) IN
        /\ Slip(o)
        /\ res' = [res EXCEPT ![r] = IF revoked THEN "revoked" ELSE "admitted"]
    /\ tok' = [tok EXCEPT ![r] = None]
    /\ asked' = [asked EXCEPT ![r] = 0]
    /\ shut' = [shut EXCEPT ![r] = FALSE]
    /\ UNCHANGED <<clock, redis, changer>>

-----------------------------------------------------------------------------
(* The environment.                                                        *)

\* Time passes, but no Redis call outlasts its timeout; Redis drops the key
\* when its TTL has run out.
Tick ==
    /\ now < MaxTime
    /\ \A c \in Changers : at[c] = "ttl" => now < since[c] + Lag
    /\ \A r \in Requests : res[r] = "parsed" => now < asked[r] + Lag
    /\ now' = now + 1
    /\ IF now' < until THEN UNCHANGED redis ELSE cutoff' = 0 /\ until' = 0
    /\ UNCHANGED <<minted, changer, request, slipped>>

\* The process stops and starts again.
Restart ==
    /\ "crash" \in Faults
    /\ slipped' = TRUE
    /\ at' = [c \in Changers |-> "idle"]
    /\ stamp' = [c \in Changers |-> 0]
    /\ since' = [c \in Changers |-> 0]
    /\ res' = [r \in Requests |-> "none"]
    /\ tok' = [r \in Requests |-> None]
    /\ asked' = [r \in Requests |-> 0]
    /\ shut' = [r \in Requests |-> FALSE]
    /\ UNCHANGED <<clock, redis, changed, published, overlapped>>

Change(c) ==
    ChangePassword(c) \/ UpdatePassword(c) \/ RecordTokenCutoff(c) \/ RecordTokenCutoffTTL(c)

Next ==
    \/ \E j \in Tokens : SignAccess(j)
    \/ \E c \in Changers : Change(c)
    \/ \E r \in Requests : Handle(r)
    \/ \E r \in Requests : CheckCutoff(r)
    \/ Tick
    \/ Restart

Spec == Init /\ [][Next]_vars

-----------------------------------------------------------------------------
(* Properties.                                                             *)

TypeOK ==
    /\ now \in Nat /\ cutoff \in Nat /\ until \in Nat /\ published \in Nat
    /\ minted \in [Tokens -> Nat]
    /\ at \in [Changers -> {"idle", "update", "publish", "ttl"}]
    /\ stamp \in [Changers -> Nat]
    /\ since \in [Changers -> Nat]
    /\ res \in [Requests -> {"none", "invalid", "parsed", "revoked", "admitted"}]
    /\ tok \in [Requests -> Tokens \cup {None}]
    /\ \A r \in Requests : res[r] = "parsed" => tok[r] # None
    /\ asked \in [Requests -> Nat]
    /\ changed \in Nat
    /\ shut \in [Requests -> BOOLEAN]
    /\ slipped \in BOOLEAN /\ overlapped \in BOOLEAN

\* No Redis call or update has failed and no two password changes overlapped.
Calm == ~slipped /\ ~overlapped

\* The cutoff outlives every token it revokes, and the call that reads it.
LongEnough == AccessLife + Lag <= CutoffTTL

\* Request r gets answer a in this step.
Answers(r, a) == res[r] = "parsed" /\ res'[r] = a

\* "A leaked access token stops working as soon as the user rotates their
\* password": a request whose token was issued in a second before the one of a
\* published change is not admitted, as long as nothing has failed, changes do
\* not overlap and the cutoff's TTL covers the access tokens' lifetime.  The
\* middleware checks the expiry first and reads the cutoff later, which may
\* have lapsed in between.
RotationRefuses ==
    [][LongEnough /\ Calm' => \A r \in Requests : Answers(r, "admitted") => ~shut[r]]_vars

\* No token is refused for a password change that never happened: the users row
\* has had a change stamped in a later second than the token's, whatever failed,
\* was lost or overlapped.  A login after the change is never locked out.
RefusedForCause ==
    [][\A r \in Requests : Answers(r, "revoked") => IssuedAt(tok[r]) < changed]_vars

-----------------------------------------------------------------------------
(* What comments say and TLC refutes.                                      *)

\* "A leaked access token stops working as soon as the user rotates their
\* password", without the conditions: Redis loses the cutoff or the call that
\* reads it, two changes publish theirs out of order, or JWT_EXPIRED exceeds
\* tokenCutoffTTL, which is said to outlive "any in-flight access token".
RotationAlwaysRefuses ==
    [][\A r \in Requests : Answers(r, "admitted") => ~shut[r]]_vars

=============================================================================
