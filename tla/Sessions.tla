------------------------------- MODULE Sessions -------------------------------
(***************************************************************************)
(* The sessions of one account: Login, Refresh, Logout and ChangePassword  *)
(* of the auth usecase, the refresh tokens they mint and what Redis        *)
(* remembers of them.  Every Redis command, every access to the users row  *)
(* and every reading of the clock is a step of its own, so handlers        *)
(* interleave between any two of them.  Access tokens, and the cutoff a    *)
(* password change publishes for them, are AccessTokens.                   *)
(*                                                                         *)
(* The row is a history of password versions: rows[v] is the               *)
(* password_changed_at of version v, 0 when it was never changed.          *)
(* GetByEmail is cache first and may answer with an older version          *)
(* (UserStore says when it does not); GetByID reads the table.             *)
(***************************************************************************)
EXTENDS Redis, Sequences, FiniteSets

CONSTANTS
    Tokens,           \* the jtis that can be minted, one for each token pair
    Procs,            \* request handlers running concurrently
    TicksPerSecond,   \* clock readings within one second
    MaxTime,          \* bound on the clock
    MaxVersion,       \* bound on the password versions
    LoginMaxAttempts, \* Config.LoginMaxAttempts
    MaxAttempts       \* bound on the attempt counter

ASSUME ClockAssumption == TicksPerSecond \in Nat \ {0} /\ MaxTime \in Nat
ASSUME LimitAssumption ==
    MaxVersion \in Nat /\ LoginMaxAttempts \in Nat \ {0} /\ MaxAttempts \in Nat
ASSUME TokenAssumption == None \notin Tokens

VARIABLES
    now,      \* the clock, in ticks; two readings are never equal
    rows,     \* rows[v]: password_changed_at of password version v
    at,       \* at[p]: where handler p is in its call
    tok,      \* tok[p]: the refresh token presented; None in a Login
    ver,      \* ver[p]: the password version of the row GetByEmail returned
    new,      \* new[p]: the token pair minted
    stamp,    \* stamp[p]: the PasswordChangedAt ChangePassword stamped
    minted,   \* minted[j]: when pair j was minted, None before
    sent,     \* the pairs a usecase stored and returned, to be sent in a response
    known,    \* the pairs a client got
    parent,   \* history: the token that was rotated into j
    pwd,      \* history: the password version j was minted under
    crossed,  \* history: the pairs minted across a password change
    fate,     \* history: why Redis no longer knows j
    late,     \* history: p presented a token already rotated or logged out
    tries     \* history: attempts let through since the counter was reset

handler == <<at, tok, ver, new, stamp>>
issued == <<minted, sent, known, parent, pwd, crossed>>
vars == <<kv, volatile, slipped, now, rows, at, tok, ver, new, stamp, minted, sent, known,
          parent, pwd, crossed, fate, late, tries>>

RefreshKey(j) == <<"refresh", j>>
LoginAttemptsKey == <<"login_attempts">>
Keys == {RefreshKey(j) : j \in Tokens} \cup {LoginAttemptsKey}

Steps == {"idle", "expire", "lookup", "mint", "remember", "ttl", "clear", "rotate",
          "answer", "update"}

Init ==
    /\ kv = [k \in Keys |-> None]
    /\ volatile = {}
    /\ slipped = FALSE
    /\ now = 1
    /\ rows = <<0>>
    /\ at = [p \in Procs |-> "idle"]
    /\ tok = [p \in Procs |-> None]
    /\ ver = [p \in Procs |-> 1]
    /\ new = [p \in Procs |-> None]
    /\ stamp = [p \in Procs |-> 0]
    /\ minted = [j \in Tokens |-> None]
    /\ sent = {} /\ known = {}
    /\ parent = [j \in Tokens |-> None]
    /\ pwd = [j \in Tokens |-> 1]
    /\ crossed = {}
    /\ fate = [j \in Tokens |-> "none"]
    /\ late = [p \in Procs |-> FALSE]
    /\ tries = 0

-----------------------------------------------------------------------------
(* Handlers.                                                               *)

Move(p, s) ==
    /\ at' = [at EXCEPT ![p] = s]
    /\ UNCHANGED <<tok, ver, new, stamp, late>>

\* The call ends, with or without an error.
Return(p) ==
    /\ at' = [at EXCEPT ![p] = "idle"]
    /\ tok' = [tok EXCEPT ![p] = None]
    /\ ver' = [ver EXCEPT ![p] = 1]
    /\ new' = [new EXCEPT ![p] = None]
    /\ stamp' = [stamp EXCEPT ![p] = 0]
    /\ late' = [late EXCEPT ![p] = FALSE]

\* One more attempt let through; counted no further than the limit exceeded.
Try == tries' = IF tries > LoginMaxAttempts THEN tries ELSE tries + 1

-----------------------------------------------------------------------------
(* Login.                                                                  *)

\* Mutant: the limit is off by one.
LoginOneMore(p) ==
    /\ at[p] = "idle"
    /\ Count(LoginAttemptsKey) < MaxAttempts
    /\ \E o \in Outcomes :
        LET attempts == IF o = "ok" THEN Count(LoginAttemptsKey) + 1 ELSE 0 IN
        /\ RedisIncr(LoginAttemptsKey, o)
        /\ \/ attempts = 1 /\ Move(p, "expire") /\ Try
           \/ attempts # 1 /\ attempts <= LoginMaxAttempts + 1 /\ Move(p, "lookup") /\ Try
           \/ attempts > LoginMaxAttempts + 1 /\ Return(p) /\ UNCHANGED tries
    /\ UNCHANGED <<now, rows, issued, fate>>

\* The attempt is counted before anything else; when Redis does not answer,
\* attempts stays 0 and the login goes on.
Login(p) ==
    /\ at[p] = "idle"
    /\ Count(LoginAttemptsKey) < MaxAttempts
    /\ \E o \in Outcomes :
        LET attempts == IF o = "ok" THEN Count(LoginAttemptsKey) + 1 ELSE 0 IN
        /\ RedisIncr(LoginAttemptsKey, o)
        /\ \/ attempts = 1 /\ Move(p, "expire") /\ Try
           \/ attempts # 1 /\ attempts <= LoginMaxAttempts /\ Move(p, "lookup") /\ Try
           \/ attempts > LoginMaxAttempts /\ Return(p) /\ UNCHANGED tries
    /\ UNCHANGED <<now, rows, issued, fate>>

\* Mutant: the counter's TTL is never set.
LoginExpireForgotten(p) ==
    /\ at[p] = "expire"
    /\ Move(p, "lookup")
    /\ UNCHANGED <<redis, now, rows, issued, fate, tries>>

LoginExpire(p) ==
    /\ at[p] = "expire"
    /\ \E o \in Outcomes : RedisExpire(LoginAttemptsKey, o)
    /\ Move(p, "lookup")
    /\ UNCHANGED <<now, rows, issued, fate, tries>>

\* The email is unknown, the account inactive or the password wrong; or the
\* password is the one of the row GetByEmail returned.
LoginLookup(p) ==
    /\ at[p] = "lookup" /\ tok[p] = None
    /\ \/ Return(p)
       \/ \E v \in 1..Len(rows) :
            /\ ver' = [ver EXCEPT ![p] = v]
            /\ at' = [at EXCEPT ![p] = "mint"]
            /\ UNCHANGED <<tok, new, stamp, late>>
    /\ UNCHANGED <<redis, now, rows, issued, fate, tries>>

\* The usecase returns its pair to the handler, which has it to send.
ReturnPair(p) ==
    /\ sent' = sent \cup {new[p]}
    /\ at' = [at EXCEPT ![p] = "answer"]
    /\ tok' = [tok EXCEPT ![p] = None]
    /\ ver' = [ver EXCEPT ![p] = 1]
    /\ late' = [late EXCEPT ![p] = FALSE]
    /\ UNCHANGED <<now, rows, new, stamp, minted, known, parent, pwd, crossed>>

\* The counter is cleared, whether or not Redis answers, and the pair returned.
LoginClear(p) ==
    /\ at[p] = "clear"
    /\ \E o \in Outcomes :
        /\ RedisDel(LoginAttemptsKey, o)
        /\ tries' = IF o = "lost" THEN tries ELSE 0
    /\ ReturnPair(p)
    /\ UNCHANGED fate

-----------------------------------------------------------------------------
(* Token pairs, for Login and Refresh.                                     *)

\* iat is a NumericDate: the second the pair was minted in.
IssuedAt(j) == (minted[j] \div TicksPerSecond) * TicksPerSecond

\* The pair of handler p, minted now.  It crosses a password change when the
\* row it is minted for is no longer the table's, or a change already stamped
\* has yet to be committed.  A rotated session keeps its login's password.
MintPair(p, j) ==
    /\ minted[j] = None
    /\ now < MaxTime
    /\ minted' = [minted EXCEPT ![j] = now]
    /\ now' = now + 1
    /\ new' = [new EXCEPT ![p] = j]
    /\ at' = [at EXCEPT ![p] = "remember"]
    /\ parent' = [parent EXCEPT ![j] = tok[p]]
    /\ pwd' = [pwd EXCEPT ![j] = IF tok[p] = None THEN ver[p] ELSE pwd[tok[p]]]
    /\ crossed' = IF \/ ver[p] # Len(rows)
                     \/ \E q \in Procs : at[q] = "update"
                     \/ tok[p] \in crossed
                  THEN crossed \cup {j} ELSE crossed
    /\ UNCHANGED <<tok, ver, stamp, late>>

\* Mutant: Refresh revokes the old jti before the new one is remembered.
MintAfterRevoking(p) ==
    /\ at[p] = "mint"
    /\ \E j \in Tokens : MintPair(p, j)
    /\ IF tok[p] = None THEN UNCHANGED <<redis, fate>>
       ELSE /\ RedisDel(RefreshKey(tok[p]), "ok")
            /\ fate' = [fate EXCEPT ![tok[p]] = IF @ = "none" THEN "rotated" ELSE @]
    /\ UNCHANGED <<rows, sent, known, tries>>

\* GenerateTokenPair, which may also fail to sign.
Mint(p) ==
    /\ at[p] = "mint"
    /\ \/ /\ \E j \in Tokens : MintPair(p, j)
          /\ UNCHANGED <<sent, known>>
       \/ Return(p) /\ UNCHANGED <<now, issued>>
    /\ UNCHANGED <<redis, rows, fate, tries>>

\* Mutant: Refresh stores the presented jti again instead of the new one.
RememberPresented(p) ==
    LET j == IF tok[p] = None THEN new[p] ELSE tok[p] IN
    /\ at[p] = "remember"
    /\ \E o \in Outcomes :
        /\ RedisSet(RefreshKey(j), j, o)
        /\ IF o = "ok" THEN Move(p, "ttl") ELSE Return(p)
    /\ UNCHANGED <<now, rows, issued, fate, tries>>

\* rememberRefresh: Set, then Expire; an error of either fails the call.
Remember(p) ==
    /\ at[p] = "remember"
    /\ \E o \in Outcomes :
        /\ RedisSet(RefreshKey(new[p]), new[p], o)
        /\ IF o = "ok" THEN Move(p, "ttl") ELSE Return(p)
    /\ UNCHANGED <<now, rows, issued, fate, tries>>

RememberTTL(p) ==
    /\ at[p] = "ttl"
    /\ \E o \in Outcomes :
        /\ RedisExpire(RefreshKey(new[p]), o)
        /\ IF o = "ok" THEN Move(p, IF tok[p] = None THEN "clear" ELSE "rotate")
           ELSE Return(p)
    /\ UNCHANGED <<now, rows, issued, fate, tries>>

-----------------------------------------------------------------------------
(* Refresh and Logout.                                                     *)

\* A Refresh of j has returned a new pair, whether or not its client got it.
Spent(j) == \E c \in sent : parent[c] = j

\* The presented jti must be live in Redis; a Get that fails ends the call.
Refresh(p, j) ==
    /\ at[p] = "idle"
    /\ j \in known
    /\ kv[RefreshKey(j)] # None
    /\ at' = [at EXCEPT ![p] = "lookup"]
    /\ tok' = [tok EXCEPT ![p] = j]
    /\ late' = [late EXCEPT ![p] = Spent(j) \/ fate[j] = "logout"]
    /\ UNCHANGED <<redis, now, rows, ver, new, stamp, issued, fate, tries>>

\* Mutant: the cutoff is truncated to the second as well.
RevokedTruncated(j, v) ==
    rows[v] # 0 /\ IssuedAt(j) < (rows[v] \div TicksPerSecond) * TicksPerSecond

\* TokensRevokedBefore of version v lies after the token's iat.
Revoked(j, v) == rows[v] # 0 /\ IssuedAt(j) < rows[v]

RefreshLookup(p) ==
    /\ at[p] = "lookup" /\ tok[p] # None
    /\ \/ Return(p)
       \/ \E v \in 1..Len(rows) :
            /\ ~Revoked(tok[p], v)
            /\ ver' = [ver EXCEPT ![p] = v]
            /\ at' = [at EXCEPT ![p] = "mint"]
            /\ UNCHANGED <<tok, new, stamp, late>>
    /\ UNCHANGED <<redis, now, rows, issued, fate, tries>>

\* Redis forgets j, unless the Del is lost.
Revoke(j, why, o) ==
    /\ RedisDel(RefreshKey(j), o)
    /\ fate' = IF o = "lost" \/ fate[j] # "none" THEN fate ELSE [fate EXCEPT ![j] = why]

\* Mutant: the old jti is left alone.
RefreshRotateForgotten(p) ==
    /\ at[p] = "rotate"
    /\ ReturnPair(p)
    /\ UNCHANGED <<redis, fate, tries>>

\* The old jti is removed, whether or not Redis answers, and the pair returned.
\* A process that stops between the two is one whose response is never written.
RefreshRotate(p) ==
    /\ at[p] = "rotate"
    /\ \E o \in Outcomes : Revoke(tok[p], "rotated", o)
    /\ ReturnPair(p)
    /\ UNCHANGED tries

\* The handler writes its response, which reaches the client or is lost.
Answer(p) ==
    /\ at[p] = "answer"
    /\ known' = known \cup {new[p]} \/ UNCHANGED known
    /\ Return(p)
    /\ UNCHANGED <<redis, now, rows, minted, sent, parent, pwd, crossed, fate, tries>>

Logout(j) ==
    /\ j \in known
    /\ \E o \in Outcomes : Revoke(j, "logout", o)
    /\ UNCHANGED <<now, rows, handler, issued, late, tries>>

-----------------------------------------------------------------------------
(* ChangePassword.                                                         *)

\* GetByID and the check of the current password passed; the new hash is
\* computed and PasswordChangedAt stamped.
ChangePassword(p) ==
    /\ at[p] = "idle"
    /\ now < MaxTime
    /\ Len(rows) + Cardinality({q \in Procs : at[q] = "update"}) < MaxVersion
    /\ at' = [at EXCEPT ![p] = "update"]
    /\ stamp' = [stamp EXCEPT ![p] = now]
    /\ now' = now + 1
    /\ UNCHANGED <<redis, rows, tok, ver, new, issued, fate, late, tries>>

\* users.UpdatePassword: the last commit wins, whatever its stamp.  What
\* recordTokenCutoff does next concerns access tokens only.
ChangeUpdate(p) ==
    /\ at[p] = "update"
    /\ rows' = Append(rows, stamp[p]) \/ ("lost" \in Faults /\ UNCHANGED rows)
    /\ Return(p)
    /\ UNCHANGED <<redis, now, issued, fate, tries>>

-----------------------------------------------------------------------------
(* The environment.                                                        *)

LapseRefresh(j) ==
    /\ RedisLapse(RefreshKey(j))
    /\ fate' = [fate EXCEPT ![j] = "expired"]
    /\ UNCHANGED <<now, rows, handler, issued, late, tries>>

LapseAttempts ==
    /\ RedisLapse(LoginAttemptsKey)
    /\ tries' = 0
    /\ UNCHANGED <<now, rows, handler, issued, fate, late>>

Tick ==
    /\ now < MaxTime
    /\ now' = now + 1
    /\ UNCHANGED <<redis, rows, handler, issued, fate, late, tries>>

\* The process stops and starts again: no handler finishes its call.
Restart ==
    /\ "crash" \in Faults
    /\ RedisCrash
    /\ at' = [p \in Procs |-> "idle"]
    /\ tok' = [p \in Procs |-> None]
    /\ ver' = [p \in Procs |-> 1]
    /\ new' = [p \in Procs |-> None]
    /\ stamp' = [p \in Procs |-> 0]
    /\ late' = [p \in Procs |-> FALSE]
    /\ UNCHANGED <<now, rows, issued, fate, tries>>

Continue(p) ==
    \/ LoginExpire(p) \/ LoginLookup(p) \/ LoginClear(p)
    \/ Mint(p) \/ Remember(p) \/ RememberTTL(p)
    \/ RefreshLookup(p) \/ RefreshRotate(p) \/ Answer(p)
    \/ ChangeUpdate(p)

Next ==
    \/ \E p \in Procs : Login(p)
    \/ \E p \in Procs, j \in Tokens : Refresh(p, j)
    \/ \E j \in Tokens : Logout(j)
    \/ \E p \in Procs : ChangePassword(p)
    \/ \E p \in Procs : Continue(p)
    \/ \E j \in Tokens : LapseRefresh(j)
    \/ LapseAttempts
    \/ Tick
    \/ Restart

Spec == Init /\ [][Next]_vars

-----------------------------------------------------------------------------
(* Properties.                                                             *)

\* Once Logout, a rotation or its TTL has removed a jti from Redis nothing
\* brings it back, although a Login or a Refresh may be storing jtis meanwhile.
RevokedStayRevoked ==
    \A j \in Tokens : fate[j] # "none" => kv[RefreshKey(j)] = None

\* What has become of token j: what Redis holds of it, and why it does not.
Life(j) ==
    IF minted[j] = None THEN "unused"
    ELSE IF kv[RefreshKey(j)] # None THEN "live"
    ELSE IF fate[j] = "none" THEN "minted" ELSE fate[j]

Lives == INSTANCE RefreshTokens WITH
    Calls <- Procs,
    life <- [j \in Tokens |-> Life(j)],
    held <- known,
    asked <- tok,
    failed <- slipped

\* Every step of every handler, with its calls lost or unanswered and the process
\* stopping anywhere, is a step of RefreshTokens or none: a token is live once and
\* ends once, a Refresh starts from a live token and issues at most one pair for
\* it, one that was stored, and while no call fails that ends the token.
ImplementsRefreshTokens == Lives!Spec

\* A Refresh that fails half way takes no session away: whatever is lost and
\* wherever the process stops, a token that was returned for a client is live, or
\* its Refresh removed it for a stored pair, returned too, of which the same holds
\* (or it was logged out, or let expire).  From the Del of the old jti on the
\* response is all the client has; NobodyStranded is about those that are lost.
SessionSurvives ==
    \A j \in sent :
        /\ fate[j] = "none" => kv[RefreshKey(j)] # None
        /\ fate[j] = "rotated" => Spent(j)

\* A password change closes the sessions of older passwords: a Refresh that
\* reads version v of the row never gets past its cutoff check with a session
\* logged in under an older one, unless a pair of that session was minted
\* while the change was under way.
SessionsClosed ==
    \A p \in Procs :
        at[p] = "mint" /\ tok[p] # None /\ tok[p] \notin crossed =>
            ver[p] <= pwd[tok[p]]

\* "Replay of an already-used refresh token fails": as long as no call to Redis
\* has failed, no Refresh that starts after another one rotated the token, or
\* after its Logout, finds it live.
ReplayFails ==
    ~slipped => \A p \in Procs : ~late[p]

\* At most LoginMaxAttempts logins get past the counter before it is reset by
\* a success or by its TTL, however they interleave, while Redis answers.
TriesBounded ==
    ~slipped => tries <= LoginMaxAttempts

\* A locked-out email is not "permanently blocked": however Logins interleave
\* with the Del of a success and the TTL running out, a counter without a TTL
\* has a handler about to give it one, while Redis answers.
LockoutEnds ==
    ~slipped /\ kv[LoginAttemptsKey] # None =>
        LoginAttemptsKey \in volatile \/ \E p \in Procs : at[p] = "expire"

-----------------------------------------------------------------------------
(* What the code does not promise and TLC refutes.                         *)

\* A client whose token was rotated has its successor, or a response with it is
\* being written: refuted by a response that is lost, or never written, after
\* the Del of the old jti.
NobodyStranded ==
    \A j \in known : fate[j] = "rotated" =>
        \/ \E c \in known : parent[c] = j
        \/ \E p \in Procs : at[p] = "answer" /\ parent[new[p]] = j

\* "Rotating the password must close pre-existing sessions": no Refresh that
\* reads version v accepts a session logged in under an older password.
RotationClosesSessions ==
    \A p \in Procs :
        at[p] = "mint" /\ tok[p] # None => ver[p] <= pwd[tok[p]]

\* The stamp revokes "refresh tokens issued before it", and no others.
LaterSessionsRefresh ==
    \A j \in known, v \in 1..Len(rows) : minted[j] > rows[v] => ~Revoked(j, v)

=============================================================================
