---------------------------- MODULE PasswordReset ----------------------------
(***************************************************************************)
(* The forgotten-password flow of one email address: ForgotPassword issues *)
(* a reset token, stores it and the reverse index in Redis and mails it;   *)
(* ResetPassword consumes a token and replaces the password.  Every Redis  *)
(* command, lookup and update is a step of its own.                        *)
(***************************************************************************)
EXTENDS Redis, FiniteSets

CONSTANTS
    Links,             \* the reset tokens that can be generated
    Procs,             \* request handlers running concurrently
    ForgotMaxAttempts, \* Config.ForgotMaxAttempts
    MaxAttempts,       \* bound on the attempt counter
    MaxResets          \* bound on the password updates

ASSUME ResetAssumption ==
    /\ ForgotMaxAttempts \in Nat \ {0} /\ MaxAttempts \in Nat /\ MaxResets \in Nat
    /\ None \notin Links \cup {"user", "decoy"}

VARIABLES
    registered, \* whether the address has an account
    at,        \* at[p]: where handler p is in its call
    link,      \* link[p]: the token generated, or presented
    prior,     \* prior[p]: the token the index named
    generated, \* the tokens generated so far
    mailed,    \* the tokens handed to the mailer
    resets,    \* resets[t]: the password updates committed with token t
    used,      \* history: tokens a ResetPassword has returned success for
    late,      \* history: p presented a token of used
    overlapped \* history: a call has started while another was under way

handler == <<at, link, prior, late>>
vars == <<kv, volatile, slipped, registered, at, link, prior, generated, mailed, resets, used, late,
          overlapped>>

PasswordResetKey(t) == <<"pwd_reset", t>>
UserResetIndexKey == <<"pwd_reset_user">>
ForgotAttemptsKey == <<"forgot_attempts">>
TokenCutoffKey == <<"pwd_cutoff">>
Keys == {PasswordResetKey(t) : t \in Links}
            \cup {UserResetIndexKey, ForgotAttemptsKey, TokenCutoffKey}

\* What the token's key holds: the account's ID, or the decoy.
Values == {"user", "decoy"}

Steps == {"idle", "expire", "lookup", "decoySet", "decoyTTL", "decoyDel", "index", "supersede",
          "store", "storeTTL", "reindex", "reindexTTL", "mail",
          "update", "consume", "unindex", "cutoff", "cutoffTTL"}

Init ==
    /\ kv = [k \in Keys |-> None]
    /\ volatile = {}
    /\ slipped = FALSE
    /\ registered = FALSE
    /\ at = [p \in Procs |-> "idle"]
    /\ link = [p \in Procs |-> None]
    /\ prior = [p \in Procs |-> None]
    /\ generated = {}
    /\ mailed = {}
    /\ resets = [t \in Links |-> 0]
    /\ used = {}
    /\ late = [p \in Procs |-> FALSE]
    /\ overlapped = FALSE

Move(p, s) == at' = [at EXCEPT ![p] = s] /\ UNCHANGED <<link, prior, late>>

Return(p) ==
    /\ at' = [at EXCEPT ![p] = "idle"]
    /\ link' = [link EXCEPT ![p] = None]
    /\ prior' = [prior EXCEPT ![p] = None]
    /\ late' = [late EXCEPT ![p] = FALSE]

\* A call that starts while another is under way is remembered.
Overlap == overlapped' = (overlapped \/ \E q \in Procs : at[q] # "idle")

\* auth.Register: the address gets its account.
Register ==
    /\ ~registered
    /\ registered' = TRUE
    /\ UNCHANGED <<redis, handler, generated, mailed, resets, used, overlapped>>

-----------------------------------------------------------------------------
(* ForgotPassword.                                                         *)

\* The request is counted first; when Redis does not answer it goes on.
ForgotPassword(p) ==
    /\ at[p] = "idle"
    /\ Count(ForgotAttemptsKey) < MaxAttempts
    /\ \E o \in Outcomes :
        LET attempts == IF o = "ok" THEN Count(ForgotAttemptsKey) + 1 ELSE 0 IN
        /\ RedisIncr(ForgotAttemptsKey, o)
        /\ \/ attempts = 1 /\ Move(p, "expire")
           \/ attempts # 1 /\ attempts <= ForgotMaxAttempts /\ Move(p, "lookup")
           \/ attempts > ForgotMaxAttempts /\ Return(p)
    /\ Overlap
    /\ UNCHANGED <<registered, generated, mailed, resets, used>>

ForgotExpire(p) ==
    /\ at[p] = "expire"
    /\ \E o \in Outcomes : RedisExpire(ForgotAttemptsKey, o)
    /\ Move(p, "lookup")
    /\ UNCHANGED <<registered, generated, mailed, resets, used, overlapped>>

\* Mutant: an unknown address is treated like a known one.
ForgotLookupUnchecked(p) ==
    /\ at[p] = "lookup"
    /\ \E t \in Links \ generated :
        /\ generated' = generated \cup {t}
        /\ link' = [link EXCEPT ![p] = t]
        /\ at' = [at EXCEPT ![p] = "index"]
        /\ UNCHANGED <<prior, late>>
    /\ UNCHANGED <<redis, registered, mailed, resets, used, overlapped>>

\* A token is generated for any address; an unknown one gets a decoy, and so does
\* one just registered when GetByEmail shares a load that read the table before.
\* Neither generating nor looking up need succeed: any error but NotFound is the
\* call's own.
ForgotLookup(p) ==
    /\ at[p] = "lookup"
    /\ \/ Return(p) /\ UNCHANGED generated
       \/ \E t \in Links \ generated :
            /\ generated' = generated \cup {t}
            /\ link' = [link EXCEPT ![p] = t]
            /\ \/ registered /\ at' = [at EXCEPT ![p] = "index"]
               \/ at' = [at EXCEPT ![p] = "decoySet"]
            /\ UNCHANGED <<prior, late>>
    /\ UNCHANGED <<redis, registered, mailed, resets, used, overlapped>>

\* The three writes for an unknown address; their errors are ignored.
Decoy(p) ==
    LET k == PasswordResetKey(link[p]) IN
    /\ \E o \in Outcomes :
        \/ at[p] = "decoySet" /\ RedisSet(k, "decoy", o) /\ Move(p, "decoyTTL")
        \/ at[p] = "decoyTTL" /\ RedisExpire(k, o) /\ Move(p, "decoyDel")
        \/ at[p] = "decoyDel" /\ RedisDel(k, o) /\ Return(p)
    /\ UNCHANGED <<registered, generated, mailed, resets, used, overlapped>>

\* Get of the reverse index: a token it names is superseded.  A Get that fails
\* counts as no token.
ForgotIndex(p) ==
    /\ at[p] = "index"
    /\ \/ /\ kv[UserResetIndexKey] # None
          /\ prior' = [prior EXCEPT ![p] = kv[UserResetIndexKey]]
          /\ at' = [at EXCEPT ![p] = "supersede"]
          /\ UNCHANGED <<redis, link, late>>
       \/ kv[UserResetIndexKey] = None /\ Move(p, "store") /\ UNCHANGED redis
       \/ "lost" \in Faults /\ Slip("lost") /\ Move(p, "store") /\ UNCHANGED <<kv, volatile>>
    /\ UNCHANGED <<registered, generated, mailed, resets, used, overlapped>>

\* Mutant: the earlier token is left alone.
SupersedeForgotten(p) ==
    /\ at[p] = "supersede"
    /\ Move(p, "store")
    /\ UNCHANGED <<redis, registered, generated, mailed, resets, used, overlapped>>

Supersede(p) ==
    /\ at[p] = "supersede"
    /\ \E o \in Outcomes : RedisDel(PasswordResetKey(prior[p]), o)
    /\ Move(p, "store")
    /\ UNCHANGED <<registered, generated, mailed, resets, used, overlapped>>

\* The token itself; its TTL may fail to be set, the token may not.
StoreLink(p) ==
    LET k == PasswordResetKey(link[p]) IN
    /\ \E o \in Outcomes :
        \/ at[p] = "store" /\ RedisSet(k, "user", o)
              /\ IF o = "ok" THEN Move(p, "storeTTL") ELSE Return(p)
        \/ at[p] = "storeTTL" /\ RedisExpire(k, o) /\ Move(p, "reindex")
    /\ UNCHANGED <<registered, generated, mailed, resets, used, overlapped>>

\* The reverse index, best effort.
StoreIndex(p) ==
    /\ \E o \in Outcomes :
        \/ at[p] = "reindex" /\ RedisSet(UserResetIndexKey, link[p], o)
              /\ Move(p, IF o = "ok" THEN "reindexTTL" ELSE "mail")
        \/ at[p] = "reindexTTL" /\ RedisExpire(UserResetIndexKey, o) /\ Move(p, "mail")
    /\ UNCHANGED <<registered, generated, mailed, resets, used, overlapped>>

\* The mailer's queue takes the mail or is full.
MailLink(p) ==
    /\ at[p] = "mail"
    /\ \/ mailed' = mailed \cup {link[p]}
       \/ UNCHANGED mailed
    /\ Return(p)
    /\ UNCHANGED <<redis, registered, generated, resets, used, overlapped>>

-----------------------------------------------------------------------------
(* ResetPassword.                                                          *)

\* The token's key must hold an account ID.
ResetPassword(p, t) ==
    /\ at[p] = "idle"
    /\ t \in mailed
    /\ kv[PasswordResetKey(t)] # None
    /\ resets[t] < MaxResets
    /\ at' = [at EXCEPT ![p] = "update"]
    /\ link' = [link EXCEPT ![p] = t]
    /\ late' = [late EXCEPT ![p] = t \in used]
    /\ Overlap
    /\ UNCHANGED <<redis, registered, prior, generated, mailed, resets, used>>

\* GetByID, hashing and UpdatePassword: one of them fails, or the new password
\* is committed (perhaps behind an error).
ResetUpdate(p) ==
    /\ at[p] = "update"
    /\ \/ Return(p) /\ UNCHANGED resets
       \/ /\ resets' = [resets EXCEPT ![link[p]] = @ + 1]
          /\ Move(p, "consume") \/ ("unacked" \in Faults /\ Return(p))
    /\ UNCHANGED <<redis, registered, generated, mailed, used, overlapped>>

\* Mutant: only the index is deleted.
ConsumeIndexOnly(p) ==
    /\ \E o \in Outcomes :
        \/ at[p] = "consume" /\ UNCHANGED redis /\ Move(p, "unindex")
        \/ at[p] = "unindex" /\ RedisDel(UserResetIndexKey, o) /\ Move(p, "cutoff")
    /\ UNCHANGED <<registered, generated, mailed, resets, used, overlapped>>

\* Token and index are deleted; errors are ignored.
Consume(p) ==
    /\ \E o \in Outcomes :
        \/ at[p] = "consume" /\ RedisDel(PasswordResetKey(link[p]), o) /\ Move(p, "unindex")
        \/ at[p] = "unindex" /\ RedisDel(UserResetIndexKey, o) /\ Move(p, "cutoff")
    /\ UNCHANGED <<registered, generated, mailed, resets, used, overlapped>>

\* recordTokenCutoff, best effort; the call has succeeded.
RecordTokenCutoff(p) ==
    /\ \E o \in Outcomes :
        \/ /\ at[p] = "cutoff" /\ RedisSet(TokenCutoffKey, "stamp", o)
           /\ IF o = "ok" THEN Move(p, "cutoffTTL") /\ UNCHANGED used
              ELSE Return(p) /\ used' = used \cup {link[p]}
        \/ /\ at[p] = "cutoffTTL" /\ RedisExpire(TokenCutoffKey, o)
           /\ Return(p) /\ used' = used \cup {link[p]}
    /\ UNCHANGED <<registered, generated, mailed, resets, overlapped>>

-----------------------------------------------------------------------------
(* The environment.                                                        *)

Live(t) == kv[PasswordResetKey(t)] # None

\* A TTL runs out.  The reverse index gets its TTL, as long as the token's,
\* after the token: it lapses later, unless a call failed.
Lapse(k) ==
    /\ k = UserResetIndexKey /\ ~slipped /\ kv[k] # None => ~Live(kv[k])
    /\ RedisLapse(k)
    /\ UNCHANGED <<handler, registered, generated, mailed, resets, used, overlapped>>

Restart ==
    /\ "crash" \in Faults
    /\ RedisCrash
    /\ at' = [p \in Procs |-> "idle"]
    /\ link' = [p \in Procs |-> None]
    /\ prior' = [p \in Procs |-> None]
    /\ late' = [p \in Procs |-> FALSE]
    /\ UNCHANGED <<registered, generated, mailed, resets, used, overlapped>>

Continue(p) ==
    \/ ForgotExpire(p) \/ ForgotLookup(p) \/ Decoy(p) \/ ForgotIndex(p) \/ Supersede(p)
    \/ StoreLink(p) \/ StoreIndex(p) \/ MailLink(p)
    \/ ResetUpdate(p) \/ Consume(p) \/ RecordTokenCutoff(p)

Next ==
    \/ Register
    \/ \E p \in Procs : ForgotPassword(p)
    \/ \E p \in Procs, t \in Links : ResetPassword(p, t)
    \/ \E p \in Procs : Continue(p)
    \/ \E k \in Keys : Lapse(k)
    \/ Restart

Spec == Init /\ [][Next]_vars

-----------------------------------------------------------------------------
(* Properties.                                                             *)

\* An address without an account changes nothing that lasts: no mail goes out,
\* no password is replaced and only decoys are ever stored.
UnknownAddressHarmless ==
    ~registered =>
        /\ mailed = {} /\ \A t \in Links : resets[t] = 0
        /\ \A t \in Links : kv[PasswordResetKey(t)] # "user"
        /\ kv[UserResetIndexKey] = None

\* A token whose ResetPassword returned is refused from then on: as long as no
\* call to Redis has failed, no ResetPassword that starts afterwards finds it,
\* although ForgotPassword may be storing and indexing tokens meanwhile.
LinkReplayFails ==
    ~slipped => \A p \in Procs : ~late[p]

\* A token that reached Redis stops working by itself, whichever call or answer
\* was lost on the way and wherever the process stopped: it always has a TTL.
LinksExpire ==
    \A t \in Links : Live(t) => PasswordResetKey(t) \in volatile

\* "Single-active-token is the expected mental model": requests that follow one
\* another, ForgotPassword or ResetPassword in any order and whatever their
\* outcome, never leave two tokens of the account live, as long as no call to
\* Redis has failed.  It takes two that overlap: two ForgotPasswords that read
\* the same index, or a ResetPassword that deletes the index of a newer token.
SingleActiveToken ==
    ~slipped /\ ~overlapped =>
        \A s, t \in Links :
            kv[PasswordResetKey(s)] = "user" /\ kv[PasswordResetKey(t)] = "user" => s = t

-----------------------------------------------------------------------------
(* What comments say and TLC refutes.                                      *)

\* "Single-active-token is the expected mental model": with no request under
\* way, and no call to Redis failed, at most one token of the account is live.
SingleActiveAtRest ==
    ~slipped /\ (\A p \in Procs : at[p] = "idle") =>
        \A s, t \in Links :
            kv[PasswordResetKey(s)] = "user" /\ kv[PasswordResetKey(t)] = "user" => s = t

\* ResetPassword "consumes a one-shot reset token": a token replaces the
\* password once.
OneShot ==
    \A t \in Links : resets[t] <= 1

=============================================================================
