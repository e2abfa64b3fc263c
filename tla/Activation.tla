------------------------------ MODULE Activation ------------------------------
(***************************************************************************)
(* The activation of one account: Register, SendOTP, which mails a code    *)
(* and stores it in Redis, and VerifyOTP, which counts the attempt,        *)
(* compares the code and activates the row.  The code and the attempt      *)
(* counter have the same TTL (REDIS_EXPIRED minutes), each from the moment *)
(* it is set.                                                              *)
(***************************************************************************)
EXTENDS Redis

CONSTANTS
    Codes,          \* OTP codes
    Procs,          \* request handlers running concurrently
    OTPMaxAttempts, \* Config.OTPMaxAttempts
    MaxAttempts     \* bound on the attempt counter

ASSUME OTPAssumption ==
    OTPMaxAttempts \in Nat \ {0} /\ MaxAttempts \in Nat /\ None \notin Codes

VARIABLES
    row,      \* the users row: "none", "inactive" or "active"
    at,       \* at[p]: where handler p is in its call
    code,     \* code[p]: the code generated, or presented
    older,    \* the counter's TTL started before that of the live code
    mailed,   \* the codes handed to the mailer
    latest,   \* history: the one handed over last
    crossed,  \* history: two SendOTPs have run at the same time
    accepted, \* history: the codes that activated the account
    tries,    \* history: attempts let through since the counter was reset
    misses    \* history: wrong guesses compared with the live code

vars == <<kv, volatile, slipped, row, at, code, older, mailed, latest, crossed, accepted,
          tries, misses>>

mails == <<mailed, latest, crossed>>

UserOTPKey == <<"user_otp">>
OTPAttemptsKey == <<"otp_attempts">>
Keys == {UserOTPKey, OTPAttemptsKey}

Steps == {"idle", "mail", "store", "reset", "expire", "compare", "activate", "clear",
          "clearAttempts"}

Init ==
    /\ kv = [k \in Keys |-> None]
    /\ volatile = {}
    /\ slipped = FALSE
    /\ row = "none"
    /\ at = [p \in Procs |-> "idle"]
    /\ code = [p \in Procs |-> None]
    /\ older = FALSE
    /\ mailed = {}
    /\ latest = None
    /\ crossed = FALSE
    /\ accepted = {}
    /\ tries = 0
    /\ misses = 0

Move(p, s) == at' = [at EXCEPT ![p] = s] /\ UNCHANGED code

Return(p) ==
    /\ at' = [at EXCEPT ![p] = "idle"]
    /\ code' = [code EXCEPT ![p] = None]

Call(p, s, c) ==
    /\ at' = [at EXCEPT ![p] = s]
    /\ code' = [code EXCEPT ![p] = c]

\* users.Store: the account starts inactive.
Register ==
    /\ row = "none"
    /\ row' = "inactive"
    /\ UNCHANGED <<redis, at, code, older, mails, accepted, tries, misses>>

\* GetByEmail answers with an inactive row.  It may do so for an account that
\* is active by now: the lookup is cache first.
FoundInactive == row # "none"

-----------------------------------------------------------------------------
(* SendOTP.                                                                *)

\* Where a handler in SendOTP may be.
Sending == {"mail", "store", "reset"}

SendOTP(p, c) ==
    /\ at[p] = "idle"
    /\ FoundInactive
    /\ Call(p, "mail", c)
    /\ crossed' = (crossed \/ \E q \in Procs : at[q] \in Sending)
    /\ UNCHANGED <<redis, row, older, mailed, latest, accepted, tries, misses>>

\* Mutant: a full mail queue is ignored.
SendMailUnchecked(p) ==
    /\ at[p] = "mail"
    /\ \/ mailed' = mailed \cup {code[p]} /\ latest' = code[p]
       \/ UNCHANGED <<mailed, latest>>
    /\ Move(p, "store")
    /\ UNCHANGED <<redis, row, older, crossed, accepted, tries, misses>>

\* The mailer's queue takes the mail, or is full and the call fails.
SendMail(p) ==
    /\ at[p] = "mail"
    /\ \/ mailed' = mailed \cup {code[p]} /\ latest' = code[p] /\ Move(p, "store")
       \/ UNCHANGED <<mailed, latest>> /\ Return(p)
    /\ UNCHANGED <<redis, row, older, crossed, accepted, tries, misses>>

\* Mutant: a code that is still live is kept.
SendStoreOnce(p) ==
    /\ at[p] = "store"
    /\ \E o \in Outcomes :
        /\ IF kv[UserOTPKey] = None THEN RedisSet(UserOTPKey, code[p], o) ELSE UNCHANGED redis
        /\ older' = (older \/ (o # "lost" /\ OTPAttemptsKey \in volatile))
        /\ misses' = IF o = "lost" THEN misses ELSE 0
    /\ Move(p, "reset")
    /\ UNCHANGED <<row, mails, accepted, tries>>

\* The code is stored, or not: the call succeeds either way.
SendStore(p) ==
    /\ at[p] = "store"
    /\ \E o \in Outcomes :
        /\ RedisSet(UserOTPKey, code[p], o)
        /\ older' = (older \/ (o # "lost" /\ OTPAttemptsKey \in volatile))
        /\ misses' = IF o = "lost" THEN misses ELSE 0
    /\ Move(p, "reset")
    /\ UNCHANGED <<row, mails, accepted, tries>>

SendReset(p) ==
    /\ at[p] = "reset"
    /\ \E o \in Outcomes :
        /\ RedisDel(OTPAttemptsKey, o)
        /\ tries' = IF o = "lost" THEN tries ELSE 0
        /\ older' = (o = "lost" /\ older)
    /\ Return(p)
    /\ UNCHANGED <<row, mails, accepted, misses>>

-----------------------------------------------------------------------------
(* VerifyOTP.                                                              *)

Try == tries' = IF tries > OTPMaxAttempts THEN tries ELSE tries + 1

\* Mutant: the limit is off by one.
VerifyOTPOneMore(p, c) ==
    /\ at[p] = "idle"
    /\ FoundInactive
    /\ Count(OTPAttemptsKey) < MaxAttempts
    /\ \E o \in Outcomes :
        LET attempts == IF o = "ok" THEN Count(OTPAttemptsKey) + 1 ELSE 0 IN
        /\ RedisIncr(OTPAttemptsKey, o)
        /\ \/ attempts = 1 /\ Call(p, "expire", c) /\ Try
           \/ attempts # 1 /\ attempts <= OTPMaxAttempts + 1 /\ Call(p, "compare", c) /\ Try
           \/ attempts > OTPMaxAttempts + 1 /\ Return(p) /\ UNCHANGED tries
    /\ UNCHANGED <<row, older, mails, accepted, misses>>

\* The attempt is counted before the code is looked at; when Redis does not
\* answer it goes on.
VerifyOTP(p, c) ==
    /\ at[p] = "idle"
    /\ FoundInactive
    /\ Count(OTPAttemptsKey) < MaxAttempts
    /\ \E o \in Outcomes :
        LET attempts == IF o = "ok" THEN Count(OTPAttemptsKey) + 1 ELSE 0 IN
        /\ RedisIncr(OTPAttemptsKey, o)
        /\ \/ attempts = 1 /\ Call(p, "expire", c) /\ Try
           \/ attempts # 1 /\ attempts <= OTPMaxAttempts /\ Call(p, "compare", c) /\ Try
           \/ attempts > OTPMaxAttempts /\ Return(p) /\ UNCHANGED tries
    /\ UNCHANGED <<row, older, mails, accepted, misses>>

\* Mutant: the counter's TTL is never set.
VerifyExpireForgotten(p) ==
    /\ at[p] = "expire"
    /\ Move(p, "compare")
    /\ UNCHANGED <<redis, row, older, mails, accepted, tries, misses>>

VerifyExpire(p) ==
    /\ at[p] = "expire"
    /\ \E o \in Outcomes :
        /\ RedisExpire(OTPAttemptsKey, o)
        /\ older' = (o = "lost" /\ older)
    /\ Move(p, "compare")
    /\ UNCHANGED <<row, mails, accepted, tries, misses>>

\* The stored code is missing (or Redis does not answer), differs or matches.
VerifyCompare(p) ==
    /\ at[p] = "compare"
    /\ \/ /\ kv[UserOTPKey] = None \/ "lost" \in Faults
          /\ Return(p) /\ UNCHANGED misses
       \/ /\ kv[UserOTPKey] \notin {None, code[p]}
          /\ Return(p)
          /\ misses' = IF misses > OTPMaxAttempts THEN misses ELSE misses + 1
       \/ kv[UserOTPKey] = code[p] /\ Move(p, "activate") /\ UNCHANGED misses
    /\ UNCHANGED <<redis, row, older, mails, accepted, tries>>

\* users.Activate: committed, committed behind an error, or failed.
VerifyActivate(p) ==
    /\ at[p] = "activate"
    /\ \/ row' = "active" /\ accepted' = accepted \cup {code[p]} /\ Move(p, "clear")
       \/ /\ "unacked" \in Faults
          /\ row' = "active" /\ accepted' = accepted \cup {code[p]} /\ Return(p)
       \/ Return(p) /\ UNCHANGED <<row, accepted>>
    /\ UNCHANGED <<redis, older, mails, tries, misses>>

\* Code and counter are deleted; errors are ignored.
VerifyClear(p) ==
    /\ \E o \in Outcomes :
        \/ /\ at[p] = "clear" /\ RedisDel(UserOTPKey, o) /\ Move(p, "clearAttempts")
           /\ UNCHANGED <<tries, older>>
        \/ /\ at[p] = "clearAttempts" /\ RedisDel(OTPAttemptsKey, o) /\ Return(p)
           /\ tries' = IF o = "lost" THEN tries ELSE 0
           /\ older' = (o = "lost" /\ older)
    /\ UNCHANGED <<row, mails, accepted, misses>>

-----------------------------------------------------------------------------
(* The environment.                                                        *)

LapseOTP ==
    /\ RedisLapse(UserOTPKey)
    /\ UNCHANGED <<row, at, code, older, mails, accepted, tries, misses>>

\* With equal TTLs the counter outlives the code it started after.
LapseAttempts ==
    /\ kv[UserOTPKey] = None \/ older
    /\ RedisLapse(OTPAttemptsKey)
    /\ tries' = 0
    /\ older' = FALSE
    /\ UNCHANGED <<row, at, code, mails, accepted, misses>>

Restart ==
    /\ "crash" \in Faults
    /\ RedisCrash
    /\ at' = [p \in Procs |-> "idle"]
    /\ code' = [p \in Procs |-> None]
    /\ UNCHANGED <<row, older, mails, accepted, tries, misses>>

Continue(p) ==
    \/ SendMail(p) \/ SendStore(p) \/ SendReset(p)
    \/ VerifyExpire(p) \/ VerifyCompare(p) \/ VerifyActivate(p) \/ VerifyClear(p)

Next ==
    \/ Register
    \/ \E p \in Procs, c \in Codes : SendOTP(p, c) \/ VerifyOTP(p, c)
    \/ \E p \in Procs : Continue(p)
    \/ LapseOTP \/ LapseAttempts
    \/ Restart

Spec == Init /\ [][Next]_vars

-----------------------------------------------------------------------------
(* Properties.                                                             *)

\* An account is active only by a code that had been handed to the mailer
\* before, and so is every code that VerifyOTP could still accept, whatever
\* fails between the steps of SendOTP and of VerifyOTP.
ActivatedByMailedCode ==
    /\ row = "active" => accepted # {}
    /\ accepted \subseteq mailed
    /\ kv[UserOTPKey] # None => kv[UserOTPKey] \in mailed

\* At most OTPMaxAttempts attempts get past the counter before it is reset,
\* however handlers interleave, while Redis answers: each is counted before it
\* reads the code.
TriesBounded ==
    ~slipped => tries <= OTPMaxAttempts

\* The code that counts is the one in the user's latest mail: when no SendOTP is
\* under way, Redis answers and SendOTPs do not overlap, no earlier code is
\* live, although each is mailed before it is stored.
LatestCodeCounts ==
    ~slipped /\ ~crossed /\ (\A p \in Procs : at[p] \notin Sending) =>
        kv[UserOTPKey] \in {None, latest}

\* The lockout of "too many invalid otp attempts" ends by itself: however
\* VerifyOTPs interleave with the Dels of SendOTP and of a success, a counter
\* without a TTL has a handler about to give it one, while Redis answers.
LockoutEnds ==
    ~slipped /\ kv[OTPAttemptsKey] # None =>
        OTPAttemptsKey \in volatile \/ \E p \in Procs : at[p] = "expire"

-----------------------------------------------------------------------------
(* What a comment says and TLC refutes.                                    *)

\* "After this many failures within the OTP window the email is locked out
\* even with the correct code": one stored code meets at most OTPMaxAttempts
\* wrong guesses.
GuessesPerCodeBounded ==
    misses <= OTPMaxAttempts

=============================================================================
