-------------------------- MODULE ActivationProofs --------------------------
(***************************************************************************)
(* Proofs about the activation of an account, for any number of handlers,  *)
(* any codes, any limit and any combination of faults.                     *)
(***************************************************************************)
EXTENDS Activation, TLAPS

TypeOK ==
    /\ kv \in [Keys -> Codes \cup (Nat \ {0}) \cup {None}]
    /\ kv[UserOTPKey] \in Codes \cup {None}
    /\ kv[OTPAttemptsKey] \in (Nat \ {0}) \cup {None}
    /\ slipped \in BOOLEAN
    /\ row \in {"none", "inactive", "active"}
    /\ at \in [Procs -> Steps]
    /\ code \in [Procs -> Codes \cup {None}]
    /\ crossed \in BOOLEAN
    /\ tries \in Nat

\* A handler has a code in hand, and past the mailer or the comparison it is one
\* that was mailed.
InHand ==
    \A p \in Procs :
        /\ at[p] # "idle" => code[p] \in Codes
        /\ at[p] \in {"store", "activate"} => code[p] \in mailed

\* While Redis answers the counter is not behind the attempts let through.
Counted ==
    ~slipped => /\ tries <= Count(OTPAttemptsKey)
                /\ tries <= OTPMaxAttempts

\* SendOTPs one at a time: the one about to store its code holds the latest,
\* and with none about to, no other code is live.
OneByOne ==
    ~slipped /\ ~crossed =>
        /\ \A p, q \in Procs : at[p] \in Sending /\ at[q] \in Sending => p = q
        /\ \A p \in Procs : at[p] = "store" => code[p] = latest
        /\ (\A p \in Procs : at[p] # "store") => kv[UserOTPKey] \in {None, latest}

IInv ==
    /\ TypeOK
    /\ InHand
    /\ Counted
    /\ OneByOne
    /\ ActivatedByMailedCode
    /\ LockoutEnds

-----------------------------------------------------------------------------
(* Facts about the commands.                                               *)

LEMMA KeysApart ==
    /\ UserOTPKey \in Keys
    /\ OTPAttemptsKey \in Keys
    /\ UserOTPKey # OTPAttemptsKey
  BY DEF Keys, UserOTPKey, OTPAttemptsKey

\* Redis has answered so far only if it answered before and this call too.
LEMMA NoSlip ==
  ASSUME NEW o, Slip(o), ~slipped'
  PROVE  ~slipped /\ o = "ok"
  BY Zenon DEF Slip

LEMMA SlipType ==
  ASSUME NEW o, Slip(o), slipped \in BOOLEAN
  PROVE  slipped' \in BOOLEAN
  BY Zenon DEF Slip

\* Set and Del of the code leave the counter alone, and the code is the one
\* set, or gone, or what it was.
LEMMA CodeCommand ==
  ASSUME TypeOK, NEW c \in Codes \cup {None}, NEW o,
         RedisSet(UserOTPKey, c, o) \/ (RedisDel(UserOTPKey, o) /\ c = None)
  PROVE  /\ kv' \in [Keys -> Codes \cup (Nat \ {0}) \cup {None}]
         /\ slipped' \in BOOLEAN
         /\ ~slipped' => ~slipped /\ o = "ok"
         /\ kv'[UserOTPKey] = (IF o = "lost" THEN kv[UserOTPKey] ELSE c)
         /\ kv'[OTPAttemptsKey] = kv[OTPAttemptsKey]
         /\ OTPAttemptsKey \in volatile => OTPAttemptsKey \in volatile'
<1>1. Slip(o)
  BY DEF RedisSet, RedisDel
<1>2. ~slipped' => ~slipped /\ o = "ok"
  BY <1>1, NoSlip
<1>3. slipped' \in BOOLEAN
  BY <1>1, SlipType DEF TypeOK
<1>4. kv' = IF o = "lost" THEN kv ELSE [kv EXCEPT ![UserOTPKey] = c]
  BY DEF RedisSet, RedisDel
<1>5. OTPAttemptsKey \in volatile => OTPAttemptsKey \in volatile'
  BY KeysApart DEF RedisSet, RedisDel
<1> QED
  BY <1>2, <1>3, <1>4, <1>5, KeysApart DEF TypeOK

\* Del of the counter leaves the code alone.
LEMMA CounterDel ==
  ASSUME TypeOK, NEW o, RedisDel(OTPAttemptsKey, o)
  PROVE  /\ kv' \in [Keys -> Codes \cup (Nat \ {0}) \cup {None}]
         /\ slipped' \in BOOLEAN
         /\ ~slipped' => ~slipped /\ o = "ok"
         /\ kv'[UserOTPKey] = kv[UserOTPKey]
         /\ kv'[OTPAttemptsKey] = (IF o = "lost" THEN kv[OTPAttemptsKey] ELSE None)
<1>1. Slip(o)
  BY DEF RedisDel
<1>2. ~slipped' => ~slipped /\ o = "ok"
  BY <1>1, NoSlip
<1>3. slipped' \in BOOLEAN
  BY <1>1, SlipType DEF TypeOK
<1>4. kv' = IF o = "lost" THEN kv ELSE [kv EXCEPT ![OTPAttemptsKey] = None]
  BY DEF RedisDel
<1> QED
  BY <1>2, <1>3, <1>4, KeysApart DEF TypeOK

\* Incr counts one more, and the code stays.
LEMMA CounterIncr ==
  ASSUME TypeOK, NEW o, RedisIncr(OTPAttemptsKey, o)
  PROVE  /\ kv' \in [Keys -> Codes \cup (Nat \ {0}) \cup {None}]
         /\ slipped' \in BOOLEAN
         /\ ~slipped' => ~slipped /\ o = "ok"
         /\ kv'[UserOTPKey] = kv[UserOTPKey]
         /\ kv'[OTPAttemptsKey] \in (Nat \ {0}) \cup {None}
         /\ Count(OTPAttemptsKey) \in Nat
         /\ o = "ok" => kv'[OTPAttemptsKey] = Count(OTPAttemptsKey) + 1
         /\ volatile' = volatile
<1>1. Slip(o)
  BY DEF RedisIncr
<1>2. ~slipped' => ~slipped /\ o = "ok"
  BY <1>1, NoSlip
<1>3. slipped' \in BOOLEAN
  BY <1>1, SlipType DEF TypeOK
<1>4. Count(OTPAttemptsKey) \in Nat
  BY DEF Count, TypeOK
<1>5. kv' = IF o = "lost" THEN kv
            ELSE [kv EXCEPT ![OTPAttemptsKey] = Count(OTPAttemptsKey) + 1]
  BY DEF RedisIncr
<1>6. volatile' = volatile
  BY DEF RedisIncr
<1> QED
  BY <1>2, <1>3, <1>4, <1>5, <1>6, KeysApart DEF TypeOK

-----------------------------------------------------------------------------
(* Every step preserves the invariant.                                     *)

LEMMA InitInv == Init => IInv
<1> SUFFICES ASSUME Init PROVE IInv
  OBVIOUS
<1>1. TypeOK
  BY KeysApart DEF Init, TypeOK, Steps
<1>2. InHand /\ ActivatedByMailedCode
  BY KeysApart DEF Init, InHand, ActivatedByMailedCode
<1>3. Counted
  BY KeysApart, OTPAssumption DEF Init, Counted, Count
<1>4. OneByOne /\ LockoutEnds
  BY KeysApart DEF Init, OneByOne, Sending, LockoutEnds
<1> QED
  BY <1>1, <1>2, <1>3, <1>4 DEF IInv

\* Register touches the row only.
LEMMA RegisterStep ==
  ASSUME IInv, Register
  PROVE  IInv'
<1> USE DEF IInv, Register, redis, mails
<1>1. TypeOK'
  BY DEF TypeOK
<1>2. InHand' /\ ActivatedByMailedCode'
  BY DEF InHand, ActivatedByMailedCode
<1>3. Counted' /\ OneByOne' /\ LockoutEnds'
  BY DEF Counted, Count, OneByOne, LockoutEnds
<1> QED
  BY <1>1, <1>2, <1>3

\* SendOTP: a second one under way is a crossing.
LEMMA SendOTPStep ==
  ASSUME NEW p \in Procs, NEW c \in Codes, IInv, SendOTP(p, c)
  PROVE  IInv'
<1> USE DEF IInv, SendOTP, Call, redis
<1>1. TypeOK'
  <2>1. crossed' \in BOOLEAN
    BY Zenon DEF TypeOK
  <2>2. at' \in [Procs -> Steps] /\ code' \in [Procs -> Codes \cup {None}]
    BY DEF TypeOK, Steps
  <2> QED
    BY <2>1, <2>2 DEF TypeOK
<1>2. InHand' /\ ActivatedByMailedCode'
  BY DEF InHand, ActivatedByMailedCode, TypeOK
<1>3. Counted'
  BY DEF Counted, Count
<1>4. OneByOne'
  <2> SUFFICES ASSUME ~slipped, ~crossed'
               PROVE  OneByOne'
    BY DEF OneByOne
  <2>1. ~crossed /\ \A q \in Procs : at[q] \notin Sending
    BY Zenon
  <2> QED
    BY <2>1 DEF OneByOne, Sending, TypeOK
<1>5. LockoutEnds'
  BY DEF LockoutEnds, TypeOK
<1> QED
  BY <1>1, <1>2, <1>3, <1>4, <1>5

\* SendMail: a code is about to be stored only after the mailer took it.
LEMMA SendMailStep ==
  ASSUME NEW p \in Procs, IInv, SendMail(p)
  PROVE  IInv'
<1> USE DEF IInv, SendMail, Move, Return, redis
<1>1. TypeOK'
  BY DEF TypeOK, Steps
<1>2. InHand'
  BY DEF InHand, TypeOK
<1>3. ActivatedByMailedCode'
  BY DEF ActivatedByMailedCode
<1>4. Counted'
  BY DEF Counted, Count
<1>5. OneByOne'
  BY DEF OneByOne, Sending, TypeOK
<1>6. LockoutEnds'
  BY DEF LockoutEnds, TypeOK
<1> QED
  BY <1>1, <1>2, <1>3, <1>4, <1>5, <1>6

\* SendStore: the code that becomes live was mailed, and is the latest.
LEMMA SendStoreStep ==
  ASSUME NEW p \in Procs, IInv, SendStore(p)
  PROVE  IInv'
<1> USE DEF IInv, Move, mails
<1>0. PICK o \in Outcomes : RedisSet(UserOTPKey, code[p], o)
  BY DEF SendStore
<1>a. /\ at[p] = "store" /\ code[p] \in Codes /\ code[p] \in mailed
      /\ at' = [at EXCEPT ![p] = "reset"]
      /\ UNCHANGED <<code, row, mailed, latest, crossed, accepted, tries>>
  BY DEF SendStore, InHand
<1>b. /\ kv' \in [Keys -> Codes \cup (Nat \ {0}) \cup {None}]
      /\ slipped' \in BOOLEAN
      /\ ~slipped' => ~slipped /\ o = "ok"
      /\ kv'[UserOTPKey] = (IF o = "lost" THEN kv[UserOTPKey] ELSE code[p])
      /\ kv'[OTPAttemptsKey] = kv[OTPAttemptsKey]
      /\ OTPAttemptsKey \in volatile => OTPAttemptsKey \in volatile'
  BY <1>0, <1>a, CodeCommand
<1>1. TypeOK'
  BY <1>a, <1>b DEF TypeOK, Steps
<1>2. InHand' /\ ActivatedByMailedCode'
  BY <1>a, <1>b DEF InHand, ActivatedByMailedCode, TypeOK
<1>3. Counted'
  BY <1>a, <1>b DEF Counted, Count
<1>4. OneByOne'
  BY <1>a, <1>b DEF OneByOne, Sending, TypeOK
<1>5. LockoutEnds'
  BY <1>a, <1>b DEF LockoutEnds, TypeOK
<1> QED
  BY <1>1, <1>2, <1>3, <1>4, <1>5

\* SendReset: attempts and counter start again together.
LEMMA SendResetStep ==
  ASSUME NEW p \in Procs, IInv, SendReset(p)
  PROVE  IInv'
<1> USE DEF IInv, Return, mails
<1>0. PICK o \in Outcomes : /\ RedisDel(OTPAttemptsKey, o)
                            /\ tries' = IF o = "lost" THEN tries ELSE 0
  BY DEF SendReset
<1>a. /\ at[p] = "reset" /\ Return(p)
      /\ UNCHANGED <<row, mailed, latest, crossed, accepted>>
  BY DEF SendReset
<1>b. /\ kv' \in [Keys -> Codes \cup (Nat \ {0}) \cup {None}]
      /\ slipped' \in BOOLEAN
      /\ ~slipped' => ~slipped /\ o = "ok"
      /\ kv'[UserOTPKey] = kv[UserOTPKey]
      /\ kv'[OTPAttemptsKey] = (IF o = "lost" THEN kv[OTPAttemptsKey] ELSE None)
  BY <1>0, CounterDel
<1>1. TypeOK'
  BY <1>0, <1>a, <1>b DEF TypeOK, Steps
<1>2. InHand' /\ ActivatedByMailedCode'
  BY <1>a, <1>b DEF InHand, ActivatedByMailedCode, TypeOK
<1>3. Counted'
  BY <1>0, <1>b, OTPAssumption DEF Counted, Count
<1>4. OneByOne'
  BY <1>a, <1>b DEF OneByOne, Sending, TypeOK
<1>5. LockoutEnds'
  BY <1>b DEF LockoutEnds
<1> QED
  BY <1>1, <1>2, <1>3, <1>4, <1>5

\* VerifyOTP: an attempt is let through with the count it was given.
LEMMA VerifyOTPStep ==
  ASSUME NEW p \in Procs, NEW c \in Codes, IInv, VerifyOTP(p, c)
  PROVE  IInv'
<1> USE DEF IInv, mails
<1> DEFINE n(o) == IF o = "ok" THEN Count(OTPAttemptsKey) + 1 ELSE 0
<1>0. PICK o \in Outcomes :
        /\ RedisIncr(OTPAttemptsKey, o)
        /\ \/ n(o) = 1 /\ Call(p, "expire", c) /\ Try
           \/ n(o) # 1 /\ n(o) <= OTPMaxAttempts /\ Call(p, "compare", c) /\ Try
           \/ n(o) > OTPMaxAttempts /\ Return(p) /\ UNCHANGED tries
  BY DEF VerifyOTP
<1>a. /\ at[p] = "idle"
      /\ UNCHANGED <<row, mailed, latest, crossed, accepted>>
  BY DEF VerifyOTP
<1>b. /\ kv' \in [Keys -> Codes \cup (Nat \ {0}) \cup {None}]
      /\ slipped' \in BOOLEAN
      /\ ~slipped' => ~slipped /\ o = "ok"
      /\ kv'[UserOTPKey] = kv[UserOTPKey]
      /\ kv'[OTPAttemptsKey] \in (Nat \ {0}) \cup {None}
      /\ Count(OTPAttemptsKey) \in Nat
      /\ o = "ok" => kv'[OTPAttemptsKey] = Count(OTPAttemptsKey) + 1
      /\ volatile' = volatile
  BY <1>0, CounterIncr
<1>c. Call(p, "expire", c) \/ Call(p, "compare", c) \/ Return(p)
  BY <1>0
<1>d. Try \/ UNCHANGED tries
  BY <1>0
<1>1. TypeOK'
  <2>1. at' \in [Procs -> Steps] /\ code' \in [Procs -> Codes \cup {None}]
    BY <1>c DEF TypeOK, Steps, Call, Return
  <2>2. tries' \in Nat
    BY <1>d, OTPAssumption DEF Try, TypeOK
  <2> QED
    BY <1>a, <1>b, <2>1, <2>2 DEF TypeOK
<1>2. InHand'
  BY <1>a, <1>c DEF InHand, TypeOK, Call, Return
<1>3. ActivatedByMailedCode'
  BY <1>a, <1>b DEF ActivatedByMailedCode
<1>4. Counted'
  <2> SUFFICES ASSUME ~slipped'
               PROVE  tries' <= Count(OTPAttemptsKey)' /\ tries' <= OTPMaxAttempts
    BY DEF Counted
  <2>1. /\ ~slipped /\ n(o) = Count(OTPAttemptsKey) + 1
        /\ Count(OTPAttemptsKey)' = Count(OTPAttemptsKey) + 1
    BY <1>b, NoneAssumption DEF Count
  <2>2. /\ tries <= Count(OTPAttemptsKey) /\ tries <= OTPMaxAttempts
        /\ tries \in Nat /\ OTPMaxAttempts \in Nat \ {0}
    BY <2>1, OTPAssumption DEF Counted, TypeOK
  <2>3. CASE n(o) <= OTPMaxAttempts /\ Try
    BY <1>b, <2>1, <2>2, <2>3 DEF Try
  <2>4. CASE UNCHANGED tries
    BY <1>b, <2>1, <2>2, <2>4
  <2> QED
    BY <1>0, <2>2, <2>3, <2>4
<1>5. OneByOne'
  BY <1>a, <1>b, <1>c DEF OneByOne, Sending, TypeOK, Call, Return
<1>6. LockoutEnds'
  <2> SUFFICES ASSUME ~slipped'
               PROVE  OTPAttemptsKey \in volatile' \/ \E q \in Procs : at'[q] = "expire"
    BY DEF LockoutEnds
  <2>1. ~slipped /\ n(o) = Count(OTPAttemptsKey) + 1
    BY <1>b
  <2>2. CASE kv[OTPAttemptsKey] = None
    <3>1. n(o) = 1
      BY <2>1, <2>2 DEF Count
    <3>2. Call(p, "expire", c)
      BY <1>0, <3>1, OTPAssumption
    <3> QED
      BY <3>2 DEF Call, TypeOK
  <2>3. CASE kv[OTPAttemptsKey] # None
    <3>1. OTPAttemptsKey \in volatile \/ \E q \in Procs : at[q] = "expire"
      BY <2>1, <2>3 DEF LockoutEnds
    <3> QED
      BY <1>a, <1>b, <1>c, <3>1 DEF Call, Return, TypeOK
  <2> QED
    BY <2>2, <2>3
<1> QED
  BY <1>1, <1>2, <1>3, <1>4, <1>5, <1>6

\* VerifyExpire: the counter gets its TTL, while Redis answers.
LEMMA VerifyExpireStep ==
  ASSUME NEW p \in Procs, IInv, VerifyExpire(p)
  PROVE  IInv'
<1> USE DEF IInv, mails
<1>0. PICK o \in Outcomes : RedisExpire(OTPAttemptsKey, o)
  BY DEF VerifyExpire
<1>a. /\ at[p] = "expire" /\ Move(p, "compare")
      /\ UNCHANGED <<row, mailed, latest, crossed, accepted, tries>>
  BY DEF VerifyExpire
<1>b. /\ UNCHANGED kv /\ slipped' \in BOOLEAN
      /\ ~slipped' => ~slipped /\ o = "ok"
  <2>1. Slip(o) /\ UNCHANGED kv
    BY <1>0 DEF RedisExpire
  <2> QED
    BY <2>1, NoSlip, SlipType DEF TypeOK
<1>c. o = "ok" /\ kv[OTPAttemptsKey] # None => OTPAttemptsKey \in volatile'
  BY <1>0 DEF RedisExpire
<1>1. TypeOK'
  BY <1>a, <1>b DEF TypeOK, Steps, Move
<1>2. InHand' /\ ActivatedByMailedCode'
  BY <1>a, <1>b DEF InHand, ActivatedByMailedCode, Move, TypeOK
<1>3. Counted'
  BY <1>a, <1>b DEF Counted, Count
<1>4. OneByOne'
  BY <1>a, <1>b DEF OneByOne, Sending, TypeOK, Move
<1>5. LockoutEnds'
  BY <1>b, <1>c DEF LockoutEnds
<1> QED
  BY <1>1, <1>2, <1>3, <1>4, <1>5

\* VerifyCompare: only the live code, which was mailed, gets further.
LEMMA VerifyCompareStep ==
  ASSUME NEW p \in Procs, IInv, VerifyCompare(p)
  PROVE  IInv'
<1> USE DEF IInv, mails, redis
<1>a. /\ at[p] = "compare"
      /\ UNCHANGED <<kv, volatile, slipped, row, mailed, latest, crossed, accepted, tries>>
  BY DEF VerifyCompare
<1>b. \/ Return(p)
      \/ Move(p, "activate") /\ kv[UserOTPKey] = code[p]
  BY DEF VerifyCompare
<1>1. TypeOK'
  BY <1>a, <1>b DEF TypeOK, Steps, Move, Return
<1>2. InHand'
  <2>1. code[p] \in Codes /\ code[p] # None
    BY <1>a, OTPAssumption DEF InHand
  <2>2. kv[UserOTPKey] = code[p] => code[p] \in mailed
    BY <2>1 DEF ActivatedByMailedCode
  <2> QED
    BY <1>a, <1>b, <2>2 DEF InHand, TypeOK, Move, Return
<1>3. ActivatedByMailedCode' /\ Counted'
  BY <1>a DEF ActivatedByMailedCode, Counted, Count
<1>4. OneByOne'
  BY <1>a, <1>b DEF OneByOne, Sending, TypeOK, Move, Return
<1>5. LockoutEnds'
  BY <1>a, <1>b DEF LockoutEnds, TypeOK, Move, Return
<1> QED
  BY <1>1, <1>2, <1>3, <1>4, <1>5

\* VerifyActivate: the code that activates the account was mailed.
LEMMA VerifyActivateStep ==
  ASSUME NEW p \in Procs, IInv, VerifyActivate(p)
  PROVE  IInv'
<1> USE DEF IInv, mails, redis
<1>a. /\ at[p] = "activate"
      /\ UNCHANGED <<kv, volatile, slipped, mailed, latest, crossed, tries>>
  BY DEF VerifyActivate
<1>b. Move(p, "clear") \/ Return(p)
  BY DEF VerifyActivate
<1>c. \/ row' = "active" /\ accepted' = accepted \cup {code[p]}
      \/ UNCHANGED <<row, accepted>>
  BY DEF VerifyActivate
<1>1. TypeOK'
  BY <1>a, <1>b, <1>c DEF TypeOK, Steps, Move, Return
<1>2. InHand'
  BY <1>a, <1>b DEF InHand, TypeOK, Move, Return
<1>3. ActivatedByMailedCode'
  BY <1>a, <1>c DEF ActivatedByMailedCode, InHand
<1>4. Counted'
  BY <1>a DEF Counted, Count
<1>5. OneByOne'
  BY <1>a, <1>b DEF OneByOne, Sending, TypeOK, Move, Return
<1>6. LockoutEnds'
  BY <1>a, <1>b DEF LockoutEnds, TypeOK, Move, Return
<1> QED
  BY <1>1, <1>2, <1>3, <1>4, <1>5, <1>6

\* VerifyClear: first the code goes, then the counter.
LEMMA VerifyClearStep ==
  ASSUME NEW p \in Procs, IInv, VerifyClear(p)
  PROVE  IInv'
<1> USE DEF IInv, mails
<1>0. PICK o \in Outcomes :
        \/ /\ at[p] = "clear" /\ RedisDel(UserOTPKey, o) /\ Move(p, "clearAttempts")
           /\ UNCHANGED <<tries, older>>
        \/ /\ at[p] = "clearAttempts" /\ RedisDel(OTPAttemptsKey, o) /\ Return(p)
           /\ tries' = IF o = "lost" THEN tries ELSE 0
  BY DEF VerifyClear
<1>a. UNCHANGED <<row, mailed, latest, crossed, accepted>>
  BY DEF VerifyClear
<1>1. CASE at[p] = "clear"
  <2>a. Move(p, "clearAttempts") /\ UNCHANGED tries
    BY <1>0, <1>1
  <2>b. /\ kv' \in [Keys -> Codes \cup (Nat \ {0}) \cup {None}]
        /\ slipped' \in BOOLEAN
        /\ ~slipped' => ~slipped /\ o = "ok"
        /\ kv'[UserOTPKey] = (IF o = "lost" THEN kv[UserOTPKey] ELSE None)
        /\ kv'[OTPAttemptsKey] = kv[OTPAttemptsKey]
        /\ OTPAttemptsKey \in volatile => OTPAttemptsKey \in volatile'
    BY <1>0, <1>1, CodeCommand
  <2>1. TypeOK'
    BY <1>a, <2>a, <2>b DEF TypeOK, Steps, Move
  <2>2. InHand' /\ ActivatedByMailedCode'
    BY <1>1, <1>a, <2>a, <2>b DEF InHand, ActivatedByMailedCode, TypeOK, Move
  <2>3. Counted'
    BY <2>a, <2>b DEF Counted, Count
  <2>4. OneByOne'
    BY <1>1, <1>a, <2>a, <2>b DEF OneByOne, Sending, TypeOK, Move
  <2>5. LockoutEnds'
    BY <1>1, <2>a, <2>b DEF LockoutEnds, TypeOK, Move
  <2> QED
    BY <2>1, <2>2, <2>3, <2>4, <2>5
<1>2. CASE at[p] = "clearAttempts"
  <2>a. Return(p) /\ tries' = IF o = "lost" THEN tries ELSE 0
    BY <1>0, <1>2
  <2>b. /\ kv' \in [Keys -> Codes \cup (Nat \ {0}) \cup {None}]
        /\ slipped' \in BOOLEAN
        /\ ~slipped' => ~slipped /\ o = "ok"
        /\ kv'[UserOTPKey] = kv[UserOTPKey]
        /\ kv'[OTPAttemptsKey] = (IF o = "lost" THEN kv[OTPAttemptsKey] ELSE None)
    BY <1>0, <1>2, CounterDel
  <2>1. TypeOK'
    BY <1>a, <2>a, <2>b DEF TypeOK, Steps, Return
  <2>2. InHand' /\ ActivatedByMailedCode'
    BY <1>a, <2>a, <2>b DEF InHand, ActivatedByMailedCode, TypeOK, Return
  <2>3. Counted'
    BY <2>a, <2>b, OTPAssumption DEF Counted, Count
  <2>4. OneByOne'
    BY <1>2, <1>a, <2>a, <2>b DEF OneByOne, Sending, TypeOK, Return
  <2>5. LockoutEnds'
    BY <2>b DEF LockoutEnds
  <2> QED
    BY <2>1, <2>2, <2>3, <2>4, <2>5
<1> QED
  BY <1>0, <1>1, <1>2

\* A TTL runs out, that of the code or that of the counter.
LEMMA LapseStep ==
  ASSUME IInv, LapseOTP \/ LapseAttempts
  PROVE  IInv'
<1> USE DEF IInv, mails, RedisLapse
<1>1. CASE LapseOTP
  <2> USE <1>1 DEF LapseOTP
  <2>0. /\ kv' \in [Keys -> Codes \cup (Nat \ {0}) \cup {None}]
        /\ kv'[UserOTPKey] = None /\ kv'[OTPAttemptsKey] = kv[OTPAttemptsKey]
    BY KeysApart DEF TypeOK
  <2>1. TypeOK'
    BY <2>0 DEF TypeOK
  <2>2. InHand' /\ ActivatedByMailedCode'
    BY <2>0 DEF InHand, ActivatedByMailedCode
  <2>3. Counted' /\ OneByOne'
    BY <2>0 DEF Counted, Count, OneByOne
  <2>4. LockoutEnds'
    BY <2>0, KeysApart DEF LockoutEnds
  <2> QED
    BY <2>1, <2>2, <2>3, <2>4
<1>2. CASE LapseAttempts
  <2> USE <1>2 DEF LapseAttempts
  <2>0. /\ kv' \in [Keys -> Codes \cup (Nat \ {0}) \cup {None}]
        /\ kv'[UserOTPKey] = kv[UserOTPKey] /\ kv'[OTPAttemptsKey] = None
    BY KeysApart DEF TypeOK
  <2>1. TypeOK'
    BY <2>0 DEF TypeOK
  <2>2. InHand' /\ ActivatedByMailedCode'
    BY <2>0, SMTT(30) DEF InHand, ActivatedByMailedCode
  <2>3. Counted'
    BY <2>0, OTPAssumption DEF Counted, Count
  <2>4. OneByOne' /\ LockoutEnds'
    BY <2>0 DEF OneByOne, LockoutEnds
  <2> QED
    BY <2>1, <2>2, <2>3, <2>4
<1> QED
  BY <1>1, <1>2

\* Restart: no handler finishes, and from then on a call counts as failed.
LEMMA RestartStep ==
  ASSUME IInv, Restart
  PROVE  IInv'
<1> USE DEF IInv, mails, Restart, RedisCrash
<1>1. TypeOK'
  BY DEF TypeOK, Steps
<1>2. InHand' /\ ActivatedByMailedCode'
  BY DEF InHand, ActivatedByMailedCode
<1>3. Counted' /\ OneByOne' /\ LockoutEnds'
  BY DEF Counted, OneByOne, LockoutEnds
<1> QED
  BY <1>1, <1>2, <1>3

-----------------------------------------------------------------------------
\* The invariant holds in every reachable state.
THEOREM ActivationInvariance == Spec => []IInv
<1>1. IInv /\ [Next]_vars => IInv'
  <2> SUFFICES ASSUME IInv, [Next]_vars PROVE IInv'
    OBVIOUS
  <2>1. CASE Next
    BY <2>1, RegisterStep, SendOTPStep, SendMailStep, SendStoreStep, SendResetStep,
       VerifyOTPStep, VerifyExpireStep, VerifyCompareStep, VerifyActivateStep,
       VerifyClearStep, LapseStep, RestartStep DEF Next, Continue
  <2>2. CASE UNCHANGED vars
    <3> USE <2>2 DEF vars, IInv
    <3>1. TypeOK'
      BY DEF TypeOK
    <3>2. InHand' /\ ActivatedByMailedCode' /\ Counted'
      BY DEF InHand, ActivatedByMailedCode, Counted, Count
    <3>3. OneByOne' /\ LockoutEnds'
      BY DEF OneByOne, LockoutEnds
    <3> QED
      BY <3>1, <3>2, <3>3
  <2> QED
    BY <2>1, <2>2
<1> QED
  BY InitInv, <1>1, PTL DEF Spec

\* An account is active, or can still become so, only by a code that SendOTP had
\* handed to the mailer, whatever fails between any two steps of the handlers.
THEOREM OnlyMailedCodesActivate == Spec => []ActivatedByMailedCode
<1>1. IInv => ActivatedByMailedCode
  BY DEF IInv
<1> QED
  BY <1>1, ActivationInvariance, PTL

\* VerifyOTP lets at most OTPMaxAttempts attempts through per reset of its
\* counter, with any number of handlers, while Redis answers.
THEOREM AttemptsAreBounded == Spec => []TriesBounded
<1>1. IInv => TriesBounded
  BY DEF IInv, Counted, TriesBounded
<1> QED
  BY <1>1, ActivationInvariance, PTL

\* Of SendOTPs that do not overlap, the code of the latest mail is the only one
\* that counts, while Redis answers.
THEOREM LatestMailCounts == Spec => []LatestCodeCounts
<1>1. IInv => LatestCodeCounts
  BY DEF IInv, OneByOne, Sending, LatestCodeCounts
<1> QED
  BY <1>1, ActivationInvariance, PTL

\* A counter of VerifyOTP without a TTL has a handler about to give it one,
\* while Redis answers: nobody is locked out for good.
THEOREM LockoutIsTemporary == Spec => []LockoutEnds
<1>1. IInv => LockoutEnds
  BY DEF IInv
<1> QED
  BY <1>1, ActivationInvariance, PTL

=============================================================================
