------------------------- MODULE PasswordResetProofs -------------------------
(***************************************************************************)
(* Proofs about the forgotten-password flow, for any number of handlers    *)
(* and reset tokens, any limit and any combination of faults.              *)
(***************************************************************************)
EXTENDS PasswordReset, TLAPS

RedisOK ==
    /\ kv = [k \in Keys |-> kv[k]]
    /\ \A t \in Links : kv[PasswordResetKey(t)] \in {"user", "decoy", None}
    /\ kv[UserResetIndexKey] \in Links \cup {None}
    /\ kv[ForgotAttemptsKey] \in (Nat \ {0}) \cup {None}
    /\ slipped \in BOOLEAN

HandlersOK ==
    /\ at \in [Procs -> Steps]
    /\ link \in [Procs -> Links \cup {None}]
    /\ prior \in [Procs -> Links \cup {None}]
    /\ late \in [Procs -> BOOLEAN]

TypeOK ==
    /\ RedisOK
    /\ HandlersOK
    /\ registered \in BOOLEAN
    /\ generated \subseteq Links
    /\ mailed \subseteq generated
    /\ resets \in [Links -> Nat]
    /\ used \subseteq mailed
    /\ overlapped \in BOOLEAN

\* Where a handler has a token that is not mailed yet: a decoy, or a real one.
Decoying == {"decoySet", "decoyTTL", "decoyDel"}
Issuing == {"index", "supersede", "store", "storeTTL", "reindex", "reindexTTL", "mail"}

\* Where a handler works with a token that was presented.
Resetting == {"update", "consume", "unindex", "cutoff", "cutoffTTL"}

\* A token in the making is its handler's own, and a real one is no decoy; a
\* presented one was mailed.
HandlerOK(p) ==
    /\ at[p] \in Decoying \cup Issuing => link[p] \in generated \ mailed
    /\ at[p] \in Issuing => kv[PasswordResetKey(link[p])] # "decoy"
    /\ at[p] = "supersede" => prior[p] \in Links
    /\ at[p] \in Resetting => link[p] \in mailed

Apart ==
    \A p, q \in Procs :
        /\ at[p] \in Decoying \cup Issuing /\ at[q] \in Decoying \cup Issuing
        /\ link[p] = link[q]
        => p = q

\* Only generated tokens are stored, and no decoy is ever mailed.
TokenOK(t) ==
    /\ t \notin generated => kv[PasswordResetKey(t)] = None
    /\ t \in mailed => kv[PasswordResetKey(t)] # "decoy"

Books ==
    /\ \A p \in Procs : HandlerOK(p)
    /\ Apart
    /\ \A t \in Links : TokenOK(t)

\* Without an account no handler gets beyond the decoys.
Unknown ==
    /\ UnknownAddressHarmless
    /\ ~registered => \A p \in Procs :
                          at[p] \in {"idle", "expire", "lookup"} \cup Decoying

\* While Redis answers, a token is gone once its ResetPassword is past the Del.
Consumed ==
    ~slipped =>
        /\ \A t \in used : kv[PasswordResetKey(t)] = None
        /\ \A p \in Procs : at[p] \in {"unindex", "cutoff", "cutoffTTL"} =>
                                kv[PasswordResetKey(link[p])] = None

Active(t) == kv[PasswordResetKey(t)] = "user"

\* Calls one at a time: the live token is the one the index names, unless it has
\* just been stored; about to store, and past the Del, there is none.
Sole ==
    ~slipped /\ ~overlapped =>
        /\ \A p, q \in Procs : at[p] # "idle" /\ at[q] # "idle" => p = q
        /\ \A p \in Procs, t \in Links : Active(t) =>
              /\ at[p] \notin {"store", "unindex"}
              /\ at[p] = "supersede" => t = prior[p]
              /\ at[p] \in {"storeTTL", "reindex", "update", "consume"} => t = link[p]
        /\ (\A p \in Procs : at[p] \notin {"storeTTL", "reindex"}) =>
              \A t \in Links : Active(t) => kv[UserResetIndexKey] = t

IInv ==
    /\ TypeOK
    /\ Books
    /\ Unknown
    /\ Consumed
    /\ LinkReplayFails
    /\ LinksExpire
    /\ Sole

-----------------------------------------------------------------------------
(* Keys and commands.                                                      *)

OtherKeys == {UserResetIndexKey, ForgotAttemptsKey, TokenCutoffKey}

\* Most leaves are first-order; those that need SMT say so.
USE Zenon

\* The keys of different tokens, and those of anything else, differ.
LEMMA KeysApart ==
    /\ OtherKeys \subseteq Keys
    /\ \A t \in Links : PasswordResetKey(t) \in Keys \ OtherKeys
    /\ \A s, t \in Links : PasswordResetKey(s) = PasswordResetKey(t) => s = t
    /\ UserResetIndexKey # ForgotAttemptsKey
    /\ UserResetIndexKey # TokenCutoffKey
    /\ ForgotAttemptsKey # TokenCutoffKey
  BY DEF OtherKeys, Keys, PasswordResetKey, UserResetIndexKey, ForgotAttemptsKey,
         TokenCutoffKey

\* Every key of Redis is a token's or one of the other three.
LEMMA KeysAre ==
  ASSUME NEW k \in Keys
  PROVE  k \in OtherKeys \/ \E t \in Links : k = PasswordResetKey(t)
  BY DEF Keys, OtherKeys

\* Redis has answered so far only if it answered before and this call too.
LEMMA NoSlip ==
  ASSUME NEW o, Slip(o), ~slipped'
  PROVE  ~slipped /\ o = "ok"
  BY DEF Slip

LEMMA SlipType ==
  ASSUME NEW o, Slip(o), slipped \in BOOLEAN
  PROVE  slipped' \in BOOLEAN
  BY DEF Slip

KeepsToken(t) ==
    /\ kv'[PasswordResetKey(t)] = kv[PasswordResetKey(t)]
    /\ PasswordResetKey(t) \in volatile => PasswordResetKey(t) \in volatile'

\* A command on the key of token t: no other token, and not the index, is
\* touched, and a token that is stored has a TTL.
LEMMA LinkCommand ==
  ASSUME RedisOK, LinksExpire, NEW t \in Links, NEW o,
         \/ RedisSet(PasswordResetKey(t), "user", o)
         \/ RedisSet(PasswordResetKey(t), "decoy", o)
         \/ RedisDel(PasswordResetKey(t), o)
         \/ RedisExpire(PasswordResetKey(t), o)
  PROVE  /\ RedisOK' /\ LinksExpire'
         /\ ~slipped' => ~slipped /\ o = "ok"
         /\ kv'[UserResetIndexKey] = kv[UserResetIndexKey]
         /\ \A s \in Links \ {t} : KeepsToken(s)
<1>1. Slip(o)
  BY DEF RedisSet, RedisDel, RedisExpire
<1>2. ~slipped' => ~slipped /\ o = "ok"
  BY <1>1, NoSlip
<1>3. slipped' \in BOOLEAN
  BY <1>1, SlipType DEF RedisOK
<1>4. \/ kv' = kv
      \/ kv' = [kv EXCEPT ![PasswordResetKey(t)] = "user"]
      \/ kv' = [kv EXCEPT ![PasswordResetKey(t)] = "decoy"]
      \/ kv' = [kv EXCEPT ![PasswordResetKey(t)] = None]
  BY DEF RedisSet, RedisDel, RedisExpire
<1>5. volatile' \in {volatile, volatile \cup {PasswordResetKey(t)},
                     volatile \ {PasswordResetKey(t)}}
  BY DEF RedisSet, RedisDel, RedisExpire
<1>6. /\ kv' = [k \in Keys |-> kv'[k]]
      /\ kv'[PasswordResetKey(t)] \in {"user", "decoy", None, kv[PasswordResetKey(t)]}
      /\ \A k \in Keys \ {PasswordResetKey(t)} : kv'[k] = kv[k]
  BY <1>4, KeysApart DEF RedisOK
<1>7. /\ kv'[UserResetIndexKey] = kv[UserResetIndexKey]
      /\ kv'[ForgotAttemptsKey] = kv[ForgotAttemptsKey]
      /\ \A s \in Links \ {t} : KeepsToken(s)
  BY <1>5, <1>6, KeysApart DEF KeepsToken, OtherKeys
<1>8. RedisOK'
  BY <1>3, <1>6, <1>7 DEF RedisOK, KeepsToken
<1>9. kv'[PasswordResetKey(t)] # None => PasswordResetKey(t) \in volatile'
  BY <1>6, KeysApart, SMT DEF RedisSet, RedisDel, RedisExpire, LinksExpire, Live, RedisOK
<1>10. LinksExpire'
  BY <1>7, <1>9 DEF LinksExpire, Live, KeepsToken
<1> QED
  BY <1>2, <1>7, <1>8, <1>10

\* A command on another key: no token is touched.
LEMMA OtherCommand ==
  ASSUME RedisOK, LinksExpire, NEW k \in OtherKeys, NEW o,
         \/ \E t \in Links : RedisSet(k, t, o) /\ k = UserResetIndexKey
         \/ RedisSet(k, "stamp", o) /\ k = TokenCutoffKey
         \/ RedisIncr(k, o) /\ k = ForgotAttemptsKey
         \/ RedisDel(k, o)
         \/ RedisExpire(k, o)
  PROVE  /\ RedisOK' /\ LinksExpire'
         /\ ~slipped' => ~slipped /\ o = "ok"
         /\ k # UserResetIndexKey => kv'[UserResetIndexKey] = kv[UserResetIndexKey]
         /\ \A s \in Links : KeepsToken(s)
<1>0. k \in Keys /\ \A s \in Links : PasswordResetKey(s) \in Keys \ {k}
  BY KeysApart
<1>1. Slip(o)
  BY DEF RedisSet, RedisIncr, RedisDel, RedisExpire
<1>2. ~slipped' => ~slipped /\ o = "ok"
  BY <1>1, NoSlip
<1>3. slipped' \in BOOLEAN
  BY <1>1, SlipType DEF RedisOK
<1>4. \/ kv' = kv
      \/ \E t \in Links : kv' = [kv EXCEPT ![k] = t] /\ k = UserResetIndexKey
      \/ kv' = [kv EXCEPT ![k] = "stamp"] /\ k = TokenCutoffKey
      \/ kv' = [kv EXCEPT ![k] = Count(k) + 1] /\ k = ForgotAttemptsKey
      \/ kv' = [kv EXCEPT ![k] = None]
  BY DEF RedisSet, RedisIncr, RedisDel, RedisExpire
<1>5. volatile' \in {volatile, volatile \cup {k}, volatile \ {k}}
  BY DEF RedisSet, RedisIncr, RedisDel, RedisExpire
<1>6. /\ kv' = [l \in Keys |-> kv'[l]]
      /\ \A l \in Keys \ {k} : kv'[l] = kv[l]
  BY <1>4 DEF RedisOK
<1>7. \A s \in Links : KeepsToken(s)
  BY <1>0, <1>5, <1>6 DEF KeepsToken
<1>8. kv'[UserResetIndexKey] \in Links \cup {None}
  <2>1. CASE k = UserResetIndexKey
    BY <1>0, <1>4, <2>1, KeysApart DEF RedisOK
  <2>2. CASE k # UserResetIndexKey
    BY <1>6, <2>2, KeysApart DEF RedisOK, OtherKeys
  <2> QED
    BY <2>1, <2>2
<1>9. kv'[ForgotAttemptsKey] \in (Nat \ {0}) \cup {None}
  <2>1. CASE k = ForgotAttemptsKey
    <3>1. Count(k) \in Nat
      BY <2>1 DEF Count, RedisOK
    <3> QED
      BY <1>0, <1>4, <2>1, <3>1, KeysApart, SMT DEF RedisOK
  <2>2. CASE k # ForgotAttemptsKey
    BY <1>6, <2>2, KeysApart DEF RedisOK, OtherKeys
  <2> QED
    BY <2>1, <2>2
<1>10. RedisOK'
  BY <1>3, <1>6, <1>7, <1>8, <1>9 DEF RedisOK, KeepsToken
<1>11. LinksExpire'
  BY <1>7 DEF LinksExpire, Live, KeepsToken
<1>12. k # UserResetIndexKey => kv'[UserResetIndexKey] = kv[UserResetIndexKey]
  BY <1>6, KeysApart DEF OtherKeys
<1> QED
  BY <1>2, <1>7, <1>10, <1>11, <1>12

-----------------------------------------------------------------------------
(* The handlers' own state.                                                *)

Keeps(q) ==
    at'[q] = at[q] /\ link'[q] = link[q] /\ prior'[q] = prior[q] /\ late'[q] = late[q]

\* Apart: no handler comes to hold a token in the making.
LEMMA ApartFrame ==
  ASSUME Apart,
         \A q \in Procs : at'[q] \in Decoying \cup Issuing =>
                            at[q] \in Decoying \cup Issuing /\ link'[q] = link[q]
  PROVE  Apart'
  BY DEF Apart

\* A handler that moves on keeps what it holds.
LEMMA MoveKeeps ==
  ASSUME HandlersOK, NEW p \in Procs, NEW s \in Steps, Move(p, s)
  PROVE  /\ HandlersOK'
         /\ \A q \in Procs \ {p} : Keeps(q)
         /\ at'[p] = s /\ link'[p] = link[p] /\ prior'[p] = prior[p] /\ late'[p] = late[p]
  BY DEF HandlersOK, Keeps, Move

\* One that returns holds nothing.
LEMMA ReturnKeeps ==
  ASSUME HandlersOK, NEW p \in Procs, Return(p)
  PROVE  /\ HandlersOK'
         /\ \A q \in Procs \ {p} : Keeps(q)
         /\ at'[p] = "idle" /\ ~late'[p]
<1>1. /\ at' \in [Procs -> Steps] /\ link' \in [Procs -> Links \cup {None}]
      /\ prior' \in [Procs -> Links \cup {None}] /\ late' \in [Procs -> BOOLEAN]
  BY DEF HandlersOK, Return, Steps
<1>2. \A q \in Procs \ {p} : Keeps(q)
  BY DEF HandlersOK, Keeps, Return
<1>3. at'[p] = "idle" /\ ~late'[p]
  BY DEF HandlersOK, Return
<1> QED
  BY <1>1, <1>2, <1>3 DEF HandlersOK

-----------------------------------------------------------------------------
(* What a step must leave alone for each part of the invariant.            *)

\* Books: no token is generated, mailed or stored, and a handler keeps its own.
LEMMA BooksFrame ==
  ASSUME TypeOK, Books, UNCHANGED <<generated, mailed>>,
         \A t \in Links : kv'[PasswordResetKey(t)] \in {kv[PasswordResetKey(t)], None},
         \A p \in Procs :
            /\ at'[p] \in Decoying \cup Issuing =>
                  at[p] \in Decoying \cup Issuing /\ link'[p] = link[p]
            /\ at'[p] \in Issuing => at[p] \in Issuing
            /\ at'[p] = "supersede" => prior'[p] \in Links
            /\ at'[p] \in Resetting => link'[p] \in mailed
  PROVE  Books'
<1>1. ASSUME NEW p \in Procs PROVE HandlerOK(p)'
  <2>1. HandlerOK(p)
    BY DEF Books
  <2>2. at'[p] \in Issuing => kv'[PasswordResetKey(link'[p])] # "decoy"
    BY <2>1, ResetAssumption DEF HandlerOK, TypeOK
  <2> QED
    BY <2>1, <2>2 DEF HandlerOK
<1>2. Apart'
  BY DEF Books, Apart
<1>3. \A t \in Links : TokenOK(t)'
  BY ResetAssumption DEF Books, TokenOK
<1> QED
  BY <1>1, <1>2, <1>3 DEF Books

\* Unknown: without an account nothing lasting changes.
LEMMA UnknownFrame ==
  ASSUME Unknown, registered' = registered \/ registered' = TRUE,
         ~registered =>
            /\ UNCHANGED <<mailed, resets>>
            /\ \A t \in Links :
                  kv'[PasswordResetKey(t)] \in {kv[PasswordResetKey(t)], "decoy", None}
            /\ kv'[UserResetIndexKey] \in {kv[UserResetIndexKey], None}
            /\ \A p \in Procs : at'[p] \in {"idle", "expire", "lookup"} \cup Decoying
  PROVE  Unknown'
  BY ResetAssumption, SMT DEF Unknown, UnknownAddressHarmless

\* Consumed: no mailed token is stored, and no ResetPassword gets on.
LEMMA ConsumedFrame ==
  ASSUME TypeOK, Books, Consumed, LinkReplayFails, UNCHANGED used, slipped => slipped',
         \A t \in mailed : kv'[PasswordResetKey(t)] \in {kv[PasswordResetKey(t)], None},
         \A p \in Procs :
            /\ at'[p] \in {"unindex", "cutoff", "cutoffTTL"} =>
                  at[p] \in {"unindex", "cutoff", "cutoffTTL"} /\ link'[p] = link[p]
            /\ late'[p] => late[p]
  PROVE  Consumed' /\ LinkReplayFails'
<1>1. LinkReplayFails'
  BY DEF LinkReplayFails
<1>2. Consumed'
  <2> SUFFICES ASSUME ~slipped'
               PROVE  /\ \A t \in used : kv'[PasswordResetKey(t)] = None
                      /\ \A p \in Procs : at'[p] \in {"unindex", "cutoff", "cutoffTTL"} =>
                                              kv'[PasswordResetKey(link'[p])] = None
    BY DEF Consumed
  <2>1. \A t \in used : kv'[PasswordResetKey(t)] = None
    BY DEF Consumed, TypeOK
  <2>2. ASSUME NEW p \in Procs, at'[p] \in {"unindex", "cutoff", "cutoffTTL"}
        PROVE  kv'[PasswordResetKey(link'[p])] = None
    <3>1. link[p] \in mailed /\ kv[PasswordResetKey(link[p])] = None /\ link'[p] = link[p]
      BY <2>2 DEF Books, HandlerOK, Resetting, Consumed
    <3> QED
      BY <3>1, SMT
  <2> QED
    BY <2>1, <2>2
<1> QED
  BY <1>1, <1>2

\* Sole: no token becomes live, the index stays, and no call starts or comes to
\* one of the points where what is live is known.
LEMMA SoleFrame ==
  ASSUME Sole, slipped => slipped', overlapped => overlapped',
         kv'[UserResetIndexKey] = kv[UserResetIndexKey],
         \A t \in Links : Active(t)' => Active(t),
         \A p \in Procs :
            /\ at'[p] # "idle" => at[p] # "idle"
            /\ at'[p] \in {"store", "unindex"} => at[p] \in {"store", "unindex"}
            /\ at'[p] = "supersede" => at[p] = "supersede" /\ prior'[p] = prior[p]
            /\ at'[p] \in {"storeTTL", "reindex", "update", "consume"} =>
                  at[p] \in {"storeTTL", "reindex", "update", "consume"} /\ link'[p] = link[p]
            /\ at[p] \in {"storeTTL", "reindex"} => at'[p] \in {"storeTTL", "reindex"}
  PROVE  Sole'
<1> SUFFICES ASSUME ~slipped', ~overlapped' PROVE Sole'
  BY DEF Sole
<1>1. ~slipped /\ ~overlapped
  OBVIOUS
<1>2. \A p, q \in Procs : at'[p] # "idle" /\ at'[q] # "idle" => p = q
  BY <1>1 DEF Sole
<1>3. ASSUME NEW p \in Procs, NEW t \in Links, Active(t)'
      PROVE  /\ at'[p] \notin {"store", "unindex"}
             /\ at'[p] = "supersede" => t = prior'[p]
             /\ at'[p] \in {"storeTTL", "reindex", "update", "consume"} => t = link'[p]
  BY <1>1, <1>3 DEF Sole
<1>4. ASSUME \A p \in Procs : at'[p] \notin {"storeTTL", "reindex"},
             NEW t \in Links, Active(t)'
      PROVE  kv'[UserResetIndexKey] = t
  BY <1>1, <1>4 DEF Sole
<1> QED
  BY <1>2, <1>3, <1>4 DEF Sole

\* A call that starts while no other is under way finds every handler idle.
LEMMA StartAlone ==
  ASSUME Overlap, ~overlapped'
  PROVE  ~overlapped /\ \A q \in Procs : at[q] = "idle"
  BY DEF Overlap

LEMMA OverlapType ==
  ASSUME Overlap, overlapped \in BOOLEAN
  PROVE  overlapped' \in BOOLEAN
  BY DEF Overlap

-----------------------------------------------------------------------------
(* Every step preserves the invariant.                                     *)

LEMMA InitInv == Init => IInv
<1> SUFFICES ASSUME Init PROVE IInv
  OBVIOUS
<1>0. \A k \in Keys : kv[k] = None
  BY DEF Init
<1>a. /\ \A t \in Links : kv[PasswordResetKey(t)] = None
      /\ kv[UserResetIndexKey] = None /\ kv[ForgotAttemptsKey] = None
  BY <1>0, KeysApart DEF OtherKeys
<1>1. TypeOK
  <2>1. RedisOK
    BY <1>a DEF Init, RedisOK
  <2>2. HandlersOK
    BY DEF Init, HandlersOK, Steps
  <2> QED
    BY <2>1, <2>2 DEF Init, TypeOK
<1>2. Books
  BY <1>a, ResetAssumption
     DEF Init, Books, HandlerOK, Apart, TokenOK, Decoying, Issuing, Resetting
<1>3. Unknown
  BY <1>a, ResetAssumption DEF Init, Unknown, UnknownAddressHarmless
<1>4. Consumed /\ LinkReplayFails
  BY <1>a DEF Init, Consumed, LinkReplayFails
<1>5. LinksExpire
  BY <1>a DEF LinksExpire, Live
<1>6. Sole
  BY <1>a, ResetAssumption DEF Init, Sole, Active
<1> QED
  BY <1>1, <1>2, <1>3, <1>4, <1>5, <1>6 DEF IInv

\* Register, or no step at all.
LEMMA RegisterStep ==
  ASSUME IInv, registered' = registered \/ registered' = TRUE,
         UNCHANGED <<kv, volatile, slipped, at, link, prior, late, generated, mailed, resets,
                     used, overlapped>>
  PROVE  IInv'
<1> USE DEF IInv
<1>1. TypeOK'
  BY DEF TypeOK, RedisOK, HandlersOK
<1>2. Books'
  BY DEF Books, HandlerOK, Apart, TokenOK
<1>3. Unknown'
  BY UnknownFrame DEF Unknown
<1>4. Consumed' /\ LinkReplayFails' /\ LinksExpire'
  BY DEF Consumed, LinkReplayFails, LinksExpire, Live
<1>5. Sole'
  BY SoleFrame DEF Active
<1> QED
  BY <1>1, <1>2, <1>3, <1>4, <1>5

\* ForgotPassword: only the counter changes, and the handler starts.
LEMMA ForgotPasswordStep ==
  ASSUME NEW p \in Procs, IInv, ForgotPassword(p)
  PROVE  IInv'
<1> USE DEF IInv
<1>0. PICK o \in Outcomes : RedisIncr(ForgotAttemptsKey, o)
  BY DEF ForgotPassword
<1>a. /\ at[p] = "idle" /\ Overlap
      /\ UNCHANGED <<registered, generated, mailed, resets, used>>
      /\ Move(p, "expire") \/ Move(p, "lookup") \/ Return(p)
  BY DEF ForgotPassword
<1>b. /\ HandlersOK' /\ \A q \in Procs \ {p} : Keeps(q)
      /\ at'[p] \in {"idle", "expire", "lookup"}
      /\ late'[p] => late[p]
  BY <1>a, MoveKeeps, ReturnKeeps DEF TypeOK, Steps
<1>c. /\ RedisOK' /\ LinksExpire'
      /\ ~slipped' => ~slipped /\ o = "ok"
      /\ kv'[UserResetIndexKey] = kv[UserResetIndexKey]
      /\ \A t \in Links : KeepsToken(t)
  <2>1. ForgotAttemptsKey \in OtherKeys /\ ForgotAttemptsKey # UserResetIndexKey
    BY KeysApart DEF OtherKeys
  <2> QED
    BY <1>0, <2>1, OtherCommand, SMT DEF TypeOK
<1>1. TypeOK'
  BY <1>a, <1>b, <1>c, OverlapType DEF TypeOK
<1>2. Books'
  BY <1>a, <1>b, <1>c, BooksFrame
     DEF Books, HandlerOK, Decoying, Issuing, Resetting, Keeps, KeepsToken
<1>3. Unknown'
  BY <1>a, <1>b, <1>c, UnknownFrame DEF Unknown, Keeps, KeepsToken
<1>4. Consumed' /\ LinkReplayFails'
  BY <1>a, <1>b, <1>c, ConsumedFrame DEF Keeps, KeepsToken, TypeOK
<1>5. Sole'
  <2> SUFFICES ASSUME ~slipped', ~overlapped' PROVE Sole'
    BY DEF Sole
  <2>1. ~slipped /\ ~overlapped /\ \A q \in Procs : at[q] = "idle"
    BY <1>a, <1>c, StartAlone
  <2>2. \A q \in Procs : q # p => at'[q] = "idle"
    BY <1>b, <2>1 DEF Keeps
  <2>3. \A t \in Links : Active(t)' => kv'[UserResetIndexKey] = t
    BY <1>c, <2>1 DEF Sole, Active, KeepsToken
  <2> QED
    BY <1>b, <2>2, <2>3 DEF Sole
<1> QED
  BY <1>1, <1>2, <1>3, <1>4, <1>5, <1>c

\* ForgotExpire: the same, with a handler under way.
LEMMA ForgotExpireStep ==
  ASSUME NEW p \in Procs, IInv, ForgotExpire(p)
  PROVE  IInv'
<1> USE DEF IInv
<1>0. PICK o \in Outcomes : RedisExpire(ForgotAttemptsKey, o)
  BY DEF ForgotExpire
<1>a. /\ at[p] = "expire" /\ Move(p, "lookup")
      /\ UNCHANGED <<registered, generated, mailed, resets, used, overlapped>>
  BY DEF ForgotExpire
<1>b. /\ HandlersOK' /\ \A q \in Procs \ {p} : Keeps(q)
      /\ at'[p] = "lookup" /\ link'[p] = link[p] /\ prior'[p] = prior[p] /\ late'[p] = late[p]
  BY <1>a, MoveKeeps DEF TypeOK, Steps
<1>c. /\ RedisOK' /\ LinksExpire'
      /\ ~slipped' => ~slipped /\ o = "ok"
      /\ kv'[UserResetIndexKey] = kv[UserResetIndexKey]
      /\ \A t \in Links : KeepsToken(t)
  <2>1. ForgotAttemptsKey \in OtherKeys /\ ForgotAttemptsKey # UserResetIndexKey
    BY KeysApart DEF OtherKeys
  <2> QED
    BY <1>0, <2>1, OtherCommand, SMT DEF TypeOK
<1>1. TypeOK'
  BY <1>a, <1>b, <1>c DEF TypeOK
<1>2. Books'
  BY <1>a, <1>b, <1>c, BooksFrame
     DEF Books, HandlerOK, Decoying, Issuing, Resetting, Keeps, KeepsToken
<1>3. Unknown'
  BY <1>a, <1>b, <1>c, UnknownFrame DEF Unknown, Keeps, KeepsToken
<1>4. Consumed' /\ LinkReplayFails'
  BY <1>a, <1>b, <1>c, ConsumedFrame DEF Keeps, KeepsToken, TypeOK
<1>5. Sole'
  BY <1>a, <1>b, <1>c, SoleFrame DEF Keeps, KeepsToken, Active
<1> QED
  BY <1>1, <1>2, <1>3, <1>4, <1>5, <1>c

\* A handler that only returns, from a point where nothing depends on it.
LEMMA ReturnStep ==
  ASSUME NEW p \in Procs, IInv, Return(p), at[p] \notin {"storeTTL", "reindex"},
         UNCHANGED <<kv, volatile, slipped, registered, generated, mailed, used, overlapped>>,
         resets' \in [Links -> Nat], ~registered => UNCHANGED resets
  PROVE  IInv'
<1> USE DEF IInv
<1>b. /\ HandlersOK' /\ \A q \in Procs \ {p} : Keeps(q)
      /\ at'[p] = "idle" /\ ~late'[p]
  BY ReturnKeeps DEF TypeOK
<1>1. TypeOK'
  BY <1>b DEF TypeOK, RedisOK
<1>2. Books'
  BY <1>b, BooksFrame DEF Books, HandlerOK, Decoying, Issuing, Resetting, Keeps
<1>3. Unknown'
  BY <1>b, UnknownFrame DEF Unknown, Keeps
<1>4. Consumed' /\ LinkReplayFails'
  BY <1>b, ConsumedFrame DEF Keeps
<1>5. Sole'
  BY <1>b, SoleFrame DEF Keeps, Active
<1>6. LinksExpire'
  BY DEF LinksExpire, Live
<1> QED
  BY <1>1, <1>2, <1>3, <1>4, <1>5, <1>6

\* ForgotLookup: the new token is nobody else's, and nothing is stored for it.
LEMMA ForgotLookupStep ==
  ASSUME NEW p \in Procs, IInv, ForgotLookup(p)
  PROVE  IInv'
<1> USE DEF IInv
<1>a. /\ at[p] = "lookup"
      /\ UNCHANGED <<kv, volatile, slipped, registered, mailed, resets, used, overlapped>>
  BY DEF ForgotLookup, redis
<1>1. CASE Return(p) /\ UNCHANGED generated
  BY <1>a, <1>1, ReturnStep DEF TypeOK
<1>2. ASSUME NEW t \in Links \ generated, generated' = generated \cup {t},
             link' = [link EXCEPT ![p] = t],
             \/ registered /\ at' = [at EXCEPT ![p] = "index"]
             \/ at' = [at EXCEPT ![p] = "decoySet"],
             UNCHANGED <<prior, late>>
      PROVE  IInv'
  <2>a. /\ HandlersOK' /\ \A q \in Procs \ {p} : Keeps(q)
        /\ link'[p] = t /\ late'[p] = late[p]
        /\ at'[p] \in {"index", "decoySet"} /\ (~registered => at'[p] = "decoySet")
    BY <1>2 DEF TypeOK, HandlersOK, Keeps, Steps
  <2>1. TypeOK'
    BY <1>a, <1>2, <2>a DEF TypeOK, RedisOK
  <2>2. Books'
    <3>1. HandlerOK(p)'
      BY <1>a, <1>2, <2>a, ResetAssumption, SMT
         DEF Books, TokenOK, HandlerOK, Decoying, Issuing, Resetting, TypeOK
    <3>2. ASSUME NEW q \in Procs \ {p} PROVE HandlerOK(q)'
      BY <1>a, <1>2, <2>a, SMT DEF Books, HandlerOK, Keeps
    <3>3. Apart'
      BY <1>2, <2>a, SMT DEF Books, Apart, HandlerOK, Keeps
    <3>4. \A s \in Links : TokenOK(s)'
      BY <1>a, <1>2 DEF Books, TokenOK
    <3> QED
      BY <3>1, <3>2, <3>3, <3>4 DEF Books
  <2>3. Unknown'
    BY <1>a, <2>a, UnknownFrame DEF Unknown, Keeps, Decoying
  <2>4. Consumed' /\ LinkReplayFails'
    BY <1>a, <2>a, ConsumedFrame DEF Keeps
  <2>5. Sole'
    BY <1>a, <2>a, SoleFrame DEF Keeps, Active
  <2>6. LinksExpire'
    BY <1>a DEF LinksExpire, Live
  <2> QED
    BY <2>1, <2>2, <2>3, <2>4, <2>5, <2>6
<1> QED
  BY <1>1, <1>2 DEF ForgotLookup

\* Decoy: the handler writes its own token's key, which nobody was mailed.
LEMMA DecoyStep ==
  ASSUME NEW p \in Procs, IInv, Decoy(p)
  PROVE  IInv'
<1> USE DEF IInv
<1>0. PICK o \in Outcomes :
         LET k == PasswordResetKey(link[p]) IN
         \/ at[p] = "decoySet" /\ RedisSet(k, "decoy", o) /\ Move(p, "decoyTTL")
         \/ at[p] = "decoyTTL" /\ RedisExpire(k, o) /\ Move(p, "decoyDel")
         \/ at[p] = "decoyDel" /\ RedisDel(k, o) /\ Return(p)
  BY DEF Decoy
<1>a. /\ at[p] \in Decoying
      /\ UNCHANGED <<registered, generated, mailed, resets, used, overlapped>>
  BY <1>0 DEF Decoy, Decoying
<1>b. /\ HandlersOK' /\ \A q \in Procs \ {p} : Keeps(q)
      /\ at'[p] \in Decoying \cup {"idle"} /\ (late'[p] => late[p])
      /\ at'[p] # "idle" => link'[p] = link[p]
  BY <1>0, MoveKeeps, ReturnKeeps DEF TypeOK, Steps, Decoying
<1>l. link[p] \in Links /\ link[p] \in generated \ mailed
  BY <1>a DEF Books, HandlerOK, TypeOK
<1>c. /\ RedisOK' /\ LinksExpire'
      /\ ~slipped' => ~slipped
      /\ kv'[UserResetIndexKey] = kv[UserResetIndexKey]
      /\ \A s \in Links \ {link[p]} : KeepsToken(s)
  BY <1>0, <1>l, LinkCommand DEF TypeOK
<1>d. kv'[PasswordResetKey(link[p])] \in {"decoy", None, kv[PasswordResetKey(link[p])]}
  BY <1>0, <1>l, KeysApart DEF TypeOK, RedisOK, RedisSet, RedisExpire, RedisDel
<1>1. TypeOK'
  BY <1>a, <1>b, <1>c DEF TypeOK
<1>2. Books'
  <2>1. HandlerOK(p)'
    BY <1>a, <1>b, <1>l DEF HandlerOK, Decoying, Issuing, Resetting
  <2>2. ASSUME NEW q \in Procs \ {p} PROVE HandlerOK(q)'
    <3>1. HandlerOK(q) /\ Keeps(q)
      BY <1>b DEF Books
    <3>2. at[q] \in Issuing => link[q] \in Links \ {link[p]}
      BY <1>a, <3>1 DEF Books, Apart, HandlerOK, TypeOK
    <3> QED
      BY <1>a, <1>c, <3>1, <3>2 DEF HandlerOK, Keeps, KeepsToken
  <2>3. Apart'
    <3>1. Apart
      BY DEF Books
    <3>2. at'[p] \in Decoying \cup Issuing =>
              at[p] \in Decoying \cup Issuing /\ link'[p] = link[p]
      BY <1>a, <1>b DEF Decoying, Issuing
    <3>3. \A q \in Procs \ {p} : at'[q] = at[q] /\ link'[q] = link[q]
      BY <1>b DEF Keeps
    <3> HIDE DEF IInv
    <3> QED
      BY <3>1, <3>2, <3>3, ApartFrame
  <2>4. ASSUME NEW s \in Links PROVE TokenOK(s)'
    BY <1>a, <1>c, <1>l DEF Books, TokenOK, KeepsToken
  <2> QED
    BY <2>1, <2>2, <2>3, <2>4 DEF Books
<1>3. Unknown'
  BY <1>a, <1>b, <1>c, <1>d, UnknownFrame DEF Unknown, Keeps, KeepsToken
<1>4. Consumed' /\ LinkReplayFails'
  BY <1>a, <1>b, <1>c, <1>l, ConsumedFrame DEF Keeps, KeepsToken, TypeOK, Decoying
<1>5. Sole'
  <2>1. \A t \in Links : Active(t)' => Active(t)
    BY <1>c, <1>d, ResetAssumption DEF Active, KeepsToken
  <2> QED
    BY <1>a, <1>b, <1>c, <2>1, SoleFrame DEF Keeps, Decoying
<1> QED
  BY <1>1, <1>2, <1>3, <1>4, <1>5, <1>c

\* A handler with a real token in the making has an account to make it for.
LEMMA IssuingRegistered ==
  ASSUME NEW p \in Procs, IInv, at[p] \in Issuing \cup Resetting
  PROVE  registered
  BY DEF IInv, Unknown, Decoying, Issuing, Resetting

\* ForgotIndex: what the index names is what is live, if anything is.
LEMMA ForgotIndexStep ==
  ASSUME NEW p \in Procs, IInv, ForgotIndex(p)
  PROVE  IInv'
<1> USE DEF IInv
<1>a. /\ at[p] = "index" /\ registered
      /\ UNCHANGED <<kv, volatile, registered, generated, mailed, resets, used, overlapped>>
      /\ UNCHANGED slipped \/ slipped' = TRUE
  <2>1. Slip("lost") => slipped' = TRUE
    BY DEF Slip
  <2>2. registered
    BY IssuingRegistered DEF ForgotIndex, Issuing
  <2> QED
    BY <2>1, <2>2 DEF ForgotIndex, redis
<1>b. /\ HandlersOK' /\ \A q \in Procs \ {p} : Keeps(q)
      /\ link'[p] = link[p] /\ late'[p] = late[p]
      /\ \/ at'[p] = "supersede" /\ prior'[p] = kv[UserResetIndexKey] /\ prior'[p] # None
         \/ at'[p] = "store" /\ kv[UserResetIndexKey] = None
         \/ at'[p] = "store" /\ slipped' = TRUE
  <2>1. CASE /\ kv[UserResetIndexKey] # None
             /\ prior' = [prior EXCEPT ![p] = kv[UserResetIndexKey]]
             /\ at' = [at EXCEPT ![p] = "supersede"]
             /\ UNCHANGED <<link, late>>
    BY <2>1 DEF TypeOK, RedisOK, HandlersOK, Keeps, Steps
  <2>2. CASE kv[UserResetIndexKey] = None /\ Move(p, "store")
    BY <2>2, MoveKeeps DEF TypeOK, Steps
  <2>3. CASE Slip("lost") /\ Move(p, "store")
    <3>1. slipped' = TRUE
      BY <2>3 DEF Slip
    <3> QED
      BY <2>3, <3>1, MoveKeeps DEF TypeOK, Steps
  <2> QED
    BY <2>1, <2>2, <2>3 DEF ForgotIndex
<1>1. TypeOK'
  BY <1>a, <1>b DEF TypeOK, RedisOK
<1>2. Books'
  <2>1. at'[p] = "supersede" => prior'[p] \in Links
    BY <1>b DEF TypeOK, RedisOK
  <2> QED
    BY <1>a, <1>b, <2>1, BooksFrame DEF Books, HandlerOK, Decoying, Issuing, Resetting, Keeps
<1>3. Unknown'
  BY <1>a, UnknownFrame
<1>4. Consumed' /\ LinkReplayFails'
  BY <1>a, <1>b, ConsumedFrame, SMT DEF Keeps
<1>5. Sole'
  <2> SUFFICES ASSUME ~slipped', ~overlapped' PROVE Sole'
    BY DEF Sole
  <2>1. ~slipped /\ ~overlapped
    BY <1>a, SMT
  <2>2. \A q \in Procs : q # p => at[q] = "idle" /\ at'[q] = "idle"
    BY <1>a, <1>b, <2>1 DEF Sole, Keeps
  <2>3. \A t \in Links : Active(t)' => kv[UserResetIndexKey] = t
    BY <1>a, <2>1, <2>2 DEF Sole, Active
  <2>4. \A t \in Links : Active(t)' => at'[p] = "supersede" /\ prior'[p] = t
    BY <1>b, <2>3, ResetAssumption
  <2> QED
    BY <1>a, <1>b, <2>2, <2>3, <2>4 DEF Sole
<1>6. LinksExpire'
  BY <1>a DEF LinksExpire, Live
<1> QED
  BY <1>1, <1>2, <1>3, <1>4, <1>5, <1>6

\* Supersede: the token the index named was the only one live.
LEMMA SupersedeStep ==
  ASSUME NEW p \in Procs, IInv, Supersede(p)
  PROVE  IInv'
<1> USE DEF IInv
<1>0. PICK o \in Outcomes : RedisDel(PasswordResetKey(prior[p]), o)
  BY DEF Supersede
<1>a. /\ at[p] = "supersede" /\ Move(p, "store")
      /\ UNCHANGED <<registered, generated, mailed, resets, used, overlapped>>
  BY DEF Supersede
<1>r. registered /\ prior[p] \in Links
  BY <1>a, IssuingRegistered DEF Issuing, Books, HandlerOK
<1>b. /\ HandlersOK' /\ \A q \in Procs \ {p} : Keeps(q)
      /\ at'[p] = "store" /\ link'[p] = link[p] /\ late'[p] = late[p]
  BY <1>a, MoveKeeps DEF TypeOK, Steps
<1>c. /\ RedisOK' /\ LinksExpire'
      /\ ~slipped' => ~slipped /\ o = "ok"
      /\ \A s \in Links \ {prior[p]} : KeepsToken(s)
  <2>1. RedisOK /\ LinksExpire
    BY DEF TypeOK
  <2> HIDE DEF IInv
  <2> QED
    BY <1>0, <1>r, <2>1, LinkCommand, SMT
<1>d. /\ kv'[PasswordResetKey(prior[p])] \in {None, kv[PasswordResetKey(prior[p])]}
      /\ o = "ok" => kv'[PasswordResetKey(prior[p])] = None
  BY <1>0, <1>r, KeysApart DEF TypeOK, RedisOK, RedisDel
<1>e. \A t \in Links : kv'[PasswordResetKey(t)] \in {kv[PasswordResetKey(t)], None}
  BY <1>c, <1>d DEF KeepsToken
<1>1. TypeOK'
  BY <1>a, <1>b, <1>c DEF TypeOK
<1>2. Books'
  BY <1>a, <1>b, <1>e, BooksFrame DEF Books, HandlerOK, Decoying, Issuing, Resetting, Keeps
<1>3. Unknown'
  BY <1>a, <1>r, UnknownFrame
<1>4. Consumed' /\ LinkReplayFails'
  BY <1>a, <1>b, <1>c, <1>e, ConsumedFrame DEF Keeps, TypeOK
<1>5. Sole'
  <2> SUFFICES ASSUME ~slipped', ~overlapped' PROVE Sole'
    BY DEF Sole
  <2>1. ~slipped /\ ~overlapped /\ o = "ok"
    BY <1>a, <1>c
  <2>2. \A q \in Procs : q # p => at'[q] = "idle"
    BY <1>a, <1>b, <2>1 DEF Sole, Keeps
  <2>3. \A t \in Links : ~Active(t)'
    BY <1>a, <1>c, <1>d, <2>1, ResetAssumption DEF Sole, Active, KeepsToken
  <2> QED
    BY <1>b, <2>2, <2>3 DEF Sole
<1> QED
  BY <1>1, <1>2, <1>3, <1>4, <1>5, <1>c

\* StoreLink: the token's key is set, where no other token is live.
LEMMA StoreLinkStep ==
  ASSUME NEW p \in Procs, IInv, StoreLink(p)
  PROVE  IInv'
<1> USE DEF IInv
<1>0. PICK o \in Outcomes :
         LET k == PasswordResetKey(link[p]) IN
         \/ at[p] = "store" /\ RedisSet(k, "user", o)
               /\ IF o = "ok" THEN Move(p, "storeTTL") ELSE Return(p)
         \/ at[p] = "storeTTL" /\ RedisExpire(k, o) /\ Move(p, "reindex")
  BY DEF StoreLink
<1>a. /\ at[p] \in {"store", "storeTTL"}
      /\ UNCHANGED <<registered, generated, mailed, resets, used, overlapped>>
  BY <1>0 DEF StoreLink
<1>r. registered /\ link[p] \in Links /\ link[p] \in generated \ mailed
  BY <1>a, IssuingRegistered DEF Issuing, Books, HandlerOK, TypeOK
<1>b. /\ HandlersOK' /\ \A q \in Procs \ {p} : Keeps(q)
      /\ (late'[p] => late[p])
      /\ \/ at'[p] = "storeTTL" /\ link'[p] = link[p] /\ at[p] = "store"
         \/ at'[p] = "reindex" /\ link'[p] = link[p] /\ at[p] = "storeTTL"
         \/ at'[p] = "idle" /\ o # "ok" /\ at[p] = "store"
  BY <1>0, MoveKeeps, ReturnKeeps DEF TypeOK, Steps
<1>c. /\ RedisOK' /\ LinksExpire'
      /\ ~slipped' => ~slipped /\ o = "ok"
      /\ kv'[UserResetIndexKey] = kv[UserResetIndexKey]
      /\ \A s \in Links \ {link[p]} : KeepsToken(s)
  <2>1. RedisOK /\ LinksExpire
    BY DEF TypeOK
  <2> HIDE DEF IInv
  <2> QED
    BY <1>0, <1>r, <2>1, LinkCommand
<1>d. kv'[PasswordResetKey(link[p])] \in {"user", kv[PasswordResetKey(link[p])]}
  BY <1>0, <1>r, KeysApart DEF TypeOK, RedisOK, RedisSet, RedisExpire
<1>1. TypeOK'
  BY <1>a, <1>b, <1>c DEF TypeOK
<1>2. Books'
  <2>1. HandlerOK(p)'
    BY <1>a, <1>b, <1>d, <1>r DEF Books, HandlerOK, Decoying, Issuing, Resetting
  <2>2. ASSUME NEW q \in Procs \ {p} PROVE HandlerOK(q)'
    <3>1. HandlerOK(q) /\ Keeps(q)
      BY <1>b DEF Books
    <3>2. at[q] \in Issuing => link[q] \in Links \ {link[p]}
      BY <1>a, <3>1 DEF Books, Apart, HandlerOK, TypeOK, Issuing
    <3> QED
      BY <1>a, <1>c, <3>1, <3>2 DEF HandlerOK, Keeps, KeepsToken
  <2>3. Apart'
    <3>1. Apart
      BY DEF Books
    <3>2. at'[p] \in Decoying \cup Issuing =>
              at[p] \in Decoying \cup Issuing /\ link'[p] = link[p]
      BY <1>a, <1>b DEF Decoying, Issuing
    <3>3. \A q \in Procs \ {p} : at'[q] = at[q] /\ link'[q] = link[q]
      BY <1>b DEF Keeps
    <3> HIDE DEF IInv
    <3> QED
      BY <3>1, <3>2, <3>3, ApartFrame
  <2>4. ASSUME NEW s \in Links PROVE TokenOK(s)'
    BY <1>a, <1>c, <1>r DEF Books, TokenOK, KeepsToken
  <2> QED
    BY <2>1, <2>2, <2>3, <2>4 DEF Books
<1>3. Unknown'
  BY <1>a, <1>r, UnknownFrame
<1>4. Consumed' /\ LinkReplayFails'
  BY <1>a, <1>b, <1>c, <1>r, ConsumedFrame DEF Keeps, KeepsToken, TypeOK
<1>5. Sole'
  <2> SUFFICES ASSUME ~slipped', ~overlapped' PROVE Sole'
    BY DEF Sole
  <2>1. ~slipped /\ ~overlapped /\ o = "ok"
    BY <1>a, <1>c
  <2>2. \A q \in Procs : q # p => at'[q] = "idle"
    BY <1>a, <1>b, <2>1 DEF Sole, Keeps
  <2>3. \A t \in Links : Active(t)' => t = link[p]
    BY <1>a, <1>c, <2>1 DEF Sole, Active, KeepsToken
  <2> QED
    BY <1>b, <2>1, <2>2, <2>3 DEF Sole
<1> QED
  BY <1>1, <1>2, <1>3, <1>4, <1>5, <1>c

\* StoreIndex: the index names the token that has just been stored.
LEMMA StoreIndexStep ==
  ASSUME NEW p \in Procs, IInv, StoreIndex(p)
  PROVE  IInv'
<1> USE DEF IInv
<1>0. PICK o \in Outcomes :
         \/ at[p] = "reindex" /\ RedisSet(UserResetIndexKey, link[p], o)
               /\ Move(p, IF o = "ok" THEN "reindexTTL" ELSE "mail")
         \/ at[p] = "reindexTTL" /\ RedisExpire(UserResetIndexKey, o) /\ Move(p, "mail")
  BY DEF StoreIndex
<1>a. /\ at[p] \in {"reindex", "reindexTTL"}
      /\ UNCHANGED <<registered, generated, mailed, resets, used, overlapped>>
  BY <1>0 DEF StoreIndex
<1>r. registered /\ link[p] \in Links
  BY <1>a, IssuingRegistered DEF Issuing, Books, HandlerOK, TypeOK
<1>b. /\ HandlersOK' /\ \A q \in Procs \ {p} : Keeps(q)
      /\ at'[p] \in {"reindexTTL", "mail"} /\ link'[p] = link[p] /\ late'[p] = late[p]
  BY <1>0, MoveKeeps DEF TypeOK, Steps
<1>c. /\ RedisOK' /\ LinksExpire'
      /\ ~slipped' => ~slipped /\ o = "ok"
      /\ \A s \in Links : KeepsToken(s)
  <2>1. UserResetIndexKey \in OtherKeys
    BY DEF OtherKeys
  <2> QED
    BY <1>0, <1>r, <2>1, OtherCommand DEF TypeOK
<1>d. o = "ok" => kv'[UserResetIndexKey] = IF at[p] = "reindex" THEN link[p]
                                           ELSE kv[UserResetIndexKey]
  BY <1>0, KeysApart DEF TypeOK, RedisOK, RedisSet, RedisExpire, OtherKeys
<1>1. TypeOK'
  BY <1>a, <1>b, <1>c DEF TypeOK
<1>2. Books'
  BY <1>a, <1>b, <1>c, BooksFrame
     DEF Books, HandlerOK, Decoying, Issuing, Resetting, Keeps, KeepsToken
<1>3. Unknown'
  BY <1>a, <1>r, UnknownFrame
<1>4. Consumed' /\ LinkReplayFails'
  BY <1>a, <1>b, <1>c, ConsumedFrame DEF Keeps, KeepsToken, TypeOK
<1>5. Sole'
  <2> SUFFICES ASSUME ~slipped', ~overlapped' PROVE Sole'
    BY DEF Sole
  <2>1. ~slipped /\ ~overlapped /\ o = "ok"
    BY <1>a, <1>c
  <2>2. \A q \in Procs : q # p => at[q] = "idle" /\ at'[q] = "idle"
    BY <1>a, <1>b, <2>1 DEF Sole, Keeps
  <2>3. \A t \in Links : Active(t)' => Active(t)
    BY <1>c DEF Active, KeepsToken
  <2>4. \A t \in Links : Active(t)' => kv'[UserResetIndexKey] = t
    BY <1>a, <1>d, <2>1, <2>2, <2>3 DEF Sole
  <2> QED
    BY <1>b, <2>2, <2>4 DEF Sole
<1> QED
  BY <1>1, <1>2, <1>3, <1>4, <1>5, <1>c

\* MailLink: the token leaves its handler's hands.
LEMMA MailLinkStep ==
  ASSUME NEW p \in Procs, IInv, MailLink(p)
  PROVE  IInv'
<1> USE DEF IInv
<1>a. /\ at[p] = "mail" /\ Return(p)
      /\ mailed' = mailed \cup {link[p]} \/ mailed' = mailed
      /\ UNCHANGED <<kv, volatile, slipped, registered, generated, resets, used, overlapped>>
  BY DEF MailLink, redis
<1>r. registered /\ link[p] \in Links /\ link[p] \in generated \ mailed
  BY <1>a, IssuingRegistered DEF Issuing, Books, HandlerOK, TypeOK
<1>b. /\ HandlersOK' /\ \A q \in Procs \ {p} : Keeps(q)
      /\ at'[p] = "idle" /\ ~late'[p]
  BY <1>a, ReturnKeeps DEF TypeOK
<1>1. TypeOK'
  BY <1>a, <1>b, <1>r DEF TypeOK, RedisOK
<1>2. Books'
  <2>1. HandlerOK(p)'
    BY <1>b DEF HandlerOK, Decoying, Issuing, Resetting
  <2>2. ASSUME NEW q \in Procs \ {p} PROVE HandlerOK(q)'
    <3>1. HandlerOK(q) /\ Keeps(q)
      BY <1>b DEF Books
    <3>2. at[q] \in Decoying \cup Issuing => link[q] # link[p]
      BY <1>a DEF Books, Apart, Issuing
    <3> QED
      BY <1>a, <3>1, <3>2 DEF HandlerOK, Keeps
  <2>3. Apart'
    <3>1. Apart
      BY DEF Books
    <3>2. at'[p] \in Decoying \cup Issuing =>
              at[p] \in Decoying \cup Issuing /\ link'[p] = link[p]
      BY <1>b DEF Decoying, Issuing
    <3>3. \A q \in Procs \ {p} : at'[q] = at[q] /\ link'[q] = link[q]
      BY <1>b DEF Keeps
    <3> HIDE DEF IInv
    <3> QED
      BY <3>1, <3>2, <3>3, ApartFrame
  <2>4. kv[PasswordResetKey(link[p])] # "decoy"
    BY <1>a DEF Books, HandlerOK, Issuing
  <2>5. ASSUME NEW s \in Links PROVE TokenOK(s)'
    BY <1>a, <2>4 DEF Books, TokenOK
  <2> QED
    BY <2>1, <2>2, <2>3, <2>5 DEF Books
<1>3. Unknown'
  BY <1>a, <1>r, UnknownFrame
<1>4. Consumed' /\ LinkReplayFails'
  BY <1>a, <1>b, ConsumedFrame DEF Keeps
<1>5. Sole'
  BY <1>a, <1>b, SoleFrame DEF Keeps, Active
<1>6. LinksExpire'
  BY <1>a DEF LinksExpire, Live
<1> QED
  BY <1>1, <1>2, <1>3, <1>4, <1>5, <1>6

\* ResetPassword: a token that is found was not used, and calls one at a time
\* it is the only one live.
LEMMA ResetPasswordStep ==
  ASSUME NEW p \in Procs, NEW t \in Links, IInv, ResetPassword(p, t)
  PROVE  IInv'
<1> USE DEF IInv
<1>a. /\ at[p] = "idle" /\ t \in mailed /\ kv[PasswordResetKey(t)] # None /\ Overlap
      /\ UNCHANGED <<kv, volatile, slipped, registered, prior, generated, mailed, resets, used>>
  BY DEF ResetPassword, redis
<1>b. /\ HandlersOK' /\ \A q \in Procs \ {p} : Keeps(q)
      /\ at'[p] = "update" /\ link'[p] = t /\ (late'[p] => t \in used)
  <2>1. at' \in [Procs -> Steps] /\ link' \in [Procs -> Links \cup {None}]
    BY DEF ResetPassword, TypeOK, HandlersOK, Steps
  <2>2. late' \in [Procs -> BOOLEAN]
    BY SMT DEF ResetPassword, TypeOK, HandlersOK
  <2>3. \A q \in Procs \ {p} : Keeps(q)
    BY DEF ResetPassword, TypeOK, HandlersOK, Keeps
  <2>4. at'[p] = "update" /\ link'[p] = t /\ (late'[p] => t \in used)
    BY DEF ResetPassword, TypeOK, HandlersOK
  <2> QED
    BY <1>a, <2>1, <2>2, <2>3, <2>4 DEF TypeOK, HandlersOK
<1>r. registered /\ Active(t)
  <2>1. registered
    BY <1>a DEF Unknown, UnknownAddressHarmless
  <2> QED
    BY <1>a, <2>1 DEF Active, Books, TokenOK, TypeOK, RedisOK
<1>1. TypeOK'
  BY <1>a, <1>b, OverlapType DEF TypeOK, RedisOK
<1>2. Books'
  BY <1>a, <1>b, BooksFrame DEF Books, HandlerOK, Decoying, Issuing, Resetting, Keeps
<1>3. Unknown'
  BY <1>a, <1>r, UnknownFrame
<1>4. LinkReplayFails'
  BY <1>a, <1>b DEF LinkReplayFails, Consumed, Keeps
<1>5. Consumed'
  BY <1>a, <1>b DEF Consumed, Keeps
<1>6. Sole'
  <2> SUFFICES ASSUME ~slipped', ~overlapped' PROVE Sole'
    BY DEF Sole
  <2>1. ~slipped /\ ~overlapped /\ \A q \in Procs : at[q] = "idle"
    BY <1>a, StartAlone
  <2>2. \A q \in Procs : q # p => at'[q] = "idle"
    BY <1>b, <2>1 DEF Keeps
  <2>3. \A s \in Links : Active(s)' => kv'[UserResetIndexKey] = s
    BY <1>a, <2>1 DEF Sole, Active
  <2>4. \A s \in Links : Active(s)' => s = t
    BY <1>a, <1>r, <2>3 DEF Active
  <2> QED
    BY <1>b, <2>2, <2>3, <2>4 DEF Sole
<1>7. LinksExpire'
  BY <1>a DEF LinksExpire, Live
<1> QED
  BY <1>1, <1>2, <1>3, <1>4, <1>5, <1>6, <1>7

\* ResetUpdate: only the password changes.
LEMMA ResetUpdateStep ==
  ASSUME NEW p \in Procs, IInv, ResetUpdate(p)
  PROVE  IInv'
<1> USE DEF IInv
<1>a. /\ at[p] = "update"
      /\ Return(p) \/ Move(p, "consume")
      /\ UNCHANGED <<kv, volatile, slipped, registered, generated, mailed, used, overlapped>>
  BY DEF ResetUpdate, redis
<1>r. registered
  BY <1>a, IssuingRegistered DEF Resetting
<1>s. resets' \in [Links -> Nat]
  BY SMT DEF ResetUpdate, TypeOK
<1>1. CASE Return(p)
  BY <1>a, <1>r, <1>s, <1>1, ReturnStep
<1>2. CASE Move(p, "consume")
  <2>b. /\ HandlersOK' /\ \A q \in Procs \ {p} : Keeps(q)
        /\ at'[p] = "consume" /\ link'[p] = link[p] /\ late'[p] = late[p]
    BY <1>2, MoveKeeps DEF TypeOK, Steps
  <2>1. TypeOK'
    BY <1>a, <1>s, <2>b DEF TypeOK, RedisOK
  <2>2. Books'
    BY <1>a, <2>b, BooksFrame DEF Books, HandlerOK, Decoying, Issuing, Resetting, Keeps
  <2>3. Unknown'
    BY <1>a, <1>r, UnknownFrame
  <2>4. Consumed' /\ LinkReplayFails'
    BY <1>a, <2>b, ConsumedFrame DEF Keeps
  <2>5. Sole'
    BY <1>a, <2>b, SoleFrame DEF Keeps, Active
  <2>6. LinksExpire'
    BY <1>a DEF LinksExpire, Live
  <2> QED
    BY <2>1, <2>2, <2>3, <2>4, <2>5, <2>6
<1> QED
  BY <1>a, <1>1, <1>2

\* Consume: past the Del the token is gone, and with it the only live one.
LEMMA ConsumeStep ==
  ASSUME NEW p \in Procs, IInv, Consume(p)
  PROVE  IInv'
<1> USE DEF IInv
<1>0. PICK o \in Outcomes :
         \/ at[p] = "consume" /\ RedisDel(PasswordResetKey(link[p]), o) /\ Move(p, "unindex")
         \/ at[p] = "unindex" /\ RedisDel(UserResetIndexKey, o) /\ Move(p, "cutoff")
  BY DEF Consume
<1>a. /\ at[p] \in {"consume", "unindex"}
      /\ UNCHANGED <<registered, generated, mailed, resets, used, overlapped>>
  BY <1>0 DEF Consume
<1>r. registered /\ link[p] \in Links /\ link[p] \in mailed
  BY <1>a, IssuingRegistered DEF Resetting, Books, HandlerOK, TypeOK
<1>b. /\ HandlersOK' /\ \A q \in Procs \ {p} : Keeps(q)
      /\ at'[p] \in {"unindex", "cutoff"} /\ link'[p] = link[p] /\ late'[p] = late[p]
  BY <1>0, MoveKeeps DEF TypeOK, Steps
<1>c. /\ RedisOK' /\ LinksExpire'
      /\ ~slipped' => ~slipped /\ o = "ok"
      /\ \A s \in Links \ {link[p]} : KeepsToken(s)
  <2>1. UserResetIndexKey \in OtherKeys
    BY DEF OtherKeys
  <2>2. CASE at[p] = "consume"
    BY <1>0, <1>r, <2>2, LinkCommand DEF TypeOK
  <2>3. CASE at[p] = "unindex"
    BY <1>0, <2>1, <2>3, OtherCommand DEF TypeOK
  <2> QED
    BY <1>a, <2>2, <2>3
<1>d. /\ kv'[PasswordResetKey(link[p])] \in {None, kv[PasswordResetKey(link[p])]}
      /\ o = "ok" /\ at[p] = "consume" => kv'[PasswordResetKey(link[p])] = None
  <2>1. PasswordResetKey(link[p]) \in Keys /\ PasswordResetKey(link[p]) # UserResetIndexKey
    BY <1>r, KeysApart DEF OtherKeys
  <2> QED
    BY <1>0, <2>1 DEF TypeOK, RedisOK, RedisDel
<1>e. \A t \in Links : kv'[PasswordResetKey(t)] \in {kv[PasswordResetKey(t)], None}
  BY <1>c, <1>d DEF KeepsToken
<1>1. TypeOK'
  BY <1>a, <1>b, <1>c DEF TypeOK
<1>2. Books'
  BY <1>a, <1>b, <1>e, <1>r, BooksFrame
     DEF Books, HandlerOK, Decoying, Issuing, Resetting, Keeps
<1>3. Unknown'
  BY <1>a, <1>r, UnknownFrame
<1>4. LinkReplayFails'
  BY <1>b, <1>c DEF LinkReplayFails, Keeps
<1>5. Consumed'
  <2> SUFFICES ASSUME ~slipped' PROVE Consumed'
    BY DEF Consumed
  <2>1. ~slipped /\ o = "ok"
    BY <1>c
  <2>2. kv'[PasswordResetKey(link[p])] = None
    BY <1>a, <1>d, <2>1 DEF Consumed
  <2>3. \A t \in used : kv'[PasswordResetKey(t)] = None
    BY <1>e, <2>1 DEF Consumed, TypeOK
  <2>4. ASSUME NEW q \in Procs \ {p}, at'[q] \in {"unindex", "cutoff", "cutoffTTL"}
        PROVE  kv'[PasswordResetKey(link'[q])] = None
    <3>1. link'[q] \in mailed /\ kv[PasswordResetKey(link'[q])] = None
      BY <1>b, <2>1, <2>4 DEF Consumed, Books, HandlerOK, Resetting, Keeps
    <3> QED
      BY <1>e, <3>1 DEF TypeOK
  <2> QED
    BY <1>a, <1>b, <2>2, <2>3, <2>4 DEF Consumed
<1>6. Sole'
  <2> SUFFICES ASSUME ~slipped', ~overlapped' PROVE Sole'
    BY DEF Sole
  <2>1. ~slipped /\ ~overlapped /\ o = "ok"
    BY <1>a, <1>c
  <2>2. \A q \in Procs : q # p => at'[q] = "idle"
    BY <1>a, <1>b, <2>1 DEF Sole, Keeps
  <2>3. \A t \in Links : Active(t)' => Active(t)
    BY <1>e, ResetAssumption DEF Active
  <2>4. \A t \in Links : Active(t)' => at[p] = "consume" /\ t = link[p]
    BY <1>a, <2>1, <2>3 DEF Sole
  <2>5. \A t \in Links : ~Active(t)'
    BY <1>d, <2>1, <2>4, ResetAssumption DEF Active
  <2> QED
    BY <1>b, <2>2, <2>5 DEF Sole
<1> QED
  BY <1>1, <1>2, <1>3, <1>4, <1>5, <1>6, <1>c

\* RecordTokenCutoff: the call succeeds, its token being gone.
LEMMA RecordTokenCutoffStep ==
  ASSUME NEW p \in Procs, IInv, RecordTokenCutoff(p)
  PROVE  IInv'
<1> USE DEF IInv
<1>0. PICK o \in Outcomes :
         \/ /\ at[p] = "cutoff" /\ RedisSet(TokenCutoffKey, "stamp", o)
            /\ IF o = "ok" THEN Move(p, "cutoffTTL") /\ UNCHANGED used
               ELSE Return(p) /\ used' = used \cup {link[p]}
         \/ /\ at[p] = "cutoffTTL" /\ RedisExpire(TokenCutoffKey, o)
            /\ Return(p) /\ used' = used \cup {link[p]}
  BY DEF RecordTokenCutoff
<1>a. /\ at[p] \in {"cutoff", "cutoffTTL"}
      /\ used' \in {used, used \cup {link[p]}}
      /\ UNCHANGED <<registered, generated, mailed, resets, overlapped>>
  BY <1>0 DEF RecordTokenCutoff
<1>r. registered /\ link[p] \in Links /\ link[p] \in mailed
  BY <1>a, IssuingRegistered DEF Resetting, Books, HandlerOK, TypeOK
<1>b. /\ HandlersOK' /\ \A q \in Procs \ {p} : Keeps(q)
      /\ at'[p] \in {"idle", "cutoffTTL"}
      /\ at'[p] = "cutoffTTL" => link'[p] = link[p]
      /\ late'[p] => late[p]
  BY <1>0, MoveKeeps, ReturnKeeps DEF TypeOK, Steps
<1>c. /\ RedisOK' /\ LinksExpire'
      /\ ~slipped' => ~slipped /\ o = "ok"
      /\ kv'[UserResetIndexKey] = kv[UserResetIndexKey]
      /\ \A s \in Links : KeepsToken(s)
  <2>1. TokenCutoffKey \in OtherKeys /\ TokenCutoffKey # UserResetIndexKey
    BY KeysApart DEF OtherKeys
  <2> QED
    BY <1>0, <2>1, OtherCommand DEF TypeOK
<1>1. TypeOK'
  BY <1>a, <1>b, <1>c, <1>r DEF TypeOK
<1>2. Books'
  BY <1>a, <1>b, <1>c, <1>r, BooksFrame
     DEF Books, HandlerOK, Decoying, Issuing, Resetting, Keeps, KeepsToken
<1>3. Unknown'
  BY <1>a, <1>r, UnknownFrame
<1>4. LinkReplayFails'
  BY <1>b, <1>c DEF LinkReplayFails, Keeps
<1>5. Consumed'
  <2> SUFFICES ASSUME ~slipped' PROVE Consumed'
    BY DEF Consumed
  <2>1. ~slipped
    BY <1>c
  <2>2. kv'[PasswordResetKey(link[p])] = None
    BY <1>a, <1>c, <1>r, <2>1 DEF Consumed, KeepsToken
  <2>3. \A t \in used' : kv'[PasswordResetKey(t)] = None
    BY <1>a, <1>c, <2>1, <2>2 DEF Consumed, KeepsToken, TypeOK
  <2>4. ASSUME NEW q \in Procs \ {p}, at'[q] \in {"unindex", "cutoff", "cutoffTTL"}
        PROVE  kv'[PasswordResetKey(link'[q])] = None
    <3>1. link'[q] \in mailed /\ kv[PasswordResetKey(link'[q])] = None
      BY <1>b, <2>1, <2>4 DEF Consumed, Books, HandlerOK, Resetting, Keeps
    <3> QED
      BY <1>c, <3>1 DEF TypeOK, KeepsToken
  <2> QED
    BY <1>b, <2>2, <2>3, <2>4 DEF Consumed
<1>6. Sole'
  BY <1>a, <1>b, <1>c, SoleFrame DEF Keeps, KeepsToken, Active
<1> QED
  BY <1>1, <1>2, <1>3, <1>4, <1>5, <1>6, <1>c

\* To the key a TTL that runs out is a Del that succeeds.
LEMMA LapseIsDel ==
  ASSUME NEW k, RedisLapse(k), slipped \in BOOLEAN
  PROVE  RedisDel(k, "ok")
<1>1. Slip("ok")
  BY DEF RedisLapse, Slip
<1> QED
  BY <1>1 DEF RedisLapse, RedisDel

\* Lapse: the index does not go before the token it names.
LEMMA LapseStep ==
  ASSUME NEW k \in Keys, IInv, Lapse(k)
  PROVE  IInv'
<1> USE DEF IInv
<1>0. RedisDel(k, "ok")
  BY LapseIsDel DEF Lapse, TypeOK, RedisOK
<1>a. /\ UNCHANGED <<slipped, at, link, prior, late, registered, generated, mailed, resets, used,
                     overlapped>>
      /\ kv' = [kv EXCEPT ![k] = None]
      /\ ~slipped /\ k = UserResetIndexKey /\ kv[k] # None => ~Live(kv[k])
  BY DEF Lapse, RedisLapse, handler
<1>c. RedisOK' /\ LinksExpire'
  <2>1. CASE k \in OtherKeys
    BY <1>0, <2>1, OtherCommand DEF TypeOK
  <2>2. ASSUME NEW t \in Links, k = PasswordResetKey(t) PROVE RedisOK' /\ LinksExpire'
    BY <1>0, <2>2, LinkCommand DEF TypeOK
  <2> QED
    BY <2>1, <2>2, KeysAre
<1>d. \A l \in Keys : kv'[l] = IF l = k THEN None ELSE kv[l]
  BY <1>a DEF TypeOK, RedisOK
<1>e. \A t \in Links : kv'[PasswordResetKey(t)] \in {kv[PasswordResetKey(t)], None}
  BY <1>d, KeysApart
<1>f. kv'[UserResetIndexKey] = IF k = UserResetIndexKey THEN None ELSE kv[UserResetIndexKey]
  BY <1>d, KeysApart DEF OtherKeys
<1>1. TypeOK'
  BY <1>a, <1>c DEF TypeOK, HandlersOK
<1>2. Books'
  BY <1>a, <1>e, BooksFrame DEF Books, HandlerOK
<1>3. Unknown'
  BY <1>a, <1>e, <1>f, UnknownFrame DEF Unknown
<1>4. Consumed' /\ LinkReplayFails'
  BY <1>a, <1>e, ConsumedFrame DEF TypeOK
<1>5. Sole'
  <2>1. \A t \in Links : Active(t)' => Active(t)
    BY <1>e, ResetAssumption DEF Active
  <2>2. CASE kv'[UserResetIndexKey] = kv[UserResetIndexKey]
    BY <1>a, <2>1, <2>2, SoleFrame
  <2>3. CASE k = UserResetIndexKey /\ kv[k] # None
    <3>1. ~slipped => \A t \in Links : kv[UserResetIndexKey] = t => ~Active(t)
      BY <1>a, <2>3, ResetAssumption DEF Live, Active
    <3> QED
      BY <1>a, <2>1, <3>1 DEF Sole
  <2> QED
    BY <1>f, <2>2, <2>3
<1> QED
  BY <1>1, <1>2, <1>3, <1>4, <1>5, <1>c

\* Restart: from now on a call has failed.
LEMMA RestartStep ==
  ASSUME IInv, Restart
  PROVE  IInv'
<1> USE DEF IInv
<1>a. /\ \A p \in Procs : at'[p] = "idle" /\ ~late'[p]
      /\ slipped' = TRUE
      /\ UNCHANGED <<kv, volatile, registered, generated, mailed, resets, used, overlapped>>
  BY DEF Restart, RedisCrash
<1>1. TypeOK'
  <2>1. HandlersOK'
    BY DEF Restart, HandlersOK, Steps
  <2> QED
    BY <1>a, <2>1 DEF TypeOK, RedisOK
<1>2. Books'
  BY <1>a, BooksFrame DEF Decoying, Issuing, Resetting
<1>3. Unknown'
  BY <1>a, UnknownFrame
<1>4. Consumed' /\ LinkReplayFails' /\ Sole'
  BY <1>a DEF Consumed, LinkReplayFails, Sole
<1>5. LinksExpire'
  BY <1>a DEF LinksExpire, Live
<1> QED
  BY <1>1, <1>2, <1>3, <1>4, <1>5

-----------------------------------------------------------------------------
(* The results.                                                            *)

\* However ForgotPassword, ResetPassword, registration, lapses, lost calls and
\* restarts interleave, every token in the making stays its handler's own, the
\* index names the live token between calls that do not overlap, and a consumed
\* token is gone.
THEOREM ResetInvariance == Spec => []IInv
<1>1. IInv /\ [Next]_vars => IInv'
  <2> SUFFICES ASSUME IInv, [Next]_vars PROVE IInv'
    OBVIOUS
  <2>1. CASE Register
    BY <2>1, RegisterStep DEF Register, redis, handler
  <2>2. ASSUME NEW p \in Procs, ForgotPassword(p) PROVE IInv'
    BY <2>2, ForgotPasswordStep
  <2>3. ASSUME NEW p \in Procs, NEW t \in Links, ResetPassword(p, t) PROVE IInv'
    BY <2>3, ResetPasswordStep
  <2>4. ASSUME NEW p \in Procs, Continue(p) PROVE IInv'
    BY <2>4, ForgotExpireStep, ForgotLookupStep, DecoyStep, ForgotIndexStep, SupersedeStep,
       StoreLinkStep, StoreIndexStep, MailLinkStep, ResetUpdateStep, ConsumeStep,
       RecordTokenCutoffStep DEF Continue
  <2>5. ASSUME NEW k \in Keys, Lapse(k) PROVE IInv'
    BY <2>5, LapseStep
  <2>6. CASE Restart
    BY <2>6, RestartStep
  <2>7. CASE UNCHANGED vars
    BY <2>7, RegisterStep DEF vars
  <2> QED
    BY <2>1, <2>2, <2>3, <2>4, <2>5, <2>6, <2>7 DEF Next
<1> QED
  BY <1>1, InitInv, PTL DEF Spec

\* As long as an address has no account its ForgotPassword requests mail nothing,
\* store nothing but decoys and replace no password.
THEOREM UnknownAddressesHarmless == Spec => []UnknownAddressHarmless
<1>1. IInv => UnknownAddressHarmless
  BY DEF IInv, Unknown
<1> QED
  BY <1>1, ResetInvariance, PTL

\* While Redis answers, no ResetPassword starts with a token whose ResetPassword
\* has returned, whatever the requests under way beside it store.
THEOREM UsedLinksFail == Spec => []LinkReplayFails
<1>1. IInv => LinkReplayFails
  BY DEF IInv
<1> QED
  BY <1>1, ResetInvariance, PTL

\* A token that is stored has a TTL, whichever of ForgotPassword's calls failed.
THEOREM LinksHaveTTL == Spec => []LinksExpire
<1>1. IInv => LinksExpire
  BY DEF IInv
<1> QED
  BY <1>1, ResetInvariance, PTL

\* Requests that follow one another leave at most one token of the account live,
\* as long as Redis answers: any two live ones are what the index names, or what
\* the one request under way has just stored.
THEOREM OneActiveToken == Spec => []SingleActiveToken
<1>1. IInv => SingleActiveToken
  <2> SUFFICES ASSUME Sole, ~slipped, ~overlapped, NEW s \in Links, NEW t \in Links,
                      Active(s), Active(t)
               PROVE  s = t
    BY DEF IInv, SingleActiveToken, Active
  <2>1. CASE \E p \in Procs : at[p] \in {"storeTTL", "reindex"}
    BY <2>1 DEF Sole
  <2>2. CASE \A p \in Procs : at[p] \notin {"storeTTL", "reindex"}
    BY <2>2 DEF Sole
  <2> QED
    BY <2>1, <2>2
<1> QED
  BY <1>1, ResetInvariance, PTL

=============================================================================
