--------------------------- MODULE UserStoreProofs ---------------------------
(***************************************************************************)
(* What holds of UserStore for any users, handlers and bounds.             *)
(***************************************************************************)
EXTENDS UserStore, SequenceTheorems, TLAPS

(* The inductive invariant behind InvalidationEffective and QuietReadFresh. *)

\* A write behind its commit is in the table; a flight holds a row exactly
\* between its load and its delivery.
WellFormed ==
    /\ \A p \in Procs : at[p] \in {"getByID", "invalidate"} =>
          /\ table[user[p]] # None
          /\ floor[p] <= table[user[p]].password
    /\ \A p \in Procs : ~Ready(p) => got[p] = None
    /\ \A u \in Users : loaded[u] # None <=> phase[u] \in {"loaded", "filled"}
    /\ \A u \in Users : acked[u] > 0 => table[u] # None
    /\ \A u \in Users : table[u] # None => acked[u] <= table[u].password

\* A row that no Del will remove is as new as every returned update.
EntriesFresh ==
    \A u \in Users : ~excused[u] =>
        \A i \in 0..Len(setBuf[u]) :
            Entry(u, i) # None /\ ~Doomed(setBuf[u], i) => Entry(u, i).password >= acked[u]

\* A load answers whoever waits for it with a row as new as they need.
FlightFresh ==
    \A p \in Procs : at[p] \in {"miss", "wait"} =>
        /\ floor[p] <= acked[user[p]]
        /\ phase[user[p]] \in {"loaded", "filled"} => loaded[user[p]].password >= floor[p]

IInv == TypeOK /\ WellFormed /\ InvalidationEffective /\ EntriesFresh /\ FlightFresh
            /\ QuietReadFresh

-----------------------------------------------------------------------------
(* Type correctness.                                                       *)

\* What ristretto's Set does keeps the cache and the buffers well typed.
LEMMA SetTypeOK ==
    ASSUME TypeOK, NEW u \in Users, NEW r \in Row \cup {None}, RistrettoSet(u, r)
    PROVE  /\ cache' \in [Users -> Row \cup {None}]
           /\ setBuf' \in [Users -> Seq(Row \cup {None})]
           /\ \A v \in Users : Len(setBuf'[v]) <= MaxSetBuf
<1> USE DEF TypeOK
<1>1. CASE UNCHANGED setBuf
  BY <1>1 DEF RistrettoSet
<1>2. CASE /\ Len(setBuf[u]) < MaxSetBuf
           /\ setBuf' = [setBuf EXCEPT ![u] = Append(@, r)]
           /\ UNCHANGED cache
  <2>1. setBuf[u] \in Seq(Row \cup {None})
    OBVIOUS
  <2>2. /\ Append(setBuf[u], r) \in Seq(Row \cup {None})
        /\ Len(Append(setBuf[u], r)) = Len(setBuf[u]) + 1
    BY <2>1
  <2>3. QED
    BY <1>2, <2>2, BoundAssumption
<1>3. QED
  BY <1>1, <1>2 DEF RistrettoSet

LEMMA DelTypeOK ==
    ASSUME TypeOK, NEW u \in Users, RistrettoDel(u)
    PROVE  /\ cache' \in [Users -> Row \cup {None}]
           /\ setBuf' \in [Users -> Seq(Row \cup {None})]
           /\ \A v \in Users : Len(setBuf'[v]) <= MaxSetBuf
<1> USE DEF TypeOK
<1>1. setBuf[u] \in Seq(Row \cup {None})
  OBVIOUS
<1>2. /\ Append(setBuf[u], None) \in Seq(Row \cup {None})
      /\ Len(Append(setBuf[u], None)) = Len(setBuf[u]) + 1
  BY <1>1
<1>3. QED
  BY <1>2, BoundAssumption DEF RistrettoDel

LEMMA ApplyTypeOK ==
    ASSUME TypeOK, NEW u \in Users, RistrettoApply(u)
    PROVE  TypeOK'
<1> USE DEF TypeOK
<1>1. setBuf[u] \in Seq(Row \cup {None}) /\ setBuf[u] # <<>>
  BY DEF RistrettoApply
<1>2. /\ Tail(setBuf[u]) \in Seq(Row \cup {None})
      /\ Len(Tail(setBuf[u])) = Len(setBuf[u]) - 1
      /\ Head(setBuf[u]) \in Row \cup {None}
  BY <1>1
<1>3. setBuf' \in [Users -> Seq(Row \cup {None})]
  BY <1>2 DEF RistrettoApply
<1>4. \A v \in Users : Len(setBuf'[v]) <= MaxSetBuf
  BY <1>1, <1>2, BoundAssumption DEF RistrettoApply
<1>5. cache' \in [Users -> Row \cup {None}]
  BY <1>2 DEF RistrettoApply
<1>6. QED
  BY <1>3, <1>4, <1>5 DEF RistrettoApply, group, handler

LEMMA InitTypeOK == Init => TypeOK
  BY BoundAssumption DEF Init, TypeOK, Phases, Steps, Row

\* Every step of every handler, load and cache write keeps the types.
LEMMA NextTypeOK == TypeOK /\ [Next]_vars => TypeOK'
<1> SUFFICES ASSUME TypeOK, [Next]_vars PROVE TypeOK'
  OBVIOUS
<1> USE DEF Phases, Steps, ristretto, group, handler, Ready
<1>1. ASSUME NEW p \in Procs, NEW u \in Users, GetByEmail(p, u) PROVE TypeOK'
  BY <1>1 DEF GetByEmail, TypeOK
<1>2. ASSUME NEW p \in Procs, Do(p) PROVE TypeOK'
  BY <1>2 DEF Do, TypeOK
<1>3. ASSUME NEW u \in Users, Load(u) PROVE TypeOK'
  BY <1>3 DEF Load, TypeOK
<1>4. ASSUME NEW u \in Users, Fill(u) PROVE TypeOK'
  <2>1. loaded[u] \in Row \cup {None}
    BY DEF TypeOK
  <2>2. excused' \in [Users -> BOOLEAN]
    BY <1>4 DEF Fill, TypeOK
  <2>3. QED
    BY <1>4, <2>1, <2>2, SetTypeOK DEF Fill, TypeOK
<1>5. ASSUME NEW u \in Users, Deliver(u) PROVE TypeOK'
  BY <1>5 DEF Deliver, TypeOK, Waits
<1>6. ASSUME NEW p \in Procs, NEW u \in Users, Store(p, u) PROVE TypeOK'
  BY <1>6 DEF Store, RepoStore, Begin, TypeOK, Row
<1>7. ASSUME NEW p \in Procs, NEW u \in Users, UpdatePassword(p, u) PROVE TypeOK'
  <2>1. table[u] \in Row
    BY <1>7 DEF UpdatePassword, RepoUpdatePassword, TypeOK
  <2>2. /\ table[u].password + 1 \in Nat
        /\ [table[u] EXCEPT !.password = @ + 1] \in Row
    BY <2>1 DEF Row
  <2>3. table' \in [Users -> Row \cup {None}]
    BY <1>7, <2>2 DEF UpdatePassword, RepoUpdatePassword, TypeOK
  <2>4. CASE Begin(p, u, "invalidate", table[u].password + 1) /\ UNCHANGED excused
    BY <1>7, <2>2, <2>3, <2>4 DEF UpdatePassword, RepoUpdatePassword, Begin, TypeOK
  <2>5. CASE Begin(p, u, "returned", 0) /\ excused' = [excused EXCEPT ![u] = TRUE]
    BY <1>7, <2>3, <2>5 DEF UpdatePassword, RepoUpdatePassword, Begin, TypeOK
  <2>6. QED
    BY <1>7, <2>4, <2>5 DEF UpdatePassword, RepoUpdatePassword
<1>8. ASSUME NEW p \in Procs, NEW u \in Users, Activate(p, u) PROVE TypeOK'
  <2>1. table[u] \in Row
    BY <1>8 DEF Activate, RepoChangeActiveUser, TypeOK
  <2>2. [table[u] EXCEPT !.active = TRUE] \in Row
    BY <2>1 DEF Row
  <2>3. table' \in [Users -> Row \cup {None}]
    BY <1>8, <2>2 DEF Activate, RepoChangeActiveUser, TypeOK
  <2>4. CASE Begin(p, u, "getByID", 0) /\ UNCHANGED excused
    BY <1>8, <2>3, <2>4 DEF Activate, RepoChangeActiveUser, Begin, TypeOK
  <2>5. CASE Begin(p, u, "returned", 0) /\ excused' = [excused EXCEPT ![u] = TRUE]
    BY <1>8, <2>3, <2>5 DEF Activate, RepoChangeActiveUser, Begin, TypeOK
  <2>6. QED
    BY <1>8, <2>4, <2>5 DEF Activate, RepoChangeActiveUser
<1>9. ASSUME NEW p \in Procs, GetByID(p) PROVE TypeOK'
  BY <1>9 DEF GetByID, TypeOK
<1>10. ASSUME NEW p \in Procs, Invalidate(p) PROVE TypeOK'
  <2>1. user[p] \in Users /\ floor[p] \in Nat
    BY <1>10 DEF Invalidate, TypeOK
  <2>2. QED
    BY <1>10, <2>1, DelTypeOK DEF Invalidate, TypeOK
<1>11. ASSUME NEW u \in Users, RistrettoApply(u) PROVE TypeOK'
  BY <1>11, ApplyTypeOK
<1>12. ASSUME NEW u \in Users, RistrettoExpire(u) PROVE TypeOK'
  <2>1. excused' \in [Users -> BOOLEAN]
    BY <1>12 DEF RistrettoExpire, TypeOK
  <2>2. QED
    BY <1>12, <2>1 DEF RistrettoExpire, TypeOK
<1>13. CASE Restart
  BY <1>13, BoundAssumption DEF Restart, TypeOK
<1>14. CASE UNCHANGED vars
  BY <1>14 DEF vars, TypeOK
<1>15. QED
  BY <1>1, <1>2, <1>3, <1>4, <1>5, <1>6, <1>7, <1>8, <1>9, <1>10, <1>11, <1>12,
     <1>13, <1>14 DEF Next

\* The state of the users usecase keeps its types in every behaviour.
THEOREM TypeCorrect == Spec => []TypeOK
  BY InitTypeOK, NextTypeOK, PTL DEF Spec

-----------------------------------------------------------------------------
(* Positions of a buffer and the Dels behind them.                         *)

\* A Del appended to a buffer dooms everything in front of it.
LEMMA DoomedByDel ==
    ASSUME NEW S, NEW b \in Seq(S), None \in S, NEW i \in 0..Len(b)
    PROVE  Doomed(Append(b, None), i)
<1>1. /\ Len(b) \in Nat
      /\ DOMAIN Append(b, None) = 1..(Len(b) + 1)
      /\ Append(b, None)[Len(b) + 1] = None
  OBVIOUS
<1>2. QED
  BY <1>1 DEF Doomed

\* What is doomed stays doomed when a write is appended.
LEMMA DoomedAppend ==
    ASSUME NEW S, NEW b \in Seq(S), NEW e \in S, NEW i \in Nat, Doomed(b, i)
    PROVE  Doomed(Append(b, e), i)
<1>1. PICK j \in DOMAIN b : j > i /\ b[j] = None
  BY DEF Doomed
<1>2. j \in DOMAIN Append(b, e) /\ Append(b, e)[j] = None
  BY <1>1
<1>3. QED
  BY <1>1, <1>2 DEF Doomed

\* Applying the head shifts every position by one.
LEMMA DoomedTail ==
    ASSUME NEW S, NEW b \in Seq(S), b # <<>>, NEW i \in Nat, Doomed(b, i + 1)
    PROVE  Doomed(Tail(b), i)
<1>1. PICK j \in DOMAIN b : j > i + 1 /\ b[j] = None
  BY DEF Doomed
<1>2. j - 1 \in DOMAIN Tail(b) /\ Tail(b)[j - 1] = None
  BY <1>1
<1>3. QED
  BY <1>1, <1>2 DEF Doomed

\* A Del behind the cache is behind the head too, unless it is the head.
LEMMA DoomedHead ==
    ASSUME NEW S, NEW b \in Seq(S), b # <<>>, Head(b) # None, Doomed(b, 0)
    PROVE  Doomed(b, 1)
<1>1. PICK j \in DOMAIN b : j > 0 /\ b[j] = None
  BY DEF Doomed
<1>2. j # 1 /\ j \in Nat
  BY <1>1
<1>3. QED
  BY <1>1, <1>2 DEF Doomed

\* Where an entry of u comes from after the head was applied, and that the
\* Dels behind it are still behind it.
LEMMA ApplyPositions ==
    ASSUME TypeOK, NEW u \in Users, RistrettoApply(u), NEW i \in 0..Len(setBuf'[u])
    PROVE  \/ Entry(u, i)' = None
           \/ \E k \in 0..Len(setBuf[u]) :
                /\ Entry(u, i)' = Entry(u, k)
                /\ Doomed(setBuf[u], k) => Doomed(setBuf'[u], i)
<1> DEFINE b == setBuf[u]
           S == Row \cup {None}
<1>1. /\ b \in Seq(S) /\ b # <<>> /\ Len(b) \in Nat
      /\ setBuf'[u] = Tail(b) /\ Len(Tail(b)) = Len(b) - 1
      /\ Head(b) = b[1] /\ Len(b) >= 1
  BY DEF RistrettoApply, TypeOK
<1>2. CASE i > 0
  <2>1. Entry(u, i)' = Entry(u, i + 1)
    BY <1>1, <1>2 DEF Entry
  <2>2. Doomed(b, i + 1) => Doomed(Tail(b), i)
    BY <1>1, DoomedTail
  <2>3. QED
    BY <1>1, <2>1, <2>2
<1>3. CASE i = 0 /\ cache'[u] = Head(b)
  <2>1. Entry(u, 0)' = Entry(u, 1)
    BY <1>1, <1>3 DEF Entry
  <2>2. Doomed(b, 1) => Doomed(Tail(b), 0)
    <3>1. 0 + 1 = 1 /\ 0 \in Nat
      OBVIOUS
    <3>2. QED
      BY <1>1, <3>1, DoomedTail
  <2>3. QED
    BY <1>1, <1>3, <2>1, <2>2
<1>4. CASE i = 0 /\ Head(b) # None /\ UNCHANGED cache
  <2>1. Entry(u, 0)' = Entry(u, 0)
    BY <1>4 DEF Entry
  <2>2. Doomed(b, 0) => Doomed(Tail(b), 0)
    <3>1. 0 + 1 = 1 /\ 0 \in Nat
      OBVIOUS
    <3>2. QED
      BY <1>1, <1>4, <3>1, DoomedHead, DoomedTail
  <2>3. QED
    BY <1>1, <1>4, <2>1, <2>2
<1>5. i = 0 \/ i > 0
  BY <1>1
<1>6. QED
  BY <1>2, <1>3, <1>4, <1>5 DEF RistrettoApply, TypeOK

\* A Set adds one entry, in the cache or at the end of the buffer.
LEMMA SetPositions ==
    ASSUME TypeOK, NEW u \in Users, NEW r \in Row, RistrettoSet(u, r),
           NEW i \in 0..Len(setBuf'[u])
    PROVE  \/ Entry(u, i)' = r
           \/ /\ i \in 0..Len(setBuf[u])
              /\ Entry(u, i)' = Entry(u, i)
              /\ Doomed(setBuf[u], i) => Doomed(setBuf'[u], i)
<1> DEFINE b == setBuf[u]
           S == Row \cup {None}
<1>1. b \in Seq(S) /\ Len(b) \in Nat
  BY DEF TypeOK
<1>2. CASE cache' = [cache EXCEPT ![u] = r] /\ UNCHANGED setBuf
  BY <1>1, <1>2 DEF Entry, TypeOK
<1>3. CASE UNCHANGED cache /\ setBuf' = [setBuf EXCEPT ![u] = Append(@, r)]
  <2>1. setBuf'[u] = Append(b, r) /\ Len(Append(b, r)) = Len(b) + 1
    BY <1>1, <1>3 DEF TypeOK
  <2>2. CASE i = Len(b) + 1
    BY <1>1, <2>1, <2>2 DEF Entry
  <2>3. CASE i \in 0..Len(b)
    <3>1. Entry(u, i)' = Entry(u, i)
      BY <1>1, <1>3, <2>1, <2>3 DEF Entry
    <3>2. Doomed(b, i) => Doomed(Append(b, r), i)
      BY <1>1, <2>3, DoomedAppend
    <3>3. QED
      BY <2>1, <2>3, <3>1, <3>2
  <2>4. QED
    BY <1>1, <2>1, <2>2, <2>3
<1>4. CASE UNCHANGED <<cache, setBuf>>
  BY <1>4 DEF Entry
<1>5. QED
  BY <1>2, <1>3, <1>4 DEF RistrettoSet

\* After a Del, nothing of u is left that a Del does not follow.
LEMMA DelPositions ==
    ASSUME TypeOK, NEW u \in Users, RistrettoDel(u), NEW i \in 0..Len(setBuf'[u])
    PROVE  Entry(u, i)' = None \/ Doomed(setBuf'[u], i)
<1> DEFINE b == setBuf[u]
           S == Row \cup {None}
<1>1. /\ b \in Seq(S) /\ Len(b) \in Nat
      /\ setBuf'[u] = Append(b, None) /\ Len(Append(b, None)) = Len(b) + 1
  BY DEF TypeOK, RistrettoDel
<1>2. CASE i \in 0..Len(b)
  BY <1>1, <1>2, DoomedByDel
<1>3. CASE i = Len(b) + 1
  BY <1>1, <1>3 DEF Entry
<1>4. QED
  BY <1>1, <1>2, <1>3

-----------------------------------------------------------------------------
(* The inductive invariant.                                                *)

\* A committed write is never undone: rows stay and passwords only get newer.
LEMMA TableGrows ==
    ASSUME TypeOK, TypeOK', [Next]_vars, NEW v \in Users, table[v] # None
    PROVE  table'[v] # None /\ table'[v].password >= table[v].password
<1>1. table[v] \in Row /\ table[v].password \in Nat
  BY DEF TypeOK, Row
<1>2. CASE table'[v] = table[v]
  BY <1>1, <1>2
<1>3. ASSUME NEW p \in Procs, NEW u \in Users, Store(p, u) PROVE table'[v] = table[v]
  BY <1>3 DEF Store, RepoStore, TypeOK
<1>4. ASSUME NEW p \in Procs, NEW u \in Users, UpdatePassword(p, u)
      PROVE  table'[v] = table[v] \/ table'[v] = [table[v] EXCEPT !.password = @ + 1]
  BY <1>4 DEF UpdatePassword, RepoUpdatePassword, TypeOK
<1>5. ASSUME NEW p \in Procs, NEW u \in Users, Activate(p, u)
      PROVE  table'[v] = table[v] \/ table'[v] = [table[v] EXCEPT !.active = TRUE]
  BY <1>5 DEF Activate, RepoChangeActiveUser, TypeOK
<1>6. CASE table'[v] = [table[v] EXCEPT !.password = @ + 1]
  <2>1. table'[v] \in Row /\ table'[v].password = table[v].password + 1
    BY <1>1, <1>6 DEF Row
  <2>2. QED
    BY <1>1, <2>1, NoneAssumption
<1>7. CASE table'[v] = [table[v] EXCEPT !.active = TRUE]
  <2>1. table'[v] \in Row /\ table'[v].password = table[v].password
    BY <1>1, <1>7 DEF Row
  <2>2. QED
    BY <1>1, <2>1, NoneAssumption
<1>8. \/ \E p \in Procs, u \in Users : Store(p, u) \/ UpdatePassword(p, u) \/ Activate(p, u)
      \/ UNCHANGED table
  BY DEF Next, vars, GetByEmail, Do, Load, Fill, Deliver, GetByID, Invalidate,
         RistrettoApply, RistrettoExpire, Restart
<1>9. QED
  BY <1>2, <1>3, <1>4, <1>5, <1>6, <1>7, <1>8

\* Writes behind their commit stay in the table, flights keep their rows.
LEMMA NextWellFormed ==
    ASSUME TypeOK, TypeOK', WellFormed, [Next]_vars
    PROVE  WellFormed'
<1> USE DEF WellFormed, TypeOK, ristretto, group, handler, Ready
<1>1. ASSUME NEW p \in Procs, NEW u \in Users, GetByEmail(p, u) PROVE WellFormed'
  BY <1>1 DEF GetByEmail
<1>2. ASSUME NEW p \in Procs, Do(p) PROVE WellFormed'
  BY <1>2 DEF Do
<1>3. ASSUME NEW u \in Users, Load(u) PROVE WellFormed'
  <2>1. UNCHANGED <<table, at, user, got, floor, acked>>
    BY <1>3 DEF Load
  <2>2. \A v \in Users : loaded'[v] # None <=> phase'[v] \in {"loaded", "filled"}
    BY <1>3 DEF Load
  <2>3. QED
    BY <2>1, <2>2
<1>4. ASSUME NEW u \in Users, Fill(u) PROVE WellFormed'
  BY <1>4 DEF Fill
<1>5. ASSUME NEW u \in Users, Deliver(u) PROVE WellFormed'
  BY <1>5 DEF Deliver, Waits
<1>6. ASSUME NEW p \in Procs, NEW u \in Users, Store(p, u) PROVE WellFormed'
  BY <1>6 DEF Store, RepoStore, Begin, Row
<1>7. ASSUME NEW p \in Procs, NEW u \in Users, UpdatePassword(p, u) PROVE WellFormed'
  <2>1. \A v \in Users : table[v] # None =>
          /\ table[v].password \in Nat /\ table'[v].password \in Nat
          /\ table'[v] # None /\ table'[v].password >= table[v].password
    BY TableGrows DEF Row
  <2>2. \A v \in Users : table'[v] # None => table[v] # None
    BY <1>7 DEF UpdatePassword, RepoUpdatePassword
  <2>3. \A q \in Procs : at'[q] \in {"getByID", "invalidate"} =>
          /\ table'[user'[q]] # None
          /\ floor'[q] <= table'[user'[q]].password
    <3>1. table'[u].password = table[u].password + 1
      BY <1>7 DEF UpdatePassword, RepoUpdatePassword, Row
    <3>2. TAKE q \in Procs
    <3>3. CASE q = p
      BY <1>7, <2>1, <3>1, <3>3 DEF UpdatePassword, RepoUpdatePassword, Begin
    <3>4. CASE q # p
      <4>1. at'[q] = at[q] /\ user'[q] = user[q] /\ floor'[q] = floor[q]
        BY <1>7, <3>4 DEF UpdatePassword, RepoUpdatePassword, Begin
      <4>2. at[q] \in {"getByID", "invalidate"} =>
              /\ user[q] \in Users /\ floor[q] \in Nat /\ table[user[q]] # None
              /\ floor[q] <= table[user[q]].password
        OBVIOUS
      <4>3. ASSUME at[q] \in {"getByID", "invalidate"}
            PROVE  table'[user[q]] # None /\ floor[q] <= table'[user[q]].password
        BY <2>1, <4>2, <4>3
      <4>4. QED
        BY <4>1, <4>3
    <3>5. QED
      BY <3>3, <3>4
  <2>4. ASSUME NEW v \in Users
        PROVE  /\ acked'[v] > 0 => table'[v] # None
               /\ table'[v] # None => acked'[v] <= table'[v].password
    <3>1. acked'[v] = acked[v] /\ acked[v] \in Nat
      BY <1>7 DEF UpdatePassword, RepoUpdatePassword
    <3>2. /\ acked[v] > 0 => table[v] # None
          /\ table[v] # None => acked[v] <= table[v].password
      OBVIOUS
    <3>3. QED
      BY <2>1, <2>2, <3>1, <3>2
  <2>5. ASSUME NEW q \in Procs PROVE ~Ready(q)' => got'[q] = None
    <3>1. q = p => got'[q] = None
      BY <1>7 DEF UpdatePassword, RepoUpdatePassword, Begin
    <3>2. q # p => got'[q] = got[q] /\ at'[q] = at[q]
      BY <1>7 DEF UpdatePassword, RepoUpdatePassword, Begin
    <3>3. QED
      BY <3>1, <3>2
  <2>6. \A v \in Users : loaded'[v] # None <=> phase'[v] \in {"loaded", "filled"}
    BY <1>7 DEF UpdatePassword, RepoUpdatePassword
  <2>7. QED
    BY <2>3, <2>4, <2>5, <2>6
<1>8. ASSUME NEW p \in Procs, NEW u \in Users, Activate(p, u) PROVE WellFormed'
  <2>1. \A v \in Users : table[v] # None =>
          /\ table[v].password \in Nat /\ table'[v].password \in Nat
          /\ table'[v] # None /\ table'[v].password >= table[v].password
    BY TableGrows DEF Row
  <2>2. \A v \in Users : table'[v] # None => table[v] # None
    BY <1>8 DEF Activate, RepoChangeActiveUser
  <2>3. \A q \in Procs : at'[q] \in {"getByID", "invalidate"} =>
          /\ table'[user'[q]] # None
          /\ floor'[q] <= table'[user'[q]].password
    <3>1. table[u] # None
      BY <1>8 DEF Activate, RepoChangeActiveUser, Row
    <3>2. TAKE q \in Procs
    <3>3. CASE q = p
      BY <1>8, <2>1, <3>1, <3>3 DEF Activate, RepoChangeActiveUser, Begin
    <3>4. CASE q # p
      <4>1. at'[q] = at[q] /\ user'[q] = user[q] /\ floor'[q] = floor[q]
        BY <1>8, <3>4 DEF Activate, RepoChangeActiveUser, Begin
      <4>2. at[q] \in {"getByID", "invalidate"} =>
              /\ user[q] \in Users /\ floor[q] \in Nat /\ table[user[q]] # None
              /\ floor[q] <= table[user[q]].password
        OBVIOUS
      <4>3. ASSUME at[q] \in {"getByID", "invalidate"}
            PROVE  table'[user[q]] # None /\ floor[q] <= table'[user[q]].password
        BY <2>1, <4>2, <4>3
      <4>4. QED
        BY <4>1, <4>3
    <3>5. QED
      BY <3>3, <3>4
  <2>4. ASSUME NEW v \in Users
        PROVE  /\ acked'[v] > 0 => table'[v] # None
               /\ table'[v] # None => acked'[v] <= table'[v].password
    <3>1. acked'[v] = acked[v] /\ acked[v] \in Nat
      BY <1>8 DEF Activate, RepoChangeActiveUser
    <3>2. /\ acked[v] > 0 => table[v] # None
          /\ table[v] # None => acked[v] <= table[v].password
      OBVIOUS
    <3>3. QED
      BY <2>1, <2>2, <3>1, <3>2
  <2>5. ASSUME NEW q \in Procs PROVE ~Ready(q)' => got'[q] = None
    <3>1. q = p => got'[q] = None
      BY <1>8 DEF Activate, RepoChangeActiveUser, Begin
    <3>2. q # p => got'[q] = got[q] /\ at'[q] = at[q]
      BY <1>8 DEF Activate, RepoChangeActiveUser, Begin
    <3>3. QED
      BY <3>1, <3>2
  <2>6. \A v \in Users : loaded'[v] # None <=> phase'[v] \in {"loaded", "filled"}
    BY <1>8 DEF Activate, RepoChangeActiveUser
  <2>7. QED
    BY <2>3, <2>4, <2>5, <2>6
<1>9. ASSUME NEW p \in Procs, GetByID(p) PROVE WellFormed'
  BY <1>9 DEF GetByID
<1>10. ASSUME NEW p \in Procs, Invalidate(p) PROVE WellFormed'
  BY <1>10, SMTT(30) DEF Invalidate
<1>11. ASSUME NEW u \in Users, RistrettoApply(u) PROVE WellFormed'
  BY <1>11 DEF RistrettoApply
<1>12. ASSUME NEW u \in Users, RistrettoExpire(u) PROVE WellFormed'
  BY <1>12 DEF RistrettoExpire
<1>13. CASE Restart
  BY <1>13 DEF Restart
<1>14. CASE UNCHANGED vars
  BY <1>14 DEF vars
<1>15. QED
  BY <1>1, <1>2, <1>3, <1>4, <1>5, <1>6, <1>7, <1>8, <1>9, <1>10, <1>11, <1>12, <1>13,
    <1>14 DEF Next

\* The two claims about the entries of one user.
EffectiveAt(u) ==
    \A i \in 0..Len(setBuf[u]) :
        Entry(u, i) \notin {None, table[u]} => Doomed(setBuf[u], i)
FreshAt(u) ==
    \A i \in 0..Len(setBuf[u]) :
        Entry(u, i) # None /\ ~Doomed(setBuf[u], i) => Entry(u, i).password >= acked[u]

\* Steps that touch nothing of v leave them alone.
LEMMA EntriesUntouched ==
    ASSUME NEW v \in Users, cache'[v] = cache[v], setBuf'[v] = setBuf[v],
           table'[v] = table[v], acked'[v] = acked[v]
    PROVE  /\ EffectiveAt(v) => EffectiveAt(v)'
           /\ FreshAt(v) => FreshAt(v)'
  BY DEF EffectiveAt, FreshAt, Entry, Doomed

\* Applying the oldest buffered write preserves both.
LEMMA ApplyEntries ==
    ASSUME TypeOK, NEW u \in Users, RistrettoApply(u)
    PROVE  /\ EffectiveAt(u) => EffectiveAt(u)'
           /\ FreshAt(u) => FreshAt(u)'
<1>1. table' = table /\ acked' = acked
  BY DEF RistrettoApply
<1>2. ASSUME EffectiveAt(u), NEW i \in 0..Len(setBuf'[u])
      PROVE  Entry(u, i)' \notin {None, table[u]} => Doomed(setBuf'[u], i)
  BY <1>2, ApplyPositions DEF EffectiveAt
<1>3. ASSUME FreshAt(u), NEW i \in 0..Len(setBuf'[u])
      PROVE  Entry(u, i)' # None /\ ~Doomed(setBuf'[u], i) =>
                Entry(u, i)'.password >= acked[u]
  BY <1>3, ApplyPositions DEF FreshAt
<1>4. QED
  BY <1>1, <1>2, <1>3 DEF EffectiveAt, FreshAt

\* So does setting the row that the table holds.
LEMMA SetEntries ==
    ASSUME TypeOK, NEW u \in Users, RistrettoSet(u, table[u]), table[u] \in Row,
           table[u].password >= acked[u], UNCHANGED <<table, acked>>
    PROVE  /\ EffectiveAt(u) => EffectiveAt(u)'
           /\ FreshAt(u) => FreshAt(u)'
<1>1. ASSUME EffectiveAt(u), NEW i \in 0..Len(setBuf'[u])
      PROVE  Entry(u, i)' \notin {None, table[u]} => Doomed(setBuf'[u], i)
  BY <1>1, SetPositions DEF EffectiveAt
<1>2. ASSUME FreshAt(u), NEW i \in 0..Len(setBuf'[u])
      PROVE  Entry(u, i)' # None /\ ~Doomed(setBuf'[u], i) =>
                Entry(u, i)'.password >= acked[u]
  BY <1>2, SetPositions DEF FreshAt
<1>3. QED
  BY <1>1, <1>2 DEF EffectiveAt, FreshAt

\* A Del establishes both, whatever was there.
LEMMA DelEntries ==
    ASSUME TypeOK, NEW u \in Users, RistrettoDel(u)
    PROVE  EffectiveAt(u)' /\ FreshAt(u)'
  BY DelPositions DEF EffectiveAt, FreshAt

\* Losing the entry to its TTL preserves both, and leaves a user without
\* buffered writes with nothing at all.
LEMMA ExpireEntries ==
    ASSUME TypeOK, NEW u \in Users, RistrettoExpire(u)
    PROVE  /\ EffectiveAt(u) \/ setBuf[u] = <<>> => EffectiveAt(u)'
           /\ FreshAt(u) \/ setBuf[u] = <<>> => FreshAt(u)'
<1>1. /\ cache'[u] = None /\ setBuf'[u] = setBuf[u]
      /\ table' = table /\ acked' = acked
  BY DEF RistrettoExpire, TypeOK
<1>2. \A i \in 0..Len(setBuf'[u]) :
        Entry(u, i)' = None \/ (i \in 0..Len(setBuf[u]) /\ Entry(u, i)' = Entry(u, i))
  BY <1>1 DEF Entry
<1>3. setBuf[u] = <<>> => \A i \in 0..Len(setBuf'[u]) : i = 0 /\ Entry(u, i)' = None
  BY <1>1 DEF Entry
<1>4. QED
  BY <1>1, <1>2, <1>3 DEF EffectiveAt, FreshAt

\* A write in progress stays in progress until its own Del or its failure.
LEMMA InvalidatingKept ==
    ASSUME TypeOK, NEW v \in Users, Invalidating(v),
           NEW q \in Procs, \A p \in Procs : p # q => at'[p] = at[p] /\ user'[p] = user[p],
           at[q] \notin {"getByID", "invalidate"} \/ user[q] # v
    PROVE  Invalidating(v)'
  BY DEF Invalidating, TypeOK

\* Every step either leaves the entries of v alone or preserves both claims.
LEMMA NextEntries ==
    ASSUME TypeOK, WellFormed, InvalidationEffective, EntriesFresh, [Next]_vars,
           NEW v \in Users, ~excused'[v]
    PROVE  (~Invalidating(v)' => EffectiveAt(v)') /\ FreshAt(v)'
<1> DEFINE Kept == /\ cache'[v] = cache[v] /\ setBuf'[v] = setBuf[v]
                   /\ table'[v] = table[v] /\ acked'[v] = acked[v]
           Goal == (~Invalidating(v)' => EffectiveAt(v)') /\ FreshAt(v)'
<1>a. /\ ~excused[v] /\ ~Invalidating(v) => EffectiveAt(v)
      /\ ~excused[v] => FreshAt(v)
  BY DEF InvalidationEffective, EntriesFresh, EffectiveAt, FreshAt
<1>b. ASSUME Kept, excused'[v] = excused[v], Invalidating(v) => Invalidating(v)'
      PROVE  Goal
  BY <1>a, <1>b, EntriesUntouched
<1>c. ASSUME UNCHANGED <<at, user>> PROVE Invalidating(v) => Invalidating(v)'
  BY <1>c DEF Invalidating
<1> HIDE DEF Goal
<1>1. ASSUME NEW p \in Procs, NEW u \in Users, GetByEmail(p, u) PROVE Goal
  <2>1. Invalidating(v) => Invalidating(v)'
    BY <1>1, InvalidatingKept DEF GetByEmail, Ready, TypeOK
  <2>2. QED
    BY <1>1, <1>b, <2>1 DEF GetByEmail, ristretto
<1>2. ASSUME NEW p \in Procs, Do(p) PROVE Goal
  <2>1. Invalidating(v) => Invalidating(v)'
    BY <1>2, InvalidatingKept DEF Do, TypeOK
  <2>2. QED
    BY <1>2, <1>b, <2>1 DEF Do, ristretto
<1>3. ASSUME NEW u \in Users, Load(u) PROVE Goal
  BY <1>3, <1>b, <1>c DEF Load, ristretto, handler
<1>4. ASSUME NEW u \in Users, Fill(u) PROVE Goal
  <2>1. CASE u = v
    <3>1. ~excused[v] /\ loaded[v] = table[v]
      BY <1>4, <2>1 DEF Fill, TypeOK
    <3>2. table[v] \in Row /\ table[v].password >= acked[v]
      <4>1. phase[v] = "loaded"
        BY <1>4, <2>1 DEF Fill
      <4>2. loaded[v] # None
        BY <4>1 DEF WellFormed
      <4>3. table[v] \in Row /\ acked[v] <= table[v].password
        BY <3>1, <4>2 DEF WellFormed, TypeOK
      <4>4. QED
        BY <4>3 DEF TypeOK, Row
    <3>3. RistrettoSet(v, table[v]) /\ UNCHANGED <<table, acked>> /\ UNCHANGED <<at, user>>
      BY <1>4, <2>1, <3>1 DEF Fill, handler
    <3>4. QED
      BY <1>a, <1>c, <3>1, <3>2, <3>3, SetEntries DEF Goal
  <2>2. CASE u # v
    BY <1>4, <2>2, <1>b, <1>c DEF Fill, RistrettoSet, handler, TypeOK
  <2>3. QED
    BY <2>1, <2>2
<1>5. ASSUME NEW u \in Users, Deliver(u) PROVE Goal
  <2>1. Invalidating(v) => Invalidating(v)'
    BY <1>5 DEF Deliver, Waits, Invalidating
  <2>2. QED
    BY <1>5, <1>b, <2>1 DEF Deliver, ristretto
<1>6. ASSUME NEW p \in Procs, NEW u \in Users, Store(p, u) PROVE Goal
  <2>1. Invalidating(v) => Invalidating(v)'
    BY <1>6, InvalidatingKept DEF Store, RepoStore, Begin, Ready, TypeOK
  <2>2. CASE u = v
    <3>1. /\ ~excused[v] /\ table[v] = None
          /\ cache' = cache /\ setBuf' = setBuf /\ acked' = acked
      BY <1>6, <2>2 DEF Store, RepoStore, ristretto
    <3>2. EffectiveAt(v) => EffectiveAt(v)'
      BY <3>1 DEF EffectiveAt, Entry, Doomed
    <3>3. FreshAt(v) => FreshAt(v)'
      BY <3>1 DEF FreshAt, Entry, Doomed
    <3>4. QED
      BY <1>a, <2>1, <3>1, <3>2, <3>3 DEF Goal
  <2>3. CASE u # v
    BY <1>6, <1>b, <2>1, <2>3 DEF Store, RepoStore, ristretto, TypeOK
  <2>4. QED
    BY <2>2, <2>3
<1>7. ASSUME NEW p \in Procs, NEW u \in Users,
             UpdatePassword(p, u) \/ Activate(p, u) PROVE Goal
  <2>1. CASE u = v
    <3>1. /\ ~excused[v]
          /\ cache' = cache /\ setBuf' = setBuf /\ acked' = acked
          /\ Invalidating(v)'
      BY <1>7, <2>1 DEF UpdatePassword, RepoUpdatePassword, Activate,
        RepoChangeActiveUser, Begin, Invalidating, ristretto, TypeOK
    <3>2. FreshAt(v) => FreshAt(v)'
      BY <3>1 DEF FreshAt, Entry, Doomed
    <3>3. QED
      BY <1>a, <3>1, <3>2 DEF Goal
  <2>2. CASE u # v
    <3>1. Invalidating(v) => Invalidating(v)'
      BY <1>7, InvalidatingKept DEF UpdatePassword, RepoUpdatePassword, Activate,
        RepoChangeActiveUser, Begin, Ready, TypeOK
    <3>2. Kept /\ excused'[v] = excused[v]
      BY <1>7, <2>2 DEF UpdatePassword, RepoUpdatePassword, Activate,
        RepoChangeActiveUser, ristretto, TypeOK
    <3>3. QED
      BY <1>b, <3>1, <3>2
  <2>3. QED
    BY <2>1, <2>2
<1>8. ASSUME NEW p \in Procs, GetByID(p) PROVE Goal
  <2>1. Kept
    BY <1>8 DEF GetByID, ristretto
  <2>2. user[p] \in Users
    BY <1>8 DEF GetByID, TypeOK
  <2>3. excused'[v] = excused[v]
    BY <1>8, <2>2 DEF GetByID, TypeOK
  <2>4. Invalidating(v) => Invalidating(v)'
    <3>1. CASE user[p] = v
      BY <1>8, <2>2, <3>1 DEF GetByID, TypeOK, Invalidating
    <3>2. CASE user[p] # v
      BY <1>8, <3>2, InvalidatingKept DEF GetByID, TypeOK
    <3>3. QED
      BY <3>1, <3>2
  <2>5. QED
    BY <1>b, <2>1, <2>3, <2>4
<1>9. ASSUME NEW p \in Procs, Invalidate(p) PROVE Goal
  <2>1. CASE user[p] = v
    BY <1>9, <2>1, DelEntries DEF Invalidate, Goal
  <2>2. CASE user[p] # v
    <3>1. Kept /\ excused'[v] = excused[v]
      BY <1>9, <2>2 DEF Invalidate, RistrettoDel, TypeOK
    <3>2. Invalidating(v) => Invalidating(v)'
      BY <1>9, <2>2, InvalidatingKept DEF Invalidate, TypeOK
    <3>3. QED
      BY <1>b, <3>1, <3>2
  <2>3. QED
    BY <2>1, <2>2
<1>10. ASSUME NEW u \in Users, RistrettoApply(u) PROVE Goal
  <2>1. UNCHANGED <<at, user>> /\ excused' = excused
    BY <1>10 DEF RistrettoApply, handler
  <2>2. CASE u = v
    BY <1>10, <1>a, <1>c, <2>1, <2>2, ApplyEntries DEF Goal
  <2>3. CASE u # v
    <3>1. Kept
      BY <1>10, <2>3 DEF RistrettoApply, TypeOK
    <3>2. QED
      BY <1>b, <1>c, <2>1, <3>1
  <2>4. QED
    BY <2>2, <2>3
<1>11. ASSUME NEW u \in Users, RistrettoExpire(u) PROVE Goal
  <2>1. UNCHANGED <<at, user>>
    BY <1>11 DEF RistrettoExpire, handler
  <2>2. CASE u = v
    <3>1. ~excused[v] \/ setBuf[v] = <<>>
      BY <1>11, <2>2 DEF RistrettoExpire, TypeOK
    <3>2. QED
      BY <1>11, <1>a, <1>c, <2>1, <2>2, <3>1, ExpireEntries DEF Goal
  <2>3. CASE u # v
    <3>1. Kept /\ excused'[v] = excused[v]
      BY <1>11, <2>3 DEF RistrettoExpire, TypeOK
    <3>2. QED
      BY <1>b, <1>c, <2>1, <3>1
  <2>4. QED
    BY <2>2, <2>3
<1>12. ASSUME Restart PROVE Goal
  <2>1. cache'[v] = None /\ setBuf'[v] = <<>>
    BY <1>12 DEF Restart
  <2>2. \A i \in 0..Len(setBuf'[v]) : Entry(v, i)' = None
    BY <2>1 DEF Entry
  <2>3. QED
    BY <2>2 DEF Goal, EffectiveAt, FreshAt
<1>13. ASSUME UNCHANGED vars PROVE Goal
  <2>1. Kept /\ excused'[v] = excused[v] /\ UNCHANGED <<at, user>>
    BY <1>13 DEF vars
  <2>2. QED
    BY <2>1, <1>b, <1>c
<1>14. QED
  <2>1. Goal
    BY <1>1, <1>2, <1>3, <1>4, <1>5, <1>6, <1>7, <1>8, <1>9, <1>10, <1>11, <1>12, <1>13
    DEF Next
  <2>2. QED
    BY <2>1 DEF Goal

-----------------------------------------------------------------------------
(* Loads and reads.                                                        *)

\* No step makes an acknowledged password older.
LEMMA AckedGrows ==
    ASSUME TypeOK, [Next]_vars, NEW v \in Users
    PROVE  acked'[v] >= acked[v]
<1>1. ASSUME NEW p \in Procs, Invalidate(p) PROVE acked'[v] >= acked[v]
  <2>1. user[p] \in Users /\ floor[p] \in Nat /\ acked[v] \in Nat
    BY <1>1 DEF Invalidate, TypeOK
  <2>2. CASE user[p] = v
    <3>1. acked'[v] = IF floor[p] > acked[v] THEN floor[p] ELSE acked[v]
      BY <1>1, <2>1, <2>2 DEF Invalidate, TypeOK
    <3>2. QED
      BY <2>1, <3>1, SMTT(30)
  <2>3. CASE user[p] # v
    BY <1>1, <2>1, <2>3 DEF Invalidate, TypeOK
  <2>4. QED
    BY <2>2, <2>3
<1>2. ASSUME acked' = acked PROVE acked'[v] >= acked[v]
  BY <1>2 DEF TypeOK
<1>3. QED
  BY <1>1, <1>2 DEF Next, vars, GetByEmail, Do, Load, Fill, Deliver, Store, RepoStore,
    UpdatePassword, RepoUpdatePassword,
     Activate, RepoChangeActiveUser, GetByID, RistrettoApply, RistrettoExpire, Restart

\* A waiting read is owed no more than is acknowledged, and its load brings it.
LEMMA NextFlightFresh ==
    ASSUME TypeOK, TypeOK', WellFormed, FlightFresh, [Next]_vars
    PROVE  FlightFresh'
<1> DEFINE At(q) == at[q] \in {"miss", "wait"} =>
                      /\ floor[q] <= acked[user[q]]
                      /\ phase[user[q]] \in {"loaded", "filled"} =>
                            loaded[user[q]].password >= floor[q]
<1>a. SUFFICES ASSUME NEW q \in Procs PROVE At(q)'
  BY DEF FlightFresh
<1>b. At(q)
  BY DEF FlightFresh
<1>c. at[q] \in {"miss", "wait"} => /\ user[q] \in Users /\ floor[q] \in Nat
                                    /\ acked[user[q]] \in Nat /\ acked'[user[q]] \in Nat
                                    /\ acked'[user[q]] >= acked[user[q]]
  BY AckedGrows DEF TypeOK
<1>d. ASSUME at'[q] \in {"miss", "wait"} => at[q] \in {"miss", "wait"}, user'[q] = user[q],
             floor'[q] = floor[q],
             at[q] \in {"miss", "wait"} /\ phase'[user[q]] \in {"loaded", "filled"} =>
                 phase[user[q]] \in {"loaded", "filled"} /\ loaded'[user[q]] = loaded[user[q]]
      PROVE  At(q)'
  BY <1>b, <1>c, <1>d
<1>1. ASSUME NEW p \in Procs, NEW u \in Users, GetByEmail(p, u) PROVE At(q)'
  <2>1. CASE q = p
    <3>a. user'[q] = u /\ floor'[q] = IF Quiet(u) THEN acked[u] ELSE 0
      BY <1>1, <2>1 DEF GetByEmail, TypeOK
    <3>b. acked' = acked /\ phase' = phase /\ loaded' = loaded
      BY <1>1 DEF GetByEmail, group
    <3>c. acked[u] \in Nat
      BY DEF TypeOK
    <3>1. /\ user'[q] = u /\ acked'[u] = acked[u] /\ acked[u] \in Nat
          /\ floor'[q] = IF Quiet(u) THEN acked[u] ELSE 0
          /\ phase' = phase /\ loaded' = loaded
      BY <3>a, <3>b, <3>c
    <3>2. CASE Quiet(u)
      BY <3>1, <3>2 DEF Quiet
    <3>3. CASE ~Quiet(u)
      <4>1. phase[u] \in {"loaded", "filled"} => loaded[u].password \in Nat
        <5>1. loaded[u] \in Row \cup {None}
          BY DEF TypeOK
        <5>2. phase[u] \in {"loaded", "filled"} => loaded[u] # None
          BY DEF WellFormed
        <5>3. QED
          BY <5>1, <5>2 DEF Row
      <4>2. QED
        BY <3>1, <3>3, <4>1
    <3>4. QED
      BY <3>2, <3>3
  <2>2. CASE q # p
    BY <1>1, <2>2, <1>d DEF GetByEmail, group, TypeOK
  <2>3. QED
    BY <2>1, <2>2
<1>2. ASSUME NEW p \in Procs, Do(p) PROVE At(q)'
  BY <1>2, <1>c, <1>d DEF Do, TypeOK
<1>3. ASSUME NEW u \in Users, Load(u) PROVE At(q)'
  <2>1. CASE at[q] \in {"miss", "wait"} /\ user[q] = u /\ phase'[u] = "loaded"
    <3>1. /\ table[u] # None /\ loaded'[u] = table[u] /\ acked' = acked
          /\ user' = user /\ floor' = floor
      BY <1>3, <2>1 DEF Load, handler, TypeOK
    <3>2. table[u].password \in Nat /\ acked[u] \in Nat /\ acked[u] <= table[u].password
      BY <3>1 DEF WellFormed, TypeOK, Row
    <3>3. QED
      BY <1>b, <1>c, <2>1, <3>1, <3>2
  <2>2. CASE ~(at[q] \in {"miss", "wait"} /\ user[q] = u /\ phase'[u] = "loaded")
    BY <1>3, <2>2, <1>c, <1>d DEF Load, handler, TypeOK
  <2>3. QED
    BY <2>1, <2>2
<1>4. ASSUME NEW u \in Users, Fill(u) PROVE At(q)'
  BY <1>4, <1>c, <1>d DEF Fill, handler, TypeOK
<1>5. ASSUME NEW u \in Users, Deliver(u) PROVE At(q)'
  BY <1>5, <1>c, <1>d DEF Deliver, TypeOK
<1>6. ASSUME NEW p \in Procs, NEW u \in Users,
             Store(p, u) \/ UpdatePassword(p, u) \/ Activate(p, u) PROVE At(q)'
  <2>1. CASE q = p
    BY <1>6, <2>1 DEF Store, RepoStore, UpdatePassword, RepoUpdatePassword, Activate,
      RepoChangeActiveUser, Begin, TypeOK
  <2>2. CASE q # p
    <3>1. at'[q] = at[q] /\ user'[q] = user[q] /\ floor'[q] = floor[q]
      BY <1>6, <2>2 DEF Store, RepoStore, UpdatePassword, RepoUpdatePassword,
        Activate, RepoChangeActiveUser, Begin, TypeOK
    <3>2. phase' = phase /\ loaded' = loaded
      BY <1>6 DEF Store, UpdatePassword, Activate, group
    <3>3. QED
      BY <3>1, <3>2, <1>d
  <2>3. QED
    BY <2>1, <2>2
<1>7. ASSUME NEW p \in Procs, GetByID(p) PROVE At(q)'
  BY <1>7, <1>d DEF GetByID, group, TypeOK
<1>8. ASSUME NEW p \in Procs, Invalidate(p) PROVE At(q)'
  BY <1>8, <1>d DEF Invalidate, group, TypeOK
<1>9. ASSUME NEW u \in Users, RistrettoApply(u) \/ RistrettoExpire(u) PROVE At(q)'
  BY <1>9, <1>d DEF RistrettoApply, RistrettoExpire, group, handler
<1>10. ASSUME Restart PROVE At(q)'
  BY <1>10 DEF Restart
<1>11. ASSUME UNCHANGED vars PROVE At(q)'
  BY <1>11, <1>d DEF vars
<1>12. QED
  BY <1>1, <1>2, <1>3, <1>4, <1>5, <1>6, <1>7, <1>8, <1>9, <1>10, <1>11 DEF Next

\* What GetByEmail returns, from the cache or from a load, is as new as it must be.
LEMMA NextQuietReadFresh ==
    ASSUME TypeOK, WellFormed, EntriesFresh, FlightFresh, QuietReadFresh, [Next]_vars
    PROVE  QuietReadFresh'
<1> DEFINE Clean(q) == Ready(q) /\ got[q] # None => got[q].password >= floor[q]
<1>a. SUFFICES ASSUME NEW q \in Procs PROVE Clean(q)'
  BY DEF QuietReadFresh
<1>b. Clean(q) /\ (~Ready(q) => got[q] = None)
  BY DEF QuietReadFresh, WellFormed
<1>c. ASSUME got'[q] = got[q], floor'[q] = floor[q], at'[q] = at[q] \/ ~Ready(q) \/ ~Ready(q)'
      PROVE  Clean(q)'
  BY <1>b, <1>c DEF Ready
<1>1. ASSUME NEW p \in Procs, NEW u \in Users, GetByEmail(p, u) PROVE Clean(q)'
  <2>1. CASE q = p /\ cache[u] # None
    <3>1. /\ got'[q] = cache[u] /\ cache[u].password \in Nat /\ acked[u] \in Nat
          /\ floor'[q] = IF Quiet(u) THEN acked[u] ELSE 0
      BY <1>1, <2>1 DEF GetByEmail, TypeOK, Row
    <3>2. CASE Quiet(u)
      <4>1. 0 \in 0..Len(setBuf[u]) /\ ~Doomed(setBuf[u], 0) /\ Entry(u, 0) = cache[u]
        BY <3>2 DEF Quiet, Doomed, Entry
      <4>2. cache[u].password >= acked[u]
        BY <2>1, <3>2, <4>1 DEF EntriesFresh, Quiet
      <4>3. QED
        BY <3>1, <3>2, <4>2
    <3>3. CASE ~Quiet(u)
      BY <3>1, <3>3
    <3>4. QED
      BY <3>2, <3>3
  <2>2. CASE q = p /\ cache[u] = None
    BY <1>1, <2>2 DEF GetByEmail, TypeOK
  <2>3. CASE q # p
    BY <1>1, <2>3, <1>c DEF GetByEmail, TypeOK
  <2>4. QED
    BY <2>1, <2>2, <2>3
<1>2. ASSUME NEW p \in Procs, Do(p) PROVE Clean(q)'
  BY <1>2, <1>c DEF Do, TypeOK, Ready
<1>3. ASSUME NEW u \in Users, Deliver(u) PROVE Clean(q)'
  <2>1. CASE Waits(q, u)
    <3>1. got'[q] = loaded[u] /\ floor' = floor
      BY <1>3, <2>1 DEF Deliver
    <3>2. loaded[u] # None => loaded[u].password >= floor[q]
      BY <1>3, <2>1 DEF Deliver, Waits, FlightFresh, WellFormed
    <3>3. QED
      BY <3>1, <3>2
  <2>2. CASE ~Waits(q, u)
    BY <1>3, <2>2, <1>c DEF Deliver
  <2>3. QED
    BY <2>1, <2>2
<1>4. ASSUME NEW p \in Procs, NEW u \in Users,
             Store(p, u) \/ UpdatePassword(p, u) \/ Activate(p, u) PROVE Clean(q)'
  <2>1. CASE q = p
    BY <1>4, <2>1 DEF Store, RepoStore, UpdatePassword, RepoUpdatePassword, Activate,
      RepoChangeActiveUser, Begin, TypeOK
  <2>2. CASE q # p
    BY <1>4, <2>2, <1>c DEF Store, RepoStore, UpdatePassword, RepoUpdatePassword,
      Activate, RepoChangeActiveUser, Begin, TypeOK
  <2>3. QED
    BY <2>1, <2>2
<1>5. ASSUME NEW p \in Procs, GetByID(p) \/ Invalidate(p) PROVE Clean(q)'
  BY <1>5, <1>c DEF GetByID, Invalidate, Ready, TypeOK
<1>6. ASSUME NEW u \in Users, Load(u) \/ Fill(u) \/ RistrettoApply(u) \/ RistrettoExpire(u)
      PROVE  Clean(q)'
  BY <1>6, <1>c DEF Load, Fill, RistrettoApply, RistrettoExpire, handler
<1>7. ASSUME Restart PROVE Clean(q)'
  BY <1>7 DEF Restart
<1>8. ASSUME UNCHANGED vars PROVE Clean(q)'
  BY <1>8, <1>c DEF vars
<1>9. QED
  BY <1>1, <1>2, <1>3, <1>4, <1>5, <1>6, <1>7, <1>8 DEF Next

-----------------------------------------------------------------------------
(* The invariant is inductive.                                             *)

LEMMA InitIInv == Init => IInv
<1> SUFFICES ASSUME Init PROVE IInv
  OBVIOUS
<1>1. TypeOK
  BY InitTypeOK
<1>2. WellFormed /\ FlightFresh /\ QuietReadFresh
  BY DEF Init, WellFormed, FlightFresh, QuietReadFresh, Ready
<1>3. \A u \in Users : \A i \in 0..Len(setBuf[u]) : Entry(u, i) = None
  BY DEF Init, Entry
<1>4. InvalidationEffective /\ EntriesFresh
  BY <1>3 DEF InvalidationEffective, EntriesFresh
<1>5. QED
  BY <1>1, <1>2, <1>4 DEF IInv

LEMMA NextIInv == IInv /\ [Next]_vars => IInv'
<1> SUFFICES ASSUME IInv, [Next]_vars PROVE IInv'
  OBVIOUS
<1> USE DEF IInv
<1>1. TypeOK'
  BY NextTypeOK
<1>2. WellFormed'
  BY <1>1, NextWellFormed
<1>3. InvalidationEffective'
  BY NextEntries DEF InvalidationEffective, EffectiveAt
<1>4. EntriesFresh'
  BY NextEntries DEF EntriesFresh, FreshAt
<1>5. FlightFresh' /\ QuietReadFresh'
  BY <1>1, NextFlightFresh, NextQuietReadFresh
<1>6. QED
  BY <1>1, <1>2, <1>3, <1>4, <1>5

\* The Del of UpdatePassword and Activate reaches every cached and every
\* buffered row that differs from the table's, for any number of users and of
\* concurrent handlers, unless the write skipped it or a load overtook it.
THEOREM DelReachesStaleRows == Spec => []InvalidationEffective
<1>1. IInv => InvalidationEffective
  BY DEF IInv
<1>2. QED
  BY <1>1, InitIInv, NextIInv, PTL DEF Spec

\* A GetByEmail that begins while its user is quiet never returns a password
\* older than an UpdatePassword that had returned before.
THEOREM QuietReadsAreFresh == Spec => []QuietReadFresh
<1>1. IInv => QuietReadFresh
  BY DEF IInv
<1>2. QED
  BY <1>1, InitIInv, NextIInv, PTL DEF Spec

=============================================================================
