------------------------ MODULE RefreshSession_proofs ------------------------
(***************************************************************************)
(* A session has one live refresh token at most, a rotation never outlives *)
(* a revocation, and a logout ends its session: for any number of tokens,  *)
(* families and open transactions.  All three rest on the row lock that    *)
(* SELECT ... FOR UPDATE takes on the presented token.                     *)
(***************************************************************************)
EXTENDS RefreshSession, TLAPS

LockOp == {"rotate", "logout", "revokeFamily"}

\* A token is locked by one transaction at most.
LocksAreExclusive ==
    \A x, y \in Txn :
        txn[x].op \in LockOp /\ txn[y].op \in LockOp /\ txn[x].token = txn[y].token => x = y

\* What a rotation checked stays true until it commits; its successor is new.
RotationsAreDue ==
    /\ \A x \in Txn : txn[x].op = "rotate" => Live(txn[x].token) /\ ~Exists(txn[x].next)
    /\ \A x, y \in Txn :
         txn[x].op = "rotate" /\ txn[y].op = "rotate" /\ txn[x].next = txn[y].next => x = y

\* The rows an UPDATE will touch exist.
DoomedExist ==
    \A x \in Txn : txn[x].op \in {"revoke", "revokeFamily"} => \A t \in txn[x].doomed : Exists(t)

\* A logout that locked a live token will reach all of its family.
LogoutsAreComplete ==
    \A x \in Txn :
        /\ txn[x].op \in {"logout", "revokeFamily"} => Exists(txn[x].token)
        /\ txn[x].op \in {"logout", "revokeFamily"} /\ txn[x].wasLive => Live(txn[x].token)
        /\ txn[x].op = "revokeFamily" /\ txn[x].wasLive =>
             \A t \in Members(FamilyOf(txn[x].token)) : row[t].revoked \/ t \in txn[x].doomed

IInv ==
    /\ TypeOK
    /\ OneLiveTokenPerFamily
    /\ LocksAreExclusive
    /\ RotationsAreDue
    /\ DoomedExist
    /\ LogoutsAreComplete

-----------------------------------------------------------------------------
(* Rows and transactions. *)

\* Marking a row of refresh_tokens as used or revoked changes nothing else.
LEMMA RowShape ==
    /\ NoRow \notin Row
    /\ \A r \in Row : /\ r # NoRow /\ r.family \in Family
                      /\ [r EXCEPT !.revoked = TRUE] \in Row
                      /\ [r EXCEPT !.revoked = TRUE].revoked
                      /\ [r EXCEPT !.revoked = TRUE].family = r.family
                      /\ [r EXCEPT !.used = TRUE] \in Row
                      /\ [r EXCEPT !.used = TRUE].used
                      /\ [r EXCEPT !.used = TRUE].family = r.family
                      /\ [r EXCEPT !.used = TRUE].revoked = r.revoked
    /\ \A f \in Family : [family |-> f, used |-> FALSE, revoked |-> FALSE] \in Row
<1>1. \A r \in Row : DOMAIN r = {"family", "used", "revoked"}
  BY DEF Row
<1>2. DOMAIN NoRow = {"family"}
  BY DEF NoRow
<1> QED  BY <1>1, <1>2 DEF Row

\* The fields an open transaction has, by its operation.
LEMMA TxnShape ==
    ASSUME TypeOK, NEW x \in Txn
    PROVE  /\ txn[x].op = "rotate" => txn[x].token \in Token /\ txn[x].next \in Token
           /\ txn[x].op \in {"logout", "revokeFamily"} =>
                txn[x].token \in Token /\ txn[x].wasLive \in BOOLEAN
           /\ txn[x].op \in {"revoke", "revokeFamily"} => txn[x].doomed \subseteq Token
           /\ txn[x].op \in LockOp \cup {"revoke", "idle"}
BY DEF TypeOK, Rotation, Logout, Revocation, LogoutRevocation, Idle, LockOp

\* A token that exists has a family.
LEMMA ExistsInRow ==
    ASSUME TypeOK, NEW t \in Token, Exists(t)
    PROVE  row[t] \in Row /\ FamilyOf(t) \in Family
BY DEF TypeOK, Exists, FamilyOf, Row

-----------------------------------------------------------------------------
(* The steps that leave the table alone. *)

\* A rollback preserves the invariant.
LEMMA AbortStep ==
    ASSUME IInv, NEW x \in Txn, Abort(x)
    PROVE  IInv'
<1> USE DEF Abort
<1>1. TypeOK'
  BY DEF IInv, TypeOK
<1>2. /\ \A y \in Txn \ {x} : txn'[y] = txn[y]
      /\ txn'[x].op = "idle"
  BY DEF IInv, TypeOK, Idle
<1>3. OneLiveTokenPerFamily'
  BY DEF IInv, OneLiveTokenPerFamily, Live, Exists, FamilyOf
<1>4. LocksAreExclusive'
  BY <1>2 DEF IInv, LocksAreExclusive, LockOp
<1>5. RotationsAreDue'
  BY <1>2 DEF IInv, RotationsAreDue, Live, Exists
<1>6. DoomedExist'
  BY <1>2 DEF IInv, DoomedExist, Exists
<1>7. LogoutsAreComplete'
  BY <1>2 DEF IInv, LogoutsAreComplete, Live, Exists, Members, FamilyOf
<1> QED  BY <1>1, <1>3, <1>4, <1>5, <1>6, <1>7 DEF IInv

\* A rotation begins on a token no one has locked, with a successor no one
\* has drawn.
LEMMA BeginRotateStep ==
    ASSUME IInv, NEW x \in Txn, NEW t \in Token, BeginRotate(x, t)
    PROVE  IInv'
<1>0. PICK n \in Token : /\ ~Exists(n) /\ n \notin Drawn
                         /\ txn' = [txn EXCEPT ![x] = [op |-> "rotate", token |-> t, next |-> n]]
  BY DEF BeginRotate, Rotate
<1>a. UNCHANGED <<row, active, expired, reused>> /\ ~LockedByOther(x, t) /\ Live(t)
  BY DEF BeginRotate
<1>1. TypeOK'
  BY <1>0, <1>a DEF IInv, TypeOK, Rotation
<1>2. /\ \A y \in Txn \ {x} : txn'[y] = txn[y]
      /\ txn'[x].op = "rotate" /\ txn'[x].token = t /\ txn'[x].next = n
  BY <1>0 DEF IInv, TypeOK
<1>3. OneLiveTokenPerFamily'
  BY <1>a DEF IInv, OneLiveTokenPerFamily, Live, Exists, FamilyOf
<1>4. LocksAreExclusive'
  BY <1>2, <1>a DEF IInv, LocksAreExclusive, LockOp, LockedByOther
<1>5. \A y \in Txn \ {x} : txn[y].op = "rotate" => txn[y].next # n
  BY <1>0 DEF Drawn
<1>6. RotationsAreDue'
  BY <1>0, <1>2, <1>5, <1>a DEF IInv, RotationsAreDue, Live, Exists
<1>7. DoomedExist'
  BY <1>2, <1>a DEF IInv, DoomedExist, Exists
<1>8. LogoutsAreComplete'
  BY <1>2, <1>a DEF IInv, LogoutsAreComplete, Live, Exists, Members, FamilyOf
<1> QED  BY <1>1, <1>3, <1>4, <1>6, <1>7, <1>8 DEF IInv

\* A logout begins with the lock on the presented token.
LEMMA BeginLogoutStep ==
    ASSUME IInv, NEW x \in Txn, NEW t \in Token, BeginLogout(x, t)
    PROVE  IInv'
<1>a. /\ UNCHANGED <<row, active, expired, reused>> /\ ~LockedByOther(x, t) /\ Exists(t)
      /\ txn' = [txn EXCEPT ![x] = [op |-> "logout", token |-> t, wasLive |-> Live(t)]]
  BY DEF BeginLogout
<1>b. Live(t) \in BOOLEAN
  BY DEF Live, Exists
<1>1. TypeOK'
  BY <1>a, <1>b DEF IInv, TypeOK, Logout
<1>2. /\ \A y \in Txn \ {x} : txn'[y] = txn[y]
      /\ txn'[x].op = "logout" /\ txn'[x].token = t /\ txn'[x].wasLive = Live(t)
  BY <1>a DEF IInv, TypeOK
<1>3. OneLiveTokenPerFamily'
  BY <1>a DEF IInv, OneLiveTokenPerFamily, Live, Exists, FamilyOf
<1>4. LocksAreExclusive'
  BY <1>2, <1>a DEF IInv, LocksAreExclusive, LockOp, LockedByOther
<1>5. RotationsAreDue'
  BY <1>2, <1>a DEF IInv, RotationsAreDue, Live, Exists
<1>6. DoomedExist'
  BY <1>2, <1>a DEF IInv, DoomedExist, Exists
<1>7. LogoutsAreComplete'
  BY <1>2, <1>a DEF IInv, LogoutsAreComplete, Live, Exists, Members, FamilyOf
<1> QED  BY <1>1, <1>3, <1>4, <1>5, <1>6, <1>7 DEF IInv

\* The snapshot of a logout holds every unrevoked token of a family whose live
\* token it has locked.
LEMMA RevokeFamilyStep ==
    ASSUME IInv, NEW x \in Txn, RevokeFamily(x)
    PROVE  IInv'
<1> DEFINE t == txn[x].token
           doomed == {u \in Members(FamilyOf(t)) : ~row[u].revoked}
<1>a. /\ UNCHANGED <<row, active, expired, reused>> /\ txn[x].op = "logout"
      /\ txn' = [txn EXCEPT ![x] = [op |-> "revokeFamily", token |-> t,
                                    wasLive |-> txn[x].wasLive, doomed |-> doomed]]
  BY DEF RevokeFamily
<1>b. t \in Token /\ txn[x].wasLive \in BOOLEAN
  BY <1>a, TxnShape DEF IInv
<1>c. doomed \subseteq Token /\ \A u \in doomed : Exists(u)
  BY DEF Members
<1>1. TypeOK'
  <2> HIDE DEF doomed, t
  <2> QED  BY <1>a, <1>b, <1>c DEF IInv, TypeOK, LogoutRevocation
<1>2. /\ \A y \in Txn \ {x} : txn'[y] = txn[y]
      /\ txn'[x].op = "revokeFamily" /\ txn'[x].token = t
      /\ txn'[x].wasLive = txn[x].wasLive /\ txn'[x].doomed = doomed
  <2> HIDE DEF doomed, t
  <2> QED  BY <1>a DEF IInv, TypeOK
<1>3. OneLiveTokenPerFamily'
  BY <1>a DEF IInv, OneLiveTokenPerFamily, Live, Exists, FamilyOf
<1>4. LocksAreExclusive'
  BY <1>2, <1>a DEF IInv, LocksAreExclusive, LockOp
<1>5. RotationsAreDue'
  BY <1>2, <1>a DEF IInv, RotationsAreDue, Live, Exists
<1>6. DoomedExist'
  BY <1>2, <1>a, <1>c DEF IInv, DoomedExist, Exists
<1>7. LogoutsAreComplete'
  BY <1>2, <1>a DEF IInv, LogoutsAreComplete, Live, Exists, Members, FamilyOf
<1> QED  BY <1>1, <1>3, <1>4, <1>5, <1>6, <1>7 DEF IInv

\* The snapshot of a bulk revocation holds existing tokens.
LEMMA RevokeAllStep ==
    ASSUME IInv, NEW x \in Txn, RevokeAll(x)
    PROVE  IInv'
<1> DEFINE doomed == {t \in Token : Exists(t) /\ ~row[t].revoked}
<1>a. /\ UNCHANGED <<row, active, expired, reused>>
      /\ txn' = [txn EXCEPT ![x] = [op |-> "revoke", doomed |-> doomed]]
  BY DEF RevokeAll
<1>c. doomed \subseteq Token /\ \A u \in doomed : Exists(u)
  OBVIOUS
<1> HIDE DEF doomed
<1>1. TypeOK'
  BY <1>a, <1>c DEF IInv, TypeOK, Revocation
<1>2. /\ \A y \in Txn \ {x} : txn'[y] = txn[y]
      /\ txn'[x].op = "revoke" /\ txn'[x].doomed = doomed
  BY <1>a DEF IInv, TypeOK
<1>3. OneLiveTokenPerFamily'
  BY <1>a DEF IInv, OneLiveTokenPerFamily, Live, Exists, FamilyOf
<1>4. LocksAreExclusive'
  BY <1>2 DEF IInv, LocksAreExclusive, LockOp
<1>5. RotationsAreDue'
  BY <1>2, <1>a DEF IInv, RotationsAreDue, Live, Exists
<1>6. DoomedExist'
  BY <1>2, <1>a, <1>c DEF IInv, DoomedExist, Exists
<1>7. LogoutsAreComplete'
  BY <1>2, <1>a DEF IInv, LogoutsAreComplete, Live, Exists, Members, FamilyOf
<1> QED  BY <1>1, <1>3, <1>4, <1>5, <1>6, <1>7 DEF IInv

\* The steps that touch neither the table nor the transactions.
LEMMA AsideStep ==
    ASSUME IInv, UNCHANGED <<row, txn>>, active' \in BOOLEAN,
           expired' \subseteq Family, reused' \subseteq Family
    PROVE  IInv'
<1>1. TypeOK' /\ OneLiveTokenPerFamily'
  BY DEF IInv, TypeOK, OneLiveTokenPerFamily, Live, Exists, FamilyOf
<1>2. LocksAreExclusive' /\ RotationsAreDue' /\ DoomedExist'
  BY DEF IInv, LocksAreExclusive, RotationsAreDue, DoomedExist, Live, Exists
<1>3. LogoutsAreComplete'
  BY DEF IInv, LogoutsAreComplete, Live, Exists, Members, FamilyOf
<1> QED  BY <1>1, <1>2, <1>3 DEF IInv

-----------------------------------------------------------------------------
(* The steps that write the table. *)

\* A login opens a family of its own.
LEMMA LoginStep ==
    ASSUME IInv, Login
    PROVE  IInv'
<1>1. PICK t \in Token, f \in Family :
        /\ ~Exists(t) /\ t \notin Drawn /\ Members(f) = {}
        /\ row' = [row EXCEPT ![t] = [family |-> f, used |-> FALSE, revoked |-> FALSE]]
  BY DEF Login
<1>2. UNCHANGED <<txn, active, expired, reused>>
  BY DEF Login
<1>3. /\ row'[t] = [family |-> f, used |-> FALSE, revoked |-> FALSE] /\ row'[t] \in Row
      /\ \A u \in Token \ {t} : row'[u] = row[u]
      /\ row' \in [Token -> Row \cup {NoRow}]
  BY <1>1, RowShape DEF IInv, TypeOK
<1>4. Exists(t)' /\ FamilyOf(t)' = f
  BY <1>3, RowShape DEF Exists, FamilyOf
<1>5. \A u \in Token : Exists(u) => /\ u # t /\ Exists(u)' /\ (Live(u)' <=> Live(u))
                                    /\ FamilyOf(u)' = FamilyOf(u) /\ FamilyOf(u) # f
                                    /\ row'[u] = row[u]
  BY <1>1, <1>3 DEF Exists, Live, FamilyOf, Members
<1>6. \A u \in Token \ {t} : Exists(u)' => Exists(u)
  BY <1>3 DEF Exists
<1>7. TypeOK'
  BY <1>2, <1>3 DEF IInv, TypeOK
<1>8. OneLiveTokenPerFamily'
  <2> SUFFICES ASSUME NEW u \in Token, NEW v \in Token, Live(u)', Live(v)',
                      FamilyOf(u)' = FamilyOf(v)'
               PROVE  u = v
    BY DEF OneLiveTokenPerFamily
  <2>1. Exists(u)' /\ Exists(v)'
    BY DEF Live
  <2> QED  BY <2>1, <1>4, <1>5, <1>6 DEF IInv, OneLiveTokenPerFamily
<1>9. LocksAreExclusive'
  BY <1>2 DEF IInv, LocksAreExclusive
<1>10. RotationsAreDue'
  <2>1. \A x \in Txn : txn[x].op = "rotate" => txn[x].next # t
    BY <1>1 DEF Drawn
  <2>2. \A x \in Txn : txn[x].op = "rotate" => Live(txn[x].token)' /\ ~Exists(txn[x].next)'
    BY <2>1, <1>2, <1>5, <1>6, TxnShape DEF IInv, RotationsAreDue, Live, Exists, FamilyOf
  <2> QED  BY <2>2, <1>2 DEF IInv, RotationsAreDue, Live, Exists
<1>11. DoomedExist'
  <2>1. \A x \in Txn :
          txn[x].op \in {"revoke", "revokeFamily"} => \A u \in txn[x].doomed : Exists(u)'
    BY <1>5, TxnShape DEF IInv, DoomedExist
  <2> QED  BY <2>1, <1>2 DEF DoomedExist, Exists
<1>12. LogoutsAreComplete'
  <2> SUFFICES ASSUME NEW x \in Txn, txn[x].op \in {"logout", "revokeFamily"}
               PROVE  /\ Exists(txn[x].token)'
                      /\ txn[x].wasLive => Live(txn[x].token)'
                      /\ txn[x].op = "revokeFamily" /\ txn[x].wasLive =>
                           \A u \in Members(FamilyOf(txn[x].token))' :
                             row'[u].revoked \/ u \in txn[x].doomed
    BY <1>2 DEF LogoutsAreComplete, Exists, Live, Members, FamilyOf
  <2>1. txn[x].token \in Token /\ Exists(txn[x].token)
    BY TxnShape DEF IInv, LogoutsAreComplete
  <2>2. Members(FamilyOf(txn[x].token))' = Members(FamilyOf(txn[x].token))
    BY <2>1, <1>2, <1>4, <1>5, <1>6 DEF Members, Exists, FamilyOf
  <2>3. \A u \in Members(FamilyOf(txn[x].token)) : row'[u] = row[u]
    BY <1>5 DEF Members
  <2> QED  BY <2>1, <2>2, <2>3, <1>2, <1>5 DEF IInv, LogoutsAreComplete, Exists, Live, FamilyOf, Members
<1> QED  BY <1>7, <1>8, <1>9, <1>10, <1>11, <1>12 DEF IInv

\* A rotation replaces the live token of its family by its successor.
LEMMA EndRotateStep ==
    ASSUME IInv, NEW x \in Txn, EndRotate(x)
    PROVE  IInv'
<1>0. PICK t \in Token, n \in Token, f \in Family :
        /\ t = txn[x].token /\ n = txn[x].next /\ f = FamilyOf(t)
        /\ Live(t) /\ Exists(t) /\ ~Exists(n)
  BY TxnShape, ExistsInRow DEF EndRotate, IInv, RotationsAreDue, Live
<1>1. txn[x].op = "rotate" /\ n # t
  BY <1>0 DEF EndRotate
<1>2. /\ row' = [row EXCEPT ![t].used = TRUE,
                            ![n] = [family |-> f, used |-> FALSE, revoked |-> FALSE]]
      /\ txn' = [txn EXCEPT ![x] = Idle] /\ UNCHANGED <<active, expired, reused>>
  BY <1>0 DEF EndRotate
<1>3. row[t] \in Row
  BY <1>0, ExistsInRow DEF IInv
<1>4. /\ row'[n] = [family |-> f, used |-> FALSE, revoked |-> FALSE] /\ row'[n] \in Row
      /\ row'[t] = [row[t] EXCEPT !.used = TRUE] /\ row'[t] \in Row
      /\ \A u \in Token \ {t, n} : row'[u] = row[u]
      /\ row' \in [Token -> Row \cup {NoRow}]
  <2>1. [family |-> f, used |-> FALSE, revoked |-> FALSE] \in Row
        /\ [row[t] EXCEPT !.used = TRUE] \in Row
    BY <1>0, <1>3, RowShape
  <2> QED  BY <1>1, <1>2, <2>1 DEF IInv, TypeOK
<1>5. Exists(n)' /\ FamilyOf(n)' = f /\ Exists(t)' /\ FamilyOf(t)' = f /\ ~Live(t)'
  <2>1. row'[n] # NoRow /\ row'[n].family = f
    BY <1>4, RowShape
  <2>2. row'[t] # NoRow /\ row'[t].used /\ row'[t].family = row[t].family
    <3>1. row'[t] # NoRow
      BY <1>4, RowShape
    <3>2. row'[t].used
      BY <1>3, <1>4, RowShape
    <3>3. row'[t].family = row[t].family
      BY <1>3, <1>4, RowShape
    <3> QED  BY <3>1, <3>2, <3>3
  <2> QED  BY <1>0, <2>1, <2>2 DEF Exists, FamilyOf, Live
<1>6. \A u \in Token : Exists(u) => /\ u # n /\ Exists(u)' /\ FamilyOf(u)' = FamilyOf(u)
                                    /\ (u # t => (Live(u)' <=> Live(u)))
                                    /\ row'[u].revoked = row[u].revoked
  BY <1>0, <1>1, <1>3, <1>4, <1>5, RowShape DEF Exists, Live, FamilyOf, Row
<1>7. \A u \in Token \ {n} : Exists(u)' => Exists(u)
  BY <1>0, <1>4 DEF Exists
<1>8. /\ \A y \in Txn \ {x} : txn'[y] = txn[y]
      /\ txn'[x].op = "idle"
  BY <1>2 DEF IInv, TypeOK, Idle
<1>9. \A y \in Txn \ {x} : txn[y].op \in LockOp => txn[y].token # t
  BY <1>0, <1>1 DEF IInv, LocksAreExclusive, LockOp
<1>10. TypeOK'
  BY <1>2, <1>4 DEF IInv, TypeOK
<1>11. OneLiveTokenPerFamily'
  <2> SUFFICES ASSUME NEW u \in Token, NEW v \in Token, Live(u)', Live(v)',
                      FamilyOf(u)' = FamilyOf(v)'
               PROVE  u = v
    BY DEF OneLiveTokenPerFamily
  <2>1. Exists(u)' /\ Exists(v)' /\ u # t /\ v # t
    BY <1>5 DEF Live, Exists
  <2>2. ASSUME NEW w \in Token, w # t, w # n, Live(w)'
        PROVE  Live(w) /\ FamilyOf(w)' = FamilyOf(w) /\ FamilyOf(w) # f
    <3>1. Exists(w) /\ Live(w)
      BY <2>2, <1>6, <1>7 DEF Live
    <3> QED  BY <3>1, <2>2, <1>0, <1>6 DEF IInv, OneLiveTokenPerFamily
  <2> QED  BY <2>1, <2>2, <1>5 DEF IInv, OneLiveTokenPerFamily, Live, Exists, FamilyOf
<1>12. LocksAreExclusive'
  BY <1>8 DEF IInv, LocksAreExclusive, LockOp
<1>13. RotationsAreDue'
  <2>1. ASSUME NEW y \in Txn, y # x, txn[y].op = "rotate"
        PROVE  Live(txn[y].token)' /\ ~Exists(txn[y].next)'
    <3>1. txn[y].token \in Token /\ txn[y].next \in Token
          /\ Live(txn[y].token) /\ ~Exists(txn[y].next) /\ txn[y].next # n
      BY <2>1, <1>0, <1>1, TxnShape DEF IInv, RotationsAreDue
    <3> QED  BY <2>1, <3>1, <1>6, <1>7, <1>8, <1>9 DEF Live, LockOp, Exists, FamilyOf
  <2> QED  BY <2>1, <1>8 DEF IInv, RotationsAreDue, Live, Exists
<1>14. DoomedExist'
  <2>1. \A y \in Txn \ {x} :
          txn[y].op \in {"revoke", "revokeFamily"} => \A u \in txn[y].doomed : Exists(u)'
    BY <1>6, TxnShape DEF IInv, DoomedExist
  <2> QED  BY <2>1, <1>8 DEF DoomedExist, Exists
<1>15. LogoutsAreComplete'
  <2> SUFFICES ASSUME NEW y \in Txn, y # x, txn[y].op \in {"logout", "revokeFamily"}
               PROVE  /\ Exists(txn[y].token)'
                      /\ txn[y].wasLive => Live(txn[y].token)'
                      /\ txn[y].op = "revokeFamily" /\ txn[y].wasLive =>
                           \A u \in Members(FamilyOf(txn[y].token))' :
                             row'[u].revoked \/ u \in txn[y].doomed
    BY <1>8 DEF LogoutsAreComplete, Exists, Live, Members, FamilyOf
  <2>1. txn[y].token \in Token /\ Exists(txn[y].token) /\ txn[y].token # t
    BY TxnShape, <1>9 DEF IInv, LogoutsAreComplete, LockOp
  <2>2. txn[y].wasLive => Live(txn[y].token)
    BY DEF IInv, LogoutsAreComplete
  <2>3. txn[y].wasLive => FamilyOf(txn[y].token) # f
    BY <2>1, <2>2, <1>0 DEF IInv, OneLiveTokenPerFamily
  <2>4. txn[y].wasLive =>
          Members(FamilyOf(txn[y].token))' = Members(FamilyOf(txn[y].token))
    BY <2>1, <2>3, <1>5, <1>6, <1>7, <1>8 DEF Members, Exists, FamilyOf
  <2>5. \A u \in Members(FamilyOf(txn[y].token)) : row'[u].revoked = row[u].revoked
    BY <1>6 DEF Members
  <2> QED  BY <2>1, <2>2, <2>4, <2>5, <1>6, <1>8 DEF IInv, LogoutsAreComplete, Exists, Live, FamilyOf, Members
<1> QED  BY <1>10, <1>11, <1>12, <1>13, <1>14, <1>15 DEF IInv

\* A revocation writes only rows that no open rotation relies on.
LEMMA EndRevokeStep ==
    ASSUME IInv, NEW x \in Txn, EndRevoke(x)
    PROVE  IInv'
<1> DEFINE doomed == txn[x].doomed
<1>1. /\ txn[x].op \in {"revoke", "revokeFamily"} /\ doomed \subseteq Token
      /\ \A t \in doomed : Exists(t) /\ ~LockedByOther(x, t)
  BY TxnShape DEF EndRevoke, IInv, DoomedExist
<1>2. /\ row' = Revoked(doomed) /\ txn' = [txn EXCEPT ![x] = Idle]
      /\ UNCHANGED <<active, expired, reused>>
  BY DEF EndRevoke
<1>3. /\ \A t \in Token \ doomed : row'[t] = row[t]
      /\ \A t \in doomed : row'[t] = [row[t] EXCEPT !.revoked = TRUE]
  BY <1>1, <1>2 DEF Revoked
<1>4. \A t \in doomed : row[t] \in Row /\ row'[t] \in Row /\ row'[t].revoked
                        /\ row'[t].family = row[t].family
  <2> SUFFICES ASSUME NEW t \in doomed
               PROVE  row[t] \in Row /\ row'[t] \in Row /\ row'[t].revoked
                      /\ row'[t].family = row[t].family
    OBVIOUS
  <2>1. t \in Token /\ row[t] \in Row
    BY <1>1, ExistsInRow DEF IInv
  <2>2. row'[t] = [row[t] EXCEPT !.revoked = TRUE]
    BY <1>3
  <2> QED  BY <2>1, <2>2, RowShape
<1>5. row' \in [Token -> Row \cup {NoRow}]
  <2>1. \A t \in Token : row'[t] \in Row \cup {NoRow}
    BY <1>3, <1>4 DEF IInv, TypeOK
  <2>2. DOMAIN row' = Token /\ row' = [t \in Token |-> row'[t]]
    BY <1>2 DEF Revoked
  <2> QED  BY <2>1, <2>2
<1>6. \A t \in Token : /\ Exists(t)' <=> Exists(t)
                       /\ Exists(t) => FamilyOf(t)' = FamilyOf(t)
                       /\ Live(t)' => Live(t) /\ t \notin doomed
                       /\ Live(t) /\ t \notin doomed => Live(t)'
                       /\ row[t].revoked /\ Exists(t) => row'[t].revoked
  BY <1>1, <1>3, <1>4, RowShape DEF Exists, FamilyOf, Live
<1>7. /\ \A y \in Txn \ {x} : txn'[y] = txn[y]
      /\ txn'[x].op = "idle"
  BY <1>2 DEF IInv, TypeOK, Idle
<1>8. \A y \in Txn \ {x} : txn[y].op \in LockOp => txn[y].token \notin doomed
  BY <1>1 DEF LockedByOther, LockOp
<1>9. TypeOK'
  BY <1>2, <1>5 DEF IInv, TypeOK
<1>10. OneLiveTokenPerFamily'
  BY <1>6 DEF IInv, OneLiveTokenPerFamily, Live
<1>11. LocksAreExclusive'
  BY <1>7 DEF IInv, LocksAreExclusive, LockOp
<1>12. RotationsAreDue'
  <2>1. \A y \in Txn \ {x} : txn[y].op = "rotate" =>
          Live(txn[y].token)' /\ ~Exists(txn[y].next)'
    BY <1>6, <1>7, <1>8, TxnShape DEF IInv, RotationsAreDue, LockOp, Exists, Live, FamilyOf
  <2> QED  BY <2>1, <1>7 DEF IInv, RotationsAreDue, Live, Exists
<1>13. DoomedExist'
  <2>1. \A y \in Txn \ {x} :
          txn[y].op \in {"revoke", "revokeFamily"} => \A u \in txn[y].doomed : Exists(u)'
    BY <1>6, TxnShape DEF IInv, DoomedExist
  <2> QED  BY <2>1, <1>7 DEF DoomedExist, Exists
<1>14. LogoutsAreComplete'
  <2> SUFFICES ASSUME NEW y \in Txn, y # x, txn[y].op \in {"logout", "revokeFamily"}
               PROVE  /\ Exists(txn[y].token)'
                      /\ txn[y].wasLive => Live(txn[y].token)'
                      /\ txn[y].op = "revokeFamily" /\ txn[y].wasLive =>
                           \A u \in Members(FamilyOf(txn[y].token))' :
                             row'[u].revoked \/ u \in txn[y].doomed
    BY <1>7 DEF LogoutsAreComplete, Exists, Live, Members, FamilyOf
  <2>1. txn[y].token \in Token /\ Exists(txn[y].token) /\ txn[y].token \notin doomed
    BY TxnShape, <1>8 DEF IInv, LogoutsAreComplete, LockOp
  <2>2. Members(FamilyOf(txn[y].token))' = Members(FamilyOf(txn[y].token))
    BY <2>1, <1>6, <1>7 DEF Members, Exists, FamilyOf
  <2>3. \A u \in Members(FamilyOf(txn[y].token)) : row[u].revoked => row'[u].revoked
    BY <1>6 DEF Members
  <2> QED  BY <2>1, <2>2, <2>3, <1>6, <1>7 DEF IInv, LogoutsAreComplete, Exists, Live, FamilyOf, Members
<1> QED  BY <1>9, <1>10, <1>11, <1>12, <1>13, <1>14 DEF IInv

-----------------------------------------------------------------------------
(* The theorems. *)

\* An empty table satisfies the invariant.
LEMMA InitInv == Init => IInv
BY DEF Init, IInv, TypeOK, OneLiveTokenPerFamily, LocksAreExclusive, RotationsAreDue, DoomedExist,
   LogoutsAreComplete, Idle, LockOp, Exists, Live

\* Every step preserves the invariant.
LEMMA NextStep ==
    ASSUME IInv, [Next]_vars
    PROVE  IInv'
<1>1. CASE Login
  BY <1>1, LoginStep
<1>2. ASSUME NEW x \in Txn, NEW t \in Token, BeginRotate(x, t) \/ BeginLogout(x, t)
      PROVE  IInv'
  BY <1>2, BeginRotateStep, BeginLogoutStep
<1>3. ASSUME NEW x \in Txn, NEW t \in Token, DetectReuse(x, t)
      PROVE  IInv'
  <2>1. FamilyOf(t) \in Family
    BY <1>3, ExistsInRow DEF DetectReuse, IInv
  <2> QED  BY <1>3, <2>1, AsideStep DEF DetectReuse, IInv, TypeOK
<1>4. ASSUME NEW x \in Txn,
             EndRotate(x) \/ RevokeFamily(x) \/ RevokeAll(x) \/ EndRevoke(x) \/ Abort(x)
      PROVE  IInv'
  BY <1>4, EndRotateStep, RevokeFamilyStep, RevokeAllStep, EndRevokeStep, AbortStep
<1>5. ASSUME NEW f \in Family, Expire(f)
      PROVE  IInv'
  BY <1>5, AsideStep DEF Expire, IInv, TypeOK
<1>6. ASSUME NEW value \in BOOLEAN, SetActive(value)
      PROVE  IInv'
  BY <1>6, AsideStep DEF SetActive, IInv, TypeOK
<1>7. CASE UNCHANGED vars
  BY <1>7, AsideStep DEF vars, IInv, TypeOK
<1> QED  BY <1>1, <1>2, <1>3, <1>4, <1>5, <1>6, <1>7 DEF Next

\* IInv is inductive.
THEOREM Invariance == Spec => []IInv
<1>1. IInv /\ [Next]_vars => IInv'
  BY NextStep
<1> QED  BY InitInv, <1>1, PTL DEF Spec

\* The table and the open transactions are well formed.
THEOREM TypeCorrect == Spec => []TypeOK
<1>1. IInv => TypeOK
  BY DEF IInv
<1> QED  BY Invariance, <1>1, PTL

\* Whatever races, a session has one token that can still be traded.
THEOREM SessionsAreSingle == Spec => []OneLiveTokenPerFamily
<1>1. IInv => OneLiveTokenPerFamily
  BY DEF IInv
<1> QED  BY Invariance, <1>1, PTL

\* A successor is stored only for a token that is live at that commit.
THEOREM SuccessorsAreDue == Spec => SuccessorOfLiveToken
<1>1. IInv /\ [Next]_vars =>
        [\A x \in Txn :
           txn[x].op = "rotate" /\ row'[txn[x].next] # row[txn[x].next] =>
             Live(txn[x].token)]_vars
  BY DEF IInv, RotationsAreDue
<1> QED  BY Invariance, <1>1, PTL DEF Spec, SuccessorOfLiveToken

\* A logout with the live token ends the session, whatever rotation races it.
THEOREM LogoutsEndSessions == Spec => LogoutEndsSession
<1>1. ASSUME IInv, [Next]_vars, NEW x \in Txn, txn[x].op = "revokeFamily", txn'[x] = Idle,
             row' # row, txn[x].wasLive
      PROVE  \A t \in Members(FamilyOf(txn[x].token)) : row'[t].revoked
  <2>1. txn' # txn
    BY <1>1 DEF Idle
  <2>2. PICK y \in Txn : EndRotate(y) \/ EndRevoke(y)
    BY <1>1, <2>1 DEF Next, vars, Login, BeginRotate, DetectReuse, BeginLogout, RevokeFamily,
       RevokeAll, Abort, Expire, SetActive
  <2>3. txn' = [txn EXCEPT ![y] = Idle]
    BY <2>2 DEF EndRotate, EndRevoke
  <2>4. y = x
    BY <1>1, <2>1, <2>3 DEF IInv, TypeOK, Idle
  <2>5. row' = Revoked(txn[x].doomed)
    BY <1>1, <2>2, <2>4 DEF EndRotate, EndRevoke
  <2> SUFFICES ASSUME NEW t \in Members(FamilyOf(txn[x].token))
               PROVE  row'[t].revoked
    OBVIOUS
  <2>6. t \in Token /\ row[t] \in Row /\ (row[t].revoked \/ t \in txn[x].doomed)
    BY <1>1, ExistsInRow DEF IInv, LogoutsAreComplete, Members
  <2> QED  BY <2>5, <2>6, RowShape DEF Revoked
<1>2. IInv /\ [Next]_vars =>
        [\A x \in Txn :
           /\ txn[x].op = "revokeFamily" /\ txn'[x] = Idle /\ row' # row
           /\ txn[x].wasLive
           => \A t \in Members(FamilyOf(txn[x].token)) : row'[t].revoked]_vars
  BY <1>1
<1> QED  BY Invariance, <1>2, PTL DEF Spec, LogoutEndsSession
-----------------------------------------------------------------------------
(* The sessions.  A login, the commit of a rotation and the commit of a     *)
(* revocation are the steps of Sessions; no other step writes the table.    *)

\* A token that can be traded is one of its session's.
LEMMA LiveInFamily ==
    \A f \in Family, t \in Token : t \in LiveOf(f) <=> Live(t) /\ FamilyOf(t) = f
BY DEF LiveOf, Members, Live

\* A step that leaves the table alone leaves the sessions alone.
LEMMA SameTableSameSessions ==
    ASSUME row' = row
    PROVE  UNCHANGED Session!sessions
<1>1. \A f \in Family : Members(f)' = Members(f) /\ LiveOf(f)' = LiveOf(f)
  BY DEF LiveOf, Members, Live, Exists, FamilyOf
<1>2. {t \in Token : Exists(t)}' = {t \in Token : Exists(t)}
  BY DEF Exists
<1> QED  BY <1>1, <1>2 DEF Session!sessions

\* A login begins a session.
LEMMA LoginBegins ==
    ASSUME IInv, Login
    PROVE  \E f \in Family, t \in Token : Session!Begin(f, t)
<1>1. PICK t \in Token, f \in Family :
        /\ ~Exists(t) /\ Members(f) = {}
        /\ row' = [row EXCEPT ![t] = [family |-> f, used |-> FALSE, revoked |-> FALSE]]
  BY DEF Login
<1>2. /\ row'[t] = [family |-> f, used |-> FALSE, revoked |-> FALSE] /\ row'[t] \in Row
      /\ \A u \in Token \ {t} : row'[u] = row[u]
  BY <1>1, RowShape DEF IInv, TypeOK
<1>3. Exists(t)' /\ FamilyOf(t)' = f /\ Live(t)'
  BY <1>2, RowShape DEF Exists, FamilyOf, Live
<1>4. \A u \in Token \ {t} : /\ Exists(u)' <=> Exists(u)
                             /\ FamilyOf(u)' = FamilyOf(u)
                             /\ Live(u)' <=> Live(u)
  BY <1>2 DEF Exists, Live, FamilyOf
<1>5. \A g \in Family : Members(g)' = IF g = f THEN {t} ELSE Members(g)
  <2>1. \A u \in Token : ~(Exists(u) /\ FamilyOf(u) = f)
    BY <1>1 DEF Members
  <2>2. ASSUME NEW g \in Family
        PROVE  Members(g)' = IF g = f THEN {t} ELSE Members(g)
    BY <1>1, <1>3, <1>4, <2>1 DEF Members
  <2> QED  BY <2>2
<1>6. \A g \in Family : LiveOf(g)' = IF g = f THEN {t} ELSE LiveOf(g)
  <2>1. \A g \in Family : t \notin Members(g)
    BY <1>1 DEF Members
  <2> QED  BY <1>3, <1>4, <1>5, <2>1 DEF LiveOf, Members
<1>7. {g \in Family : Members(g) # {}}' = {g \in Family : Members(g) # {}} \cup {f}
  BY <1>5
<1>8. {u \in Token : Exists(u)}' = {u \in Token : Exists(u)} \cup {t}
  BY <1>3, <1>4
<1>9. [g \in Family |-> LiveOf(g)]' = [[g \in Family |-> LiveOf(g)] EXCEPT ![f] = {t}]
  BY <1>6
<1> QED  BY <1>1, <1>7, <1>8, <1>9 DEF Session!Begin

\* The commit of a rotation trades the session's token for another one.
LEMMA EndRotateTrades ==
    ASSUME IInv, NEW x \in Txn, EndRotate(x)
    PROVE  \E f \in Family, n \in Token : Session!Trade(f, n)
<1>1. PICK t \in Token, n \in Token, f \in Family :
        /\ t = txn[x].token /\ n = txn[x].next /\ f = FamilyOf(t)
        /\ Live(t) /\ Exists(t) /\ ~Exists(n) /\ row[t] \in Row
  BY TxnShape, ExistsInRow DEF EndRotate, IInv, RotationsAreDue, Live
<1>2. n # t /\ row' = [row EXCEPT ![t].used = TRUE,
                                  ![n] = [family |-> f, used |-> FALSE, revoked |-> FALSE]]
  BY <1>1 DEF EndRotate
<1>3. /\ row'[n] = [family |-> f, used |-> FALSE, revoked |-> FALSE] /\ row'[n] \in Row
      /\ row'[t] = [row[t] EXCEPT !.used = TRUE] /\ row'[t] \in Row
      /\ \A u \in Token \ {t, n} : row'[u] = row[u]
  BY <1>1, <1>2, RowShape DEF IInv, TypeOK
<1>4. Exists(n)' /\ FamilyOf(n)' = f /\ Live(n)'
  BY <1>3, RowShape DEF Exists, FamilyOf, Live
<1>5. Exists(t)' /\ FamilyOf(t)' = f /\ ~Live(t)'
  <2>1. row'[t].used /\ row'[t].family = row[t].family
    BY <1>1, <1>3, RowShape
  <2> QED  BY <1>1, <1>3, <2>1, RowShape DEF Exists, FamilyOf, Live
<1>6. \A u \in Token \ {t, n} : /\ Exists(u)' <=> Exists(u)
                                /\ FamilyOf(u)' = FamilyOf(u)
                                /\ Live(u)' <=> Live(u)
  BY <1>3 DEF Exists, Live, FamilyOf
<1>7. \A g \in Family : Members(g)' = IF g = f THEN Members(g) \cup {n} ELSE Members(g)
  BY <1>1, <1>4, <1>5, <1>6 DEF Members
<1>8. \A g \in Family : LiveOf(g)' = IF g = f THEN {n} ELSE LiveOf(g)
  <2>1. \A u \in Token : Live(u) /\ FamilyOf(u) = f => u = t
    BY <1>1 DEF IInv, OneLiveTokenPerFamily
  <2>2. \A g \in Family : n \notin Members(g)
    BY <1>1 DEF Members
  <2>3. ASSUME NEW g \in Family, NEW u \in Token
        PROVE  u \in LiveOf(g)' <=> u \in IF g = f THEN {n} ELSE LiveOf(g)
    <3>1. u \in LiveOf(g)' <=> Live(u)' /\ FamilyOf(u)' = g
      BY DEF LiveOf, Members, Live
    <3>2. CASE u \in {t, n}
      BY <3>1, <3>2, <1>1, <1>4, <1>5, <2>2 DEF LiveOf, Members
    <3>3. CASE u \notin {t, n}
      BY <3>1, <3>3, <1>6, <2>1, LiveInFamily
    <3> QED  BY <3>2, <3>3
  <2>4. \A g \in Family : LiveOf(g)' \subseteq Token /\ LiveOf(g) \subseteq Token
    BY DEF LiveOf, Members
  <2> QED  BY <2>3, <2>4
<1>9. {g \in Family : Members(g) # {}}' = {g \in Family : Members(g) # {}}
  <2>1. Members(f) # {}
    BY <1>1 DEF Members
  <2> QED  BY <1>7, <2>1
<1>10. {u \in Token : Exists(u)}' = {u \in Token : Exists(u)} \cup {n}
  BY <1>1, <1>4, <1>5, <1>6
<1>11. [g \in Family |-> LiveOf(g)]' = [[g \in Family |-> LiveOf(g)] EXCEPT ![f] = {n}]
  BY <1>8
<1>12. LiveOf(f) # {}
  BY <1>1, LiveInFamily
<1> QED  BY <1>1, <1>9, <1>10, <1>11, <1>12 DEF Session!Trade

\* The commit of a revocation ends the sessions whose token it reached.
LEMMA EndRevokeEnds ==
    ASSUME IInv, NEW x \in Txn, EndRevoke(x)
    PROVE  \E ended \in SUBSET Family : Session!End(ended)
<1> DEFINE doomed == txn[x].doomed
           ended == {f \in Family : LiveOf(f) \cap doomed # {}}
<1>1. doomed \subseteq Token /\ \A t \in doomed : Exists(t)
  BY TxnShape DEF EndRevoke, IInv, DoomedExist
<1>2. row' = Revoked(doomed)
  BY DEF EndRevoke
<1> HIDE DEF doomed
<1>3. \A t \in Token : row'[t] = IF t \in doomed THEN [row[t] EXCEPT !.revoked = TRUE] ELSE row[t]
  BY <1>2 DEF Revoked
<1>4. \A t \in Token : /\ Exists(t)' <=> Exists(t)
                       /\ Exists(t) => FamilyOf(t)' = FamilyOf(t)
                       /\ Live(t)' <=> Live(t) /\ t \notin doomed
  <2>1. \A t \in doomed : row[t] \in Row
    BY <1>1, ExistsInRow DEF IInv
  <2>2. ASSUME NEW t \in Token, t \in doomed
        PROVE  Exists(t)' /\ Exists(t) /\ FamilyOf(t)' = FamilyOf(t) /\ ~Live(t)'
    <3>1. row'[t] = [row[t] EXCEPT !.revoked = TRUE] /\ row[t] \in Row
      BY <2>1, <2>2, <1>3
    <3>2. row'[t] # NoRow /\ row'[t].revoked /\ row'[t].family = row[t].family
      BY <3>1, RowShape
    <3> QED  BY <3>2, <2>2, <1>1 DEF Exists, Live, FamilyOf
  <2>3. \A t \in Token \ doomed : row'[t] = row[t]
    BY <1>3
  <2> QED  BY <2>2, <2>3 DEF Exists, Live, FamilyOf
<1>5. \A f \in Family : Members(f)' = Members(f)
  BY <1>4 DEF Members
<1>6. \A f \in Family : LiveOf(f)' = LiveOf(f) \ doomed
  BY <1>4, <1>5 DEF LiveOf, Members
<1>7. \A f \in Family : LiveOf(f)' = IF f \in ended THEN {} ELSE LiveOf(f)
  <2>1. \A f \in Family : \A t, u \in LiveOf(f) : t = u
    BY DEF IInv, OneLiveTokenPerFamily, LiveOf, Members
  <2> QED  BY <1>6, <2>1
<1>8. {f \in Family : Members(f) # {}}' = {f \in Family : Members(f) # {}}
  BY <1>5
<1>9. {t \in Token : Exists(t)}' = {t \in Token : Exists(t)}
  BY <1>4
<1>10. [f \in Family |-> LiveOf(f)]'
         = [f \in Family |-> IF f \in ended THEN {} ELSE [g \in Family |-> LiveOf(g)][f]]
  BY <1>7
<1>11. ended \in SUBSET Family
  OBVIOUS
<1> HIDE DEF ended
<1> QED  BY <1>8, <1>9, <1>10, <1>11 DEF Session!End

\* No session has begun before the first login.
LEMMA NoSessionYet == Init => Session!Init
<1> SUFFICES ASSUME Init PROVE Session!Init
  OBVIOUS
<1>1. \A t \in Token : ~Exists(t)
  BY DEF Init, Exists
<1>2. \A f \in Family : Members(f) = {} /\ LiveOf(f) = {}
  BY <1>1 DEF Members, LiveOf
<1> QED  BY <1>1, <1>2 DEF Session!Init

\* Every step is a step of the sessions or leaves them alone.
LEMMA SessionStep ==
    ASSUME IInv, [Next]_vars
    PROVE  [Session!Next]_(Session!sessions)
<1>1. CASE Login
  BY <1>1, LoginBegins DEF Session!Next
<1>2. ASSUME NEW x \in Txn, EndRotate(x)
      PROVE  Session!Next
  BY <1>2, EndRotateTrades DEF Session!Next
<1>3. ASSUME NEW x \in Txn, EndRevoke(x)
      PROVE  Session!Next
  BY <1>3, EndRevokeEnds DEF Session!Next
<1>4. CASE row' = row
  BY <1>4, SameTableSameSessions
<1>5. row' = row \/ Login \/ \E x \in Txn : EndRotate(x) \/ EndRevoke(x)
  BY DEF Next, vars, BeginRotate, Rotate, DetectReuse, BeginLogout, RevokeFamily, RevokeAll,
     Abort, Expire, SetActive
<1> QED  BY <1>1, <1>2, <1>3, <1>4, <1>5

\* The rows, locks and snapshots implement sessions that end for good: neither
\* a tab nor a late rotation brings back one that was revoked.
THEOREM SessionsAreImplemented == Spec => ImplementsSessions
<1>1. IInv /\ [Next]_vars => [Session!Next]_(Session!sessions)
  BY SessionStep
<1> QED  BY NoSessionYet, <1>1, Invariance, PTL DEF Spec, ImplementsSessions, Session!Spec

\* So a session that has ended is over for good, whatever rotations were open
\* when it ended: their successors are not live, or they do not commit.
THEOREM EndedSessionsStayOver == Spec => SessionsStayOver
<1>1. ASSUME [Session!Next]_(Session!sessions), NEW f \in Family, Members(f) # {}, LiveOf(f) = {}
      PROVE  LiveOf(f)' = {}
  <2> DEFINE live == [g \in Family |-> LiveOf(g)]
             begun == {g \in Family : Members(g) # {}}
  <2>1. live[f] = {} /\ f \in begun /\ (live[f])' = LiveOf(f)'
    BY <1>1
  <2>2. CASE \E g \in Family, t \in Token : Session!Begin(g, t) \/ Session!Trade(g, t)
    <3>1. PICK g \in Family, t \in Token : Session!Begin(g, t) \/ Session!Trade(g, t)
      BY <2>2
    <3>2. g # f /\ live' = [live EXCEPT ![g] = {t}]
      BY <2>1, <3>1 DEF Session!Begin, Session!Trade
    <3> QED
      BY <2>1, <3>2
  <2>3. CASE \E ended \in SUBSET Family : Session!End(ended)
    BY <2>1, <2>3 DEF Session!End
  <2>4. CASE UNCHANGED Session!sessions
    BY <2>1, <2>4 DEF Session!sessions
  <2> QED
    BY <1>1, <2>2, <2>3, <2>4 DEF Session!Next
<1>2. IInv /\ [Next]_vars =>
        (\A f \in Family : Members(f) # {} /\ LiveOf(f) = {} => LiveOf(f)' = {})
  BY <1>1, SessionStep
<1> QED  BY Invariance, <1>2, PTL DEF Spec, SessionsStayOver
=============================================================================
