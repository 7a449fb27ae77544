--------------------------- MODULE RefreshSession ---------------------------
(***************************************************************************)
(* The single-use refresh tokens of one user (backend/app/domains/auth).   *)
(* A login starts a family with one token; a rotation trades the live      *)
(* token for its successor; a logout revokes the family of its token, an   *)
(* administrator or a change of password every token of the user.          *)
(*                                                                         *)
(* Each request is one READ COMMITTED transaction.  What is modelled of    *)
(* PostgreSQL: SELECT ... FOR UPDATE and UPDATE take row locks held to the *)
(* commit; the rows a bulk UPDATE will touch are those its statement sees  *)
(* when it starts; it then waits for the locks on them.  A transaction may *)
(* always be rolled back (an error, a lost connection, a deadlock victim). *)
(***************************************************************************)
CONSTANTS
    Token,    \* the tokens that can be drawn (secrets.token_urlsafe)
    Family,   \* the family_ids that can be drawn (uuid4)
    Txn       \* the transactions that can be open at once

VARIABLES
    row,      \* row[t]: the committed row of refresh_tokens, or NoRow
    txn,      \* txn[x]: the open transaction x, or Idle
    active,   \* users.active
    expired,  \* the families past their expires_at
    reused    \* the families for which "the complete token family was revoked" is logged

vars == <<row, txn, active, expired, reused>>

NoRow == [family |-> "none"]
Row == [family : Family, used : BOOLEAN, revoked : BOOLEAN]

Idle == [op |-> "idle"]
Rotation == [op : {"rotate"}, token : Token, next : Token]
Logout == [op : {"logout"}, token : Token, wasLive : BOOLEAN]
Revocation == [op : {"revoke"}, doomed : SUBSET Token]
LogoutRevocation ==
    [op : {"revokeFamily"}, token : Token, wasLive : BOOLEAN, doomed : SUBSET Token]

Exists(t) == row[t] # NoRow
Live(t) == Exists(t) /\ ~row[t].used /\ ~row[t].revoked
FamilyOf(t) == row[t].family
Members(f) == {t \in Token : Exists(t) /\ FamilyOf(t) = f}

\* The row lock on t is held by a transaction other than x.
LockedByOther(x, t) ==
    \E y \in Txn \ {x} : txn[y].op \in {"rotate", "logout", "revokeFamily"} /\ txn[y].token = t

\* The successors of rotations not yet committed.
Drawn == {txn[x].next : x \in {y \in Txn : txn[y].op = "rotate"}}

-----------------------------------------------------------------------------
(* Login. *)

\* authenticate_web, authenticate_mobile: a new family with a new token.
Login ==
    /\ active
    /\ \E t \in Token, f \in Family :
         /\ ~Exists(t) /\ t \notin Drawn
         /\ Members(f) = {}
         /\ row' = [row EXCEPT ![t] = [family |-> f, used |-> FALSE, revoked |-> FALSE]]
    /\ UNCHANGED <<txn, active, expired, reused>>

-----------------------------------------------------------------------------
(* Rotation. *)

Rotate(x, t) ==
    \E n \in Token :
      /\ ~Exists(n) /\ n \notin Drawn
      /\ txn' = [txn EXCEPT ![x] = [op |-> "rotate", token |-> t, next |-> n]]

\* Mutant: the row is read without FOR UPDATE.
BeginRotateUnlocked(x, t) ==
    /\ txn[x] = Idle
    /\ Live(t) /\ FamilyOf(t) \notin expired /\ active
    /\ Rotate(x, t)
    /\ UNCHANGED <<row, active, expired, reused>>

\* get_refresh_token_by_hash_for_update: the lock is taken on the newest
\* version of the row, and all the checks pass.
BeginRotate(x, t) ==
    /\ txn[x] = Idle
    /\ ~LockedByOther(x, t)
    /\ Live(t) /\ FamilyOf(t) \notin expired /\ active
    /\ Rotate(x, t)
    /\ UNCHANGED <<row, active, expired, reused>>

\* create_refresh_token, mark_refresh_token_used, commit.
EndRotate(x) ==
    /\ txn[x].op = "rotate"
    /\ row' = [row EXCEPT ![txn[x].token].used = TRUE,
                          ![txn[x].next] = [family |-> FamilyOf(txn[x].token),
                                            used |-> FALSE, revoked |-> FALSE]]
    /\ txn' = [txn EXCEPT ![x] = Idle]
    /\ UNCHANGED <<active, expired, reused>>

\* Mutant: an unknown token is taken for a used one.
DetectReuseUnknown(x, t) ==
    /\ txn[x] = Idle
    /\ ~LockedByOther(x, t)
    /\ ~Live(t)
    /\ reused' = reused \cup {FamilyOf(t)}
    /\ UNCHANGED <<row, txn, active, expired>>

\* A used or revoked token is presented.  The family is revoked, the reuse
\* is logged, and the exception rolls the revocation back.  (The refusals of
\* an expired family or an inactive user are rolled back too, and log nothing.)
DetectReuse(x, t) ==
    /\ txn[x] = Idle
    /\ ~LockedByOther(x, t)
    /\ Exists(t) /\ ~Live(t)
    /\ reused' = reused \cup {FamilyOf(t)}
    /\ UNCHANGED <<row, txn, active, expired>>

-----------------------------------------------------------------------------
(* Revocation. *)

\* Mutant: the token is looked up without FOR UPDATE, in the same step as
\* the UPDATE takes its snapshot.
BeginLogoutUnlocked(x, t) ==
    /\ txn[x] = Idle
    /\ Exists(t)
    /\ txn' = [txn EXCEPT ![x] =
                 [op |-> "revokeFamily", token |-> t, wasLive |-> Live(t),
                  doomed |-> {u \in Members(FamilyOf(t)) : ~row[u].revoked}]]
    /\ UNCHANGED <<row, active, expired, reused>>

\* revoke_mobile_session: lock the token presented, ...
BeginLogout(x, t) ==
    /\ txn[x] = Idle
    /\ ~LockedByOther(x, t)
    /\ Exists(t)
    /\ txn' = [txn EXCEPT ![x] = [op |-> "logout", token |-> t, wasLive |-> Live(t)]]
    /\ UNCHANGED <<row, active, expired, reused>>

\* ... then start revoke_refresh_token_family on what is committed now.
RevokeFamily(x) ==
    /\ txn[x].op = "logout"
    /\ txn' = [txn EXCEPT ![x] =
                 [op |-> "revokeFamily", token |-> txn[x].token, wasLive |-> txn[x].wasLive,
                  doomed |-> {t \in Members(FamilyOf(txn[x].token)) : ~row[t].revoked}]]
    /\ UNCHANGED <<row, active, expired, reused>>

\* revoke_all_sessions_for_user, by an administrator or with a new password.
RevokeAll(x) ==
    /\ txn[x] = Idle
    /\ txn' = [txn EXCEPT ![x] =
                 [op |-> "revoke",
                  doomed |-> {t \in Token : Exists(t) /\ ~row[t].revoked}]]
    /\ UNCHANGED <<row, active, expired, reused>>

Revoked(doomed) ==
    [t \in Token |-> IF t \in doomed THEN [row[t] EXCEPT !.revoked = TRUE] ELSE row[t]]

\* Mutant: the UPDATE writes over rows other transactions have locked.
EndRevokeRegardless(x) ==
    /\ txn[x].op \in {"revoke", "revokeFamily"}
    /\ row' = Revoked(txn[x].doomed)
    /\ txn' = [txn EXCEPT ![x] = Idle]
    /\ UNCHANGED <<active, expired, reused>>

\* The locks are granted, the rows written, the transaction commits.
EndRevoke(x) ==
    /\ txn[x].op \in {"revoke", "revokeFamily"}
    /\ \A t \in txn[x].doomed : ~LockedByOther(x, t)
    /\ row' = Revoked(txn[x].doomed)
    /\ txn' = [txn EXCEPT ![x] = Idle]
    /\ UNCHANGED <<active, expired, reused>>

Abort(x) ==
    /\ txn[x] # Idle
    /\ txn' = [txn EXCEPT ![x] = Idle]
    /\ UNCHANGED <<row, active, expired, reused>>

-----------------------------------------------------------------------------
(* Time, and the account. *)

\* A successor inherits expires_at: a family expires as a whole.
Expire(f) ==
    /\ Members(f) # {}
    /\ expired' = expired \cup {f}
    /\ UNCHANGED <<row, txn, active, reused>>

\* Deactivation revokes nothing; update_password makes the user active again.
SetActive(value) ==
    /\ active' = value
    /\ UNCHANGED <<row, txn, expired, reused>>

Init ==
    /\ row = [t \in Token |-> NoRow]
    /\ txn = [x \in Txn |-> Idle]
    /\ active = TRUE
    /\ expired = {}
    /\ reused = {}

Next ==
    \/ Login
    \/ \E x \in Txn, t \in Token :
         BeginRotate(x, t) \/ DetectReuse(x, t) \/ BeginLogout(x, t)
    \/ \E x \in Txn :
         EndRotate(x) \/ RevokeFamily(x) \/ RevokeAll(x) \/ EndRevoke(x) \/ Abort(x)
    \/ \E f \in Family : Expire(f)
    \/ \E value \in BOOLEAN : SetActive(value)

Spec == Init /\ [][Next]_vars

-----------------------------------------------------------------------------
(* The sessions, as users know them. *)

LiveOf(f) == {t \in Members(f) : Live(t)}

Session == INSTANCE Sessions WITH
    begun <- {f \in Family : Members(f) # {}},
    issued <- {t \in Token : Exists(t)},
    live <- [f \in Family |-> LiveOf(f)]

-----------------------------------------------------------------------------
(* Properties. *)

\* The table and the open transactions are well formed.
TypeOK ==
    /\ row \in [Token -> Row \cup {NoRow}]
    /\ txn \in [Txn -> Rotation \cup Logout \cup Revocation \cup LogoutRevocation \cup {Idle}]
    /\ active \in BOOLEAN
    /\ expired \subseteq Family
    /\ reused \subseteq Family

\* A session has one live token at most, whatever rotations, tabs and
\* logouts race: each token is traded once (rotate_refresh_token).
OneLiveTokenPerFamily ==
    \A t, u \in Token : Live(t) /\ Live(u) /\ FamilyOf(t) = FamilyOf(u) => t = u

\* A rotation commits only on a token that is still live then: a revocation
\* cannot slip between its checks and its commit.
SuccessorOfLiveToken ==
    [][\A x \in Txn :
         txn[x].op = "rotate" /\ row'[txn[x].next] # row[txn[x].next] =>
           Live(txn[x].token)]_vars

\* To its user the table is a set of sessions: each begins once, hands out one
\* token after another, every one against the last, and when it has ended,
\* no rotation that was open meanwhile (get_refresh_token_by_hash_for_update)
\* brings it back.
ImplementsSessions == Session!Spec

\* A logout that presents the live token of its session leaves no token of
\* the session unrevoked, even while another tab is rotating that token.
LogoutEndsSession ==
    [][\A x \in Txn :
         /\ txn[x].op = "revokeFamily" /\ txn'[x] = Idle /\ row' # row
         /\ txn[x].wasLive
         => \A t \in Members(FamilyOf(txn[x].token)) : row'[t].revoked]_vars

\* "Refresh token reuse detected; the complete token family was revoked"
\* (service.py): after that record, the family has no live token.
ReuseRevokesFamily == \A f \in reused, t \in Token : Live(t) => FamilyOf(t) # f
\* A session with no token left is over: no rotation or login brings it back.
SessionsStayOver ==
    [][\A f \in Family : Members(f) # {} /\ LiveOf(f) = {} => LiveOf(f)' = {}]_vars

=============================================================================
