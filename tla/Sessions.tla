------------------------------ MODULE Sessions ------------------------------
(***************************************************************************)
(* What the refresh tokens of a user promise, without their transactions:  *)
(* a session begins once, with one token; a token that can be traded is    *)
(* traded for one never issued before; a session that has no token left is *)
(* over for good.                                                          *)
(***************************************************************************)
CONSTANTS
    Token,    \* the tokens that can be drawn
    Family    \* the sessions that can begin

VARIABLES
    begun,    \* the sessions that have begun
    issued,   \* the tokens that have been issued
    live      \* live[f]: the tokens of session f that can still be traded

sessions == <<begun, issued, live>>

Init ==
    /\ begun = {}
    /\ issued = {}
    /\ live = [f \in Family |-> {}]

Begin(f, t) ==
    /\ f \notin begun /\ t \notin issued
    /\ begun' = begun \cup {f}
    /\ issued' = issued \cup {t}
    /\ live' = [live EXCEPT ![f] = {t}]

Trade(f, n) ==
    /\ live[f] # {} /\ n \notin issued
    /\ issued' = issued \cup {n}
    /\ live' = [live EXCEPT ![f] = {n}]
    /\ begun' = begun

\* One session by its owner, or all of them by an administrator.
End(ended) ==
    /\ live' = [f \in Family |-> IF f \in ended THEN {} ELSE live[f]]
    /\ UNCHANGED <<begun, issued>>

Next ==
    \/ \E f \in Family, t \in Token : Begin(f, t) \/ Trade(f, t)
    \/ \E ended \in SUBSET Family : End(ended)

Spec == Init /\ [][Next]_sessions
=============================================================================
