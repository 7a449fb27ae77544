------------------------------- MODULE Outbox -------------------------------
(***************************************************************************)
(* What the offline queue promises for the work of an officer, without its *)
(* rows, passes, requests and processes: what the officer was told is done *)
(* has been applied or is kept, and what is kept is released only when it  *)
(* has been applied.  Nothing is kept a second time.                       *)
(***************************************************************************)
CONSTANTS
    Mutation   \* the officer's actions

VARIABLES
    filed,     \* the actions the officer took
    told,      \* those the officer was told are done
    kept,      \* those kept to be sent again
    applied    \* those the server has applied

outbox == <<filed, told, kept, applied>>

Init == filed = {} /\ told = {} /\ kept = {} /\ applied = {}

File(m) ==
    /\ m \notin filed
    /\ filed' = filed \cup {m}
    /\ UNCHANGED <<told, kept, applied>>

\* A request that was given up may still arrive, and one may arrive twice.
Apply(m) ==
    /\ m \in filed
    /\ applied' = applied \cup {m}
    /\ UNCHANGED <<filed, told, kept>>

Confirm(m) ==
    /\ m \in applied \ told
    /\ told' = told \cup {m}
    /\ UNCHANGED <<filed, kept, applied>>

Keep(m) ==
    /\ m \in filed \ told
    /\ told' = told \cup {m}
    /\ kept' = kept \cup {m}
    /\ UNCHANGED <<filed, applied>>

Release(m) ==
    /\ m \in kept \cap applied
    /\ kept' = kept \ {m}
    /\ UNCHANGED <<filed, told, applied>>

Next == \E m \in Mutation : File(m) \/ Apply(m) \/ Confirm(m) \/ Keep(m) \/ Release(m)

Spec == Init /\ [][Next]_outbox
=============================================================================
