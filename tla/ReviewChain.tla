----------------------------- MODULE ReviewChain ----------------------------
(***************************************************************************)
(* What the loan review promises, without requests in flight: each file    *)
(* moves by whole decisions, one at a time, each taken on the stage the    *)
(* file is in, and is approved by an executive on its way to disbursement. *)
(***************************************************************************)
CONSTANT App

VARIABLES stage, decided

vars == <<stage, decided>>

PreExecutive == { "intake", "branch_manager_review", "branch_supervisor_review",
                  "credit_analyst_review", "crm_review", "head_crm_review" }
Executive == {"ed_approval", "md_approval"}

\* The chain of reviews, <<stage, next stage>>.
Link == { <<"intake", "branch_manager_review">>,
          <<"branch_manager_review", "branch_supervisor_review">>,
          <<"branch_supervisor_review", "credit_analyst_review">>,
          <<"credit_analyst_review", "crm_review">>,
          <<"crm_review", "head_crm_review">>,
          <<"head_crm_review", "ed_approval">>,
          <<"ed_approval", "md_approval">> }

Move(a, s) ==
    /\ stage' = [stage EXCEPT ![a] = s]
    /\ UNCHANGED decided

\* Up the chain, the escalation to the MD included.
Forward(a) == \E s \in PreExecutive \cup Executive : <<stage[a], s>> \in Link /\ Move(a, s)

\* Back to the previous reviewer.
Back(a) == \E s \in PreExecutive \cup Executive : <<s, stage[a]>> \in Link /\ Move(a, s)

\* Back to the Team Lead: a visitation report the credit analyst began to
\* save while the file was in intake (the late write of EndSubmit).
Resubmit(a) == stage[a] = "credit_analyst_review" /\ Move(a, "branch_manager_review")

\* Out of the chain, for correction or for good.
SendBack(a) == stage[a] \in {"credit_analyst_review", "crm_review", "head_crm_review"} /\ Move(a, "returned")
Deny(a) == stage[a] \in Executive \cup {"credit_analyst_review"} /\ Move(a, "rejected")

Approve(a) ==
    /\ stage[a] \in Executive
    /\ stage' = [stage EXCEPT ![a] = "disbursement_ready"]
    /\ decided' = [decided EXCEPT ![a] = TRUE]

Init ==
    /\ stage = [a \in App |-> "intake"]
    /\ decided = [a \in App |-> FALSE]

Next == \E a \in App : Forward(a) \/ Back(a) \/ Resubmit(a) \/ SendBack(a) \/ Deny(a) \/ Approve(a)

Spec == Init /\ [][Next]_vars
=============================================================================
