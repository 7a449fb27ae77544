----------------------------- MODULE LoanReview -----------------------------
(***************************************************************************)
(* The loan review workflow of the FieldCRM backend, with its requests in  *)
(* flight.  A web or mobile request runs in one READ COMMITTED transaction *)
(* (backend/app/core/database.py, get_connection): the handler reads the   *)
(* application row without a lock, checks what it read, and writes later;  *)
(* another request may commit in between.  A handler is therefore two      *)
(* steps here, Begin (the read and the checks made on it) and an End       *)
(* action (the writes and the commit, atomic since the first UPDATE holds  *)
(* the row lock to the end).  Whether an UPDATE rechecks the stage is what *)
(* decides if a stale read does harm:                                      *)
(*   - approve.sql, ed_approve.sql, ... have "stage = ..." in their WHERE; *)
(*   - advance_stage.sql and mark_returned.sql do not;                     *)
(*   - with row-level security on, the policy loan_update adds a stage     *)
(*     test of its own to every UPDATE.                                    *)
(*                                                                         *)
(* One branch and one active user per role.  CONFIGURABLE_WORKFLOW_ENABLED *)
(* and CBS_INTEGRATION_ENABLED are off, their defaults.                    *)
(***************************************************************************)
CONSTANTS
    App,              \* the loan applications
    Worker,           \* server workers, each serving one request at a time
    RlsEnforced,      \* the runtime role is subject to row-level security
    AnalystAssigned   \* rows carry a credit_officer_id (nothing here sets it)

ASSUME RlsAssumption == RlsEnforced \in BOOLEAN
ASSUME AnalystAssumption == AnalystAssigned \in BOOLEAN

VARIABLES
    app,        \* app[a]: the committed row of loan_applications
    request,    \* request[w]: the request worker w is serving
    traced      \* traced[a]: the newest workflow_events row of a names the stage a is in

vars == <<app, request, traced>>

-----------------------------------------------------------------------------
(* Stages, roles and the row. *)

STAGE_ROLE ==
    [ intake                   |-> "account_officer",
      branch_manager_review    |-> "branch_manager",
      branch_supervisor_review |-> "branch_supervisor",
      credit_analyst_review    |-> "credit_analyst",
      crm_review               |-> "crm",
      head_crm_review          |-> "head_crm",
      ed_approval              |-> "ed",
      md_approval              |-> "md",
      disbursement_ready       |-> "crm" ]

NEXT_STAGE ==
    [ intake                   |-> "branch_manager_review",
      branch_manager_review    |-> "branch_supervisor_review",
      branch_supervisor_review |-> "credit_analyst_review",
      credit_analyst_review    |-> "crm_review",
      crm_review               |-> "head_crm_review",
      head_crm_review          |-> "ed_approval",
      ed_approval              |-> "md_approval",
      md_approval              |-> "disbursement_ready" ]

PipelineStage == DOMAIN STAGE_ROLE
Terminal == {"disbursed", "rejected", "returned"}
Stage == PipelineStage \cup Terminal

PREVIOUS_PIPELINE_STAGE ==
    [ s \in PipelineStage \ {"intake"} |->
        CHOOSE p \in DOMAIN NEXT_STAGE : NEXT_STAGE[p] = s ]

Role == {STAGE_ROLE[s] : s \in PipelineStage} \cup {"system_admin"}

Row == [ stage       : Stage,
         high        : BOOLEAN,  \* amount > 10,000,000
         escalated   : BOOLEAN,  \* ed_escalated_to_md
         edApproved  : BOOLEAN,  \* ed_approved_at is set
         mdApproved  : BOOLEAN,  \* md_approved_at is set
         analystOwns : BOOLEAN,  \* credit_officer_id or current_owner_id is the analyst
         offer       : BOOLEAN,  \* a live offer_letter document exists
         paid        : BOOLEAN ] \* a disbursement is recorded (disbursed_at)

NewApplication(high) ==
    [ stage |-> "intake", high |-> high, escalated |-> FALSE,
      edApproved |-> FALSE, mdApproved |-> FALSE,
      analystOwns |-> AnalystAssigned, offer |-> FALSE, paid |-> FALSE ]

Op == { "submit", "concur", "advance", "returnWeb", "returnMobile",
        "underwriteWeb", "underwriteMobile", "crmWeb", "crmMobile",
        "edApprove", "edDeny", "edEscalate", "mdApprove", "finalize", "offer",
        "disburse" }

Request == [op : Op, role : Role, app : App, seen : Stage]
Idle == [op |-> "idle"]

\* Mutant: the policy without its stage test.
AppCanMutateAnyStage(role, row) ==
    row.stage \in PipelineStage \ {"disbursement_ready"} /\ role \in Role

\* The UPDATE policy of loan_applications: the role must own the row's
\* stage.  CRM owns crm_review only; the analyst must be named on the row.
AppCanMutate(role, row) ==
    /\ row.stage \in PipelineStage \ {"disbursement_ready"}
    /\ STAGE_ROLE[row.stage] = role
    /\ role = "credit_analyst" => row.analystOwns

\* An UPDATE by role reaches the committed row.
Reaches(role, row) == RlsEnforced => AppCanMutate(role, row)

-----------------------------------------------------------------------------
(* The shape every handler shares. *)

Serving(w, op) == request[w].op = op

\* The handler reads the row, and its checks on what it read succeed.
Begin(w, a, op, role) ==
    /\ request[w] = Idle
    /\ request' = [request EXCEPT ![w] =
                     [op |-> op, role |-> role, app |-> a, seen |-> app[a].stage]]
    /\ UNCHANGED <<app, traced>>

\* The row of a is written with a workflow event whose to_stage is event.
NoEvent == "none"

Write(a, row, event) ==
    /\ app' = [app EXCEPT ![a] = row]
    /\ traced' = [traced EXCEPT ![a] =
                    IF event = NoEvent THEN @ /\ row.stage = app[a].stage
                                       ELSE event = row.stage]

\* The transaction of w commits.
Commit(w, row, event) ==
    /\ Write(request[w].app, row, event)
    /\ request' = [request EXCEPT ![w] = Idle]

\* The handler raises (a failed check, an UPDATE that reached no row, a lost
\* connection): the transaction is rolled back.
Fail(w) ==
    /\ request[w] # Idle
    /\ request' = [request EXCEPT ![w] = Idle]
    /\ UNCHANGED <<app, traced>>

Mine(w) == app[request[w].app]
ReachesMine(w) == Reaches(request[w].role, Mine(w))

\* advance_stage.sql: the stage is not in the WHERE clause.
AdvanceStage(row, stage) == [row EXCEPT !.stage = stage]

\* The optional amount of a web form, written in the same transaction.
WithAmount(row, high) == [row EXCEPT !.high = high]

-----------------------------------------------------------------------------
(* Intake to credit analysis. *)

\* Submission to the Team Lead; a credit analyst may save the visitation
\* report of a file in intake, which submits it too.
BeginSubmit(w, a) ==
    /\ app[a].stage = "intake"
    /\ \E role \in {"account_officer", "credit_analyst"} : Begin(w, a, "submit", role)

EndSubmit(w) ==
    /\ Serving(w, "submit")
    /\ ReachesMine(w)
    /\ Commit(w, AdvanceStage(Mine(w), "branch_manager_review"), "branch_manager_review")

\* Team Lead or Supervisor concurrence: approve.sql tests the stage again.
BeginConcur(w, a) ==
    /\ app[a].stage \in {"branch_manager_review", "branch_supervisor_review"}
    /\ Begin(w, a, "concur", STAGE_ROLE[app[a].stage])

EndConcur(w) ==
    /\ Serving(w, "concur")
    /\ ReachesMine(w)
    /\ Mine(w).stage = request[w].seen
    /\ \E high \in BOOLEAN :
         Commit(w, WithAmount(AdvanceStage(Mine(w), NEXT_STAGE[request[w].seen]), high),
                NEXT_STAGE[request[w].seen])

\* Mutant: the executive stages are not refused.
BeginAdvanceExecutive(w, a) ==
    /\ app[a].stage \in DOMAIN NEXT_STAGE \ {"intake"}
    /\ Begin(w, a, "advance", STAGE_ROLE[app[a].stage])

\* POST .../workflow/advance, for the reviewers before ED and MD.
BeginAdvance(w, a) ==
    /\ app[a].stage \in DOMAIN NEXT_STAGE \ {"intake", "ed_approval", "md_approval"}
    /\ Begin(w, a, "advance", STAGE_ROLE[app[a].stage])

EndAdvance(w) ==
    /\ Serving(w, "advance")
    /\ ReachesMine(w)
    /\ Commit(w, AdvanceStage(Mine(w), NEXT_STAGE[request[w].seen]), NEXT_STAGE[request[w].seen])

\* POST .../return (web): one stage back, the stage tested again, the file
\* handed to the receiver's role.
BeginReturnWeb(w, a) ==
    /\ app[a].stage \in DOMAIN PREVIOUS_PIPELINE_STAGE
    /\ \E role \in {STAGE_ROLE[app[a].stage], "system_admin"} : Begin(w, a, "returnWeb", role)

\* Mutant: the UPDATE of a web return without its stage test.
EndReturnWebStale(w) ==
    LET target == PREVIOUS_PIPELINE_STAGE[request[w].seen] IN
    /\ Serving(w, "returnWeb")
    /\ ReachesMine(w)
    /\ Commit(w, [AdvanceStage(Mine(w), target) EXCEPT !.analystOwns =
                    AnalystAssigned \/ target = "credit_analyst_review"], target)

EndReturnWeb(w) ==
    LET target == PREVIOUS_PIPELINE_STAGE[request[w].seen] IN
    /\ Serving(w, "returnWeb")
    /\ ReachesMine(w)
    /\ Mine(w).stage = request[w].seen
    /\ Commit(w, [AdvanceStage(Mine(w), target) EXCEPT !.analystOwns =
                    AnalystAssigned \/ target = "credit_analyst_review"], target)

\* POST .../return (mobile): one stage back by advance_stage.
BeginReturnMobile(w, a) ==
    /\ app[a].stage \in {"branch_manager_review", "branch_supervisor_review"}
    /\ Begin(w, a, "returnMobile", STAGE_ROLE[app[a].stage])

\* Mutant: no event.
EndReturnMobileUnlogged(w) ==
    LET target == PREVIOUS_PIPELINE_STAGE[request[w].seen] IN
    /\ Serving(w, "returnMobile")
    /\ ReachesMine(w)
    /\ Commit(w, AdvanceStage(Mine(w), target), NoEvent)

EndReturnMobile(w) ==
    LET target == PREVIOUS_PIPELINE_STAGE[request[w].seen] IN
    /\ Serving(w, "returnMobile")
    /\ ReachesMine(w)
    /\ Commit(w, AdvanceStage(Mine(w), target), target)

BeginUnderwrite(w, a) ==
    /\ app[a].stage = "credit_analyst_review"
    /\ \E op \in {"underwriteWeb", "underwriteMobile"} : Begin(w, a, op, "credit_analyst")

Verdict == {"crm_review", "returned", "rejected"}

\* The web handler ignores what advance_stage returns: when the UPDATE
\* reaches no row (the file moved after save_stage_data passed its policy)
\* the verdict is logged all the same.
EndUnderwriteWeb(w) ==
    /\ Serving(w, "underwriteWeb")
    /\ \E verdict \in Verdict, high \in BOOLEAN :
         Commit(w, IF ReachesMine(w)
                   THEN WithAmount(AdvanceStage(Mine(w), verdict), high)
                   ELSE Mine(w), verdict)
    /\ ~ReachesMine(w) => Mine(w).stage # request[w].seen

EndUnderwriteMobile(w) ==
    /\ Serving(w, "underwriteMobile")
    /\ ReachesMine(w)
    /\ \E verdict \in Verdict : Commit(w, AdvanceStage(Mine(w), verdict), verdict)

-----------------------------------------------------------------------------
(* The CRM desk. *)

BeginCrm(w, a) ==
    /\ app[a].stage \in {"crm_review", "head_crm_review"}
    /\ \E op \in {"crmWeb", "crmMobile"} : Begin(w, a, op, STAGE_ROLE[app[a].stage])

EndCrmAdvance(w) ==
    /\ request[w].op \in {"crmWeb", "crmMobile"}
    /\ ReachesMine(w)
    /\ \E high \in IF Serving(w, "crmWeb") THEN BOOLEAN ELSE {Mine(w).high} :
         Commit(w, WithAmount(AdvanceStage(Mine(w), NEXT_STAGE[request[w].seen]), high),
                NEXT_STAGE[request[w].seen])

\* Web, role crm, a consent missing: the file stays, its new amount too.
EndCrmIncomplete(w) ==
    /\ Serving(w, "crmWeb")
    /\ request[w].role = "crm"
    /\ ReachesMine(w)
    /\ \E high \in BOOLEAN : Commit(w, WithAmount(Mine(w), high), NoEvent)

\* Web return: mark_returned, which makes the CRM user the owner; its result
\* is not looked at and no workflow event is written.
EndCrmReturnWeb(w) ==
    /\ Serving(w, "crmWeb")
    /\ \E high \in BOOLEAN :
         Commit(w, IF ReachesMine(w)
                   THEN [WithAmount(AdvanceStage(Mine(w), "returned"), high)
                           EXCEPT !.analystOwns = AnalystAssigned]
                   ELSE Mine(w), NoEvent)

\* Mobile: one stage back.  Forward or back, the result of advance_stage is
\* not looked at and the event is written even if no row was reached.
EndCrmReturnMobile(w) ==
    LET target == PREVIOUS_PIPELINE_STAGE[request[w].seen] IN
    /\ Serving(w, "crmMobile")
    /\ Commit(w, IF ReachesMine(w) THEN AdvanceStage(Mine(w), target) ELSE Mine(w), target)

EndCrmAdvanceMissed(w) ==
    /\ Serving(w, "crmMobile")
    /\ ~ReachesMine(w)
    /\ Commit(w, Mine(w), NEXT_STAGE[request[w].seen])

-----------------------------------------------------------------------------
(* Executive decisions. *)

\* Approval and denial are offered at ed_approval; the web form may change
\* the amount.  No check compares the amount with the MD threshold.
BeginEd(w, a) ==
    /\ app[a].stage = "ed_approval"
    /\ \E op \in {"edApprove", "edDeny"} : Begin(w, a, op, "ed")

\* Escalation tests the amount it read; mobile does not test the stage.
BeginEdEscalate(w, a) ==
    /\ ~app[a].high
    /\ Begin(w, a, "edEscalate", "ed")

\* ed_approve.sql
EndEdApprove(w) ==
    /\ Serving(w, "edApprove")
    /\ ReachesMine(w)
    /\ Mine(w).stage = "ed_approval"
    /\ \E high \in BOOLEAN :
         Commit(w, [WithAmount(Mine(w), high) EXCEPT !.stage = "disbursement_ready",
                                                     !.edApproved = TRUE],
                "disbursement_ready")

EndEdDeny(w) ==
    /\ Serving(w, "edDeny")
    /\ ReachesMine(w)
    /\ \E high \in BOOLEAN :
         Commit(w, WithAmount(AdvanceStage(Mine(w), "rejected"), high), "rejected")

\* ed_escalate_to_md.sql
Escalated(row) == [row EXCEPT !.stage = "md_approval", !.escalated = TRUE]

EndEdEscalate(w) ==
    /\ Serving(w, "edEscalate")
    /\ ReachesMine(w)
    /\ Mine(w).stage = "ed_approval"
    /\ Commit(w, Escalated(Mine(w)), "md_approval")

MdMayDecide(row) == ~(row.escalated /\ ~row.high)

\* The web handler refuses an advisory file on what it read; the mobile
\* handler only relies on md_approve.sql.
BeginMdApproveWeb(w, a) ==
    /\ MdMayDecide(app[a])
    /\ Begin(w, a, "mdApprove", "md")

BeginMdApproveMobile(w, a) == Begin(w, a, "mdApprove", "md")

\* md_approve.sql
MdApproved(row) == [row EXCEPT !.stage = "disbursement_ready", !.mdApproved = TRUE]

\* Mutant: md_approve.sql without its stage test.
EndMdApproveAnyStage(w) ==
    /\ Serving(w, "mdApprove")
    /\ ReachesMine(w)
    /\ Commit(w, MdApproved(Mine(w)), "disbursement_ready")

EndMdApprove(w) ==
    /\ Serving(w, "mdApprove")
    /\ ReachesMine(w)
    /\ Mine(w).stage = "md_approval"
    /\ Commit(w, MdApproved(Mine(w)), "disbursement_ready")

\* A handler that starts with an UPDATE, or reads nothing it acts on, is one
\* step: it holds the row lock, or has nothing to go stale.
Decide(a, row, event) ==
    /\ Write(a, row, event)
    /\ UNCHANGED request

\* The web forms with an amount: it is written before the checks are made.
EdEscalateWithAmount(a) ==
    /\ Reaches("ed", app[a])
    /\ app[a].stage = "ed_approval"
    /\ Decide(a, Escalated(WithAmount(app[a], FALSE)), "md_approval")

MdApproveWithAmount(a) ==
    \E high \in BOOLEAN :
      LET row == WithAmount(app[a], high) IN
      /\ Reaches("md", app[a])
      /\ app[a].stage = "md_approval"
      /\ MdMayDecide(row)
      /\ Decide(a, MdApproved(row), "disbursement_ready")

\* The stage the file is in is never tested.
MdDeny(a) ==
    /\ Reaches("md", app[a])
    /\ \E high \in BOOLEAN :
         Decide(a, WithAmount(AdvanceStage(app[a], "rejected"), high), "rejected")

\* md_add_comment.sql tests the stage, but the caller takes "UPDATE 0" for
\* success: the event is written, and the web form's amount kept, anyway.
MdComment(a) ==
    \E high \in IF Reaches("md", app[a]) THEN BOOLEAN ELSE {app[a].high} :
      LET row == WithAmount(app[a], high) IN
      Decide(a, IF Reaches("md", app[a]) /\ row.stage = "md_approval"
                THEN AdvanceStage(row, "ed_approval") ELSE row, "ed_approval")

\* A board referral is recorded at any stage.
MdReferBoard(a) == Decide(a, app[a], "md_approval")

\* The MCC's final amount, set by CRM; the quorum is not modelled.  The UPDATE
\* tests the stage; the event names the stage that was read.
BeginFinalizeMcc(w, a) == \E role \in {"crm", "head_crm"} : Begin(w, a, "finalize", role)

EndFinalizeMcc(w) ==
    /\ Serving(w, "finalize")
    /\ ReachesMine(w)
    /\ Mine(w).stage \in {"ed_approval", "md_approval"}
    /\ \E high \in BOOLEAN : Commit(w, WithAmount(Mine(w), high), request[w].seen)

-----------------------------------------------------------------------------
(* Offer and disbursement. *)

BeginOffer(w, a) ==
    /\ app[a].stage = "disbursement_ready"
    /\ Begin(w, a, "offer", "crm")

\* The insert into documents is subject to the same policy as the row.  No
\* stage is tested again; the web handler writes an event with the stage it
\* read, the mobile handler none.
EndOffer(w) ==
    /\ Serving(w, "offer")
    /\ ReachesMine(w)
    /\ \E event \in {NoEvent, request[w].seen} :
         Commit(w, [Mine(w) EXCEPT !.offer = TRUE], event)

BeginDisburse(w, a) ==
    /\ app[a].offer
    /\ Begin(w, a, "disburse", "crm")

\* Mutant: disburse.sql without its stage test.
EndDisburseAnyStage(w) ==
    /\ Serving(w, "disburse")
    /\ ReachesMine(w)
    /\ Commit(w, [Mine(w) EXCEPT !.stage = "disbursed", !.paid = TRUE], "disbursed")

\* disburse.sql, and the repayment schedule in the same transaction.
EndDisburse(w) ==
    /\ Serving(w, "disburse")
    /\ ReachesMine(w)
    /\ Mine(w).stage = "disbursement_ready"
    /\ Commit(w, [Mine(w) EXCEPT !.stage = "disbursed", !.paid = TRUE], "disbursed")

-----------------------------------------------------------------------------
(* The retired OCR review, still served. *)

\* Web: whatever stage the file is in, it goes to the Team Lead.  The result
\* is not looked at.
VerifyOcrWeb(a) ==
    Decide(a, IF Reaches("account_officer", app[a])
              THEN AdvanceStage(app[a], "branch_manager_review") ELSE app[a],
           "branch_manager_review")

\* Mutant: the CHECK constraint still admits the retired stage.
VerifyOcrMobileUnchecked(a) ==
    Decide(a, AdvanceStage(app[a], "branch_approval"), "branch_approval")

\* Mobile, any role: the stage "branch_approval" is refused by the CHECK
\* constraint, unless the policy already hides the row from the UPDATE; then
\* only the event remains.
VerifyOcrMobile(a) ==
    /\ \E role \in Role : ~Reaches(role, app[a])
    /\ Decide(a, app[a], "branch_approval")

-----------------------------------------------------------------------------
Init ==
    /\ app \in [App -> {NewApplication(high) : high \in BOOLEAN}]
    /\ request = [w \in Worker |-> Idle]
    /\ traced = [a \in App |-> TRUE]

BeginSome(w, a) ==
    \/ BeginSubmit(w, a)
    \/ BeginConcur(w, a)
    \/ BeginAdvance(w, a)
    \/ BeginReturnWeb(w, a)
    \/ BeginReturnMobile(w, a)
    \/ BeginUnderwrite(w, a)
    \/ BeginCrm(w, a)
    \/ BeginEd(w, a)
    \/ BeginEdEscalate(w, a)
    \/ BeginMdApproveWeb(w, a)
    \/ BeginMdApproveMobile(w, a)
    \/ BeginFinalizeMcc(w, a)
    \/ BeginOffer(w, a)
    \/ BeginDisburse(w, a)

EndSome(w) ==
    \/ EndSubmit(w)
    \/ EndConcur(w)
    \/ EndAdvance(w)
    \/ EndReturnWeb(w)
    \/ EndReturnMobile(w)
    \/ EndUnderwriteWeb(w)
    \/ EndUnderwriteMobile(w)
    \/ EndCrmAdvance(w)
    \/ EndCrmReturnWeb(w)
    \/ EndCrmReturnMobile(w)
    \/ EndCrmAdvanceMissed(w)
    \/ EndCrmIncomplete(w)
    \/ EndEdApprove(w)
    \/ EndEdDeny(w)
    \/ EndEdEscalate(w)
    \/ EndMdApprove(w)
    \/ EndFinalizeMcc(w)
    \/ EndOffer(w)
    \/ EndDisburse(w)

DecideSome(a) ==
    \/ EdEscalateWithAmount(a)
    \/ MdApproveWithAmount(a)
    \/ MdDeny(a)
    \/ MdComment(a)
    \/ MdReferBoard(a)
    \/ VerifyOcrWeb(a)
    \/ VerifyOcrMobile(a)

Next ==
    \/ \E w \in Worker, a \in App : BeginSome(w, a)
    \/ \E w \in Worker : EndSome(w) \/ Fail(w)
    \/ \E a \in App : DecideSome(a)

Spec == Init /\ [][Next]_vars

-----------------------------------------------------------------------------
(* Fairness for the liveness run: a request in progress ends, and CRM keeps *)
(* trying until a try is not lost (Fail).                                   *)
RequestsEnd == \A w \in Worker : WF_vars(EndSome(w) \/ Fail(w))

CrmPersists ==
    \A w \in Worker :
        /\ \A a \in App : SF_vars(BeginOffer(w, a)) /\ SF_vars(BeginDisburse(w, a))
        /\ SF_vars(EndOffer(w)) /\ SF_vars(EndDisburse(w))

CrmSpec == Spec /\ RequestsEnd /\ CrmPersists

-----------------------------------------------------------------------------
(* Properties. *)

\* The rows, the requests in flight and the trail are what the handlers make
\* of them.
TypeOK ==
    /\ app \in [App -> Row]
    /\ request \in [Worker -> Request \cup {Idle}]
    /\ traced \in [App -> BOOLEAN]

Decided(row) == row.edApproved \/ row.mdApproved

\* The stage a request read suits its operation, and what it relies on beside
\* the stage stays true until it commits.
ReadSuitsOp ==
    \A w \in Worker : request[w] # Idle =>
        LET op == request[w].op
            seen == request[w].seen
        IN
        /\ op = "concur" => seen \in {"branch_manager_review", "branch_supervisor_review"}
        /\ op = "advance" => seen \in DOMAIN NEXT_STAGE \ {"intake", "ed_approval", "md_approval"}
        /\ op \in {"returnWeb", "returnMobile"} => seen \in DOMAIN PREVIOUS_PIPELINE_STAGE
        /\ op \in {"crmWeb", "crmMobile"} => seen \in {"crm_review", "head_crm_review"}
        /\ op = "edApprove" => seen = "ed_approval"
        /\ op = "disburse" => Mine(w).offer

Stages(a) == <<app[a].stage, app'[a].stage>>
Moves(a) == app'[a].stage # app[a].stage

\* However stale the reviewers' reads are, a file waiting for disbursement or
\* disbursed carries an approval the ED or the MD gave (workflow/advance and
\* the returns, which write without a stage test, cannot put it there).
ReadyIsApproved ==
    \A a \in App :
        app[a].stage \in {"disbursement_ready", "disbursed"} => Decided(app[a])

\* A file becomes ready for disbursement only by an executive decision taken
\* on a file that is, at the commit, with the ED or the MD (ed_approve.sql and
\* md_approve.sql against stale reads).
ReadyByExecutive ==
    [][\A a \in App :
         Moves(a) /\ app'[a].stage = "disbursement_ready" =>
           app[a].stage \in {"ed_approval", "md_approval"}]_vars

\* Money is recorded as paid only on a file that is approved, ready and has
\* its offer letter, and paying moves it on: two CRM officers cannot both pay
\* on one readiness (disburse.sql).
PaidOnlyWhenReady ==
    [][\A a \in App :
         (Moves(a) /\ app'[a].stage = "disbursed") \/ app'[a].paid # app[a].paid =>
           /\ Stages(a) = <<"disbursement_ready", "disbursed">>
           /\ Decided(app[a]) /\ app[a].offer]_vars

\* A decision that moves a file was taken on the stage the file is in: true
\* of the handlers that retest the stage in their UPDATE, whatever commits
\* between their read and their write.
StaleDecisionRefused ==
    [][\A w \in Worker :
         /\ request[w].op \in {"concur", "returnWeb", "edApprove"}
         /\ request'[w] = Idle
         /\ Moves(request[w].app)
         => Mine(w).stage = request[w].seen]_vars

\* With row-level security, it is true of all handlers that test the stage
\* they read: the policy stands in for the test that advance_stage.sql and
\* mark_returned.sql lack.  One exception: the report a credit analyst saves
\* for a file in intake, since the analyst owns a later stage.
NoStaleMove ==
    [][\A w \in Worker :
         /\ request[w] # Idle /\ request'[w] = Idle
         /\ Moves(request[w].app)
         /\ request[w].op \notin {"edEscalate", "mdApprove"}
         /\ ~(Serving(w, "submit") /\ request[w].role = "credit_analyst")
         => Mine(w).stage = request[w].seen]_vars

\* An advisory file goes back from the MD to the ED (README.md:30).
AdviceReturnsToEd ==
    [][\A a \in App :
         app[a].escalated /\ ~app[a].high =>
           Stages(a) # <<"md_approval", "disbursement_ready">>]_vars

\* Every change of stage, stale ones included, is recorded in the workflow
\* history under the stage the file is then in (log_event.sql); the return by
\* CRM on the web is the one that is not.
MovesAreTraced ==
    [][\A a \in App :
         Moves(a) => \/ traced'[a]
                     \/ \E w \in Worker : Serving(w, "crmWeb") /\ request[w].app = a
                                          /\ app'[a].stage = "returned"]_vars

\* CRM records the disbursement of an approved file (README.md:90): it does
\* not stay ready for ever while CRM keeps trying.
ReadyIsLeft ==
    \A a \in App :
        app[a].stage = "disbursement_ready" ~> app[a].stage # "disbursement_ready"

\* Under row-level security a returned, a rejected and an approved file stay
\* where they are: no handler, not even the payment, moves them.
SettledStays ==
    [][\A a \in App : app[a].stage \in {"returned", "rejected", "disbursement_ready"} =>
                       app'[a].stage = app[a].stage]_vars

-----------------------------------------------------------------------------
(* With row-level security the handlers implement atomic decisions. *)

Chain == INSTANCE ReviewChain WITH
    stage <- [a \in App |-> app[a].stage],
    decided <- [a \in App |-> Decided(app[a])]

ImplementsChain == Chain!Spec
=============================================================================
