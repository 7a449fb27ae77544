-------------------------- MODULE LoanReview_proofs --------------------------
(***************************************************************************)
(* Proofs about LoanReview, for every set of applications and of workers,  *)
(* with row-level security or without it, and the proof that with it the   *)
(* pipeline implements ReviewChain.                                        *)
(***************************************************************************)
EXTENDS LoanReview, TLAPS

-----------------------------------------------------------------------------
(* The tables of the pipeline. *)

\* Every pipeline stage but the last has a next one, and only md_approval leads
\* to disbursement_ready.
LEMMA StageTable ==
    /\ DOMAIN NEXT_STAGE = PipelineStage \ {"disbursement_ready"}
    /\ \A s \in DOMAIN NEXT_STAGE : NEXT_STAGE[s] \in PipelineStage \ {"intake"}
    /\ \A s \in DOMAIN NEXT_STAGE :
         NEXT_STAGE[s] = "disbursement_ready" => s = "md_approval"
BY DEF NEXT_STAGE, PipelineStage, STAGE_ROLE

\* Every pipeline stage but intake has a previous one, which is never
\* disbursement_ready: no return makes a file ready.
LEMMA PreviousStage ==
    /\ DOMAIN PREVIOUS_PIPELINE_STAGE = PipelineStage \ {"intake"}
    /\ \A s \in DOMAIN PREVIOUS_PIPELINE_STAGE :
         PREVIOUS_PIPELINE_STAGE[s] \in PipelineStage \ {"disbursement_ready"}
<1>1. \A s \in PipelineStage \ {"intake"} : \E p \in DOMAIN NEXT_STAGE : NEXT_STAGE[p] = s
  BY DEF NEXT_STAGE, PipelineStage, STAGE_ROLE
<1>2. \A s \in PipelineStage \ {"intake"} : 
        (CHOOSE p \in DOMAIN NEXT_STAGE : NEXT_STAGE[p] = s) \in DOMAIN NEXT_STAGE
  BY <1>1
<1> QED  BY <1>2, StageTable DEF PREVIOUS_PIPELINE_STAGE

\* The owner of a stage is a role.
LEMMA RoleTable == \A s \in PipelineStage : STAGE_ROLE[s] \in Role
BY DEF Role

\* The pipeline and the terminal stages, by name.
LEMMA StageNames ==
    /\ PipelineStage \subseteq Stage
    /\ {"intake", "branch_manager_review", "branch_supervisor_review", "credit_analyst_review",
        "crm_review", "head_crm_review", "ed_approval", "md_approval",
        "disbursement_ready"} = PipelineStage
    /\ {"disbursed", "rejected", "returned"} \subseteq Stage
BY DEF Stage, PipelineStage, Terminal, STAGE_ROLE

\* The roles the handlers name.
LEMMA RoleNames ==
    {"account_officer", "credit_analyst", "crm", "head_crm", "ed", "md",
     "system_admin"} \subseteq Role
<1>1. /\ STAGE_ROLE["intake"] = "account_officer" /\ STAGE_ROLE["credit_analyst_review"] = "credit_analyst"
      /\ STAGE_ROLE["crm_review"] = "crm" /\ STAGE_ROLE["ed_approval"] = "ed"
      /\ STAGE_ROLE["md_approval"] = "md" /\ STAGE_ROLE["head_crm_review"] = "head_crm"
  BY DEF STAGE_ROLE
<1> QED  BY <1>1, RoleTable, StageNames DEF Role

-----------------------------------------------------------------------------
(* What a write may do to a row. *)

Sound(old, new) ==
    /\ new \in Row
    /\ new.stage \in {"disbursement_ready", "disbursed"} => Decided(new)
    /\ old.offer => new.offer
    /\ new.stage = "disbursement_ready" =>
         old.stage \in {"disbursement_ready", "ed_approval", "md_approval"}
    /\ (new.stage # old.stage /\ new.stage = "disbursed") \/ new.paid # old.paid =>
         /\ old.stage = "disbursement_ready" /\ new.stage = "disbursed"
         /\ Decided(old) /\ old.offer

Approved(row) == row.stage \in {"disbursement_ready", "disbursed"} => Decided(row)

\* A row that is left alone is sound.
LEMMA SameRow == \A row \in Row : Approved(row) => Sound(row, row)
BY DEF Sound, Approved

\* A move to any stage but the last two.
LEMMA MoveSound ==
    ASSUME NEW old \in Row, Approved(old),
           NEW stage \in Stage \ {"disbursement_ready", "disbursed"},
           NEW high \in BOOLEAN, NEW owns \in BOOLEAN
    PROVE  /\ Sound(old, AdvanceStage(old, stage))
           /\ Sound(old, WithAmount(AdvanceStage(old, stage), high))
           /\ Sound(old, [AdvanceStage(old, stage) EXCEPT !.analystOwns = owns])
           /\ Sound(old, [WithAmount(AdvanceStage(old, stage), high) EXCEPT !.analystOwns = owns])
BY DEF Sound, Approved, Decided, AdvanceStage, WithAmount, Row

\* A new amount changes nothing else.
LEMMA AmountSound ==
    ASSUME NEW old \in Row, Approved(old), NEW high \in BOOLEAN
    PROVE  Sound(old, WithAmount(old, high))
BY DEF Sound, Approved, Decided, WithAmount, Row

\* An executive decision may make a file ready (ed_approve.sql, md_approve.sql).
LEMMA ApprovalSound ==
    ASSUME NEW old \in Row, NEW high \in BOOLEAN,
           old.stage \in {"ed_approval", "md_approval"}
    PROVE  /\ Sound(old, [WithAmount(old, high) EXCEPT !.stage = "disbursement_ready",
                                                     !.edApproved = TRUE])
           /\ Sound(old, MdApproved(old))
           /\ Sound(old, MdApproved(WithAmount(old, high)))
BY StageNames DEF Sound, Decided, MdApproved, WithAmount, Row

\* A payment on a ready file with its offer is sound (disburse.sql).
LEMMA PaymentSound ==
    ASSUME NEW old \in Row, Approved(old), old.offer, old.stage = "disbursement_ready"
    PROVE  Sound(old, [old EXCEPT !.stage = "disbursed", !.paid = TRUE])
BY StageNames DEF Sound, Approved, Decided, Row

\* Filing the offer letter is sound at any stage.
LEMMA OfferSound ==
    ASSUME NEW old \in Row, Approved(old)
    PROVE  Sound(old, [old EXCEPT !.offer = TRUE])
BY DEF Sound, Approved, Decided, Row

\* An escalation sends the file to the MD and takes no approval away.
LEMMA EscalationSound ==
    ASSUME NEW old \in Row, NEW high \in BOOLEAN
    PROVE  Sound(old, Escalated(old)) /\ Sound(old, Escalated(WithAmount(old, high)))
BY StageNames DEF Sound, Decided, Escalated, WithAmount, Row

-----------------------------------------------------------------------------
(* Steps.  IInv is the inductive invariant: an approval of every ready file *)
(* is preserved by the writes that test no stage only because of what the   *)
(* requests in flight are known to have read.                               *)

IInv == TypeOK /\ ReadyIsApproved /\ ReadSuitsOp

SoundStep ==
    /\ IInv'
    /\ \A a \in App : Sound(app[a], app'[a])

\* What is known of a request in flight and of its file.
LEMMA Served ==
    ASSUME IInv, NEW w \in Worker, request[w] # Idle
    PROVE  /\ request[w] \in Request
           /\ request[w].app \in App /\ request[w].seen \in Stage /\ request[w].role \in Role
           /\ Mine(w) \in Row /\ Approved(Mine(w))
           /\ Mine(w).stage \in Stage /\ Mine(w).high \in BOOLEAN
BY DEF IInv, TypeOK, Request, Mine, ReadyIsApproved, Approved, Row

\* A worker with an operation has a request.
LEMMA ServingIsServed ==
    ASSUME NEW w \in Worker, request[w].op # "idle"
    PROVE  request[w] # Idle
BY DEF Idle

\* A step that writes no row is sound.
LEMMA Unmoved ==
    ASSUME IInv, UNCHANGED app
    PROVE  \A a \in App : Sound(app[a], app'[a])
BY SameRow DEF IInv, TypeOK, ReadyIsApproved, Approved

\* One sound write keeps all rows sound.
LEMMA WriteStep ==
    ASSUME IInv, NEW a \in App, NEW row, NEW event,
           Sound(app[a], row), Write(a, row, event)
    PROVE  /\ app' \in [App -> Row]
           /\ traced' \in [App -> BOOLEAN]
           /\ ReadyIsApproved'
           /\ \A b \in App : Sound(app[b], app'[b])
<1>1. app \in [App -> Row] /\ app' = [app EXCEPT ![a] = row] /\ row \in Row
  BY DEF IInv, TypeOK, Write, Sound
<1>2. app' \in [App -> Row] /\ app'[a] = row /\ \A b \in App \ {a} : app'[b] = app[b]
  BY <1>1
<1>3. \A b \in App : Sound(app[b], app'[b])
  BY <1>1, <1>2, SameRow DEF IInv, ReadyIsApproved, Approved
<1>4. ReadyIsApproved'
  BY <1>3 DEF Sound, ReadyIsApproved, Decided
<1>5. traced' \in [App -> BOOLEAN]
  <2> DEFINE mark == IF event = NoEvent THEN traced[a] /\ row.stage = app[a].stage
                                        ELSE event = row.stage
  <2>1. traced' = [traced EXCEPT ![a] = mark]
    BY DEF Write
  <2>2. mark \in BOOLEAN
    OBVIOUS
  <2> HIDE DEF mark
  <2> QED  BY <2>1, <2>2 DEF IInv, TypeOK
<1> QED  BY <1>2, <1>3, <1>4, <1>5

\* A handler of one step preserves the invariant if its write is sound; it
\* takes no offer letter away from the disbursements in flight.
LEMMA DecideStep ==
    ASSUME IInv, NEW a \in App, NEW row, NEW event,
           Sound(app[a], row), Decide(a, row, event)
    PROVE  SoundStep
<1>1. Write(a, row, event) /\ UNCHANGED request
  BY DEF Decide
<1>2. /\ app' \in [App -> Row] /\ traced' \in [App -> BOOLEAN] /\ ReadyIsApproved'
      /\ \A b \in App : Sound(app[b], app'[b])
  BY <1>1, WriteStep
<1>3. TypeOK'
  BY <1>1, <1>2 DEF IInv, TypeOK
<1>4. ReadSuitsOp'
  <2> SUFFICES ASSUME NEW w \in Worker, request[w] # Idle,
                      request[w].op = "disburse"
               PROVE  Mine(w)'.offer
    BY <1>1 DEF IInv, ReadSuitsOp
  <2>1. Mine(w).offer /\ request[w].app \in App
    BY Served DEF IInv, ReadSuitsOp
  <2> QED  BY <1>1, <1>2, <2>1 DEF Sound, Mine
<1> QED  BY <1>2, <1>3, <1>4 DEF SoundStep, IInv

\* So does the commit of a request.
LEMMA CommitStep ==
    ASSUME IInv, NEW w \in Worker, request[w] # Idle, NEW row, NEW event,
           Sound(Mine(w), row), Commit(w, row, event)
    PROVE  SoundStep
<1>1. /\ Write(request[w].app, row, event) /\ request' = [request EXCEPT ![w] = Idle]
      /\ request[w].app \in App
  BY Served DEF Commit
<1>2. /\ app' \in [App -> Row] /\ traced' \in [App -> BOOLEAN] /\ ReadyIsApproved'
      /\ \A b \in App : Sound(app[b], app'[b])
  BY <1>1, WriteStep DEF Mine
<1>3. TypeOK' /\ request'[w] = Idle /\ \A v \in Worker \ {w} : request'[v] = request[v]
  BY <1>1, <1>2 DEF IInv, TypeOK
<1>4. ReadSuitsOp'
  <2> SUFFICES ASSUME NEW v \in Worker \ {w}, request[v] # Idle,
                      request[v].op = "disburse"
               PROVE  Mine(v)'.offer
    BY <1>3 DEF IInv, ReadSuitsOp
  <2>1. Mine(v).offer /\ request[v].app \in App
    BY Served DEF IInv, ReadSuitsOp
  <2> QED  BY <1>2, <1>3, <2>1 DEF Sound, Mine
<1> QED  BY <1>2, <1>3, <1>4 DEF SoundStep, IInv

\* A rollback changes no row.
LEMMA FailStep ==
    ASSUME IInv, NEW w \in Worker, Fail(w)
    PROVE  SoundStep
<1>1. TypeOK' /\ ReadyIsApproved'
  BY DEF Fail, IInv, TypeOK, ReadyIsApproved, Decided
<1>2. ReadSuitsOp'
  BY DEF Fail, IInv, TypeOK, ReadSuitsOp, Mine
<1> QED  BY <1>1, <1>2, Unmoved DEF Fail, SoundStep, IInv

\* What a request must have read for Begin to preserve the invariant.
Suits(a, op) ==
    LET seen == app[a].stage IN
    /\ op = "concur" => seen \in {"branch_manager_review", "branch_supervisor_review"}
    /\ op = "advance" => seen \in DOMAIN NEXT_STAGE \ {"intake", "ed_approval", "md_approval"}
    /\ op \in {"returnWeb", "returnMobile"} => seen \in DOMAIN PREVIOUS_PIPELINE_STAGE
    /\ op \in {"crmWeb", "crmMobile"} => seen \in {"crm_review", "head_crm_review"}
    /\ op = "edApprove" => seen = "ed_approval"
    /\ op = "disburse" => app[a].offer

\* A read preserves the invariant if what was read suits the operation.
LEMMA BeginStep ==
    ASSUME IInv, NEW w \in Worker, NEW a \in App, NEW op \in Op, NEW role \in Role,
           Suits(a, op), Begin(w, a, op, role)
    PROVE  SoundStep
<1> DEFINE r == [op |-> op, role |-> role, app |-> a, seen |-> app[a].stage]
<1>1. r \in Request
  BY DEF IInv, TypeOK, Row, Request
<1>2. request' = [request EXCEPT ![w] = r] /\ UNCHANGED <<app, traced>>
  BY DEF Begin
<1>3. TypeOK' /\ request'[w] = r /\ \A v \in Worker \ {w} : request'[v] = request[v]
  BY <1>1, <1>2 DEF IInv, TypeOK
<1>4. ReadyIsApproved'
  BY <1>2 DEF IInv, ReadyIsApproved, Decided
<1>5. ReadSuitsOp'
  BY <1>2, <1>3 DEF IInv, ReadSuitsOp, Suits, Mine
<1> QED  BY <1>2, <1>3, <1>4, <1>5, Unmoved DEF SoundStep, IInv

\* Every handler checks that what it read suits its operation.
LEMMA BeginSomeStep ==
    ASSUME IInv, NEW w \in Worker, NEW a \in App, BeginSome(w, a)
    PROVE  SoundStep
<1> app[a].stage \in Stage
  BY DEF IInv, TypeOK, Row
<1>1. CASE BeginSubmit(w, a)
  <2>1. \A role \in {"account_officer", "credit_analyst"} : role \in Role
    BY RoleNames
  <2> QED  BY <1>1, <2>1, BeginStep DEF BeginSubmit, Suits, Op
<1>2. CASE BeginConcur(w, a)
  <2>1. STAGE_ROLE[app[a].stage] \in Role
    BY <1>2, StageNames, RoleTable DEF BeginConcur
  <2> QED  BY <1>2, <2>1, BeginStep DEF BeginConcur, Suits, Op
<1>3. CASE BeginAdvance(w, a)
  <2>1. STAGE_ROLE[app[a].stage] \in Role
    BY <1>3, StageTable, RoleTable DEF BeginAdvance
  <2> QED  BY <1>3, <2>1, BeginStep DEF BeginAdvance, Suits, Op
<1>4. CASE BeginReturnWeb(w, a)
  <2>1. STAGE_ROLE[app[a].stage] \in Role /\ "system_admin" \in Role
    BY <1>4, PreviousStage, RoleTable, RoleNames DEF BeginReturnWeb
  <2> QED  BY <1>4, <2>1, BeginStep DEF BeginReturnWeb, Suits, Op
<1>5. CASE BeginReturnMobile(w, a)
  <2>1. STAGE_ROLE[app[a].stage] \in Role /\ app[a].stage \in DOMAIN PREVIOUS_PIPELINE_STAGE
    BY <1>5, StageNames, PreviousStage, RoleTable DEF BeginReturnMobile
  <2> QED  BY <1>5, <2>1, BeginStep DEF BeginReturnMobile, Suits, Op
<1>6. CASE BeginUnderwrite(w, a)
  BY <1>6, RoleNames, BeginStep DEF BeginUnderwrite, Suits, Op
<1>7. CASE BeginCrm(w, a)
  <2>1. STAGE_ROLE[app[a].stage] \in Role
    BY <1>7, StageNames, RoleTable DEF BeginCrm
  <2> QED  BY <1>7, <2>1, BeginStep DEF BeginCrm, Suits, Op
<1>8. CASE BeginEd(w, a)
  BY <1>8, RoleNames, BeginStep DEF BeginEd, Suits, Op
<1>9. CASE BeginEdEscalate(w, a)
  BY <1>9, RoleNames, BeginStep DEF BeginEdEscalate, Suits, Op
<1>10. CASE BeginMdApproveWeb(w, a) \/ BeginMdApproveMobile(w, a)
  BY <1>10, RoleNames, BeginStep DEF BeginMdApproveWeb, BeginMdApproveMobile, Suits, Op
<1>11. CASE BeginOffer(w, a)
  BY <1>11, RoleNames, BeginStep DEF BeginOffer, Suits, Op
<1>12. CASE BeginDisburse(w, a)
  BY <1>12, RoleNames, BeginStep DEF BeginDisburse, Suits, Op
<1>13. CASE BeginFinalizeMcc(w, a)
  BY <1>13, RoleNames, BeginStep DEF BeginFinalizeMcc, Suits, Op
<1> QED
  BY <1>1, <1>2, <1>3, <1>4, <1>5, <1>6, <1>7, <1>8, <1>9, <1>10, <1>11, <1>12, <1>13
  DEF BeginSome

\* Where a request may move its file without looking at the stage again.
LEMMA Targets ==
    ASSUME IInv, NEW w \in Worker, request[w] # Idle
    PROVE  LET next == NEXT_STAGE[request[w].seen]
               previous == PREVIOUS_PIPELINE_STAGE[request[w].seen]
               early == Stage \ {"disbursement_ready", "disbursed"}
           IN
           /\ request[w].op \in {"concur", "advance", "crmWeb", "crmMobile"} => next \in early
           /\ request[w].op \in {"returnWeb", "returnMobile", "crmMobile"} => previous \in early
<1> DEFINE seen == request[w].seen
<1>1. /\ request[w].op \in {"concur", "advance", "crmWeb", "crmMobile"} =>
           seen \in DOMAIN NEXT_STAGE \ {"md_approval"}
      /\ request[w].op \in {"returnWeb", "returnMobile", "crmMobile"} =>
           seen \in DOMAIN PREVIOUS_PIPELINE_STAGE
  BY StageNames, StageTable, PreviousStage DEF IInv, ReadSuitsOp
<1>2. "disbursed" \notin PipelineStage
  BY StageNames
<1> QED  BY <1>1, <1>2, StageNames, StageTable, PreviousStage

\* Every commit is a sound write.
LEMMA EndSomeStep ==
    ASSUME IInv, NEW w \in Worker, EndSome(w)
    PROVE  SoundStep
<1> DEFINE early == Stage \ {"disbursement_ready", "disbursed"}
<1>a. request[w] # Idle
  BY ServingIsServed DEF EndSome, EndSubmit, EndConcur, EndAdvance, EndReturnWeb, EndReturnMobile,
     EndUnderwriteWeb, EndUnderwriteMobile, EndCrmAdvance, EndCrmReturnWeb, EndCrmReturnMobile,
     EndCrmAdvanceMissed, EndCrmIncomplete, EndEdApprove, EndEdDeny, EndEdEscalate,
     EndMdApprove, EndFinalizeMcc, EndOffer, EndDisburse, Serving
<1>b. Mine(w) \in Row /\ Approved(Mine(w)) /\ Mine(w).high \in BOOLEAN
  BY <1>a, Served
<1>c. AnalystAssigned \in BOOLEAN
  BY AnalystAssumption
<1>d. {"branch_manager_review", "rejected", "returned"} \subseteq early /\ Verdict \subseteq early
  BY StageNames DEF Verdict
<1> HIDE DEF early
<1>e. \A stage \in early : Sound(Mine(w), AdvanceStage(Mine(w), stage))
  BY <1>b, MoveSound DEF early
<1>f. \A stage \in early, high \in BOOLEAN :
        Sound(Mine(w), WithAmount(AdvanceStage(Mine(w), stage), high))
  BY <1>b, MoveSound DEF early
<1>g. \A stage \in early, owns \in BOOLEAN :
        Sound(Mine(w), [AdvanceStage(Mine(w), stage) EXCEPT !.analystOwns = owns])
  BY <1>b, MoveSound DEF early
<1>h. \A stage \in early, high \in BOOLEAN, owns \in BOOLEAN :
        Sound(Mine(w), [WithAmount(AdvanceStage(Mine(w), stage), high)
                          EXCEPT !.analystOwns = owns])
  BY <1>b, MoveSound DEF early
<1>i. Sound(Mine(w), Mine(w))
  BY <1>b, SameRow
<1>j. \A row, event : Sound(Mine(w), row) /\ Commit(w, row, event) => SoundStep
  BY <1>a, CommitStep
<1>n. request[w].op \in {"concur", "advance", "crmWeb", "crmMobile"} =>
        NEXT_STAGE[request[w].seen] \in early
  BY <1>a, Targets DEF early
<1>p. request[w].op \in {"returnWeb", "returnMobile", "crmMobile"} =>
        PREVIOUS_PIPELINE_STAGE[request[w].seen] \in early
  BY <1>a, Targets DEF early
<1>1. CASE EndSubmit(w)
  BY <1>1, <1>d, <1>e, <1>j DEF EndSubmit
<1>2. CASE EndConcur(w)
  BY <1>2, <1>f, <1>j, <1>n DEF EndConcur, Serving
<1>3. CASE EndAdvance(w)
  BY <1>3, <1>e, <1>j, <1>n DEF EndAdvance, Serving
<1>4. CASE EndReturnWeb(w)
  <2> DEFINE target == PREVIOUS_PIPELINE_STAGE[request[w].seen]
             owns == AnalystAssigned \/ target = "credit_analyst_review"
  <2>1. target \in early /\ owns \in BOOLEAN
    BY <1>4, <1>p DEF EndReturnWeb, Serving
  <2>2. Commit(w, [AdvanceStage(Mine(w), target) EXCEPT !.analystOwns = owns], target)
    BY <1>4 DEF EndReturnWeb
  <2> HIDE DEF target, owns
  <2> QED  BY <2>1, <2>2, <1>g, <1>j
<1>5. CASE EndReturnMobile(w)
  BY <1>5, <1>e, <1>j, <1>p DEF EndReturnMobile, Serving
<1>6. CASE EndUnderwriteWeb(w)
  BY <1>6, <1>d, <1>f, <1>i, <1>j DEF EndUnderwriteWeb
<1>7. CASE EndUnderwriteMobile(w)
  BY <1>7, <1>d, <1>e, <1>j DEF EndUnderwriteMobile
<1>8. CASE EndCrmAdvance(w)
  BY <1>8, <1>b, <1>f, <1>j, <1>n DEF EndCrmAdvance, Serving
<1>9. CASE EndCrmReturnWeb(w)
  BY <1>9, <1>c, <1>d, <1>h, <1>i, <1>j DEF EndCrmReturnWeb
<1>10. CASE EndCrmReturnMobile(w)
  BY <1>10, <1>e, <1>i, <1>j, <1>p DEF EndCrmReturnMobile, Serving
<1>11. CASE EndCrmAdvanceMissed(w)
  BY <1>11, <1>i, <1>j DEF EndCrmAdvanceMissed
<1>12. CASE EndEdApprove(w)
  BY <1>12, <1>b, <1>j, ApprovalSound DEF EndEdApprove
<1>13. CASE EndEdDeny(w)
  BY <1>13, <1>d, <1>f, <1>j DEF EndEdDeny
<1>14. CASE EndEdEscalate(w)
  BY <1>14, <1>b, <1>j, EscalationSound DEF EndEdEscalate
<1>15. CASE EndMdApprove(w)
  BY <1>15, <1>b, <1>j, ApprovalSound DEF EndMdApprove
<1>16. CASE EndOffer(w)
  BY <1>16, <1>b, <1>j, OfferSound DEF EndOffer
<1>17. CASE EndDisburse(w)
  <2>1. Mine(w).offer
    BY <1>17, <1>a DEF EndDisburse, Serving, IInv, ReadSuitsOp
  <2> QED  BY <1>17, <2>1, <1>b, <1>j, PaymentSound DEF EndDisburse
<1>18. CASE EndCrmIncomplete(w)
  BY <1>18, <1>b, <1>j, AmountSound DEF EndCrmIncomplete
<1>19. CASE EndFinalizeMcc(w)
  BY <1>19, <1>b, <1>j, AmountSound DEF EndFinalizeMcc
<1> QED
  BY <1>1, <1>2, <1>3, <1>4, <1>5, <1>6, <1>7, <1>8, <1>9, <1>10, <1>11, <1>12, <1>13, <1>14,
     <1>15, <1>16, <1>17, <1>18, <1>19 DEF EndSome

\* Every handler of one step makes a sound write.
LEMMA DecideSomeStep ==
    ASSUME IInv, NEW a \in App, DecideSome(a)
    PROVE  SoundStep
<1>a. app[a] \in Row /\ Approved(app[a]) /\ app[a].high \in BOOLEAN
  BY DEF IInv, TypeOK, ReadyIsApproved, Approved, Row
<1>b. \A row, event : Sound(app[a], row) /\ Decide(a, row, event) => SoundStep
  BY DecideStep
<1>c. Sound(app[a], app[a])
  BY <1>a, SameRow
<1>1. CASE EdEscalateWithAmount(a)
  BY <1>1, <1>a, <1>b, EscalationSound DEF EdEscalateWithAmount
<1>2. CASE MdApproveWithAmount(a)
  BY <1>2, <1>a, <1>b, ApprovalSound DEF MdApproveWithAmount
<1>3. CASE MdDeny(a)
  BY <1>3, <1>a, <1>b, MoveSound, StageNames DEF MdDeny
<1>4. CASE MdComment(a)
  <2>1. PICK high \in BOOLEAN :
          LET row == WithAmount(app[a], high) IN
          Decide(a, IF Reaches("md", app[a]) /\ row.stage = "md_approval"
                    THEN AdvanceStage(row, "ed_approval") ELSE row, "ed_approval")
    BY <1>4, <1>a DEF MdComment
  <2>2. Sound(app[a], WithAmount(app[a], high))
    BY <1>a, AmountSound
  <2>3. AdvanceStage(WithAmount(app[a], high), "ed_approval")
          = WithAmount(AdvanceStage(app[a], "ed_approval"), high)
    BY <1>a DEF AdvanceStage, WithAmount, Row
  <2>4. Sound(app[a], WithAmount(AdvanceStage(app[a], "ed_approval"), high))
    BY <1>a, MoveSound, StageNames
  <2> QED  BY <2>1, <2>2, <2>3, <2>4, <1>b
<1>5. CASE MdReferBoard(a)
  BY <1>5, <1>b, <1>c DEF MdReferBoard
<1>6. CASE VerifyOcrWeb(a)
  BY <1>6, <1>a, <1>b, <1>c, MoveSound, StageNames DEF VerifyOcrWeb
<1>7. CASE VerifyOcrMobile(a)
  BY <1>7, <1>b, <1>c DEF VerifyOcrMobile
<1> QED
  BY <1>1, <1>2, <1>3, <1>4, <1>5, <1>6, <1>7 DEF DecideSome

\* Every step of the review is sound.
LEMMA NextStep ==
    ASSUME IInv, [Next]_vars
    PROVE  SoundStep
<1>1. CASE UNCHANGED vars
  <2>1. IInv'
    BY <1>1 DEF vars, IInv, TypeOK, ReadyIsApproved, Decided, ReadSuitsOp, Mine
  <2> QED  BY <1>1, <2>1, Unmoved DEF vars, SoundStep
<1> QED  BY <1>1, BeginSomeStep, EndSomeStep, DecideSomeStep, FailStep DEF Next

-----------------------------------------------------------------------------
(* The theorems. *)

\* Files in intake satisfy the invariant.
LEMMA InitInv == Init => IInv
<1> SUFFICES ASSUME Init PROVE IInv
  OBVIOUS
<1>1. TypeOK
  <2>1. \A high \in BOOLEAN : NewApplication(high) \in Row
    BY StageNames, AnalystAssumption DEF NewApplication, Row
  <2> QED  BY <2>1 DEF Init, TypeOK
<1>2. ReadyIsApproved
  BY DEF Init, ReadyIsApproved, NewApplication
<1>3. ReadSuitsOp
  BY DEF Init, ReadSuitsOp
<1> QED  BY <1>1, <1>2, <1>3 DEF IInv

\* The inductive invariant holds of every behaviour.
THEOREM Invariance == Spec => []IInv
<1>1. IInv /\ [Next]_vars => IInv'
  BY NextStep DEF SoundStep
<1> QED  BY InitInv, <1>1, PTL DEF Spec

\* The rows, the requests in flight and the trail are well formed.
THEOREM TypeCorrect == Spec => []TypeOK
<1>1. IInv => TypeOK
  BY DEF IInv
<1> QED  BY Invariance, <1>1, PTL

\* The stage a request read suits its operation, and what it relies on beside
\* the stage stays true until it commits.
THEOREM ReadsSuitTheirRequests == Spec => []ReadSuitsOp
<1>1. IInv => ReadSuitsOp
  BY DEF IInv
<1> QED  BY Invariance, <1>1, PTL

\* Whatever requests are in flight, a file that is ready for disbursement or
\* disbursed carries an approval of the ED or the MD.
THEOREM ReadyFilesAreApproved == Spec => []ReadyIsApproved
<1>1. IInv => ReadyIsApproved
  BY DEF IInv
<1> QED  BY Invariance, <1>1, PTL

\* A file becomes ready only in the hands of the ED or the MD.
THEOREM ReadyOnlyByExecutive == Spec => ReadyByExecutive
<1>1. IInv /\ [Next]_vars =>
        [\A a \in App :
           Moves(a) /\ app'[a].stage = "disbursement_ready" =>
             app[a].stage \in {"ed_approval", "md_approval"}]_vars
  BY NextStep DEF SoundStep, Sound, Moves
<1> QED  BY Invariance, <1>1, PTL DEF Spec, ReadyByExecutive

\* A disbursement is recorded once, on an approved file with its offer letter.
THEOREM PaymentsAreDue == Spec => PaidOnlyWhenReady
<1>1. IInv /\ [Next]_vars =>
        [\A a \in App :
           (Moves(a) /\ app'[a].stage = "disbursed") \/ app'[a].paid # app[a].paid =>
             /\ Stages(a) = <<"disbursement_ready", "disbursed">>
             /\ Decided(app[a]) /\ app[a].offer]_vars
  BY NextStep DEF SoundStep, Sound, Moves, Stages
<1> QED  BY Invariance, <1>1, PTL DEF Spec, PaidOnlyWhenReady

\* A request that ends on a moved file is the one that moved it.
LEMMA MoverEnds ==
    ASSUME IInv, [Next]_vars, NEW w \in Worker,
           request[w] # Idle, request'[w] = Idle, Moves(request[w].app)
    PROVE  EndSome(w)
<1>1. request' # request /\ request[w].app \in App
  BY Served
<1>2. app'[request[w].app] # app[request[w].app]
  BY DEF Moves
<1>3. PICK v \in Worker : EndSome(v)
  <2>1. \A v \in Worker, a \in App : ~BeginSome(v, a)
    BY <1>2 DEF BeginSome, BeginSubmit, BeginConcur, BeginAdvance, BeginReturnWeb,
       BeginReturnMobile, BeginUnderwrite, BeginCrm, BeginEd, BeginEdEscalate,
       BeginMdApproveWeb, BeginMdApproveMobile, BeginFinalizeMcc, BeginOffer, BeginDisburse,
       Begin
  <2>2. \A a \in App : ~DecideSome(a)
    BY <1>1 DEF DecideSome, EdEscalateWithAmount, MdApproveWithAmount, MdDeny, MdComment,
       MdReferBoard, VerifyOcrWeb, VerifyOcrMobile, Decide
  <2>3. \A v \in Worker : ~Fail(v)
    BY <1>2 DEF Fail
  <2> QED  BY <1>1, <2>1, <2>2, <2>3 DEF Next, vars
<1>4. request' = [request EXCEPT ![v] = Idle]
  BY <1>3 DEF EndSome, EndSubmit, EndConcur, EndAdvance, EndReturnWeb, EndReturnMobile,
     EndUnderwriteWeb, EndUnderwriteMobile, EndCrmAdvance, EndCrmReturnWeb,
     EndCrmReturnMobile, EndCrmAdvanceMissed, EndCrmIncomplete, EndEdApprove, EndEdDeny,
     EndEdEscalate, EndMdApprove, EndFinalizeMcc, EndOffer, EndDisburse, Commit
<1>5. v = w
  BY <1>4 DEF IInv, TypeOK
<1> QED  BY <1>3, <1>5

\* A concurrence, a web return or an ED approval never moves a file that has
\* left the stage the request read.
THEOREM StaleDecisionsAreRefused == Spec => StaleDecisionRefused
<1>1. ASSUME IInv, [Next]_vars, NEW w \in Worker,
             request[w].op \in {"concur", "returnWeb", "edApprove"}, request'[w] = Idle,
             Moves(request[w].app)
      PROVE  Mine(w).stage = request[w].seen
  <2>1. request[w] # Idle
    BY <1>1 DEF Idle
  <2>2. EndSome(w)
    BY <1>1, <2>1, MoverEnds
  <2>3. EndConcur(w) \/ EndReturnWeb(w) \/ EndEdApprove(w)
    BY <1>1, <2>2 DEF EndSome, EndSubmit, EndAdvance, EndReturnMobile, EndUnderwriteWeb,
       EndUnderwriteMobile, EndCrmAdvance, EndCrmReturnWeb, EndCrmReturnMobile,
       EndCrmAdvanceMissed, EndCrmIncomplete, EndEdDeny, EndEdEscalate, EndMdApprove,
       EndFinalizeMcc, EndOffer, EndDisburse,
       Serving
  <2>4. CASE EndEdApprove(w)
    <3>1. Mine(w).stage = "ed_approval" /\ request[w].op = "edApprove"
      BY <2>4 DEF EndEdApprove, Serving
    <3>2. request[w].seen = "ed_approval"
      BY <1>1, <2>1, <3>1 DEF IInv, ReadSuitsOp
    <3> QED  BY <3>1, <3>2
  <2> QED  BY <2>3, <2>4 DEF EndConcur, EndReturnWeb
<1>2. IInv /\ [Next]_vars =>
        [\A w \in Worker :
           /\ request[w].op \in {"concur", "returnWeb", "edApprove"}
           /\ request'[w] = Idle
           /\ Moves(request[w].app)
           => Mine(w).stage = request[w].seen]_vars
  BY <1>1
<1> QED  BY Invariance, <1>2, PTL DEF Spec, StaleDecisionRefused
-----------------------------------------------------------------------------
(* The workflow history. *)

\* The stage of the row written is the one the event names, or the one the
\* file is in already.
Told(old, row, event) ==
    row.stage = old.stage \/ (event \in Stage /\ row.stage = event)

Trace == \A a \in App : Moves(a) => traced'[a]

\* No stage is taken for the absence of an event.
LEMMA EventNames == NoEvent \notin Stage
BY DEF NoEvent, Stage, PipelineStage, Terminal, STAGE_ROLE

\* A write that is told leaves a true trail behind every move.
LEMMA WriteTold ==
    ASSUME IInv, NEW a \in App, NEW row, NEW event,
           Told(app[a], row, event), Write(a, row, event)
    PROVE  Trace
<1>1. app' = [app EXCEPT ![a] = row] /\ app \in [App -> Row] /\ traced \in [App -> BOOLEAN]
  BY DEF Write, IInv, TypeOK
<1>2. app'[a] = row /\ \A b \in App \ {a} : app'[b] = app[b]
  BY <1>1
<1>3. ASSUME Moves(a)  PROVE traced'[a]
  <2>1. event # NoEvent /\ event = row.stage
    BY <1>2, <1>3, EventNames DEF Moves, Told
  <2>2. traced' = [traced EXCEPT ![a] = (event = row.stage)]
    BY <2>1 DEF Write
  <2> QED  BY <1>1, <2>1, <2>2
<1> QED  BY <1>2, <1>3 DEF Trace, Moves

\* Every commit is told, but that of a file CRM returns on the web.
LEMMA EndSomeTold ==
    ASSUME IInv, NEW w \in Worker, EndSome(w), ~EndCrmReturnWeb(w)
    PROVE  Trace
<1> DEFINE early == Stage \ {"disbursement_ready", "disbursed"}
<1>a. request[w] # Idle
  BY ServingIsServed DEF EndSome, EndSubmit, EndConcur, EndAdvance, EndReturnWeb, EndReturnMobile,
     EndUnderwriteWeb, EndUnderwriteMobile, EndCrmAdvance,
     EndCrmAdvanceMissed, EndCrmReturnMobile, EndCrmIncomplete, EndEdApprove, EndEdDeny,
     EndEdEscalate, EndMdApprove, EndFinalizeMcc, EndOffer, EndDisburse, Serving
<1>b. Mine(w) \in Row /\ request[w].app \in App
  BY <1>a, Served
<1>c. \A row, event : Told(Mine(w), row, event) /\ Commit(w, row, event) => Trace
  BY <1>b, WriteTold DEF Commit, Mine
<1>d. {"branch_manager_review", "rejected", "returned"} \subseteq early /\ Verdict \subseteq early
  BY StageNames DEF Verdict
<1>n. request[w].op \in {"concur", "advance", "crmWeb", "crmMobile"} =>
        NEXT_STAGE[request[w].seen] \in early
  BY <1>a, Targets
<1>p. request[w].op \in {"returnWeb", "returnMobile", "crmMobile"} =>
        PREVIOUS_PIPELINE_STAGE[request[w].seen] \in early
  BY <1>a, Targets
<1> HIDE DEF early
<1>e. \A stage \in early : Told(Mine(w), AdvanceStage(Mine(w), stage), stage)
  BY <1>b DEF Told, AdvanceStage, Row, early
<1>f. \A stage \in early : \A high :
        Told(Mine(w), WithAmount(AdvanceStage(Mine(w), stage), high), stage)
  BY <1>b DEF Told, AdvanceStage, WithAmount, Row, early
<1>g. \A stage \in early : \A owns :
        Told(Mine(w), [AdvanceStage(Mine(w), stage) EXCEPT !.analystOwns = owns], stage)
  BY <1>b DEF Told, AdvanceStage, Row, early
<1>i. \A event : Told(Mine(w), Mine(w), event)
  BY DEF Told
<1>j. \A high, event : Told(Mine(w), WithAmount(Mine(w), high), event)
  BY <1>b DEF Told, WithAmount, Row
<1>1. CASE EndSubmit(w)
  BY <1>1, <1>c, <1>d, <1>e DEF EndSubmit
<1>2. CASE EndConcur(w)
  BY <1>2, <1>c, <1>f, <1>n DEF EndConcur, Serving
<1>3. CASE EndAdvance(w)
  BY <1>3, <1>c, <1>e, <1>n DEF EndAdvance, Serving
<1>4. CASE EndReturnWeb(w)
  <2> DEFINE target == PREVIOUS_PIPELINE_STAGE[request[w].seen]
             owns == AnalystAssigned \/ target = "credit_analyst_review"
  <2>1. target \in early
    BY <1>4, <1>p DEF EndReturnWeb, Serving
  <2>2. Commit(w, [AdvanceStage(Mine(w), target) EXCEPT !.analystOwns = owns], target)
    BY <1>4 DEF EndReturnWeb
  <2> HIDE DEF target, owns
  <2> QED  BY <2>1, <2>2, <1>c, <1>g
<1>5. CASE EndReturnMobile(w)
  BY <1>5, <1>c, <1>e, <1>p DEF EndReturnMobile, Serving
<1>6. CASE EndUnderwriteWeb(w)
  BY <1>6, <1>c, <1>d, <1>f, <1>i DEF EndUnderwriteWeb
<1>7. CASE EndUnderwriteMobile(w)
  BY <1>7, <1>c, <1>d, <1>e DEF EndUnderwriteMobile
<1>8. CASE EndCrmAdvance(w)
  BY <1>8, <1>c, <1>f, <1>n DEF EndCrmAdvance, Serving
<1>9. CASE EndCrmReturnMobile(w)
  BY <1>9, <1>c, <1>e, <1>i, <1>p DEF EndCrmReturnMobile, Serving
<1>10. CASE EndCrmAdvanceMissed(w)
  BY <1>10, <1>c, <1>i DEF EndCrmAdvanceMissed
<1>11. CASE EndEdApprove(w)
  <2>1. \A high : Told(Mine(w), [WithAmount(Mine(w), high) EXCEPT !.stage = "disbursement_ready",
                                                          !.edApproved = TRUE],
                       "disbursement_ready")
    BY <1>b, StageNames DEF Told, WithAmount, Row
  <2> QED  BY <1>11, <1>c, <2>1 DEF EndEdApprove
<1>12. CASE EndEdDeny(w)
  BY <1>12, <1>c, <1>d, <1>f DEF EndEdDeny
<1>13. CASE EndEdEscalate(w)
  <2>1. Told(Mine(w), Escalated(Mine(w)), "md_approval")
    BY <1>b, StageNames DEF Told, Escalated, Row
  <2> QED  BY <1>13, <1>c, <2>1 DEF EndEdEscalate
<1>14. CASE EndMdApprove(w)
  <2>1. Told(Mine(w), MdApproved(Mine(w)), "disbursement_ready")
    BY <1>b, StageNames DEF Told, MdApproved, Row
  <2> QED  BY <1>14, <1>c, <2>1 DEF EndMdApprove
<1>15. CASE EndOffer(w)
  <2>1. \A event : Told(Mine(w), [Mine(w) EXCEPT !.offer = TRUE], event)
    BY <1>b DEF Told, Row
  <2> QED  BY <1>15, <1>c, <2>1 DEF EndOffer
<1>16. CASE EndDisburse(w)
  <2>1. Told(Mine(w), [Mine(w) EXCEPT !.stage = "disbursed", !.paid = TRUE], "disbursed")
    BY <1>b, StageNames DEF Told, Row
  <2> QED  BY <1>16, <1>c, <2>1 DEF EndDisburse
<1>17. CASE EndCrmIncomplete(w) \/ EndFinalizeMcc(w)
  BY <1>17, <1>c, <1>j DEF EndCrmIncomplete, EndFinalizeMcc
<1> QED
  BY <1>1, <1>2, <1>3, <1>4, <1>5, <1>6, <1>7, <1>8, <1>9, <1>10, <1>11, <1>12, <1>13, <1>14,
     <1>15, <1>16, <1>17 DEF EndSome

\* So is every handler of one step.
LEMMA DecideSomeTold ==
    ASSUME IInv, NEW a \in App, DecideSome(a)
    PROVE  Trace
<1>a. app[a] \in Row
  BY DEF IInv, TypeOK
<1>b. \A row, event : Told(app[a], row, event) /\ Decide(a, row, event) => Trace
  BY WriteTold DEF Decide
<1>c. \A event : Told(app[a], app[a], event)
  BY DEF Told
<1>1. CASE EdEscalateWithAmount(a)
  <2>1. Told(app[a], Escalated(WithAmount(app[a], FALSE)), "md_approval")
    BY <1>a, StageNames DEF Told, Escalated, WithAmount, Row
  <2> QED  BY <1>1, <1>b, <2>1 DEF EdEscalateWithAmount
<1>2. CASE MdApproveWithAmount(a)
  <2>1. \A high : Told(app[a], MdApproved(WithAmount(app[a], high)), "disbursement_ready")
    BY <1>a, StageNames DEF Told, MdApproved, WithAmount, Row
  <2> QED  BY <1>2, <1>b, <2>1 DEF MdApproveWithAmount
<1>3. CASE MdDeny(a)
  <2>1. \A high : Told(app[a], WithAmount(AdvanceStage(app[a], "rejected"), high), "rejected")
    BY <1>a, StageNames DEF Told, AdvanceStage, WithAmount, Row
  <2> QED  BY <1>3, <1>b, <2>1 DEF MdDeny
<1>4. CASE MdComment(a)
  <2>1. PICK high :
          LET row == WithAmount(app[a], high) IN
          Decide(a, IF Reaches("md", app[a]) /\ row.stage = "md_approval"
                    THEN AdvanceStage(row, "ed_approval") ELSE row, "ed_approval")
    BY <1>4 DEF MdComment
  <2>2. Told(app[a], WithAmount(app[a], high), "ed_approval")
    BY <1>a DEF Told, WithAmount, Row
  <2>3. Told(app[a], AdvanceStage(WithAmount(app[a], high), "ed_approval"), "ed_approval")
    BY <1>a, StageNames DEF Told, AdvanceStage, WithAmount, Row
  <2> QED  BY <2>1, <2>2, <2>3, <1>b
<1>5. CASE MdReferBoard(a) \/ VerifyOcrMobile(a)
  BY <1>5, <1>b, <1>c DEF MdReferBoard, VerifyOcrMobile
<1>6. CASE VerifyOcrWeb(a)
  <2>1. Told(app[a], AdvanceStage(app[a], "branch_manager_review"), "branch_manager_review")
    BY <1>a, StageNames DEF Told, AdvanceStage, Row
  <2> QED  BY <1>6, <1>b, <1>c, <2>1 DEF VerifyOcrWeb
<1> QED
  BY <1>1, <1>2, <1>3, <1>4, <1>5, <1>6 DEF DecideSome

\* The one commit that is not told moves one file, to "returned".
LEMMA CrmReturnMoves ==
    ASSUME IInv, NEW w \in Worker, EndCrmReturnWeb(w), NEW a \in App, Moves(a)
    PROVE  Serving(w, "crmWeb") /\ request[w].app = a /\ app'[a].stage = "returned"
<1>1. request[w] # Idle /\ Serving(w, "crmWeb")
  BY ServingIsServed DEF EndCrmReturnWeb, Serving
<1>2. Mine(w) \in Row /\ request[w].app \in App /\ app \in [App -> Row]
  BY <1>1, Served DEF IInv, TypeOK
<1>3. PICK high \in BOOLEAN :
        app' = [app EXCEPT ![request[w].app] =
                  IF ReachesMine(w)
                  THEN [WithAmount(AdvanceStage(Mine(w), "returned"), high)
                          EXCEPT !.analystOwns = AnalystAssigned]
                  ELSE Mine(w)]
  BY DEF EndCrmReturnWeb, Commit, Write
<1>4. request[w].app = a
  BY <1>2, <1>3 DEF Moves
<1>5. [WithAmount(AdvanceStage(Mine(w), "returned"), high)
         EXCEPT !.analystOwns = AnalystAssigned].stage = "returned"
  BY <1>2 DEF WithAmount, AdvanceStage, Row
<1>6. CASE ReachesMine(w)
  BY <1>1, <1>2, <1>3, <1>4, <1>5, <1>6
<1>7. CASE ~ReachesMine(w)
  <2>1. app'[a] = app[a]
    BY <1>2, <1>3, <1>4, <1>7 DEF Mine
  <2> QED  BY <2>1 DEF Moves
<1> QED  BY <1>6, <1>7

\* The workflow history has every change of stage but the returns by CRM on the
\* web, under the stage the file is then in.
THEOREM HistoryIsComplete == Spec => MovesAreTraced
<1>1. ASSUME IInv, [Next]_vars, NEW a \in App, Moves(a)
      PROVE  \/ traced'[a]
             \/ \E w \in Worker : Serving(w, "crmWeb") /\ request[w].app = a
                                  /\ app'[a].stage = "returned"
  <2>1. app' # app
    BY <1>1 DEF Moves
  <2>2. \A w \in Worker, b \in App : ~BeginSome(w, b)
    BY <2>1 DEF BeginSome, BeginSubmit, BeginConcur, BeginAdvance, BeginReturnWeb,
       BeginReturnMobile, BeginUnderwrite, BeginCrm, BeginEd, BeginEdEscalate,
       BeginMdApproveWeb, BeginMdApproveMobile, BeginFinalizeMcc, BeginOffer, BeginDisburse,
       Begin
  <2>3. \A w \in Worker : ~Fail(w)
    BY <2>1 DEF Fail
  <2>4. (\E w \in Worker : EndSome(w)) \/ (\E b \in App : DecideSome(b))
    BY <1>1, <2>1, <2>2, <2>3 DEF Next, vars
  <2>5. CASE \E b \in App : DecideSome(b)
    BY <1>1, <2>5, DecideSomeTold DEF Trace
  <2>6. CASE \E w \in Worker : EndSome(w) /\ ~EndCrmReturnWeb(w)
    BY <1>1, <2>6, EndSomeTold DEF Trace
  <2>7. CASE \E w \in Worker : EndCrmReturnWeb(w)
    BY <1>1, <2>7, CrmReturnMoves
  <2> QED  BY <2>4, <2>5, <2>6, <2>7
<1>2. IInv /\ [Next]_vars =>
        [\A a \in App :
           Moves(a) => \/ traced'[a]
                       \/ \E w \in Worker : Serving(w, "crmWeb") /\ request[w].app = a
                                            /\ app'[a].stage = "returned"]_vars
  BY <1>1
<1> QED  BY Invariance, <1>2, PTL DEF Spec, MovesAreTraced

-----------------------------------------------------------------------------
(***************************************************************************)
(* With row-level security, LoanReview implements ReviewChain: requests    *)
(* that read without a lock act as whole decisions taken one at a time.    *)
(* The proof is where the policy loan_update does its work: the role of a  *)
(* request owns one stage, so an UPDATE that reaches the row finds it in   *)
(* the stage the request read.                                             *)
(***************************************************************************)

\* The stages an UPDATE may find the row in.
Open == PipelineStage \ {"disbursement_ready"}

\* The open stages, by name.
LEMMA OpenStages ==
    Open = {"intake", "branch_manager_review", "branch_supervisor_review",
            "credit_analyst_review", "crm_review", "head_crm_review", "ed_approval", "md_approval"}
BY StageNames DEF Open

\* The owner of each open stage.
LEMMA OneStagePerRole ==
    /\ STAGE_ROLE["intake"] = "account_officer"
    /\ STAGE_ROLE["branch_manager_review"] = "branch_manager"
    /\ STAGE_ROLE["branch_supervisor_review"] = "branch_supervisor"
    /\ STAGE_ROLE["credit_analyst_review"] = "credit_analyst"
    /\ STAGE_ROLE["crm_review"] = "crm"
    /\ STAGE_ROLE["head_crm_review"] = "head_crm"
    /\ STAGE_ROLE["ed_approval"] = "ed"
    /\ STAGE_ROLE["md_approval"] = "md"
BY DEF STAGE_ROLE

\* Under the policy loan_update, an UPDATE reaches a row only in the stage its
\* role owns.
LEMMA Policy ==
    ASSUME RlsEnforced, NEW role, NEW row, Reaches(role, row)
    PROVE  row.stage \in Open /\ STAGE_ROLE[row.stage] = role
BY DEF Reaches, AppCanMutate, Open

\* Neighbours in the pipeline are linked in the chain.
LEMMA Links ==
    LET link == Chain!Link IN
    /\ \A s \in Open \ {"md_approval"} : <<s, NEXT_STAGE[s]>> \in link
    /\ \A s \in Open \ {"intake"} : <<PREVIOUS_PIPELINE_STAGE[s], s>> \in link
<1>1. \A s \in Open \ {"md_approval"} : <<s, NEXT_STAGE[s]>> \in Chain!Link
  BY OpenStages DEF NEXT_STAGE, Chain!Link
<1>2. \A s \in Open \ {"intake"} :
        /\ PREVIOUS_PIPELINE_STAGE[s] \in Open \ {"md_approval"}
        /\ NEXT_STAGE[PREVIOUS_PIPELINE_STAGE[s]] = s
  <2> SUFFICES ASSUME NEW s \in Open \ {"intake"}
               PROVE  /\ PREVIOUS_PIPELINE_STAGE[s] \in Open \ {"md_approval"}
                      /\ NEXT_STAGE[PREVIOUS_PIPELINE_STAGE[s]] = s
    OBVIOUS
  <2>1. \E p \in DOMAIN NEXT_STAGE : NEXT_STAGE[p] = s
    BY OpenStages DEF NEXT_STAGE
  <2>2. s \in PipelineStage \ {"intake"}
    BY DEF Open
  <2>3. PREVIOUS_PIPELINE_STAGE[s] = CHOOSE p \in DOMAIN NEXT_STAGE : NEXT_STAGE[p] = s
    BY <2>2 DEF PREVIOUS_PIPELINE_STAGE
  <2>4. PREVIOUS_PIPELINE_STAGE[s] \in DOMAIN NEXT_STAGE /\ NEXT_STAGE[PREVIOUS_PIPELINE_STAGE[s]] = s
    BY <2>1, <2>3
  <2>5. NEXT_STAGE["md_approval"] = "disbursement_ready"
    BY DEF NEXT_STAGE
  <2> QED  BY <2>4, <2>5, StageTable DEF Open
<1> QED  BY <1>1, <1>2

-----------------------------------------------------------------------------
(* Whose request it is. *)

RoleSuits(op, role, seen) ==
    /\ op \in {"concur", "advance", "returnMobile", "underwriteWeb", "underwriteMobile",
               "crmWeb", "crmMobile"} => seen \in Open /\ role = STAGE_ROLE[seen]
    /\ op = "returnWeb" =>
         seen \in PipelineStage \ {"intake"} /\ role \in {STAGE_ROLE[seen], "system_admin"}
    /\ op = "submit" => seen = "intake" /\ role \in {"account_officer", "credit_analyst"}
    /\ op \in {"underwriteWeb", "underwriteMobile"} => role = "credit_analyst"
    /\ op \in {"edApprove", "edDeny", "edEscalate"} => role = "ed"
    /\ op \in {"edApprove", "edDeny"} => seen = "ed_approval"
    /\ op = "mdApprove" => role = "md"
    /\ op \in {"offer", "disburse"} => role = "crm"

RoleSuitsOp ==
    \A w \in Worker :
        request[w] # Idle => RoleSuits(request[w].op, request[w].role, request[w].seen)

RlsInv == IInv /\ RoleSuitsOp

\* There is no request at the start.
LEMMA RoleInit == Init => RoleSuitsOp
BY DEF Init, RoleSuitsOp

\* A read keeps RoleSuitsOp if the role suits what was read.
LEMMA RoleBegin ==
    ASSUME RlsInv, NEW w \in Worker, NEW a \in App, NEW op, NEW role,
           RoleSuits(op, role, app[a].stage), Begin(w, a, op, role)
    PROVE  RoleSuitsOp'
<1>1. request' = [request EXCEPT ![w] =
                    [op |-> op, role |-> role, app |-> a, seen |-> app[a].stage]]
  BY DEF Begin
<1> QED  BY <1>1 DEF RlsInv, IInv, TypeOK, RoleSuitsOp

\* Every handler checks that its role suits what it read.
LEMMA RoleBeginSome ==
    ASSUME RlsInv, NEW w \in Worker, NEW a \in App, BeginSome(w, a)
    PROVE  RoleSuitsOp'
<1> app[a].stage \in Stage
  BY DEF RlsInv, IInv, TypeOK, Row
<1>1. CASE BeginSubmit(w, a)
  BY <1>1, RoleBegin DEF BeginSubmit, RoleSuits
<1>2. CASE BeginConcur(w, a)
  BY <1>2, RoleBegin, OpenStages DEF BeginConcur, RoleSuits
<1>3. CASE BeginAdvance(w, a)
  <2>1. app[a].stage \in Open
    BY <1>3, StageTable DEF BeginAdvance, Open
  <2> QED  BY <1>3, <2>1, RoleBegin DEF BeginAdvance, RoleSuits
<1>4. CASE BeginReturnWeb(w, a)
  <2>1. app[a].stage \in PipelineStage \ {"intake"}
    BY <1>4, PreviousStage DEF BeginReturnWeb
  <2> QED  BY <1>4, <2>1, RoleBegin DEF BeginReturnWeb, RoleSuits
<1>5. CASE BeginReturnMobile(w, a)
  BY <1>5, RoleBegin, OpenStages DEF BeginReturnMobile, RoleSuits
<1>6. CASE BeginUnderwrite(w, a)
  BY <1>6, RoleBegin, OpenStages, OneStagePerRole DEF BeginUnderwrite, RoleSuits
<1>7. CASE BeginCrm(w, a)
  BY <1>7, RoleBegin, OpenStages DEF BeginCrm, RoleSuits
<1>8. CASE BeginEd(w, a)
  BY <1>8, RoleBegin DEF BeginEd, RoleSuits
<1>9. CASE BeginEdEscalate(w, a)
  BY <1>9, RoleBegin DEF BeginEdEscalate, RoleSuits
<1>10. CASE BeginMdApproveWeb(w, a) \/ BeginMdApproveMobile(w, a)
  BY <1>10, RoleBegin DEF BeginMdApproveWeb, BeginMdApproveMobile, RoleSuits
<1>11. CASE BeginOffer(w, a)
  BY <1>11, RoleBegin DEF BeginOffer, RoleSuits
<1>12. CASE BeginDisburse(w, a)
  BY <1>12, RoleBegin DEF BeginDisburse, RoleSuits
<1>13. CASE BeginFinalizeMcc(w, a)
  BY <1>13, RoleBegin DEF BeginFinalizeMcc, RoleSuits
<1> QED
  BY <1>1, <1>2, <1>3, <1>4, <1>5, <1>6, <1>7, <1>8, <1>9, <1>10, <1>11, <1>12, <1>13
  DEF BeginSome

-----------------------------------------------------------------------------
(* What a write may do to a row, seen from the chain. *)

SameStage(old, new) == new.stage = old.stage /\ (Decided(new) <=> Decided(old))

\* One stage to another, by a step of the chain that is not an approval.
ChainTo(s, t) ==
    \/ s = t
    \/ <<s, t>> \in Chain!Link
    \/ <<t, s>> \in Chain!Link
    \/ s = "credit_analyst_review" /\ t = "branch_manager_review"
    \/ s \in {"credit_analyst_review", "crm_review", "head_crm_review"} /\ t = "returned"
    \/ s \in {"ed_approval", "md_approval", "credit_analyst_review"} /\ t = "rejected"

ChainMove(old, new) ==
    \/ (Decided(new) <=> Decided(old)) /\ ChainTo(old.stage, new.stage)
    \/ /\ old.stage \in {"ed_approval", "md_approval"}
       /\ new.stage = "disbursement_ready" /\ Decided(new)

\* A write that moves one file as the chain allows is a step of the chain.
LEMMA ChainStep ==
    ASSUME IInv, NEW a \in App, NEW row \in Row, NEW event,
           Write(a, row, event), ChainMove(app[a], row)
    PROVE  [Chain!Next]_(Chain!vars)
<1> DEFINE st == [b \in App |-> app[b].stage]
           de == [b \in App |-> Decided(app[b])]
           st2 == [b \in App |-> app'[b].stage]
           de2 == [b \in App |-> Decided(app'[b])]
<1>1. app' \in [App -> Row] /\ app'[a] = row /\ \A b \in App \ {a} : app'[b] = app[b]
  BY DEF IInv, TypeOK, Write
<1>2. st2 = [st EXCEPT ![a] = row.stage]
  BY <1>1
<1>3. de2 = [de EXCEPT ![a] = Decided(row)]
  BY <1>1
<1>4. (Decided(row) <=> Decided(app[a])) => de2 = de
  <2> SUFFICES ASSUME Decided(row) <=> Decided(app[a]) PROVE de2 = de
    OBVIOUS
  <2>1. Decided(row) = Decided(app[a])
    BY DEF Decided
  <2>2. \A b \in App : Decided(app'[b]) = Decided(app[b])
    BY <1>1, <2>1
  <2> QED  BY <2>2
<1>5. st[a] = app[a].stage
  OBVIOUS
<1>6. CASE SameStage(app[a], row)
  <2>1. st2 = st
    BY <1>1, <1>6 DEF SameStage
  <2> QED  BY <2>1, <1>4, <1>6 DEF SameStage, Chain!vars
<1>7. CASE ~SameStage(app[a], row)
  <2>0. CASE /\ app[a].stage \in {"ed_approval", "md_approval"}
             /\ row.stage = "disbursement_ready" /\ Decided(row)
    <3>1. de2 = [de EXCEPT ![a] = TRUE]
      BY <2>0, <1>3
    <3> QED  BY <2>0, <3>1, <1>2 DEF Chain!Next, Chain!Approve, Chain!Executive
  <2>1. CASE <<app[a].stage, row.stage>> \in Chain!Link /\ (Decided(row) <=> Decided(app[a]))
    <3>1. row.stage \in Chain!PreExecutive \cup Chain!Executive
      BY <2>1 DEF Chain!Link, Chain!PreExecutive, Chain!Executive
    <3> QED  BY <2>1, <3>1, <1>2, <1>4 DEF Chain!Next, Chain!Forward, Chain!Move
  <2>2. CASE <<row.stage, app[a].stage>> \in Chain!Link /\ (Decided(row) <=> Decided(app[a]))
    <3>1. row.stage \in Chain!PreExecutive \cup Chain!Executive
      BY <2>2 DEF Chain!Link, Chain!PreExecutive, Chain!Executive
    <3> QED  BY <2>2, <3>1, <1>2, <1>4 DEF Chain!Next, Chain!Back, Chain!Move
  <2>3. CASE /\ app[a].stage = "credit_analyst_review" /\ row.stage = "branch_manager_review"
             /\ (Decided(row) <=> Decided(app[a]))
    BY <2>3, <1>2, <1>4 DEF Chain!Next, Chain!Resubmit, Chain!Move
  <2>4. CASE /\ app[a].stage \in {"credit_analyst_review", "crm_review", "head_crm_review"}
             /\ row.stage = "returned" /\ (Decided(row) <=> Decided(app[a]))
    BY <2>4, <1>2, <1>4 DEF Chain!Next, Chain!SendBack, Chain!Move
  <2>5. CASE /\ app[a].stage \in {"ed_approval", "md_approval", "credit_analyst_review"}
             /\ row.stage = "rejected" /\ (Decided(row) <=> Decided(app[a]))
    BY <2>5, <1>2, <1>4 DEF Chain!Next, Chain!Deny, Chain!Move, Chain!Executive
  <2> QED  BY <1>7, <2>0, <2>1, <2>2, <2>3, <2>4, <2>5 DEF ChainMove, ChainTo, SameStage
<1> QED  BY <1>6, <1>7

\* So is the commit of such a write.
LEMMA ChainCommit ==
    ASSUME RlsInv, NEW w \in Worker, request[w] # Idle, NEW row \in Row, NEW event,
           Commit(w, row, event), ChainMove(Mine(w), row)
    PROVE  RoleSuitsOp' /\ [Chain!Next]_(Chain!vars)
<1>1. request[w].app \in App /\ Write(request[w].app, row, event)
      /\ request' = [request EXCEPT ![w] = Idle]
  BY Served DEF RlsInv, Commit
<1>2. RoleSuitsOp'
  BY <1>1 DEF RlsInv, IInv, TypeOK, RoleSuitsOp
<1> QED  BY <1>1, <1>2, ChainStep DEF RlsInv, Mine

\* So is such a decision of one step.
LEMMA ChainDecide ==
    ASSUME RlsInv, NEW a \in App, NEW row \in Row, NEW event,
           Decide(a, row, event), ChainMove(app[a], row)
    PROVE  RoleSuitsOp' /\ [Chain!Next]_(Chain!vars)
<1>1. RoleSuitsOp'
  BY DEF Decide, RlsInv, RoleSuitsOp
<1> QED  BY <1>1, ChainStep DEF RlsInv, Decide

\* A step that writes no row is a stutter of the chain.
LEMMA ChainUnmoved ==
    ASSUME UNCHANGED app
    PROVE  [Chain!Next]_(Chain!vars)
BY DEF Chain!vars, Decided

-----------------------------------------------------------------------------
(* An UPDATE that reaches the row confirms what was read. *)

\* No role owns two open stages.
LEMMA OneRolePerStage ==
    \A s, t \in Open : STAGE_ROLE[s] = STAGE_ROLE[t] => s = t
BY OpenStages, OneStagePerRole

\* An UPDATE that reaches the row under the policy finds it in the stage the
\* request read.
LEMMA FreshRead ==
    ASSUME RlsEnforced, RlsInv, NEW w \in Worker, request[w] # Idle, ReachesMine(w)
    PROVE  LET op == request[w].op
               stage == Mine(w).stage
           IN
           /\ stage \in Open
           /\ op \in {"concur", "advance", "returnMobile", "crmWeb", "crmMobile"} =>
                stage = request[w].seen
           /\ op = "submit" => stage \in {"intake", "credit_analyst_review"}
           /\ op \in {"underwriteWeb", "underwriteMobile"} => stage = "credit_analyst_review"
           /\ op \in {"edApprove", "edDeny", "edEscalate"} => stage = "ed_approval"
           /\ op = "mdApprove" => stage = "md_approval"
           /\ op \in {"offer", "disburse"} => stage = "crm_review"
<1> DEFINE role == request[w].role
           stage == Mine(w).stage
           seen == request[w].seen
<1>1. stage \in Open /\ STAGE_ROLE[stage] = role
  BY Policy DEF ReachesMine
<1>2. RoleSuits(request[w].op, role, seen)
  BY DEF RlsInv, RoleSuitsOp
<1>3. seen \in Open /\ role = STAGE_ROLE[seen] => stage = seen
  BY <1>1, OneRolePerStage
<1>4. /\ role = "account_officer" => stage = "intake"
      /\ role = "credit_analyst" => stage = "credit_analyst_review"
      /\ role = "ed" => stage = "ed_approval"
      /\ role = "md" => stage = "md_approval"
      /\ role = "crm" => stage = "crm_review"
  BY <1>1, OpenStages, OneStagePerRole
<1> QED  BY <1>1, <1>2, <1>3, <1>4 DEF RoleSuits

\* The rows the handlers write, by what they do to stage and approvals.
Moved(old, new, stage) ==
    /\ new \in Row /\ new.stage = stage
    /\ Decided(new) <=> Decided(old)

ApprovedTo(new) == new \in Row /\ new.stage = "disbursement_ready" /\ Decided(new)

\* The writes that move a file keep its approvals.
LEMMA MovedRow ==
    ASSUME NEW old \in Row, NEW stage \in Stage, NEW high \in BOOLEAN, NEW owns \in BOOLEAN
    PROVE  /\ Moved(old, AdvanceStage(old, stage), stage)
           /\ Moved(old, WithAmount(AdvanceStage(old, stage), high), stage)
           /\ Moved(old, [AdvanceStage(old, stage) EXCEPT !.analystOwns = owns], stage)
           /\ Moved(old, [WithAmount(AdvanceStage(old, stage), high)
                            EXCEPT !.analystOwns = owns], stage)
           /\ Moved(old, AdvanceStage(WithAmount(old, high), stage), stage)
BY DEF AdvanceStage, WithAmount, Row, Decided, Moved

\* The writes that leave the stage alone keep the approvals too.
LEMMA KeptRow ==
    ASSUME NEW old \in Row, NEW high \in BOOLEAN
    PROVE  /\ Moved(old, old, old.stage)
           /\ Moved(old, WithAmount(old, high), old.stage)
           /\ Moved(old, [old EXCEPT !.offer = TRUE], old.stage)
BY DEF WithAmount, Row, Decided, Moved

\* An escalation is a move to md_approval.
LEMMA EscalatedRow ==
    ASSUME NEW old \in Row, NEW high \in BOOLEAN
    PROVE  /\ Moved(old, Escalated(old), "md_approval")
           /\ Moved(old, Escalated(WithAmount(old, high)), "md_approval")
BY StageNames DEF Escalated, WithAmount, Row, Decided, Moved

\* An executive approval makes the file ready and decided.
LEMMA ApprovedRow ==
    ASSUME NEW old \in Row, NEW high \in BOOLEAN
    PROVE  /\ ApprovedTo([WithAmount(old, high) EXCEPT !.stage = "disbursement_ready",
                                                       !.edApproved = TRUE])
           /\ ApprovedTo(MdApproved(old))
           /\ ApprovedTo(MdApproved(WithAmount(old, high)))
BY StageNames DEF MdApproved, WithAmount, Row, Decided, ApprovedTo

-----------------------------------------------------------------------------
(* Every commit is a step of the chain. *)

ChainKept == RoleSuitsOp' /\ [Chain!Next]_(Chain!vars)

\* A commit that moves a file along the chain.
LEMMA CommitMoved ==
    ASSUME RlsInv, NEW w \in Worker, request[w] # Idle, NEW row, NEW event, NEW stage,
           Commit(w, row, event), Moved(Mine(w), row, stage), ChainTo(Mine(w).stage, stage)
    PROVE  ChainKept
BY ChainCommit DEF Moved, ChainMove, ChainKept

\* A commit that approves a file.
LEMMA CommitApproved ==
    ASSUME RlsInv, NEW w \in Worker, request[w] # Idle, NEW row, NEW event,
           Commit(w, row, event), ApprovedTo(row), Mine(w).stage \in {"ed_approval", "md_approval"}
    PROVE  ChainKept
BY ChainCommit DEF ApprovedTo, ChainMove, ChainKept

\* A one-step decision that moves a file along the chain.
LEMMA DecideMoved ==
    ASSUME RlsInv, NEW a \in App, NEW row, NEW event, NEW stage,
           Decide(a, row, event), Moved(app[a], row, stage), ChainTo(app[a].stage, stage)
    PROVE  ChainKept
BY ChainDecide DEF Moved, ChainMove, ChainKept

\* A one-step decision that approves a file.
LEMMA DecideApproved ==
    ASSUME RlsInv, NEW a \in App, NEW row, NEW event,
           Decide(a, row, event), ApprovedTo(row), app[a].stage \in {"ed_approval", "md_approval"}
    PROVE  ChainKept
BY ChainDecide DEF ApprovedTo, ChainMove, ChainKept

\* The moves the handlers make are moves of the chain.
LEMMA LinkTo ==
    /\ \A s : ChainTo(s, s)
    /\ \A s \in Open \ {"md_approval"} :
         NEXT_STAGE[s] \in Stage /\ ChainTo(s, NEXT_STAGE[s])
    /\ \A s \in Open \ {"intake"} :
         PREVIOUS_PIPELINE_STAGE[s] \in Stage /\ ChainTo(s, PREVIOUS_PIPELINE_STAGE[s])
    /\ \A s \in {"intake", "credit_analyst_review"} : ChainTo(s, "branch_manager_review")
    /\ \A s \in {"credit_analyst_review", "crm_review", "head_crm_review"} : ChainTo(s, "returned")
    /\ \A s \in {"credit_analyst_review", "ed_approval", "md_approval"} : ChainTo(s, "rejected")
    /\ ChainTo("credit_analyst_review", "crm_review")
    /\ ChainTo("ed_approval", "md_approval")
    /\ ChainTo("md_approval", "ed_approval")
    /\ {"branch_manager_review", "crm_review", "ed_approval", "md_approval",
        "returned", "rejected"} \subseteq Stage
<1>1. \A s \in Open \ {"md_approval"} : NEXT_STAGE[s] \in Stage
  BY StageTable, StageNames DEF Open
<1>2. \A s \in Open \ {"intake"} : PREVIOUS_PIPELINE_STAGE[s] \in Stage
  BY PreviousStage, StageNames DEF Open
<1>3. ChainTo("credit_analyst_review", "crm_review") /\ ChainTo("ed_approval", "md_approval")
      /\ ChainTo("md_approval", "ed_approval") /\ ChainTo("intake", "branch_manager_review")
  BY DEF ChainTo, Chain!Link
<1>4. {"branch_manager_review", "crm_review", "ed_approval", "md_approval",
       "returned", "rejected"} \subseteq Stage
  BY StageNames
<1> QED  BY <1>1, <1>2, <1>3, <1>4, Links DEF ChainTo

\* The commits of the reviewers before the executives.
LEMMA ReviewerCommits ==
    ASSUME RlsEnforced, RlsInv, NEW w \in Worker,
           \/ EndSubmit(w) \/ EndConcur(w) \/ EndAdvance(w) \/ EndReturnWeb(w)
           \/ EndReturnMobile(w) \/ EndUnderwriteWeb(w) \/ EndUnderwriteMobile(w)
    PROVE  ChainKept
<1>a. request[w] # Idle
  BY ServingIsServed DEF EndSubmit, EndConcur, EndAdvance, EndReturnWeb, EndReturnMobile,
     EndUnderwriteWeb, EndUnderwriteMobile, Serving
<1>b. Mine(w) \in Row /\ AnalystAssigned \in BOOLEAN
  BY <1>a, Served, AnalystAssumption DEF RlsInv
<1>c. \A row, event, stage :
        Commit(w, row, event) /\ Moved(Mine(w), row, stage) /\ ChainTo(Mine(w).stage, stage)
        => ChainKept
  BY <1>a, CommitMoved
<1>d. \A stage \in Stage : Moved(Mine(w), AdvanceStage(Mine(w), stage), stage)
  BY <1>b, MovedRow
<1>e. \A stage \in Stage, high \in BOOLEAN :
        Moved(Mine(w), WithAmount(AdvanceStage(Mine(w), stage), high), stage)
  BY <1>b, MovedRow
<1>k. ReachesMine(w) => Mine(w).stage \in Open
  BY <1>a, FreshRead
<1>1. CASE EndSubmit(w)
  <2>1. Mine(w).stage \in {"intake", "credit_analyst_review"}
    BY <1>1, <1>a, FreshRead DEF EndSubmit, Serving
  <2>2. Commit(w, AdvanceStage(Mine(w), "branch_manager_review"), "branch_manager_review")
    BY <1>1 DEF EndSubmit
  <2>3. Moved(Mine(w), AdvanceStage(Mine(w), "branch_manager_review"), "branch_manager_review")
    BY <1>d, LinkTo
  <2> QED  BY <1>c, <2>1, <2>2, <2>3, LinkTo
<1>2. CASE EndConcur(w) \/ EndAdvance(w)
  <2> DEFINE target == NEXT_STAGE[request[w].seen]
  <2>1. Mine(w).stage = request[w].seen /\ Mine(w).stage \in Open
    BY <1>2, <1>a, FreshRead DEF EndConcur, EndAdvance, Serving
  <2>2. Mine(w).stage # "md_approval"
    BY <1>2, <1>a, <2>1 DEF EndConcur, EndAdvance, Serving, RlsInv, IInv, ReadSuitsOp
  <2>3. target \in Stage /\ ChainTo(Mine(w).stage, target)
    BY <2>1, <2>2, LinkTo
  <2>4. \/ \E high \in BOOLEAN : Commit(w, WithAmount(AdvanceStage(Mine(w), target), high), target)
        \/ Commit(w, AdvanceStage(Mine(w), target), target)
    BY <1>2 DEF EndConcur, EndAdvance
  <2> HIDE DEF target
  <2> QED  BY <1>c, <1>d, <1>e, <2>3, <2>4
<1>3. CASE EndReturnWeb(w)
  <2> DEFINE target == PREVIOUS_PIPELINE_STAGE[request[w].seen]
             owns == AnalystAssigned \/ target = "credit_analyst_review"
             row == [AdvanceStage(Mine(w), target) EXCEPT !.analystOwns = owns]
  <2>1. Mine(w).stage = request[w].seen /\ Mine(w).stage \in Open
    BY <1>3, <1>k DEF EndReturnWeb
  <2>2. Mine(w).stage # "intake"
    BY <1>3, <1>a, <2>1 DEF EndReturnWeb, Serving, RlsInv, RoleSuitsOp, RoleSuits
  <2>3. target \in Stage /\ ChainTo(Mine(w).stage, target)
    BY <2>1, <2>2, LinkTo
  <2>4. Commit(w, row, target)
    BY <1>3 DEF EndReturnWeb
  <2>5. owns \in BOOLEAN
    OBVIOUS
  <2>6. Moved(Mine(w), row, target)
    <3> HIDE DEF target, owns
    <3> QED  BY <1>b, <2>3, <2>5, MovedRow
  <2> HIDE DEF target, row
  <2> QED  BY <1>c, <2>3, <2>4, <2>6
<1>4. CASE EndReturnMobile(w)
  <2> DEFINE target == PREVIOUS_PIPELINE_STAGE[request[w].seen]
  <2>1. Mine(w).stage = request[w].seen /\ Mine(w).stage \in Open
    BY <1>4, <1>a, FreshRead DEF EndReturnMobile, Serving
  <2>2. Mine(w).stage # "intake"
    BY <1>4, <1>a, <2>1, PreviousStage DEF EndReturnMobile, Serving, RlsInv, IInv, ReadSuitsOp
  <2>3. target \in Stage /\ ChainTo(Mine(w).stage, target)
    BY <2>1, <2>2, LinkTo
  <2>4. Commit(w, AdvanceStage(Mine(w), target), target)
    BY <1>4 DEF EndReturnMobile
  <2> HIDE DEF target
  <2> QED  BY <1>c, <1>d, <2>3, <2>4
<1>5. CASE EndUnderwriteWeb(w) /\ ~ReachesMine(w)
  <2>1. PICK event : Commit(w, Mine(w), event)
    BY <1>5 DEF EndUnderwriteWeb
  <2>2. Moved(Mine(w), Mine(w), Mine(w).stage)
    BY <1>b, KeptRow
  <2> QED  BY <1>c, <2>1, <2>2, LinkTo
<1>6. CASE (EndUnderwriteWeb(w) /\ ReachesMine(w)) \/ EndUnderwriteMobile(w)
  <2>1. Mine(w).stage = "credit_analyst_review"
    BY <1>6, <1>a, FreshRead DEF EndUnderwriteWeb, EndUnderwriteMobile, Serving
  <2>2. PICK verdict \in Verdict, high \in BOOLEAN :
          \/ Commit(w, WithAmount(AdvanceStage(Mine(w), verdict), high), verdict)
          \/ Commit(w, AdvanceStage(Mine(w), verdict), verdict)
    BY <1>6 DEF EndUnderwriteWeb, EndUnderwriteMobile
  <2>3. verdict \in Stage /\ ChainTo(Mine(w).stage, verdict)
    BY <2>1, LinkTo DEF Verdict
  <2> QED  BY <1>c, <1>d, <1>e, <2>2, <2>3
<1> QED  BY <1>1, <1>2, <1>3, <1>4, <1>5, <1>6

\* The commits of the CRM desk.
LEMMA CrmCommits ==
    ASSUME RlsEnforced, RlsInv, NEW w \in Worker,
           \/ EndCrmAdvance(w) \/ EndCrmReturnWeb(w) \/ EndCrmReturnMobile(w)
           \/ EndCrmAdvanceMissed(w) \/ EndCrmIncomplete(w)
    PROVE  ChainKept
<1>a. request[w] # Idle /\ request[w].op \in {"crmWeb", "crmMobile"}
  BY ServingIsServed DEF EndCrmAdvance, EndCrmReturnWeb, EndCrmReturnMobile,
     EndCrmAdvanceMissed, EndCrmIncomplete, Serving
<1>b. Mine(w) \in Row /\ Mine(w).high \in BOOLEAN /\ AnalystAssigned \in BOOLEAN
  BY <1>a, Served, AnalystAssumption DEF RlsInv, Row
<1>c. \A row, event, stage :
        Commit(w, row, event) /\ Moved(Mine(w), row, stage) /\ ChainTo(Mine(w).stage, stage)
        => ChainKept
  BY <1>a, CommitMoved
<1>d. \A event : Commit(w, Mine(w), event) => ChainKept
  BY <1>b, <1>c, KeptRow, LinkTo
<1>e. ReachesMine(w) =>
        /\ Mine(w).stage = request[w].seen /\ Mine(w).stage \in Open
        /\ Mine(w).stage \in {"crm_review", "head_crm_review"}
  BY <1>a, FreshRead DEF RlsInv, IInv, ReadSuitsOp
<1>7. CASE EndCrmAdvance(w)
  <2> DEFINE target == NEXT_STAGE[request[w].seen]
  <2>1. target \in Stage /\ ChainTo(Mine(w).stage, target)
    BY <1>7, <1>e, LinkTo DEF EndCrmAdvance
  <2>2. PICK high \in BOOLEAN : Commit(w, WithAmount(AdvanceStage(Mine(w), target), high), target)
    BY <1>7, <1>b DEF EndCrmAdvance
  <2> HIDE DEF target
  <2>3. Moved(Mine(w), WithAmount(AdvanceStage(Mine(w), target), high), target)
    BY <1>b, <2>1, MovedRow
  <2> QED  BY <1>c, <2>1, <2>2, <2>3
<1>8. CASE EndCrmReturnWeb(w)
  <2>1. PICK high \in BOOLEAN :
          Commit(w, IF ReachesMine(w)
                    THEN [WithAmount(AdvanceStage(Mine(w), "returned"), high)
                            EXCEPT !.analystOwns = AnalystAssigned]
                    ELSE Mine(w), NoEvent)
    BY <1>8 DEF EndCrmReturnWeb
  <2>2. CASE ~ReachesMine(w)
    BY <2>1, <2>2, <1>d
  <2>3. CASE ReachesMine(w)
    <3>1. ChainTo(Mine(w).stage, "returned") /\ "returned" \in Stage
      BY <2>3, <1>e, LinkTo
    <3>2. Moved(Mine(w), [WithAmount(AdvanceStage(Mine(w), "returned"), high)
                            EXCEPT !.analystOwns = AnalystAssigned], "returned")
      BY <1>b, <3>1, MovedRow
    <3>3. Commit(w, [WithAmount(AdvanceStage(Mine(w), "returned"), high)
                       EXCEPT !.analystOwns = AnalystAssigned], NoEvent)
      BY <2>1, <2>3
    <3> QED  BY <1>c, <3>1, <3>2, <3>3
  <2> QED  BY <2>2, <2>3
<1>9. CASE EndCrmReturnMobile(w)
  <2> DEFINE target == PREVIOUS_PIPELINE_STAGE[request[w].seen]
  <2>1. CASE ~ReachesMine(w)
    BY <1>9, <1>d, <2>1 DEF EndCrmReturnMobile
  <2>2. CASE ReachesMine(w)
    <3>1. target \in Stage /\ ChainTo(Mine(w).stage, target)
      BY <2>2, <1>e, LinkTo
    <3>2. Commit(w, AdvanceStage(Mine(w), target), target)
      BY <1>9, <2>2 DEF EndCrmReturnMobile
    <3> HIDE DEF target
    <3>3. Moved(Mine(w), AdvanceStage(Mine(w), target), target)
      BY <1>b, <3>1, MovedRow
    <3> QED  BY <1>c, <3>1, <3>2, <3>3
  <2> QED  BY <2>1, <2>2
<1>10. CASE EndCrmAdvanceMissed(w)
  BY <1>10, <1>d DEF EndCrmAdvanceMissed
<1>11. CASE EndCrmIncomplete(w)
  <2>1. PICK high \in BOOLEAN : Commit(w, WithAmount(Mine(w), high), NoEvent)
    BY <1>11 DEF EndCrmIncomplete
  <2>2. Moved(Mine(w), WithAmount(Mine(w), high), Mine(w).stage)
    BY <1>b, KeptRow
  <2> QED  BY <1>c, <2>1, <2>2, LinkTo
<1> QED  BY <1>7, <1>8, <1>9, <1>10, <1>11

\* The commits of the executives, and of CRM on an approved file.
LEMMA ExecutiveCommits ==
    ASSUME RlsEnforced, RlsInv, NEW w \in Worker,
           \/ EndEdApprove(w) \/ EndEdDeny(w) \/ EndEdEscalate(w) \/ EndMdApprove(w)
           \/ EndFinalizeMcc(w) \/ EndOffer(w) \/ EndDisburse(w)
    PROVE  ChainKept
<1>a. request[w] # Idle
  BY ServingIsServed DEF EndEdApprove, EndEdDeny, EndEdEscalate, EndMdApprove,
     EndFinalizeMcc, EndOffer, EndDisburse, Serving
<1>b. Mine(w) \in Row
  BY <1>a, Served DEF RlsInv
<1>c. \A row, event, stage :
        Commit(w, row, event) /\ Moved(Mine(w), row, stage) /\ ChainTo(Mine(w).stage, stage)
        => ChainKept
  BY <1>a, CommitMoved
<1>1. CASE EndEdApprove(w)
  <2>1. PICK high \in BOOLEAN :
          Commit(w, [WithAmount(Mine(w), high) EXCEPT !.stage = "disbursement_ready",
                                                      !.edApproved = TRUE], "disbursement_ready")
    BY <1>1 DEF EndEdApprove
  <2>2. ApprovedTo([WithAmount(Mine(w), high) EXCEPT !.stage = "disbursement_ready",
                                                     !.edApproved = TRUE])
    BY <1>b, ApprovedRow
  <2> QED  BY <1>1, <1>a, <2>1, <2>2, CommitApproved DEF EndEdApprove
<1>2. CASE EndMdApprove(w)
  <2>1. ApprovedTo(MdApproved(Mine(w)))
    BY <1>b, ApprovedRow
  <2> QED  BY <1>2, <1>a, <2>1, CommitApproved DEF EndMdApprove
<1>3. CASE EndEdDeny(w)
  <2>1. Mine(w).stage = "ed_approval"
    BY <1>3, <1>a, FreshRead DEF EndEdDeny, Serving
  <2>2. PICK high \in BOOLEAN :
          Commit(w, WithAmount(AdvanceStage(Mine(w), "rejected"), high), "rejected")
    BY <1>3 DEF EndEdDeny
  <2>3. Moved(Mine(w), WithAmount(AdvanceStage(Mine(w), "rejected"), high), "rejected")
    BY <1>b, MovedRow, LinkTo
  <2> QED  BY <1>c, <2>1, <2>2, <2>3, LinkTo
<1>4. CASE EndEdEscalate(w)
  <2>1. Moved(Mine(w), Escalated(Mine(w)), "md_approval")
    BY <1>b, EscalatedRow
  <2> QED  BY <1>4, <1>c, <2>1, LinkTo DEF EndEdEscalate
<1>5. CASE EndOffer(w)
  <2>1. Moved(Mine(w), [Mine(w) EXCEPT !.offer = TRUE], Mine(w).stage)
    BY <1>b, KeptRow
  <2>2. PICK event : Commit(w, [Mine(w) EXCEPT !.offer = TRUE], event)
    BY <1>5 DEF EndOffer
  <2> QED  BY <1>c, <2>1, <2>2, LinkTo
<1>6. CASE EndDisburse(w)
  <2>1. Mine(w).stage \in Open
    BY <1>6, <1>a, FreshRead DEF EndDisburse
  <2> QED  BY <1>6, <2>1 DEF EndDisburse, Open
<1>7. CASE EndFinalizeMcc(w)
  <2>1. PICK high \in BOOLEAN : Commit(w, WithAmount(Mine(w), high), request[w].seen)
    BY <1>7 DEF EndFinalizeMcc
  <2>2. Moved(Mine(w), WithAmount(Mine(w), high), Mine(w).stage)
    BY <1>b, KeptRow
  <2> QED  BY <1>c, <2>1, <2>2, LinkTo
<1> QED  BY <1>1, <1>2, <1>3, <1>4, <1>5, <1>6, <1>7

\* The handlers of one step.
LEMMA ChainDecideSome ==
    ASSUME RlsEnforced, RlsInv, NEW a \in App, DecideSome(a)
    PROVE  ChainKept
<1>a. app[a] \in Row /\ app[a].high \in BOOLEAN
  BY DEF RlsInv, IInv, TypeOK, Row
<1>b. \A row, event, stage :
        Decide(a, row, event) /\ Moved(app[a], row, stage) /\ ChainTo(app[a].stage, stage)
        => ChainKept
  BY DecideMoved
<1>c. \A event : Decide(a, app[a], event) => ChainKept
  BY <1>a, <1>b, KeptRow, LinkTo
<1>d. Reaches("md", app[a]) => app[a].stage = "md_approval"
  BY Policy, OpenStages, OneStagePerRole
<1>1. CASE EdEscalateWithAmount(a)
  <2>1. Moved(app[a], Escalated(WithAmount(app[a], FALSE)), "md_approval")
    BY <1>a, EscalatedRow
  <2> QED  BY <1>1, <1>b, <2>1, LinkTo DEF EdEscalateWithAmount
<1>2. CASE MdApproveWithAmount(a)
  <2>1. PICK high \in BOOLEAN :
          Decide(a, MdApproved(WithAmount(app[a], high)), "disbursement_ready")
    BY <1>2 DEF MdApproveWithAmount
  <2>2. ApprovedTo(MdApproved(WithAmount(app[a], high)))
    BY <1>a, ApprovedRow
  <2>3. app[a].stage = "md_approval"
    BY <1>2 DEF MdApproveWithAmount
  <2> QED  BY <2>1, <2>2, <2>3, DecideApproved
<1>3. CASE MdDeny(a)
  <2>1. app[a].stage = "md_approval"
    BY <1>3, <1>d DEF MdDeny
  <2>2. PICK high \in BOOLEAN :
          Decide(a, WithAmount(AdvanceStage(app[a], "rejected"), high), "rejected")
    BY <1>3 DEF MdDeny
  <2>3. Moved(app[a], WithAmount(AdvanceStage(app[a], "rejected"), high), "rejected")
    BY <1>a, MovedRow, LinkTo
  <2> QED  BY <1>b, <2>1, <2>2, <2>3, LinkTo
<1>4. CASE MdComment(a)
  <2>1. PICK high \in BOOLEAN :
          Decide(a, IF Reaches("md", app[a]) /\ WithAmount(app[a], high).stage = "md_approval"
                    THEN AdvanceStage(WithAmount(app[a], high), "ed_approval")
                    ELSE WithAmount(app[a], high), "ed_approval")
    BY <1>4, <1>a DEF MdComment
  <2>2. CASE Reaches("md", app[a]) /\ WithAmount(app[a], high).stage = "md_approval"
    <3>1. Moved(app[a], AdvanceStage(WithAmount(app[a], high), "ed_approval"), "ed_approval")
      BY <1>a, MovedRow, LinkTo
    <3>2. Decide(a, AdvanceStage(WithAmount(app[a], high), "ed_approval"), "ed_approval")
      BY <2>1, <2>2
    <3> QED  BY <1>b, <1>d, <2>2, <3>1, <3>2, LinkTo
  <2>3. CASE ~(Reaches("md", app[a]) /\ WithAmount(app[a], high).stage = "md_approval")
    <3>1. Moved(app[a], WithAmount(app[a], high), app[a].stage)
      BY <1>a, KeptRow
    <3>2. Decide(a, WithAmount(app[a], high), "ed_approval")
      BY <2>1, <2>3
    <3> QED  BY <1>b, <3>1, <3>2, LinkTo
  <2> QED  BY <2>2, <2>3
<1>5. CASE MdReferBoard(a)
  BY <1>5, <1>c DEF MdReferBoard
<1>6. CASE VerifyOcrWeb(a)
  <2>1. CASE ~Reaches("account_officer", app[a])
    BY <1>6, <1>c, <2>1 DEF VerifyOcrWeb
  <2>2. CASE Reaches("account_officer", app[a])
    <3>1. app[a].stage = "intake"
      BY <2>2, Policy, OpenStages, OneStagePerRole
    <3>2. Decide(a, AdvanceStage(app[a], "branch_manager_review"), "branch_manager_review")
      BY <1>6, <2>2 DEF VerifyOcrWeb
    <3>3. Moved(app[a], AdvanceStage(app[a], "branch_manager_review"), "branch_manager_review")
      BY <1>a, MovedRow, LinkTo
    <3> QED  BY <1>b, <3>1, <3>2, <3>3, LinkTo
  <2> QED  BY <2>1, <2>2
<1>7. CASE VerifyOcrMobile(a)
  BY <1>7, <1>c DEF VerifyOcrMobile
<1> QED  BY <1>1, <1>2, <1>3, <1>4, <1>5, <1>6, <1>7 DEF DecideSome

-----------------------------------------------------------------------------
(* The implementation. *)

\* Initial states map to initial states.
LEMMA ChainInit == Init => Chain!Init
<1> SUFFICES ASSUME Init PROVE Chain!Init
  OBVIOUS
<1>1. ASSUME NEW a \in App
      PROVE  app[a].stage = "intake" /\ ~app[a].edApproved /\ ~app[a].mdApproved
  <2>1. app[a] \in {NewApplication(high) : high \in BOOLEAN}
    BY DEF Init
  <2> QED  BY <2>1 DEF NewApplication
<1>2. \A a \in App : Decided(app[a]) = FALSE
  BY <1>1 DEF Decided
<1> QED  BY <1>1, <1>2 DEF Chain!Init

\* Every step maps to a step of the chain or to a stutter.
LEMMA ChainStepOrStutter ==
    ASSUME RlsEnforced, RlsInv, [Next]_vars
    PROVE  ChainKept
<1>1. CASE \E w \in Worker, a \in App : BeginSome(w, a)
  <2>1. PICK w \in Worker, a \in App : BeginSome(w, a)
    BY <1>1
  <2>2. UNCHANGED app
    BY <2>1 DEF BeginSome, BeginSubmit, BeginConcur, BeginAdvance, BeginReturnWeb,
       BeginReturnMobile, BeginUnderwrite, BeginCrm, BeginEd, BeginEdEscalate,
       BeginMdApproveWeb, BeginMdApproveMobile, BeginFinalizeMcc, BeginOffer,
       BeginDisburse, Begin
  <2> QED  BY <2>1, <2>2, RoleBeginSome, ChainUnmoved DEF ChainKept
<1>2. CASE \E w \in Worker : EndSome(w)
  BY <1>2, ReviewerCommits, CrmCommits, ExecutiveCommits DEF EndSome
<1>3. CASE \E w \in Worker : Fail(w)
  <2>1. UNCHANGED app
    BY <1>3 DEF Fail
  <2>2. RoleSuitsOp'
    BY <1>3 DEF Fail, RlsInv, IInv, TypeOK, RoleSuitsOp
  <2> QED  BY <2>1, <2>2, ChainUnmoved DEF ChainKept
<1>4. CASE \E a \in App : DecideSome(a)
  BY <1>4, ChainDecideSome
<1>5. CASE UNCHANGED vars
  BY <1>5, ChainUnmoved DEF vars, RlsInv, RoleSuitsOp, ChainKept
<1> QED  BY <1>1, <1>2, <1>3, <1>4, <1>5 DEF Next

\* With row-level security, the handlers move files as ReviewChain does: a
\* stale read never becomes a move that no single decision would have made.
THEOREM ReviewsAreAtomicDecisions ==
    ASSUME RlsEnforced
    PROVE  Spec => ImplementsChain
<1>1. Init => Chain!Init
  BY ChainInit
<1>2. Init => RoleSuitsOp
  BY RoleInit
<1>3. IInv /\ RoleSuitsOp /\ [Next]_vars => RoleSuitsOp' /\ [Chain!Next]_(Chain!vars)
  BY ChainStepOrStutter DEF RlsInv, ChainKept
<1> QED  BY <1>1, <1>2, <1>3, Invariance, PTL DEF Spec, ImplementsChain, Chain!Spec

\* With row-level security, a request that moves a file moves it from the stage
\* it read, though the UPDATE does not test that stage: the policy does.
THEOREM MovesAreNeverStale ==
    ASSUME RlsEnforced
    PROVE  Spec => NoStaleMove
<1>1. ASSUME RlsInv, [Next]_vars, NEW w \in Worker, request[w] # Idle, request'[w] = Idle,
             Moves(request[w].app), request[w].op \notin {"edEscalate", "mdApprove"},
             ~(Serving(w, "submit") /\ request[w].role = "credit_analyst")
      PROVE  Mine(w).stage = request[w].seen
  <2>1. EndSome(w)
    BY <1>1, MoverEnds DEF RlsInv
  <2>2. request[w].app \in App /\ Mine(w).stage # app'[request[w].app].stage
    BY <1>1, Served DEF RlsInv, Moves, Mine
  <2>3. \A event : ~Commit(w, Mine(w), event)
    BY <1>1, <2>2 DEF Commit, Write, Mine, RlsInv, IInv, TypeOK
  <2>4. ReachesMine(w)
    BY <1>1, <2>1, <2>3 DEF EndSome, EndSubmit, EndConcur, EndAdvance, EndReturnWeb,
       EndReturnMobile, EndUnderwriteWeb, EndUnderwriteMobile, EndCrmAdvance, EndCrmReturnWeb,
       EndCrmReturnMobile, EndCrmAdvanceMissed, EndCrmIncomplete, EndEdApprove, EndEdDeny,
       EndEdEscalate, EndMdApprove, EndFinalizeMcc, EndOffer, EndDisburse
  <2>5. RoleSuits(request[w].op, request[w].role, request[w].seen)
    BY <1>1 DEF RlsInv, RoleSuitsOp
  <2>6. Mine(w).stage \in Open /\ STAGE_ROLE[Mine(w).stage] = request[w].role
    BY <2>4, Policy DEF ReachesMine
  <2>7. request[w].seen \in Open /\ request[w].role = STAGE_ROLE[request[w].seen]
        => Mine(w).stage = request[w].seen
    BY <2>6, OneRolePerStage
  <2>8. CASE EndSubmit(w)
    BY <1>1, <2>5, <2>7, <2>8, OpenStages, OneStagePerRole DEF EndSubmit, Serving, RoleSuits
  <2>9. CASE EndEdApprove(w) \/ EndEdDeny(w)
    BY <2>5, <2>7, <2>9, OpenStages, OneStagePerRole DEF EndEdApprove, EndEdDeny, Serving, RoleSuits
  <2>10. CASE EndReturnWeb(w)
    BY <2>10 DEF EndReturnWeb
  <2>11. CASE EndDisburse(w)
    BY <2>6, <2>11 DEF EndDisburse, Open
  <2>12. CASE EndOffer(w)
    <3>1. PICK event : Commit(w, [Mine(w) EXCEPT !.offer = TRUE], event)
      BY <2>12 DEF EndOffer
    <3> QED  BY <1>1, <2>2, <3>1 DEF Commit, Write, Mine, RlsInv, IInv, TypeOK, Row
  <2>13. CASE EndCrmIncomplete(w) \/ EndFinalizeMcc(w)
    <3>1. PICK high, event : high \in BOOLEAN /\ Commit(w, WithAmount(Mine(w), high), event)
      BY <2>13 DEF EndCrmIncomplete, EndFinalizeMcc
    <3>2. app[request[w].app] \in Row
      BY <1>1, <2>2 DEF RlsInv, IInv, TypeOK
    <3>3. app'[request[w].app] = WithAmount(app[request[w].app], high)
      BY <1>1, <2>2, <3>1 DEF Commit, Write, Mine, RlsInv, IInv, TypeOK
    <3>4. app'[request[w].app].stage = Mine(w).stage
      BY <3>2, <3>3 DEF Mine, WithAmount, Row
    <3> QED  BY <2>2, <3>4
  <2>14. CASE EndConcur(w) \/ EndAdvance(w) \/ EndReturnMobile(w) \/ EndUnderwriteWeb(w)
              \/ EndUnderwriteMobile(w) \/ EndCrmAdvance(w) \/ EndCrmReturnWeb(w)
              \/ EndCrmReturnMobile(w) \/ EndCrmAdvanceMissed(w)
    BY <2>5, <2>7, <2>14 DEF EndConcur, EndAdvance, EndReturnMobile, EndUnderwriteWeb,
       EndUnderwriteMobile, EndCrmAdvance, EndCrmReturnWeb, EndCrmReturnMobile,
       EndCrmAdvanceMissed, Serving, RoleSuits
  <2> QED
    BY <1>1, <2>1, <2>8, <2>9, <2>10, <2>11, <2>12, <2>13, <2>14
    DEF EndSome, EndEdEscalate, EndMdApprove, Serving
<1>2. IInv /\ RoleSuitsOp /\ [Next]_vars =>
        [\A w \in Worker :
           /\ request[w] # Idle /\ request'[w] = Idle
           /\ Moves(request[w].app)
           /\ request[w].op \notin {"edEscalate", "mdApprove"}
           /\ ~(Serving(w, "submit") /\ request[w].role = "credit_analyst")
           => Mine(w).stage = request[w].seen]_vars
  BY <1>1 DEF RlsInv
<1>3. IInv /\ RoleSuitsOp /\ [Next]_vars => RoleSuitsOp'
  BY ChainStepOrStutter DEF RlsInv, ChainKept
<1>4. Init => RoleSuitsOp
  BY RoleInit
<1> QED  BY <1>2, <1>3, <1>4, Invariance, PTL DEF Spec, NoStaleMove

\* With row-level security a file that was returned, rejected or approved is
\* settled: the policy lets no handler reach it again, for any number of files
\* and workers and whatever they have read.
THEOREM SettledFilesStay ==
    ASSUME RlsEnforced
    PROVE  Spec => SettledStays
<1> DEFINE stage == [a \in App |-> app[a].stage]
           Settled == {"returned", "rejected", "disbursement_ready"}
<1>1. ASSUME [Chain!Next]_(Chain!vars), NEW a \in App, stage[a] \in Settled
      PROVE  (stage[a])' = stage[a]
  <2>1. CASE UNCHANGED Chain!vars
    BY <2>1 DEF Chain!vars
  <2>2. ASSUME NEW b \in App,
               \/ Chain!Forward(b) \/ Chain!Back(b) \/ Chain!Resubmit(b)
               \/ Chain!SendBack(b) \/ Chain!Deny(b) \/ Chain!Approve(b)
        PROVE  stage[b] \notin Settled /\ \E s : stage' = [stage EXCEPT ![b] = s]
    BY <2>2 DEF Chain!Forward, Chain!Back, Chain!Resubmit, Chain!SendBack, Chain!Deny,
       Chain!Approve, Chain!Move, Chain!Link, Chain!Executive, Chain!PreExecutive
  <2>3. CASE Chain!Next
    <3>1. PICK b \in App : stage[b] \notin Settled /\ \E s : stage' = [stage EXCEPT ![b] = s]
      BY <2>2, <2>3 DEF Chain!Next
    <3> QED
      BY <1>1, <3>1
  <2> QED
    BY <1>1, <2>1, <2>3
<1>2. IInv /\ RoleSuitsOp /\ [Next]_vars =>
        /\ RoleSuitsOp'
        /\ \A a \in App : app[a].stage \in Settled => app'[a].stage = app[a].stage
  BY <1>1, ChainStepOrStutter DEF RlsInv, ChainKept
<1>3. Init => RoleSuitsOp
  BY RoleInit
<1> QED  BY <1>2, <1>3, Invariance, PTL DEF Spec, SettledStays
=============================================================================
