----------------------- MODULE DocumentUpload_proofs -----------------------
(***************************************************************************)
(* The safety properties of DocumentUpload, and those of UploadForm on top *)
(* of them, for any number of intents, workers and clean-up runs.          *)
(*                                                                         *)
(* A document relies on a verification made long before the claim.  What   *)
(* carries it across is VerifiedIsValid: a verified file is there until a  *)
(* clean-up destroys it, and then the row is locked, expired or orphaned   *)
(* from that moment on, so that the claim waits or fails.                  *)
(***************************************************************************)
EXTENDS UploadForm, TLAPS

\* A run of the clean-up cleans what it has locked, and locks no intent that
\* has its document.
LocksAreOnAbandoned ==
    \A c \in Cleaner :
        /\ cleanup[c].cleaned \subseteq cleanup[c].locked
        /\ \A i \in cleanup[c].locked : status[i] \in {"pending", "expired"}

VerifiedIsValid ==
    \A w \in Worker, i \in Intent : On(w, i, "verified") =>
        /\ asset[i] \in {"valid", "destroyed"}
        /\ \/ asset[i] = "valid"
           \/ status[i] = "expired"
           \/ i \in orphaned
           \/ \E c \in Cleaner : i \in cleanup[c].cleaned

RefusedIsInvalid ==
    \A w \in Worker, i \in Intent :
        On(w, i, "refused") => asset[i] \in {"invalid", "destroyed"}

OrphanedIsDestroyed == \A i \in orphaned : asset[i] = "destroyed"

IInv ==
    /\ TypeOK
    /\ OneDocumentPerIntent
    /\ DocumentHasAsset
    /\ AnsweredIsStored
    /\ LocksAreOnAbandoned
    /\ VerifiedIsValid
    /\ RefusedIsInvalid
    /\ OrphanedIsDestroyed

USE DEF Intent, Age, Asset, Idle, Request, AtRest

-----------------------------------------------------------------------------
(* The initial state. *)

\* IInv holds before the first authorization.
LEMMA Initially == Init => IInv
BY DEF Init, IInv, TypeOK, OneDocumentPerIntent, DocumentHasAsset, AnsweredIsStored,
       LocksAreOnAbandoned, VerifiedIsValid, RefusedIsInvalid, OrphanedIsDestroyed, On

-----------------------------------------------------------------------------
(* The steps. *)

\* The steps of the client preserve IInv: a file is uploaded where there was
\* none, so none was verified or refused there.
LEMMA ClientSteps ==
    ASSUME IInv, NEW i \in Intent, Client(i)
    PROVE  IInv'
<1>1. CASE Authorize(i)
  BY <1>1 DEF Authorize, IInv, TypeOK, OneDocumentPerIntent, DocumentHasAsset,
              AnsweredIsStored, LocksAreOnAbandoned, VerifiedIsValid, RefusedIsInvalid,
              OrphanedIsDestroyed, On
<1>2. CASE Upload(i)
  BY <1>2 DEF Upload, IInv, TypeOK, OneDocumentPerIntent, DocumentHasAsset,
              AnsweredIsStored, LocksAreOnAbandoned, VerifiedIsValid, RefusedIsInvalid,
              OrphanedIsDestroyed, On
<1>3. ASSUME NEW to \in Age, GetsOlder(i, to)
      PROVE  IInv'
  <2>1. age' \in [Intent -> Age]
    BY <1>3 DEF GetsOlder, IInv, TypeOK
  <2> QED
    BY <1>3, <2>1 DEF GetsOlder, IInv, TypeOK, OneDocumentPerIntent,
              DocumentHasAsset, AnsweredIsStored, LocksAreOnAbandoned, VerifiedIsValid,
              RefusedIsInvalid, OrphanedIsDestroyed, On
<1> QED
  BY <1>1, <1>2, <1>3 DEF Client, Expires, GoesStale

\* The steps of a finalization preserve IInv: a claim finds the intent pending
\* and unlocked, so the file it verified is valid or orphaned.
LEMMA FinalizeSteps ==
    ASSUME IInv, NEW w \in Worker, NEW i \in Intent, Finalize(w, i)
    PROVE  IInv'
<1>1. CASE ReadIntent(w, i)
  BY <1>1 DEF ReadIntent, IInv, TypeOK, OneDocumentPerIntent, DocumentHasAsset,
              AnsweredIsStored, LocksAreOnAbandoned, VerifiedIsValid, RefusedIsInvalid,
              OrphanedIsDestroyed, On
<1>2. CASE VerifyAsset(w, i)
  BY <1>2 DEF VerifyAsset, IInv, TypeOK, OneDocumentPerIntent, DocumentHasAsset,
              AnsweredIsStored, LocksAreOnAbandoned, VerifiedIsValid, RefusedIsInvalid,
              OrphanedIsDestroyed, On
<1>3. CASE DestroyRefused(w, i)
  BY <1>3 DEF DestroyRefused, IInv, TypeOK, OneDocumentPerIntent, DocumentHasAsset,
              AnsweredIsStored, LocksAreOnAbandoned, VerifiedIsValid, RefusedIsInvalid,
              OrphanedIsDestroyed, On
<1>4. CASE Claim(w, i)
  BY <1>4 DEF Claim, Finalized, Locked, IInv, TypeOK, OneDocumentPerIntent,
              DocumentHasAsset, AnsweredIsStored, LocksAreOnAbandoned, VerifiedIsValid,
              RefusedIsInvalid, OrphanedIsDestroyed, On
<1>5. CASE LoseClaim(w, i)
  BY <1>5 DEF LoseClaim, IInv, TypeOK, OneDocumentPerIntent, DocumentHasAsset,
              AnsweredIsStored, LocksAreOnAbandoned, VerifiedIsValid, RefusedIsInvalid,
              OrphanedIsDestroyed, On
<1> QED
  BY <1>1, <1>2, <1>3, <1>4, <1>5 DEF Finalize

\* The steps of the clean-up preserve IInv: what it destroys belongs to locked
\* intents, which have no document and which no claim can take.
LEMMA CleanUpSteps ==
    ASSUME IInv, NEW c \in Cleaner, CleanUp(c)
    PROVE  IInv'
<1>1. CASE CleanStart(c)
  <2> DEFINE batch == Oldest({i \in Intent : Abandoned(i) /\ ~Locked(i)})
  <2>1. /\ batch \in SUBSET Intent
        /\ \A i \in batch : status[i] \in {"pending", "expired"}
    BY DEF Oldest, Abandoned
  <2>2. /\ cleanup[c] = AtRest
        /\ cleanup' = [cleanup EXCEPT ![c].locked = batch]
        /\ UNCHANGED <<status, age, asset, documents, request, answered, orphaned>>
    BY <1>1 DEF CleanStart, Collect
  <2> HIDE DEF batch
  <2>3. cleanup' \in [Cleaner -> [locked : SUBSET Intent, cleaned : SUBSET Intent]]
    BY <2>1, <2>2 DEF IInv, TypeOK
  <2>4. /\ cleanup'[c].locked = batch /\ cleanup'[c].cleaned = {}
        /\ \A d \in Cleaner \ {c} : cleanup'[d] = cleanup[d]
    BY <2>1, <2>2 DEF IInv, TypeOK
  <2>5. LocksAreOnAbandoned'
    BY <2>1, <2>2, <2>4 DEF IInv, LocksAreOnAbandoned
  <2>6. VerifiedIsValid'
    BY <2>2, <2>4 DEF IInv, VerifiedIsValid, On
  <2> QED
    BY <2>2, <2>3, <2>5, <2>6 DEF IInv, TypeOK, OneDocumentPerIntent, DocumentHasAsset,
              AnsweredIsStored, RefusedIsInvalid, OrphanedIsDestroyed, On
<1>2. ASSUME NEW i \in Intent, CleanDestroy(c, i)
      PROVE  IInv'
  BY <1>2 DEF CleanDestroy, IInv, TypeOK, OneDocumentPerIntent, DocumentHasAsset,
              AnsweredIsStored, LocksAreOnAbandoned, VerifiedIsValid, RefusedIsInvalid,
              OrphanedIsDestroyed, On
<1>3. CASE CleanCommit(c)
  BY <1>3 DEF CleanCommit, IInv, TypeOK, OneDocumentPerIntent, DocumentHasAsset,
              AnsweredIsStored, LocksAreOnAbandoned, VerifiedIsValid, RefusedIsInvalid,
              OrphanedIsDestroyed, On
<1>4. CASE CleanAbort(c)
  BY <1>4 DEF CleanAbort, IInv, TypeOK, OneDocumentPerIntent, DocumentHasAsset,
              AnsweredIsStored, LocksAreOnAbandoned, VerifiedIsValid, RefusedIsInvalid,
              OrphanedIsDestroyed, On
<1> QED
  BY <1>1, <1>2, <1>3, <1>4 DEF CleanUp

\* Every step of the server, Cloudinary and their clients preserves IInv.
LEMMA ServerSteps ==
    ASSUME IInv, [Next]_vars
    PROVE  IInv'
<1>1. ASSUME NEW i \in Intent, Client(i)
      PROVE  IInv'
  BY <1>1, ClientSteps
<1>2. ASSUME NEW i \in Intent, FinalizeReplays(i)
      PROVE  IInv'
  BY <1>2 DEF FinalizeReplays, IInv, TypeOK, OneDocumentPerIntent,
              DocumentHasAsset, AnsweredIsStored, LocksAreOnAbandoned, VerifiedIsValid,
              RefusedIsInvalid, OrphanedIsDestroyed, On
<1>3. ASSUME NEW w \in Worker, NEW i \in Intent, Finalize(w, i)
      PROVE  IInv'
  BY <1>3, FinalizeSteps
<1>4. ASSUME NEW w \in Worker, Fail(w)
      PROVE  IInv'
  BY <1>4 DEF Fail, IInv, TypeOK, OneDocumentPerIntent, DocumentHasAsset,
              AnsweredIsStored, LocksAreOnAbandoned, VerifiedIsValid, RefusedIsInvalid,
              OrphanedIsDestroyed, On
<1>5. ASSUME NEW c \in Cleaner, CleanUp(c)
      PROVE  IInv'
  BY <1>5, CleanUpSteps
<1>6. CASE UNCHANGED vars
  BY <1>6 DEF vars, IInv, TypeOK, OneDocumentPerIntent, DocumentHasAsset,
              AnsweredIsStored, LocksAreOnAbandoned, VerifiedIsValid, RefusedIsInvalid,
              OrphanedIsDestroyed, On
<1> QED
  BY <1>1, <1>2, <1>3, <1>4, <1>5, <1>6 DEF Next

-----------------------------------------------------------------------------
(* The theorems. *)

\* IInv is inductive.
THEOREM Invariance == Spec => []IInv
BY Initially, ServerSteps, PTL DEF Spec

\* The table, the requests and the runs of the job are well formed.
THEOREM TypeCorrect == Spec => []TypeOK
BY Invariance, PTL DEF IInv

\* However many finalizations and clean-ups race, an authorization yields one
\* document, and it is finalized exactly when it has it.
THEOREM IntentsAreOneTime == Spec => []OneDocumentPerIntent
BY Invariance, PTL DEF IInv

\* A document keeps the file that was verified for it, unless a clean-up
\* destroyed that file and was rolled back.
THEOREM DocumentsKeepTheirFile == Spec => []DocumentHasAsset
BY Invariance, PTL DEF IInv

\* A client that was answered with success has its document.
THEOREM AnswersAreTrue == Spec => []AnsweredIsStored
BY Invariance, PTL DEF IInv

-----------------------------------------------------------------------------
(* The form. *)

\* A form waits for an answer about an intent it was given, and has left with
\* "Upload complete" only after some finalization of its last intent was
\* answered.
SubmissionIntact ==
    /\ form \in [step : {"idle", "authorizing", "uploading", "finalizing", "fallback", "left"},
                 intent : Intent \cup {0}]
    /\ button \in BOOLEAN
    /\ redirected \in {"no", "direct", "fallback", "blind"}
    /\ form.step \in {"uploading", "finalizing"} => form.intent \in Intent
    /\ redirected = "direct" => form.step = "left" /\ form.intent \in answered

FormInv == IInv /\ SubmissionIntact

\* The answers of a finalization are not taken back.
LEMMA AnsweredGrows ==
    ASSUME [Next]_vars
    PROVE  answered \subseteq answered'
BY DEF Next, vars, Client, Authorize, Upload, Expires, GoesStale, GetsOlder,
       FinalizeReplays, Finalize, ReadIntent, VerifyAsset, DestroyRefused, Claim,
       Finalized, LoseClaim, Fail, CleanUp, CleanStart, Collect, CleanDestroy,
       CleanCommit, CleanAbort

\* The steps of the form are steps of the server, or leave it alone.
LEMMA FormStepsServe ==
    ASSUME FormInv, [FormNext]_allVars
    PROVE  [Next]_vars
<1>1. ASSUME NEW i \in Intent, AuthorizationAnswered(i)
      PROVE  Next
  BY <1>1 DEF AuthorizationAnswered, Client, Next
<1>2. CASE CloudAnswered
  <2>1. form.intent \in Intent /\ Upload(form.intent)
    BY <1>2 DEF CloudAnswered, At, FormInv, SubmissionIntact
  <2> QED
    BY <2>1 DEF Client, Next
<1>3. CASE Submit \/ Unavailable \/ FinalizationAnswered \/ FallbackAnswered \/ SubmissionFails
  BY <1>3 DEF Submit, Unavailable, FinalizationAnswered, FallbackAnswered,
              SubmissionFails, Leave
<1>4. CASE Next /\ UNCHANGED formVars
  BY <1>4
<1>5. CASE UNCHANGED allVars
  BY <1>5 DEF allVars
<1> QED
  BY <1>1, <1>2, <1>3, <1>4, <1>5 DEF FormNext, Answered

\* A page is left for "Upload complete" by one action only, which has seen the
\* answer; nothing moves the form afterwards.
LEMMA FormStepsIntact ==
    ASSUME FormInv, [FormNext]_allVars
    PROVE  SubmissionIntact'
<1> USE DEF FormInv, SubmissionIntact, At, Goes
<1>0. answered \subseteq answered'
  BY FormStepsServe, AnsweredGrows
<1>1. CASE Submit
  BY <1>0, <1>1 DEF Submit
<1>2. ASSUME NEW i \in Intent, AuthorizationAnswered(i)
      PROVE  SubmissionIntact'
  BY <1>0, <1>2 DEF AuthorizationAnswered
<1>3. CASE Unavailable
  BY <1>0, <1>3 DEF Unavailable
<1>4. CASE CloudAnswered
  BY <1>0, <1>4 DEF CloudAnswered
<1>5. CASE FinalizationAnswered
  BY <1>0, <1>5 DEF FinalizationAnswered, Leave
<1>6. CASE FallbackAnswered
  BY <1>0, <1>6 DEF FallbackAnswered, Leave
<1>7. CASE SubmissionFails
  BY <1>0, <1>7 DEF SubmissionFails, Busy
<1>8. CASE UNCHANGED formVars
  BY <1>0, <1>8 DEF formVars
<1> QED
  BY <1>1, <1>2, <1>3, <1>4, <1>5, <1>6, <1>7, <1>8
     DEF FormNext, Answered, allVars

\* FormInv is inductive.
THEOREM FormInvariance == FormSpec => []FormInv
<1>1. FormInit => FormInv
  BY Initially DEF FormInit, FormInv, SubmissionIntact
<1>2. FormInv /\ [FormNext]_allVars => FormInv'
  BY FormStepsServe, FormStepsIntact, ServerSteps DEF FormInv
<1> QED
  BY <1>1, <1>2, PTL DEF FormSpec

\* The submission is well formed, next to the server's state.
THEOREM FormTypeCorrect == FormSpec => []FormTypeOK
<1>1. FormInv => FormTypeOK
  BY DEF FormInv, IInv, SubmissionIntact, FormTypeOK
<1> QED
  BY <1>1, FormInvariance, PTL

\* A page that was left with "Upload complete" has a document, and the file of
\* its own last attempt unless a clean-up destroyed it and was rolled back.
THEOREM RedirectsAreTrue == FormSpec => []RedirectIsStored
<1>1. FormInv => RedirectIsStored
  <2>1. ASSUME FormInv, redirected = "direct"
        PROVE  /\ documents[form.intent] = 1 /\ status[form.intent] = "finalized"
               /\ asset[form.intent] = "valid" \/ form.intent \in orphaned
    <3>1. form.intent \in Intent /\ documents[form.intent] > 0
      BY <2>1 DEF FormInv, IInv, SubmissionIntact, AnsweredIsStored, TypeOK
    <3>2. status[form.intent] = "finalized" /\ documents[form.intent] = 1
      BY <2>1, <3>1 DEF FormInv, IInv, OneDocumentPerIntent
    <3> QED
      BY <2>1, <3>1, <3>2 DEF FormInv, IInv, DocumentHasAsset
  <2> QED
    BY <2>1 DEF RedirectIsStored
<1> QED
  BY <1>1, FormInvariance, PTL
=============================================================================
