----------------------------- MODULE UploadForm -----------------------------
(***************************************************************************)
(* The web client of direct uploads (frontend/static/js/direct-document-   *)
(* upload.js): a form that asks for an authorization, posts its file to    *)
(* Cloudinary and asks for the finalization, each by a request of its own. *)
(* The server, Cloudinary, the clean-up and the other clients are those of *)
(* DocumentUpload: a step of theirs that serves this form without an       *)
(* answer reaching it is one of the form's lost answers.                   *)
(***************************************************************************)
EXTENDS DocumentUpload

VARIABLES
    form,      \* [step, intent]: where the submission stands, and its intent
    button,    \* the save button is enabled
    redirected \* how the page was left: "no", "direct", "fallback" or "blind"

formVars == <<form, button, redirected>>
allVars == <<vars, formVars>>

At(step) == form.step = step
Goes(step) == form' = [form EXCEPT !.step = step]

\* The submit listener; the browser refuses a submission by a disabled button.
Submit ==
    /\ At("idle") /\ button
    /\ Goes("authorizing")
    /\ button' = FALSE
    /\ UNCHANGED <<vars, redirected>>

AuthorizationAnswered(i) ==
    /\ At("authorizing")
    /\ Authorize(i)
    /\ form' = [step |-> "uploading", intent |-> i]
    /\ UNCHANGED <<button, redirected>>

\* Status 503: Cloudinary is not configured or not to be reached.
Unavailable ==
    /\ At("authorizing")
    /\ Goes("fallback")
    /\ UNCHANGED <<vars, button, redirected>>

CloudAnswered ==
    /\ At("uploading")
    /\ Upload(form.intent)
    /\ Goes("finalizing")
    /\ UNCHANGED <<button, redirected>>

Leave(how) ==
    /\ Goes("left")
    /\ redirected' = how
    /\ UNCHANGED <<vars, button>>

\* Mutant: an HTTP error counts as an answer.
FinalizationAnsweredAnyhow == At("finalizing") /\ Leave("direct")

\* Some finalization of the intent was answered with its document.
FinalizationAnswered ==
    /\ At("finalizing") /\ form.intent \in answered
    /\ Leave("direct")

\* proxyFallback accepts every status below 400.  The request follows a
\* redirection, so that a login page counts as an upload.
FallbackAnswered == At("fallback") /\ \E how \in {"fallback", "blind"} : Leave(how)

Busy == form.step \in {"authorizing", "uploading", "finalizing", "fallback"}

\* Mutant: the button stays disabled after a failure.
SubmissionFailsForGood ==
    /\ Busy
    /\ form' = [step |-> "idle", intent |-> 0]
    /\ UNCHANGED <<vars, button, redirected>>

\* The catch: an HTTP error, a lost answer, an upload Cloudinary refuses.  The
\* next submission asks for another intent.
SubmissionFails ==
    /\ Busy
    /\ form' = [step |-> "idle", intent |-> 0]
    /\ button' = TRUE
    /\ UNCHANGED <<vars, redirected>>

-----------------------------------------------------------------------------
FormInit ==
    /\ Init
    /\ form = [step |-> "idle", intent |-> 0]
    /\ button = TRUE
    /\ redirected = "no"

Answered ==
    \/ \E i \in Intent : AuthorizationAnswered(i)
    \/ Unavailable
    \/ CloudAnswered
    \/ FinalizationAnswered
    \/ FallbackAnswered

FormNext ==
    \/ Submit
    \/ Answered
    \/ SubmissionFails
    \/ Next /\ UNCHANGED formVars

FormSpec == FormInit /\ [][FormNext]_allVars

-----------------------------------------------------------------------------
(* Properties. *)

\* The submission is well formed, next to the server's state.
FormTypeOK ==
    /\ TypeOK
    /\ form \in [step : {"idle", "authorizing", "uploading", "finalizing", "fallback", "left"},
                 intent : Intent \cup {0}]
    /\ button \in BOOLEAN
    /\ redirected \in {"no", "direct", "fallback", "blind"}

\* A page that was left with "Upload complete" has a document with the very
\* file of its own last attempt, in spite of racing finalizations, the clean-up
\* and earlier attempts whose answers were lost.
RedirectIsStored ==
    redirected = "direct" =>
        /\ documents[form.intent] = 1 /\ status[form.intent] = "finalized"
        /\ asset[form.intent] = "valid" \/ form.intent \in orphaned

\* A submission ends: the page is left, or the button can be pressed again
\* (button.disabled = true of line 73 is undone on every path).
SubmissionEnds == Busy ~> (At("left") \/ button)
=============================================================================
