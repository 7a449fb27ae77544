------------------------------ MODULE WebPages ------------------------------
(***************************************************************************)
(* The pages of the web front end: a page is rendered by the server with   *)
(* the scripts its template names (frontend/templates/), and what it keeps *)
(* is gone with it.  The page is chosen once; only its own scripts, and    *)
(* the server behind them, take steps.                                     *)
(***************************************************************************)
EXTENDS DocumentPreview, UploadForm, CamFeasibility, FormShell, DashboardWidgets, Reveals

CONSTANT Page   \* the pages looked at

VARIABLE page   \* the page that is open

ASSUME PageAssumption ==
    Page \subseteq {"review", "documents", "memo", "decision", "dashboard", "list"}

pageVars == <<page, previewVars, allVars, camVars, shellVars, widgetVars, revealVars>>

\* On the other pages no badge waits for a count, and nothing is rendered that
\* a script would have to reveal.
PagesInit ==
    /\ page \in Page
    /\ PreviewInit /\ FormInit /\ CamInit /\ ShellInit /\ WidgetsInit /\ RevealInit
    /\ page # "dashboard" => count = 0
    /\ page # "list" => site = "dashboard"

Review ==
    /\ page = "review" /\ PreviewNext
    /\ UNCHANGED <<page, allVars, camVars, shellVars, widgetVars, revealVars>>

Documents ==
    /\ page = "documents" /\ FormNext
    /\ UNCHANGED <<page, previewVars, camVars, shellVars, widgetVars, revealVars>>

Memo ==
    /\ page = "memo" /\ CamNext
    /\ UNCHANGED <<page, previewVars, allVars, shellVars, widgetVars, revealVars>>

Decision ==
    /\ page = "decision" /\ ShellNext
    /\ UNCHANGED <<page, previewVars, allVars, camVars, widgetVars, revealVars>>

Dashboard ==
    /\ page = "dashboard" /\ WidgetsNext
    /\ UNCHANGED <<page, previewVars, allVars, camVars, shellVars, revealVars>>

List ==
    /\ page = "list" /\ RevealNext
    /\ UNCHANGED <<page, previewVars, allVars, camVars, shellVars, widgetVars>>

PagesNext == Review \/ Documents \/ Memo \/ Decision \/ Dashboard \/ List

PagesSpec == PagesInit /\ [][PagesNext]_pageVars

\* As long as its page is open, a request of a script ends, well or not, and the
\* observers and intervals of the browser go on.  Of the polls of a badge, not
\* all fail.  Nothing is assumed of the user.
PagesFairness ==
    /\ \A k \in Click : WF_previewVars(page = "review" /\ Render(k))
    /\ WF_allVars(page = "documents" /\ (Answered \/ SubmissionFails))
    /\ \A c \in Card : WF_revealVars(page = "list" /\ Reveal(c))
    /\ WF_revealVars(page = "list" /\ (SectionShows \/ SectionGivesUp))
    /\ \A p \in Poll :
         /\ WF_widgetVars(page = "dashboard" /\ StartPoll(p))
         /\ WF_widgetVars(page = "dashboard" /\ (ServePoll(p) \/ PollEnds(p)))
         /\ SF_widgetVars(page = "dashboard" /\ ServePoll(p))
         /\ SF_widgetVars(page = "dashboard" /\ PollArrives(p))

FairPagesSpec == PagesSpec /\ PagesFairness

-----------------------------------------------------------------------------
(* Properties: those of the components, and their types together. *)

\* Every script keeps its state well formed, whatever page carries it.
PagesTypeOK ==
    /\ page \in Page
    /\ PreviewTypeOK /\ FormTypeOK /\ CamTypeOK /\ ShellTypeOK
    /\ WidgetsTypeOK /\ RevealTypeOK
=============================================================================
