-------------------------- MODULE DashboardWidgets --------------------------
(***************************************************************************)
(* The widgets of the loan officer's dashboard (frontend/static/js/        *)
(* dashboard.js): cards that open a form in the page's workspace, to be    *)
(* filled in or uploaded, and badges whose counts are polled.              *)
(*                                                                         *)
(* A poll is started every minute whether or not the former was answered,  *)
(* so that answers may come in any order.                                  *)
(***************************************************************************)
EXTENDS Integers

CONSTANTS
    FormCard,   \* the cards of the page
    FormType,   \* FormType[c]: data-form-type of card c
    Defined,    \* the types formDefinitions knows, loan_application among them
    MaxCount,   \* bound on what a badge counts
    Poll        \* polls that may be under way at once

ASSUME WidgetsAssumption ==
    /\ "loan_application" \in Defined
    /\ MaxCount \in Nat

VARIABLES
    choice,     \* choice[c]: the active choice button of the card, "" if none
    pill,       \* pill[c]: what the status of the card says
    active,     \* [type, mode]: activeFormType and activeFormMode
    workspace,  \* the form the workspace shows, [title, mode], or Closed
    count,      \* what the server counts
    badge,      \* [text, hidden]: the badge
    polls       \* polls[p]: the poll's request, and its answer when there is one

formCardVars == <<choice, pill, active, workspace>>
badgeVars == <<count, badge, polls>>
widgetVars == <<formCardVars, badgeVars>>

Mode == {"manual", "upload"}
Closed == [title |-> "", mode |-> ""]

-----------------------------------------------------------------------------
(* The workspace. *)

\* formDefinitions[formType] || formDefinitions.loan_application
Definition(type) == IF type \in Defined THEN type ELSE "loan_application"

\* One field after another, and one document with what was read from it; the
\* examples the latter shows are in the script.
RenderManualMode(definition) == [title |-> definition, mode |-> "manual"]
RenderUploadMode(definition) == [title |-> definition, mode |-> "upload"]

\* Every other mode than "upload" is rendered as a form to fill in.
OpenFormWorkspace(type, mode) ==
    /\ active' = [type |-> type, mode |-> mode]
    /\ workspace' = IF mode = "upload" THEN RenderUploadMode(Definition(type))
                    ELSE RenderManualMode(Definition(type))

\* A choice button: it becomes the active one of its row, and opens the form.
ChooseMode(c, mode) ==
    /\ choice' = [choice EXCEPT ![c] = mode]
    /\ pill' = [pill EXCEPT ![c] = IF mode = "upload" THEN "Document Review" ELSE "Needs Review"]
    /\ OpenFormWorkspace(FormType[c], mode)
    /\ UNCHANGED badgeVars

\* A click on the card, outside its buttons.
OpenCard(c) ==
    /\ OpenFormWorkspace(FormType[c], IF choice[c] = "" THEN "manual" ELSE choice[c])
    /\ UNCHANGED <<choice, pill, badgeVars>>

\* openFirstForm: the card of the loan application, whatever its active choice
\* is, and without changing it.
OpenFirstForm ==
    /\ \E c \in FormCard : FormType[c] = "loan_application"
    /\ OpenFormWorkspace("loan_application", "manual")
    /\ UNCHANGED <<choice, pill, badgeVars>>

\* Close, or "Save Draft": its message goes with the content of the workspace,
\* and what was typed is saved nowhere.
CloseFormWorkspace ==
    /\ workspace # Closed
    /\ workspace' = Closed
    /\ UNCHANGED <<choice, pill, active, badgeVars>>

-----------------------------------------------------------------------------
(* The badge. *)

Free == [step |-> "free", value |-> 0]

\* The server's count changes.
CountChanges ==
    /\ \E n \in 0..MaxCount : n # count /\ count' = n
    /\ UNCHANGED <<formCardVars, badge, polls>>

\* setInterval: a poll more.
StartPoll(p) ==
    /\ polls[p] = Free
    /\ polls' = [polls EXCEPT ![p] = [step |-> "asked", value |-> 0]]
    /\ UNCHANGED <<formCardVars, count, badge>>

ServePoll(p) ==
    /\ polls[p].step = "asked"
    /\ polls' = [polls EXCEPT ![p] = [step |-> "answered", value |-> count]]
    /\ UNCHANGED <<formCardVars, count, badge>>

PollArrives(p) ==
    /\ polls[p].step = "answered"
    /\ badge' = [text |-> polls[p].value, hidden |-> polls[p].value <= 0]
    /\ polls' = [polls EXCEPT ![p] = Free]
    /\ UNCHANGED <<formCardVars, count>>

\* Mutant: a failed poll clears the badge.
PollFailsClearing(p) ==
    /\ polls[p] # Free
    /\ badge' = [text |-> 0, hidden |-> TRUE]
    /\ polls' = [polls EXCEPT ![p] = Free]
    /\ UNCHANGED <<formCardVars, count>>

\* An HTTP error or no answer: the badge stays as it is.
PollFails(p) ==
    /\ polls[p] # Free
    /\ polls' = [polls EXCEPT ![p] = Free]
    /\ UNCHANGED <<formCardVars, count, badge>>

-----------------------------------------------------------------------------
WidgetsInit ==
    /\ choice = [c \in FormCard |-> ""]
    /\ pill = [c \in FormCard |-> ""]
    /\ active = [type |-> "loan_application", mode |-> "manual"]
    /\ workspace = Closed
    /\ count \in 0..MaxCount
    /\ badge = [text |-> 0, hidden |-> TRUE]
    /\ polls = [p \in Poll |-> Free]

PollEnds(p) == PollArrives(p) \/ PollFails(p)

WidgetsNext ==
    \/ \E c \in FormCard : OpenCard(c) \/ \E mode \in Mode : ChooseMode(c, mode)
    \/ OpenFirstForm \/ CloseFormWorkspace
    \/ CountChanges
    \/ \E p \in Poll : StartPoll(p) \/ ServePoll(p) \/ PollEnds(p)

WidgetsSpec == WidgetsInit /\ [][WidgetsNext]_widgetVars

-----------------------------------------------------------------------------
(* Properties. *)

\* The cards, the workspace, the badge and the polls are well formed.
WidgetsTypeOK ==
    /\ choice \in [FormCard -> Mode \cup {""}]
    /\ pill \in [FormCard -> {"", "Needs Review", "Document Review"}]
    /\ active.mode \in Mode
    /\ workspace \in {Closed} \cup [title : Defined, mode : Mode]
    /\ count \in 0..MaxCount
    /\ badge \in [text : 0..MaxCount, hidden : BOOLEAN]
    /\ polls \in [Poll -> [step : {"free", "asked", "answered"}, value : 0..MaxCount]]

\* A count that no longer changes is shown in the end and for ever, although
\* answers may overtake each other and polls may fail.
BadgeCatchesUp ==
    \A n \in 0..MaxCount :
        <>[](count = n) => <>[](badge.text = n /\ (badge.hidden <=> n = 0))
=============================================================================
