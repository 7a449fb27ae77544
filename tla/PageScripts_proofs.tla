-------------------------- MODULE PageScripts_proofs --------------------------
(***************************************************************************)
(* Proofs about the scripts of the desktop shell and of the dashboard, for *)
(* any tabs, users, buttons and logins, and any cards, forms, counts and   *)
(* polls under way; and about the pages that carry the scripts.            *)
(*                                                                         *)
(* A form is never refused for its token, and a guarded button never       *)
(* submits unconfirmed: Confirm takes data-confirmed away in the same      *)
(* step, so that no button is confirmed between two steps and every click  *)
(* of a guarded button asks.                                               *)
(*                                                                         *)
(* A card is hidden only where it is observed, or while its section is     *)
(* asked for: a skeleton may come back with its cards hidden, but then the *)
(* section is asked for again, and new nodes or the error box follow.      *)
(*                                                                         *)
(* On the pages of WebPages a script takes its own steps, or none, so that *)
(* what holds of a script alone holds of its page.                         *)
(***************************************************************************)
EXTENDS WebPages, DocumentUpload_proofs, DocumentPreview_proofs, CamFeasibility_proofs

Requests ==
    [button : 0..Buttons, action : 0..Buttons, accepted : BOOLEAN, asked : BOOLEAN]

\* No confirmation is left over from an earlier click.
NothingConfirmed == \A t \in Tab : confirmed[t] = {}

ShellInv == ShellTypeOK /\ NothingConfirmed /\ CurrentToken /\ ConfirmedFirst

\* A request with the current token is accepted, whichever button sent it.
LEMMA RequestIsTyped ==
    ASSUME NEW b \in Button, NEW disabled \in BOOLEAN, NEW asked \in BOOLEAN
    PROVE  /\ FormRequest(b, disabled, cookie, asked) \in Requests
           /\ FormRequest(b, disabled, cookie, asked).button = b
           /\ FormRequest(b, disabled, cookie, asked).accepted
           /\ FormRequest(b, disabled, cookie, asked).asked = asked
  <1>1. b \in 0..Buttons /\ (IF disabled THEN 0 ELSE b) \in 0..Buttons
    BY ShellAssumption DEF Button
  <1> QED
    BY <1>1 DEF FormRequest, Requests

LEMMA NoRequestIsTyped == NoRequest \in Requests /\ NoRequest.button = 0
  BY ShellAssumption DEF NoRequest, Requests

\* The initial page submits nothing.
LEMMA ShellStartsRight == ShellInit => ShellInv
  <1> SUFFICES ASSUME ShellInit PROVE ShellInv
    OBVIOUS
  <1>1. posted \in [Tab -> Requests] /\ \A t \in Tab : posted[t].button = 0
    BY NoRequestIsTyped DEF ShellInit
  <1>2. 0 \notin Guarded
    BY ShellAssumption
  <1>3. ShellTypeOK
    BY <1>1, ShellAssumption DEF ShellInit, ShellTypeOK, Requests
  <1> QED
    BY <1>1, <1>2, <1>3 DEF ShellInit, ShellInv, NothingConfirmed, CurrentToken, ConfirmedFirst

-----------------------------------------------------------------------------
(* The submission of a form. *)

\* A submission that is confirmed if it has to be.
LEMMA SubmitKeepsInv ==
    ASSUME ShellInv, NEW t \in Tab, NEW b \in Button, NEW asked \in BOOLEAN,
           b \in Guarded => asked,
           SubmitForm(t, b, asked),
           UNCHANGED <<cookie, session, filled, confirmed>>,
           dialog' \in [Tab -> 0..Buttons]
    PROVE  ShellInv'
  <1>1. CASE ~filled[t]
    BY <1>1 DEF SubmitForm, ShellInv, ShellTypeOK, NothingConfirmed, CurrentToken, ConfirmedFirst
  <1>2. CASE filled[t]
    <2> DEFINE sent == FormRequest(b, b = 1, cookie, asked)
    <2>1. sent \in Requests /\ sent.button = b /\ sent.accepted /\ sent.asked = asked
      BY RequestIsTyped
    <2>2. posted' = [posted EXCEPT ![t] = sent]
      BY <1>2 DEF SubmitForm
    <2> HIDE DEF sent
    <2>3. posted \in [Tab -> Requests]
      BY DEF ShellInv, ShellTypeOK, Requests
    <2>4. posted' \in [Tab -> Requests]
      BY <2>1, <2>2, <2>3
    <2>5. /\ token' \in [Tab -> 0..MaxRotations] /\ busy' \in [Tab -> BOOLEAN]
          /\ screen' \in [Tab -> {"login", "form", "sent"}]
      <3>1. /\ token' = [token EXCEPT ![t] = cookie] /\ busy' = [busy EXCEPT ![t] = TRUE]
            /\ screen' = [screen EXCEPT ![t] = "sent"]
        BY <1>2 DEF SubmitForm
      <3>2. /\ token \in [Tab -> 0..MaxRotations] /\ cookie \in 0..MaxRotations
            /\ busy \in [Tab -> BOOLEAN] /\ screen \in [Tab -> {"login", "form", "sent"}]
        BY DEF ShellInv, ShellTypeOK
      <3>3. token' \in [Tab -> 0..MaxRotations]
        BY <3>1, <3>2
      <3>4. busy' \in [Tab -> BOOLEAN]
        BY <3>1, <3>2
      <3>5. screen' \in [Tab -> {"login", "form", "sent"}]
        BY <3>1, <3>2
      <3> QED
        BY <3>3, <3>4, <3>5
    <2>6. ShellTypeOK' /\ NothingConfirmed'
      BY <2>4, <2>5 DEF ShellInv, ShellTypeOK, NothingConfirmed, Requests
    <2>7. CurrentToken' /\ ConfirmedFirst'
      BY <2>1, <2>2, <2>3 DEF ShellInv, CurrentToken, ConfirmedFirst
    <2> QED
      BY <2>6, <2>7 DEF ShellInv
  <1> QED
    BY <1>1, <1>2

\* A click of a guarded button never submits by itself.
LEMMA ClickButtonKeepsInv ==
    ASSUME ShellInv, NEW t \in Tab, NEW b \in Button, ClickButton(t, b)
    PROVE  ShellInv'
  <1>1. b \in Guarded \ confirmed[t] <=> b \in Guarded
    BY DEF ShellInv, NothingConfirmed
  <1>2. CASE b \in Guarded
    <2>1. Ask(t, b) /\ b \in 0..Buttons
      <3>1. Ask(t, b)
        BY <1>1, <1>2 DEF ClickButton
      <3>2. b \in 0..Buttons
        BY ShellAssumption DEF Button
      <3> QED
        BY <3>1, <3>2
    <2>2. dialog' \in [Tab -> 0..Buttons]
      BY <2>1 DEF Ask, ShellInv, ShellTypeOK
    <2> QED
      BY <2>1, <2>2 DEF Ask, ClickButton, ShellInv, ShellTypeOK, NothingConfirmed, CurrentToken,
         ConfirmedFirst
  <1>3. CASE b \notin Guarded
    <2>1. SubmitForm(t, b, FALSE) /\ dialog' = dialog
      BY <1>1, <1>3 DEF ClickButton
    <2>2. UNCHANGED <<cookie, session, filled, confirmed>> /\ dialog' \in [Tab -> 0..Buttons]
      BY <2>1 DEF ClickButton, ShellInv, ShellTypeOK
    <2> QED
      BY <1>3, <2>1, <2>2, SubmitKeepsInv
  <1> QED
    BY <1>2, <1>3

\* The confirmed button submits, unless it is disabled meanwhile.
LEMMA ConfirmKeepsInv ==
    ASSUME ShellInv, NEW t \in Tab, Confirm(t)
    PROVE  ShellInv'
  <1>1. dialog[t] \in Button
    BY ShellAssumption DEF Confirm, ShellInv, ShellTypeOK, Button
  <1>2. UNCHANGED <<cookie, session, filled, confirmed>> /\ dialog' \in [Tab -> 0..Buttons]
    BY ShellAssumption DEF Confirm, ShellInv, ShellTypeOK
  <1>3. CASE Pressable(t, dialog[t])
    BY <1>1, <1>2, <1>3, SubmitKeepsInv DEF Confirm
  <1>4. CASE ~Pressable(t, dialog[t])
    BY <1>2, <1>4 DEF Confirm, ShellInv, ShellTypeOK, NothingConfirmed, CurrentToken, ConfirmedFirst
  <1> QED
    BY <1>3, <1>4

-----------------------------------------------------------------------------
(* Everything else that happens to a tab. *)

\* A page that is loaded, or left for the login page, has submitted nothing new.
LEMMA PageKeepsInv ==
    ASSUME ShellInv, NEW t \in Tab,
           OpenForm(t) \/ (\E u \in User : Login(t, u)) \/ Logout(t) \/ LogoutFails(t)
    PROVE  ShellInv'
  <1> USE ShellAssumption
  <1>1. CASE OpenForm(t)
    <2> USE <1>1 DEF OpenForm
    <2>1. posted \in [Tab -> Requests]
      BY DEF ShellInv, ShellTypeOK, Requests
    <2>2. posted' \in [Tab -> Requests]
      BY <2>1, NoRequestIsTyped
    <2>3. ShellTypeOK'
      <3>1. token' \in [Tab -> 0..MaxRotations] /\ confirmed' \in [Tab -> SUBSET Button]
        BY DEF ShellInv, ShellTypeOK
      <3>2. /\ dialog' \in [Tab -> 0..Buttons] /\ busy' \in [Tab -> BOOLEAN]
            /\ screen' \in [Tab -> {"login", "form", "sent"}] /\ filled' \in [Tab -> BOOLEAN]
        BY DEF ShellInv, ShellTypeOK
      <3> QED
        BY <2>2, <3>1, <3>2 DEF ShellInv, ShellTypeOK, Requests
    <2>4. NothingConfirmed'
      BY DEF ShellInv, ShellTypeOK, NothingConfirmed
    <2>5. CurrentToken' /\ ConfirmedFirst'
      BY <2>1, NoRequestIsTyped DEF ShellInv, CurrentToken, ConfirmedFirst
    <2> QED
      BY <2>3, <2>4, <2>5 DEF ShellInv
  <1>2. CASE (\E u \in User : Login(t, u)) \/ Logout(t) \/ LogoutFails(t)
    <2>1. /\ cookie' \in 0..MaxRotations /\ session' \in User \cup {"none"}
          /\ LeaveFor(t, "login")
      BY <1>2 DEF Login, Logout, LogoutFails, Rotate, ShellInv, ShellTypeOK
    <2>2. /\ screen' \in [Tab -> {"login", "form", "sent"}] /\ dialog' \in [Tab -> 0..Buttons]
          /\ UNCHANGED <<token, filled, confirmed, busy, posted>>
      BY <2>1 DEF LeaveFor, ShellInv, ShellTypeOK
    <2> QED
      BY <2>1, <2>2 DEF ShellInv, ShellTypeOK, NothingConfirmed, CurrentToken, ConfirmedFirst
  <1> QED
    BY <1>1, <1>2

LEMMA FieldKeepsInv ==
    ASSUME ShellInv, NEW t \in Tab, Fill(t) \/ Cancel(t)
    PROVE  ShellInv'
  <1>1. /\ filled' \in [Tab -> BOOLEAN] /\ dialog' \in [Tab -> 0..Buttons]
        /\ UNCHANGED <<cookie, session, screen, token, confirmed, busy, posted>>
    <2>1. filled \in [Tab -> BOOLEAN] /\ dialog \in [Tab -> 0..Buttons] /\ 0 \in 0..Buttons
      BY ShellAssumption DEF ShellInv, ShellTypeOK
    <2>2. CASE Fill(t)
      <3>1. filled' = [filled EXCEPT ![t] = ~filled[t]]
        BY <2>2 DEF Fill
      <3>2. filled' \in [Tab -> BOOLEAN]
        BY <2>1, <3>1, Zenon
      <3> QED
        BY <2>1, <2>2, <3>2 DEF Fill
    <2>3. CASE Cancel(t)
      BY <2>1, <2>3 DEF Cancel
    <2> QED
      BY <2>2, <2>3
  <1> QED
    BY <1>1 DEF ShellInv, ShellTypeOK, NothingConfirmed, CurrentToken, ConfirmedFirst

LEMMA ShellStepKeepsInv ==
    ASSUME ShellInv, [ShellNext]_shellVars
    PROVE  ShellInv'
  <1>1. CASE UNCHANGED shellVars
    BY <1>1 DEF shellVars, ShellInv, ShellTypeOK, NothingConfirmed, CurrentToken, ConfirmedFirst
  <1>2. CASE ShellNext
    BY <1>2, PageKeepsInv, FieldKeepsInv, ClickButtonKeepsInv, ConfirmKeepsInv DEF ShellNext
  <1> QED
    BY <1>1, <1>2

LEMMA ShellInvariant == ShellSpec => []ShellInv
  BY ShellStartsRight, ShellStepKeepsInv, PTL DEF ShellSpec

-----------------------------------------------------------------------------
(* Results. *)

\* The tabs, their forms and their requests are well formed.
THEOREM ShellTypeCorrect == ShellSpec => []ShellTypeOK
  BY ShellInvariant, PTL DEF ShellInv

\* No submission is refused for its token, whatever logins and logouts in other
\* tabs have done to the cookie since the page was loaded (csrf.js:13-26).
THEOREM TokenIsCurrent == ShellSpec => []CurrentToken
  BY ShellInvariant, PTL DEF ShellInv

\* A guarded button submits only after the confirmation of that very click
\* (ui-system.js:21-41).
THEOREM GuardedIsConfirmed == ShellSpec => []ConfirmedFirst
  BY ShellInvariant, PTL DEF ShellInv

-----------------------------------------------------------------------------
(* The dashboard. *)

\* A form that is not known is shown as the loan application.
LEMMA DefinitionIsKnown == \A type : Definition(type) \in Defined
  BY WidgetsAssumption DEF Definition

\* The workspace shows the mode it was opened in.
LEMMA RenderedAsOpened ==
    \A mode \in Mode : \A definition :
        (IF mode = "upload" THEN RenderUploadMode(definition) ELSE RenderManualMode(definition))
            = [title |-> definition, mode |-> mode]
  BY DEF Mode, RenderUploadMode, RenderManualMode

\* A poll that was given up is a poll like any other.
LEMMA FreeIsTyped == Free \in [step : {"free", "asked", "answered"}, value : 0..MaxCount]
  BY WidgetsAssumption DEF Free

LEMMA WidgetsStartRight == WidgetsInit => WidgetsTypeOK
  <1> SUFFICES ASSUME WidgetsInit PROVE WidgetsTypeOK
    OBVIOUS
  <1>1. polls \in [Poll -> [step : {"free", "asked", "answered"}, value : 0..MaxCount]]
    BY FreeIsTyped DEF WidgetsInit
  <1>2. count \in 0..MaxCount /\ badge \in [text : 0..MaxCount, hidden : BOOLEAN]
    <2>1. 0 \in 0..MaxCount
      BY WidgetsAssumption
    <2>2. badge = [text |-> 0, hidden |-> TRUE] /\ count \in 0..MaxCount
      BY DEF WidgetsInit
    <2> QED
      BY <2>1, <2>2
  <1>3. /\ choice \in [FormCard -> Mode \cup {""}]
        /\ pill \in [FormCard -> {"", "Needs Review", "Document Review"}]
        /\ active.mode \in Mode /\ workspace = Closed
    BY DEF WidgetsInit, Mode
  <1> QED
    BY <1>1, <1>2, <1>3 DEF WidgetsTypeOK

\* However the workspace is opened, it shows a known form in a known mode.
LEMMA WorkspaceIsTyped ==
    ASSUME NEW type, NEW mode \in Mode, OpenFormWorkspace(type, mode)
    PROVE  active'.mode \in Mode /\ workspace' \in [title : Defined, mode : Mode]
  <1>1. /\ active' = [type |-> type, mode |-> mode]
        /\ workspace' = [title |-> Definition(type), mode |-> mode]
    BY RenderedAsOpened DEF OpenFormWorkspace
  <1> QED
    BY <1>1, DefinitionIsKnown

\* A choice button opens its own card in its own mode.
LEMMA ChooseModeKeepsType ==
    ASSUME WidgetsTypeOK, NEW c \in FormCard, NEW mode \in Mode, ChooseMode(c, mode)
    PROVE  WidgetsTypeOK'
  <1>1. choice' \in [FormCard -> Mode \cup {""}]
    BY DEF ChooseMode, WidgetsTypeOK
  <1>2. pill' \in [FormCard -> {"", "Needs Review", "Document Review"}]
    BY DEF ChooseMode, WidgetsTypeOK
  <1>3. active'.mode \in Mode /\ workspace' \in [title : Defined, mode : Mode]
    BY WorkspaceIsTyped DEF ChooseMode
  <1> QED
    BY <1>1, <1>2, <1>3 DEF ChooseMode, WidgetsTypeOK, badgeVars

\* A card opens in the mode of its active choice, or to be filled in, and the
\* first form always to be filled in.
LEMMA OpenKeepsType ==
    ASSUME WidgetsTypeOK, OpenFirstForm \/ \E c \in FormCard : OpenCard(c)
    PROVE  WidgetsTypeOK'
  <1>1. CASE OpenFirstForm
    <2>1. OpenFormWorkspace("loan_application", "manual") /\ "manual" \in Mode
      BY <1>1 DEF OpenFirstForm, Mode
    <2>2. active'.mode \in Mode /\ workspace' \in [title : Defined, mode : Mode]
      BY <2>1, WorkspaceIsTyped
    <2> QED
      BY <1>1, <2>2 DEF OpenFirstForm, WidgetsTypeOK, badgeVars
  <1>2. ASSUME NEW c \in FormCard, OpenCard(c)
        PROVE  WidgetsTypeOK'
    <2> DEFINE mode == IF choice[c] = "" THEN "manual" ELSE choice[c]
    <2>1. OpenFormWorkspace(FormType[c], mode) /\ mode \in Mode
      BY <1>2 DEF OpenCard, WidgetsTypeOK, Mode
    <2> HIDE DEF mode
    <2>2. active'.mode \in Mode /\ workspace' \in [title : Defined, mode : Mode]
      BY <2>1, WorkspaceIsTyped
    <2> QED
      BY <1>2, <2>2 DEF OpenCard, WidgetsTypeOK, badgeVars
  <1> QED
    BY <1>1, <1>2

LEMMA CloseKeepsType ==
    ASSUME WidgetsTypeOK, CloseFormWorkspace
    PROVE  WidgetsTypeOK'
  BY DEF CloseFormWorkspace, badgeVars, WidgetsTypeOK

-----------------------------------------------------------------------------
(* The badge never touches the cards. *)

LEMMA BadgeKeepsType ==
    ASSUME WidgetsTypeOK,
           CountChanges \/ \E p \in Poll : StartPoll(p) \/ ServePoll(p) \/ PollEnds(p)
    PROVE  WidgetsTypeOK'
  <1> DEFINE PollState == [step : {"free", "asked", "answered"}, value : 0..MaxCount]
  <1>1. UNCHANGED formCardVars
    BY DEF CountChanges, StartPoll, ServePoll, PollEnds, PollArrives, PollFails
  <1>2. polls \in [Poll -> PollState] /\ count \in 0..MaxCount
        /\ badge \in [text : 0..MaxCount, hidden : BOOLEAN]
    BY DEF WidgetsTypeOK
  <1>3. /\ count' \in 0..MaxCount /\ polls' \in [Poll -> PollState]
        /\ badge' \in [text : 0..MaxCount, hidden : BOOLEAN]
    <2>1. CASE CountChanges
      BY <1>2, <2>1 DEF CountChanges
    <2>2. CASE \E p \in Poll : StartPoll(p)
      <3>1. [step |-> "asked", value |-> 0] \in PollState
        BY WidgetsAssumption
      <3> QED
        BY <1>2, <2>2, <3>1 DEF StartPoll
    <2>3. CASE \E p \in Poll : ServePoll(p)
      <3>1. [step |-> "answered", value |-> count] \in PollState
        BY <1>2
      <3> QED
        BY <1>2, <2>3, <3>1 DEF ServePoll
    <2>4. CASE \E p \in Poll : PollEnds(p)
      <3>1. PICK p \in Poll : PollEnds(p)
        BY <2>4
      <3>2. polls' = [polls EXCEPT ![p] = Free] /\ count' = count
        BY <3>1 DEF PollEnds, PollArrives, PollFails
      <3>3. polls' \in [Poll -> PollState]
        BY <1>2, <3>2, FreeIsTyped
      <3>4. badge' \in [text : 0..MaxCount, hidden : BOOLEAN]
        <4>1. CASE PollArrives(p)
          <5>1. polls[p].value \in 0..MaxCount
            BY <1>2
          <5> QED
            BY <4>1, <5>1 DEF PollArrives
        <4>2. CASE PollFails(p)
          BY <1>2, <4>2 DEF PollFails
        <4> QED
          BY <3>1, <4>1, <4>2 DEF PollEnds
      <3> QED
        BY <1>2, <3>2, <3>3, <3>4
    <2> QED
      BY <2>1, <2>2, <2>3, <2>4
  <1> QED
    BY <1>1, <1>3 DEF formCardVars, WidgetsTypeOK

LEMMA WidgetsStepKeepsType ==
    ASSUME WidgetsTypeOK, [WidgetsNext]_widgetVars
    PROVE  WidgetsTypeOK'
  <1>1. CASE UNCHANGED widgetVars
    BY <1>1 DEF widgetVars, formCardVars, badgeVars, WidgetsTypeOK
  <1>2. CASE WidgetsNext
    BY <1>2, ChooseModeKeepsType, OpenKeepsType, CloseKeepsType, BadgeKeepsType DEF WidgetsNext
  <1> QED
    BY <1>1, <1>2

-----------------------------------------------------------------------------
(* Results. *)

\* The cards, the workspace, the badge and the polls are well formed; an
\* unknown form is never what the workspace shows (dashboard.js:433-445).
THEOREM WidgetsTypeCorrect == WidgetsSpec => []WidgetsTypeOK
  BY WidgetsStartRight, WidgetsStepKeepsType, PTL DEF WidgetsSpec

-----------------------------------------------------------------------------
(* The cards that are revealed. *)

\* A hidden card is observed, unless its section is about to be replaced.
HiddenIsWatched == \A c \in Card : look[c] = "pending" => c \in observed \/ refresh = "asked"

RevealInv == RevealTypeOK /\ HiddenIsWatched

\* New nodes carry no class.
LEMMA FreshIsVisible ==
    ASSUME NEW cards
    PROVE  /\ Fresh(cards) \in [Card -> {"absent", "plain", "pending", "visible"}]
           /\ \A c \in Card : Fresh(cards)[c] # "pending"
  BY DEF Fresh

\* The scripts: what is hidden is observed in the same task, and shown as it
\* ceases to be.
LEMMA ScriptsKeepWatch ==
    ASSUME RevealInv,
           \/ InitScrollReveals \/ RevealPublic \/ RevealAtOnce
           \/ \E c \in Card : Scroll(c) \/ Reveal(c)
    PROVE  RevealInv'
  <1> USE DEF RevealInv, RevealTypeOK, HiddenIsWatched
  <1>1. CASE Prepare /\ Hide
    BY <1>1 DEF Prepare, Hide, Present
  <1>2. CASE Prepare /\ UNCHANGED <<look, observed>>
    BY <1>2 DEF Prepare
  <1>3. CASE RevealAtOnce
    BY <1>3 DEF RevealAtOnce, Prepare
  <1>4. ASSUME NEW c \in Card, Scroll(c) PROVE RevealInv'
    BY <1>4 DEF Scroll
  <1>5. ASSUME NEW c \in Card, Reveal(c) PROVE RevealInv'
    BY <1>5 DEF Reveal
  <1> QED
    BY <1>1, <1>2, <1>3, <1>4, <1>5 DEF InitScrollReveals, RevealPublic

\* The section: it has new nodes whenever it is no longer asked for.
LEMMA SectionKeepsWatch ==
    ASSUME RevealInv, OpenSection \/ SectionShows \/ SectionGivesUp \/ RetryLoading
    PROVE  RevealInv'
  <1> USE DEF RevealInv, RevealTypeOK, HiddenIsWatched
  <1>1. CASE OpenSection
    BY <1>1, FreshIsVisible DEF OpenSection, Replace
  <1>2. CASE SectionShows
    <2>1. PICK cards \in SUBSET Card :
             IF look # Fresh(cards) THEN Replace(Fresh(cards)) ELSE UNCHANGED <<look, observed>>
      BY <1>2 DEF SectionShows
    <2>2. look' = Fresh(cards) /\ observed' \subseteq Card
      BY <2>1 DEF Replace
    <2> QED
      BY <1>2, <2>2, FreshIsVisible DEF SectionShows
  <1>3. CASE SectionGivesUp
    BY <1>3, FreshIsVisible DEF SectionGivesUp, Replace
  <1>4. CASE RetryLoading
    BY <1>4 DEF RetryLoading, Replace
  <1> QED
    BY <1>1, <1>2, <1>3, <1>4

LEMMA RevealInvariant == RevealSpec => []RevealInv
  <1>1. RevealInit => RevealInv
    BY FreshIsVisible DEF RevealInit, RevealInv, RevealTypeOK, HiddenIsWatched
  <1>2. ASSUME RevealInv, [RevealNext]_revealVars PROVE RevealInv'
    <2>1. CASE UNCHANGED revealVars
      BY <1>2, <2>1 DEF revealVars, RevealInv, RevealTypeOK, HiddenIsWatched
    <2>2. CASE RevealNext
      BY <1>2, <2>2, ScriptsKeepWatch, SectionKeepsWatch DEF RevealNext
    <2> QED
      BY <1>2, <2>1, <2>2
  <1> QED
    BY <1>1, <1>2, PTL DEF RevealSpec

\* A card that is hidden has its observer, or its section is being asked for
\* (dashboard.js:771-797, public-site.js, progressive-loader.js:88-187).
THEOREM HiddenCardsAreWatched == RevealSpec => [](RevealTypeOK /\ HiddenIsWatched)
  BY RevealInvariant, PTL DEF RevealInv

-----------------------------------------------------------------------------
(* The pages. *)

PageIsKnown == page \in Page

\* On whatever page, a step is one of its script's, or leaves the others alone.
LEMMA PagesAreTheirScripts ==
    PagesSpec => /\ ShellSpec /\ WidgetsSpec /\ FormSpec /\ PreviewSpec
                 /\ CamSpec /\ RevealSpec
                 /\ []PageIsKnown
<1>1. PagesInit => /\ ShellInit /\ WidgetsInit /\ FormInit /\ PreviewInit
                   /\ CamInit /\ RevealInit /\ PageIsKnown
  BY DEF PagesInit, PageIsKnown
<1>2. [PagesNext]_pageVars => [ShellNext]_shellVars
  BY DEF PagesNext, Review, Documents, Memo, Decision, Dashboard, List, pageVars
<1>3. [PagesNext]_pageVars => [WidgetsNext]_widgetVars
  BY DEF PagesNext, Review, Documents, Memo, Decision, Dashboard, List, pageVars
<1>4. [PagesNext]_pageVars => [FormNext]_allVars
  BY DEF PagesNext, Review, Documents, Memo, Decision, Dashboard, List, pageVars
<1>5. [PagesNext]_pageVars => [PreviewNext]_previewVars
  BY DEF PagesNext, Review, Documents, Memo, Decision, Dashboard, List, pageVars
<1>6. [PagesNext]_pageVars => [CamNext]_camVars
  BY DEF PagesNext, Review, Documents, Memo, Decision, Dashboard, List, pageVars
<1>7. [PagesNext]_pageVars => [RevealNext]_revealVars
  BY DEF PagesNext, Review, Documents, Memo, Decision, Dashboard, List, pageVars
<1>8. PageIsKnown /\ [PagesNext]_pageVars => PageIsKnown'
  BY DEF PageIsKnown, PagesNext, Review, Documents, Memo, Decision, Dashboard, List, pageVars
<1> QED
  BY <1>1, <1>2, <1>3, <1>4, <1>5, <1>6, <1>7, <1>8, PTL
     DEF PagesSpec, ShellSpec, WidgetsSpec, FormSpec, PreviewSpec, CamSpec, RevealSpec

\* On the pages of the front end, with their scripts and the server behind
\* them, forms are accepted and confirmed, and a page that was left for a
\* finished upload has its document.
THEOREM PagesKeepTheirForms ==
    PagesSpec => [](CurrentToken /\ ConfirmedFirst /\ RedirectIsStored)
BY PagesAreTheirScripts, TokenIsCurrent, GuardedIsConfirmed, RedirectsAreTrue, PTL

\* On the pages of the front end the preview is that of PreviewViewer, and
\* renderings that were replaced ask for nothing.
THEOREM PagesPreviewRight == PagesSpec => ImplementsViewer /\ NoStaleRequest
BY PagesAreTheirScripts, PreviewImplementsViewer, StaleRenderingsAskNothing, PTL

\* On the pages of the front end, the memo shows totals that add up, and no
\* ratio it showed within its ceiling exceeds it for the committee, nor for the
\* approvers unless their page replaces saved expenses or interest of zero.
THEOREM PagesAddUp == PagesSpec => [](ShownTotals /\ NoFalseComfort)
BY PagesAreTheirScripts, TotalsAreShown, ComfortIsNotFalse, PTL

\* On the pages of the front end every script keeps its state well formed.
THEOREM PagesTypeCorrect == PagesSpec => []PagesTypeOK
<1>1. RevealInv => RevealTypeOK
  BY DEF RevealInv
<1>2. (/\ PageIsKnown /\ PreviewTypeOK /\ FormTypeOK /\ CamTypeOK /\ ShellTypeOK
       /\ WidgetsTypeOK /\ RevealTypeOK) => PagesTypeOK
  BY DEF PagesTypeOK, PageIsKnown
<1> QED
  BY <1>1, <1>2, PagesAreTheirScripts, PreviewTypeCorrect, FormTypeCorrect, CamTypeCorrect,
     ShellTypeCorrect, WidgetsTypeCorrect, RevealInvariant, PTL
=============================================================================
