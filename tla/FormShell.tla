------------------------------ MODULE FormShell ------------------------------
(***************************************************************************)
(* What the shared scripts do with a form of the desktop shell, such as    *)
(* the decision of ED or MD: ui-system.js asks for a confirmation and logs *)
(* an idle tab out, csrf.js puts the token into the form, motion.js shows  *)
(* the first button as busy, dashboard.js logs out.  The tabs of a browser *)
(* share its cookies, which the server (backend/app/core/middleware.py)    *)
(* renews with every login and logout.                                     *)
(*                                                                         *)
(* The handlers of one event, and the submission a browser makes after     *)
(* them, are one step.                                                     *)
(***************************************************************************)
EXTENDS Integers

CONSTANTS
    Tab,          \* open tabs of one browser
    User,         \* users who log in with it
    Buttons,      \* the number of submit buttons of the form
    Guarded,      \* those with data-confirm
    MaxRotations  \* bound on the logins and logouts

ASSUME ShellAssumption ==
    /\ Buttons \in Nat \ {0} /\ Guarded \subseteq 1..Buttons
    /\ MaxRotations \in Nat

VARIABLES
    cookie,     \* the csrf_token cookie: how often it was renewed
    session,    \* the user logged in, or "none"
    screen,     \* screen[t]: "login", "form" or "sent", a form being submitted
    token,      \* token[t]: the form's hidden csrf_token
    filled,     \* filled[t]: checkValidity() of the form
    dialog,     \* dialog[t]: the button whose confirmation is asked for, 0 if none
    confirmed,  \* confirmed[t]: buttons with data-confirmed
    busy,       \* busy[t]: the first button is disabled
    posted      \* posted[t]: the last request of the form, [button, action, ...]

shellVars == <<cookie, session, screen, token, filled, dialog, confirmed, busy, posted>>

Button == 1..Buttons
Pressable(t, b) == ~(b = 1 /\ busy[t])

NoRequest == [button |-> 0, action |-> 0, accepted |-> FALSE, asked |-> FALSE]

-----------------------------------------------------------------------------
(* Pages and sessions. *)

\* A page with the form is loaded, and protectForm runs for it.
OpenForm(t) ==
    /\ session # "none"
    /\ screen' = [screen EXCEPT ![t] = "form"]
    /\ token' = [token EXCEPT ![t] = cookie]
    /\ \E valid \in BOOLEAN : filled' = [filled EXCEPT ![t] = valid]
    /\ dialog' = [dialog EXCEPT ![t] = 0]
    /\ confirmed' = [confirmed EXCEPT ![t] = {}]
    /\ busy' = [busy EXCEPT ![t] = FALSE]
    /\ posted' = [posted EXCEPT ![t] = NoRequest]
    /\ UNCHANGED <<cookie, session>>

Rotate(user) ==
    /\ cookie < MaxRotations
    /\ cookie' = cookie + 1
    /\ session' = user

LeaveFor(t, where) ==
    /\ screen' = [screen EXCEPT ![t] = where]
    /\ dialog' = [dialog EXCEPT ![t] = 0]
    /\ UNCHANGED <<token, filled, confirmed, busy, posted>>

Login(t, u) == screen[t] = "login" /\ Rotate(u) /\ LeaveFor(t, "login")

\* The logout control, or 15 minutes without an event in this tab, whatever is
\* going on in others; the other tabs keep their page.
Logout(t) == screen[t] = "form" /\ Rotate("none") /\ LeaveFor(t, "login")

\* .finally: the login page is shown although the session goes on.
LogoutFails(t) ==
    /\ screen[t] = "form"
    /\ LeaveFor(t, "login")
    /\ UNCHANGED <<cookie, session>>

-----------------------------------------------------------------------------
(* The form. *)

\* A field is filled in or emptied; a dialog keeps the focus.
Fill(t) ==
    /\ screen[t] = "form" /\ dialog[t] = 0
    /\ filled' = [filled EXCEPT ![t] = ~@]
    /\ UNCHANGED <<cookie, session, screen, token, dialog, confirmed, busy, posted>>

\* The request of a submission by button b: a disabled button sends nothing of
\* its own, and the middleware compares the token with the cookie.
FormRequest(b, disabled, sent, asked) ==
    [button |-> b, action |-> IF disabled THEN 0 ELSE b,
     accepted |-> sent = cookie, asked |-> asked]

\* Mutant: the token is only put in when the page is loaded.
SubmitOldToken(t, b, asked) ==
    IF filled[t]
    THEN /\ token' = token
         /\ busy' = [busy EXCEPT ![t] = TRUE]
         /\ posted' = [posted EXCEPT ![t] = FormRequest(b, b = 1, token[t], asked)]
         /\ screen' = [screen EXCEPT ![t] = "sent"]
    ELSE UNCHANGED <<token, busy, posted, screen>>

\* The submit event of a valid form: csrf.js writes the token, motion.js
\* disables the form's first button, and only then does the browser collect
\* the fields.  An invalid form has no submit event.
SubmitForm(t, b, asked) ==
    IF filled[t]
    THEN /\ token' = [token EXCEPT ![t] = cookie]
         /\ busy' = [busy EXCEPT ![t] = TRUE]
         /\ posted' = [posted EXCEPT ![t] = FormRequest(b, b = 1, cookie, asked)]
         /\ screen' = [screen EXCEPT ![t] = "sent"]
    ELSE UNCHANGED <<token, busy, posted, screen>>

Ask(t, b) ==
    /\ dialog' = [dialog EXCEPT ![t] = b]
    /\ UNCHANGED <<token, busy, posted, screen>>

\* A second click may follow while the first request is under way.
ClickButton(t, b) ==
    /\ screen[t] \in {"form", "sent"} /\ dialog[t] = 0
    /\ Pressable(t, b)
    /\ IF b \in Guarded \ confirmed[t] THEN Ask(t, b)
       ELSE SubmitForm(t, b, FALSE) /\ dialog' = dialog
    /\ UNCHANGED <<cookie, session, filled, confirmed>>

\* Mutant: data-confirmed is left at the button.
ConfirmForGood(t) ==
    /\ dialog[t] # 0
    /\ dialog' = [dialog EXCEPT ![t] = 0]
    /\ confirmed' = [confirmed EXCEPT ![t] = @ \cup {dialog[t]}]
    /\ IF Pressable(t, dialog[t]) THEN SubmitForm(t, dialog[t], TRUE)
       ELSE UNCHANGED <<token, busy, posted, screen>>
    /\ UNCHANGED <<cookie, session, filled>>

\* data-confirmed is set, the button clicked, and data-confirmed deleted.
Confirm(t) ==
    /\ dialog[t] # 0
    /\ dialog' = [dialog EXCEPT ![t] = 0]
    /\ IF Pressable(t, dialog[t]) THEN SubmitForm(t, dialog[t], TRUE)
       ELSE UNCHANGED <<token, busy, posted, screen>>
    /\ UNCHANGED <<cookie, session, filled, confirmed>>

\* The button, the backdrop or Escape.
Cancel(t) ==
    /\ dialog[t] # 0
    /\ dialog' = [dialog EXCEPT ![t] = 0]
    /\ UNCHANGED <<cookie, session, screen, token, filled, confirmed, busy, posted>>

-----------------------------------------------------------------------------
ShellInit ==
    /\ cookie = 0
    /\ session = "none"
    /\ screen = [t \in Tab |-> "login"]
    /\ token = [t \in Tab |-> 0]
    /\ filled = [t \in Tab |-> FALSE]
    /\ dialog = [t \in Tab |-> 0]
    /\ confirmed = [t \in Tab |-> {}]
    /\ busy = [t \in Tab |-> FALSE]
    /\ posted = [t \in Tab |-> NoRequest]

ShellNext ==
    \E t \in Tab :
        \/ OpenForm(t)
        \/ \E u \in User : Login(t, u)
        \/ Logout(t) \/ LogoutFails(t)
        \/ Fill(t)
        \/ \E b \in Button : ClickButton(t, b)
        \/ Confirm(t) \/ Cancel(t)

ShellSpec == ShellInit /\ [][ShellNext]_shellVars

-----------------------------------------------------------------------------
(* Properties. *)

\* The tabs, their forms and their requests are well formed.
ShellTypeOK ==
    /\ cookie \in 0..MaxRotations
    /\ session \in User \cup {"none"}
    /\ screen \in [Tab -> {"login", "form", "sent"}]
    /\ token \in [Tab -> 0..MaxRotations]
    /\ filled \in [Tab -> BOOLEAN]
    /\ dialog \in [Tab -> 0..Buttons]
    /\ confirmed \in [Tab -> SUBSET Button]
    /\ busy \in [Tab -> BOOLEAN]
    /\ posted \in [Tab -> [button : 0..Buttons, action : 0..Buttons,
                           accepted : BOOLEAN, asked : BOOLEAN]]

\* A form is never refused for its token, although a login or a logout in
\* another tab has renewed the cookie since the page was loaded.
CurrentToken == \A t \in Tab : posted[t].button # 0 => posted[t].accepted

\* A button with data-confirm submits only after the confirmation of that very
\* click, also when an earlier one was confirmed and the form was not valid.
ConfirmedFirst == \A t \in Tab : posted[t].button \in Guarded => posted[t].asked

\* "Approve - Issue Disbursement Instruction" (templates/executive/ed_approve
\* .html:74-76): the button that was pressed says which action is submitted.
ChosenActionIsSent == \A t \in Tab : posted[t].action = posted[t].button
=============================================================================
