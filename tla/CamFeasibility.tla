--------------------------- MODULE CamFeasibility ---------------------------
(***************************************************************************)
(* The credit memo of a loan (frontend/static/js/cam-feasibility.js): the  *)
(* analyst edits the profile, the credit history and the bank turnovers,   *)
(* and the script works out the ratios and the consolidated turnover again *)
(* after every event.  The server (feasibility/cam.py, calculator.py)      *)
(* parses what is submitted, works the ratios out once more, in decimals   *)
(* and rounded, and sends the page back as it was saved.                   *)
(*                                                                         *)
(* Money is whole numbers, and the margin is 100%, so that the turnover is *)
(* the gross profit.                                                       *)
(***************************************************************************)
EXTENDS Integers, FiniteSets, Functions

CONSTANTS
    MAX_ROWS,      \* rows of a table (50)
    Bank, Month,   \* names given to banks and months, the empty one not among them
    Money,         \* what is typed into a field, 0 among it
    InterestRate,  \* what is typed for the interest, 0 among it
    Requested,     \* the amount applied for
    Installment,   \* Installment[rate][amount]: the monthly rental of a new loan
    Fallback,      \* [turnover, expenses] of the intake form, [rate] of the product
    MaxEdits       \* bound on the edits

ASSUME CamAssumption ==
    /\ MAX_ROWS \in Nat /\ MaxEdits \in Nat
    /\ IsFiniteSet(Bank) /\ IsFiniteSet(Month) /\ "" \notin Bank \cup Month
    /\ Money \subseteq Nat /\ 0 \in Money /\ Requested \in Money
    /\ Installment \in [InterestRate -> [Money -> Nat]]
    /\ Fallback \in [turnover : Money, expenses : Money, rate : InterestRate]

VARIABLES
    profile,    \* [turnover, expenses, assets, amount, rate]: the fields
    history,    \* history[s]: the external facility in row s of the table
    turnovers,  \* turnovers[s]: the bank turnover in row s of the table
    figures,    \* what the page shows of them
    saved,      \* the server's profile, history, turnovers and what was shown then
    edits

camVars == <<profile, history, turnovers, figures, saved, edits>>

Slot == 1..MAX_ROWS
Profiles == [turnover : Money, expenses : Money, assets : Money, amount : Money,
             rate : InterestRate]
NoRow == [row |-> "none"]
Facility == [named : BOOLEAN, rental : Money, outstanding : Money]
BankMonth == [bank : Bank \cup {""}, month : Month \cup {""}, inflow : Money]

EmptyFacility == [named |-> FALSE, rental |-> 0, outstanding |-> 0]
EmptyBankMonth == [bank |-> "", month |-> "", inflow |-> 0]

Filled(table) == {s \in Slot : table[s] # NoRow}
Column(table, field) == [s \in Filled(table) |-> table[s][field]]
Total(table, field) == SumFunction(Column(table, field))

-----------------------------------------------------------------------------
(* update, updateFlag, updateTurnoverTotals and renderTurnoverPivot *)

NetProfit(p) == p.turnover - p.expenses
Rental(p, debts) == Installment[p.rate][p.amount] + Total(debts, "rental")
Debt(p, debts) == p.amount + Total(debts, "outstanding")

\* A ratio of part to whole against its ceiling in percent.
Flag(part, whole, ceiling) ==
    IF whole <= 0 THEN "pending"
    ELSE IF 100 * part <= ceiling * whole THEN "pass" ELSE "fail"

\* Every row counts for the total, only one with a month and a bank has a cell.
Cell(rows, m, b) ==
    SumFunctionOnSet(Column(rows, "inflow"),
                     {s \in Filled(rows) : rows[s].month = m /\ rows[s].bank = b})

Consolidated(rows, m) == SumFunction([b \in Bank |-> Cell(rows, m, b)])

Figures(p, debts, rows) ==
    [dti |-> Flag(Rental(p, debts), NetProfit(p), 35),
     gearing |-> Flag(Debt(p, debts), p.assets, 50),
     inflow |-> Total(rows, "inflow"),
     months |-> {rows[s].month : s \in Filled(rows)} \ {""},
     consolidated |-> [m \in Month |-> Consolidated(rows, m)]]

Update == figures' = Figures(profile', history', turnovers')

-----------------------------------------------------------------------------
(* The analyst: every input and change event of the form, and the buttons. *)

Edit == edits < MaxEdits /\ edits' = edits + 1

EditField(name, value) ==
    /\ Edit
    /\ profile' = [profile EXCEPT ![name] = value]
    /\ UNCHANGED <<history, turnovers, saved>>
    /\ Update

\* Mutant: the inputs of the rows are not the form's.
EditFacilityUnseen(s, facility) ==
    /\ Edit
    /\ history[s] # NoRow
    /\ history' = [history EXCEPT ![s] = facility]
    /\ UNCHANGED <<profile, turnovers, saved, figures>>

EditFacility(s, facility) ==
    /\ Edit
    /\ history[s] # NoRow
    /\ history' = [history EXCEPT ![s] = facility]
    /\ UNCHANGED <<profile, turnovers, saved>>
    /\ Update

EditTurnover(s, row) ==
    /\ Edit
    /\ turnovers[s] # NoRow
    /\ turnovers' = [turnovers EXCEPT ![s] = row]
    /\ UNCHANGED <<profile, history, saved>>
    /\ Update

AddFacility(s) ==
    /\ Edit
    /\ history[s] = NoRow
    /\ history' = [history EXCEPT ![s] = EmptyFacility]
    /\ UNCHANGED <<profile, turnovers, saved>>
    /\ Update

AddTurnover(s) ==
    /\ Edit
    /\ turnovers[s] = NoRow
    /\ turnovers' = [turnovers EXCEPT ![s] = EmptyBankMonth]
    /\ UNCHANGED <<profile, history, saved>>
    /\ Update

RemoveFacility(s) ==
    /\ Edit
    /\ history[s] # NoRow
    /\ history' = [history EXCEPT ![s] = NoRow]
    /\ UNCHANGED <<profile, turnovers, saved>>
    /\ Update

\* Mutant: a removed row is not followed by an update.
RemoveTurnoverUnseen(s) ==
    /\ Edit
    /\ turnovers[s] # NoRow
    /\ turnovers' = [turnovers EXCEPT ![s] = NoRow]
    /\ UNCHANGED <<profile, history, saved, figures>>

RemoveTurnover(s) ==
    /\ Edit
    /\ turnovers[s] # NoRow
    /\ turnovers' = [turnovers EXCEPT ![s] = NoRow]
    /\ UNCHANGED <<profile, history, saved>>
    /\ Update

-----------------------------------------------------------------------------
(* The server. *)

\* parse_cam_form leaves out rows without a name and refuses a bank's turnover
\* without a month; save_repayment_feasibility refuses more than was asked for.
Accepted ==
    /\ profile.amount > 0 /\ profile.amount <= Requested
    /\ \A s \in Filled(turnovers) : turnovers[s].bank # "" => turnovers[s].month # ""

Named(debts) == [s \in Slot |-> IF debts[s] # NoRow /\ debts[s].named THEN debts[s] ELSE NoRow]

Banked(rows) ==
    [s \in Slot |-> IF rows[s] # NoRow /\ rows[s].bank # "" THEN rows[s] ELSE NoRow]

\* A table that was saved empty comes back with one empty facility, and none
\* for turnovers.
Editable(debts) ==
    IF Filled(debts) = {} THEN [s \in Slot |-> IF s = 1 THEN EmptyFacility ELSE NoRow]
    ELSE debts

\* The page fills in another value where 0 was saved, for the analyst and for
\* the approvers who open it.
Or(value, fallback) == IF value = 0 THEN fallback ELSE value

Reopened(p) == [p EXCEPT !.turnover = Or(@, Fallback.turnover),
                         !.expenses = Or(@, Fallback.expenses),
                         !.rate = Or(@, Fallback.rate)]

\* The answer to the submission is the page again, as it was saved.
Save ==
    /\ Accepted
    /\ saved' = [stored |-> TRUE, profile |-> profile, history |-> Named(history),
                 turnovers |-> Banked(turnovers), shown |-> figures]
    /\ profile' = Reopened(profile)
    /\ history' = Editable(Named(history))
    /\ turnovers' = Banked(turnovers)
    /\ UNCHANGED edits
    /\ Update

\* quantize with ROUND_HALF_UP, of part / whole in units of 1 / unit.
HalfUp(unit, part, whole) == (2 * unit * part + whole) \div (2 * whole)

\* calculate_cam_feasibility of a profile and the credit history that was saved:
\* percent with two decimals for the one ratio, a fraction with four for the
\* other.  The profile is the saved one for the summary of the committee, and
\* the reopened one for the page the approvers open.
WithinDti(p) ==
    /\ NetProfit(p) > 0
    /\ HalfUp(10000, Rental(p, saved.history), NetProfit(p)) <= 3500

WithinGearing(p) ==
    /\ p.assets > 0
    /\ HalfUp(10000, Debt(p, saved.history), p.assets) <= 5000

-----------------------------------------------------------------------------
NewProfile == [turnover |-> Fallback.turnover, expenses |-> Fallback.expenses,
               assets |-> 0, amount |-> Requested, rate |-> Fallback.rate]
NoTurnovers == [s \in Slot |-> NoRow]

CamInit ==
    /\ profile = NewProfile
    /\ history = Editable([s \in Slot |-> NoRow])
    /\ turnovers = NoTurnovers
    /\ figures = Figures(profile, history, turnovers)
    /\ saved = [stored |-> FALSE, profile |-> profile, history |-> history,
                turnovers |-> turnovers, shown |-> figures]
    /\ edits = 0

CamNext ==
    \/ \E name \in {"turnover", "expenses", "assets", "amount"}, value \in Money :
         EditField(name, value)
    \/ \E rate \in InterestRate : EditField("rate", rate)
    \/ \E s \in Slot :
         \/ AddFacility(s) \/ RemoveFacility(s) \/ AddTurnover(s) \/ RemoveTurnover(s)
         \/ \E facility \in Facility : EditFacility(s, facility)
         \/ \E row \in BankMonth : EditTurnover(s, row)
    \/ Save

CamSpec == CamInit /\ [][CamNext]_camVars

-----------------------------------------------------------------------------
(* Properties. *)

\* The tables, the figures and what was saved are well formed.
CamTypeOK ==
    /\ {profile, saved.profile} \subseteq Profiles
    /\ {history, saved.history} \subseteq [Slot -> Facility \cup {NoRow}]
    /\ {turnovers, saved.turnovers} \subseteq [Slot -> BankMonth \cup {NoRow}]
    /\ {figures, saved.shown} \subseteq
           [dti : {"pending", "pass", "fail"}, gearing : {"pending", "pass", "fail"},
            inflow : Nat, months : SUBSET Month, consolidated : [Month -> Nat]]
    /\ saved.stored \in BOOLEAN
    /\ edits \in 0..MaxEdits

\* The table of turnovers, its total and the consolidated table below it agree
\* whatever was added, edited, left incomplete, removed or saved: the total
\* exceeds the consolidated one by the rows without a month or a bank.
ShownTotals ==
    LET Complete(s) == turnovers[s].month # "" /\ turnovers[s].bank # ""
    IN  figures.inflow - SumFunction(figures.consolidated)
          = SumFunctionOnSet(Column(turnovers, "inflow"),
                             {s \in Filled(turnovers) : ~Complete(s)})

\* The page does not put another value for expenses or interest of zero.
KeepsZeros(p) == Reopened(p).expenses = p.expenses /\ Reopened(p).rate = p.rate

\* The analyst never submits a ratio shown within its ceiling that the approval
\* sees above it, although the server rounds, drops rows without a name and
\* works out the ratios from what it stored: not the committee in its summary,
\* and not the approvers on the page they open.  The exception is the debt to
\* income on that page after expenses or interest of zero were saved, which the
\* page replaces; so that "the web, mobile, reporting, and approval paths all use
\* the same financial result" (calculator.py:3-4) is not true of it.
NoFalseComfort ==
    saved.stored =>
        /\ saved.shown.dti = "pass" =>
              /\ WithinDti(saved.profile)
              /\ KeepsZeros(saved.profile) => WithinDti(Reopened(saved.profile))
        /\ saved.shown.gearing = "pass" =>
              /\ WithinGearing(saved.profile)
              /\ WithinGearing(Reopened(saved.profile))
=============================================================================
