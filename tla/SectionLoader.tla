---------------------------- MODULE SectionLoader ----------------------------
(***************************************************************************)
(* One list of a page that refreshes itself and loads further pages        *)
(* (frontend/static/js/progressive-loader.js): the borrowers list carries  *)
(* both data-section-src, its first page, and data-paginate-url.           *)
(*                                                                         *)
(* The page comes with all rows rendered by the server.  The script puts   *)
(* the cached first page in their place, asks for a fresh one (up to four  *)
(* times), and meanwhile loads one further page after another into the     *)
(* container it looked up when it started.  The server sorts the list by   *)
(* the time of the last change and cuts pages by offset, so that rows move *)
(* from page to page between two requests.                                 *)
(***************************************************************************)
EXTENDS Integers, FiniteSets

CONSTANTS
    Row,         \* applications, of which there are finitely many
    PageSize,    \* rows of a page (20)
    MaxRetries,  \* retries of a failed refresh (3)
    MaxChanges,  \* bound on the changes of applications
    MaxVisits    \* bound on the times the page is opened

ASSUME LoaderAssumption ==
    /\ IsFiniteSet(Row)
    /\ PageSize \in Nat \ {0} /\ MaxRetries \in Nat
    /\ MaxChanges \in Nat /\ MaxVisits \in Nat

VARIABLES
    changed,    \* changed[r]: updated_at of row r on the server, 0 before it exists
    clock,      \* the latest updated_at
    cached,     \* localStorage: the section's HTML, if any was stored
    visits,     \* times the page was opened
    opened,     \* changed, as the page was rendered: its own HTML and the skeleton
    section,    \* the refresh of the section: its step, retries and answer
    shown,      \* shown[r]: copies of row r in the section on screen
    container,  \* container[r]: copies of row r in the container the pager knows
    attached,   \* that container is still in the section
    pagerNodes, \* the sentinel and the button are in the section
    pager       \* the loader of further pages: its step, page, hasMore and answer

server == <<changed, clock>>
dom == <<shown, container, attached, pagerNodes>>
vars == <<server, cached, visits, opened, section, dom, pager>>

Copies(rows) == [r \in Row |-> IF r \in rows THEN 1 ELSE 0]

\* ORDER BY updated_at DESC
Position(times, r) == 1 + Cardinality({s \in Row : times[s] > times[r]})

\* LIMIT size OFFSET (page - 1) * size
Page(p) == {r \in Row : /\ changed[r] > 0
                        /\ Position(changed, r) > (p - 1) * PageSize
                        /\ Position(changed, r) <= p * PageSize}

Rendered(times) == {r \in Row : times[r] > 0}

-----------------------------------------------------------------------------
(* The server. *)

\* An application is created or changed.
Change(r) ==
    /\ clock < MaxChanges
    /\ clock' = clock + 1
    /\ changed' = [changed EXCEPT ![r] = clock + 1]
    /\ UNCHANGED <<cached, visits, opened, section, dom, pager>>

ServeSection ==
    /\ section.step = "asked"
    /\ section' = [section EXCEPT !.step = "answered", !.rows = Page(1)]
    /\ UNCHANGED <<server, cached, visits, opened, dom, pager>>

ServePage ==
    /\ pager.step = "asked"
    /\ pager' = [pager EXCEPT !.step = "answered", !.rows = Page(pager.page + 1)]
    /\ UNCHANGED <<server, cached, visits, opened, section, dom>>

-----------------------------------------------------------------------------
(* initProgressiveLoading and initPagination *)

\* The page is opened or loaded again, which drops all requests of the former.
\* Both initialisers run in one task: the container is looked up before any
\* answer can arrive.
OpenPage ==
    /\ visits < MaxVisits
    /\ visits' = visits + 1
    /\ opened' = changed
    /\ LET content == IF cached.stored THEN cached.rows ELSE Rendered(changed)
       IN  shown' = Copies(content) /\ container' = Copies(content)
    /\ attached' = TRUE /\ pagerNodes' = TRUE
    /\ section' = [step |-> "asked", retries |-> 0, rows |-> {}]
    /\ pager' = [step |-> "idle", page |-> 1, more |-> TRUE, rows |-> {}]
    /\ UNCHANGED <<server, cached>>

-----------------------------------------------------------------------------
(* fetchSection *)

\* element.innerHTML !== contentHTML: the nodes of the pager are part of the
\* former and never of the latter.
Differs(content) == pagerNodes \/ shown # Copies(content)

\* New nodes take the place of all old ones, the pager's container included;
\* the sentinel and the button are moved over.
SectionArrives ==
    /\ section.step = "answered"
    /\ IF Differs(section.rows)
       THEN shown' = Copies(section.rows) /\ attached' = FALSE
       ELSE UNCHANGED <<shown, attached>>
    /\ cached' = [stored |-> TRUE, rows |-> section.rows]
    /\ section' = [section EXCEPT !.step = "loaded", !.rows = {}]
    /\ UNCHANGED <<server, visits, opened, container, pagerNodes, pager>>

InFlight == section.step \in {"asked", "answered"}

WaitToRetry ==
    /\ section' = [section EXCEPT !.step = "waiting", !.rows = {}]
    /\ UNCHANGED <<server, cached, visits, opened, dom, pager>>

\* The error box replaces everything, the sentinel and the button included.
ShowError ==
    /\ section' = [section EXCEPT !.step = "failed", !.rows = {}]
    /\ shown' = Copies({}) /\ attached' = FALSE /\ pagerNodes' = FALSE
    /\ UNCHANGED <<server, cached, visits, opened, container, pager>>

\* Mutant: one retry too many.
SectionFailsLate ==
    /\ InFlight
    /\ IF section.retries <= MaxRetries THEN WaitToRetry ELSE ShowError

\* The network fails, or the answer is an HTTP error.
SectionFails ==
    /\ InFlight
    /\ IF section.retries < MaxRetries THEN WaitToRetry ELSE ShowError

\* Mutant: the retries are not counted.
RetryTimerUncounted ==
    /\ section.step = "waiting"
    /\ section' = [section EXCEPT !.step = "asked"]
    /\ UNCHANGED <<server, cached, visits, opened, dom, pager>>

RetryTimer ==
    /\ section.step = "waiting"
    /\ section' = [section EXCEPT !.step = "asked", !.retries = @ + 1]
    /\ UNCHANGED <<server, cached, visits, opened, dom, pager>>

\* "Retry Loading": the skeleton has neither sentinel nor button.
Retry ==
    /\ section.step = "failed"
    /\ shown' = Copies(Rendered(opened))
    /\ section' = [section EXCEPT !.step = "asked", !.retries = 0]
    /\ UNCHANGED <<server, cached, visits, opened, container, attached, pagerNodes, pager>>

-----------------------------------------------------------------------------
(* loadNextPage *)

\* The sentinel comes into view or the button is pressed.
LoadNextPage ==
    /\ pagerNodes /\ pager.more /\ pager.step = "idle"
    /\ pager' = [pager EXCEPT !.step = "asked"]
    /\ UNCHANGED <<server, cached, visits, opened, section, dom>>

AppendRows(rows) ==
    /\ container' = [r \in Row |-> IF r \in rows THEN container[r] + 1 ELSE container[r]]
    /\ shown' = IF attached THEN container' ELSE shown

NextPage ==
    /\ pager' = [pager EXCEPT !.step = "idle", !.page = @ + 1, !.rows = {}]
    /\ UNCHANGED <<server, cached, visits, opened, section, attached, pagerNodes>>

\* Mutant: rows that are there already are appended again.
PageArrivesUnchecked ==
    /\ pager.step = "answered" /\ pager.rows # {}
    /\ AppendRows(pager.rows)
    /\ NextPage

\* A row whose data-id is in the container already is left out.
PageArrives ==
    /\ pager.step = "answered" /\ pager.rows # {}
    /\ AppendRows({r \in pager.rows : container[r] = 0})
    /\ NextPage

\* An empty page is the end of the list.
EndOfList ==
    /\ pager.step = "answered" /\ pager.rows = {}
    /\ pager' = [pager EXCEPT !.step = "idle", !.more = FALSE]
    /\ UNCHANGED <<server, cached, visits, opened, section, dom>>

\* Mutant: the page counts as loaded although its request failed.
PageFailsForward ==
    /\ pager.step \in {"asked", "answered"}
    /\ pager' = [pager EXCEPT !.step = "idle", !.page = @ + 1, !.rows = {}]
    /\ UNCHANGED <<server, cached, visits, opened, section, dom>>

\* The button is shown: the same page can be asked for again.
PageFails ==
    /\ pager.step \in {"asked", "answered"}
    /\ pager' = [pager EXCEPT !.step = "idle", !.rows = {}]
    /\ UNCHANGED <<server, cached, visits, opened, section, dom>>

-----------------------------------------------------------------------------
Init ==
    /\ changed = [r \in Row |-> 0] /\ clock = 0
    /\ cached = [stored |-> FALSE, rows |-> {}]
    /\ visits = 0
    /\ opened = [r \in Row |-> 0]
    /\ section = [step |-> "none", retries |-> 0, rows |-> {}]
    /\ shown = Copies({}) /\ container = Copies({})
    /\ attached = FALSE /\ pagerNodes = FALSE
    /\ pager = [step |-> "idle", page |-> 1, more |-> TRUE, rows |-> {}]

Refresh == ServeSection \/ SectionArrives \/ SectionFails \/ RetryTimer
Paginate == ServePage \/ PageArrives \/ EndOfList \/ PageFails

Next ==
    \/ \E r \in Row : Change(r)
    \/ OpenPage
    \/ Retry \/ Refresh
    \/ LoadNextPage \/ Paginate

Spec == Init /\ [][Next]_vars

\* A request ends, well or not, and a timer goes off; nothing is assumed of the
\* user or of the server's health.
FairSpec == Spec /\ WF_vars(Refresh)

-----------------------------------------------------------------------------
(* Properties. *)

\* The list, the section and the two loaders are well formed.
TypeOK ==
    /\ changed \in [Row -> Nat] /\ clock \in Nat
    /\ cached \in [stored : BOOLEAN, rows : SUBSET Row]
    /\ visits \in Nat
    /\ opened \in [Row -> Nat]
    /\ section \in [step : {"none", "asked", "answered", "waiting", "loaded", "failed"},
                    retries : 0..MaxRetries, rows : SUBSET Row]
    /\ shown \in [Row -> Nat] /\ container \in [Row -> Nat]
    /\ attached \in BOOLEAN /\ pagerNodes \in BOOLEAN
    /\ pager \in [step : {"idle", "asked", "answered"}, page : Nat \ {0},
                  more : BOOLEAN, rows : SUBSET Row]

\* "Fetches the next record page without duplicating rows" (docs/web-ui-role-
\* inventory/README.md:61), although rows move to a later page meanwhile.
NoDuplicateRow == \A r \in Row : container[r] <= 1 /\ shown[r] <= 1

\* No page is skipped: a row that has not changed since the page was opened
\* and stood behind the first page then is in the container as soon as the
\* pages loaded reach it, whatever failed and whatever moved before it.
NothingSkipped ==
    visits > 0 =>
        \A r \in Row :
            (/\ opened[r] > 0 /\ changed[r] = opened[r]
             /\ Position(opened, r) > PageSize
             /\ Position(changed, r) <= pager.page * PageSize) => container[r] > 0

\* The section does not load for ever (aria-busy is taken away in the end): it
\* shows a fresh page or the error box with its button.
SectionSettles == InFlight ~> section.step \in {"loaded", "failed", "none"}
=============================================================================
