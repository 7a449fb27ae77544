------------------------- MODULE SectionLoader_proofs -------------------------
(***************************************************************************)
(* Proofs about the list that refreshes itself and loads further pages,    *)
(* for any rows, page size, number of retries, changes and visits: the     *)
(* refresh is retried at most MaxRetries times, no row is shown twice, and *)
(* no row that stays where it is in time is skipped.                       *)
(*                                                                         *)
(* The argument: a row is appended only where the container has none, and  *)
(* everything that replaces the content puts a set of rows there.  That    *)
(* the shown rows are those of the container matters only while it is      *)
(* attached, and there both are written together.                          *)
(*                                                                         *)
(* For the rows skipped: a row that is not touched only moves back when    *)
(* another one changes, so that it never slips from a page that is still   *)
(* to be loaded into one that was.  A page that has been answered but has  *)
(* not arrived already holds what will be due once it counts.              *)
(***************************************************************************)
EXTENDS SectionLoader, FiniteSetTheorems, TLAPS

Sections ==
    [step : {"none", "asked", "answered", "waiting", "loaded", "failed"},
     retries : 0..MaxRetries, rows : SUBSET Row]

Pagers ==
    [step : {"idle", "asked", "answered"}, page : Nat \ {0}, more : BOOLEAN, rows : SUBSET Row]

\* A retry is due only while there is one left.
RetryIsLeft == section.step = "waiting" => section.retries < MaxRetries

LoaderInv == TypeOK /\ RetryIsLeft /\ NoDuplicateRow

\* A set of rows is content without a duplicate.
LEMMA CopiesAreSingle ==
    ASSUME NEW rows
    PROVE  Copies(rows) \in [Row -> Nat] /\ \A r \in Row : Copies(rows)[r] <= 1
  BY DEF Copies

\* A page cut by the server is a set of rows.
LEMMA PageIsRows ==
    ASSUME NEW p
    PROVE  Page(p) \subseteq Row
  BY DEF Page

LEMMA InitIsRight == Init => LoaderInv
  <1> SUFFICES ASSUME Init PROVE LoaderInv
    OBVIOUS
  <1>1. /\ section \in Sections /\ section.step = "none"
        /\ pager \in Pagers /\ cached \in [stored : BOOLEAN, rows : SUBSET Row]
    BY LoaderAssumption DEF Init, Sections, Pagers
  <1>2. /\ shown \in [Row -> Nat] /\ container \in [Row -> Nat]
        /\ \A r \in Row : container[r] <= 1 /\ shown[r] <= 1
    BY CopiesAreSingle DEF Init
  <1>3. /\ changed \in [Row -> Nat] /\ clock \in Nat /\ visits \in Nat
        /\ opened \in [Row -> Nat] /\ attached \in BOOLEAN /\ pagerNodes \in BOOLEAN
    BY DEF Init
  <1> QED
    BY <1>1, <1>2, <1>3 DEF LoaderInv, TypeOK, RetryIsLeft, NoDuplicateRow, Sections, Pagers

-----------------------------------------------------------------------------
(* The steps, by the part of the page they change. *)

LEMMA ChangeKeepsInv ==
    ASSUME LoaderInv, NEW r \in Row, Change(r)
    PROVE  LoaderInv'
  BY DEF Change, dom, LoaderInv, TypeOK, RetryIsLeft, NoDuplicateRow

LEMMA OpenKeepsInv ==
    ASSUME LoaderInv, OpenPage
    PROVE  LoaderInv'
  <1>1. /\ section' \in Sections /\ section'.step = "asked"
        /\ pager' \in Pagers
    BY LoaderAssumption DEF OpenPage, Sections, Pagers
  <1>2. PICK rows : shown' = Copies(rows) /\ container' = Copies(rows)
    BY DEF OpenPage
  <1>3. /\ shown' \in [Row -> Nat] /\ container' \in [Row -> Nat]
        /\ \A r \in Row : container'[r] <= 1 /\ shown'[r] <= 1
    BY <1>2, CopiesAreSingle
  <1>4. /\ visits' \in Nat /\ opened' \in [Row -> Nat]
        /\ attached' \in BOOLEAN /\ pagerNodes' \in BOOLEAN
        /\ UNCHANGED <<changed, clock, cached>>
    BY DEF OpenPage, LoaderInv, TypeOK, server
  <1> QED
    BY <1>1, <1>3, <1>4 DEF LoaderInv, TypeOK, RetryIsLeft, NoDuplicateRow, Sections, Pagers

\* The refresh changes its own record, the cache and what is shown, never the
\* container or the pager's own record.
LEMMA RefreshKeepsInv ==
    ASSUME LoaderInv, Refresh \/ Retry
    PROVE  LoaderInv'
  <1> USE LoaderAssumption
  <1>1. UNCHANGED <<changed, clock, visits, opened, container, pager>>
    BY DEF Refresh, Retry, ServeSection, SectionArrives, SectionFails, RetryTimer, WaitToRetry,
           ShowError, server, dom
  <1>2. section' \in Sections /\ RetryIsLeft'
    <2>0. section \in Sections /\ (section.step = "waiting" => section.retries < MaxRetries)
      BY DEF LoaderInv, TypeOK, RetryIsLeft, Sections
    <2>1. CASE ServeSection
      BY <2>0, <2>1, PageIsRows DEF ServeSection, Sections, RetryIsLeft
    <2>2. CASE SectionArrives
      BY <2>0, <2>2 DEF SectionArrives, Sections, RetryIsLeft
    <2>3. CASE SectionFails
      <3>1. CASE section.retries < MaxRetries
        BY <2>0, <2>3, <3>1 DEF SectionFails, WaitToRetry, Sections, RetryIsLeft
      <3>2. CASE ~(section.retries < MaxRetries)
        BY <2>0, <2>3, <3>2 DEF SectionFails, ShowError, Sections, RetryIsLeft
      <3> QED
        BY <3>1, <3>2
    <2>4. CASE RetryTimer
      <3>1. section.retries + 1 \in 0..MaxRetries
        BY <2>0, <2>4 DEF RetryTimer, Sections
      <3>2. section' = [step |-> "asked", retries |-> section.retries + 1, rows |-> section.rows]
        BY <2>0, <2>4 DEF RetryTimer, Sections
      <3> QED
        BY <2>0, <3>1, <3>2 DEF Sections, RetryIsLeft
    <2>5. CASE Retry
      <3>1. 0 \in 0..MaxRetries
        OBVIOUS
      <3>2. section' = [step |-> "asked", retries |-> 0, rows |-> section.rows]
        BY <2>0, <2>5 DEF Retry, Sections
      <3> QED
        BY <2>0, <3>1, <3>2 DEF Sections, RetryIsLeft
    <2> QED
      BY <2>1, <2>2, <2>3, <2>4, <2>5 DEF Refresh
  <1>3. /\ shown' = shown \/ \E rows : shown' = Copies(rows)
        /\ attached' \in BOOLEAN /\ pagerNodes' \in BOOLEAN
    BY DEF Refresh, Retry, ServeSection, SectionArrives, SectionFails, RetryTimer, WaitToRetry,
           ShowError, dom, LoaderInv, TypeOK
  <1>4. shown' \in [Row -> Nat] /\ \A r \in Row : shown'[r] <= 1
    BY <1>3, CopiesAreSingle DEF LoaderInv, TypeOK, NoDuplicateRow
  <1>5. cached' \in [stored : BOOLEAN, rows : SUBSET Row]
    <2>1. cached' = cached \/ cached' = [stored |-> TRUE, rows |-> section.rows]
      BY DEF Refresh, Retry, ServeSection, SectionArrives, SectionFails, RetryTimer, WaitToRetry,
             ShowError
    <2>2. section.rows \in SUBSET Row /\ cached \in [stored : BOOLEAN, rows : SUBSET Row]
      BY DEF LoaderInv, TypeOK
    <2>3. [stored |-> TRUE, rows |-> section.rows] \in [stored : BOOLEAN, rows : SUBSET Row]
      BY <2>2
    <2> QED
      BY <2>1, <2>2, <2>3
  <1> QED
    BY <1>1, <1>2, <1>3, <1>4, <1>5 DEF LoaderInv, TypeOK, NoDuplicateRow, Sections

\* The pager changes its own record, and appends only rows that are not there.
LEMMA PaginateKeepsInv ==
    ASSUME LoaderInv, LoadNextPage \/ Paginate
    PROVE  LoaderInv'
  <1>1. UNCHANGED <<changed, clock, cached, visits, opened, section, attached, pagerNodes>>
    BY DEF LoadNextPage, Paginate, ServePage, PageArrives, NextPage, EndOfList, PageFails, server, dom
  <1>2. pager' \in Pagers
    <2>0. pager \in Pagers
      BY DEF LoaderInv, TypeOK, Pagers
    <2>1. CASE LoadNextPage
      BY <2>0, <2>1 DEF LoadNextPage, Pagers
    <2>2. CASE ServePage
      BY <2>0, <2>2, PageIsRows DEF ServePage, Pagers
    <2>3. CASE PageArrives
      <3>1. pager.page + 1 \in Nat \ {0}
        BY <2>0 DEF Pagers
      <3>2. pager' = [step |-> "idle", page |-> pager.page + 1, more |-> pager.more, rows |-> {}]
        BY <2>0, <2>3 DEF PageArrives, NextPage, Pagers
      <3> QED
        BY <2>0, <3>1, <3>2 DEF Pagers
    <2>4. CASE EndOfList
      BY <2>0, <2>4 DEF EndOfList, Pagers
    <2>5. CASE PageFails
      BY <2>0, <2>5 DEF PageFails, Pagers
    <2> QED
      BY <2>1, <2>2, <2>3, <2>4, <2>5 DEF Paginate
  <1>3. CASE UNCHANGED <<shown, container>>
    BY <1>1, <1>2, <1>3 DEF LoaderInv, TypeOK, RetryIsLeft, NoDuplicateRow, Pagers
  <1>4. CASE PageArrives
    <2>1. /\ container' \in [Row -> Nat]
          /\ \A r \in Row : container'[r] <= 1
      BY <1>4 DEF PageArrives, AppendRows, LoaderInv, TypeOK, NoDuplicateRow
    <2>2. shown' = container' \/ shown' = shown
      BY <1>4 DEF PageArrives, AppendRows
    <2>3. shown' \in [Row -> Nat] /\ \A r \in Row : shown'[r] <= 1
      BY <2>1, <2>2 DEF LoaderInv, TypeOK, NoDuplicateRow
    <2> QED
      BY <1>1, <1>2, <2>1, <2>3 DEF LoaderInv, TypeOK, RetryIsLeft, NoDuplicateRow, Pagers
  <1> QED
    BY <1>3, <1>4 DEF LoadNextPage, Paginate, ServePage, EndOfList, PageFails, dom

LEMMA StepKeepsInv ==
    ASSUME LoaderInv, [Next]_vars
    PROVE  LoaderInv'
  <1>1. CASE UNCHANGED vars
    BY <1>1 DEF vars, server, dom, LoaderInv, TypeOK, RetryIsLeft, NoDuplicateRow
  <1>2. CASE Next
    BY <1>2, ChangeKeepsInv, OpenKeepsInv, RefreshKeepsInv, PaginateKeepsInv DEF Next
  <1> QED
    BY <1>1, <1>2

LEMMA LoaderInvariant == Spec => []LoaderInv
  BY InitIsRight, StepKeepsInv, PTL DEF Spec

-----------------------------------------------------------------------------
(* No row is skipped. *)

\* A row the pager owes: it has not changed since the page was opened, stood
\* behind the first page then and lies within the first p pages now.
Due(r, p) ==
    /\ opened[r] > 0 /\ changed[r] = opened[r]
    /\ Position(opened, r) > PageSize
    /\ Position(changed, r) <= p * PageSize

TimesAreClocked == \A r \in Row : opened[r] <= clock /\ changed[r] <= clock

DueIsThere == \A r \in Row : Due(r, pager.page) => container[r] > 0

\* What will be due after the next page is on that page or there already.
AnswerHoldsDue ==
    pager.step = "answered" =>
        \A r \in Row : Due(r, pager.page + 1) => container[r] > 0 \/ r \in pager.rows

OrderInv == LoaderInv /\ TimesAreClocked /\ DueIsThere /\ AnswerHoldsDue

LEMMA PositionIsNat ==
    ASSUME NEW times, NEW r \in Row
    PROVE  Position(times, r) \in Nat
  <1>1. IsFiniteSet({s \in Row : times[s] > times[r]})
    BY FS_Subset, LoaderAssumption
  <1> QED
    BY <1>1, FS_CardinalityType DEF Position

\* The more rows have a later time, the further back is the row.
LEMMA PositionGrows ==
    ASSUME NEW before, NEW after, NEW r \in Row,
           \A s \in Row : before[s] > before[r] => after[s] > after[r]
    PROVE  Position(before, r) <= Position(after, r)
  <1> DEFINE B == {s \in Row : before[s] > before[r]}
             A == {s \in Row : after[s] > after[r]}
  <1>1. IsFiniteSet(A) /\ B \subseteq A
    BY FS_Subset, LoaderAssumption
  <1>2. /\ Cardinality(B) <= Cardinality(A)
        /\ Cardinality(B) \in Nat /\ Cardinality(A) \in Nat
    BY <1>1, FS_Subset, FS_CardinalityType
  <1> QED
    BY <1>2 DEF Position

\* A change makes no row due: its own is not the one that was opened, and the
\* others can only move back.
LEMMA ChangeMakesNothingDue ==
    ASSUME OrderInv, NEW c \in Row, Change(c),
           NEW r \in Row, NEW p \in Nat, Due(r, p)'
    PROVE  Due(r, p)
  <1>0. /\ changed \in [Row -> Nat] /\ opened \in [Row -> Nat] /\ clock \in Nat
        /\ \A s \in Row : opened[s] <= clock /\ changed[s] <= clock
        /\ changed' = [changed EXCEPT ![c] = clock + 1] /\ opened' = opened
    BY DEF OrderInv, LoaderInv, TypeOK, TimesAreClocked, Change
  <1>1. r # c
    BY <1>0 DEF Due
  <1>2. \A s \in Row : changed[s] > changed[r] => changed'[s] > changed'[r]
    BY <1>0, <1>1
  <1>3. Position(changed, r) <= Position(changed', r)
    BY <1>2, PositionGrows
  <1>4. /\ opened[r] > 0 /\ changed[r] = opened[r]
        /\ Position(opened, r) > PageSize
        /\ Position(changed', r) <= p * PageSize
    BY <1>0, <1>1 DEF Due, Position
  <1>5. /\ Position(changed, r) \in Nat /\ Position(changed', r) \in Nat
        /\ p * PageSize \in Nat
    BY PositionIsNat, LoaderAssumption
  <1> QED
    BY <1>3, <1>4, <1>5 DEF Due

LEMMA InitIsOrdered == Init => OrderInv
  <1> SUFFICES ASSUME Init PROVE OrderInv
    OBVIOUS
  <1>1. \A r \in Row, p \in Nat : ~Due(r, p)
    BY DEF Init, Due
  <1> QED
    BY <1>1, InitIsRight DEF Init, OrderInv, TimesAreClocked, DueIsThere, AnswerHoldsDue

LEMMA ChangeKeepsOrder ==
    ASSUME OrderInv, NEW c \in Row, Change(c)
    PROVE  OrderInv'
  <1>1. LoaderInv'
    BY ChangeKeepsInv DEF OrderInv
  <1>2. TimesAreClocked'
    BY DEF OrderInv, LoaderInv, TypeOK, TimesAreClocked, Change
  <1>3. /\ pager' = pager /\ container' = container
        /\ pager.page \in Nat /\ pager.page + 1 \in Nat
    BY DEF Change, dom, OrderInv, LoaderInv, TypeOK
  <1>4. DueIsThere'
    <2> SUFFICES ASSUME NEW r \in Row, Due(r, pager.page)' PROVE container[r] > 0
      BY <1>3 DEF DueIsThere
    <2>1. Due(r, pager.page)
      BY <1>3, ChangeMakesNothingDue DEF Due
    <2> QED
      BY <2>1 DEF OrderInv, DueIsThere
  <1>5. AnswerHoldsDue'
    <2> SUFFICES ASSUME NEW r \in Row, pager.step = "answered", Due(r, pager.page + 1)'
                 PROVE  container[r] > 0 \/ r \in pager.rows
      BY <1>3 DEF AnswerHoldsDue
    <2>1. Due(r, pager.page + 1)
      BY <1>3, ChangeMakesNothingDue DEF Due
    <2> QED
      BY <2>1 DEF OrderInv, AnswerHoldsDue
  <1> QED
    BY <1>1, <1>2, <1>4, <1>5 DEF OrderInv

\* The first page is all that counts: what stood behind it is not due.
LEMMA OpenKeepsOrder ==
    ASSUME OrderInv, OpenPage
    PROVE  OrderInv'
  <1>1. LoaderInv'
    BY OpenKeepsInv DEF OrderInv
  <1>2. /\ opened' = changed /\ changed' = changed /\ clock' = clock
        /\ pager'.step = "idle" /\ pager'.page = 1
    BY DEF OpenPage, server
  <1>3. \A r \in Row : ~Due(r, pager.page)'
    <2> SUFFICES ASSUME NEW r \in Row, Due(r, pager.page)' PROVE FALSE
      OBVIOUS
    <2>1. Position(changed, r) > PageSize /\ Position(changed, r) <= 1 * PageSize
      BY <1>2 DEF Due, Position
    <2> QED
      BY <2>1, PositionIsNat, LoaderAssumption
  <1> QED
    BY <1>1, <1>2, <1>3 DEF OrderInv, TimesAreClocked, DueIsThere, AnswerHoldsDue

\* The page the server cuts holds what is due within it and not before it.
LEMMA ServePageKeepsOrder ==
    ASSUME OrderInv, ServePage
    PROVE  OrderInv'
  <1>1. LoaderInv'
    BY PaginateKeepsInv DEF OrderInv, Paginate
  <1>2. /\ UNCHANGED <<changed, clock, opened, container>>
        /\ pager \in Pagers /\ changed \in [Row -> Nat]
        /\ pager' = [pager EXCEPT !.step = "answered", !.rows = Page(pager.page + 1)]
    BY DEF ServePage, server, dom, OrderInv, LoaderInv, TypeOK, Pagers
  <1>3. /\ pager'.page = pager.page /\ pager'.rows = Page(pager.page + 1)
        /\ pager.page \in Nat /\ pager.page + 1 \in Nat /\ pager.page + 1 - 1 = pager.page
    BY <1>2 DEF Pagers
  <1>4. \A r \in Row, p \in Nat : Due(r, p)' <=> Due(r, p)
    BY <1>2 DEF Due, Position
  <1>5. AnswerHoldsDue'
    <2> SUFFICES ASSUME NEW r \in Row, Due(r, pager.page + 1)
                 PROVE  container[r] > 0 \/ r \in Page(pager.page + 1)
      BY <1>2, <1>3, <1>4 DEF AnswerHoldsDue
    <2>1. CASE Position(changed, r) <= pager.page * PageSize
      BY <2>1 DEF Due, OrderInv, DueIsThere
    <2>2. CASE Position(changed, r) > pager.page * PageSize
      BY <1>3, <2>2 DEF Due, Page
    <2>3. pager.page * PageSize \in Nat
      BY <1>3, LoaderAssumption
    <2> QED
      BY <2>1, <2>2, <2>3, PositionIsNat
  <1> QED
    BY <1>1, <1>2, <1>3, <1>4, <1>5 DEF OrderInv, TimesAreClocked, DueIsThere

LEMMA PageArrivesKeepsOrder ==
    ASSUME OrderInv, PageArrives
    PROVE  OrderInv'
  <1>1. LoaderInv'
    BY PaginateKeepsInv DEF OrderInv, Paginate
  <1>2. /\ UNCHANGED <<changed, clock, opened>>
        /\ pager \in Pagers /\ container \in [Row -> Nat] /\ pager.step = "answered"
        /\ pager' = [pager EXCEPT !.step = "idle", !.page = @ + 1, !.rows = {}]
    BY DEF PageArrives, NextPage, server, OrderInv, LoaderInv, TypeOK, Pagers
  <1>3. pager'.page = pager.page + 1 /\ pager'.step = "idle"
    BY <1>2 DEF Pagers
  <1>4. \A r \in Row : container[r] > 0 \/ r \in pager.rows => container'[r] > 0
    BY <1>2 DEF PageArrives, AppendRows
  <1>5. \A r \in Row : Due(r, pager.page)' <=> Due(r, pager.page + 1)
    BY <1>2, <1>3 DEF Due, Position
  <1> QED
    BY <1>1, <1>2, <1>3, <1>4, <1>5 DEF OrderInv, TimesAreClocked, DueIsThere, AnswerHoldsDue

\* Whatever else happens leaves the times and the container alone, and the page
\* that counts.
LEMMA OthersKeepOrder ==
    ASSUME OrderInv, LoaderInv',
           UNCHANGED <<changed, clock, opened, container>>, pager'.page = pager.page,
           pager'.step = "answered" => pager'.step = pager.step /\ pager'.rows = pager.rows
    PROVE  OrderInv'
  <1>1. \A r \in Row, p \in Nat : Due(r, p)' <=> Due(r, p)
    BY DEF Due, Position
  <1>2. pager.page \in Nat /\ pager.page + 1 \in Nat
    BY DEF OrderInv, LoaderInv, TypeOK
  <1> QED
    BY <1>1, <1>2 DEF OrderInv, TimesAreClocked, DueIsThere, AnswerHoldsDue

LEMMA StepKeepsOrder ==
    ASSUME OrderInv, [Next]_vars
    PROVE  OrderInv'
  <1>1. LoaderInv'
    BY StepKeepsInv DEF OrderInv
  <1>2. CASE UNCHANGED vars
    BY <1>1, <1>2, OthersKeepOrder DEF vars, server, dom
  <1>3. CASE Refresh \/ Retry
    <2>1. UNCHANGED <<changed, clock, opened, container, pager>>
      BY <1>3 DEF Refresh, Retry, ServeSection, SectionArrives, SectionFails, RetryTimer,
                  WaitToRetry, ShowError, server, dom
    <2> QED
      BY <1>1, <2>1, OthersKeepOrder
  <1>4. CASE LoadNextPage \/ EndOfList \/ PageFails
    <2>1. UNCHANGED <<changed, clock, opened, container>>
      BY <1>4 DEF LoadNextPage, EndOfList, PageFails, server, dom
    <2>2. pager'.page = pager.page /\ pager'.step # "answered"
      BY <1>4 DEF LoadNextPage, EndOfList, PageFails, OrderInv, LoaderInv, TypeOK
    <2> QED
      BY <1>1, <2>1, <2>2, OthersKeepOrder
  <1> QED
    BY <1>2, <1>3, <1>4, ChangeKeepsOrder, OpenKeepsOrder, ServePageKeepsOrder,
       PageArrivesKeepsOrder DEF Next, Paginate

LEMMA OrderInvariant == Spec => []OrderInv
  BY InitIsOrdered, StepKeepsOrder, PTL DEF Spec

-----------------------------------------------------------------------------
(* Results. *)

\* The section and the pager are well formed; above all the refresh counts no
\* more than MaxRetries retries (progressive-loader.js:88-187).
THEOREM LoaderTypeCorrect == Spec => []TypeOK
  BY LoaderInvariant, PTL DEF LoaderInv

\* No row is in the list twice, although the server cuts pages by offset from a
\* list that is sorted anew by every change (progressive-loader.js:208-288).
THEOREM RowsAreNotDuplicated == Spec => []NoDuplicateRow
  BY LoaderInvariant, PTL DEF LoaderInv

\* A row that has not changed since the page was opened is in the container as
\* soon as the loaded pages reach it: the offsets of the next requests cannot
\* jump over it (progressive-loader.js:218-288).
THEOREM RowsAreNotSkipped == Spec => []NothingSkipped
  <1>1. OrderInv => NothingSkipped
    BY DEF OrderInv, DueIsThere, Due, NothingSkipped
  <1> QED
    BY <1>1, OrderInvariant, PTL
=============================================================================
