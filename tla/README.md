# A formal model of FieldCRM

FieldCRM takes small-business loan applications from the field to the
disbursement: a FastAPI/PostgreSQL backend with a server-rendered web front end
and a mobile API, and an Android application that works offline. This directory
holds TLA+ modules that model the parts of it where order, concurrency and
failure matter, the TLC configurations that check them, and proofs for TLAPS.
Paths below are relative to `src/` of the repository.

Run `tlc -config X.cfg M` for a row of the table of runs, `tlapm M_proofs.tla`
for a proof module. `PROJECT.json` lists the runs, for every property a
mutation of the code that breaks it, the source lines every definition stands
for, the hazards and the findings.

## 1. Inventory

### Components

| component | where | state | operations |
|---|---|---|---|
| Loan review workflow | `backend/app/domains/loans/`, `backend/app/core/workflow.py` | the `loan_applications` row (stage, amount, approvals, owner), `workflow_events`, the disbursement | submit, concur, advance, return, underwrite, CRM check, ED/MD decisions, MCC final amount, offer letter, disburse |
| Mobile API | `backend/app/api/v1/mobile.py` | the same rows | a twin of most workflow operations, visitation report, creation of applications, OCR review |
| Row-level security | `backend/migrations/040*, 051*, 012*` | policies and CHECK constraints | decides which rows an UPDATE of a role reaches |
| Refresh sessions | `backend/app/domains/auth/` | `refresh_tokens`, `users.active` | login, rotation, reuse detection, logout, revoke all, deactivate |
| Offline queue and replay | `shared/.../SyncRepository.kt`, `android/.../AndroidSyncWorker.kt`, `ApplicationViewModel.kt`, `Repository.kt` | SQLite tables `SyncQueue`, `LocalDocument`; passes in memory | file a mutation, try it directly, queue it, replay, back off, upload documents |
| Direct document upload | `backend/app/domains/documents/direct_upload.py`, `backend/migrations/cleanup_expired_document_uploads.py` | `document_upload_intents`, `documents`, files in Cloudinary | authorize, upload, finalize, clean up |
| Response cache | `backend/app/core/cache.py`, `dependencies.py` | versioned scopes in Redis | read through, invalidate |
| Database access | `backend/app/core/database.py` | one transaction per request | begin, commit, rollback |
| Server-side documents, previews | `backend/app/domains/documents/service.py` | `documents` | upload, preview, delete |
| OCR worker | `backend/app/domains/ocr/` | `ocr_jobs` | enqueue, run the pending jobs |
| Signing and evidence | `backend/app/domains/signing/` | signing sessions and frozen versions | start, authenticate, sign |
| Loan servicing | `backend/app/services/loan_servicing_service.py` | schedules, repayments | build the schedule, allocate a payment |
| Configurable workflow, maker-checker | `backend/app/domains/workflow/` | actions, workflow versions | record an action, advance (off by default) |
| Configuration hub | `backend/app/domains/configuration/` | configuration versions | draft, approve, publish |
| Core banking | `backend/app/domains/core_banking/` | posting outbox (off by default) | post, retry, reconcile |
| Customers, users, guarantors, branches, products, visitation, verification, credit bureau, feasibility, AML, notifications, audit, dashboards, PDF | `backend/app/domains/*`, `backend/app/services/*` | their tables | mostly one statement each |
| Progressive sections and lists | `frontend/static/js/progressive-loader.js`, `loans/router.py:4414`, `list_by_stage.sql` | a cached copy of each section, the nodes on screen, the pager's page | show the cached copy, refresh with retries, load the next page |
| Document preview | `frontend/static/js/document-preview.js` | the modal and its request id | open, close, fetch, show page after page |
| Direct upload, web client | `frontend/static/js/direct-document-upload.js` | one submission | authorize, post to Cloudinary, finalize, fall back |
| Credit memo (feasibility) | `frontend/static/js/cam-feasibility.js`, `domains/feasibility/`, `loans/collateral.py` | the form's tables, the figures shown, the saved profile | edit, add, remove, save, work out the ratios |
| Forms of the desktop shell | `csrf.js`, `ui-system.js`, `motion.js` under `frontend/static/js/`, `core/middleware.py` | the csrf cookie shared by the tabs, each form's token, dialog and buttons | open, fill, press, confirm, cancel, submit, log in and out |
| Dashboard widgets, public site | `frontend/static/js/dashboard.js`, `public-site.js` | active choice of each card, workspace, badges, hidden cards | choose, open, close, poll, reveal |
| Other pages, Android screens, session store | `frontend/`, `android/` | pages; encrypted preferences | user interface |

They meet in four ways. Web and mobile handlers call the repositories on one
transaction per request (`get_connection`): READ COMMITTED, committed when the
handler returns, rolled back when it raises. Requests of different people meet
only in committed rows. The phone and the server meet in requests that may be
lost, repeated or late. The backend and Cloudinary meet in calls that no
rollback undoes.

### Where it is hard

* A workflow handler reads the row without a lock, checks what it read, and
  writes later; `advance_stage.sql` and `mark_returned.sql` do not test the
  stage again, `approve.sql`, `ed_approve.sql`, `md_approve.sql` and
  `disburse.sql` do; under row-level security the policy adds a test of its own.
* Web and mobile have two implementations of most decisions, and the checks
  differ. The result of an UPDATE is not always looked at before its
  `workflow_events` row is written.
* A refresh token is good for one use: two tabs, two dependencies of one request
  and a logout use it at once. A bulk revocation sees the rows of its snapshot.
  An exception rolls back what was done to report it.
* Replay passes overlap, a request is applied while its answer is lost, the
  process is killed anywhere, and the server may refuse an item for ever, because
  of what it is or because its file has left intake meanwhile.
* A file is verified in Cloudinary long before its intent is claimed; the
  clean-up destroys files one by one and commits at the end.
* A page has several scripts on one DOM, each with its own asynchronous work:
  renderings that nobody ends, timers, polls and observers go on after what they
  were started for is gone. Tabs share cookies, not pages.
* A list is cut by offset while its order changes; page and server work out the
  same ratios twice, with different roundings.
* The cache stores an answer read before an invalidation that came in between;
  the OCR worker runs a batch in one transaction.

`PROJECT.json` has the hazards with their lines and the property for each.

### What makes each component correct

* Review: only an executive decision makes a file ready, however stale the
  reads; a payment is recorded once, on a ready, approved file with an offer;
  decisions act on the stage they were taken on; every move is in the history;
  with row-level security the whole is a chain of atomic decisions; approved
  files can be paid.
* Sessions: one live token per session; a rotation needs a live token at its
  commit; a logout ends its session whatever races it; a reported reuse has
  revoked the family.
* Offline: what the officer was told is done is on the server or in the queue; a
  document marked synced is stored; queued reports and captured documents
  arrive while the file takes them; a report is signed off once.
* Uploads: one document per authorization, whose verified file is still there; a
  success answer means a document; abandoned files the job reaches are removed;
  a page left with "Upload complete" has its document.
* Sections and lists: no row twice, none skipped; a section settles.
* Preview: what is shown is the document named, in order, or a notice that goes
  away; a replaced rendering asks for nothing more.
* Credit memo: the totals agree with the rows; a ratio shown within its ceiling is
  within it for the committee and for the approvers.
* Forms: no form is refused for a token another tab renewed; a guarded button is
  confirmed each time; the button that was pressed decides.
* Widgets: badges catch up; nothing in view stays invisible.

## 2. The modules

### LoanReview (and ReviewChain, its abstract specification)

`app[a]` is the row of an application, `request[w]` the request worker `w` is
serving with the stage it read, `traced[a]` whether the newest workflow event of
`a` names the stage `a` is in. A handler is two actions: `Begin...` reads the row
and makes the checks on what it read; `End...` makes the writes, the event and
the commit as one step, since the first UPDATE holds the row lock to the commit.
`Fail` is every rollback. Handlers that begin with an UPDATE, or act on nothing
they read, are one step (`DecideSome`). `Reaches` is the UPDATE policy of
migrations 040/051, in force when `RlsEnforced`.

| actions | code |
|---|---|
| Submit, Concur, Advance, ReturnWeb, ReturnMobile | submission, Team Lead/Supervisor decisions, `workflow/advance`, the two returns |
| Underwrite (Web, Mobile) | credit analyst's verdict |
| Crm..., EndCrmIncomplete, EndCrmReturn(Web, Mobile), EndCrmAdvanceMissed | the CRM check, on the web and on the phone |
| Ed..., Md... | executive decisions, with and without a new amount |
| FinalizeMcc | the committee's final amount |
| Offer, Disburse | offer letter, disbursement |
| VerifyOcrWeb, VerifyOcrMobile | the retired OCR review that is still served |

The data is what the properties tell apart: `high` (above the MD threshold)
stands for the amount, `analystOwns` for the owner columns, `offer` for a live
offer letter. One branch and one active user per role; a supervisor has its
branch in scope. Off, as by default: `CONFIGURABLE_WORKFLOW_ENABLED`,
`CONFIGURABLE_PRODUCTS_ENABLED`, `CBS_INTEGRATION_ENABLED`.

`ReviewChain` is what the workflow promises: stages and approvals only, whole
decisions, each taken on the stage the file is in. `ImplementsChain` is
`LoanReview => ReviewChain` under `stage <- app[a].stage`,
`decided <- edApproved \/ mdApproved`. Its `Resubmit` is there because a credit
analyst who saves the visitation report of a file in intake submits it, and owns a
later stage, so the policy does not stop that stale write
(`loans/router.py:2005-2050`).

### RefreshSession (and Sessions, its abstract specification)

`row[t]` is the committed row of token `t`; `txn[x]` an open transaction.
`BeginRotate` is `get_refresh_token_by_hash_for_update` and the checks behind it,
`EndRotate` the insert of the successor, the mark and the commit. A logout is
lock, snapshot of the UPDATE, commit (`BeginLogout`, `RevokeFamily`,
`EndRevoke`); `RevokeAll` has no lock before its snapshot. `DetectReuse` logs and
rolls back. `Abort` may end any transaction. Families expire as a whole and the
account may change at any time.

`Sessions` knows neither transactions nor locks nor expiry: a session begins
once, with one token; a token that can be traded is traded for a fresh one; a
session that has ended stays so. `ImplementsSessions` is
`RefreshSession => Sessions` where `live` is, for each family, the set of its
tokens that are neither used nor revoked. Only three commits change it: a login
(`Begin`), a rotation (`Trade`) and a revocation, which ends whole sessions
(`End`) however it raced the rotations.

### OfflineSync (and Outbox, its abstract specification)

The phone: `filed`, `acked` (what the officer was told), `queue`, `ui` (direct
tries that wait), `pass` (replay passes), `docs`. The network: requests under
way; the server: `delivered`, `report`, `signed`, `drafts`, `inIntake`, and
`rlsEnforced`, chosen once. The server takes documents while the file is in intake
(`can_upload_document`), and with row-level security reports too (the update policy
of migration 040); `SubmitToBranchManager` ends intake for good. A manager signs a
report off under that policy once the file has left intake (that it must not have
left the manager either is left out). A refusal is to a pass the same as no answer.
`queue` is the set of the rows of SyncQueue; their timestamps `at` order a replay. A direct try fails
for the phone at any time (`QueueStageAction`) while its request may still
arrive (`Apply`). A pass pushes the due items of its batch one by one, records
failures (back-off), then uploads the pending documents. `Killed` ends all
passes and tries; the tables survive.

`Outbox` has no rows, passes, requests or processes: an action is filed, the
officer is told it is done when it was applied or is kept (`Confirm`, `Keep`), it
may be applied at any time and more than once, and what is kept is released only
after it was applied; nothing is kept a second time. `ImplementsOutbox` is
`OfflineSync => Outbox` for the stage actions. Creations are left out of it, as a
creation that was refused is acknowledged and lost (section 5).

### DocumentUpload

`status`, `age`, `asset` are an intent's row, its place with respect to
`expires_at` and its file. `request[w]` is a finalization: `ReadIntent` (without a
lock), `VerifyAsset` (Cloudinary), `Claim` (UPDATE ... WHERE status = 'pending',
the document, the commit) or `LoseClaim`. `cleanup[c]` is a run of the clean-up
job: `CleanStart` locks the oldest abandoned intents (SKIP LOCKED, LIMIT),
`CleanDestroy` destroys one file at once and for good, `CleanCommit` or
`CleanAbort`. `orphaned` is a history variable: the pending intents whose file a
clean-up destroyed before it rolled back. `Reached` says that an intent is among
the oldest abandoned ones the job looks at. The client uploads once for each
authorization and asks to finalize after its upload was answered. Cloudinary does
not enforce `expires_at`. The UPDATE to 'expired' in finalize is undone by the
409 raised after it, so it is not an action.

### SectionLoader

One list with its first page (`section`, the refresh) and its further pages
(`pager`). `changed[r]` is `updated_at`, by which the server sorts; `Page(p)` is
the LIMIT and OFFSET. `shown` and `container` count the copies of each row on
screen and in the container the pager looked up; `attached` tells whether that is
still on screen. `SectionArrives` replaces the content if it differs, which the
pager's own nodes make it do (`Differs`); `ShowError`, after the last retry,
replaces everything. `OpenPage` is a visit: the cached copy survives it,
requests in flight do not.

### DocumentPreview (and PreviewViewer, its abstract specification)

`rendering[k]` is the asynchronous function the k-th click started. What lies
between two awaits is one action: `Fetched`, `PdfRead`, `ImageRead`, `ImageLoads`
(show this page, ask for the next but one) and their failures. `Current` is the
test of the request id and of the hidden modal. `PreviewViewer` knows only the
title, the notice and the pages below it; a step of a rendering is one of its
steps or a stutter.

### UploadForm

The web client on top of DocumentUpload, whose steps it takes part in: a
submission is `Submit`, `AuthorizationAnswered`, `CloudAnswered`,
`FinalizationAnswered`, or `Unavailable` and `FallbackAnswered`. An answer that
is lost is `SubmissionFails` after the server's step; the next submission starts
with another intent.

### CamFeasibility

`profile`, `history`, `turnovers` are the form and its tables, `figures` what the
page shows, `saved` the server's copy with what was shown when it was sent. Every
event ends in `Update`. `Save` is the parser (rows without a name are dropped, a
bank without a month is refused), the storage and the page that comes back, where
`Reopened` puts another value for zeros: the intake's for turnover and expenses,
the product's for the interest. `Flag` is the page's calculation of the ratios,
unrounded; `WithinDti` and `WithinGearing` are the server's, rounded half up, of the saved
profile for the committee's summary and of the reopened one for the page the
approvers open (`collateral.py:161-201`). Money is whole numbers, the margin 100%,
`Installment` any function of interest and amount.

### FormShell

The tabs of one browser with a form of `Buttons` submit buttons, of which
`Guarded` have `data-confirm`. `cookie` counts the renewals of the csrf cookie
by logins and logouts (which any tab may make). `SubmitForm` is one submit
event: csrf.js writes the token, motion.js disables the first button, then the
browser collects the fields.

### DashboardWidgets and Reveals

The cards, choice buttons and workspace of the form page, with `OpenFirstForm`,
which a template may call and which does not look at the card's choice; and badges: `StartPoll`
(every minute, whatever is under way), `ServePoll`, `PollArrives`, `PollFails`.
Reveals has the cards that `initScrollReveals` or public-site.js hides (`pending`)
until the observer sees them, and the section refresh that replaces the
nodes meanwhile.

### WebPages

Composes the pages: `page` is chosen once, as a page is loaded from the server
and its scripts share nothing with other pages but the server and the cookies; only
the scripts its template loads take steps. The documents page runs with the whole of
DocumentUpload (other clients, the clean-up) behind it. SectionLoader, whose
names are those of a module of its own, is checked by itself; Reveals has the
part of it that matters to the cards.

## 3. The runs

| run | module / cfg | checks | result |
|---|---|---|---|
| review | MCLoanReview | TypeOK, ReadyIsApproved, ReadyByExecutive, PaidOnlyWhenReady, StaleDecisionRefused, MovesAreTraced | holds without row-level security, 1.05 million states |
| review_rls | MCLoanReviewRls | NoStaleMove, ImplementsChain | holds with row-level security |
| advice_returns | AdviceReturnsToEd | AdviceReturnsToEd | violated: mobile MD approval of an advisory file |
| sessions | MCRefreshSession | TypeOK, OneLiveTokenPerFamily, ImplementsSessions, LogoutEndsSession | holds |
| reuse_revokes | ReuseRevokesFamily | ReuseRevokesFamily | violated: the exception undoes the revocation |
| offline | MCOfflineSync | TypeOK, StageActionsKept, SyncedIsStored, ImplementsOutbox | holds, with and without row-level security |
| offline_progress | ReportIsSynced | ReportIsSynced, DocumentIsSynced (fair) | holds, while the file takes them |
| no_double_signoff | NoDoubleSignoff | NoDoubleSignoff | violated: a replay reopens a signed report, without row-level security |
| uploads | MCDocumentUpload | TypeOK, OneDocumentPerIntent, DocumentHasAsset, AnsweredIsStored, OldestAreRemoved (fair) | holds |
| loader | MCSectionLoader | TypeOK, NoDuplicateRow, NothingSkipped, SectionSettles (fair) | holds |
| pages | MCWebPages | PagesTypeOK, RedirectIsStored, ShownTotals, NoFalseComfort, CurrentToken, ConfirmedFirst, NoStaleRequest, ImplementsViewer; fair: PreviewSettles, SubmissionEnds, BadgeCatchesUp, NothingStaysHidden | holds |
| chosen_action | ChosenActionIsSent | ChosenActionIsSent | violated: the busy state disables the pressed button |

### Bounds

* Review: one application and two workers. Every handler reads and writes the
  row of one application, so two applications never interact except in the
  workers they keep busy; two workers give the one stale read and one commit in
  between from which every race here is built, and further commits in between
  come from other uses of the second worker and from the one-step actions. The
  theorems hold for any number of both. `AnalystAssigned` is TRUE in the runs:
  without row-level security nothing reads the owner, and with it the stages behind
  the credit analyst would hardly be reached otherwise (section 5); the theorems
  cover both values.
* Sessions: four tokens, two families, two open transactions: two rotations of
  one family, or a rotation and a revocation, or a reuse against a rotation.
* Offline: two passes, one document and one mutation of any of the four kinds in
  the safety run (a stage action leaves two items in the queue, itself and a
  creation, so order and back-off of two items are there); one pass and one
  report in the liveness run, so that it has kills, back-off and refusals but no two
  passes at once (those are in the safety run). `MaxMutations` bounds the officer's actions. More
  mutations take the runs beyond minutes (the safety run with two mutations and one
  pass: 7.1 million states, no error); the theorems hold for any number.
* Uploads: two intents, two finalizations, two runs of the job. `Limit` is 100 in
  the job and 1 in the run, so that one abandoned intent keeps the job from the
  next, which is what Reached is about; batches of two are in the run `pages`
  (`Limit = 2`), and the theorems hold for any limit.
* Loader: three rows in pages of one, so that a row can move past the page that is
  loaded next and past the one after; four changes and two visits (the second
  begins with a cached copy); one retry for the code's three: there is a retry
  and a last one.
* Pages: three clicks on two documents (a PDF and two images with one page
  missing at the end of three), so that a rendering can outlive two others and the
  same document can be clicked again; two intents, one other finalization and
  one clean-up; tables of two rows (a full table and a removed row), three amounts
  of money and three rates of interest that put a ratio below its ceiling, on it (70
  of 200 is 35%) and above it, or leave it without a denominator, zeros that the page
  replaces among them; two tabs, two users, three buttons, two of
  them guarded, three renewals of the cookie; two cards, two polls under way; two
  cards to reveal.

### Fairness

* `RequestsEnd` (LoanReview): a request in progress commits or fails: the server
  has timeouts. `CrmPersists`: CRM tries the offer letter and the payment again
  until one try is not lost. Strong, as each try may lose a race with another
  request; no action of other roles is assumed fair. It is used only to show
  that even then a ready file is not left.
* `ReplayPersists` (OfflineSync): the periodic WorkManager job starts passes again
  and again and the back-off is a bounded time; strong, since a kill disables
  every step of a pass, and no request and no answer is lost for ever: a request
  the server takes is answered in the end, one it refuses only ends. The
  officer is not assumed to do anything.
* `CleanUpRunsAgain` (DocumentUpload): the clean-up is started again and again,
  and the same file's destruction does not fail for ever. Nothing is assumed of
  the clients or of finalizations.
* `FairSpec` (SectionLoader): a request of the section is answered or fails, and a
  timer goes off. That the server ever answers well is not assumed.
* `PagesFairness` (WebPages): requests of the previews and of the upload form end,
  well or not; the observer's callback runs for a card that stays in view; polls
  start again and again and end, and not all of them fail (strong: a badge can
  only catch up with answers). Nothing is assumed of the user, who may click, close
  or scroll at any time.

## 4. The proofs

TLAPS checks, for every number of applications, workers, tokens, transactions,
intents, runs of the job, mutations, replay passes, rows, pages, banks, months, clicks,
tabs, buttons and cards:

| module | theorem | states |
|---|---|---|
| LoanReview_proofs | TypeCorrect, ReadyFilesAreApproved, ReadyOnlyByExecutive, PaymentsAreDue, StaleDecisionsAreRefused, HistoryIsComplete | TypeOK, ReadyIsApproved, ReadyByExecutive, PaidOnlyWhenReady, StaleDecisionRefused, MovesAreTraced |
| LoanReview_proofs | ReadsSuitTheirRequests | ReadSuitsOp |
| LoanReview_proofs | ReviewsAreAtomicDecisions, MovesAreNeverStale, SettledFilesStay | ImplementsChain, NoStaleMove, SettledStays, assuming `RlsEnforced` |
| RefreshSession_proofs | TypeCorrect, SessionsAreSingle, SuccessorsAreDue, LogoutsEndSessions | TypeOK, OneLiveTokenPerFamily, SuccessorOfLiveToken, LogoutEndsSession |
| RefreshSession_proofs | SessionsAreImplemented, EndedSessionsStayOver | ImplementsSessions, SessionsStayOver |
| DocumentUpload_proofs | TypeCorrect, IntentsAreOneTime, DocumentsKeepTheirFile, AnswersAreTrue | TypeOK, OneDocumentPerIntent, DocumentHasAsset, AnsweredIsStored |
| DocumentUpload_proofs | FormTypeCorrect, RedirectsAreTrue | FormTypeOK, RedirectIsStored (of UploadForm) |
| OfflineSync_proofs | TypeCorrect, ActionsAreKept, MarksAreTrue, QueueIsAnOutbox, ReleasedActionsAreDone | TypeOK, StageActionsKept, SyncedIsStored, ImplementsOutbox, ReleasedIsDone |
| DocumentPreview_proofs | PreviewTypeCorrect, ShownIsTitledAlways, StaleRenderingsAskNothing, PreviewImplementsViewer | PreviewTypeOK, ShownIsTitled, NoStaleRequest, ImplementsViewer |
| SectionLoader_proofs | LoaderTypeCorrect, RowsAreNotDuplicated, RowsAreNotSkipped | TypeOK, NoDuplicateRow, NothingSkipped |
| CamFeasibility_proofs | CamTypeCorrect, TotalsAreShown, ComfortIsNotFalse | CamTypeOK, ShownTotals, NoFalseComfort |
| PageScripts_proofs | ShellTypeCorrect, TokenIsCurrent, GuardedIsConfirmed | ShellTypeOK, CurrentToken, ConfirmedFirst |
| PageScripts_proofs | WidgetsTypeCorrect | WidgetsTypeOK |
| PageScripts_proofs | HiddenCardsAreWatched | RevealTypeOK, HiddenIsWatched |
| PageScripts_proofs | PagesTypeCorrect, PagesKeepTheirForms, PagesPreviewRight, PagesAddUp | PagesTypeOK, CurrentToken, ConfirmedFirst, RedirectIsStored, ImplementsViewer, NoStaleRequest, ShownTotals, NoFalseComfort of the composed pages |

The arguments:

* LoanReview: `IInv == TypeOK /\ ReadyIsApproved /\ ReadSuitsOp`. ReadyIsApproved
  alone is not inductive: `EndAdvance` writes `NEXT_STAGE[seen]` whatever the
  committed stage is, so one needs that no request in flight read an executive
  stage for it (ReadSuitsOp), and that a disbursement in flight has seen an
  offer letter, which is never withdrawn.
  HistoryIsComplete is a second pass over the actions: each writes the stage its
  event names, or leaves the stage alone (`Told`), whatever was committed since
  its read.
* ReviewChain: `RlsInv == IInv /\ RoleSuitsOp`: the role of a request in flight
  is the one that owns the stage it read. An UPDATE that reaches the row proves
  that the role owns the stage it commits on; owners are distinct; so both
  stages are the same, and the step is one of ReviewChain or a stutter.
* RefreshSession: IInv adds that row locks are exclusive, that a rotation in
  flight holds a live token and an unused successor, that doomed tokens exist,
  and that a logout which saw the live token dooms all tokens of its family that
  are not revoked. The last one is why the lock must be taken before the
  snapshot: with `BeginLogoutUnlocked` it is false. The refinement needs no more
  than IInv: every step but three leaves the tokens' rows, seen as sessions, alone
  (SameTableSameSessions); a rotation's commit finds its token still live
  (SuccessorOfLiveToken), so it trades; and as a family has at most one live token, a
  revocation either reaches the whole of a session or nothing of it.
* DocumentUpload: IInv adds that a run's locked intents are abandoned ones and are
  locked once (LocksAreOnAbandoned), that a verified request's file is valid or
  has been destroyed by the clean-up (VerifiedIsValid), that a refused one's never
  was (RefusedIsInvalid), and that an orphan's file is gone (OrphanedIsDestroyed).

* DocumentPreview: PreviewInv adds that request ids are never used twice
  (IdsDiffer), that kind and pages of the preview fit (ContentFits), and that the
  current rendering has shown exactly the pages before the one it waits for
  (CurrentFits). Without IdsDiffer a rendering of an earlier click on the same
  document could pass for the current one. The refinement is a second pass: every
  step is Open, Close, GiveUp, one ShowPage, or leaves the viewer alone.
* SectionLoader: LoaderInv adds that a waiting timer has a retry left
  (RetryIsLeft). A page is appended against the container, which may be detached
  by then, so the counts of both are needed. For NothingSkipped, OrderInv adds that
  no time is in the future of the clock (TimesAreClocked), that the container has
  every row that has not changed since the list was opened, stood behind its first
  page then and lies on a page loaded so far (DueIsThere), and that the page under way has those of its own
  (AnswerHoldsDue). A change only moves its row to the front, so the position of
  every other row grows or stays (PositionGrows) and no unchanged row falls due
  behind the pager's back. Positions are cardinalities, hence the assumption that
  the rows are finitely many.
* CamFeasibility: the sums are folds over sets, whose definition picks the elements
  in an order of its own. The lemmas up to SumByKey give what a reader expects of a
  sum: it is a natural number, any element may be taken first, it adds over disjoint
  unions and over the values of a key, it grows with its terms. They are proved by
  first-order induction over finite sets, on the set of the subsets for which the
  claim holds. On top of them CamInv says that the figures are those of the present
  tables (FiguresAreCurrent). TotalsAreShown then regroups the inflow by month and
  bank (MonthsAddUp, InflowSplits). ComfortIsNotFalse is three facts: dropping the
  rows without a name can only lower rental and debt (NamedIsLess), rounding half
  up to two decimals cannot lift a ratio over a ceiling that is a whole number of
  percent (HalfUpKeepsCeiling), and the reopened page leaves assets and amount alone,
  and a turnover that made a profit (ReopenedAgrees); expenses and interest it
  may replace, hence the condition KeepsZeros for the approvers' debt to income.
* Reveals (in PageScripts_proofs): a card that is still invisible is observed, or
  the section that replaces it is under way (HiddenIsWatched): what NothingStaysHidden
  needs of the safe part.
* FormShell (in PageScripts_proofs): ShellInv adds that no button stays marked as confirmed between two
  events (NothingConfirmed), of which ConfirmedFirst follows for every click.
* DashboardWidgets (in PageScripts_proofs): the type invariant is inductive as it stands.
* UploadForm, on top of DocumentUpload: SubmissionIntact says that a page left for
  "Upload complete" left on an answered finalization of its intent; answers are
  never taken back (AnsweredGrows), every step of the form is a step of the server
  or leaves it alone (FormStepsServe), and AnsweredIsStored, OneDocumentPerIntent and
  DocumentHasAsset do the rest.
* OfflineSync: a pass deletes a row it read long ago, while other passes, failures
  and new mutations change the queue. StampsIdentify says that a timestamp names one
  mutation wherever it is met, in the queue or in a batch; AnswersAreTrue that whoever
  was answered (a screen, a pass about the item it is at) has been served. So a row
  goes only when its mutation has arrived. UploadsAreStored is the same for documents.
  The refinement adds TriesAreOpen: a direct try that waits is about a stage action
  of which the officer has not been told yet. With StampsIdentify a pass that
  deletes a row releases one action and no other; with AnswersAreTrue that one has
  been applied.
* What the code inherits: three action properties are proved on the few steps of an
  abstract specification and carried over by its refinement. A session that has
  ended is never live again (SessionsStayOver); an acknowledged action that is not in
  the queue was applied and never enters it again (ReleasedIsDone); with row-level
  security a returned, rejected or approved file never moves (SettledStays), which
  turns the first divergence of section 5 from an example into a theorem.
* WebPages: a step of a page is a step of its script or leaves the script alone, so
  that PagesSpec implies the specification of each (PagesAreTheirScripts), and their
  theorems hold on the composed pages, which is what the run `pages` checks.

Assumptions on constants are the named ASSUMEs of the modules: bounds are natural
numbers, page sizes and numbers of buttons are not zero, the rows of a list, the banks
and the months are finitely many (as they are in a table or a form of at most
`MAX_ROWS` rows), the empty name is not a bank or a month, and the amounts of money
are natural numbers with zero among them. Proved for every instance: all the
safety and action properties that hold, and the four refinements. Only
model-checked: liveness (ReportIsSynced, DocumentIsSynced, OldestAreRemoved,
SectionSettles, PreviewSettles, SubmissionEnds, BadgeCatchesUp, NothingStaysHidden),
which TLAPS does not prove under fairness.

## 5. Where code and documentation disagree

The four violation runs are in `PROJECT.json` with the quoted lines. Reading the
code for the models showed more, which have no run of their own. Of the first
two the modules state the property, and TLC finds it violated; of the next three
the properties state the exception, and fail without it:

* Under row-level security no role may update a file in disbursement_ready
  (`migrations/051_supervisor_mutation_scope.sql:14-21`), so approved files stay
  there: `ReadyIsLeft` under `CrmSpec` with `RlsEnforced = TRUE`.
* A creation of an application that the server refused is acknowledged and neither
  stored nor queued (`Repository.kt:348`): `CreationsKept` of OfflineSync, with
  one pass and the gesture CREATE_APPLICATION.
* The clean-up is to "remove any unfinalized Cloudinary asset"
  (`cleanup_expired_document_uploads.py:1`). The rows it expires stay in its selection,
  oldest first (`:31-35`), so that after as many abandoned intents as its limit every
  run selects the same ones, and the files of later intents stay for ever:
  the condition `Reached` of OldestAreRemoved.
* A document captured offline is refused once the file has been submitted to the
  branch manager (`loan_authorization.py:114`, `mobile.py:1020`), and with row-level security so is
  a report (`migrations/040_rls_security_foundation.sql:238`). Both stay on
  the phone and are tried again for ever, although the officer was told they are
  done and reads that "Supported offline mutations remain queued until synchronization
  succeeds" (`README.md:276`): the exceptions in ReportIsSynced and DocumentIsSynced.
* The calculator is pure "so the web, mobile, reporting, and approval paths all use
  the same financial result" (`calculator.py:3-4`). The page the approvers open puts
  the intake's turnover and expenses and the product's interest where zero was saved, and
  works the ratios out of that (`collateral.py:161-174`, `201`), while the committee's
  summary and the report use the stored zeros (`loans/router.py:3607`): what the analyst
  saw within the ceiling and saved, an approver may see above it. It is
  the exception KeepsZeros in NoFalseComfort.
* Two approvals above ₦10 million (`README.md:31`): the ED approves a high amount
  alone (`loans/router.py:3009`, `3132`); the amount may also be raised at any step.
* An MD denial is accepted whatever stage the file is in (`loans/router.py:3147`).
* The retired OCR review on the web puts a disbursed or rejected file back to the
  Team Lead (`loans/router.py:1915-1926`). Its old approvals
  stay on the row, so for such a file it is ReadyByExecutive, not ReadyIsApproved,
  that says an executive has to decide again.
* The CRM's return on the web writes no workflow event (`loans/router.py:2858`):
  the exception in MovesAreTraced. `md_add_comment` takes "UPDATE 0" for a success
  (`loans/repository.py:386`), and logs an event for no move.
* Nothing in the application sets `credit_officer_id`, so under row-level security
  the analyst owns no file unless one was returned to them (`051*.sql:18`).
* Returned files have no handler that takes them back (`loans/router.py:1626`).
* A bulk revocation does not see the successor of a rotation that is open when it
  starts (`auth/repository.py:83`); a logout does, as it locks first.
* A queued pledge has no route on the server (`SyncRepository.kt:104`) and stays in
  the queue for ever; a queued item that failed is overtaken by later ones
  (`SyncRepository.kt:70`, `AppDatabase.sq:59`); filing a report also posts a
  spurious creation (`ApplicationViewModel.kt:495,627,655`).
* A SQL error in one OCR job rolls the whole batch back, again and again
  (`ocr/router.py:74`).

In the web front end:

* A refresh is to replace the section "only ... if changed" (`progressive-loader.js:128`),
  but the pager's own sentinel makes the comparison fail every time
  (`Differs`); the container is detached, and further pages are appended to nodes nobody sees,
  against "Fetches the next record page without duplicating rows"
  (`docs/web-ui-role-inventory/README.md:61`). The 20 rows of the refresh take the
  place of up to 500 rendered ones. After the last retry the error box takes the
  place of data the server had rendered, and of the pager. The cache is keyed by the
  section alone and survives a logout.
* A preview whose page 2 or later fails ends there without a notice
  (`document-preview.js:141-143`); the object URL of a replaced PDF is never revoked
  (`document-preview.js:98-104`).
* A retry of the upload form after a lost last answer makes a second document with
  a second intent; `proxyFallback` takes a followed redirect to the login page for
  an upload (`direct-document-upload.js:26`, `redirected = "blind"`). No template
  calls `attachDirectDocumentUpload` yet.
* The credit memo shows unrounded ratios against the ceilings and the server
  rounded ones, so the page may say "above" where the server says "within" (the converse is NoFalseComfort);
  rows without an institution count on the page and are dropped by the server
  (`cam.py:93`).
* `openFirstForm` opens the loan application in manual mode while its card may say
  "upload" (`dashboard.js:432`).
* Only the first submit button is disabled (`motion.js:13`): a second click on
  another one submits again. A page rendered for one user submits as whoever has
  logged in since in another tab; the idle logout of one tab ends the session of an active
  one; a failed `/logout` leads to the login page with the session alive.
* `saveFormDraft` says "draft saved locally" and saves nothing
  (`dashboard.js:505`); `renderUploadMode` shows the same example values for every
  document. No template carries the hooks of form cards, badges, drawer and tour.

## 6. What is not modelled, and the plan

Modelled components leave out, beside the abstractions named above:

* Review: the audit and legal roles, the legacy `executive_approve` (its stage is
  unreachable), the unused `advance_to_crm_review` and `advance_to_executive_approval`,
  the MCC quorum, the credit bureau call, forms and comments.
* Sessions: `cleanup_expired_tokens`, `auth_sessions`, password reset tokens.
* Offline: the pull phase and the dossier cache, a failing `getMe`, an access token
  that expires during a pass, the IntegrityError branch of `mobile.py:859`, and a
  kill between the post of a creation and its queueing.
* Uploads: the upload through the server and a finalization that is still open 15
  minutes after its expiry and was never verified before (it only fails).
* Front end: the sanitizer and the performance metrics of the loader, two sections
  with one cache key; the memo's collateral and internal history, its stage
  check, terms and margin; tokens of fetch requests; toasts, tour, icons, style
  rules, the search of the configuration hub; redoc and swagger are vendored.

Hazards seen and left out of the list of `PROJECT.json`, which is kept to those
of components that are modelled or come next: CRM's finalization of the MCC
amount under row-level security (`loans/router.py:3660`), the return reason written under
the policy of the new stage (`loans/router.py:2462`), a failing credit
bureau submission in the transaction of the disbursement (`loans/router.py:3378`),
reset tokens that reactivate a user (`auth/repository.py:77`), the worker's access
token (`AndroidSyncWorker.kt:37`), and check-then-insert in the
maker-checker (`workflow/engine.py:35`).

Not modelled at all, and why: see the components with status `not_modelled` in
`PROJECT.json`. In this order the project is to grow:

1. Review and its refinement, sessions, uploads, offline replay, and the scripts of
   the web front end (done), with the proofs of their safety properties (done).
2. `ScopedCache` (`core/cache.py`): versions read before the handler, stored after it;
   no answer older than the last committed change of its scope is served.
3. `OcrWorker` (`ocr/`): claims, retries and the batch transaction; composed with
   DocumentUpload, whose claim enqueues the job.
4. `MakerChecker` (`workflow/engine.py`): no person acts on both sides, under
   concurrent check-then-insert.
5. `Signing`: a signed document is the version that was frozen and authenticated.
6. `LoanServicing`: schedules and allocation as operators, checked against a
   reference over small amounts; a payment is never allocated twice.
7. `ConfigurationHub`, `CoreBanking` (outbox and retries), customers' merge.
8. Proofs: each new module's type and safety invariants, and what its abstract
   specification promises.
