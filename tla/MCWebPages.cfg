CONSTANTS
    Page = {"review", "documents", "memo", "decision", "dashboard", "list"}
    Doc = {d1, d2}
    Pdf = {d2}
    Length <- MCLength
    MAX_PREVIEW_PAGES = 3
    MaxClicks = 3
    MaxIntents = 2
    Worker = {w1}
    Cleaner = {c1}
    Limit = 2
    MAX_ROWS = 2
    Bank = {"b"}
    Month = {"m"}
    Money = {0, 70, 200}
    Requested = 70
    Installment <- MCInstallment
    InterestRate = {0, 10, 50}
    Fallback <- MCFallback
    MaxEdits = 3
    Tab = {t1, t2}
    User = {u1, u2}
    Buttons = 3
    Guarded = {1, 2}
    MaxRotations = 3
    FormCard = {"loan_application", "guarantor"}
    FormType <- MCFormType
    Defined = {"loan_application", "guarantor"}
    MaxCount = 1
    Poll = {p1, p2}
    Card = {k1, k2}
SPECIFICATION FairPagesSpec
CHECK_DEADLOCK FALSE
INVARIANTS
    PagesTypeOK
    RedirectIsStored
    ShownTotals
    NoFalseComfort
    CurrentToken
    ConfirmedFirst
PROPERTIES
    NoStaleRequest
    PreviewSettles
    ImplementsViewer
    SubmissionEnds
    BadgeCatchesUp
    NothingStaysHidden
