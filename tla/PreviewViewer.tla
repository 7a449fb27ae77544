---------------------------- MODULE PreviewViewer ----------------------------
(***************************************************************************)
(* What the document preview promises: below the title of a document there *)
(* is that document, as one frame or as its pages in their order without a *)
(* gap, or a notice; and nothing is left when the preview is closed.       *)
(***************************************************************************)
EXTENDS Naturals

CONSTANTS
    Doc,       \* documents
    Pdf,       \* those answered as one PDF
    LastPage   \* pages shown at most

VARIABLES
    titled,    \* the document the title names
    notice,    \* "closed", "loading", "error" or "none"
    content    \* the pages below the title, from top to bottom

viewer == <<titled, notice, content>>

\* The first n pages of d.
PagesOf(d, n) == [i \in 1..n |-> <<d, i>>]

ViewerInit ==
    /\ titled = "none"
    /\ notice = "closed"
    /\ content = PagesOf(titled, 0)

Open ==
    /\ titled' \in Doc
    /\ notice' = "loading"
    /\ content' = PagesOf(titled', 0)

Close ==
    /\ titled' = titled
    /\ notice' = "closed"
    /\ content' = PagesOf(titled, 0)

GiveUp ==
    /\ notice = "loading"
    /\ notice' = "error"
    /\ UNCHANGED <<titled, content>>

\* A PDF is its first page, and has no other.
ShowPage(n) ==
    /\ notice = IF n = 1 THEN "loading" ELSE "none"
    /\ titled \in Pdf => n = 1
    /\ content = PagesOf(titled, n - 1)
    /\ content' = PagesOf(titled, n)
    /\ notice' = "none"
    /\ titled' = titled

ViewerNext == Open \/ Close \/ GiveUp \/ \E n \in 1..LastPage : ShowPage(n)

ViewerSpec == ViewerInit /\ [][ViewerNext]_viewer
=============================================================================
