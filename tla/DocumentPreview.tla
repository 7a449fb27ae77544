--------------------------- MODULE DocumentPreview ---------------------------
(***************************************************************************)
(* The preview of documents (frontend/static/js/document-preview.js).      *)
(*                                                                         *)
(* Every click on a document starts an asynchronous rendering that fetches *)
(* the document and then loads one page image after another.  Nothing ends *)
(* the rendering of an earlier click: it goes on until it sees, after an   *)
(* await, that its request id is no longer the current one or that the     *)
(* preview is hidden.  What is between two awaits is one step.             *)
(***************************************************************************)
EXTENDS Integers, Sequences

CONSTANTS
    Doc,               \* documents linked from the page
    Pdf,               \* those the server answers as application/pdf
    Length,            \* Length[d]: the pages the server has images of
    MAX_PREVIEW_PAGES, \* 100
    MaxClicks          \* bound on the clicks

ASSUME PreviewAssumption ==
    /\ Doc # {} /\ Pdf \subseteq Doc
    /\ MAX_PREVIEW_PAGES \in Nat \ {0} /\ MaxClicks \in Nat
    /\ Length \in [Doc -> Nat]

VARIABLES
    hidden,           \* modal.hidden
    title,            \* the document named in the title, "none" before the first click
    preview,          \* [kind, pages]: the children of the preview, top down
    previewRequestId,
    clicks,           \* clicks so far
    rendering         \* rendering[k]: the rendering the k-th click has started

previewVars == <<hidden, title, preview, previewRequestId, clicks, rendering>>

Click == 1..MaxClicks

Pages(d, n) == [i \in 1..n |-> <<d, i>>]
Nothing(kind) == [kind |-> kind, pages |-> <<>>]

\* requestId === previewRequestId && !modal.hidden
Current(k) == rendering[k].id = previewRequestId /\ ~hidden

Ended(k) == [rendering EXCEPT ![k].step = "ended"]

-----------------------------------------------------------------------------
(* The user. *)

Started(d, id) == [step |-> "fetching", id |-> id, doc |-> d, page |-> 1, asked |-> 1]

\* The document's click listener: cancelPreview and ++previewRequestId.
ClickDocument(d) ==
    /\ clicks < MaxClicks
    /\ clicks' = clicks + 1
    /\ previewRequestId' = previewRequestId + 2
    /\ title' = d /\ hidden' = FALSE
    /\ preview' = Nothing("loading")
    /\ rendering' = [rendering EXCEPT ![clicks'] = Started(d, previewRequestId')]

\* The button, the overlay or Escape.
ClosePreview ==
    /\ ~hidden
    /\ previewRequestId' = previewRequestId + 1
    /\ preview' = Nothing("empty")
    /\ hidden' = TRUE
    /\ UNCHANGED <<title, clicks, rendering>>

-----------------------------------------------------------------------------
(* renderPreviewPages *)

\* Mutant: the catch does nothing.
RejectSilently(k) ==
    /\ rendering' = Ended(k)
    /\ UNCHANGED <<hidden, title, previewRequestId, clicks, preview>>

\* The error ends up in the catch of the click listener.
Reject(k) ==
    /\ rendering' = Ended(k)
    /\ preview' = IF Current(k) THEN Nothing("error") ELSE preview
    /\ UNCHANGED <<hidden, title, previewRequestId, clicks>>

GiveUp(k) ==
    /\ rendering' = Ended(k)
    /\ UNCHANGED <<hidden, title, previewRequestId, clicks, preview>>

\* The first response, and then its blob, come or fail.
FetchFails(k) == rendering[k].step \in {"fetching", "reading"} /\ Reject(k)

Fetched(k) ==
    /\ rendering[k].step = "fetching"
    /\ rendering' = [rendering EXCEPT ![k].step = "reading"]
    /\ UNCHANGED <<hidden, title, previewRequestId, clicks, preview>>

\* The frame takes the place of the loading notice.
PdfRead(k) ==
    /\ rendering[k].step = "reading" /\ rendering[k].doc \in Pdf
    /\ preview' = IF Current(k)
                  THEN [kind |-> "frame", pages |-> Pages(rendering[k].doc, 1)] ELSE preview
    /\ rendering' = Ended(k)
    /\ UNCHANGED <<hidden, title, previewRequestId, clicks>>

\* Mutant: the last round asks for one page more.
AwaitOneMore(k, page) ==
    rendering' = IF page > MAX_PREVIEW_PAGES THEN Ended(k)
                 ELSE [rendering EXCEPT ![k].step = "waiting", ![k].page = page,
                         ![k].asked = page + 1]

\* One round of the loop up to its await: the next page is asked for before
\* this one is there.
Await(k, page) ==
    rendering' = IF page > MAX_PREVIEW_PAGES THEN Ended(k)
                 ELSE [rendering EXCEPT ![k].step = "waiting", ![k].page = page,
                         ![k].asked = IF page < MAX_PREVIEW_PAGES THEN page + 1 ELSE page]

\* Mutant: the first round does not look at the request id.
ImageReadUnchecked(k) ==
    /\ rendering[k].step = "reading" /\ rendering[k].doc \notin Pdf
    /\ Await(k, 1)
    /\ UNCHANGED <<hidden, title, previewRequestId, clicks, preview>>

ImageRead(k) ==
    /\ rendering[k].step = "reading" /\ rendering[k].doc \notin Pdf
    /\ IF Current(k) THEN Await(k, 1) ELSE rendering' = Ended(k)
    /\ UNCHANGED <<hidden, title, previewRequestId, clicks, preview>>

\* replaceChildren for the first page, appendChild for the others.
ShowPage(k) ==
    LET image == <<rendering[k].doc, rendering[k].page>>
    IN  preview' = [kind |-> "pages",
                    pages |-> Append(IF rendering[k].page = 1 THEN <<>> ELSE preview.pages, image)]

\* Mutant: the image is shown although another document was opened meanwhile.
ImageLoadsUnchecked(k) ==
    /\ rendering[k].step = "waiting"
    /\ rendering[k].page <= Length[rendering[k].doc]
    /\ ShowPage(k) /\ Await(k, rendering[k].page + 1)
    /\ UNCHANGED <<hidden, title, previewRequestId, clicks>>

\* The image is shown and the next round begins without another await.
ImageLoads(k) ==
    /\ rendering[k].step = "waiting"
    /\ rendering[k].page <= Length[rendering[k].doc]
    /\ IF Current(k) THEN ShowPage(k) /\ Await(k, rendering[k].page + 1)
       ELSE rendering' = Ended(k) /\ preview' = preview
    /\ UNCHANGED <<hidden, title, previewRequestId, clicks>>

\* There is no such page, or the request fails: the end of the document, and
\* only for the first page an error.
ImageBreaks(k) ==
    /\ rendering[k].step = "waiting"
    /\ IF rendering[k].page = 1 THEN Reject(k) ELSE GiveUp(k)

-----------------------------------------------------------------------------
Unused == [step |-> "unused", id |-> 0, doc |-> "none", page |-> 1, asked |-> 0]

PreviewInit ==
    /\ hidden = TRUE
    /\ title = "none"
    /\ preview = Nothing("empty")
    /\ previewRequestId = 0
    /\ clicks = 0
    /\ rendering = [k \in Click |-> Unused]

Render(k) ==
    \/ FetchFails(k)
    \/ Fetched(k)
    \/ PdfRead(k)
    \/ ImageRead(k)
    \/ ImageLoads(k)
    \/ ImageBreaks(k)

PreviewNext ==
    \/ \E d \in Doc : ClickDocument(d)
    \/ ClosePreview
    \/ \E k \in Click : Render(k)

PreviewSpec == PreviewInit /\ [][PreviewNext]_previewVars

-----------------------------------------------------------------------------
(* Properties. *)

\* The modal and the renderings are well formed.
PreviewTypeOK ==
    /\ hidden \in BOOLEAN
    /\ title \in Doc \cup {"none"}
    /\ preview \in [kind : {"empty", "loading", "error", "frame", "pages"},
                    pages : Seq(Doc \X Nat)]
    /\ previewRequestId \in Nat
    /\ clicks \in 0..MaxClicks
    /\ rendering \in [Click -> [step : {"unused", "fetching", "reading", "waiting", "ended"},
                                id : Nat, doc : Doc \cup {"none"},
                                page : 1..MAX_PREVIEW_PAGES, asked : 0..MAX_PREVIEW_PAGES]]

\* What is below the title is the document the title names, its pages in order
\* and none twice, although older renderings still go on and the same document
\* may have been clicked before (the checks of lines 104 and 137).
ShownIsTitled == preview.pages = Pages(title, Len(preview.pages))

\* A rendering that was replaced or closed asks the server for no further page
\* (lines 128 and 137), however many are still to come.
NoStaleRequest ==
    [][\A k \in Click : rendering[k].step # "unused" /\ rendering'[k].asked > rendering[k].asked
                            => Current(k)]_previewVars

\* The loading notice of a rendering goes away: the document, the error, or
\* another click or the close takes its place.
PreviewSettles ==
    \A k \in Click :
        (rendering[k].step # "unused" /\ Current(k) /\ preview.kind = "loading")
            ~> (preview.kind # "loading" \/ ~Current(k))

Notice(kind) ==
    IF kind = "empty" THEN "closed"
    ELSE IF kind \in {"frame", "pages"} THEN "none" ELSE kind

\* The preview shows what PreviewViewer promises.
Viewer == INSTANCE PreviewViewer WITH
    LastPage <- MAX_PREVIEW_PAGES,
    titled <- title,
    notice <- Notice(preview.kind),
    content <- preview.pages

ImplementsViewer == Viewer!ViewerSpec
=============================================================================
